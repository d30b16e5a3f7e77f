----------------------------- MODULE BridgeProofs -----------------------------
(***************************************************************************)
(* What the calls of the tools and of the dashboard API keep for every set of   *)
(* chats, projects, settings, requests and callers, with any number of changes    *)
(* between their steps; and what loading settings and recall compute.              *)
(***************************************************************************)
EXTENDS Bridge, FiniteSetTheorems, TLAPS

-----------------------------------------------------------------------------
(* Settings. *)

LEMMA LoadTyped ==
  ASSUME NEW e \in Environments, NEW c \in Settings
  PROVE  /\ Load(e, c) \in Settings
         /\ RootOf(e, c) \in Roots
         /\ Load(e, c).coordinators = c.coordinators
         /\ AllowedRoot(Load(e, c)) \in Folders \cup {RepoRoot, Nothing}
<1> USE ConfigurationAssumption DEF Environments, Settings
<1>1. RootOf(e, c) \in Roots
  BY DEF RootOf, Or
<1>2. Selected(e, c) \in Folders \cup {Nothing} /\ Conflict(e, c) \in BOOLEAN
  BY DEF Selected, ActivationSource, Compatibility, Normalized, Or, Conflict, Disagree
<1>3. (IF e.root = Nothing THEN Or(c.legacy, RootOf(e, c)) ELSE e.root) \in Roots
  BY <1>1 DEF Or
<1>4. Load(e, c) \in Settings
  BY <1>1, <1>2, <1>3 DEF Load
<1>5. AllowedRoot(Load(e, c)) \in Folders \cup {RepoRoot, Nothing}
  <2>1. CASE NotAPath \in {c.project_root, c.allowed_project_root}
    BY <2>1 DEF Load, AllowedRoot
  <2>2. CASE NotAPath \notin {c.project_root, c.allowed_project_root}
    BY <1>2, <2>2 DEF Load, AllowedRoot, Or
  <2> QED BY <2>1, <2>2
<1> QED BY <1>1, <1>4, <1>5 DEF Load

\* Values of the settings that are paths, or nothing.
Paths(c) == NotAPath \notin {c.project_root, c.allowed_project_root}

\* load_config reloads its own result unchanged, for settings whose project roots are
\* paths: it does not matter how often the hook, Agent Zero's file, the API and the bridge
\* have loaded them.
THEOREM ReloadStable ==
  ASSUME NEW e \in Environments, NEW c \in Settings, Paths(c)
  PROVE  Load(e, Load(e, c)) = Load(e, c) /\ Paths(Load(e, c))
<1> USE ConfigurationAssumption DEF Environments, Settings
<1> DEFINE l == Load(e, c)
<1>1. l \in Settings
  BY LoadTyped
<1>2. Paths(l) /\ l.project_root_error = FALSE
  <2>1. Selected(e, c) \in Folders \cup {Nothing}
    BY DEF Selected, ActivationSource, Compatibility, Normalized, Or
  <2>2. NotAPath \notin Folders \cup {Nothing}
    OBVIOUS
  <2>3. l.project_root = Selected(e, c)
    BY DEF Load
  <2>4. l.allowed_project_root \in {Selected(e, c), c.allowed_project_root}
    BY DEF Load
  <2>5. (NotAPath \in {c.project_root, c.allowed_project_root}) = FALSE
    BY DEF Paths
  <2>6. l.project_root_error = (NotAPath \in {c.project_root, c.allowed_project_root})
    BY Zenon DEF Load
  <2> QED BY <2>1, <2>2, <2>3, <2>4, <2>5, <2>6 DEF Paths
<1>3. RootOf(e, l) = RootOf(e, c)
  BY DEF Load, RootOf, Or
<1>4. Selected(e, l) = Selected(e, c)
  BY <1>2 DEF Paths, Load, Selected, ActivationSource, Compatibility, Normalized, Or,
     Conflict, Disagree
<1>5. Conflict(e, l) = Conflict(e, c)
  BY <1>2 DEF Paths, Load, Selected, ActivationSource, Compatibility, Normalized, Or,
     Conflict, Disagree
<1>6. (IF e.root = Nothing THEN Or(l.legacy, RootOf(e, l)) ELSE e.root) = l.legacy
  BY <1>3, LoadTyped DEF Load, Or
<1>7. (IF Selected(e, l) # Nothing /\ ~Conflict(e, l)
       THEN Selected(e, l) ELSE l.allowed_project_root) = l.allowed_project_root
  BY <1>4, <1>5 DEF Load
<1> HIDE DEF l
<1>8. Load(e, l) =
        [root |-> RootOf(e, l),
         legacy |-> l.legacy, project_root |-> Selected(e, l),
         allowed_project_root |-> l.allowed_project_root, project_root_error |-> FALSE,
         scope_conflict |-> Conflict(e, l), coordinators |-> l.coordinators]
  <2>1. (NotAPath \in {l.project_root, l.allowed_project_root}) = FALSE
    BY <1>2 DEF Paths
  <2> QED BY <1>6, <1>7, <2>1, Zenon DEF Load
<1>9. /\ l.root = RootOf(e, c) /\ l.project_root = Selected(e, c)
      /\ l.scope_conflict = Conflict(e, c)
  BY DEF l, Load
<1>10. l = [root |-> l.root, legacy |-> l.legacy, project_root |-> l.project_root,
            allowed_project_root |-> l.allowed_project_root,
            project_root_error |-> l.project_root_error,
            scope_conflict |-> l.scope_conflict, coordinators |-> l.coordinators]
  BY <1>1
<1> QED BY <1>2, <1>3, <1>4, <1>5, <1>8, <1>9, <1>10 DEF l

\* A conflict is not resolved by storing what was loaded and loading it again.
THEOREM ConflictSurvives ==
  ASSUME NEW e \in Environments, NEW c \in Settings, Paths(c), Conflict(e, c)
  PROVE  Load(e, Load(e, c)).scope_conflict /\ AllowedRoot(Load(e, Load(e, c))) = Nothing
<1>1. Load(e, c).scope_conflict
  BY DEF Load
<1> QED BY <1>1, ReloadStable DEF AllowedRoot

\* configureProjectActivation (webui/memory-store.js) makes both project roots the
\* project's: unless the environment names another one, whatever the settings were before,
\* loading them selects that project, without a conflict or an error.
THEOREM ActivationResolves ==
  ASSUME NEW e \in Environments, NEW c \in Settings, NEW f \in Folders, NEW r \in Roots,
         e.project_root \in {Nothing, f}
  PROVE  LET a == [c EXCEPT !.root = r, !.project_root = f, !.allowed_project_root = f]
         IN /\ AllowedRoot(Load(e, a)) = f
            /\ e.root = Nothing => RootOf(e, Load(e, a)) = r
<1> USE ConfigurationAssumption DEF Environments, Settings
<1> DEFINE a == [c EXCEPT !.root = r, !.project_root = f, !.allowed_project_root = f]
<1>1. a.project_root = f /\ a.allowed_project_root = f /\ a.root = r
  OBVIOUS
<1>2. Selected(e, a) = f /\ Conflict(e, a) = FALSE
  BY <1>1 DEF Selected, ActivationSource, Compatibility, Normalized, Or, Conflict, Disagree
<1>3. RootOf(e, a) = Or(e.root, r)
  BY <1>1 DEF RootOf, Or
<1> HIDE DEF a
<1>4. AllowedRoot(Load(e, a)) = f
  BY <1>1, <1>2 DEF Load, AllowedRoot, Or
<1>5. e.root = Nothing => RootOf(e, Load(e, a)) = r
  BY <1>3 DEF Load, RootOf, Or
<1> QED BY <1>4, <1>5 DEF a

\* What a folder is chosen by, in the words of the settings themselves.
Asks(e, c) == Or(e.project_root, c.project_root)

LEMMA SourceOfLoaded ==
  ASSUME NEW e \in Environments, NEW c \in Settings, Paths(c)
  PROVE  LET source == AllowedRoot(Load(e, c)) IN
         source # Nothing =>
           /\ source = Or(Asks(e, c), Or(c.allowed_project_root, RepoRoot))
           /\ ~Disagree(Asks(e, c), c.allowed_project_root)
  BY ConfigurationAssumption DEF Environments, Settings, Paths, Asks, Load, AllowedRoot,
     Selected, ActivationSource, Compatibility, Normalized, Or, Conflict, Disagree

-----------------------------------------------------------------------------
(* Recall. *)

LEMMA Limits ==
  ASSUME NEW n \in Nat
  PROVE  /\ RequestedLimit(n) \in Nat /\ 1 <= RequestedLimit(n) /\ RequestedLimit(n) <= MaxLimit
         /\ ScanWindow(n) \in Nat /\ ScanFactor * RequestedLimit(n) <= ScanWindow(n)
<1> USE RecallAssumption
<1>1. RequestedLimit(n) \in Nat /\ 1 <= RequestedLimit(n) /\ RequestedLimit(n) <= MaxLimit
  BY DEF RequestedLimit, Larger, Smaller
<1> DEFINE k == RequestedLimit(n)
<1>2. ScanFactor * k \in Nat /\ ScanFactor * MaxLimit \in Nat
  BY <1>1
<1>3. ScanFactor * k <= ScanFactor * MaxLimit
  BY <1>1
<1> HIDE DEF k
<1>4. ScanFactor * k <= ScanCap
  BY <1>2, <1>3
<1>5. Smaller(ScanCap, Larger(ScanFactor * k, ScanLimit)) \in Nat
        /\ ScanFactor * k <= Smaller(ScanCap, Larger(ScanFactor * k, ScanLimit))
  BY <1>2, <1>4 DEF Smaller, Larger
<1> QED BY <1>1, <1>5 DEF ScanWindow, k

\* recall returns only memories that pass the filters, and as many as there are, up to
\* the limit, when the memories that pass the core's filters are no more than the scan
\* factor times the limit, for any scan limit and cap that RecallAssumption allows.
THEOREM RecallExact ==
  ASSUME NEW f, NEW n \in Nat, NEW blank \in BOOLEAN, NEW S, IsFiniteSet(S),
         NEW F \in Recalls(f, n, blank, S)
  PROVE  /\ F \subseteq Filtered(f, S)
         /\ blank \/ Cardinality(Matched(f, S)) <= ScanFactor * RequestedLimit(n) =>
              Cardinality(F) = Smaller(RequestedLimit(n), Cardinality(Filtered(f, S)))
<1> DEFINE C == Matched(f, S)
<1>1. PICK T \in Scanned(f, n, blank, S) : F \in Cuts(RequestedLimit(n), Filtered(f, T))
  BY DEF Recalls
<1>2. C \subseteq S /\ IsFiniteSet(C) /\ Cardinality(C) \in Nat
  BY FS_Subset, FS_CardinalityType DEF Matched
<1>3. T \subseteq S /\ F \subseteq Filtered(f, T)
  BY <1>1, <1>2 DEF Scanned, Cuts, Matched
<1>4. F \subseteq Filtered(f, S)
  BY <1>3 DEF Filtered, Matched
<1>5. ASSUME ~blank, Cardinality(C) <= ScanFactor * RequestedLimit(n)
      PROVE  T = C
  <2>1. T \in SUBSET C /\ Cardinality(T) = Smaller(ScanWindow(n), Cardinality(C))
    BY <1>1, <1>5 DEF Scanned, Cuts
  <2>2. ScanFactor * RequestedLimit(n) \in Nat
    BY Limits, RecallAssumption
  <2>3. Cardinality(C) <= ScanWindow(n)
    BY <1>2, <1>5, <2>2, Limits
  <2>4. Cardinality(T) = Cardinality(C)
    BY <1>2, <2>1, <2>3, Limits DEF Smaller
  <2> QED BY <1>2, <2>1, <2>4, FS_Subset
<1>6. ASSUME blank PROVE T = S
  BY <1>1, <1>6 DEF Scanned
<1>7. ASSUME T = C \/ T = S PROVE Filtered(f, T) = Filtered(f, S)
  BY <1>7 DEF Filtered, Matched
<1>8. Cardinality(F) = Smaller(RequestedLimit(n), Cardinality(Filtered(f, T)))
  BY <1>1 DEF Cuts
<1> QED BY <1>4, <1>5, <1>6, <1>7, <1>8

-----------------------------------------------------------------------------
(* The invariant of the calls. *)

\* Settings that come from others by loading: the memory root and the coordinators are
\* theirs, and all of it is when their project roots are paths.
Reached(e, c, from) ==
  /\ RootOf(e, c) = RootOf(e, from)
  /\ c.coordinators = from.coordinators
  /\ Paths(from) => c = Load(e, from)

LEMMA ReachedLoad ==
  ASSUME NEW e \in Environments, NEW c \in Settings, NEW from \in Settings,
         Reached(e, c, from)
  PROVE  Reached(e, Load(e, c), from)
<1> USE ConfigurationAssumption DEF Environments, Settings
<1>1. RootOf(e, Load(e, c)) = RootOf(e, c)
  BY DEF Load, RootOf, Or
<1>2. Load(e, c).coordinators = c.coordinators
  BY LoadTyped
<1>3. ASSUME Paths(from) PROVE Load(e, c) = Load(e, from)
  BY <1>3, ReloadStable DEF Reached
<1> QED BY <1>1, <1>2, <1>3 DEF Reached

LEMMA ReachedFirst ==
  ASSUME NEW e \in Environments, NEW from \in Settings
  PROVE  Reached(e, Load(e, from), from)
<1> USE ConfigurationAssumption DEF Environments, Settings
<1>1. RootOf(e, Load(e, from)) = RootOf(e, from)
  BY DEF Load, RootOf, Or
<1> QED BY <1>1, LoadTyped DEF Reached

\* The history knows where every chat is and the default root, and the settings saved are
\* the user's, loaded.
HistoryOK ==
  /\ \A c \in Chats : <<c, project[c]>> \in past
  /\ \A p \in Names : Reached(env, saved[p], edited[p]) /\ RootOf(env, edited[p]) \in roots[p]
  /\ RootOf(env, Unset) \in roots[Nothing]

\* A call works with the settings of its project, or with those of no project.
Settled(p) ==
  /\ Reached(env, call[p].cfg, call[p].from)
  /\ RootOf(env, call[p].from) \in roots[call[p].home]
  /\ AllowedRoot(call[p].cfg) \in Folders \cup {RepoRoot, Nothing}

\* From its second step on a call has the identity of its chat.
Identified(p) ==
  LET k == call[p] IN
  /\ k.pc # "idle" /\ k.chat = Nothing => ~NeedsChat(k.req)
  /\ k.pc \in {"gate", "init", "open", "core"} /\ k.chat = Nothing => k.id = Anonymous
  /\ k.pc \in {"gate", "init", "open", "core"} /\ k.chat # Nothing =>
       /\ k.id.session = k.chat /\ k.id.profile = ProfileOf[k.chat]
       /\ k.id.workflow = Or(ParentOf[k.chat], k.chat)
       /\ <<k.chat, k.id.project>> \in past

\* Before its last step a call has no token and no answer, and it creates the store only
\* for an operation that may.
UnderWay(p) ==
  /\ call[p].pc # "idle" => ~call[p].token /\ call[p].answer = "none"
  /\ call[p].pc \in {"init", "open"} => Opens(call[p].req)

\* An operation id is forwarded unchanged.
KeysForwarded == \A m \in Stored : m.key = m.asked

IInv ==
  /\ TypeOK /\ IsFiniteSet(memories) /\ HistoryOK
  /\ \A p \in Callers : Settled(p) /\ Identified(p) /\ UnderWay(p)
  /\ WriterIsCaller /\ OneProjectPerWrite /\ KeysForwarded /\ OncePerOperation
  /\ CapabilityIsLeast /\ CoordinatorNotDenied /\ SourceSelected

USE DEF Names

LEMMA UnsetTyped == Unset \in Settings
  BY ConfigurationAssumption DEF Unset, Settings

LEMMA Initially == Init => IInv
<1> SUFFICES ASSUME Init PROVE IInv
  OBVIOUS
<1> USE BridgeAssumption
<1>1. env \in Environments /\ project \in [Chats -> Names] /\ store \in [Roots -> States]
  BY DEF Init
<1>2. /\ \A p \in Names : Load(env, Given[p]) \in Settings /\ RootOf(env, Given[p]) \in Roots
      /\ RootOf(env, Unset) \in Roots
  BY <1>1, LoadTyped, UnsetTyped
<1>3. /\ saved \in [Names -> Settings] /\ edited \in [Names -> Settings]
      /\ roots \in [Names -> SUBSET Roots]
  BY <1>2 DEF Init
<1>4. (CHOOSE r \in Requests : TRUE) \in RequestType
  OBVIOUS
<1>5. Anonymous \in Identities
  BY DEF Anonymous, Identities
<1>6. call \in [Callers -> CallType]
  <2> DEFINE k == [pc |-> "idle", number |-> 0, req |-> CHOOSE r \in Requests : TRUE,
                   chat |-> Nothing, cfg |-> saved[Nothing], id |-> Anonymous,
                   home |-> Nothing, from |-> Given[Nothing], token |-> FALSE,
                   source |-> Nothing, answer |-> "none", found |-> {}]
  <2>1. saved[Nothing] \in Settings /\ Given[Nothing] \in Settings
    BY <1>3
  <2>2. k \in CallType
    BY <1>4, <1>5, <2>1 DEF CallType, Answers
  <2>3. call = [p \in Callers |-> k]
    BY DEF Init
  <2> HIDE DEF k
  <2> QED BY <2>2, <2>3
<1>7. memories \subseteq Seeded /\ IsFiniteSet(memories) /\ Stored = {}
  BY FS_Subset DEF Init, Stored
<1>8. TypeOK
  BY <1>1, <1>3, <1>6, <1>7 DEF Init, TypeOK
<1>9. HistoryOK
  <2>1. \A p \in Names : Reached(env, saved[p], edited[p])
    BY <1>1, <1>3, ReachedFirst DEF Init
  <2>2. \A p \in Names : RootOf(env, edited[p]) \in roots[p]
    BY DEF Init
  <2>3. RootOf(env, Unset) \in roots[Nothing]
    BY DEF Init
  <2> QED BY <1>1, <2>1, <2>2, <2>3 DEF Init, HistoryOK
<1>10. ASSUME NEW p \in Callers
       PROVE  Settled(p) /\ Identified(p) /\ UnderWay(p) /\ call[p].token = FALSE /\ call[p].source = Nothing
                /\ call[p].answer = "none"
  <2>1. /\ Nothing \in Names /\ edited = Given
        /\ AllowedRoot(Load(env, Given[Nothing])) \in Folders \cup {RepoRoot, Nothing}
    BY <1>1, LoadTyped DEF Init
  <2>2. /\ call[p].pc = "idle" /\ call[p].cfg = saved[Nothing] /\ call[p].from = Given[Nothing]
        /\ call[p].home = Nothing /\ call[p].token = FALSE /\ call[p].source = Nothing
        /\ call[p].answer = "none" /\ saved[Nothing] = Load(env, Given[Nothing])
    BY DEF Init
  <2> QED BY <1>9, <2>1, <2>2 DEF HistoryOK, Settled, Identified, UnderWay
<1>11. CapabilityIsLeast /\ CoordinatorNotDenied /\ SourceSelected
  BY <1>10 DEF CapabilityIsLeast, CoordinatorNotDenied, SourceSelected
<1>12. WriterIsCaller /\ OneProjectPerWrite /\ KeysForwarded /\ OncePerOperation
  BY <1>7 DEF WriterIsCaller, OneProjectPerWrite, KeysForwarded, OncePerOperation
<1> QED BY <1>7, <1>8, <1>9, <1>10, <1>11, <1>12 DEF IInv

-----------------------------------------------------------------------------
(* The steps of a call. *)

LEMMA SettingsReached ==
  ASSUME IInv, NEW c \in Chats \cup {Nothing}
  PROVE  /\ SettingsOf(c) \in Settings /\ HomeOf(c) \in Names
         /\ Reached(env, SettingsOf(c), edited[HomeOf(c)])
         /\ RootOf(env, SettingsOf(c)) \in Roots
         /\ AllowedRoot(SettingsOf(c)) \in Folders \cup {RepoRoot, Nothing}
<1> USE BridgeAssumption DEF IInv, TypeOK
<1>1. HomeOf(c) \in Names /\ env \in Environments
  BY DEF HomeOf
<1> DEFINE s == saved[HomeOf(c)]
           l == Load(env, s)
           ll == Load(env, l)
           from == edited[HomeOf(c)]
<1>2. s \in Settings /\ from \in Settings /\ Reached(env, s, from)
  BY <1>1 DEF HistoryOK
<1>3. l \in Settings /\ Reached(env, l, from)
  BY <1>1, <1>2, LoadTyped, ReachedLoad
<1> HIDE DEF l
<1>4. /\ ll \in Settings /\ Reached(env, ll, from)
      /\ AllowedRoot(ll) \in Folders \cup {RepoRoot, Nothing}
  BY <1>1, <1>2, <1>3, LoadTyped, ReachedLoad
<1> HIDE DEF ll
<1>5. /\ Load(env, ll) \in Settings /\ Reached(env, Load(env, ll), from)
      /\ AllowedRoot(Load(env, ll)) \in Folders \cup {RepoRoot, Nothing}
  BY <1>1, <1>2, <1>4, LoadTyped, ReachedLoad
<1>6. SettingsOf(c) \in {ll, Load(env, ll)}
  BY DEF SettingsOf, HomeOf, l, ll
<1> QED BY <1>1, <1>4, <1>5, <1>6, LoadTyped

\* What a step of a call leaves alone, and what it may do to the call itself.
LEMMA OthersKeep ==
  ASSUME IInv, NEW p \in Callers, UNCHANGED agentzero, NEW k \in CallType,
         call' = [call EXCEPT ![p] = k],
         Settled(p)', Identified(p)', UnderWay(p)',
         k.token => Coordinated(k.req) /\ k.id.profile \in k.from.coordinators,
         k.answer = "denied" /\ HostToken => k.id.profile \notin k.from.coordinators,
         k.source # Nothing => k.source = AllowedRoot(k.cfg) \/ (k.source = call[p].source /\ k.from = call[p].from)
  PROVE  /\ call' \in [Callers -> CallType]
         /\ HistoryOK'
         /\ \A q \in Callers : Settled(q)' /\ Identified(q)' /\ UnderWay(q)'
         /\ CapabilityIsLeast' /\ CoordinatorNotDenied' /\ SourceSelected'
<1>1. call' \in [Callers -> CallType]
  BY DEF IInv, TypeOK
<1>2. HistoryOK'
  BY DEF agentzero, IInv, HistoryOK
<1>3. /\ call'[p] = k
      /\ \A q \in Callers \ {p} : call'[q] = call[q]
  BY DEF IInv, TypeOK
<1>4. ASSUME NEW q \in Callers PROVE Settled(q)' /\ Identified(q)' /\ UnderWay(q)'
  <2>1. CASE q = p
    BY <2>1
  <2>2. CASE q # p
    BY <1>3, <2>2 DEF agentzero, IInv, Settled, Identified, UnderWay
  <2> QED BY <2>1, <2>2
<1>5. CapabilityIsLeast'
  BY <1>3 DEF IInv, CapabilityIsLeast
<1>6. CoordinatorNotDenied'
  BY <1>3 DEF IInv, CoordinatorNotDenied
<1>7. SourceSelected'
  <2> SUFFICES ASSUME NEW q \in Callers, call'[q].source # Nothing, Paths(call'[q].from)
               PROVE  /\ call'[q].source = Or(Asks(env, call'[q].from),
                                             Or(call'[q].from.allowed_project_root, RepoRoot))
                      /\ ~Disagree(Asks(env, call'[q].from), call'[q].from.allowed_project_root)
    BY DEF SourceSelected, Paths, Asks, agentzero
  <2>1. CASE q # p \/ (k.source = call[p].source /\ k.from = call[p].from)
    BY <1>3, <2>1 DEF IInv, SourceSelected, Paths, Asks
  <2>2. CASE q = p /\ k.source = AllowedRoot(k.cfg)
    <3>1. k.cfg = Load(env, k.from)
      BY <1>3, <2>2 DEF Settled, Reached, agentzero
    <3>2. env \in Environments /\ k.from \in Settings
      BY BridgeAssumption DEF IInv, TypeOK, CallType
    <3> QED BY <1>3, <2>2, <3>1, <3>2, SourceOfLoaded
  <2> QED BY <1>3, <2>1, <2>2
<1> QED BY <1>1, <1>2, <1>4, <1>5, <1>6, <1>7

\* The invariants of the memories, which only Run changes.
LEMMA MemoriesKept ==
  ASSUME IInv, UNCHANGED <<memories, past, roots>>
  PROVE  /\ IsFiniteSet(memories)'
         /\ WriterIsCaller' /\ OneProjectPerWrite' /\ KeysForwarded' /\ OncePerOperation'
  BY DEF IInv, WriterIsCaller, OneProjectPerWrite, KeysForwarded, OncePerOperation, SameWriter,
     Stored

LEMMA BeginKeeps ==
  ASSUME IInv, NEW p \in Callers, NEW r \in Requests, NEW c \in Chats \cup {Nothing},
         NEW cfg \in Settings, NEW home \in Names, NEW from \in Settings,
         Begin(p, r, c, cfg, home, from), changes' \in Nat,
         Reached(env, cfg, from), RootOf(env, from) \in roots[home],
         AllowedRoot(cfg) \in Folders \cup {RepoRoot, Nothing},
         NEW root \in Roots, store' \in Bootstraps(root)
  PROVE  IInv'
<1> DEFINE k == [pc |-> "identity", number |-> calls + 1, req |-> r, chat |-> c,
                 cfg |-> cfg, id |-> Anonymous, home |-> home, from |-> from,
                 token |-> FALSE, source |-> Nothing, answer |-> "none", found |-> {}]
<1>1. r \in RequestType /\ Anonymous \in Identities /\ calls + 1 \in Nat
  BY BridgeAssumption DEF Anonymous, Identities, IInv, TypeOK
<1>2. k \in CallType
  BY <1>1 DEF CallType, Answers
<1>3. /\ UNCHANGED <<agentzero, policy, memories, late>> /\ calls' = calls + 1
      /\ c = Nothing => ~NeedsChat(r)
  BY DEF Begin
<1>4. /\ k.pc = "identity" /\ k.req = r /\ k.chat = c /\ k.cfg = cfg
      /\ k.home = home /\ k.from = from /\ k.token = FALSE
      /\ k.source = Nothing /\ k.answer = "none"
  OBVIOUS
<1>5. call' = [call EXCEPT ![p] = k]
  BY DEF Begin
<1> HIDE DEF k
<1>6. call'[p] = k
  BY <1>5 DEF IInv, TypeOK
<1>7. Settled(p)'
  BY <1>3, <1>4, <1>6 DEF Settled, agentzero
<1>8. Identified(p)' /\ UnderWay(p)'
  BY <1>3, <1>4, <1>6 DEF Identified, UnderWay
<1>9. /\ call' \in [Callers -> CallType] /\ HistoryOK'
      /\ \A q \in Callers : Settled(q)' /\ Identified(q)' /\ UnderWay(q)'
      /\ CapabilityIsLeast' /\ CoordinatorNotDenied' /\ SourceSelected'
  BY <1>2, <1>3, <1>4, <1>5, <1>7, <1>8, OthersKeep
<1>10. store' \in [Roots -> States]
  BY DEF Bootstraps, IInv, TypeOK, States
<1>11. TypeOK'
  BY <1>1, <1>3, <1>9, <1>10 DEF IInv, TypeOK, agentzero
<1> QED BY <1>3, <1>9, <1>11, MemoriesKept DEF IInv, agentzero

LEMMA RequestKeeps == ASSUME IInv, NEW p \in Callers, Request(p) PROVE IInv'
<1>1. PICK r \in Requests, c \in Chats \cup {Nothing} :
        /\ Begin(p, r, c, SettingsOf(c), HomeOf(c), edited[HomeOf(c)])
        /\ store' \in IF c = Nothing THEN {store} ELSE Bootstraps(RootOf(env, SettingsOf(c)))
        /\ UNCHANGED changes
  BY DEF Request
<1>2. /\ SettingsOf(c) \in Settings /\ HomeOf(c) \in Names
      /\ Reached(env, SettingsOf(c), edited[HomeOf(c)])
      /\ RootOf(env, SettingsOf(c)) \in Roots
      /\ AllowedRoot(SettingsOf(c)) \in Folders \cup {RepoRoot, Nothing}
  BY SettingsReached
<1>3. /\ edited[HomeOf(c)] \in Settings
      /\ RootOf(env, edited[HomeOf(c)]) \in roots[HomeOf(c)] /\ changes' \in Nat
  BY <1>1, <1>2 DEF IInv, TypeOK, HistoryOK
<1>4. store' \in Bootstraps(RootOf(env, SettingsOf(c)))
  BY <1>1 DEF Bootstraps
<1> QED BY <1>1, <1>2, <1>3, <1>4, BeginKeeps

LEMMA RequestDefaultsKeeps == ASSUME IInv, NEW p \in Callers, RequestDefaults(p) PROVE IInv'
<1> DEFINE l == Load(env, Unset)
<1>1. PICK r \in Requests, c \in Chats :
        /\ Begin(p, r, c, Load(env, l), Nothing, Unset)
        /\ store' \in Bootstraps(RootOf(env, SettingsOf(c)))
  BY DEF RequestDefaults
<1>2. env \in Environments /\ changes' \in Nat
  BY BridgeAssumption DEF IInv, TypeOK, RequestDefaults, Change
<1>3. Unset \in Settings /\ l \in Settings /\ Reached(env, l, Unset)
  BY <1>2, UnsetTyped, LoadTyped, ReachedFirst
<1>4. RootOf(env, Unset) \in roots[Nothing] /\ RootOf(env, SettingsOf(c)) \in Roots
  BY SettingsReached DEF IInv, HistoryOK
<1> HIDE DEF l
<1>5. /\ Load(env, l) \in Settings /\ Reached(env, Load(env, l), Unset)
      /\ AllowedRoot(Load(env, l)) \in Folders \cup {RepoRoot, Nothing}
  BY <1>2, <1>3, LoadTyped, ReachedLoad
<1> QED BY <1>1, <1>2, <1>3, <1>4, <1>5, BeginKeeps

\* A step that changes nothing but the call's place in it, and its answer.
LEMMA PlaceKeeps ==
  ASSUME IInv, NEW p \in Callers, UNCHANGED <<agentzero, policy, memories, calls, changes>>,
         store' \in [Roots -> States], late' \subseteq Callers,
         NEW pc \in {"idle", "gate", "init", "open", "core"}, NEW answer \in Answers,
         call' = [call EXCEPT ![p].pc = pc, ![p].answer = answer],
         pc # "idle" => call[p].pc \in {"gate", "init", "open", "core"} /\ answer = "none",
         pc \in {"init", "open"} => Opens(call[p].req),
         answer = "denied" /\ HostToken => call[p].id.profile \notin call[p].from.coordinators
  PROVE  IInv'
<1> DEFINE k == [call[p] EXCEPT !.pc = pc, !.answer = answer]
<1>1. call[p] \in CallType
  BY DEF IInv, TypeOK
<1>2. /\ k \in CallType /\ k.pc = pc /\ k.answer = answer
      /\ k.req = call[p].req /\ k.chat = call[p].chat /\ k.cfg = call[p].cfg
      /\ k.id = call[p].id /\ k.home = call[p].home /\ k.from = call[p].from
      /\ k.token = call[p].token /\ k.source = call[p].source
  BY <1>1 DEF CallType
<1>3. call' = [call EXCEPT ![p] = k]
  OBVIOUS
<1> HIDE DEF k
<1>4. call'[p] = k
  BY <1>3 DEF IInv, TypeOK
<1>5. Settled(p)' /\ Identified(p)' /\ UnderWay(p)'
  <2>1. Settled(p)'
    BY <1>2, <1>4 DEF Settled, agentzero, IInv
  <2>2. Identified(p)'
    <3>1. Identified(p) /\ past' = past
      BY DEF IInv, agentzero
    <3>2. k.pc # "idle" => call[p].pc # "idle"
      BY <1>2
    <3>3. k.pc \in {"gate", "init", "open", "core"} => call[p].pc \in {"gate", "init", "open", "core"}
      BY <1>2
    <3>4. k.pc # "idle" /\ k.chat = Nothing => ~NeedsChat(k.req)
      BY <1>2, <3>1, <3>2 DEF Identified
    <3>5. k.pc \in {"gate", "init", "open", "core"} /\ k.chat = Nothing => k.id = Anonymous
      BY <1>2, <3>1, <3>3 DEF Identified
    <3>6. k.pc \in {"gate", "init", "open", "core"} /\ k.chat # Nothing =>
            /\ k.id.session = k.chat /\ k.id.profile = ProfileOf[k.chat]
            /\ k.id.workflow = Or(ParentOf[k.chat], k.chat)
            /\ <<k.chat, k.id.project>> \in past'
      BY <1>2, <3>1, <3>3 DEF Identified
    <3> QED BY <1>4, <3>4, <3>5, <3>6, Zenon DEF Identified
  <2>3. UnderWay(p)'
    BY <1>2, <1>4 DEF UnderWay, IInv
  <2> QED BY <2>1, <2>2, <2>3
<1>6. k.token => Coordinated(k.req) /\ k.id.profile \in k.from.coordinators
  BY <1>2 DEF IInv, CapabilityIsLeast
<1>7. /\ call' \in [Callers -> CallType] /\ HistoryOK'
      /\ \A q \in Callers : Settled(q)' /\ Identified(q)' /\ UnderWay(q)'
      /\ CapabilityIsLeast' /\ CoordinatorNotDenied' /\ SourceSelected'
  BY <1>2, <1>3, <1>5, <1>6, OthersKeep
<1>8. TypeOK'
  BY <1>7 DEF IInv, TypeOK, agentzero
<1> QED BY <1>7, <1>8, MemoriesKept DEF IInv, agentzero

LEMMA ReadIdentityKeeps == ASSUME IInv, NEW p \in Callers, ReadIdentity(p) PROVE IInv'
<1> USE BridgeAssumption
<1> DEFINE r == call[p].req
           c == call[p].chat
           id == Identity(c)
           refused == RefusedBeforeGate(r, id, call[p].cfg)
           pc == IF refused THEN "idle" ELSE IF Opens(r) \/ Existing(r) THEN "gate" ELSE "core"
           answer == IF refused THEN "refused" ELSE "none"
           k == [call[p] EXCEPT !.id = id, !.pc = pc, !.answer = answer]
<1>1. call[p] \in CallType /\ c \in Chats \cup {Nothing} /\ call[p].pc = "identity"
  BY DEF IInv, TypeOK, CallType, ReadIdentity
<1>2. /\ call' = [call EXCEPT ![p] = k]
      /\ UNCHANGED <<agentzero, store, policy, memories, calls, changes, late>>
  <2>1. call' = [call EXCEPT ![p].id = id, ![p].pc = pc, ![p].answer = answer]
    BY Zenon DEF ReadIdentity
  <2> HIDE DEF id, pc, answer, refused
  <2>2. call' = [call EXCEPT ![p] = k]
    BY <2>1
  <2>3. UNCHANGED <<agentzero, store, policy, memories, calls, changes, late>>
    BY DEF ReadIdentity
  <2> QED BY <2>2, <2>3
<1>3. id \in Identities
  BY <1>1 DEF Identity, Anonymous, Identities, Or, IInv, TypeOK
<1>4. pc \in {"idle", "gate", "core"} /\ answer \in {"refused", "none"}
  OBVIOUS
<1>5. c = Nothing => id = Anonymous
  BY DEF Identity
<1>6. c # Nothing => /\ id.session = c /\ id.profile = ProfileOf[c]
                     /\ id.workflow = Or(ParentOf[c], c) /\ <<c, id.project>> \in past
  BY <1>1 DEF Identity, IInv, HistoryOK
<1> HIDE DEF id, pc, answer, refused
<1>7. /\ k \in CallType /\ k.pc = pc /\ k.answer = answer /\ k.id = id
      /\ k.req = r /\ k.chat = c /\ k.cfg = call[p].cfg
      /\ k.home = call[p].home /\ k.from = call[p].from
      /\ k.token = call[p].token /\ k.source = call[p].source
  BY <1>1, <1>3, <1>4 DEF CallType, Answers
<1> HIDE DEF k
<1>8. call'[p] = k
  BY <1>2 DEF IInv, TypeOK
<1>9. Settled(p)'
  BY <1>2, <1>7, <1>8 DEF Settled, agentzero, IInv
<1>10. Identified(p)'
  <2>1. k.pc # "idle" /\ k.chat = Nothing => ~NeedsChat(k.req)
    BY <1>1, <1>7 DEF Identified, IInv
  <2>2. k.pc \in {"gate", "init", "open", "core"} /\ k.chat = Nothing => k.id = Anonymous
    BY <1>5, <1>7
  <2>3. k.pc \in {"gate", "init", "open", "core"} /\ k.chat # Nothing =>
          /\ k.id.session = k.chat /\ k.id.profile = ProfileOf[k.chat]
          /\ k.id.workflow = Or(ParentOf[k.chat], k.chat)
          /\ <<k.chat, k.id.project>> \in past'
    BY <1>2, <1>6, <1>7 DEF agentzero
  <2> QED BY <1>8, <2>1, <2>2, <2>3, Zenon DEF Identified
<1>11. k.answer # "denied"
  BY <1>4, <1>7
<1>12. ~k.token /\ UnderWay(p)'
  <2>1. k.pc # "idle" => k.answer = "none"
    BY <1>7 DEF pc, answer
  <2> QED BY <1>1, <1>4, <1>7, <1>8, <2>1 DEF IInv, UnderWay
<1>13. /\ call' \in [Callers -> CallType] /\ HistoryOK'
       /\ \A q \in Callers : Settled(q)' /\ Identified(q)' /\ UnderWay(q)'
       /\ CapabilityIsLeast' /\ CoordinatorNotDenied' /\ SourceSelected'
  BY <1>2, <1>7, <1>9, <1>10, <1>11, <1>12, OthersKeep
<1>14. TypeOK'
  BY <1>2, <1>13 DEF IInv, TypeOK, agentzero
<1> QED BY <1>2, <1>13, <1>14, MemoriesKept DEF IInv, agentzero

LEMMA ToKeeps ==
  ASSUME IInv, NEW p \in Callers, UNCHANGED <<agentzero, policy, memories, calls, changes>>,
         store' \in [Roots -> States], late' \subseteq Callers,
         NEW pc \in {"init", "open", "core"}, To(p, pc),
         call[p].pc \in {"gate", "init", "open"}, pc \in {"init", "open"} => Opens(call[p].req)
  PROVE  IInv'
<1> DEFINE answer == call[p].answer
<1>1. call[p] \in CallType /\ answer \in Answers
  BY DEF IInv, TypeOK, CallType
<1>2. call' = [call EXCEPT ![p].pc = pc, ![p].answer = answer]
  <2>1. call' = [call EXCEPT ![p] = [call[p] EXCEPT !.pc = pc]]
    BY DEF To
  <2>2. [call[p] EXCEPT !.pc = pc] = [call[p] EXCEPT !.pc = pc, !.answer = call[p].answer]
    BY <1>1 DEF CallType
  <2> QED BY <2>1, <2>2
<1>3. answer = "denied" /\ HostToken => call[p].id.profile \notin call[p].from.coordinators
  BY DEF IInv, CoordinatorNotDenied
<1>4. answer = "none"
  BY DEF IInv, UnderWay
<1> HIDE DEF answer
<1> QED BY <1>1, <1>2, <1>3, <1>4, PlaceKeeps

LEMMA AnswerKeeps ==
  ASSUME IInv, NEW p \in Callers, UNCHANGED <<agentzero, policy, memories, calls, changes>>,
         store' \in [Roots -> States], late' \subseteq Callers,
         NEW answer \in Answers, Answer(p, answer),
         answer = "denied" /\ HostToken => call[p].id.profile \notin call[p].from.coordinators
  PROVE  IInv'
<1>1. call' = [call EXCEPT ![p].pc = "idle", ![p].answer = answer]
  BY DEF Answer
<1> QED BY <1>1, PlaceKeeps

LEMMA InspectKeeps == ASSUME IInv, NEW p \in Callers, Inspect(p) PROVE IInv'
<1>1. /\ UNCHANGED <<agentzero, policy, memories, calls, changes>> /\ call[p].pc = "gate"
      /\ store' \in [Roots -> States] /\ late' \subseteq Callers
  BY DEF Inspect, IInv, TypeOK
<1>2. \/ \E pc \in {"init", "core"} : To(p, pc) /\ (pc = "init" => Opens(call[p].req))
      \/ Answer(p, "refused")
  BY DEF Inspect
<1> QED BY <1>1, <1>2, ToKeeps, AnswerKeeps DEF Answers

LEMMA InitializeKeeps ==
  ASSUME IInv, NEW p \in Callers, Initialize(p) \/ CoreInit(p) PROVE IInv'
<1>1. /\ UNCHANGED <<agentzero, policy, memories, calls, changes>>
      /\ call[p].pc \in {"init", "open"}
  BY DEF Initialize, CoreInit
<1>2. store' \in [Roots -> States] /\ late' \subseteq Callers
  BY DEF Initialize, CoreInit, IInv, TypeOK, States
<1>3. (\E pc \in {"open", "core"} : To(p, pc)) \/ Answer(p, "refused")
  BY DEF Initialize, CoreInit
<1>4. Opens(call[p].req)
  BY <1>1 DEF IInv, UnderWay
<1> QED BY <1>1, <1>2, <1>3, <1>4, ToKeeps, AnswerKeeps DEF Answers

\* Whatever the core does only with the capability, the bridge protects: with an open
\* profile or none, a heartwood or a shared scope.
LEMMA ProtectionMatches ==
  ASSUME IInv, NEW p \in Callers
  PROVE  LET k == call[p] IN
         /\ Coordinated(k.req) => Protected(k.req, k.id)
         /\ Capable(k.req, k.id, k.cfg) =>
              Coordinated(k.req) /\ k.id.profile \in k.from.coordinators
<1> USE BridgeAssumption
<1>1. call[p] \in CallType
  BY DEF IInv, TypeOK
<1>2. call[p].cfg.coordinators = call[p].from.coordinators
  BY DEF IInv, Settled, Reached
<1>3. call[p].cfg.coordinators \subseteq Profiles
  BY <1>1 DEF CallType, Settings
<1>4. Coordinated(call[p].req) => Protected(call[p].req, call[p].id)
  BY DEF Coordinated, Protected
<1>5. Protected(call[p].req, call[p].id) /\ call[p].id.profile # Nothing => Coordinated(call[p].req)
  BY DEF Coordinated, Protected
<1>6. Capable(call[p].req, call[p].id, call[p].cfg) =>
        Protected(call[p].req, call[p].id) /\ call[p].id.profile \in call[p].cfg.coordinators
  BY DEF Capable
<1> QED BY <1>2, <1>3, <1>4, <1>5, <1>6

LEMMA RunRefusedKeeps == ASSUME IInv, NEW p \in Callers, RunRefused(p) PROVE IInv'
<1>1. /\ UNCHANGED <<agentzero, policy, memories, calls, changes>>
      /\ store' \in [Roots -> States] /\ late' \subseteq Callers
  BY DEF RunRefused, IInv, TypeOK
<1>2. Turned(p) \in Answers /\ Answer(p, Turned(p))
  BY DEF RunRefused, Turned, Answers
<1>3. ASSUME Turned(p) = "denied", HostToken
      PROVE  call[p].id.profile \notin call[p].from.coordinators
  <2>1. Coordinated(call[p].req) /\ ~Capable(call[p].req, call[p].id, call[p].cfg)
    BY <1>3 DEF Turned
  <2>2. call[p].id.profile \notin call[p].cfg.coordinators
    BY <1>3, <2>1, ProtectionMatches DEF Capable
  <2> QED BY <2>2 DEF IInv, Settled, Reached
<1> QED BY <1>1, <1>2, <1>3, AnswerKeeps

\* What the arguments of a call that stores describe.
LEMMA WrittenByCaller ==
  ASSUME IInv, NEW p \in Callers, call[p].pc = "core", call[p].req.op \in Stores
  PROVE  LET w == Written(p) IN
         /\ w \in Memories /\ w.key = w.asked
         /\ w.session \in Chats /\ w.profile = ProfileOf[w.session]
         /\ w.workflow = Or(ParentOf[w.session], w.session)
         /\ <<w.session, w.own>> \in past /\ (w.own # Nothing => w.project = w.own)
         /\ w.root \in roots[w.home] /\ (w.own = w.home => w.home \in {w.project, Nothing})
<1> USE BridgeAssumption
<1> DEFINE k == call[p]
           w == Written(p)
<1>1. k \in CallType /\ k.req \in RequestType /\ k.id \in Identities /\ env \in Environments
  BY DEF IInv, TypeOK, CallType
<1>2. k.chat \in Chats
  <2>1. NeedsChat(k.req)
    BY DEF NeedsChat
  <2>2. k.chat # Nothing
    BY <2>1 DEF IInv, Identified
  <2> QED BY <1>1, <2>2 DEF CallType
<1>3. /\ k.id.session = k.chat /\ k.id.profile = ProfileOf[k.chat]
      /\ k.id.workflow = Or(ParentOf[k.chat], k.chat) /\ <<k.chat, k.id.project>> \in past
  BY <1>2 DEF IInv, Identified
<1>4. Root(p) \in Roots
  <2>1. k.cfg \in Settings
    BY <1>1 DEF CallType
  <2> QED BY <1>1, <2>1, LoadTyped DEF Root
<1>5. Root(p) \in roots[k.home]
  BY DEF IInv, Settled, Reached, Root
<1>6. /\ w.number = k.number /\ w.root = Root(p) /\ w.key = k.req.key
      /\ w.project = WriteProject(k.req, k.id) /\ w.profile = k.id.profile
      /\ w.workflow = k.id.workflow /\ w.session = k.id.session /\ w.scope = Or(k.req.scope, "agent")
      /\ w.ring = Or(k.req.ring, "cambium") /\ w.asked = k.req.key /\ w.home = k.home
      /\ w.own = k.id.project
  BY Zenon DEF Written
<1>7. WriteProject(k.req, k.id) \in Names
  BY <1>1 DEF WriteProject, Or, RequestType, Identities
<1>8. Or(k.req.ring, "cambium") \in Rings /\ Or(k.req.scope, "agent") \in Scopes
  BY <1>1 DEF Or, RequestType
<1>9. w \in Memories
  <2>1. k.number \in Nat /\ k.home \in Names /\ k.id.project \in Names
    BY <1>1 DEF CallType, Identities
  <2>2. /\ k.id.profile \in Profiles \cup {Nothing} /\ k.id.workflow \in Chats \cup {Nothing}
        /\ k.id.session \in Chats \cup {Nothing}
    BY <1>1 DEF Identities
  <2>3. k.req.key \in Keys \cup {Nothing}
    BY <1>1 DEF RequestType
  <2> QED BY <1>4, <1>7, <1>8, <2>1, <2>2, <2>3 DEF Written, Memories
<1>10. w.own # Nothing => w.project = w.own
  BY <1>6 DEF WriteProject, Or
<1>11. w.own = w.home => w.home \in {w.project, Nothing}
  BY <1>10
<1> HIDE DEF w, k
<1>12. <<w.session, w.own>> \in past
  BY <1>3, <1>6
<1>13. w.key = w.asked /\ w.root \in roots[w.home]
  BY <1>5, <1>6
<1>14. /\ w.session \in Chats /\ w.profile = ProfileOf[w.session]
       /\ w.workflow = Or(ParentOf[w.session], w.session)
  BY <1>2, <1>3, <1>6
<1> QED BY <1>9, <1>10, <1>11, <1>12, <1>13, <1>14, Zenon DEF w

\* A run takes memories away, or stores one that is not known.
LEMMA RunStores ==
  ASSUME IInv, NEW p \in Callers, call[p].pc = "core", NEW M \in Effects(p) \cup {memories}
  PROVE  \/ M \subseteq memories
         \/ /\ call[p].req.op \in Stores /\ ~Known(Written(p))
            /\ M = memories \cup {Written(p)}
<1>1. CASE call[p].req.op \in Stores
  BY <1>1 DEF Effects
<1>2. CASE call[p].req.op = "forget"
  BY <1>2 DEF Effects, Stores
<1>3. CASE call[p].req.op \notin Stores \cup {"forget"}
  BY <1>3 DEF Effects
<1> QED BY <1>1, <1>2, <1>3

LEMMA RunMemories ==
  ASSUME IInv, NEW p \in Callers, call[p].pc = "core",
         memories' \in Effects(p) \cup {memories}, UNCHANGED <<past, roots>>
  PROVE  /\ memories' \subseteq Memories /\ IsFiniteSet(memories)'
         /\ WriterIsCaller' /\ OneProjectPerWrite' /\ KeysForwarded' /\ OncePerOperation'
<1> DEFINE w == Written(p)
<1>1. CASE memories' \subseteq memories
  <2>1. memories' \subseteq Memories /\ IsFiniteSet(memories)'
    BY <1>1, FS_Subset DEF IInv, TypeOK
  <2>2. \A m \in Stored' : m \in Stored
    BY <1>1 DEF Stored
  <2> QED
    BY <2>1, <2>2 DEF IInv, WriterIsCaller, OneProjectPerWrite, KeysForwarded,
       OncePerOperation, SameWriter
<1>2. CASE /\ call[p].req.op \in Stores /\ ~Known(w) /\ memories' = memories \cup {w}
  <2>1. /\ w \in Memories /\ w.key = w.asked
        /\ w.session \in Chats /\ w.profile = ProfileOf[w.session]
        /\ w.workflow = Or(ParentOf[w.session], w.session)
        /\ <<w.session, w.own>> \in past /\ (w.own # Nothing => w.project = w.own)
        /\ w.root \in roots[w.home] /\ (w.own = w.home => w.home \in {w.project, Nothing})
    BY <1>2, WrittenByCaller
  <2>2. ~Known(w)
    BY <1>2
  <2>3. memories' = memories \cup {w}
    BY <1>2
  <2> HIDE DEF w
  <2>4. memories' \subseteq Memories /\ IsFiniteSet(memories)'
    BY <2>1, <2>3, FS_AddElement DEF IInv, TypeOK
  <2>5. \A m \in Stored' : m \in Stored \/ m = w
    BY <2>3 DEF Stored
  <2>6. WriterIsCaller'
    BY <2>1, <2>5 DEF IInv, WriterIsCaller
  <2>7. OneProjectPerWrite'
    BY <2>1, <2>5 DEF IInv, OneProjectPerWrite
  <2>8. KeysForwarded'
    BY <2>1, <2>5 DEF IInv, KeysForwarded
  <2>9. \A m \in Stored : m.asked # Nothing /\ m.asked = w.asked => ~SameWriter(m, w)
    BY <2>1, <2>2 DEF IInv, Known, KeysForwarded, Stored
  <2>10. \A m \in Stored : SameWriter(w, m) => SameWriter(m, w)
    BY DEF SameWriter
  <2>11. OncePerOperation'
    <3> SUFFICES ASSUME NEW m \in Stored', NEW n \in Stored',
                        m.asked # Nothing, m.asked = n.asked, SameWriter(m, n)
                 PROVE  m = n
      BY DEF OncePerOperation, SameWriter
    <3>1. CASE m \in Stored /\ n \in Stored
      BY <3>1 DEF IInv, OncePerOperation
    <3>2. CASE m = w \/ n = w
      BY <2>5, <2>9, <2>10, <3>2
    <3> QED BY <2>5, <3>1, <3>2
  <2> QED BY <2>4, <2>6, <2>7, <2>8, <2>11
<1> QED BY <1>1, <1>2, RunStores

LEMMA FoundStored ==
  ASSUME IInv, NEW p \in Callers, NEW F \in Finds(p)
  PROVE  F \subseteq memories
<1>1. CASE call[p].req.op # "recall"
  BY <1>1 DEF Finds
<1>2. CASE call[p].req.op = "recall"
  <2> DEFINE f == Filters(call[p].req, call[p].id)
             n == call[p].req.limit
             blank == call[p].req.blank
  <2>1. n \in Nat /\ blank \in BOOLEAN
    BY DEF IInv, TypeOK, CallType, RequestType
  <2>2. IsFiniteSet(At(Root(p))) /\ At(Root(p)) \subseteq memories
    BY FS_Subset DEF At, IInv
  <2>3. F \in Recalls(f, n, blank, At(Root(p)))
    BY <1>2 DEF Finds
  <2> HIDE DEF f, n, blank
  <2>4. F \subseteq Filtered(f, At(Root(p)))
    BY <2>1, <2>2, <2>3, RecallExact
  <2> QED BY <2>2, <2>4 DEF Filtered, Matched
<1> QED BY <1>1, <1>2

LEMMA RunKeeps == ASSUME IInv, NEW p \in Callers, Run(p) PROVE IInv'
<1> USE BridgeAssumption, ConfigurationAssumption
<1> DEFINE token == Capable(call[p].req, call[p].id, call[p].cfg)
           source == IF call[p].req.op \in {"sync", "scan"} THEN AllowedRoot(call[p].cfg)
                     ELSE Nothing
<1>1. PICK answer \in {"ok", "lost"}, found \in Finds(p) \cup {{}} :
        /\ memories' \in Effects(p) \cup {memories}
        /\ call' = [call EXCEPT ![p].pc = "idle", ![p].answer = answer, ![p].found = found,
                     ![p].token = token, ![p].source = source]
  BY DEF Run
<1>2. UNCHANGED <<agentzero, store, policy, calls, changes, late>> /\ call[p].pc = "core"
  BY DEF Run
<1> DEFINE k == [call[p] EXCEPT !.pc = "idle", !.answer = answer, !.found = found,
                  !.token = token, !.source = source]
<1>3. call' = [call EXCEPT ![p] = k]
  <2> HIDE DEF token, source
  <2> QED BY <1>1
<1>4. call[p] \in CallType
  BY DEF IInv, TypeOK
<1>5. found \subseteq Memories
  BY FoundStored DEF IInv, TypeOK
<1>6. token \in BOOLEAN
  BY DEF Capable
<1>7. source \in Folders \cup {RepoRoot, Nothing}
  BY DEF IInv, Settled
<1> HIDE DEF token, source
<1>8. /\ k \in CallType /\ k.pc = "idle" /\ k.answer = answer /\ k.id = call[p].id
      /\ k.req = call[p].req /\ k.chat = call[p].chat /\ k.cfg = call[p].cfg
      /\ k.home = call[p].home /\ k.from = call[p].from
      /\ k.token = token /\ k.source = source
  BY <1>4, <1>5, <1>6, <1>7 DEF CallType, Answers
<1> HIDE DEF k
<1>9. call'[p] = k
  BY <1>3 DEF IInv, TypeOK
<1>10. Settled(p)' /\ Identified(p)' /\ UnderWay(p)'
  <2>1. Settled(p)'
    BY <1>2, <1>8, <1>9 DEF Settled, agentzero, IInv
  <2>2. Identified(p)' /\ UnderWay(p)'
    BY <1>8, <1>9 DEF Identified, UnderWay
  <2> QED BY <2>1, <2>2
<1>11. k.token => Coordinated(k.req) /\ k.id.profile \in k.from.coordinators
  BY <1>8, ProtectionMatches DEF token
<1>12. k.answer # "denied"
  BY <1>8
<1>13. k.source # Nothing => k.source = AllowedRoot(k.cfg)
  BY <1>8 DEF source
<1>14. /\ call' \in [Callers -> CallType] /\ HistoryOK'
       /\ \A q \in Callers : Settled(q)' /\ Identified(q)' /\ UnderWay(q)'
       /\ CapabilityIsLeast' /\ CoordinatorNotDenied' /\ SourceSelected'
  BY <1>2, <1>3, <1>8, <1>10, <1>11, <1>12, <1>13, OthersKeep
<1>15. /\ memories' \subseteq Memories /\ IsFiniteSet(memories)'
       /\ WriterIsCaller' /\ OneProjectPerWrite' /\ KeysForwarded' /\ OncePerOperation'
  BY <1>1, <1>2, RunMemories DEF agentzero
<1>16. TypeOK'
  BY <1>2, <1>14, <1>15 DEF IInv, TypeOK, agentzero
<1> QED BY <1>14, <1>15, <1>16 DEF IInv

-----------------------------------------------------------------------------
(* The steps of users and of other programs. *)

LEMMA ChangesKeep ==
  ASSUME IInv, UNCHANGED <<env, memories, call>>, TypeOK', HistoryOK',
         past \subseteq past', \A n \in Names : roots[n] \subseteq roots'[n]
  PROVE  IInv'
<1>1. ASSUME NEW p \in Callers PROVE Settled(p)' /\ Identified(p)' /\ UnderWay(p)'
  <2>1. call[p].home \in Names
    BY DEF IInv, TypeOK, CallType
  <2>2. Settled(p) /\ Identified(p) /\ UnderWay(p)
    BY DEF IInv
  <2>3. Settled(p)'
    BY <2>1, <2>2 DEF Settled
  <2>4. Identified(p)'
    BY <2>2, Zenon DEF Identified
  <2>5. UnderWay(p)'
    BY <2>2 DEF UnderWay
  <2> QED BY <2>3, <2>4, <2>5
<1>2. Stored' = Stored
  BY DEF Stored
<1>3. WriterIsCaller'
  BY <1>2 DEF IInv, WriterIsCaller
<1>4. OneProjectPerWrite'
  <2>1. \A m \in Stored : m.home \in Names
    BY DEF IInv, TypeOK, Memories, Stored
  <2> QED BY <1>2, <2>1 DEF IInv, OneProjectPerWrite
<1>5. KeysForwarded' /\ OncePerOperation'
  BY <1>2 DEF IInv, KeysForwarded, OncePerOperation, SameWriter
<1>6. CapabilityIsLeast' /\ CoordinatorNotDenied' /\ SourceSelected'
  BY DEF IInv, CapabilityIsLeast, CoordinatorNotDenied, SourceSelected
<1> QED BY <1>1, <1>3, <1>4, <1>5, <1>6 DEF IInv

LEMMA MoveChatKeeps == ASSUME IInv, MoveChat PROVE IInv'
<1>1. PICK c \in Chats, p \in Names :
        project' = [project EXCEPT ![c] = p] /\ past' = past \cup {<<c, p>>}
  BY DEF MoveChat
<1>2. UNCHANGED <<env, edited, saved, roots, late, store, policy, memories, call, calls>>
        /\ changes' = changes + 1
  BY DEF MoveChat, Change
<1>3. TypeOK'
  BY <1>1, <1>2 DEF IInv, TypeOK
<1>4. HistoryOK'
  BY <1>1, <1>2 DEF IInv, TypeOK, HistoryOK
<1> QED BY <1>1, <1>2, <1>3, <1>4, ChangesKeep

LEMMA SaveSettingsKeeps == ASSUME IInv, SaveSettings PROVE IInv'
<1> USE BridgeAssumption
<1>1. PICK edit \in Edits :
        /\ edited' = [edited EXCEPT ![edit.of] = edit.settings]
        /\ saved' = [saved EXCEPT ![edit.of] = Load(env, edit.settings)]
        /\ roots' = [roots EXCEPT ![edit.of] = @ \cup {RootOf(env, edit.settings)}]
        /\ store' \in Bootstraps(RootOf(env, edit.settings))
  BY DEF SaveSettings
<1>2. UNCHANGED <<env, project, past, late, policy, memories, call, calls>>
        /\ changes' = changes + 1
  BY DEF SaveSettings, Change
<1>3. edit.of \in Names /\ edit.settings \in Settings /\ env \in Environments
  BY DEF IInv, TypeOK
<1>4. Load(env, edit.settings) \in Settings /\ RootOf(env, edit.settings) \in Roots
  BY <1>3, LoadTyped
<1>5. TypeOK'
  <2>1. store' \in [Roots -> States]
    BY <1>1, <1>4 DEF Bootstraps, IInv, TypeOK, States
  <2> QED BY <1>1, <1>2, <1>3, <1>4, <2>1 DEF IInv, TypeOK
<1>6. HistoryOK'
  <2>1. Reached(env, Load(env, edit.settings), edit.settings)
    BY <1>3, ReachedFirst
  <2>2. ASSUME NEW n \in Names
        PROVE  Reached(env, saved'[n], edited'[n]) /\ RootOf(env, edited'[n]) \in roots'[n]
    BY <1>1, <1>3, <2>1 DEF IInv, TypeOK, HistoryOK
  <2>3. RootOf(env, Unset) \in roots'[Nothing]
    BY <1>1, <1>3 DEF IInv, TypeOK, HistoryOK
  <2> QED BY <1>2, <2>2, <2>3 DEF IInv, HistoryOK
<1>7. \A n \in Names : roots[n] \subseteq roots'[n]
  BY <1>1, <1>3 DEF IInv, TypeOK
<1> QED BY <1>2, <1>5, <1>6, <1>7, ChangesKeep

LEMMA OtherProgramKeeps == ASSUME IInv, OtherProgram PROVE IInv'
<1>1. UNCHANGED <<agentzero, policy, memories, call, calls>> /\ changes' = changes + 1
  BY DEF OtherProgram, Change
<1>2. store' \in [Roots -> States] /\ late' \subseteq Callers
  BY DEF OtherProgram, IInv, TypeOK, States
<1>3. TypeOK' /\ HistoryOK'
  BY <1>1, <1>2 DEF agentzero, IInv, TypeOK, HistoryOK
<1> QED BY <1>1, <1>3, ChangesKeep DEF agentzero

LEMMA EnablePolicyKeeps == ASSUME IInv, EnablePolicy PROVE IInv'
<1>1. UNCHANGED <<agentzero, store, memories, call, calls, late>> /\ changes' = changes + 1
  BY DEF EnablePolicy, Change
<1>2. policy' \in [Roots -> {"open", "coordinated"}]
  BY DEF EnablePolicy, IInv, TypeOK
<1>3. TypeOK' /\ HistoryOK'
  BY <1>1, <1>2 DEF agentzero, IInv, TypeOK, HistoryOK
<1> QED BY <1>1, <1>3, ChangesKeep DEF agentzero

LEMMA Inductive == IInv /\ [Next]_vars => IInv'
<1> SUFFICES ASSUME IInv, [Next]_vars PROVE IInv'
  OBVIOUS
<1>1. CASE UNCHANGED vars
  <2>1. TypeOK' /\ HistoryOK'
    BY <1>1 DEF vars, IInv, TypeOK, HistoryOK
  <2> QED BY <1>1, <2>1, ChangesKeep DEF vars
<1>2. ASSUME NEW p \in Callers, Caller(p) PROVE IInv'
  BY <1>2, RequestKeeps, RequestDefaultsKeeps, ReadIdentityKeeps, InspectKeeps,
     InitializeKeeps, RunRefusedKeeps, RunKeeps DEF Caller
<1> QED
  BY <1>1, <1>2, MoveChatKeeps, SaveSettingsKeeps, OtherProgramKeeps, EnablePolicyKeeps DEF Next

\* The invariant of the calls holds in every reachable state.
THEOREM Invariant == Spec => []IInv
  BY Initially, Inductive, PTL DEF Spec

-----------------------------------------------------------------------------
(* What follows from it. *)

\* Type correctness: in particular every memory root, and every folder that is
\* synchronised or scanned, is one that the settings can name.
THEOREM TypeCorrect == Spec => []TypeOK
<1>1. IInv => TypeOK
  BY DEF IInv
<1> QED BY <1>1, Invariant, PTL

\* A memory names a chat with that chat's profile and workflow, and where the chat was in a
\* project it is filed under that one, for any number of concurrent calls and of moves.
\* A chat in no project is the exception: the run bridge_project shows what it writes.
THEOREM WriterIsCallerHolds == Spec => []WriterIsCaller
<1>1. IInv => WriterIsCaller
  BY DEF IInv
<1> QED BY <1>1, Invariant, PTL

\* A memory lies in a root of the project it names, or of none, unless its chat was moved
\* between the two reads of the call.
THEOREM OneProjectPerWriteHolds == Spec => []OneProjectPerWrite
<1>1. IInv => OneProjectPerWrite
  BY DEF IInv
<1> QED BY <1>1, Invariant, PTL

\* Retries and concurrent calls of one operation by one writer store one memory.
THEOREM OncePerOperationHolds == Spec => []OncePerOperation
<1>1. IInv => OncePerOperation
  BY DEF IInv
<1> QED BY <1>1, Invariant, PTL

\* The capability is handed over only for what the core asks it for, to listed profiles.
THEOREM CapabilityIsLeastHolds == Spec => []CapabilityIsLeast
<1>1. IInv => CapabilityIsLeast
  BY DEF IInv
<1> QED BY <1>1, Invariant, PTL

\* A listed profile is not denied what the core does with the capability.
THEOREM CoordinatorNotDeniedHolds == Spec => []CoordinatorNotDenied
<1>1. IInv => CoordinatorNotDenied
  BY DEF IInv
<1> QED BY <1>1, Invariant, PTL

\* However often settings are loaded, the folder is the selected one, and none in a conflict.
THEOREM SourceSelectedHolds == Spec => []SourceSelected
<1>1. IInv => SourceSelected
  BY DEF IInv
<1> QED BY <1>1, Invariant, PTL

\* A step of a caller moves its own call and no other.
LEMMA OwnCall ==
  ASSUME TypeOK, NEW q \in Callers, Caller(q), NEW p \in Callers, p # q
  PROVE  call'[p] = call[p]
<1>1. \E k : call' = [call EXCEPT ![q] = k]
  BY DEF Caller, Request, RequestDefaults, Begin, ReadIdentity, Inspect, Initialize,
     CoreInit, RunRefused, Run, To, Answer
<1> QED BY <1>1 DEF TypeOK

\* An old store under a call that runs the core's `init' has been created since the call
\* looked.
Overtaken ==
  \A p \in Callers : call[p].pc = "open" /\ store[Root(p)] = "old" => p \in late

LEMMA OvertakenStep == IInv /\ Overtaken /\ [Next]_vars => Overtaken'
<1> SUFFICES ASSUME IInv, Overtaken, [Next]_vars, NEW p \in Callers,
                    call'[p].pc = "open", store'[Root(p)'] = "old"
             PROVE  p \in late'
  BY DEF Overtaken
<1> USE BridgeAssumption
<1>0. /\ call \in [Callers -> CallType] /\ store \in [Roots -> States] /\ late \subseteq Callers
      /\ Root(p) \in Roots /\ env' = env
  <2>1. /\ call \in [Callers -> CallType] /\ store \in [Roots -> States] /\ late \subseteq Callers
        /\ env \in Environments
    BY DEF IInv, TypeOK
  <2>2. call[p].cfg \in Settings
    BY <2>1 DEF CallType
  <2>3. env' = env
    BY DEF Next, vars, agentzero, Caller, Request, RequestDefaults, Begin, ReadIdentity, Inspect,
       Initialize, CoreInit, RunRefused, Run, MoveChat, SaveSettings, OtherProgram, EnablePolicy
  <2> QED BY <2>1, <2>2, <2>3, LoadTyped DEF Root
<1>1. CASE UNCHANGED <<store, call, late>>
  BY <1>0, <1>1 DEF Overtaken, Root
<1>2. ASSUME NEW q \in Callers, Caller(q) PROVE p \in late'
  <2>1. /\ \A r \in Roots : store'[r] = "old" => store[r] = "old"
        /\ late' = late \/ (Initialize(q) /\ late' = late \ {q})
    <3>1. UNCHANGED store \/ store' \in {[store EXCEPT ![r] = "v3"] : r \in Roots}
      <4>1. CASE Request(q) \/ RequestDefaults(q)
        <5>1. \E r : store' \in Bootstraps(r)
          BY <4>1 DEF Request, RequestDefaults, Bootstraps
        <5>2. PICK r : store' = [store EXCEPT ![r] = "v3"] \/ store' = store
          BY <5>1 DEF Bootstraps
        <5>3. r \notin Roots => store' = store
          BY <1>0, <5>2
        <5> QED BY <5>2, <5>3
      <4>2. CASE CoreInit(q)
        <5>1. call[q].cfg \in Settings /\ env \in Environments
          BY <1>0 DEF CallType, IInv, TypeOK
        <5>2. Root(q) \in Roots
          BY <5>1, LoadTyped DEF Root
        <5> QED BY <4>2, <5>2 DEF CoreInit
      <4> QED
        BY <1>2, <4>1, <4>2 DEF Caller, ReadIdentity, Inspect, Initialize, RunRefused, Run
    <3>2. late' = late \/ (Initialize(q) /\ late' = late \ {q})
      BY <1>2 DEF Caller, Request, RequestDefaults, Begin, ReadIdentity, Inspect, Initialize,
         CoreInit, RunRefused, Run
    <3> QED BY <1>0, <3>1, <3>2
\* Another call's step leaves this one where it is.
  <2>2. CASE q # p
    <3>1. call'[p] = call[p]
      BY <1>2, <2>2, OwnCall DEF IInv
    <3> QED BY <1>0, <2>1, <2>2, <3>1 DEF Overtaken, Root
\* Its own step gets there only past the look.
  <2>3. CASE q = p
    <3>1. Initialize(p)
      <4>1. ASSUME NEW pc, To(p, pc) PROVE call'[p].pc = pc
        BY <1>0, <4>1 DEF To, CallType
      <4>2. ASSUME NEW answer, Answer(p, answer) PROVE call'[p].pc = "idle"
        BY <1>0, <4>2 DEF Answer, CallType
      <4>3. ~Inspect(p) /\ ~CoreInit(p) /\ ~RunRefused(p)
        BY <4>1, <4>2 DEF Inspect, CoreInit, RunRefused
      <4>4. ~Request(p) /\ ~RequestDefaults(p)
        BY <1>0 DEF Request, RequestDefaults, Begin
      <4>5. ~ReadIdentity(p)
        <5> DEFINE refused == RefusedBeforeGate(call[p].req, Identity(call[p].chat), call[p].cfg)
                   next == IF refused THEN "idle"
                           ELSE IF Opens(call[p].req) \/ Existing(call[p].req) THEN "gate"
                           ELSE "core"
        <5>1. next # "open"
          OBVIOUS
        <5> HIDE DEF next
        <5>2. ASSUME NEW id, NEW answer,
                     call' = [call EXCEPT ![p].id = id, ![p].pc = next, ![p].answer = answer]
              PROVE  FALSE
          BY <1>0, <5>1, <5>2 DEF CallType
        <5>3. ReadIdentity(p) =>
                call' = [call EXCEPT ![p].id = Identity(call[p].chat), ![p].pc = next,
                          ![p].answer = IF refused THEN "refused" ELSE "none"]
          BY Zenon DEF ReadIdentity, next
        <5> QED BY <5>2, <5>3
      <4>6. ~Run(p)
        <5> SUFFICES ASSUME Run(p) PROVE FALSE
          OBVIOUS
        <5> DEFINE token == Capable(call[p].req, call[p].id, call[p].cfg)
                   source == IF call[p].req.op \in {"sync", "scan"}
                             THEN AllowedRoot(call[p].cfg) ELSE Nothing
        <5>1. PICK answer, found :
                call' = [call EXCEPT ![p].pc = "idle", ![p].answer = answer,
                          ![p].found = found, ![p].token = token, ![p].source = source]
          BY DEF Run
        <5> HIDE DEF token, source
        <5> QED BY <1>0, <5>1 DEF CallType
      <4> QED BY <1>2, <2>3, <4>3, <4>4, <4>5, <4>6 DEF Caller
    <3>2. To(p, "open") /\ store[Root(p)] # "old" /\ UNCHANGED store
      <4>1. ASSUME Answer(p, "refused") PROVE call'[p].pc = "idle"
        BY <1>0, <4>1 DEF Answer, CallType
      <4> QED BY <3>1, <4>1 DEF Initialize
    <3>3. call'[p].cfg = call[p].cfg
      BY <1>0, <3>2 DEF To, CallType
    <3> QED BY <1>0, <3>2, <3>3 DEF Root
  <2> QED BY <2>2, <2>3
<1>3. CASE OtherProgram
  BY <1>0, <1>3 DEF OtherProgram, Overtaken, Root
<1>4. CASE MoveChat \/ EnablePolicy
  BY <1>1, <1>4 DEF MoveChat, EnablePolicy
<1>5. CASE SaveSettings
  <2>1. UNCHANGED <<call, late>> /\ \E r : store' \in Bootstraps(r)
    BY <1>5 DEF SaveSettings
  <2>2. store'[Root(p)] = "old" => store[Root(p)] = "old"
    BY <1>0, <2>1 DEF Bootstraps
  <2> QED BY <1>0, <2>1, <2>2 DEF Overtaken, Root
<1> QED BY <1>1, <1>2, <1>3, <1>4, <1>5 DEF Next, vars

\* Once its settings are read, a call changes a store only by the core's `init', of its own
\* root, for an operation that may create it: one that is absent, or an old one created
\* since the last look at it.
THEOREM StoresKeptHolds == Spec => StoresKept
<1> DEFINE Kept(p) ==
      \A r \in Roots : store'[r] # store[r] =>
        /\ r = Root(p) /\ (store[r] = "absent" \/ (store[r] = "old" /\ p \in late))
        /\ ~(call[p].req.op \in {"audit", "scan"})
        /\ ~(call[p].req.op = "import" /\ ~call[p].req.apply)
<1>1. ASSUME IInv, Overtaken, [Next]_vars, NEW p \in Callers, call[p].pc # "idle",
             call'[p] # call[p]
      PROVE  Kept(p)
  <2>1. PICK q \in Callers : Caller(q)
    BY <1>1 DEF Next, vars, MoveChat, SaveSettings, OtherProgram, EnablePolicy
  <2>2. q = p
    BY <1>1, <2>1, OwnCall DEF IInv
  <2>3. CASE UNCHANGED store
    BY <2>3
  <2>4. CASE CoreInit(p)
    <3>1. Opens(call[p].req)
      BY <1>1, <2>4 DEF IInv, UnderWay, CoreInit
    <3>2. call[p].req.op \notin {"audit", "scan"} /\ ~(call[p].req.op = "import" /\ ~call[p].req.apply)
      BY <3>1 DEF Opens, Stores
    <3>3. \A r \in Roots : store'[r] # store[r] =>
            r = Root(p) /\ store[r] \in {"absent", "old"} /\ call[p].pc = "open"
      BY <1>1, <2>4 DEF CoreInit, IInv, TypeOK, States
    <3> QED BY <1>1, <3>2, <3>3 DEF Overtaken
  <2> QED
    BY <1>1, <2>1, <2>2, <2>3, <2>4
    DEF Caller, Request, RequestDefaults, Begin, ReadIdentity, Inspect, Initialize, RunRefused, Run
<1>2. IInv /\ Overtaken /\ [Next]_vars =>
        [ \A p \in Callers : call[p].pc # "idle" /\ call'[p] # call[p] =>
            \A r \in Roots : store'[r] # store[r] =>
              /\ r = Root(p) /\ (store[r] = "absent" \/ (store[r] = "old" /\ p \in late))
              /\ ~(call[p].req.op \in {"audit", "scan"})
              /\ ~(call[p].req.op = "import" /\ ~call[p].req.apply) ]_vars
  BY <1>1
<1>3. Init => Overtaken
  BY DEF Init, Overtaken
<1> QED BY <1>2, <1>3, OvertakenStep, Invariant, PTL DEF Spec, StoresKept

\* The filters let pass what the recall is for.
LEMMA FiltersAsked ==
  ASSUME NEW p \in Callers
  PROVE  LET f == Filters(call[p].req, call[p].id) IN
         /\ Matched(f, At(Root(p))) = Asked(p)
         /\ Filtered(f, At(Root(p))) = Wanted(p)
<1> DEFINE r == call[p].req
           id == call[p].id
           f == Filters(r, id)
<1>1. /\ f.project = Or(r.project, id.project) /\ f.workflow = Or(r.workflow, id.workflow)
      /\ f.profile = Or(r.profile, IF r.wide THEN Nothing ELSE id.profile)
      /\ f.session = Or(r.session, IF r.wide THEN Nothing ELSE id.session)
      /\ f.scope = r.scope /\ f.ring = r.ring
  BY DEF Filters, Or
<1>2. \A named, own, value : Passes(Or(named, own), value) <=> Agrees(named, own, value)
  BY DEF Passes, Or, Agrees
<1>3. ASSUME NEW m
      PROVE  CoreMatch(f, m) <=>
               /\ Agrees(r.project, id.project, m.project)
               /\ Agrees(r.workflow, id.workflow, m.workflow)
               /\ Agrees(r.profile, IF r.wide THEN Nothing ELSE id.profile, m.profile)
               /\ Agrees(r.session, IF r.wide THEN Nothing ELSE id.session, m.session)
               /\ r.scope \in {Nothing, m.scope}
  <2> HIDE DEF f, id, r
  <2> QED BY <1>1, <1>2 DEF CoreMatch, Passes
<1>4. Matched(f, At(Root(p))) = Asked(p)
  <2> HIDE DEF f
  <2> QED BY <1>3 DEF Asked, Matched
<1>5. Filtered(f, At(Root(p))) = {m \in Asked(p) : Passes(f.ring, m.ring)}
  <2> HIDE DEF f
  <2> QED BY <1>4 DEF Filtered
<1>6. \A m : Passes(f.ring, m.ring) <=> r.ring \in {Nothing, m.ring}
  BY <1>1 DEF Passes
<1>7. Filtered(f, At(Root(p))) = Wanted(p)
  <2> HIDE DEF f
  <2> QED BY <1>5, <1>6 DEF Wanted
<1> QED BY <1>4, <1>7

\* A recall returns what its caller may see and asked for, and as much of it as there is,
\* up to the limit, while the scan window holds what the core's filters let pass.
THEOREM RecallCompleteHolds == Spec => RecallComplete
<1>1. ASSUME IInv, [Next]_vars, NEW p \in Callers, call'[p] # call[p],
             call'[p].answer = "ok", call[p].req.op = "recall"
      PROVE  LET limit == RequestedLimit(call[p].req.limit) IN
             /\ call'[p].found \subseteq Wanted(p)
             /\ call[p].req.blank \/ Cardinality(Asked(p)) <= ScanFactor * limit =>
                  Cardinality(call'[p].found) = Smaller(limit, Cardinality(Wanted(p)))
  <2>1. PICK q \in Callers : Caller(q)
    BY <1>1 DEF Next, vars, MoveChat, SaveSettings, OtherProgram, EnablePolicy
  <2>2. q = p
    BY <1>1, <2>1, OwnCall DEF IInv
  <2>3. call[p] \in CallType
    BY <1>1 DEF IInv, TypeOK
  <2>4. ~Request(p) /\ ~RequestDefaults(p) /\ ~ReadIdentity(p)
    <3>1. ASSUME Request(p) \/ RequestDefaults(p) PROVE call'[p].answer = "none"
      BY <1>1, <3>1 DEF Request, RequestDefaults, Begin, IInv, TypeOK
    <3>2. ASSUME ReadIdentity(p) PROVE call'[p].answer \in {"refused", "none"}
      <4> DEFINE refused == RefusedBeforeGate(call[p].req, Identity(call[p].chat), call[p].cfg)
      <4>1. \E id, pc : call' = [call EXCEPT ![p].id = id, ![p].pc = pc,
                                 ![p].answer = IF refused THEN "refused" ELSE "none"]
        BY <3>2, Zenon DEF ReadIdentity
      <4> HIDE DEF refused
      <4> QED BY <1>1, <2>3, <4>1 DEF IInv, TypeOK, CallType
    <3> QED BY <1>1, <3>1, <3>2
  <2>5. ~Inspect(p) /\ ~Initialize(p) /\ ~CoreInit(p)
    <3>1. ASSUME NEW pc, To(p, pc) PROVE call'[p].answer = call[p].answer
      BY <1>1, <2>3, <3>1 DEF To, IInv, TypeOK, CallType
    <3>2. ASSUME Answer(p, "refused") PROVE call'[p].answer = "refused"
      BY <1>1, <2>3, <3>2 DEF Answer, IInv, TypeOK, CallType
    <3>3. call[p].pc # "idle" => call[p].answer = "none"
      BY <1>1 DEF IInv, UnderWay
    <3> QED BY <1>1, <3>1, <3>2, <3>3 DEF Inspect, Initialize, CoreInit
  <2>6. ~RunRefused(p)
    <3>1. ASSUME NEW answer, Answer(p, answer) PROVE call'[p].answer = answer
      BY <1>1, <2>3, <3>1 DEF Answer, IInv, TypeOK, CallType
    <3> QED BY <1>1, <3>1 DEF RunRefused, Turned
  <2>7. Run(p)
    BY <2>1, <2>2, <2>4, <2>5, <2>6 DEF Caller
  <2>8. call'[p].found \in Finds(p)
    <3> DEFINE token == Capable(call[p].req, call[p].id, call[p].cfg)
               source == IF call[p].req.op \in {"sync", "scan"} THEN AllowedRoot(call[p].cfg)
                         ELSE Nothing
    <3>1. PICK answer \in {"ok", "lost"}, found \in Finds(p) \cup {{}} :
            /\ answer = "ok" => found \in Finds(p)
            /\ call' = [call EXCEPT ![p].pc = "idle", ![p].answer = answer, ![p].found = found,
                         ![p].token = token, ![p].source = source]
      BY <2>7 DEF Run
    <3> HIDE DEF token, source
    <3>2. call'[p].answer = answer /\ call'[p].found = found
      BY <1>1, <2>3, <3>1 DEF IInv, TypeOK, CallType
    <3> QED BY <1>1, <3>1, <3>2
  <2> DEFINE f == Filters(call[p].req, call[p].id)
             S == At(Root(p))
             n == call[p].req.limit
             blank == call[p].req.blank
             found == call'[p].found
  <2>9. found \in Recalls(f, n, blank, S)
    BY <1>1, <2>8 DEF Finds
  <2>10. IsFiniteSet(S) /\ n \in Nat /\ blank \in BOOLEAN
    BY <1>1, <2>3, FS_Subset DEF At, IInv, CallType, RequestType
  <2>11. Matched(f, S) = Asked(p) /\ Filtered(f, S) = Wanted(p)
    BY <1>1, <2>7, FiltersAsked DEF Run
  <2> HIDE DEF f, S, n, blank, found
  <2>12. /\ found \subseteq Filtered(f, S)
         /\ blank \/ Cardinality(Matched(f, S)) <= ScanFactor * RequestedLimit(n) =>
              Cardinality(found) = Smaller(RequestedLimit(n), Cardinality(Filtered(f, S)))
    BY <2>9, <2>10, RecallExact
  <2> QED BY <2>11, <2>12 DEF n, blank, found
<1>2. IInv /\ [Next]_vars =>
        [ \A p \in Callers :
            call'[p] # call[p] /\ call'[p].answer = "ok" /\ call[p].req.op = "recall" =>
              LET limit == RequestedLimit(call[p].req.limit) IN
              /\ call'[p].found \subseteq Wanted(p)
              /\ call[p].req.blank \/ Cardinality(Asked(p)) <= ScanFactor * limit =>
                   Cardinality(call'[p].found) = Smaller(limit, Cardinality(Wanted(p))) ]_vars
  BY <1>1
<1> QED BY <1>2, Invariant, PTL DEF Spec, RecallComplete

-----------------------------------------------------------------------------
(* Calls end. *)

\* The steps that a call still has before it, at most.
Left(step) ==
  CASE step = "identity" -> 5
    [] step = "gate"     -> 4
    [] step = "init"     -> 3
    [] step = "open"     -> 2
    [] step = "core"     -> 1
    [] OTHER             -> 0

\* Whatever the other callers and the rest of the machine do between its steps, a call
\* that moves moves on: it is answered after at most five steps, with no retry among them.
THEOREM CallsEnd ==
  Spec => [][\A p \in Callers : call[p].pc # "idle" =>
               call'[p] = call[p] \/ Left(call'[p].pc) < Left(call[p].pc)]_vars
<1> DEFINE Advances(p) == call[p].pc # "idle" =>
             call'[p] = call[p] \/ Left(call'[p].pc) < Left(call[p].pc)
<1>1. IInv /\ [Next]_vars => [\A p \in Callers : Advances(p)]_vars
  <2> SUFFICES ASSUME IInv, Next, NEW p \in Callers, call[p].pc # "idle", call'[p] # call[p]
               PROVE  Left(call'[p].pc) < Left(call[p].pc)
    BY DEF vars
  <2>1. PICK q \in Callers : Caller(q)
    BY DEF Next, MoveChat, SaveSettings, OtherProgram, EnablePolicy
  <2>2. q = p
    BY <2>1, OwnCall DEF IInv
  <2>3. call \in [Callers -> CallType]
    BY DEF IInv, TypeOK
  <2>4. ASSUME NEW step, To(p, step) PROVE call'[p].pc = step
    BY <2>3, <2>4 DEF To, CallType
  <2>5. ASSUME NEW answer, Answer(p, answer) PROVE call'[p].pc = "idle"
    BY <2>3, <2>5 DEF Answer, CallType
  <2>6. CASE ReadIdentity(p)
    <3> DEFINE r == call[p].req
               refused == RefusedBeforeGate(r, Identity(call[p].chat), call[p].cfg)
               next == IF refused THEN "idle"
                       ELSE IF Opens(r) \/ Existing(r) THEN "gate" ELSE "core"
               answer == IF refused THEN "refused" ELSE "none"
    <3>1. call' = [call EXCEPT ![p].id = Identity(call[p].chat), ![p].pc = next,
                     ![p].answer = answer]
      BY <2>6 DEF ReadIdentity
    <3>2. next \in {"idle", "gate", "core"}
      OBVIOUS
    <3> HIDE DEF next, answer
    <3>3. call'[p].pc = next
      BY <2>3, <3>1 DEF CallType
    <3>4. call[p].pc = "identity"
      BY <2>6 DEF ReadIdentity
    <3> QED BY <3>2, <3>3, <3>4 DEF Left
  <2>7. CASE Inspect(p)
    BY <2>4, <2>5, <2>7 DEF Inspect, Left
  <2>8. CASE Initialize(p) \/ CoreInit(p)
    BY <2>4, <2>5, <2>8 DEF Initialize, CoreInit, Left
  <2>9. CASE RunRefused(p)
    BY <2>5, <2>9 DEF RunRefused, Left
  <2>10. CASE Run(p)
    <3> DEFINE token == Capable(call[p].req, call[p].id, call[p].cfg)
               source == IF call[p].req.op \in {"sync", "scan"} THEN AllowedRoot(call[p].cfg)
                         ELSE Nothing
    <3>1. call'[p].pc = "idle"
      <4>1. PICK answer, found :
              call' = [call EXCEPT ![p].pc = "idle", ![p].answer = answer, ![p].found = found,
                        ![p].token = token, ![p].source = source]
        BY <2>10 DEF Run
      <4> HIDE DEF token, source
      <4> QED BY <2>3, <4>1 DEF CallType
    <3> QED BY <2>10, <3>1 DEF Run, Left
  <2> QED
    BY <2>1, <2>2, <2>6, <2>7, <2>8, <2>9, <2>10
    DEF Caller, Request, RequestDefaults, Begin
<1> QED BY <1>1, Invariant, PTL DEF Spec
=============================================================================
