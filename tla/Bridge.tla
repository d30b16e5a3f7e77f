-------------------------------- MODULE Bridge --------------------------------
(***************************************************************************)
(* The calls that Agent Zero's tools (tools/*.py) and the dashboard API        *)
(* (api/memory_api.py) make through the bridge TreeRingCli (helpers/cli.py) to    *)
(* the external core, with the identity of InvocationContext (helpers/context.py)  *)
(* and the settings of Configuration.  A call reads its settings, its identity and   *)
(* the schema of the store, initializes the store where it is missing, and then runs *)
(* the core, in steps of their own: meanwhile chats move between projects, settings   *)
(* are saved, and other programs use the stores.                                 *)
(*                                                                         *)
(* An upgrade, a migration, a preflight and the checkpoint of a capture have          *)
(* modules of their own.                                                     *)
(***************************************************************************)
EXTENDS Recall

CONSTANTS
  Chats,          \* contexts of Agent Zero; a chat's id is its session id
  ProfileOf,      \* [Chats -> Profiles]
  ParentOf,       \* [Chats -> Chats \cup {Nothing}]: the parent of a fan-out worker
  Projects,       \* `Nothing' is no project, whose settings are the global ones
  Rings, Scopes,  \* with "cambium", "heartwood" and "agent"
  Keys,           \* operation ids
  Requests,       \* what the callers may ask for
  Callers,        \* threads of Agent Zero
  Worlds,         \* environments of the process
  Edits,          \* which settings a user may save for which project
  Given,          \* [Names -> Settings]: those at the start
  Started,        \* [Chats -> Names]: the projects of the chats at the start
  Layouts,        \* [Roots -> States]: the stores at the start
  Seeded,         \* memories at the start
  HostToken,      \* is TREE_RING_COORDINATOR_TOKEN set for the process?
  MaxCalls,       \* bound: calls
  MaxChanges      \* bound: changes by users and other programs, and failures of the hooks

Names == Projects \cup {Nothing}

Reads == {"recall", "list", "audit", "scan"}
Stores == {"remember", "evidence", "capture"}
Others == {"forget", "consolidate", "maintain", "sync", "import"}

\* `apply' is a run that is not dry; `wide' is include_all_agents, `blank' an empty query.
RequestType ==
  [op : Reads \cup Stores \cup Others, key : Keys \cup {Nothing}, project : Names,
   profile : Profiles \cup {Nothing}, workflow : Chats \cup {Nothing},
   session : Chats \cup {Nothing}, ring : Rings \cup {Nothing}, scope : Scopes \cup {Nothing},
   apply : BOOLEAN, wide : BOOLEAN, blank : BOOLEAN, limit : Nat]

Identities ==
  [project : Names, profile : Profiles \cup {Nothing},
   workflow : Chats \cup {Nothing}, session : Chats \cup {Nothing}]

\* `number', `asked', `home' and `own' are history: the call that stored the memory, the
\* operation id it was given, the project whose settings it had read (none for the global
\* ones and for the defaults), and the project its chat was in when it read the identity.
Memories ==
  [number : Nat, root : Roots, key : Keys \cup {Nothing}, project : Names,
   profile : Profiles \cup {Nothing}, workflow : Chats \cup {Nothing},
   session : Chats \cup {Nothing}, scope : Scopes, ring : Rings,
   asked : Keys \cup {Nothing}, home : Names, own : Names]

States == {"absent", "old", "v3", "newer"}

ASSUME BridgeAssumption ==
  /\ Nothing \notin Projects \cup Chats \cup Keys \cup Profiles \cup Rings \cup Scopes
  /\ ProfileOf \in [Chats -> Profiles]
  /\ ParentOf \in [Chats -> Chats \cup {Nothing}]
  /\ {"cambium", "heartwood"} \subseteq Rings /\ "agent" \in Scopes
  /\ Requests \subseteq RequestType /\ Requests # {}
  /\ Worlds \subseteq Environments
  /\ Edits \subseteq [of : Names, settings : Settings] /\ Given \in [Names -> Settings]
  /\ Started \subseteq [Chats -> Names]
  /\ Layouts \subseteq [Roots -> States]
  /\ Seeded \subseteq Memories /\ IsFiniteSet(Seeded)
  /\ HostToken \in BOOLEAN
  /\ MaxCalls \in Nat /\ MaxChanges \in Nat

VARIABLES
  env,       \* os.environ, fixed
  project,   \* [Chats -> Names]
  edited,    \* [Names -> Settings]: history, what the user asked to save
  saved,     \* [Names -> Settings]: what was saved
  store,     \* [Roots -> States]
  policy,    \* [Roots -> {"open", "coordinated"}]
  memories,
  call,      \* [Callers -> the caller's last call]
  calls, changes,
  past,      \* history: which chat has been in which project
  roots,     \* history: [Names -> the memory roots configured for the project], the default
             \* root for no project
  late       \* history: the callers in whose root another program has created an old store
             \* since they last looked, before the core's `init' that follows

agentzero == <<env, project, edited, saved, past, roots>>
vars == <<env, project, edited, saved, store, policy, memories, call, calls, changes,
          past, roots, late>>

Anonymous ==
  [project |-> Nothing, profile |-> Nothing, workflow |-> Nothing, session |-> Nothing]

Answers == {"none", "ok", "refused", "denied", "lost"}

\* `from' and `home' are history: the settings the call read, as the user gave them, and
\* whose they are.
CallType ==
  [pc : {"idle", "identity", "gate", "init", "open", "core"}, number : Nat,
   req : RequestType, chat : Chats \cup {Nothing}, cfg : Settings, id : Identities,
   home : Names, from : Settings, token : BOOLEAN, source : Folders \cup {RepoRoot, Nothing},
   answer : Answers, found : SUBSET Memories]

Init ==
  /\ env \in Worlds
  /\ project \in Started
  /\ edited = Given
  /\ saved = [p \in Names |-> Load(env, Given[p])]
  /\ store \in Layouts
  /\ policy = [r \in Roots |-> "open"]
  /\ memories = {m \in Seeded : store[m.root] = "v3"}
  /\ call = [p \in Callers |->
       [pc |-> "idle", number |-> 0, req |-> CHOOSE r \in Requests : TRUE, chat |-> Nothing,
        cfg |-> saved[Nothing], id |-> Anonymous, home |-> Nothing, from |-> Given[Nothing],
        token |-> FALSE, source |-> Nothing, answer |-> "none", found |-> {}]]
  /\ calls = 0 /\ changes = 0
  /\ past = {<<c, project[c]>> : c \in Chats}
  /\ roots = [p \in Names |->
       {RootOf(env, Given[p])} \cup IF p = Nothing THEN {RootOf(env, Unset)} ELSE {}]
  /\ late = {}

-----------------------------------------------------------------------------
(* What a call reads. *)

\* Mutant: a fan-out worker calls under its parent's session.
IdentityOfParent(c) ==
  IF c = Nothing THEN Anonymous
  ELSE [project |-> project[c], profile |-> ProfileOf[c],
        workflow |-> Or(ParentOf[c], c), session |-> Or(ParentOf[c], c)]

\* InvocationContext.from_agent
Identity(c) ==
  IF c = Nothing THEN Anonymous
  ELSE [project |-> project[c], profile |-> ProfileOf[c],
        workflow |-> Or(ParentOf[c], c), session |-> c]

HomeOf(c) == IF c = Nothing THEN Nothing ELSE project[c]

\* Mutant: every call reads the global settings.
SettingsGlobal(c) == Load(env, Load(env, saved[Nothing]))

\* bridge_and_config and MemoryApi._bridge: the hook get_plugin_config loads what Agent Zero
\* has saved for the chat's project, then the tool or the API, then TreeRingCli.  Without
\* a chat the API reads the global file itself.
SettingsOf(c) ==
  IF c = Nothing THEN Load(env, Load(env, saved[Nothing]))
  ELSE Load(env, Load(env, Load(env, saved[project[c]])))

\* MemoryApi.process refuses these without a context; a tool's agent always has one.
NeedsChat(r) ==
  r.op \in Stores \cup {"forget", "consolidate", "maintain", "sync"} \/ (r.op = "import" /\ r.apply)

\* What only a tool asks for.
FromTool(r) == r.op = "capture" \/ (r.op = "import" /\ r.apply)

\* Mutant: an audit may initialize the store.
OpensForAudit(r) ==
  r.op \in Stores \cup {"recall", "list", "forget", "consolidate", "maintain", "sync", "audit"}
    \/ (r.op = "import" /\ r.apply)

\* ensure_initialized; _require_existing_schema_v3 is for an audit, the rest has no gate.
Opens(r) ==
  r.op \in Stores \cup {"recall", "list", "forget", "consolidate", "maintain", "sync"}
    \/ (r.op = "import" /\ r.apply)
Existing(r) == r.op = "audit"

\* _bound_write_project
Foreign(r, id) == r.project # Nothing /\ id.project # Nothing /\ r.project # id.project
WriteProject(r, id) == Or(id.project, r.project)

\* capture's required identity, and safe_import_path
RefusedBeforeGate(r, id, cfg) ==
  \/ r.op = "capture" /\ id.project = Nothing
  \/ r.op = "import" /\ AllowedRoot(cfg) = Nothing

\* _identity_args, and safe_project_root
RefusedAfterGate(r, id, cfg) ==
  \/ r.op \in {"remember", "evidence"} /\ Foreign(r, id)
  \/ r.op \in {"sync", "scan"} /\ AllowedRoot(cfg) = Nothing

-----------------------------------------------------------------------------
(* Capabilities. *)

\* Mutant: heartwood is taken for an ordinary ring.
ProtectedByScope(r, id) ==
  \/ r.op = "remember" /\ (Or(r.scope, "agent") # "agent" \/ id.profile = Nothing)
  \/ r.op \in {"evidence", "forget"}
  \/ r.op \in {"consolidate", "maintain", "sync", "import"} /\ r.apply

\* Mutant: a run that is dry is protected as well.
ProtectedDry(r, id) ==
  \/ r.op = "remember"
       /\ (r.ring = "heartwood" \/ Or(r.scope, "agent") # "agent" \/ id.profile = Nothing)
  \/ r.op \in {"evidence", "forget", "consolidate", "maintain", "sync", "import"}

\* The arguments `protected' of _run_json
Protected(r, id) ==
  \/ r.op = "remember"
       /\ (r.ring = "heartwood" \/ Or(r.scope, "agent") # "agent" \/ id.profile = Nothing)
  \/ r.op \in {"evidence", "forget"}
  \/ r.op \in {"consolidate", "maintain", "sync", "import"} /\ r.apply

\* _process_environment
Capable(r, id, cfg) ==
  HostToken /\ Protected(r, id) /\ id.profile \in cfg.coordinators

\* What the core does only with the capability, in coordinated mode (README,
\* Multi-Agent and Coordinator Mapping).
Coordinated(r) ==
  \/ r.op = "remember" /\ (r.ring = "heartwood" \/ Or(r.scope, "agent") # "agent")
  \/ r.op = "evidence" \/ r.op = "forget"
  \/ r.op \in {"consolidate", "maintain", "sync", "import"} /\ r.apply

-----------------------------------------------------------------------------
(* A call. *)

Root(p) == RootOf(env, call[p].cfg)

To(p, pc) == call' = [call EXCEPT ![p].pc = pc]

Answer(p, answer) == call' = [call EXCEPT ![p].pc = "idle", ![p].answer = answer]

Change == changes < MaxChanges /\ changes' = changes + 1

\* The hooks that load and save settings bootstrap the root they select, once per process
\* (Bootstrap).
Bootstraps(r) ==
  {store} \cup IF store[r] \in {"absent", "old"} THEN {[store EXCEPT ![r] = "v3"]} ELSE {}

Begin(p, r, c, cfg, home, from) ==
  /\ call[p].pc = "idle" /\ calls < MaxCalls /\ calls' = calls + 1
  /\ c = Nothing => ~NeedsChat(r)
  /\ call' = [call EXCEPT ![p] =
       [pc |-> "identity", number |-> calls + 1, req |-> r, chat |-> c, cfg |-> cfg,
        id |-> Anonymous, home |-> home, from |-> from, token |-> FALSE, source |-> Nothing,
        answer |-> "none", found |-> {}]]
  /\ UNCHANGED <<agentzero, policy, memories, late>>

Request(p) ==
  \E r \in Requests, c \in Chats \cup {Nothing} :
    /\ Begin(p, r, c, SettingsOf(c), HomeOf(c), edited[HomeOf(c)])
    /\ store' \in IF c = Nothing THEN {store} ELSE Bootstraps(RootOf(env, SettingsOf(c)))
    /\ UNCHANGED changes

\* The hook fails, at the latest in its bootstrap: for the API the settings are then the
\* defaults, whereas a tool gives up.
RequestDefaults(p) ==
  \E r \in Requests, c \in Chats :
    /\ Change /\ ~FromTool(r)
    /\ Begin(p, r, c, Load(env, Load(env, Unset)), Nothing, Unset)
    /\ store' \in Bootstraps(RootOf(env, SettingsOf(c)))

\* Then the identity; an operation without a gate runs the core at once.
ReadIdentity(p) ==
  LET r == call[p].req
      id == Identity(call[p].chat)
      refused == RefusedBeforeGate(r, id, call[p].cfg)
  IN
  /\ call[p].pc = "identity"
  /\ call' = [call EXCEPT ![p].id = id,
                ![p].pc = IF refused THEN "idle"
                          ELSE IF Opens(r) \/ Existing(r) THEN "gate" ELSE "core",
                ![p].answer = IF refused THEN "refused" ELSE "none"]
  /\ UNCHANGED <<agentzero, store, policy, memories, calls, changes, late>>

Inspect(p) ==
  LET s == store[Root(p)] IN
  /\ call[p].pc = "gate"
  /\ \/ s = "v3" /\ To(p, "core")
     \/ s = "absent" /\ Opens(call[p].req) /\ To(p, "init")
     \/ s = "absent" /\ ~Opens(call[p].req) /\ Answer(p, "refused")
     \/ s \in {"old", "newer"} /\ Answer(p, "refused")
  /\ UNCHANGED <<agentzero, store, policy, memories, calls, changes, late>>

\* TreeRingCli.init looks at the store again: one that has become old needs a verified
\* backup, which there is not.
Initialize(p) ==
  /\ call[p].pc = "init"
  /\ \/ store[Root(p)] # "old" /\ To(p, "open")
     \/ Answer(p, "refused")
  /\ late' = late \ {p}
  /\ UNCHANGED <<agentzero, store, policy, memories, calls, changes>>

\* Then the core's `init', which looks for itself: it creates a missing store, and migrates
\* one that has appeared since.  It may fail, and the bridge may lose its answer.
CoreInit(p) ==
  /\ call[p].pc = "open"
  /\ \/ /\ store[Root(p)] # "newer"
        /\ store' = [store EXCEPT ![Root(p)] = "v3"]
        /\ To(p, "core") \/ Answer(p, "refused")
     \/ Answer(p, "refused") /\ UNCHANGED store
  /\ UNCHANGED <<agentzero, policy, memories, calls, changes, late>>

At(root) == {m \in memories : m.root = root}

\* Mutant: the operation id is not forwarded.
WrittenAnonymously(p) ==
  LET r == call[p].req
      id == call[p].id
  IN [number |-> call[p].number, root |-> Root(p), key |-> Nothing,
      project |-> WriteProject(r, id), profile |-> id.profile, workflow |-> id.workflow,
      session |-> id.session, scope |-> Or(r.scope, "agent"), ring |-> Or(r.ring, "cambium"),
      asked |-> r.key, home |-> call[p].home, own |-> id.project]

\* The memory that the arguments of remember, evidence and capture describe.
Written(p) ==
  LET r == call[p].req
      id == call[p].id
  IN [number |-> call[p].number, root |-> Root(p), key |-> r.key,
      project |-> WriteProject(r, id), profile |-> id.profile, workflow |-> id.workflow,
      session |-> id.session, scope |-> Or(r.scope, "agent"), ring |-> Or(r.ring, "cambium"),
      asked |-> r.key, home |-> call[p].home, own |-> id.project]

SameWriter(m, n) ==
  /\ m.root = n.root /\ m.project = n.project /\ m.profile = n.profile
  /\ m.workflow = n.workflow /\ m.session = n.session

\* The core knows a logical write again by its operation id and its writer.
Known(w) == w.key # Nothing /\ \E m \in memories : m.key = w.key /\ SameWriter(m, w)

\* What becomes of the memories: what a consolidation, a synchronisation, an import or
\* maintenance derive from them is left out, and forget may redact or find nothing.
Effects(p) ==
  CASE call[p].req.op \in Stores ->
         {IF Known(Written(p)) THEN memories ELSE memories \cup {Written(p)}}
    [] call[p].req.op = "forget" -> {memories} \cup {memories \ {m} : m \in At(Root(p))}
    [] OTHER -> {memories}

\* The filters of recall: whom the caller names, or else the caller.
Filters(r, id) ==
  [project |-> Or(r.project, id.project), workflow |-> Or(r.workflow, id.workflow),
   profile |-> IF r.wide THEN r.profile ELSE Or(r.profile, id.profile),
   session |-> IF r.wide THEN r.session ELSE Or(r.session, id.session),
   scope |-> r.scope, ring |-> r.ring]

Finds(p) ==
  LET r == call[p].req IN
  IF r.op = "recall" THEN Recalls(Filters(r, call[p].id), r.limit, r.blank, At(Root(p)))
  ELSE {{}}

\* What the bridge refuses after the gate, and what the core denies.
Turned(p) ==
  IF RefusedAfterGate(call[p].req, call[p].id, call[p].cfg) THEN "refused"
  ELSE IF /\ policy[Root(p)] = "coordinated" /\ Coordinated(call[p].req)
          /\ ~Capable(call[p].req, call[p].id, call[p].cfg) THEN "denied"
  ELSE "none"

\* The core is asked in vain.
RunRefused(p) ==
  /\ call[p].pc = "core" /\ Turned(p) # "none"
  /\ Answer(p, Turned(p))
  /\ UNCHANGED <<agentzero, store, policy, memories, calls, changes, late>>

\* _run_json: the core does what it is asked to, or the process is stopped at
\* cli.timeout_seconds, before it has done so or after.
Run(p) ==
  /\ call[p].pc = "core" /\ Turned(p) = "none"
  /\ \E answer \in {"ok", "lost"} :
       /\ memories' \in IF answer = "ok" THEN Effects(p) ELSE Effects(p) \cup {memories}
       /\ \E found \in IF answer = "ok" THEN Finds(p) ELSE {{}} :
            call' = [call EXCEPT
              ![p].pc = "idle", ![p].answer = answer, ![p].found = found,
              ![p].token = Capable(call[p].req, call[p].id, call[p].cfg),
              ![p].source = IF call[p].req.op \in {"sync", "scan"}
                            THEN AllowedRoot(call[p].cfg) ELSE Nothing]
  /\ UNCHANGED <<agentzero, store, policy, calls, changes, late>>

-----------------------------------------------------------------------------
(* Users of Agent Zero, and other programs. *)

MoveChat ==
  /\ Change
  /\ \E c \in Chats, p \in Names :
       project' = [project EXCEPT ![c] = p] /\ past' = past \cup {<<c, p>>}
  /\ UNCHANGED <<env, edited, saved, roots, late, store, policy, memories, call, calls>>

\* save_plugin_config: Agent Zero stores what the hook returns, after a bootstrap.
SaveSettings ==
  /\ Change
  /\ \E edit \in Edits :
       /\ edited' = [edited EXCEPT ![edit.of] = edit.settings]
       /\ saved' = [saved EXCEPT ![edit.of] = Load(env, edit.settings)]
       /\ roots' = [roots EXCEPT ![edit.of] = @ \cup {RootOf(env, edit.settings)}]
       /\ store' \in Bootstraps(RootOf(env, edit.settings))
  /\ UNCHANGED <<env, project, past, late, policy, memories, call, calls>>

\* Another program creates a store or upgrades one, or an older one creates an old store.
OtherProgram ==
  /\ Change
  /\ \E r \in Roots :
       \/ /\ store[r] \in {"absent", "old"} /\ store' = [store EXCEPT ![r] = "v3"]
          /\ UNCHANGED late
       \/ /\ store[r] = "absent" /\ store' = [store EXCEPT ![r] = "old"]
          /\ late' = late \cup {p \in Callers : call[p].pc = "open" /\ Root(p) = r}
  /\ UNCHANGED <<agentzero, policy, memories, call, calls>>

\* `tree-ring policy enable', by the operator
EnablePolicy ==
  /\ Change
  /\ \E r \in Roots :
       store[r] = "v3" /\ policy[r] = "open" /\ policy' = [policy EXCEPT ![r] = "coordinated"]
  /\ UNCHANGED <<agentzero, store, memories, call, calls, late>>

-----------------------------------------------------------------------------
Caller(p) ==
  \/ Request(p) \/ RequestDefaults(p) \/ ReadIdentity(p)
  \/ Inspect(p) \/ Initialize(p) \/ CoreInit(p) \/ RunRefused(p) \/ Run(p)

Next ==
  \/ \E p \in Callers : Caller(p)
  \/ MoveChat \/ SaveSettings \/ OtherProgram \/ EnablePolicy

Spec == Init /\ [][Next]_vars

-----------------------------------------------------------------------------
(* Properties. *)

TypeOK ==
  /\ env \in Worlds
  /\ project \in [Chats -> Names]
  /\ edited \in [Names -> Settings] /\ saved \in [Names -> Settings]
  /\ store \in [Roots -> States] /\ policy \in [Roots -> {"open", "coordinated"}]
  /\ memories \subseteq Memories
  /\ call \in [Callers -> CallType]
  /\ calls \in Nat /\ changes \in Nat
  /\ past \subseteq Chats \X Names
  /\ roots \in [Names -> SUBSET Roots] /\ late \subseteq Callers

Stored == memories \ Seeded

\* "Every Agent Zero tool invocation derives its Tree Ring identity from the live server-side
\* Agent Zero context" (README.md:198): a memory names a chat, the profile and the workflow of
\* that chat; where the chat was in a project as the call read its identity, it is filed
\* under that project, one the chat has really been in, whatever the caller asked for; and
\* only a chat that has really been in none writes for the project that the caller names.
WriterIsCaller ==
  \A m \in Stored :
    /\ m.session \in Chats /\ m.profile = ProfileOf[m.session]
    /\ m.workflow = Or(ParentOf[m.session], m.session)
    /\ <<m.session, m.own>> \in past
    /\ m.own # Nothing => m.project = m.own

\* "Identity is never sourced from tool or API payload fields" (context.py:18), and "`project`
\* comes from the active Agent Zero project" (README.md:201): a memory is filed under no
\* project in which its chat has never been.
ProjectIsCallers ==
  \A m \in Stored : m.project # Nothing => <<m.session, m.project>> \in past

\* Settings and identity are read one after the other, while chats move and settings are
\* saved: a memory lies in a root configured for the project whose settings the call had
\* read, and unless its chat has moved in between, this is the project of the memory, or
\* none: the global settings, or the defaults where the API falls back on them.
OneProjectPerWrite ==
  \A m \in Stored :
    m.root \in roots[m.home] /\ (m.own = m.home => m.home \in {m.project, Nothing})

\* "A retry can reuse the same logical write identity" (README.md:204): under retries of
\* calls whose answer was lost, and concurrent ones, a writer's operation is stored once.
OncePerOperation ==
  \A m, n \in Stored :
    m.asked # Nothing /\ m.asked = n.asked /\ SameWriter(m, n) => m = n

\* "A coordinator capability is reinserted only when ... the operation is a protected
\* mutation; and the server-derived Agent Zero profile appears in
\* coordination.coordinator_profiles" (README.md:210): protected is what the core asks it
\* for, and the profiles are those the user gave for the project of the call.
CapabilityIsLeast ==
  \A p \in Callers :
    call[p].token => Coordinated(call[p].req) /\ call[p].id.profile \in call[p].from.coordinators

\* The other way round: what the core does only with the capability is never denied to a
\* profile that the user has listed, while the host has the capability.
CoordinatorNotDenied ==
  \A p \in Callers :
    call[p].answer = "denied" /\ HostToken
      => call[p].id.profile \notin call[p].from.coordinators

\* "This read-only operation will not create it", "will not initialize or migrate it"
\* (cli.py:543, 553): once its settings are read, an audit, a scan or a preview changes no
\* store.  Any other operation changes none but its own root's, and there migrates an old
\* store only if another program has created it after the last look of TreeRingCli.init:
\* one that was there before is refused, even where ensure_initialized had seen none.
StoresKept ==
  [][ \A p \in Callers : call[p].pc # "idle" /\ call'[p] # call[p] =>
        \A r \in Roots : store'[r] # store[r] =>
          /\ r = Root(p) /\ (store[r] = "absent" \/ (store[r] = "old" /\ p \in late))
          /\ ~(call[p].req.op \in {"audit", "scan"})
          /\ ~(call[p].req.op = "import" /\ ~call[p].req.apply) ]_vars

\* What a recall is for (README.md:206): memories of the project, workflow, profile and
\* session that are named, or else of the caller's, where it has any; a wide recall is of
\* any profile and session unless one is named.
Agrees(named, own, value) ==
  IF named # Nothing THEN value = named ELSE own = Nothing \/ value = own

Asked(p) ==
  LET r == call[p].req
      id == call[p].id
  IN {m \in At(Root(p)) :
        /\ Agrees(r.project, id.project, m.project)
        /\ Agrees(r.workflow, id.workflow, m.workflow)
        /\ Agrees(r.profile, IF r.wide THEN Nothing ELSE id.profile, m.profile)
        /\ Agrees(r.session, IF r.wide THEN Nothing ELSE id.session, m.session)
        /\ r.scope \in {Nothing, m.scope}}

Wanted(p) == {m \in Asked(p) : call[p].req.ring \in {Nothing, m.ring}}

\* The core cannot filter by ring: nevertheless recall returns as many of the memories
\* that are wanted as there are, up to the limit, as long as those before that filter
\* are no more than the factor times the limit; and it returns no others.
RecallComplete ==
  [][ \A p \in Callers :
        call'[p] # call[p] /\ call'[p].answer = "ok" /\ call[p].req.op = "recall" =>
          LET limit == RequestedLimit(call[p].req.limit) IN
          /\ call'[p].found \subseteq Wanted(p)
          /\ call[p].req.blank \/ Cardinality(Asked(p)) <= ScanFactor * limit =>
               Cardinality(call'[p].found) = Smaller(limit, Cardinality(Wanted(p))) ]_vars

\* A folder is synchronised or scanned only if it is the one that the environment, or
\* else the user's settings, select, and never while they conflict: however often the
\* settings were loaded since.  A value that is no path is out of this (see the README).
SourceSelected ==
  \A p \in Callers :
    LET given == call[p].from
        asked == Or(env.project_root, given.project_root)
    IN call[p].source # Nothing /\ NotAPath \notin {given.project_root, given.allowed_project_root}
         => /\ call[p].source = Or(asked, Or(given.allowed_project_root, RepoRoot))
            /\ ~Disagree(asked, given.allowed_project_root)
=============================================================================
