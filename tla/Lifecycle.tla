------------------------------ MODULE Lifecycle ------------------------------
(***************************************************************************)
(* The lifecycle adapter of the Tree Ring plugin (runtime/lifecycle.py) with  *)
(* the two Agent Zero extensions that call it and the `capture' tool that    *)
(* relies on it (tools/capture.py).                                         *)
(*                                                                         *)
(* A turn is one Agent Zero monologue: the LoopData object whose prompt      *)
(* extras the adapter fills.  Before every prompt of a turn the adapter runs   *)
(* a receipt-backed preflight in a child process, or re-attaches the context  *)
(* it has cached for the turn's key; the context carries a checkpoint        *)
(* identifier, and automatic captures are accepted only against the          *)
(* checkpoint cached for the caller's key.  At the end of the monologue the   *)
(* cache entry is dropped.                                                  *)
(*                                                                         *)
(* Every action is one stretch of code between two points where another       *)
(* coroutine or thread may run: an await, or a region under _STATE_LOCK.      *)
(***************************************************************************)
EXTENDS Integers, FiniteSets

CONSTANTS
  Turns,        \* monologues
  Names,        \* session, workflow and profile names
  Identity,     \* [Turns -> server-derived identity of the running agent]
  Ids,          \* checkpoint identifiers; random, never drawn twice
  NoId,
  NoTurn,
  Stores,       \* core store identifiers (activation.json, store_id)
  NoStore,
  Bindings,     \* what load_activation_binding may answer
  Candidates,   \* indexed candidate slots of one checkpoint
  MaxConcurrentPreflights,
  Killable,     \* turns the user or the framework may cancel
  NoExtras,     \* turns whose LoopData has no extras_persistent dictionary
  MidTurnSwitch, \* may an agent's project binding change while it runs?
  MaxBuilds,    \* bound: prompt builds of one turn
  MaxSwitches   \* bound: changes of a project binding

BindingStates == {"configured-awaiting-proof", "active-isolated"}

ActivationBindings ==
  [state : BindingStates, store : Stores]
    \cup [state : {"needs-project-mount"}, store : {NoStore}]

ASSUME ConstantsAssumption ==
  /\ MaxConcurrentPreflights \in Nat \ {0}
  /\ IsFiniteSet(Turns)
  /\ Identity \in [Turns -> [session : Names, workflow : Names, profile : Names,
                             number : Nat]]
  /\ Candidates # {}
  /\ MaxBuilds \in Nat /\ MaxSwitches \in Nat
  /\ Killable \subseteq Turns /\ NoExtras \subseteq Turns
  /\ MidTurnSwitch \in BOOLEAN
  /\ Bindings \subseteq ActivationBindings
  /\ NoId \notin Ids /\ NoTurn \notin Turns /\ NoStore \notin Stores

\* Mutant: the agent number is left out of the key.
TurnKeyWithoutNumber(t) == <<Identity[t].session, Identity[t].workflow,
                             Identity[t].profile>>

\* lifecycle._turn_key: session, workflow, profile and agent number.
TurnKey(t) == <<Identity[t].session, Identity[t].workflow,
                Identity[t].profile, Identity[t].number>>

Keys == {TurnKey(t) : t \in Turns}

Phases == {
  "off",      \* not started
  "loop",     \* the monologue runs, no lifecycle call in progress
  "cached",   \* cache hit, context not attached yet
  "unbound",  \* no usable binding, result not recorded yet
  "slot",     \* waiting for a preflight slot
  "child",    \* awaiting the preflight child
  "publish",  \* new context attached, cache not updated yet
  "failed",   \* preflight failed, failure not recorded yet
  "write",    \* capture validated, not written yet
  "killed",   \* cancelled, monologue_end not delivered yet
  "gone",     \* cancelled, and monologue_end delivered
  "done" }

InFlight == {"cached", "unbound", "slot", "child", "publish", "failed"}
Live     == InFlight \cup {"loop", "write"}

Outcomes == {"none", "running", "valid", "invalid", "error"}

VARIABLES
  pc,        \* [Turns -> Phases]
  builds,    \* [Turns -> Nat]: prompts built
  bound,     \* [Turns -> binding read by the lifecycle call in progress]
  pending,   \* [Turns -> checkpoint the coroutine holds in a local]
  candidate, \* [Turns -> candidate slot of the capture in progress]
  child,     \* [Turns -> Outcomes]: the preflight child of the turn
  extras,    \* [Turns -> checkpoint in extras_persistent["tree_ring_memory"]]
  slots,     \* _PREFLIGHT_SLOTS: free permits
  cache,     \* _TURN_CONTEXTS
  latest,    \* _LATEST_BY_STORE
  config,    \* [Keys -> binding of the agent's scoped configuration]
  switches,  \* changes of a binding so far
  receipt,   \* core: the store holds a successful preflight receipt
  captured,  \* core: automatic captures stored
  owner,     \* history: the turn an identifier was issued to
  origin,    \* history: the store whose receipt issued it
  retired,   \* history: identifiers dropped by a monologue end
  unproven   \* history: stores with an injection failure and none later accepted

turnVars == <<pc, builds, bound, pending, candidate, extras>>
history  == <<owner, origin, retired, unproven>>
vars == <<pc, builds, bound, pending, candidate, child, extras, slots, cache,
          latest, config, switches, receipt, captured, owner, origin, retired,
          unproven>>

Unmounted == [state |-> "needs-project-mount", store |-> NoStore]

CapturedOps == [id : Ids, candidate : Candidates, turn : Turns,
                dest : ActivationBindings]

TypeOK ==
  /\ pc \in [Turns -> Phases]
  /\ builds \in [Turns -> Nat]
  /\ bound \in [Turns -> ActivationBindings]
  /\ pending \in [Turns -> Ids \cup {NoId}]
  /\ candidate \in [Turns -> Candidates]
  /\ child \in [Turns -> Outcomes]
  /\ extras \in [Turns -> Ids \cup {NoId}]
  /\ slots \in 0..MaxConcurrentPreflights
  /\ cache \in [Keys -> Ids \cup {NoId}]
  /\ latest \in [Stores -> {"none", "injected", "failed", "unbound"}]
  /\ config \in [Keys -> ActivationBindings]
  /\ switches \in Nat
  /\ receipt \in [Stores -> BOOLEAN]
  /\ captured \subseteq CapturedOps
  /\ owner \in [Ids -> Turns \cup {NoTurn}]
  /\ origin \in [Ids -> Stores \cup {NoStore}]
  /\ retired \subseteq Ids
  /\ unproven \in [Stores -> BOOLEAN]

Init ==
  /\ pc = [t \in Turns |-> "off"]
  /\ builds = [t \in Turns |-> 0]
  /\ bound = [t \in Turns |-> Unmounted]
  /\ pending = [t \in Turns |-> NoId]
  /\ candidate = [t \in Turns |-> CHOOSE c \in Candidates : TRUE]
  /\ child = [t \in Turns |-> "none"]
  /\ extras = [t \in Turns |-> NoId]
  /\ slots = MaxConcurrentPreflights
  /\ cache = [k \in Keys |-> NoId]
  /\ latest = [s \in Stores |-> "none"]
  /\ config \in [Keys -> Bindings]
  /\ switches = 0
  /\ receipt = [s \in Stores |-> FALSE]
  /\ captured = {}
  /\ owner = [i \in Ids |-> NoTurn]
  /\ origin = [i \in Ids |-> NoStore]
  /\ retired = {}
  /\ unproven = [s \in Stores |-> FALSE]

-----------------------------------------------------------------------------
(* Agent Zero and the project configuration, external to the adapter. *)

\* One monologue at a time for an agent, except one already cancelled.
StartTurn(t) ==
  /\ pc[t] = "off"
  /\ \A u \in Turns : Identity[u] = Identity[t] => pc[u] \notin Live
  /\ pc' = [pc EXCEPT ![t] = "loop"]
  /\ UNCHANGED <<builds, bound, pending, candidate, child, extras, slots, cache,
                 latest, config, switches, receipt, captured, history>>

\* The user activates another project, or mounts or unmounts one.
SwitchProject(k) ==
  /\ switches < MaxSwitches
  /\ MidTurnSwitch \/ \A t \in Turns : TurnKey(t) = k => pc[t] \notin Live
  /\ \E b \in Bindings \ {config[k]} : config' = [config EXCEPT ![k] = b]
  /\ switches' = switches + 1
  /\ UNCHANGED <<turnVars, child, slots, cache, latest, receipt, captured, history>>

-----------------------------------------------------------------------------
(* inject_lifecycle_context, called by message_loop_prompts_after. *)

\* Up to the first suspension: the cache is read, then the configuration.
BuildPrompt(t) ==
  /\ pc[t] = "loop"
  /\ builds[t] < MaxBuilds
  /\ builds' = [builds EXCEPT ![t] = @ + 1]
  /\ LET hit == cache[TurnKey(t)]
         b   == config[TurnKey(t)]
     IN \/ /\ hit # NoId
           /\ pending' = [pending EXCEPT ![t] = hit]
           /\ pc' = [pc EXCEPT ![t] = "cached"]
           /\ UNCHANGED bound
        \/ /\ hit = NoId
           /\ bound' = [bound EXCEPT ![t] = b]
           /\ pc' = [pc EXCEPT ![t] =
                IF b.state = "configured-awaiting-proof" THEN "slot" ELSE "unbound"]
           /\ UNCHANGED pending
  /\ UNCHANGED <<candidate, child, extras, slots, cache, latest, config, switches,
                 receipt, captured, history>>

\* Loading the configuration or building the bridge raises; the extension
\* swallows the exception and removes whatever context is attached.
BuildRaises(t) ==
  /\ pc[t] = "loop"
  /\ builds[t] < MaxBuilds
  /\ cache[TurnKey(t)] = NoId
  /\ builds' = [builds EXCEPT ![t] = @ + 1]
  /\ extras' = [extras EXCEPT ![t] = NoId]
  /\ UNCHANGED <<pc, bound, pending, candidate, child, slots, cache, latest, config,
                 switches, receipt, captured, history>>

\* Mutant: a cache hit writes the entry back.
AttachCachedRefreshes(t) ==
  /\ pc[t] = "cached"
  /\ t \notin NoExtras
  /\ extras' = [extras EXCEPT ![t] = pending[t]]
  /\ cache' = [cache EXCEPT ![TurnKey(t)] = pending[t]]
  /\ pc' = [pc EXCEPT ![t] = "loop"]
  /\ UNCHANGED <<builds, bound, pending, candidate, child, slots, latest,
                 config, switches, receipt, captured, history>>

AttachCached(t) ==
  /\ pc[t] = "cached"
  /\ t \notin NoExtras
  /\ extras' = [extras EXCEPT ![t] = pending[t]]
  /\ pc' = [pc EXCEPT ![t] = "loop"]
  /\ UNCHANGED <<builds, bound, pending, candidate, child, slots, cache, latest,
                 config, switches, receipt, captured, history>>

\* _record_latest and, for the history, what an observer of the result learns.
RecordLatest(s, result) ==
  /\ latest' = [latest EXCEPT ![s] = result]
  /\ unproven' = [unproven EXCEPT ![s] =
                     result = "failed" \/ (@ /\ result # "injected")]

AttachCachedFails(t) ==
  /\ pc[t] = "cached"
  /\ t \in NoExtras
  /\ RecordLatest(origin[pending[t]], "failed")
  /\ pc' = [pc EXCEPT ![t] = "loop"]
  /\ UNCHANGED <<builds, bound, pending, candidate, child, extras, slots, cache,
                 config, switches, receipt, captured, owner, origin, retired>>

\* A result that is not an attempt is recorded too when the binding is known.
RecordUnbound(t) ==
  /\ pc[t] = "unbound"
  /\ IF bound[t].store = NoStore THEN UNCHANGED <<latest, unproven>>
     ELSE RecordLatest(bound[t].store, "unbound")
  /\ pc' = [pc EXCEPT ![t] = "loop"]
  /\ UNCHANGED <<builds, bound, pending, candidate, child, extras, slots, cache,
                 config, switches, receipt, captured, owner, origin, retired>>

\* Mutant: the permit is given back before the child is awaited.
AcquireSlotEarlyRelease(t) ==
  /\ pc[t] = "slot"
  /\ slots > 0
  /\ child' = [child EXCEPT ![t] = "running"]
  /\ pc' = [pc EXCEPT ![t] = "child"]
  /\ UNCHANGED <<builds, bound, pending, candidate, extras, slots, cache, latest,
                 config, switches, receipt, captured, history>>

AcquireSlot(t) ==
  /\ pc[t] = "slot"
  /\ slots > 0
  /\ slots' = slots - 1
  /\ child' = [child EXCEPT ![t] = "running"]
  /\ pc' = [pc EXCEPT ![t] = "child"]
  /\ UNCHANGED <<builds, bound, pending, candidate, extras, cache, latest, config,
                 switches, receipt, captured, history>>

\* The semaphore is contended from a second event loop: RuntimeError.
SlotRaises(t) ==
  /\ pc[t] = "slot"
  /\ slots = 0
  /\ pc' = [pc EXCEPT ![t] = "failed"]
  /\ UNCHANGED <<builds, bound, pending, candidate, child, extras, slots, cache,
                 latest, config, switches, receipt, captured, history>>

\* The child ends (at the latest by its timeout).  Core has written a receipt
\* whenever it answered, even if the adapter is going to refuse the answer.
\* Nobody reads the answer of a child whose turn was cancelled.
ChildExits(t) ==
  /\ child[t] = "running"
  /\ \E o \in {"valid", "invalid", "error"} :
       /\ child' = [child EXCEPT ![t] = IF pc[t] = "child" THEN o ELSE "none"]
       /\ receipt' = [receipt EXCEPT ![bound[t].store] = @ \/ o # "error"]
  /\ UNCHANGED <<turnVars, slots, cache, latest, config, switches, captured, history>>

\* Mutant: a context that is already attached is not replaced.
ReceiveContextKeepsOld(t) ==
  /\ pc[t] = "child"
  /\ child[t] = "valid"
  /\ t \notin NoExtras
  /\ \E i \in Ids :
       /\ owner[i] = NoTurn
       /\ owner' = [owner EXCEPT ![i] = t]
       /\ origin' = [origin EXCEPT ![i] = bound[t].store]
       /\ extras' = [extras EXCEPT ![t] = IF @ = NoId THEN i ELSE @]
       /\ pending' = [pending EXCEPT ![t] = i]
  /\ slots' = slots + 1
  /\ child' = [child EXCEPT ![t] = "none"]
  /\ pc' = [pc EXCEPT ![t] = "publish"]
  /\ UNCHANGED <<builds, bound, candidate, cache, latest, config, switches, receipt,
                 captured, retired, unproven>>

\* The await returns: the permit is released, the answer validated, a fresh
\* checkpoint composed into the context and the context attached.
ReceiveContext(t) ==
  /\ pc[t] = "child"
  /\ child[t] = "valid"
  /\ t \notin NoExtras
  /\ \E i \in Ids :
       /\ owner[i] = NoTurn
       /\ owner' = [owner EXCEPT ![i] = t]
       /\ origin' = [origin EXCEPT ![i] = bound[t].store]
       /\ extras' = [extras EXCEPT ![t] = i]
       /\ pending' = [pending EXCEPT ![t] = i]
  /\ slots' = slots + 1
  /\ child' = [child EXCEPT ![t] = "none"]
  /\ pc' = [pc EXCEPT ![t] = "publish"]
  /\ UNCHANGED <<builds, bound, candidate, cache, latest, config, switches, receipt,
                 captured, retired, unproven>>

\* Mutant: the error path keeps the permit.
ReceiveFailureLeaksPermit(t) ==
  /\ pc[t] = "child"
  /\ child[t] \in {"invalid", "error"} \/ (child[t] = "valid" /\ t \in NoExtras)
  /\ child' = [child EXCEPT ![t] = "none"]
  /\ pc' = [pc EXCEPT ![t] = "failed"]
  /\ UNCHANGED <<builds, bound, pending, candidate, extras, slots, cache, latest,
                 config, switches, receipt, captured, history>>

\* A refused answer, an error of the child, or extras that cannot be attached.
ReceiveFailure(t) ==
  /\ pc[t] = "child"
  /\ child[t] \in {"invalid", "error"} \/ (child[t] = "valid" /\ t \in NoExtras)
  /\ slots' = slots + 1
  /\ child' = [child EXCEPT ![t] = "none"]
  /\ pc' = [pc EXCEPT ![t] = "failed"]
  /\ UNCHANGED <<builds, bound, pending, candidate, extras, cache, latest, config,
                 switches, receipt, captured, history>>

RecordFailure(t) ==
  /\ pc[t] = "failed"
  /\ RecordLatest(bound[t].store, "failed")
  /\ pc' = [pc EXCEPT ![t] = "loop"]
  /\ UNCHANGED <<builds, bound, pending, candidate, child, extras, slots, cache,
                 config, switches, receipt, captured, owner, origin, retired>>

\* Mutant: the newest context replaces the entry of every active key.
PublishOverwritesAll(t) ==
  /\ pc[t] = "publish"
  /\ cache' = [k \in Keys |-> IF cache[k] # NoId \/ k = TurnKey(t)
                              THEN pending[t] ELSE cache[k]]
  /\ RecordLatest(bound[t].store, "injected")
  /\ pc' = [pc EXCEPT ![t] = "loop"]
  /\ UNCHANGED <<builds, bound, pending, candidate, child, extras, slots, config,
                 switches, receipt, captured, owner, origin, retired>>

Publish(t) ==
  /\ pc[t] = "publish"
  /\ cache' = [cache EXCEPT ![TurnKey(t)] = pending[t]]
  /\ RecordLatest(bound[t].store, "injected")
  /\ pc' = [pc EXCEPT ![t] = "loop"]
  /\ UNCHANGED <<builds, bound, pending, candidate, child, extras, slots, config,
                 switches, receipt, captured, owner, origin, retired>>

-----------------------------------------------------------------------------
(* The end of a monologue, and its cancellation. *)

\* Mutant: only the extras are removed, the entry stays.
CleanupKeepsEntry(t) ==
  /\ retired' = retired \cup ({cache[TurnKey(t)]} \ {NoId})
  /\ extras' = [extras EXCEPT ![t] = NoId]
  /\ pc' = [pc EXCEPT ![t] = IF @ = "killed" THEN "gone" ELSE "done"]
  /\ UNCHANGED <<builds, bound, pending, candidate, child, slots, cache, latest, config,
                 switches, receipt, captured, owner, origin, unproven>>

\* cleanup_lifecycle_context: pop the key's entry and this turn's extras.
Cleanup(t) ==
  /\ cache' = [cache EXCEPT ![TurnKey(t)] = NoId]
  /\ retired' = retired \cup ({cache[TurnKey(t)]} \ {NoId})
  /\ extras' = [extras EXCEPT ![t] = NoId]
  /\ pc' = [pc EXCEPT ![t] = IF @ = "killed" THEN "gone" ELSE "done"]
  /\ UNCHANGED <<builds, bound, pending, candidate, child, slots, latest, config,
                 switches, receipt, captured, owner, origin, unproven>>

MonologueEnd(t) == pc[t] = "loop" /\ Cleanup(t)

\* monologue_end of a cancelled turn is delivered whenever its task gets to it.
LateMonologueEnd(t) == pc[t] = "killed" /\ Cleanup(t)

\* Mutant: cancellation releases a permit that was never taken.
KillAlwaysReleases(t) ==
  /\ t \in Killable
  /\ pc[t] \in {"loop", "slot", "child"}
  /\ slots' = IF pc[t] \in {"slot", "child"} THEN slots + 1 ELSE slots
  /\ child' = [child EXCEPT ![t] = IF @ = "running" THEN @ ELSE "none"]
  /\ pc' = [pc EXCEPT ![t] = "killed"]
  /\ UNCHANGED <<builds, bound, pending, candidate, extras, cache, latest, config,
                 switches, receipt, captured, history>>

\* CancelledError at an await.  It is not caught: the permit is released by the
\* context manager while the worker thread and its child go on.
Kill(t) ==
  /\ t \in Killable
  /\ pc[t] \in {"loop", "slot", "child"}
  /\ slots' = IF pc[t] = "child" THEN slots + 1 ELSE slots
  /\ child' = [child EXCEPT ![t] = IF @ = "running" THEN @ ELSE "none"]
  /\ pc' = [pc EXCEPT ![t] = "killed"]
  /\ UNCHANGED <<builds, bound, pending, candidate, extras, cache, latest, config,
                 switches, receipt, captured, history>>

-----------------------------------------------------------------------------
(* The capture tool. *)

\* Mutant: any checkpoint will do while one is active.
AcceptsAny(k, i) == cache[k] # NoId

\* validate_capture_checkpoint accepts identifier i against the entry of key k.
Accepts(k, i) == cache[k] # NoId /\ cache[k] = i

\* The model may name any identifier that was ever issued; a refusal changes
\* nothing and is left out.
CaptureValidate(t) ==
  /\ pc[t] = "loop"
  /\ \E i \in Ids, c \in Candidates :
       /\ owner[i] # NoTurn
       /\ Accepts(TurnKey(t), i)
       /\ pending' = [pending EXCEPT ![t] = i]
       /\ candidate' = [candidate EXCEPT ![t] = c]
  /\ pc' = [pc EXCEPT ![t] = "write"]
  /\ UNCHANGED <<builds, bound, child, extras, slots, cache, latest, config, switches,
                 receipt, captured, history>>

\* Mutant: core is not told that it is a replay.
CaptureWriteAgain(t) ==
  /\ pc[t] = "write"
  /\ captured' = captured \cup {[id |-> pending[t], candidate |-> candidate[t], turn |-> t,
                                dest |-> config[TurnKey(t)]]}
  /\ pc' = [pc EXCEPT ![t] = "loop"]
  /\ UNCHANGED <<builds, bound, pending, candidate, child, extras, slots, cache,
                 latest, config, switches, receipt, history>>

\* The bridge is built from the configuration of this moment, which decides the store.
\* Core keeps one record per operation identifier in a store; a replay returns it.
CaptureWrite(t) ==
  /\ pc[t] = "write"
  /\ LET dest == config[TurnKey(t)]
     IN captured' =
          IF \E r \in captured :
               r.id = pending[t] /\ r.candidate = candidate[t] /\ r.dest = dest
          THEN captured
          ELSE captured \cup {[id |-> pending[t], candidate |-> candidate[t], turn |-> t,
                               dest |-> dest]}
  /\ pc' = [pc EXCEPT ![t] = "loop"]
  /\ UNCHANGED <<builds, bound, pending, candidate, child, extras, slots, cache,
                 latest, config, switches, receipt, history>>

\* No project, no usable store, or core refuses: an error for the model.
CaptureFails(t) ==
  /\ pc[t] = "write"
  /\ pc' = [pc EXCEPT ![t] = "loop"]
  /\ UNCHANGED <<builds, bound, pending, candidate, child, extras, slots, cache,
                 latest, config, switches, receipt, captured, history>>

-----------------------------------------------------------------------------
Inject(t) ==
  \/ BuildPrompt(t) \/ BuildRaises(t)
  \/ AttachCached(t) \/ AttachCachedFails(t) \/ RecordUnbound(t)
  \/ AcquireSlot(t) \/ SlotRaises(t)
  \/ ReceiveContext(t) \/ ReceiveFailure(t) \/ RecordFailure(t) \/ Publish(t)

Capture(t) == CaptureValidate(t) \/ CaptureWrite(t) \/ CaptureFails(t)

Next ==
  \/ \E t \in Turns : \/ StartTurn(t) \/ Inject(t) \/ ChildExits(t) \/ Capture(t)
                      \/ MonologueEnd(t) \/ LateMonologueEnd(t) \/ Kill(t)
  \/ \E k \in Keys : SwitchProject(k)

Spec == Init /\ [][Next]_vars

\* What runs once it can: coroutines that are not suspended, children (bounded by
\* cli.timeout_seconds), and the framework's monologue_end; the semaphore serves
\* its waiters in order, so a turn that waits again and again is served.
Fairness ==
  \A t \in Turns :
    /\ WF_vars(AttachCached(t) \/ AttachCachedFails(t) \/ RecordUnbound(t)
               \/ ReceiveContext(t) \/ ReceiveFailure(t) \/ RecordFailure(t)
               \/ Publish(t) \/ CaptureWrite(t) \/ CaptureFails(t))
    /\ WF_vars(ChildExits(t))
    /\ SF_vars(AcquireSlot(t))
    /\ SF_vars(MonologueEnd(t))
    /\ WF_vars(LateMonologueEnd(t))

FairSpec == Spec /\ Fairness

-----------------------------------------------------------------------------
(* Properties. *)

Issued(i) == i # NoId /\ owner[i] # NoTurn

\* The turns inside `async with _PREFLIGHT_SLOTS'.
Holders == {t \in Turns : pc[t] = "child"}

\* Every permit of _PREFLIGHT_SLOTS is free or held by a turn that awaits its
\* child, cancelled turns included: none is lost and none is released twice.
SlotAccounting == slots + Cardinality(Holders) = MaxConcurrentPreflights

\* Agents that differ in session, workflow, profile or number never see or use
\* each other's checkpoint: neither in a prompt nor in a stored capture, whatever
\* the interleaving of their turns, cancellations and late cleanups.
IdentityIsolation ==
  /\ \A t \in Turns : extras[t] # NoId =>
       Issued(extras[t]) /\ Identity[owner[extras[t]]] = Identity[t]
  /\ \A c \in captured : Issued(c.id) /\ Identity[owner[c.id]] = Identity[c.turn]

\* A checkpoint dropped at a monologue end is never accepted again: no later
\* publication or re-attachment brings it back into _TURN_CONTEXTS.
RetiredStaysRetired == \A k \in Keys : cache[k] \notin retired

\* The reason for both: every checkpoint that is cached, about to be published or
\* held by a call in progress was issued to the same key, a checkpoint about to be
\* published is its turn's own and nowhere else, and retired ones were issued.
CheckpointInv ==
  /\ \A k \in Keys : cache[k] # NoId =>
       Issued(cache[k]) /\ TurnKey(owner[cache[k]]) = k
  /\ \A t \in Turns : pc[t] \in {"cached", "publish", "write"} =>
       Issued(pending[t]) /\ TurnKey(owner[pending[t]]) = TurnKey(t)
  /\ \A t \in Turns : pc[t] = "publish" =>
       /\ owner[pending[t]] = t
       /\ pending[t] \notin retired
       /\ \A k \in Keys : cache[k] # pending[t]
  /\ \A i \in retired : Issued(i)

\* Between lifecycle calls the checkpoint a running turn shows its model is the one
\* that captures are validated against, whenever both exist.
PromptAgreesWithCache ==
  \A t \in Turns :
    pc[t] = "loop" /\ extras[t] # NoId /\ cache[TurnKey(t)] # NoId
      => extras[t] = cache[TurnKey(t)]

Cancelled(t) == pc[t] \in {"killed", "gone"}

\* At most MAX_CONCURRENT_PREFLIGHTS children run, but for the one that each cancelled
\* turn may have left behind.
ChildrenBounded ==
  Cardinality({t \in Turns : child[t] = "running"})
    <= MaxConcurrentPreflights + Cardinality({t \in Turns : Cancelled(t)})

\* "One fresh identifier for one turn" (_new_checkpoint_id): every stored automatic
\* capture was made by the turn its checkpoint was issued to; only the checkpoint of a
\* cancelled turn may be taken over, by a later turn of the agent.
OneTurnPerCheckpoint ==
  \A c \in captured : owner[c.id] = c.turn \/ Cancelled(owner[c.id])

\* A capture is validated only in a turn whose prompt carries that checkpoint, unless it
\* is taken over.
AcceptedWasShown ==
  \A t \in Turns : pc[t] = "write" =>
    extras[t] = pending[t] \/ Cancelled(owner[pending[t]])

\* The checkpoint is "bound to the current agent, project, workflow, and session"
\* (_compose_prompt_context): captures made against it are stored in the project
\* whose preflight receipt issued it, unless it is taken over.
CheckpointBoundToProject ==
  \A c \in captured :
    \/ c.dest = [state |-> "configured-awaiting-proof", store |-> origin[c.id]]
    \/ Cancelled(owner[c.id])

\* What _redacted_activation_payload reports of a mounted store: core's receipt,
\* unless the latest result recorded for the store is a failed injection.
PublicState(s) ==
  IF latest[s] = "failed" \/ ~receipt[s] THEN "configured-awaiting-proof" ELSE "active"

\* "Keep the public state awaiting proof when this process observed an injection
\* failure" (api/memory_api.py): until an injection succeeds, the API does not
\* report the store active on core's receipt alone.
FailureWithheldFromStatus ==
  \A s \in Stores : unproven[s] => PublicState(s) = "configured-awaiting-proof"

\* Every lifecycle call returns to its turn or is cancelled: nobody waits for a
\* permit, a child or the lock forever.
InjectReturns == \A t \in Turns : pc[t] \in InFlight ~> pc[t] \notin InFlight

\* When monologues end, every published checkpoint eventually leaves the cache,
\* also one whose turn was cancelled.
CheckpointRetires ==
  \A i \in Ids : (\E k \in Keys : cache[k] = i) ~> (\A k \in Keys : cache[k] # i)

\* The registry of checkpoints: an identifier has been active once it was cached, whether
\* it still is or a monologue end has retired it.
Spent == retired \cup {cache[k] : k \in Keys}

Registry == INSTANCE CheckpointRegistry WITH
  KeyOf  <- TurnKey,
  NoKey  <- <<>>,
  given  <- [i \in Ids |-> IF i \in Spent THEN TurnKey(owner[i]) ELSE <<>>],
  active <- cache,
  stored <- {[by |-> c.turn, id |-> c.id, candidate |-> c.candidate, place |-> c.dest] :
               c \in captured}

\* Cancellations, late cleanups, failures and retries included, the adapter and the
\* capture tool do what the registry allows: no checkpoint displaces an active one or
\* becomes active again, and a candidate replayed by any turn is not
\* stored again.
ImplementsRegistry == Registry!RegistrySpec
=============================================================================
