----------------------------- MODULE TurnProofs -----------------------------
(***************************************************************************)
(* Theorems about the checkpoint a turn of Lifecycle shows its model, for every  *)
(* interleaving and any number of cancellations: that the cache agrees with it   *)
(* and keeps no entry for ever; that a capture is made by the turn its checkpoint  *)
(* was issued to, in a prompt that shows it, and in the project it was issued for,  *)
(* but for the checkpoints that cancelled turns leave behind; that the adapter is   *)
(* a registry of checkpoints; and what its liveness rests on besides fairness.      *)
(***************************************************************************)
EXTENDS LifecycleProofs

\* One monologue at a time for an agent.
Alone ==
  \A t, u \in Turns :
    Identity[t] = Identity[u] /\ pc[t] \in Live /\ pc[u] \in Live => t = u

\* What a lifecycle call of turn t still finds in the cache after each of its awaits: it
\* has missed the cache, and nobody but another call of its key could fill it.
ShownInv(t) ==
  /\ pc[t] = "off" => extras[t] = NoId
  /\ pc[t] \in {"unbound", "slot", "child", "failed", "publish"} => cache[TurnKey(t)] = NoId
  /\ pc[t] = "publish" => extras[t] = pending[t]
  /\ pc[t] = "cached" => cache[TurnKey(t)] \in {NoId, pending[t]}
  /\ pc[t] \in Live /\ extras[t] # NoId /\ cache[TurnKey(t)] # NoId =>
       extras[t] = cache[TurnKey(t)]

Shown == Alone /\ \A t \in Turns : ShownInv(t)

LEMMA SameAgent ==
  ASSUME Alone, NEW t \in Turns, NEW u \in Turns, TurnKey(t) = TurnKey(u),
         pc[t] \in Live, pc[u] \in Live
  PROVE  t = u
  BY KeyDeterminesIdentity DEF Alone

\* A step that moves one turn on and starts none.
LEMMA AloneKept ==
  ASSUME TypeOK, Alone, NEW t \in Turns, NEW x, pc[t] \in Live \/ x \notin Live,
         pc' = [pc EXCEPT ![t] = x]
  PROVE  Alone'
  BY DEF Alone, TypeOK

LEMMA AloneStarted == ASSUME TypeOK, Alone, NEW t \in Turns, StartTurn(t) PROVE Alone'
<1>1. pc' = [pc EXCEPT ![t] = "loop"]
      /\ \A u \in Turns : Identity[u] = Identity[t] => pc[u] \notin Live
  BY DEF StartTurn
<1> SUFFICES ASSUME NEW u \in Turns, NEW v \in Turns, Identity[u] = Identity[v],
                    pc'[u] \in Live, pc'[v] \in Live
             PROVE  u = v
  BY DEF Alone
<1>2. pc \in [Turns -> Phases]
  BY DEF TypeOK
<1>3. CASE u # t /\ v # t
  BY <1>1, <1>2, <1>3 DEF Alone
<1>4. CASE u = t \/ v = t
  BY <1>1, <1>2, <1>4
<1> QED BY <1>3, <1>4

\* A step of turn t that fills no cache entry leaves the others as they were.
LEMMA OthersShown ==
  ASSUME TypeOK, Shown, NEW t \in Turns, NEW x, pc' = [pc EXCEPT ![t] = x],
         \A u \in Turns \ {t} : extras'[u] = extras[u] /\ pending'[u] = pending[u],
         \A k \in Keys : cache'[k] \in {cache[k], NoId},
         pc[t] \in Live \/ x \notin Live,
         ShownInv(t)'
  PROVE  Shown'
<1>1. Alone'
  BY AloneKept DEF Shown
<1>2. ASSUME NEW u \in Turns, u # t PROVE ShownInv(u)'
  BY <1>2, KeysFact DEF Shown, ShownInv, TypeOK
<1> QED BY <1>1, <1>2 DEF Shown

LEMMA ShownInit == Init => Shown
  BY KeysFact DEF Init, Shown, Alone, ShownInv, Live, InFlight

LEMMA ShownStep == TypeOK /\ Shown /\ [Next]_vars => Shown'
<1> SUFFICES ASSUME TypeOK, Shown, [Next]_vars PROVE Shown'
  OBVIOUS
<1>0. /\ pc \in [Turns -> Phases]
      /\ pending \in [Turns -> Ids \cup {NoId}]
      /\ extras \in [Turns -> Ids \cup {NoId}]
      /\ cache \in [Keys -> Ids \cup {NoId}]
      /\ NoId \notin Ids
      /\ \A t \in Turns : ShownInv(t) /\ TurnKey(t) \in Keys
  BY ConstantsAssumption, KeysFact DEF TypeOK, Shown
<1>1. ASSUME NEW t \in Turns, StartTurn(t) PROVE Shown'
  <2>1. pc' = [pc EXCEPT ![t] = "loop"] /\ pc[t] = "off" /\ UNCHANGED <<extras, cache, pending>>
    BY <1>1 DEF StartTurn
  <2>2. \A u \in Turns : ShownInv(u)'
    BY <1>0, <2>1 DEF ShownInv
  <2> QED BY <1>1, <2>2, AloneStarted DEF Shown
\* Steps that touch neither the extras nor the cache.
<1>2. ASSUME NEW t \in Turns, NEW x, pc' = [pc EXCEPT ![t] = x],
             UNCHANGED <<extras, cache, pending>>, pc[t] \in Live,
             \/ x \in {"loop", "killed"}
             \/ pc[t] \in {"slot", "child"} /\ x \in {"child", "failed"}
      PROVE  Shown'
  <2>1. ShownInv(t)'
    BY <1>0, <1>2 DEF ShownInv, Live, InFlight
  <2> QED BY <1>0, <1>2, <2>1, OthersShown
<1>3. ASSUME NEW t \in Turns, BuildPrompt(t) PROVE Shown'
  <2>1. CASE cache[TurnKey(t)] = NoId
    <3>1. PICK x \in {"slot", "unbound"} : pc' = [pc EXCEPT ![t] = x]
      BY <1>3, <2>1 DEF BuildPrompt
    <3>2. pc[t] = "loop" /\ UNCHANGED <<extras, cache, pending>>
      BY <1>3, <2>1 DEF BuildPrompt
    <3>3. ShownInv(t)'
      BY <1>0, <2>1, <3>1, <3>2 DEF ShownInv
    <3> QED BY <1>0, <3>1, <3>2, <3>3, OthersShown DEF Live
  <2>2. CASE cache[TurnKey(t)] # NoId
    <3>1. /\ pending' = [pending EXCEPT ![t] = cache[TurnKey(t)]]
          /\ pc' = [pc EXCEPT ![t] = "cached"]
          /\ pc[t] = "loop" /\ UNCHANGED <<extras, cache>>
      BY <1>3, <2>2 DEF BuildPrompt
    <3>2. ShownInv(t)'
      BY <1>0, <3>1 DEF ShownInv, Live
    <3> QED BY <1>0, <3>1, <3>2, OthersShown DEF Live
  <2> QED BY <2>1, <2>2
<1>4. ASSUME NEW t \in Turns, BuildRaises(t) PROVE Shown'
  <2>1. /\ pc' = [pc EXCEPT ![t] = "loop"] /\ pc[t] = "loop"
        /\ extras' = [extras EXCEPT ![t] = NoId] /\ UNCHANGED <<cache, pending>>
    BY <1>0, <1>4 DEF BuildRaises
  <2>2. ShownInv(t)'
    BY <1>0, <2>1 DEF ShownInv
  <2> QED BY <1>0, <2>1, <2>2, OthersShown DEF Live
<1>5. ASSUME NEW t \in Turns, AttachCached(t) PROVE Shown'
  <2>1. /\ pc' = [pc EXCEPT ![t] = "loop"] /\ pc[t] = "cached"
        /\ extras' = [extras EXCEPT ![t] = pending[t]] /\ UNCHANGED <<cache, pending>>
    BY <1>5 DEF AttachCached
  <2>2. ShownInv(t)'
    BY <1>0, <2>1 DEF ShownInv
  <2> QED BY <1>0, <2>1, <2>2, OthersShown DEF Live, InFlight
<1>6. ASSUME NEW t \in Turns, ReceiveContext(t) PROVE Shown'
  <2>1. PICK i \in Ids : /\ extras' = [extras EXCEPT ![t] = i]
                         /\ pending' = [pending EXCEPT ![t] = i]
    BY <1>6 DEF ReceiveContext
  <2>2. pc' = [pc EXCEPT ![t] = "publish"] /\ pc[t] = "child" /\ UNCHANGED cache
    BY <1>6 DEF ReceiveContext
  <2>3. ShownInv(t)'
    BY <1>0, <2>1, <2>2 DEF ShownInv
  <2> QED BY <1>0, <2>1, <2>2, <2>3, OthersShown DEF Live, InFlight
<1>7. ASSUME NEW t \in Turns, Publish(t) PROVE Shown'
  <2>1. /\ pc' = [pc EXCEPT ![t] = "loop"] /\ pc[t] = "publish"
        /\ cache' = [cache EXCEPT ![TurnKey(t)] = pending[t]]
        /\ UNCHANGED <<extras, pending>>
    BY <1>7 DEF Publish
  <2>2. Alone'
    BY <2>1, AloneKept DEF Shown, Live, InFlight
  <2>3. ShownInv(t)'
    BY <1>0, <2>1 DEF ShownInv
  <2>4. ASSUME NEW u \in Turns, u # t PROVE ShownInv(u)'
    <3>1. CASE TurnKey(u) # TurnKey(t)
      BY <1>0, <2>1, <2>4, <3>1 DEF ShownInv
    <3>2. CASE TurnKey(u) = TurnKey(t)
      <4>1. pc[u] \notin Live /\ pc'[u] = pc[u] /\ extras'[u] = extras[u]
        BY <1>0, <2>1, <2>4, <3>2, SameAgent DEF Shown, Live, InFlight
      <4> QED BY <1>0, <4>1 DEF ShownInv, Live, InFlight
    <3> QED BY <3>1, <3>2
  <2> QED BY <2>2, <2>3, <2>4 DEF Shown
<1>8. ASSUME NEW t \in Turns, Cleanup(t) PROVE Shown'
  <2>1. PICK x \in {"done", "gone"} : pc' = [pc EXCEPT ![t] = x]
    BY <1>0, <1>8 DEF Cleanup
  <2>2. /\ cache' = [cache EXCEPT ![TurnKey(t)] = NoId] /\ UNCHANGED pending
        /\ extras' = [extras EXCEPT ![t] = NoId]
    BY <1>8 DEF Cleanup
  <2>3. ShownInv(t)'
    BY <1>0, <2>1, <2>2 DEF ShownInv, Live, InFlight
  <2> QED BY <1>0, <2>1, <2>2, <2>3, OthersShown DEF Live, InFlight
<1>9. ASSUME NEW t \in Turns, CaptureValidate(t) PROVE Shown'
  <2>1. PICK i \in Ids : pending' = [pending EXCEPT ![t] = i]
    BY <1>9 DEF CaptureValidate
  <2>2. pc' = [pc EXCEPT ![t] = "write"] /\ pc[t] = "loop" /\ UNCHANGED <<extras, cache>>
    BY <1>9 DEF CaptureValidate
  <2>3. ShownInv(t)'
    BY <1>0, <2>2 DEF ShownInv, Live
  <2> QED BY <1>0, <2>1, <2>2, <2>3, OthersShown DEF Live
<1>10. ASSUME NEW t \in Turns,
              \/ AttachCachedFails(t) \/ RecordUnbound(t) \/ AcquireSlot(t)
              \/ SlotRaises(t) \/ ReceiveFailure(t) \/ RecordFailure(t) \/ Kill(t)
              \/ CaptureWrite(t) \/ CaptureFails(t)
       PROVE  Shown'
  <2>1. pc[t] \in Live
    BY <1>10 DEF Live, InFlight, AttachCachedFails, RecordUnbound, AcquireSlot, SlotRaises,
         ReceiveFailure, RecordFailure, Kill, CaptureWrite, CaptureFails
  <2>2. UNCHANGED <<extras, cache, pending>>
    BY <1>10 DEF AttachCachedFails, RecordUnbound, AcquireSlot, SlotRaises,
         ReceiveFailure, RecordFailure, Kill, CaptureWrite, CaptureFails
  <2>3. \E x : /\ pc' = [pc EXCEPT ![t] = x]
               /\ \/ x \in {"loop", "killed"}
                  \/ pc[t] \in {"slot", "child"} /\ x \in {"child", "failed"}
    BY <1>10 DEF AttachCachedFails, RecordUnbound, AcquireSlot, SlotRaises,
         ReceiveFailure, RecordFailure, Kill, CaptureWrite, CaptureFails
  <2> QED BY <1>2, <2>1, <2>2, <2>3
<1>11. ASSUME UNCHANGED <<pc, extras, cache, pending>> PROVE Shown'
  BY <1>11 DEF Shown, Alone, ShownInv
<1>12. ASSUME NEW t \in Turns, ChildExits(t) PROVE Shown'
  BY <1>11, <1>12 DEF ChildExits, turnVars
<1>13. ASSUME NEW k \in Keys, SwitchProject(k) PROVE Shown'
  BY <1>11, <1>13 DEF SwitchProject, turnVars
<1>14. CASE UNCHANGED vars
  BY <1>11, <1>14 DEF vars
<1> QED BY <1>1, <1>3, <1>4, <1>5, <1>6, <1>7, <1>8, <1>9, <1>10, <1>12, <1>13, <1>14
       DEF Next, Inject, Capture, MonologueEnd, LateMonologueEnd

THEOREM ShownInvariance == Spec => []Shown
<1>1. TypeOK /\ Shown /\ [Next]_vars => Shown'
  BY ShownStep
<1> QED BY <1>1, ShownInit, TypeCorrect, PTL DEF Spec

\* Whatever is cancelled, and however late its monologue end comes: the checkpoint in the
\* prompt of a running turn and the one in _TURN_CONTEXTS never differ.
THEOREM PromptAgrees == Spec => []PromptAgreesWithCache
<1>1. Shown => PromptAgreesWithCache
  BY DEF Shown, ShownInv, PromptAgreesWithCache, Live
<1> QED BY <1>1, ShownInvariance, PTL

-----------------------------------------------------------------------------
(* The turn a checkpoint belongs to. *)

\* An entry of _TURN_CONTEXTS belongs to a turn whose monologue end is still to come: none
\* is left behind, whoever is cancelled and in whatever order the ends are delivered.
EntriesKept ==
  \A k \in Keys : cache[k] # NoId => pc[owner[cache[k]]] \in Live \cup {"killed"}

\* The checkpoint is the turn's own, or one that it has taken over.
Usable(t, i) == owner[i] = t \/ Cancelled(owner[i])

\* Children run for turns that wait for them or were cancelled; a running turn shows what is
\* cached for it, unless that was left behind by a cancelled one; and what it writes for is
\* its own and was shown, or taken over.
Orderly ==
  /\ \A t \in Turns : child[t] = "running" => pc[t] = "child" \/ Cancelled(t)
  /\ EntriesKept
  /\ \A t \in Turns :
       /\ pc[t] \in Live /\ cache[TurnKey(t)] # NoId =>
            extras[t] # NoId \/ Cancelled(owner[cache[TurnKey(t)]])
       /\ pc[t] = "write" => Usable(t, pending[t])
  /\ AcceptedWasShown
  /\ OneTurnPerCheckpoint
  /\ \A c \in captured : owner[c.id] \in Turns

\* What is cached for a running turn is its own or was left behind.
LEMMA CachedUsable ==
  ASSUME IInv, Shown, EntriesKept, NEW t \in Turns, pc[t] \in Live, cache[TurnKey(t)] # NoId
  PROVE  Usable(t, cache[TurnKey(t)])
<1> DEFINE i == cache[TurnKey(t)]
<1>1. i \in Ids /\ owner[i] \in Turns /\ TurnKey(owner[i]) = TurnKey(t)
  BY KeysFact DEF IInv, TypeOK, CheckpointInv, Issued
<1>2. pc[owner[i]] \in Live \cup {"killed"}
  BY KeysFact DEF EntriesKept
<1>3. pc[owner[i]] \in Live => owner[i] = t
  BY <1>1, SameAgent DEF Shown
<1> QED BY <1>2, <1>3 DEF Usable, Cancelled

\* Where no turn of an agent runs, what is cached for it was left behind.
LEMMA OnlyLeftBehind ==
  ASSUME IInv, EntriesKept, NEW k \in Keys, \A u \in Turns : TurnKey(u) = k => pc[u] \notin Live,
         cache[k] # NoId
  PROVE  Cancelled(owner[cache[k]])
<1>1. owner[cache[k]] \in Turns /\ TurnKey(owner[cache[k]]) = k
  BY DEF IInv, TypeOK, CheckpointInv, Issued
<1> QED BY <1>1 DEF EntriesKept, Cancelled

LEMMA OrderlyInit == Init => Orderly
  BY KeysFact DEF Init, Orderly, EntriesKept, AcceptedWasShown, OneTurnPerCheckpoint, Live, InFlight

\* A step of turn t that leaves the cache and what is stored alone.
LEMMA OrderlyTurn ==
  ASSUME IInv, Orderly, NEW t \in Turns, NEW x, pc' = [pc EXCEPT ![t] = x],
         pc[t] \in Live \cup {"off"}, x \in Live \cup {"killed"},
         UNCHANGED <<cache, owner, captured>>,
         \A u \in Turns \ {t} :
           pending'[u] = pending[u] /\ extras'[u] = extras[u] /\ child'[u] = child[u],
         child'[t] = "running" => x \in {"child", "killed"},
         x \in Live /\ cache[TurnKey(t)] # NoId =>
           extras'[t] # NoId \/ Cancelled(owner[cache[TurnKey(t)]]),
         x = "write" => /\ owner[pending'[t]] \in Turns /\ Usable(t, pending'[t])
                        /\ extras'[t] = pending'[t] \/ Cancelled(owner[pending'[t]])
  PROVE  Orderly'
<1> USE DEF Cancelled
<1>1. /\ pc \in [Turns -> Phases] /\ owner \in [Ids -> Turns \cup {NoTurn}]
      /\ captured \subseteq CapturedOps /\ NoId \notin Ids
      /\ \A u \in Turns : TurnKey(u) \in Keys
      /\ \A k \in Keys : cache[k] # NoId => cache[k] \in Ids /\ owner[cache[k]] \in Turns
      /\ \A u \in Turns : pc[u] = "write" => pending[u] \in Ids /\ owner[pending[u]] \in Turns
  BY ConstantsAssumption, KeysFact DEF IInv, TypeOK, CheckpointInv, Issued
<1>2. \A u \in Turns : pc[u] \in {"killed", "gone"} => pc'[u] = pc[u]
  BY <1>1 DEF Live, InFlight
<1>3. \A u \in Turns : child'[u] = "running" => pc'[u] = "child" \/ pc'[u] \in {"killed", "gone"}
  BY <1>1, <1>2 DEF Orderly
<1>4. EntriesKept'
  BY <1>1 DEF Orderly, EntriesKept
<1>5. ASSUME NEW u \in Turns, pc'[u] \in Live, cache[TurnKey(u)] # NoId
      PROVE  extras'[u] # NoId \/ pc'[owner[cache[TurnKey(u)]]] \in {"killed", "gone"}
  <2>1. extras'[u] # NoId \/ pc[owner[cache[TurnKey(u)]]] \in {"killed", "gone"}
    BY <1>1, <1>5 DEF Orderly
  <2> QED BY <1>1, <1>2, <1>5, <2>1
<1>6. ASSUME NEW u \in Turns, pc'[u] = "write"
      PROVE  /\ owner[pending'[u]] = u \/ pc'[owner[pending'[u]]] \in {"killed", "gone"}
             /\ extras'[u] = pending'[u] \/ pc'[owner[pending'[u]]] \in {"killed", "gone"}
  <2>1. /\ owner[pending'[u]] \in Turns
        /\ owner[pending'[u]] = u \/ pc[owner[pending'[u]]] \in {"killed", "gone"}
        /\ extras'[u] = pending'[u] \/ pc[owner[pending'[u]]] \in {"killed", "gone"}
    <3>1. CASE u = t
      BY <1>1, <1>6, <3>1 DEF Usable
    <3>2. CASE u # t
      BY <1>1, <1>6, <3>2 DEF Usable, Orderly, AcceptedWasShown
    <3> QED BY <3>1, <3>2
  <2> QED BY <1>2, <2>1
<1>7. \A c \in captured : /\ owner[c.id] \in Turns
                          /\ owner[c.id] = c.turn \/ pc'[owner[c.id]] \in {"killed", "gone"}
  BY <1>2 DEF Orderly, OneTurnPerCheckpoint
<1> QED BY <1>3, <1>4, <1>5, <1>6, <1>7
       DEF Orderly, AcceptedWasShown, OneTurnPerCheckpoint, Usable

LEMMA OrderlyStep ==
  ASSUME IInv, Shown, Orderly, [Next]_vars
  PROVE  Orderly'
<1>0. /\ pc \in [Turns -> Phases] /\ child \in [Turns -> Outcomes]
      /\ pending \in [Turns -> Ids \cup {NoId}]
      /\ extras \in [Turns -> Ids \cup {NoId}]
      /\ cache \in [Keys -> Ids \cup {NoId}]
      /\ owner \in [Ids -> Turns \cup {NoTurn}] /\ captured \subseteq CapturedOps
      /\ NoId \notin Ids /\ NoTurn \notin Turns
      /\ \A t \in Turns : ShownInv(t) /\ TurnKey(t) \in Keys
      /\ \A k \in Keys : cache[k] # NoId =>
           cache[k] \in Ids /\ owner[cache[k]] \in Turns /\ TurnKey(owner[cache[k]]) = k
      /\ \A t \in Turns : pc[t] = "write" => pending[t] \in Ids /\ owner[pending[t]] \in Turns
      /\ \A c \in captured : c.id \in Ids /\ owner[c.id] \in Turns
      /\ EntriesKept
  BY ConstantsAssumption, KeysFact
     DEF IInv, TypeOK, Shown, CheckpointInv, Issued, Orderly, CapturedOps
\* What OrderlyTurn asks of a turn that runs before and after and keeps its extras.
<1>1. ASSUME NEW t \in Turns, NEW x, x \in (Live \ {"write"}) \cup {"killed"}, pc[t] \in Live,
             pc' = [pc EXCEPT ![t] = x], UNCHANGED <<extras, cache, owner, captured>>,
             \A u \in Turns \ {t} : pending'[u] = pending[u] /\ child'[u] = child[u],
             child'[t] = "running" => x \in {"child", "killed"}
      PROVE  Orderly'
  <2>1. cache[TurnKey(t)] # NoId => extras'[t] # NoId \/ Cancelled(owner[cache[TurnKey(t)]])
    BY <1>0, <1>1 DEF Orderly
  <2> QED BY <1>1, <2>1, OrderlyTurn DEF Live, InFlight
<1>2. ASSUME NEW t \in Turns, StartTurn(t) PROVE Orderly'
  <2>1. /\ pc' = [pc EXCEPT ![t] = "loop"] /\ pc[t] = "off"
        /\ \A u \in Turns : Identity[u] = Identity[t] => pc[u] \notin Live
        /\ UNCHANGED <<extras, cache, owner, captured, pending, child>>
    BY <1>2 DEF StartTurn, history
  <2>2. child[t] # "running"
    BY <2>1 DEF Orderly, Cancelled
  <2>3. cache[TurnKey(t)] # NoId => Cancelled(owner[cache[TurnKey(t)]])
    BY <1>0, <2>1, OnlyLeftBehind, KeyDeterminesIdentity
  <2> QED BY <2>1, <2>2, <2>3, OrderlyTurn DEF Live
<1>3. ASSUME NEW t \in Turns, BuildPrompt(t) PROVE Orderly'
  <2>1. PICK x \in {"cached", "slot", "unbound"} : pc' = [pc EXCEPT ![t] = x]
    BY <1>3 DEF BuildPrompt
  <2>2. /\ pc[t] = "loop" /\ UNCHANGED <<extras, cache, owner, captured, child>>
        /\ \A u \in Turns \ {t} : pending'[u] = pending[u]
    BY <1>0, <1>3 DEF BuildPrompt, history
  <2>3. child[t] # "running"
    BY <2>2 DEF Orderly, Cancelled
  <2> QED BY <1>1, <2>1, <2>2, <2>3 DEF Live, InFlight
<1>4. ASSUME NEW t \in Turns, BuildRaises(t) PROVE Orderly'
  <2>1. /\ pc[t] = "loop" /\ cache[TurnKey(t)] = NoId
        /\ extras' = [extras EXCEPT ![t] = NoId]
        /\ UNCHANGED <<pc, cache, owner, captured, child, pending>>
    BY <1>4 DEF BuildRaises, history
  <2>2. pc' = [pc EXCEPT ![t] = "loop"] /\ child'[t] # "running"
    BY <1>0, <2>1 DEF Orderly, Cancelled
  <2>3. /\ \A u \in Turns \ {t} :
             pending'[u] = pending[u] /\ extras'[u] = extras[u] /\ child'[u] = child[u]
        /\ pc[t] \in Live /\ "loop" \in Live
    BY <1>0, <2>1 DEF Live
  <2> QED BY <2>1, <2>2, <2>3, OrderlyTurn
<1>5. ASSUME NEW t \in Turns, AttachCached(t) PROVE Orderly'
  <2>1. /\ pc[t] = "cached" /\ pc' = [pc EXCEPT ![t] = "loop"]
        /\ extras' = [extras EXCEPT ![t] = pending[t]]
        /\ UNCHANGED <<cache, owner, captured, child, pending>>
    BY <1>5 DEF AttachCached, history
  <2>2. extras'[t] # NoId
    BY <1>0, <2>1 DEF IInv, CheckpointInv, Issued
  <2>3. child'[t] # "running"
    BY <2>1 DEF Orderly, Cancelled
  <2> QED BY <1>0, <2>1, <2>2, <2>3, OrderlyTurn DEF Live, InFlight
<1>6. ASSUME NEW t \in Turns,
             \/ AttachCachedFails(t) \/ RecordUnbound(t) \/ AcquireSlot(t) \/ SlotRaises(t)
             \/ ReceiveFailure(t) \/ RecordFailure(t) \/ CaptureFails(t) \/ Kill(t)
      PROVE  Orderly'
  <2> USE DEF AttachCachedFails, RecordUnbound, AcquireSlot, SlotRaises, ReceiveFailure,
          RecordFailure, CaptureFails, Kill
  <2>1. UNCHANGED <<extras, cache, owner, captured, pending>>
    BY <1>6 DEF history
  <2>2. PICK x \in {"loop", "child", "failed", "killed"} :
          /\ pc[t] \in Live /\ pc' = [pc EXCEPT ![t] = x]
          /\ child'[t] = "running" => x \in {"child", "killed"}
          /\ \A u \in Turns \ {t} : child'[u] = child[u]
    <3>1. CASE AcquireSlot(t)
      BY <1>0, <3>1 DEF Live, InFlight
    <3>2. CASE ReceiveFailure(t)
      BY <1>0, <3>2 DEF Live, InFlight
    <3>3. CASE Kill(t)
      BY <1>0, <3>3 DEF Live, InFlight
    <3>4. CASE ~AcquireSlot(t) /\ ~ReceiveFailure(t) /\ ~Kill(t)
      BY <1>0, <1>6, <3>4 DEF Orderly, Cancelled, Live, InFlight
    <3> QED BY <3>1, <3>2, <3>3, <3>4
  <2> QED BY <1>1, <2>1, <2>2 DEF Live, InFlight
<1>7. ASSUME NEW t \in Turns, ChildExits(t) PROVE Orderly'
  <2>1. UNCHANGED <<pc, extras, cache, owner, captured, pending>>
    BY <1>7 DEF ChildExits, turnVars, history
  <2>2. \A u \in Turns : child'[u] = "running" => child[u] = "running"
    BY <1>0, <1>7 DEF ChildExits
  <2> QED BY <2>1, <2>2
          DEF Orderly, EntriesKept, AcceptedWasShown, OneTurnPerCheckpoint, Usable, Cancelled
<1>8. ASSUME NEW t \in Turns, ReceiveContext(t) PROVE Orderly'
  <2>1. PICK i \in Ids : /\ owner[i] = NoTurn /\ owner' = [owner EXCEPT ![i] = t]
                         /\ extras' = [extras EXCEPT ![t] = i]
                         /\ pending' = [pending EXCEPT ![t] = i]
    BY <1>8 DEF ReceiveContext
  <2>2. /\ pc[t] = "child" /\ pc' = [pc EXCEPT ![t] = "publish"]
        /\ child' = [child EXCEPT ![t] = "none"] /\ UNCHANGED <<cache, captured>>
    BY <1>8 DEF ReceiveContext
  <2>3. /\ \A k \in Keys : cache[k] # NoId => owner'[cache[k]] = owner[cache[k]]
        /\ \A c \in captured : owner'[c.id] = owner[c.id]
        /\ \A u \in Turns : pc[u] = "write" => owner'[pending[u]] = owner[pending[u]]
        /\ \A u \in Turns : pc[u] \in {"killed", "gone"} => pc'[u] = pc[u]
    BY <1>0, <2>1, <2>2
  <2>4. EntriesKept'
    BY <1>0, <2>2, <2>3 DEF EntriesKept, Live, InFlight
  <2>5. \A u \in Turns : child'[u] = "running" => pc'[u] = "child" \/ pc'[u] \in {"killed", "gone"}
    BY <1>0, <2>2 DEF Orderly, Cancelled
  <2>6. ASSUME NEW u \in Turns, pc'[u] \in Live, cache[TurnKey(u)] # NoId
        PROVE  extras'[u] # NoId \/ pc'[owner'[cache[TurnKey(u)]]] \in {"killed", "gone"}
    <3>1. CASE u = t
      BY <1>0, <2>1, <3>1
    <3>2. CASE u # t
      BY <1>0, <2>1, <2>2, <2>3, <2>6, <3>2 DEF Orderly, Cancelled
    <3> QED BY <3>1, <3>2
  <2>7. ASSUME NEW u \in Turns, pc'[u] = "write"
        PROVE  /\ owner'[pending'[u]] = u \/ pc'[owner'[pending'[u]]] \in {"killed", "gone"}
               /\ extras'[u] = pending'[u] \/ pc'[owner'[pending'[u]]] \in {"killed", "gone"}
    <3>1. pc[u] = "write" /\ pending'[u] = pending[u] /\ extras'[u] = extras[u]
      BY <1>0, <2>1, <2>2, <2>7
    <3> QED BY <1>0, <2>3, <3>1 DEF Orderly, AcceptedWasShown, Usable, Cancelled
  <2>8. \A c \in captured :
          /\ owner'[c.id] \in Turns
          /\ owner'[c.id] = c.turn \/ pc'[owner'[c.id]] \in {"killed", "gone"}
    BY <1>0, <2>3 DEF Orderly, OneTurnPerCheckpoint, Cancelled
  <2> QED BY <2>2, <2>4, <2>5, <2>6, <2>7, <2>8
          DEF Orderly, AcceptedWasShown, OneTurnPerCheckpoint, Usable, Cancelled
\* The publishing turn is the only one of its key that runs.
<1>9. ASSUME NEW t \in Turns, Publish(t) PROVE Orderly'
  <2>1. /\ pc[t] = "publish" /\ pc' = [pc EXCEPT ![t] = "loop"]
        /\ cache' = [cache EXCEPT ![TurnKey(t)] = pending[t]]
        /\ UNCHANGED <<extras, owner, captured, child, pending>>
    BY <1>9 DEF Publish
  <2>2. /\ pending[t] \in Ids /\ owner[pending[t]] = t
        /\ extras[t] = pending[t] /\ pc[t] \in Live
    BY <1>0, <2>1 DEF IInv, CheckpointInv, Issued, ShownInv, Live, InFlight
  <2>3. /\ \A u \in Turns : pc[u] \in {"killed", "gone"} => pc'[u] = pc[u]
        /\ \A u \in Turns : pc'[u] = "write" => pc[u] = "write"
    BY <1>0, <2>1
  <2>4. EntriesKept'
    BY <1>0, <2>1, <2>2 DEF EntriesKept, Live
  <2>5. \A u \in Turns : child[u] = "running" => pc'[u] = "child" \/ pc'[u] \in {"killed", "gone"}
    BY <1>0, <2>1 DEF Orderly, Cancelled
  <2>6. ASSUME NEW u \in Turns, pc'[u] \in Live, cache'[TurnKey(u)] # NoId
        PROVE  extras[u] # NoId \/ pc'[owner[cache'[TurnKey(u)]]] \in {"killed", "gone"}
    <3>1. CASE u = t
      BY <1>0, <2>2, <3>1
    <3>2. CASE u # t
      <4>1. pc[u] \in Live
        BY <1>0, <2>1, <2>6, <3>2
      <4>2. TurnKey(u) # TurnKey(t)
        BY <2>2, <3>2, <4>1, SameAgent DEF Shown
      <4>3. cache'[TurnKey(u)] = cache[TurnKey(u)]
        BY <1>0, <2>1, <4>2
      <4> QED BY <1>0, <2>3, <2>6, <4>1, <4>3 DEF Orderly, Cancelled
    <3> QED BY <3>1, <3>2
  <2>7. \A u \in Turns : pc'[u] = "write" =>
          /\ owner[pending[u]] = u \/ pc'[owner[pending[u]]] \in {"killed", "gone"}
          /\ extras[u] = pending[u] \/ pc'[owner[pending[u]]] \in {"killed", "gone"}
    BY <1>0, <2>3 DEF Orderly, AcceptedWasShown, Usable, Cancelled
  <2>8. \A c \in captured : owner[c.id] = c.turn \/ pc'[owner[c.id]] \in {"killed", "gone"}
    BY <1>0, <2>3 DEF Orderly, OneTurnPerCheckpoint, Cancelled
  <2> QED BY <1>0, <2>1, <2>4, <2>5, <2>6, <2>7, <2>8
          DEF Orderly, AcceptedWasShown, OneTurnPerCheckpoint, Usable, Cancelled
\* A monologue end removes the entry of its key, whoever it was issued to.
<1>10. ASSUME NEW t \in Turns, Cleanup(t), pc[t] \in {"loop", "killed"} PROVE Orderly'
  <2>1. /\ cache' = [cache EXCEPT ![TurnKey(t)] = NoId]
        /\ extras' = [extras EXCEPT ![t] = NoId]
        /\ UNCHANGED <<owner, captured, child, pending>>
    BY <1>10 DEF Cleanup
  <2>2. PICK x \in {"done", "gone"} :
          pc' = [pc EXCEPT ![t] = x] /\ (pc[t] = "killed" => x = "gone")
    BY <1>0, <1>10 DEF Cleanup
  <2>3. /\ \A u \in Turns : pc[u] \in {"killed", "gone"} => pc'[u] \in {"killed", "gone"}
        /\ \A u \in Turns : pc'[u] \in Live => u # t /\ pc'[u] = pc[u]
    BY <1>0, <1>10, <2>2 DEF Live, InFlight
  <2>4. EntriesKept'
    <3> SUFFICES ASSUME NEW k \in Keys, cache'[k] # NoId
                 PROVE  pc'[owner[cache'[k]]] \in Live \cup {"killed"}
      BY <2>1 DEF EntriesKept
    <3>1. k # TurnKey(t) /\ cache'[k] = cache[k]
      BY <1>0, <2>1
    <3>2. owner[cache[k]] # t
      BY <1>0, <3>1
    <3> QED BY <1>0, <2>2, <3>1, <3>2 DEF EntriesKept
  <2>5. \A u \in Turns : child[u] = "running" => pc'[u] = "child" \/ pc'[u] \in {"killed", "gone"}
    BY <1>0, <1>10, <2>2 DEF Orderly, Cancelled
  <2>6. \A u \in Turns : pc'[u] \in Live /\ cache'[TurnKey(u)] # NoId =>
          extras'[u] # NoId \/ pc'[owner[cache'[TurnKey(u)]]] \in {"killed", "gone"}
    BY <1>0, <2>1, <2>3 DEF Orderly, Cancelled
  <2>7. \A u \in Turns : pc'[u] = "write" =>
          /\ owner[pending[u]] = u \/ pc'[owner[pending[u]]] \in {"killed", "gone"}
          /\ extras'[u] = pending[u] \/ pc'[owner[pending[u]]] \in {"killed", "gone"}
    BY <1>0, <2>1, <2>3 DEF Orderly, AcceptedWasShown, Usable, Cancelled, Live
  <2>8. \A c \in captured : owner[c.id] = c.turn \/ pc'[owner[c.id]] \in {"killed", "gone"}
    BY <1>0, <2>3 DEF Orderly, OneTurnPerCheckpoint, Cancelled
  <2> QED BY <1>0, <2>1, <2>4, <2>5, <2>6, <2>7, <2>8
          DEF Orderly, AcceptedWasShown, OneTurnPerCheckpoint, Usable, Cancelled
<1>11. ASSUME NEW t \in Turns, CaptureValidate(t) PROVE Orderly'
  <2>1. /\ pc[t] = "loop" /\ pc' = [pc EXCEPT ![t] = "write"]
        /\ pending' = [pending EXCEPT ![t] = cache[TurnKey(t)]] /\ cache[TurnKey(t)] # NoId
        /\ UNCHANGED <<extras, cache, owner, captured, child>>
    BY <1>11 DEF CaptureValidate, Accepts, history
  <2>2. /\ pending'[t] = cache[TurnKey(t)] /\ pc[t] \in Live
        /\ owner[pending'[t]] \in Turns /\ child'[t] # "running"
    BY <1>0, <2>1 DEF Orderly, Cancelled, Live
  <2>3. Usable(t, pending'[t])
    BY <1>0, <2>1, <2>2, CachedUsable
  <2>4. extras[t] # NoId \/ Cancelled(owner[cache[TurnKey(t)]])
    BY <2>1, <2>2 DEF Orderly
  <2>5. extras[t] = pending'[t] \/ Cancelled(owner[pending'[t]])
    BY <1>0, <2>1, <2>2, <2>4 DEF ShownInv
  <2> QED BY <1>0, <2>1, <2>2, <2>3, <2>4, <2>5, OrderlyTurn DEF Live
<1>12. ASSUME NEW t \in Turns, CaptureWrite(t) PROVE Orderly'
  <2>1. /\ pc[t] = "write" /\ pc' = [pc EXCEPT ![t] = "loop"]
        /\ UNCHANGED <<extras, cache, owner, child, pending>>
    BY <1>12 DEF CaptureWrite, history
  <2>2. \A c \in captured' : c \in captured \/ (c.id = pending[t] /\ c.turn = t)
    BY <1>12 DEF CaptureWrite
  <2>3. /\ \A u \in Turns : pc[u] \in {"killed", "gone"} => pc'[u] = pc[u]
        /\ \A u \in Turns : pc'[u] = "write" => pc[u] = "write"
        /\ \A u \in Turns : pc'[u] \in Live => pc[u] \in Live
    BY <1>0, <2>1 DEF Live
  <2>4. \A c \in captured' :
          /\ owner[c.id] \in Turns
          /\ owner[c.id] = c.turn \/ pc'[owner[c.id]] \in {"killed", "gone"}
    BY <1>0, <2>1, <2>2, <2>3 DEF Orderly, OneTurnPerCheckpoint, Usable, Cancelled
  <2>5. EntriesKept'
    BY <1>0, <2>1 DEF EntriesKept, Live
  <2>6. \A u \in Turns : child[u] = "running" => pc'[u] = "child" \/ pc'[u] \in {"killed", "gone"}
    BY <1>0, <2>1 DEF Orderly, Cancelled
  <2>7. \A u \in Turns : pc'[u] \in Live /\ cache[TurnKey(u)] # NoId =>
          extras[u] # NoId \/ pc'[owner[cache[TurnKey(u)]]] \in {"killed", "gone"}
    BY <1>0, <2>3 DEF Orderly, Cancelled
  <2>8. \A u \in Turns : pc'[u] = "write" =>
          /\ owner[pending[u]] = u \/ pc'[owner[pending[u]]] \in {"killed", "gone"}
          /\ extras[u] = pending[u] \/ pc'[owner[pending[u]]] \in {"killed", "gone"}
    BY <1>0, <2>3 DEF Orderly, AcceptedWasShown, Usable, Cancelled
  <2> QED BY <2>1, <2>4, <2>5, <2>6, <2>7, <2>8
          DEF Orderly, AcceptedWasShown, OneTurnPerCheckpoint, Usable, Cancelled
<1>13. ASSUME UNCHANGED <<pc, extras, cache, owner, captured, child, pending>> PROVE Orderly'
  BY <1>13 DEF Orderly, EntriesKept, AcceptedWasShown, OneTurnPerCheckpoint, Usable, Cancelled
<1>14. ASSUME NEW k \in Keys, SwitchProject(k) PROVE Orderly'
  BY <1>13, <1>14 DEF SwitchProject, turnVars, history
<1>15. CASE UNCHANGED vars
  BY <1>13, <1>15 DEF vars
<1> QED BY <1>2, <1>3, <1>4, <1>5, <1>6, <1>7, <1>8, <1>9, <1>10, <1>11, <1>12, <1>14, <1>15
       DEF Next, Inject, Capture, MonologueEnd, LateMonologueEnd

THEOREM OrderlyInvariance == Spec => []Orderly
<1>1. IInv /\ Shown /\ Orderly /\ [Next]_vars => Orderly'
  BY OrderlyStep
<1> QED BY <1>1, OrderlyInit, Invariance, ShownInvariance, PTL DEF Spec

LEMMA RunningChildren ==
  ASSUME IInv, Orderly PROVE ChildrenBounded
<1> DEFINE R == {t \in Turns : child[t] = "running"}
           C == {t \in Turns : Cancelled(t)}
<1>1. R \subseteq Holders \cup C
  BY DEF Orderly, Holders
<1>2. IsFiniteSet(C) /\ Cardinality(C) \in Nat
  BY ConstantsAssumption, FS_Subset, FS_CardinalityType
<1>3. /\ IsFiniteSet(Holders \cup C)
      /\ Cardinality(Holders \cup C) =
           Cardinality(Holders) + Cardinality(C) - Cardinality(Holders \cap C)
  BY <1>2, HoldersFinite, FS_Union
<1>4. Cardinality(Holders \cap C) \in Nat
  BY <1>2, FS_Subset, FS_CardinalityType
<1>5. Cardinality(R) \in Nat /\ Cardinality(R) <= Cardinality(Holders \cup C)
  BY <1>1, <1>3, FS_Subset, FS_CardinalityType
<1>6. Cardinality(Holders) <= MaxConcurrentPreflights
  BY HoldersFinite, ConstantsAssumption DEF IInv, TypeOK, SlotAccounting
<1>7. Cardinality(R) <= MaxConcurrentPreflights + Cardinality(C)
  BY <1>2, <1>3, <1>4, <1>5, <1>6, HoldersFinite, ConstantsAssumption
<1> QED BY <1>7 DEF ChildrenBounded

\* Preflight children never exceed the permits by more than the turns that were cancelled.
THEOREM ChildrenHavePermits == Spec => []ChildrenBounded
<1> QED BY RunningChildren, Invariance, OrderlyInvariance, PTL

\* Every stored capture was made by the turn that the checkpoint was issued to, unless that
\* turn was cancelled: no other turn of the same agent ever uses it.
THEOREM OneTurn == Spec => []OneTurnPerCheckpoint
<1>1. Orderly => OneTurnPerCheckpoint
  BY DEF Orderly
<1> QED BY <1>1, OrderlyInvariance, PTL

\* A capture is accepted only in a turn whose prompt shows the checkpoint it names, or for
\* the checkpoint of a cancelled turn.
THEOREM ShownBeforeAccepted == Spec => []AcceptedWasShown
<1>1. Orderly => AcceptedWasShown
  BY DEF Orderly
<1> QED BY <1>1, OrderlyInvariance, PTL

\* _TURN_CONTEXTS does not grow with the monologues: an entry belongs to a turn whose
\* monologue end is still to come, so that nothing is cached once every turn has ended.
THEOREM NothingLeaks ==
  Spec => [](/\ EntriesKept
             /\ (\A t \in Turns : pc[t] \in {"off", "done", "gone"}) =>
                  \A k \in Keys : cache[k] = NoId)
<1>1. ASSUME IInv, Orderly
      PROVE  /\ EntriesKept
             /\ (\A t \in Turns : pc[t] \in {"off", "done", "gone"}) =>
                  \A k \in Keys : cache[k] = NoId
  <2>1. EntriesKept
    BY <1>1 DEF Orderly
  <2>2. ASSUME \A t \in Turns : pc[t] \in {"off", "done", "gone"}, NEW k \in Keys
        PROVE  cache[k] = NoId
    <3>1. cache[k] # NoId => owner[cache[k]] \in Turns
      BY <1>1 DEF IInv, TypeOK, CheckpointInv, Issued
    <3> QED BY <2>1, <2>2, <3>1 DEF EntriesKept, Live, InFlight
  <2> QED BY <2>1, <2>2
<1> QED BY <1>1, Invariance, OrderlyInvariance, PTL

-----------------------------------------------------------------------------
(* Projects that change only between turns. *)

Attempted == "configured-awaiting-proof"

\* Checkpoint i is for the project that key k is configured with, unless its turn is cancelled.
Current(k, i) ==
  config[k] = [state |-> Attempted, store |-> origin[i]] \/ Cancelled(owner[i])

\* A preflight runs against the project its agent is configured with; a checkpoint is cached
\* and a capture written only for the project whose receipt issued the checkpoint.
Settled ==
  /\ \A t \in Turns :
       /\ pc[t] \in {"slot", "child", "publish"} =>
            bound[t] = config[TurnKey(t)] /\ bound[t].state = Attempted
       /\ pc[t] = "publish" => origin[pending[t]] = bound[t].store
       /\ pc[t] = "write" => Current(TurnKey(t), pending[t])
  /\ \A k \in Keys : cache[k] # NoId => Current(k, cache[k])
  /\ CheckpointBoundToProject

LEMMA SettledInit == Init => Settled
  BY KeysFact DEF Init, Settled, CheckpointBoundToProject

\* Steps after which every turn that relies on its binding did so before, or starts to
\* rely on it rightly, and every checkpoint of a turn that was cancelled is excused still.
LEMMA SettledKept ==
  ASSUME Settled, Orderly, IInv,
         \A u \in Turns : pc[u] \in {"killed", "gone"} => pc'[u] \in {"killed", "gone"},
         UNCHANGED config,
         \A i \in Ids : owner[i] \in Turns => owner'[i] = owner[i] /\ origin'[i] = origin[i],
         \A u \in Turns :
           /\ pc'[u] \in {"slot", "child", "publish"} =>
                \/ pc[u] \in {"slot", "child", "publish"} /\ bound'[u] = bound[u]
                \/ bound'[u] = config[TurnKey(u)] /\ bound'[u].state = Attempted
           /\ pc'[u] = "publish" =>
                \/ pc[u] = "publish" /\ pending'[u] = pending[u] /\ bound'[u] = bound[u]
                \/ origin'[pending'[u]] = bound'[u].store
           /\ pc'[u] = "write" =>
                \/ pc[u] = "write" /\ pending'[u] = pending[u]
                \/ cache[TurnKey(u)] # NoId /\ pending'[u] = cache[TurnKey(u)],
         \A k \in Keys : cache'[k] # NoId =>
           cache'[k] = cache[k]
             \/ (cache'[k] \in Ids /\ owner[cache'[k]] \in Turns
                 /\ config[k] = [state |-> Attempted, store |-> origin[cache'[k]]]),
         \A c \in captured' \ captured :
           \E t \in Turns : /\ pc[t] = "write" /\ c.id = pending[t]
                            /\ c.dest = config[TurnKey(t)]
  PROVE  Settled'
<1>0. /\ NoId \notin Ids /\ NoTurn \notin Turns
      /\ \A t \in Turns : TurnKey(t) \in Keys
      /\ \A k \in Keys : cache[k] # NoId => cache[k] \in Ids /\ owner[cache[k]] \in Turns
      /\ \A t \in Turns : pc[t] \in {"publish", "write"} =>
           pending[t] \in Ids /\ owner[pending[t]] \in Turns
      /\ \A c \in captured : c.id \in Ids /\ owner[c.id] \in Turns
  BY ConstantsAssumption, KeysFact
     DEF IInv, TypeOK, CheckpointInv, Issued, Orderly, CapturedOps
\* What is current stays current.
<1>1. ASSUME NEW k \in Keys, NEW i \in Ids, owner[i] \in Turns, Current(k, i)
      PROVE  \/ config'[k] = [state |-> Attempted, store |-> origin'[i]]
             \/ pc'[owner'[i]] \in {"killed", "gone"}
  BY <1>1 DEF Current, Cancelled
<1>2. ASSUME NEW u \in Turns
      PROVE  /\ pc'[u] \in {"slot", "child", "publish"} =>
                  bound'[u] = config'[TurnKey(u)] /\ bound'[u].state = Attempted
             /\ pc'[u] = "publish" => origin'[pending'[u]] = bound'[u].store
  BY <1>0 DEF Settled
<1>3. ASSUME NEW u \in Turns, pc'[u] = "write"
      PROVE  \/ config'[TurnKey(u)] = [state |-> Attempted, store |-> origin'[pending'[u]]]
             \/ pc'[owner'[pending'[u]]] \in {"killed", "gone"}
  <2>1. /\ pending'[u] \in Ids /\ owner[pending'[u]] \in Turns
        /\ Current(TurnKey(u), pending'[u])
    BY <1>0, <1>3 DEF Settled
  <2> QED BY <1>0, <1>1, <2>1
<1>4. ASSUME NEW k \in Keys, cache'[k] # NoId
      PROVE  \/ config'[k] = [state |-> Attempted, store |-> origin'[cache'[k]]]
             \/ pc'[owner'[cache'[k]]] \in {"killed", "gone"}
  BY <1>0, <1>1, <1>4 DEF Settled
<1>5. ASSUME NEW c \in captured'
      PROVE  \/ c.dest = [state |-> Attempted, store |-> origin'[c.id]]
             \/ pc'[owner'[c.id]] \in {"killed", "gone"}
  <2>1. CASE c \in captured
    <3>1. \/ c.dest = [state |-> Attempted, store |-> origin[c.id]]
          \/ pc[owner[c.id]] \in {"killed", "gone"}
      BY <2>1 DEF Settled, CheckpointBoundToProject, Cancelled, Attempted
    <3> QED BY <1>0, <2>1, <3>1
  <2>2. CASE c \notin captured
    <3>1. PICK t \in Turns : /\ pc[t] = "write" /\ c.id = pending[t]
                             /\ c.dest = config[TurnKey(t)]
      BY <1>5, <2>2
    <3>2. Current(TurnKey(t), pending[t]) /\ TurnKey(t) \in Keys
      BY <1>0, <3>1 DEF Settled
    <3> QED BY <1>0, <1>1, <3>1, <3>2
  <2> QED BY <2>1, <2>2
<1> QED BY <1>2, <1>3, <1>4, <1>5
       DEF Settled, CheckpointBoundToProject, Current, Cancelled, Attempted

LEMMA SettledStep ==
  ASSUME ~MidTurnSwitch, IInv, Orderly, Settled, [Next]_vars
  PROVE  Settled'
<1>0. /\ pc \in [Turns -> Phases] /\ bound \in [Turns -> ActivationBindings]
      /\ pending \in [Turns -> Ids \cup {NoId}]
      /\ cache \in [Keys -> Ids \cup {NoId}]
      /\ config \in [Keys -> ActivationBindings]
      /\ owner \in [Ids -> Turns \cup {NoTurn}] /\ origin \in [Ids -> Stores \cup {NoStore}]
      /\ NoId \notin Ids /\ NoTurn \notin Turns
      /\ \A t \in Turns : TurnKey(t) \in Keys
  BY ConstantsAssumption, KeysFact DEF IInv, TypeOK
\* Steps that put no turn into a phase that relies on its binding, and fill no entry.
<1>1. ASSUME NEW t \in Turns, NEW x,
             x \notin {"slot", "child", "publish", "write"} \/ (pc[t] = "slot" /\ x = "child"),
             pc[t] \in {"killed", "gone"} => x \in {"killed", "gone"},
             pc' = [pc EXCEPT ![t] = x],
             \A u \in Turns \ {t} : pending'[u] = pending[u],
             \A k \in Keys : cache'[k] \in {cache[k], NoId},
             UNCHANGED <<bound, config, origin, owner, captured>>
      PROVE  Settled'
  BY <1>0, <1>1, SettledKept
<1>2. ASSUME UNCHANGED <<pc, bound, pending, cache, config, origin, owner, captured>>
      PROVE  Settled'
  BY <1>2 DEF Settled, CheckpointBoundToProject, Current, Cancelled
<1>3. ASSUME NEW t \in Turns, BuildPrompt(t) PROVE Settled'
  <2>1. CASE cache[TurnKey(t)] # NoId
    <3>1. /\ pc' = [pc EXCEPT ![t] = "cached"] /\ pc[t] = "loop"
          /\ pending' = [pending EXCEPT ![t] = cache[TurnKey(t)]]
          /\ UNCHANGED <<bound, cache, config, origin, owner, captured>>
      BY <1>3, <2>1 DEF BuildPrompt, history
    <3> QED BY <1>0, <1>1, <3>1
  <2>2. CASE cache[TurnKey(t)] = NoId
    <3>1. /\ pc' = [pc EXCEPT ![t] = IF config[TurnKey(t)].state = Attempted
                                     THEN "slot" ELSE "unbound"]
          /\ bound' = [bound EXCEPT ![t] = config[TurnKey(t)]] /\ pc[t] = "loop"
          /\ UNCHANGED <<pending, cache, config, origin, owner, captured>>
      BY <1>3, <2>2 DEF BuildPrompt, history, Attempted
    <3> QED BY <1>0, <3>1, SettledKept
  <2> QED BY <2>1, <2>2
<1>4. ASSUME NEW t \in Turns, ReceiveContext(t) PROVE Settled'
  <2>1. PICK i \in Ids : /\ owner[i] = NoTurn /\ owner' = [owner EXCEPT ![i] = t]
                         /\ origin' = [origin EXCEPT ![i] = bound[t].store]
                         /\ pending' = [pending EXCEPT ![t] = i]
    BY <1>4 DEF ReceiveContext
  <2>2. /\ pc[t] = "child" /\ pc' = [pc EXCEPT ![t] = "publish"]
        /\ UNCHANGED <<bound, cache, config, captured>>
    BY <1>4 DEF ReceiveContext
  <2>3. \A j \in Ids : owner[j] \in Turns => owner'[j] = owner[j] /\ origin'[j] = origin[j]
    BY <1>0, <2>1
  <2> QED BY <1>0, <2>1, <2>2, <2>3, SettledKept
<1>5. ASSUME NEW t \in Turns, Publish(t) PROVE Settled'
  <2>1. /\ pc[t] = "publish" /\ pc' = [pc EXCEPT ![t] = "loop"]
        /\ cache' = [cache EXCEPT ![TurnKey(t)] = pending[t]]
        /\ UNCHANGED <<bound, pending, config, origin, owner, captured>>
    BY <1>5 DEF Publish
  <2>2. config[TurnKey(t)] = [state |-> Attempted, store |-> origin[pending[t]]]
    <3>1. /\ bound[t] = config[TurnKey(t)] /\ bound[t].state = Attempted
          /\ bound[t].store = origin[pending[t]] /\ bound[t] \in ActivationBindings
      BY <1>0, <2>1 DEF Settled
    <3> QED BY <3>1 DEF ActivationBindings
  <2>3. pending[t] \in Ids /\ owner[pending[t]] \in Turns
    BY <1>0, <2>1 DEF IInv, CheckpointInv, Issued
  <2> QED BY <1>0, <2>1, <2>2, <2>3, SettledKept
<1>6. ASSUME NEW t \in Turns, CaptureWrite(t) PROVE Settled'
  <2>1. /\ pc[t] = "write" /\ pc' = [pc EXCEPT ![t] = "loop"]
        /\ UNCHANGED <<bound, pending, cache, config, origin, owner>>
    BY <1>6 DEF CaptureWrite, history
  <2>2. \A c \in captured' \ captured : c.id = pending[t] /\ c.dest = config[TurnKey(t)]
    BY <1>6 DEF CaptureWrite
  <2> QED BY <1>0, <2>1, <2>2, SettledKept
\* Where no turn of an agent runs, only what cancelled turns left behind is cached for it.
<1>7. ASSUME NEW k \in Keys, SwitchProject(k) PROVE Settled'
  <2>1. /\ \A t \in Turns : TurnKey(t) = k => pc[t] \notin Live
        /\ \A j \in Keys \ {k} : config'[j] = config[j]
        /\ UNCHANGED <<pc, bound, pending, cache, origin, owner, captured>>
    BY <1>0, <1>7 DEF SwitchProject, turnVars, history
  <2>2. cache[k] # NoId => Cancelled(owner[cache[k]])
    BY <2>1, OnlyLeftBehind DEF Orderly
  <2> QED BY <1>0, <2>1, <2>2
          DEF Settled, CheckpointBoundToProject, Current, Cancelled, Live, InFlight
<1>8. ASSUME NEW t \in Turns,
             \/ StartTurn(t) \/ AttachCached(t) \/ AttachCachedFails(t) \/ RecordUnbound(t)
             \/ AcquireSlot(t) \/ SlotRaises(t) \/ ReceiveFailure(t) \/ RecordFailure(t)
             \/ Kill(t) \/ CaptureFails(t)
      PROVE  Settled'
  <2> USE DEF StartTurn, AttachCached, AttachCachedFails, RecordUnbound, AcquireSlot,
          SlotRaises, ReceiveFailure, RecordFailure, Kill, CaptureFails
  <2>1. UNCHANGED <<bound, pending, cache, config, origin, owner, captured>>
    BY <1>8 DEF history
  <2>2. PICK x : /\ \/ x \notin {"slot", "child", "publish", "write"}
                    \/ pc[t] = "slot" /\ x = "child"
                 /\ pc[t] \notin {"killed", "gone"}
                 /\ pc' = [pc EXCEPT ![t] = x]
    BY <1>8
  <2> QED BY <1>0, <1>1, <2>1, <2>2
<1>9. ASSUME NEW t \in Turns, BuildRaises(t) \/ ChildExits(t) PROVE Settled'
  BY <1>2, <1>9 DEF BuildRaises, ChildExits, turnVars, history
<1>10. ASSUME NEW t \in Turns, Cleanup(t), pc[t] \in {"loop", "killed"} PROVE Settled'
  <2>1. PICK x \in {"done", "gone"} :
          pc' = [pc EXCEPT ![t] = x] /\ (pc[t] = "killed" => x = "gone")
    BY <1>0, <1>10 DEF Cleanup
  <2>2. /\ UNCHANGED <<bound, pending, config, origin, owner, captured>>
        /\ \A k \in Keys : cache'[k] \in {cache[k], NoId}
    BY <1>0, <1>10 DEF Cleanup
  <2> QED BY <1>0, <1>1, <1>10, <2>1, <2>2
<1>11. ASSUME NEW t \in Turns, CaptureValidate(t) PROVE Settled'
  <2>1. /\ pending' = [pending EXCEPT ![t] = cache[TurnKey(t)]] /\ cache[TurnKey(t)] # NoId
        /\ pc' = [pc EXCEPT ![t] = "write"] /\ pc[t] = "loop"
        /\ UNCHANGED <<bound, cache, config, origin, owner, captured>>
    BY <1>11 DEF CaptureValidate, Accepts, history
  <2> QED BY <1>0, <2>1, SettledKept
<1>12. CASE UNCHANGED vars
  BY <1>2, <1>12 DEF vars
<1> QED BY <1>3, <1>4, <1>5, <1>6, <1>7, <1>8, <1>9, <1>10, <1>11, <1>12
       DEF Next, Inject, Capture, MonologueEnd, LateMonologueEnd

\* When an agent's project changes only between its turns, every capture is stored in the
\* project whose preflight receipt issued its checkpoint, but for the checkpoints of cancelled
\* turns.  (The run lifecycle_project shows that it fails when the project changes during a turn.)
THEOREM BoundToProject ==
  ASSUME ~MidTurnSwitch PROVE Spec => []CheckpointBoundToProject
<1>1. IInv /\ Orderly /\ Settled /\ [Next]_vars => Settled'
  BY SettledStep
<1>2. Settled => CheckpointBoundToProject
  BY DEF Settled
<1> QED BY <1>1, <1>2, SettledInit, Invariance, OrderlyInvariance, PTL DEF Spec

-----------------------------------------------------------------------------
(* The registry of checkpoints. *)

\* A capture is written for an identifier that has been active: being spent is for ever.
WriteSpent == \A t \in Turns : pc[t] = "write" => pending[t] \in Spent

LEMMA RegistryInitial == Init => Registry!RegistryInit
<1> SUFFICES ASSUME Init PROVE Registry!RegistryInit
  OBVIOUS
<1>1. \A i \in Ids : i \notin Spent
  BY ConstantsAssumption DEF Init, Spent
<1>2. cache = [k \in Keys |-> NoId] /\ captured = {}
  BY DEF Init
<1> QED BY <1>1, <1>2 DEF Registry!RegistryInit

\* Steps that leave the cache alone, also those that issue an identifier.
LEMMA RegistryIdle ==
  ASSUME UNCHANGED <<cache, retired, captured>>,
         \A i \in Ids : i \in Spent => owner'[i] = owner[i]
  PROVE  UNCHANGED Registry!registryVars /\ Spent' = Spent
<1>1. Spent' = Spent
  BY DEF Spent
<1>2. \A i \in Ids : i \in Spent => TurnKey(owner'[i]) = TurnKey(owner[i])
  OBVIOUS
<1> QED BY <1>1, <1>2 DEF Registry!registryVars

\* A published identifier is new, and its key had none.
LEMMA PublishActivates ==
  ASSUME IInv, Shown, NEW t \in Turns, Publish(t)
  PROVE  /\ \E k \in Keys, i \in Ids : Registry!Activate(k, i)
         /\ Spent \ {NoId} \subseteq Spent'
<1>1. /\ cache' = [cache EXCEPT ![TurnKey(t)] = pending[t]] /\ pc[t] = "publish"
      /\ UNCHANGED <<retired, captured, owner>>
  BY DEF Publish
<1>2. PICK k \in Keys, j \in Ids : k = TurnKey(t) /\ j = pending[t]
  BY <1>1, KeysFact DEF IInv, TypeOK, CheckpointInv, Issued
<1>3. /\ cache \in [Keys -> Ids \cup {NoId}] /\ cache' = [cache EXCEPT ![k] = j]
      /\ NoId \notin Ids /\ cache[k] = NoId /\ TurnKey(owner[j]) = k
      /\ j \notin retired /\ \A l \in Keys : cache[l] # j
  BY <1>1, <1>2, ConstantsAssumption DEF IInv, TypeOK, CheckpointInv, Shown, ShownInv
<1>4. j \notin Spent
  BY <1>3 DEF Spent
<1>5. \A i \in Ids : i \in Spent' <=> i \in Spent \/ i = j
  BY <1>1, <1>3 DEF Spent
<1>6. Spent \ {NoId} \subseteq Spent'
  BY <1>1, <1>3 DEF Spent
<1>7. \A i \in Ids :
        (IF i \in Spent' THEN TurnKey(owner'[i]) ELSE <<>>) =
        (IF i = j THEN k ELSE IF i \in Spent THEN TurnKey(owner[i]) ELSE <<>>)
  BY <1>1, <1>3, <1>5
<1>8. [i \in Ids |-> IF i \in Spent' THEN TurnKey(owner'[i]) ELSE <<>>] =
      [[i \in Ids |-> IF i \in Spent THEN TurnKey(owner[i]) ELSE <<>>] EXCEPT ![j] = k]
  BY <1>7
<1>9. Registry!Activate(k, j)
  BY <1>1, <1>3, <1>4, <1>8 DEF Registry!Activate
<1> QED BY <1>6, <1>9

LEMMA CleanupRetires ==
  ASSUME IInv, NEW t \in Turns, Cleanup(t)
  PROVE  /\ Registry!Retire(TurnKey(t)) \/ UNCHANGED Registry!registryVars
         /\ Spent \ {NoId} \subseteq Spent'
<1> DEFINE k == TurnKey(t)
<1>1. /\ cache' = [cache EXCEPT ![k] = NoId]
      /\ retired' = retired \cup ({cache[k]} \ {NoId})
      /\ UNCHANGED <<captured, owner>>
  BY DEF Cleanup
<1>2. cache \in [Keys -> Ids \cup {NoId}] /\ k \in Keys /\ NoId \notin Ids
  BY KeysFact, ConstantsAssumption DEF IInv, TypeOK
<1>3. \A i \in Ids : i \in Spent' <=> i \in Spent
  BY <1>1, <1>2 DEF Spent
<1>4. Spent \ {NoId} \subseteq Spent'
  BY <1>1, <1>2 DEF Spent
<1>5. [i \in Ids |-> IF i \in Spent' THEN TurnKey(owner'[i]) ELSE <<>>] =
      [i \in Ids |-> IF i \in Spent THEN TurnKey(owner[i]) ELSE <<>>]
  BY <1>1, <1>3
<1>6. CASE cache[k] = NoId
  <2>1. cache' = cache
    BY <1>1, <1>2, <1>6
  <2> QED BY <1>1, <1>4, <1>5, <2>1 DEF Registry!registryVars
<1>7. CASE cache[k] # NoId
  BY <1>1, <1>4, <1>5, <1>7 DEF Registry!Retire
<1> QED BY <1>6, <1>7

\* What the registry stores of a capture.
LEMMA WriteStores ==
  ASSUME IInv, WriteSpent, NEW t \in Turns, CaptureWrite(t)
  PROVE  Registry!RegistryNext \/ UNCHANGED Registry!registryVars
<1> DEFINE Entry(c) == [by |-> c.turn, id |-> c.id, candidate |-> c.candidate,
                        place |-> c.dest]
<1>0. PICK new : new = [id |-> pending[t], candidate |-> candidate[t], turn |-> t,
                        dest |-> config[TurnKey(t)]]
  OBVIOUS
<1>1. pc[t] = "write" /\ UNCHANGED <<cache, owner, retired>>
  BY DEF CaptureWrite, history
<1>2. Spent' = Spent
  BY <1>1 DEF Spent
<1>3. CASE captured' = captured
  BY <1>1, <1>2, <1>3 DEF Registry!registryVars
<1>4. CASE captured' # captured
  <2>1. /\ captured' = captured \cup {new}
        /\ \A c \in captured :
             c.id # new.id \/ c.candidate # new.candidate \/ c.dest # new.dest
    BY <1>0, <1>4 DEF CaptureWrite
  <2>2. pending[t] \in Ids /\ pending[t] \in Spent /\ TurnKey(owner[pending[t]]) = TurnKey(t)
    BY <1>1 DEF IInv, TypeOK, CheckpointInv, Issued, WriteSpent
  <2>3. {Entry(c) : c \in captured'} = {Entry(c) : c \in captured} \cup {Entry(new)}
    BY <2>1
  <2>4. \A q \in {Entry(c) : c \in captured} :
          q.id # Entry(new).id \/ q.candidate # Entry(new).candidate
            \/ q.place # Entry(new).place
    BY <2>1
  <2>5. Entry(new) \in {Entry(c) : c \in captured'} \ {Entry(c) : c \in captured}
    BY <2>3, <2>4
  <2>6. Entry(new).id = pending[t] /\ Entry(new).by = t
    BY <1>0
  <2>7. Registry!Store(Entry(new))
    BY <1>1, <1>2, <2>2, <2>3, <2>4, <2>6 DEF Registry!Store
  <2>8. \E r \in {Entry(c) : c \in captured'} \ {Entry(c) : c \in captured} : Registry!Store(r)
    BY <2>5, <2>7
  <2> QED BY <2>8 DEF Registry!RegistryNext
<1> QED BY <1>3, <1>4

LEMMA RegistryStep ==
  ASSUME IInv, Shown, WriteSpent, [Next]_vars
  PROVE  [Registry!RegistryNext]_(Registry!registryVars) /\ WriteSpent'
<1>0. /\ pc \in [Turns -> Phases] /\ pending \in [Turns -> Ids \cup {NoId}]
      /\ \A t \in Turns : TurnKey(t) \in Keys /\ (pc[t] = "write" => pending[t] \in Ids)
      /\ NoId \notin Ids
      /\ \A i \in Ids : i \in Spent => owner[i] # NoTurn
  BY KeysFact, ConstantsAssumption DEF IInv, TypeOK, CheckpointInv, Issued, Spent
\* A step of turn t after which whoever writes has been writing, or writes what is cached.
<1>1. ASSUME NEW t \in Turns, NEW x, pc' = [pc EXCEPT ![t] = x], Spent \ {NoId} \subseteq Spent',
             \A u \in Turns \ {t} : pending'[u] = pending[u],
             x = "write" => pending'[t] \in Spent'
      PROVE  WriteSpent'
  BY <1>0, <1>1 DEF WriteSpent
<1>2. ASSUME NEW t \in Turns, Publish(t)
      PROVE  Registry!RegistryNext /\ WriteSpent'
  <2>1. \E k \in Keys, i \in Ids : Registry!Activate(k, i)
    BY <1>2, PublishActivates
  <2>2. Registry!RegistryNext
    BY <2>1 DEF Registry!RegistryNext
  <2>3. pc' = [pc EXCEPT ![t] = "loop"] /\ pending' = pending
    BY <1>2 DEF Publish
  <2> QED BY <1>1, <1>2, <2>2, <2>3, PublishActivates
<1>3. ASSUME NEW t \in Turns, Cleanup(t)
      PROVE  (Registry!RegistryNext \/ UNCHANGED Registry!registryVars) /\ WriteSpent'
  <2>1. Registry!RegistryNext \/ UNCHANGED Registry!registryVars
    BY <1>0, <1>3, CleanupRetires DEF Registry!RegistryNext
  <2>2. PICK x \in {"done", "gone"} : pc' = [pc EXCEPT ![t] = x]
    BY <1>0, <1>3 DEF Cleanup
  <2>3. pending' = pending
    BY <1>3 DEF Cleanup
  <2> QED BY <1>1, <1>3, <2>1, <2>2, <2>3, CleanupRetires
<1>4. ASSUME NEW t \in Turns, CaptureWrite(t)
      PROVE  (Registry!RegistryNext \/ UNCHANGED Registry!registryVars) /\ WriteSpent'
  <2>1. /\ pc' = [pc EXCEPT ![t] = "loop"] /\ pending' = pending
        /\ UNCHANGED <<cache, retired>>
    BY <1>4 DEF CaptureWrite, history
  <2> QED BY <1>1, <1>4, <2>1, WriteStores DEF Spent
<1>5. ASSUME NEW t \in Turns, ReceiveContext(t)
      PROVE  UNCHANGED Registry!registryVars /\ WriteSpent'
  <2>1. PICK i \in Ids : /\ owner[i] = NoTurn /\ owner' = [owner EXCEPT ![i] = t]
                         /\ pending' = [pending EXCEPT ![t] = i]
    BY <1>5 DEF ReceiveContext
  <2>2. pc' = [pc EXCEPT ![t] = "publish"] /\ UNCHANGED <<cache, retired, captured>>
    BY <1>5 DEF ReceiveContext
  <2>3. \A j \in Ids : j \in Spent => owner'[j] = owner[j]
    BY <1>0, <2>1 DEF IInv, TypeOK
  <2>4. UNCHANGED Registry!registryVars /\ Spent' = Spent
    BY <2>2, <2>3, RegistryIdle
  <2> QED BY <1>0, <1>1, <2>1, <2>2, <2>4
<1>6. ASSUME NEW t \in Turns, CaptureValidate(t)
      PROVE  UNCHANGED Registry!registryVars /\ WriteSpent'
  <2>1. /\ pending' = [pending EXCEPT ![t] = cache[TurnKey(t)]]
        /\ pc' = [pc EXCEPT ![t] = "write"]
        /\ UNCHANGED <<cache, retired, captured, owner>>
    BY <1>6 DEF CaptureValidate, Accepts, history
  <2>2. UNCHANGED Registry!registryVars /\ Spent' = Spent
    BY <2>1, RegistryIdle
  <2>3. pending'[t] \in Spent'
    BY <1>0, <2>1, <2>2 DEF Spent
  <2> QED BY <1>0, <1>1, <2>1, <2>2, <2>3
<1>7. ASSUME NEW t \in Turns,
             \/ StartTurn(t) \/ AttachCached(t) \/ AttachCachedFails(t) \/ RecordUnbound(t)
             \/ AcquireSlot(t) \/ SlotRaises(t) \/ ReceiveFailure(t) \/ RecordFailure(t)
             \/ Kill(t) \/ CaptureFails(t)
      PROVE  UNCHANGED Registry!registryVars /\ WriteSpent'
  <2> USE DEF StartTurn, AttachCached, AttachCachedFails, RecordUnbound, AcquireSlot,
          SlotRaises, ReceiveFailure, RecordFailure, Kill, CaptureFails
  <2>1. UNCHANGED <<cache, retired, captured, owner, pending>>
    BY <1>7 DEF history
  <2>2. PICK x : x # "write" /\ pc' = [pc EXCEPT ![t] = x]
    BY <1>7
  <2>3. UNCHANGED Registry!registryVars /\ Spent' = Spent
    BY <2>1, RegistryIdle
  <2> QED BY <1>1, <2>1, <2>2, <2>3
<1>8. ASSUME NEW t \in Turns, BuildPrompt(t)
      PROVE  UNCHANGED Registry!registryVars /\ WriteSpent'
  <2>1. /\ UNCHANGED <<cache, retired, captured, owner>>
        /\ \A u \in Turns \ {t} : pending'[u] = pending[u]
    BY <1>0, <1>8 DEF BuildPrompt, history
  <2>2. PICK x : x # "write" /\ pc' = [pc EXCEPT ![t] = x]
    BY <1>8 DEF BuildPrompt
  <2>3. UNCHANGED Registry!registryVars /\ Spent' = Spent
    BY <2>1, RegistryIdle
  <2> QED BY <1>1, <2>1, <2>2, <2>3
<1>9. ASSUME UNCHANGED <<pc, cache, retired, captured, owner, pending>>
      PROVE  UNCHANGED Registry!registryVars /\ WriteSpent'
  BY <1>9, RegistryIdle DEF WriteSpent
<1>10. ASSUME NEW t \in Turns, BuildRaises(t) \/ ChildExits(t)
       PROVE  UNCHANGED Registry!registryVars /\ WriteSpent'
  BY <1>9, <1>10 DEF BuildRaises, ChildExits, turnVars, history
<1>11. ASSUME NEW k \in Keys, SwitchProject(k)
       PROVE  UNCHANGED Registry!registryVars /\ WriteSpent'
  BY <1>9, <1>11 DEF SwitchProject, turnVars, history
<1>12. CASE UNCHANGED vars
  BY <1>9, <1>12 DEF vars
<1> QED BY <1>2, <1>3, <1>4, <1>5, <1>6, <1>7, <1>8, <1>10, <1>11, <1>12
       DEF Next, Inject, Capture, MonologueEnd, LateMonologueEnd

\* Whatever is cancelled, fails or comes late, the adapter and the capture tool do what
\* the registry of checkpoints allows.
THEOREM RegistryImplemented == Spec => ImplementsRegistry
<1>1. Init => WriteSpent
  BY DEF Init, WriteSpent
<1>2. IInv /\ Shown /\ WriteSpent /\ [Next]_vars =>
        [Registry!RegistryNext]_(Registry!registryVars) /\ WriteSpent'
  BY RegistryStep
<1> QED BY <1>1, <1>2, RegistryInitial, Invariance, ShownInvariance, PTL
        DEF Spec, ImplementsRegistry, Registry!RegistrySpec

-----------------------------------------------------------------------------
(* What InjectReturns rests on besides the fairness of the scheduler. *)

\* A turn that awaits its child has one, or its answer.
Awaited == \A t \in Turns : pc[t] = "child" => child[t] # "none"

LEMMA AwaitedStep == ASSUME TypeOK, Awaited, [Next]_vars PROVE Awaited'
<1>0. pc \in [Turns -> Phases] /\ child \in [Turns -> Outcomes]
  BY DEF TypeOK
<1>1. ASSUME NEW t \in Turns, AcquireSlot(t) PROVE Awaited'
  BY <1>0, <1>1 DEF AcquireSlot, Awaited
<1>2. ASSUME NEW t \in Turns, ChildExits(t) PROVE Awaited'
  BY <1>0, <1>2 DEF ChildExits, turnVars, Awaited
<1>3. ASSUME NEW t \in Turns, NEW x, x # "child", pc' = [pc EXCEPT ![t] = x],
             \A u \in Turns \ {t} : child'[u] = child[u]
      PROVE  Awaited'
  BY <1>0, <1>3 DEF Awaited
<1>4. ASSUME NEW t \in Turns, ReceiveContext(t) \/ ReceiveFailure(t) \/ Kill(t) PROVE Awaited'
  <2>1. PICK x \in {"publish", "failed", "killed"} : pc' = [pc EXCEPT ![t] = x]
    BY <1>4 DEF ReceiveContext, ReceiveFailure, Kill
  <2>2. \A u \in Turns \ {t} : child'[u] = child[u]
    BY <1>0, <1>4 DEF ReceiveContext, ReceiveFailure, Kill
  <2> QED BY <1>3, <2>1, <2>2
<1>5. ASSUME NEW t \in Turns,
             \/ StartTurn(t) \/ BuildPrompt(t) \/ AttachCached(t) \/ AttachCachedFails(t)
             \/ RecordUnbound(t) \/ SlotRaises(t) \/ RecordFailure(t) \/ Publish(t)
             \/ Capture(t) \/ MonologueEnd(t) \/ LateMonologueEnd(t)
      PROVE  Awaited'
  <2>1. child' = child
    BY <1>5 DEF StartTurn, BuildPrompt, AttachCached, AttachCachedFails, RecordUnbound,
       SlotRaises, RecordFailure, Publish, Capture, CaptureValidate, CaptureWrite,
       CaptureFails, MonologueEnd, LateMonologueEnd, Cleanup
  <2>2. \E x : x # "child" /\ pc' = [pc EXCEPT ![t] = x]
    BY <1>5 DEF StartTurn, BuildPrompt, AttachCached, AttachCachedFails, RecordUnbound,
       SlotRaises, RecordFailure, Publish, Capture, CaptureValidate, CaptureWrite,
       CaptureFails, MonologueEnd, LateMonologueEnd, Cleanup
  <2> QED BY <1>3, <2>1, <2>2
<1>6. ASSUME UNCHANGED <<pc, child>> PROVE Awaited'
  BY <1>6 DEF Awaited
<1>7. CASE UNCHANGED vars \/ (\E k \in Keys : SwitchProject(k)) \/ \E t \in Turns : BuildRaises(t)
  BY <1>6, <1>7 DEF vars, SwitchProject, BuildRaises, turnVars
<1> QED BY <1>1, <1>2, <1>4, <1>5, <1>7 DEF Next, Inject

\* Nobody waits for a permit that nobody will give back: while a turn waits, a permit is
\* free, or it is held by a turn whose child still runs (at most cli.timeout_seconds) or
\* has answered, and that waits for nothing else.
THEOREM NobodyWaitsInVain ==
  Spec => [](\A t \in Turns : pc[t] = "slot" =>
               slots > 0 \/ \E u \in Turns : pc[u] = "child" /\ child[u] # "none")
<1> DEFINE Given == slots > 0 \/ \E u \in Turns : pc[u] = "child" /\ child[u] # "none"
<1>1. Init => Awaited
  BY DEF Init, Awaited
<1>2. TypeOK /\ Awaited /\ [Next]_vars => Awaited'
  BY AwaitedStep
<1>3. TypeOK /\ SlotAccounting /\ Awaited => \A t \in Turns : pc[t] = "slot" => Given
  <2> SUFFICES ASSUME TypeOK, SlotAccounting, Awaited, slots = 0
               PROVE  \E u \in Turns : pc[u] = "child" /\ child[u] # "none"
    BY ConstantsAssumption DEF TypeOK
  <2>1. Cardinality(Holders) > 0
    BY HoldersFinite, ConstantsAssumption DEF SlotAccounting
  <2>2. Holders # {}
    BY <2>1, FS_EmptySet
  <2> QED BY <2>2 DEF Holders, Awaited
<1> QED BY <1>1, <1>2, <1>3, TypeCorrect, PermitsConserved, PTL DEF Spec

\* The stretches of code a lifecycle call still has before it, at most.
Left(phase) == CASE phase = "slot" -> 3 [] phase = "child" -> 2 [] OTHER -> 1

\* No lifecycle call starts over: whatever the other turns do, each of its steps brings it
\* nearer to its turn, and only its own cancellation ends it otherwise.
THEOREM CallsAdvance ==
  Spec => [][\A t \in Turns : pc[t] \in InFlight =>
               \/ pc'[t] \in {pc[t], "loop"}
               \/ pc'[t] = "killed" /\ t \in Killable
               \/ pc'[t] \in InFlight /\ Left(pc'[t]) < Left(pc[t])]_vars
<1> DEFINE Advances(t) ==
      pc[t] \in InFlight =>
        \/ pc'[t] \in {pc[t], "loop"}
        \/ pc'[t] = "killed" /\ t \in Killable
        \/ pc'[t] \in InFlight /\ Left(pc'[t]) < Left(pc[t])
<1>1. TypeOK /\ [Next]_vars => [\A t \in Turns : Advances(t)]_vars
  <2> SUFFICES ASSUME TypeOK, Next, NEW t \in Turns PROVE Advances(t)
    OBVIOUS
  <2>0. pc \in [Turns -> Phases]
    BY DEF TypeOK
  <2>1. ASSUME NEW u \in Turns, u # t, NEW x, pc' = [pc EXCEPT ![u] = x] PROVE pc'[t] = pc[t]
    BY <2>0, <2>1
  <2>2. ASSUME NEW u \in Turns, Inject(u) PROVE Advances(t)
    <3>1. CASE u = t
      BY <2>0, <2>2, <3>1 DEF Inject, BuildPrompt, BuildRaises, AttachCached, AttachCachedFails,
         RecordUnbound, AcquireSlot, SlotRaises, ReceiveContext, ReceiveFailure, RecordFailure,
         Publish, InFlight, Left
    <3>2. CASE u # t
      BY <2>0, <2>1, <2>2, <3>2 DEF Inject, BuildPrompt, BuildRaises, AttachCached,
         AttachCachedFails, RecordUnbound, AcquireSlot, SlotRaises, ReceiveContext,
         ReceiveFailure, RecordFailure, Publish
    <3> QED BY <3>1, <3>2
  <2>3. ASSUME NEW u \in Turns,
               \/ StartTurn(u) \/ Capture(u) \/ MonologueEnd(u) \/ LateMonologueEnd(u) \/ Kill(u)
        PROVE  Advances(t)
    BY <2>0, <2>3 DEF StartTurn, Capture, CaptureValidate, CaptureWrite, CaptureFails,
       MonologueEnd, LateMonologueEnd, Cleanup, Kill, InFlight
  <2>4. ASSUME UNCHANGED pc PROVE Advances(t)
    BY <2>4
  <2>5. CASE (\E k \in Keys : SwitchProject(k)) \/ \E u \in Turns : ChildExits(u)
    BY <2>4, <2>5 DEF SwitchProject, ChildExits, turnVars
  <2> QED BY <2>2, <2>3, <2>5 DEF Next
<1> QED BY <1>1, TypeCorrect, PTL DEF Spec
=============================================================================
