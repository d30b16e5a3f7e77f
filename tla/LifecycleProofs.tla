--------------------------- MODULE LifecycleProofs ---------------------------
(***************************************************************************)
(* Theorems about Lifecycle for all turns, agents, stores, checkpoint ids and *)
(* numbers of permits.                                                      *)
(***************************************************************************)
EXTENDS Lifecycle, FiniteSetTheorems, TLAPS

(* Facts about the constants. *)

LEMMA KeysFact == \A t \in Turns : TurnKey(t) \in Keys
  BY DEF Keys

\* An identity is determined by its key: no two agents share one.
LEMMA KeyDeterminesIdentity ==
  \A t, u \in Turns : TurnKey(t) = TurnKey(u) => Identity[t] = Identity[u]
<1> SUFFICES ASSUME NEW t \in Turns, NEW u \in Turns, TurnKey(t) = TurnKey(u)
             PROVE  Identity[t] = Identity[u]
  OBVIOUS
<1>1. /\ Identity[t] \in [session : Names, workflow : Names, profile : Names,
                          number : Nat]
      /\ Identity[u] \in [session : Names, workflow : Names, profile : Names,
                          number : Nat]
  BY ConstantsAssumption
<1>2. /\ Identity[t].session = Identity[u].session
      /\ Identity[t].workflow = Identity[u].workflow
      /\ Identity[t].profile = Identity[u].profile
      /\ Identity[t].number = Identity[u].number
  BY DEF TurnKey
<1> QED BY <1>1, <1>2

-----------------------------------------------------------------------------
(* The permits. *)

LEMMA HoldersFinite == IsFiniteSet(Holders) /\ Cardinality(Holders) \in Nat
  BY ConstantsAssumption, FS_Subset, FS_CardinalityType DEF Holders

\* A turn that neither awaits a child nor starts to leaves the holders alone.
LEMMA HoldersUnchanged ==
  ASSUME NEW t \in Turns, NEW x, pc \in [Turns -> Phases],
         pc' = [pc EXCEPT ![t] = x], pc[t] # "child", x # "child"
  PROVE  Holders' = Holders
  BY DEF Holders

LEMMA HolderAdded ==
  ASSUME NEW t \in Turns, pc \in [Turns -> Phases],
         pc' = [pc EXCEPT ![t] = "child"], pc[t] # "child"
  PROVE  Cardinality(Holders') = Cardinality(Holders) + 1
<1>1. Holders' = Holders \cup {t} /\ t \notin Holders
  BY DEF Holders
<1> QED BY <1>1, HoldersFinite, FS_AddElement

LEMMA HolderRemoved ==
  ASSUME NEW t \in Turns, NEW x, pc \in [Turns -> Phases],
         pc' = [pc EXCEPT ![t] = x], pc[t] = "child", x # "child"
  PROVE  Cardinality(Holders') = Cardinality(Holders) - 1
<1>1. Holders' = Holders \ {t} /\ t \in Holders
  BY DEF Holders
<1> QED BY <1>1, HoldersFinite, FS_RemoveElement

LEMMA SlotInit == Init => SlotAccounting
<1> SUFFICES ASSUME Init PROVE SlotAccounting
  OBVIOUS
<1>1. Holders = {}
  BY DEF Init, Holders
<1> QED BY <1>1, FS_EmptySet, ConstantsAssumption DEF Init, SlotAccounting

\* Only three kinds of step touch the holders, each with its permit.
LEMMA SlotStep == TypeOK /\ SlotAccounting /\ [Next]_vars => SlotAccounting'
<1> SUFFICES ASSUME TypeOK, SlotAccounting, [Next]_vars PROVE SlotAccounting'
  OBVIOUS
<1>0. /\ pc \in [Turns -> Phases] /\ slots \in Int
      /\ Cardinality(Holders) \in Nat
  BY HoldersFinite DEF TypeOK
<1>1. ASSUME NEW t \in Turns,
             \/ StartTurn(t) \/ BuildPrompt(t) \/ AttachCached(t)
             \/ AttachCachedFails(t) \/ RecordUnbound(t) \/ SlotRaises(t)
             \/ RecordFailure(t) \/ Publish(t) \/ Capture(t)
             \/ MonologueEnd(t) \/ LateMonologueEnd(t)
      PROVE  SlotAccounting'
  <2>1. slots' = slots
    BY <1>1 DEF StartTurn, BuildPrompt, AttachCached, AttachCachedFails, RecordUnbound,
                SlotRaises, RecordFailure, Publish, Capture, CaptureValidate,
                CaptureWrite, CaptureFails, MonologueEnd, LateMonologueEnd, Cleanup
  <2>2. pc[t] # "child" /\ \E x : x # "child" /\ pc' = [pc EXCEPT ![t] = x]
    BY <1>1 DEF StartTurn, BuildPrompt, AttachCached, AttachCachedFails, RecordUnbound,
                SlotRaises, RecordFailure, Publish, Capture, CaptureValidate,
                CaptureWrite, CaptureFails, MonologueEnd, LateMonologueEnd, Cleanup
  <2>3. Holders' = Holders
    BY <1>0, <2>2, HoldersUnchanged
  <2> QED BY <2>1, <2>3 DEF SlotAccounting
<1>2. ASSUME NEW t \in Turns, BuildRaises(t) \/ ChildExits(t) PROVE SlotAccounting'
  BY <1>2 DEF BuildRaises, ChildExits, turnVars, SlotAccounting, Holders
<1>3. ASSUME NEW k \in Keys, SwitchProject(k) PROVE SlotAccounting'
  BY <1>3 DEF SwitchProject, turnVars, SlotAccounting, Holders
<1>4. ASSUME NEW t \in Turns, AcquireSlot(t) PROVE SlotAccounting'
  <2>1. slots' = slots - 1 /\ Cardinality(Holders') = Cardinality(Holders) + 1
    BY <1>0, <1>4, HolderAdded DEF AcquireSlot
  <2> QED BY <1>0, <2>1 DEF SlotAccounting
<1>5. ASSUME NEW t \in Turns, ReceiveContext(t) \/ ReceiveFailure(t) PROVE SlotAccounting'
  <2>1. slots' = slots + 1 /\ Cardinality(Holders') = Cardinality(Holders) - 1
    BY <1>0, <1>5, HolderRemoved DEF ReceiveContext, ReceiveFailure
  <2> QED BY <1>0, <2>1 DEF SlotAccounting
<1>6. ASSUME NEW t \in Turns, Kill(t) PROVE SlotAccounting'
  <2>1. CASE pc[t] = "child"
    <3>1. slots' = slots + 1 /\ Cardinality(Holders') = Cardinality(Holders) - 1
      BY <1>0, <1>6, <2>1, HolderRemoved DEF Kill
    <3> QED BY <1>0, <3>1 DEF SlotAccounting
  <2>2. CASE pc[t] # "child"
    <3>1. slots' = slots /\ Holders' = Holders
      BY <1>0, <1>6, <2>2, HoldersUnchanged DEF Kill
    <3> QED BY <3>1 DEF SlotAccounting
  <2> QED BY <2>1, <2>2
<1>7. CASE UNCHANGED vars
  BY <1>7 DEF vars, SlotAccounting, Holders
<1> QED BY <1>1, <1>2, <1>3, <1>4, <1>5, <1>6, <1>7 DEF Next, Inject

-----------------------------------------------------------------------------
(* Type correctness.  That a release never exceeds the semaphore's capacity is  *)
(* not visible in the releasing step: it follows from SlotAccounting.  That a   *)
(* capture stores an identifier at all follows from CheckpointInv.            *)

LEMMA TypeInit == Init => TypeOK
<1> SUFFICES ASSUME Init PROVE TypeOK
  OBVIOUS
<1>1. Unmounted \in ActivationBindings
  BY DEF Unmounted, ActivationBindings
<1>2. config \in [Keys -> ActivationBindings]
  BY ConstantsAssumption DEF Init
<1>3. candidate \in [Turns -> Candidates]
  BY ConstantsAssumption DEF Init
<1>4. slots \in 0..MaxConcurrentPreflights
  BY ConstantsAssumption DEF Init
<1> QED BY <1>1, <1>2, <1>3, <1>4, ConstantsAssumption
       DEF Init, TypeOK, Phases, Outcomes

LEMMA SlotsBounded ==
  ASSUME slots' \in Nat, SlotAccounting'
  PROVE  slots' \in 0..MaxConcurrentPreflights
<1>1. IsFiniteSet(Holders') /\ Cardinality(Holders') \in Nat
  BY ConstantsAssumption, FS_Subset, FS_CardinalityType DEF Holders
<1> QED BY <1>1, ConstantsAssumption DEF SlotAccounting

LEMMA TypeStep ==
  TypeOK /\ SlotAccounting /\ CheckpointInv /\ [Next]_vars => TypeOK'
<1> SUFFICES ASSUME TypeOK, SlotAccounting, CheckpointInv, [Next]_vars PROVE TypeOK'
  OBVIOUS
<1>0. SlotAccounting'
  BY SlotStep
<1> USE DEF TypeOK, Phases, turnVars, history
<1>1. ASSUME NEW t \in Turns, StartTurn(t) PROVE TypeOK'
  BY <1>1 DEF StartTurn
<1>2. ASSUME NEW k \in Keys, SwitchProject(k) PROVE TypeOK'
  BY <1>2, ConstantsAssumption DEF SwitchProject
<1>3. ASSUME NEW t \in Turns, BuildPrompt(t) PROVE TypeOK'
  BY <1>3, KeysFact DEF BuildPrompt
<1>4. ASSUME NEW t \in Turns, BuildRaises(t) PROVE TypeOK'
  BY <1>4 DEF BuildRaises
<1>5. ASSUME NEW t \in Turns, AttachCached(t) PROVE TypeOK'
  BY <1>5 DEF AttachCached
<1>6. ASSUME NEW t \in Turns, NEW s, NEW r \in {"injected", "failed", "unbound"},
             RecordLatest(s, r), pc' = [pc EXCEPT ![t] = "loop"],
             cache' \in [Keys -> Ids \cup {NoId}],
             UNCHANGED <<builds, bound, pending, candidate, child, extras, slots,
                         config, switches, receipt, captured, owner, origin, retired>>
      PROVE TypeOK'
  BY <1>6 DEF RecordLatest
<1>7. ASSUME NEW t \in Turns, AttachCachedFails(t) PROVE TypeOK'
  BY <1>6, <1>7 DEF AttachCachedFails
<1>8. ASSUME NEW t \in Turns, RecordUnbound(t) PROVE TypeOK'
  <2>1. CASE bound[t].store = NoStore
    BY <1>8, <2>1 DEF RecordUnbound
  <2>2. CASE bound[t].store # NoStore
    BY <1>6, <1>8, <2>2 DEF RecordUnbound
  <2> QED BY <2>1, <2>2
<1>9. ASSUME NEW t \in Turns, AcquireSlot(t) PROVE TypeOK'
  BY <1>9, ConstantsAssumption DEF AcquireSlot, Outcomes
<1>10. ASSUME NEW t \in Turns, SlotRaises(t) PROVE TypeOK'
  BY <1>10 DEF SlotRaises
<1>11. ASSUME NEW t \in Turns, ChildExits(t) PROVE TypeOK'
  BY <1>11 DEF ChildExits, Outcomes
<1>12. ASSUME NEW t \in Turns, ReceiveContext(t) PROVE TypeOK'
  <2>1. slots' \in 0..MaxConcurrentPreflights
    BY <1>0, <1>12, SlotsBounded DEF ReceiveContext
  <2>2. bound[t].store \in Stores \cup {NoStore}
    BY DEF ActivationBindings
  <2> QED BY <1>12, <2>1, <2>2 DEF ReceiveContext, Outcomes
<1>13. ASSUME NEW t \in Turns, ReceiveFailure(t) PROVE TypeOK'
  <2>1. slots' \in 0..MaxConcurrentPreflights
    BY <1>0, <1>13, SlotsBounded DEF ReceiveFailure
  <2> QED BY <1>13, <2>1 DEF ReceiveFailure, Outcomes
<1>14. ASSUME NEW t \in Turns, RecordFailure(t) PROVE TypeOK'
  BY <1>6, <1>14 DEF RecordFailure
<1>15. ASSUME NEW t \in Turns, Publish(t) PROVE TypeOK'
  BY <1>6, <1>15 DEF Publish
<1>16. ASSUME NEW t \in Turns, Cleanup(t) PROVE TypeOK'
  BY <1>16, KeysFact DEF Cleanup
<1>17. ASSUME NEW t \in Turns, Kill(t) PROVE TypeOK'
  <2>1. slots' \in 0..MaxConcurrentPreflights
    BY <1>0, <1>17, SlotsBounded DEF Kill
  <2> QED BY <1>17, <2>1 DEF Kill, Outcomes
<1>18. ASSUME NEW t \in Turns, CaptureValidate(t) PROVE TypeOK'
  BY <1>18 DEF CaptureValidate
<1>19. ASSUME NEW t \in Turns, CaptureWrite(t) PROVE TypeOK'
  <2>1. CASE captured' = captured
    BY <1>19, <2>1 DEF CaptureWrite
  <2>2. CASE captured' # captured
    <3>1. captured' = captured \cup
            {[id |-> pending[t], candidate |-> candidate[t], turn |-> t,
              dest |-> config[TurnKey(t)]]}
      BY <1>19, <2>2 DEF CaptureWrite
    <3>2. config[TurnKey(t)] \in ActivationBindings
      BY KeysFact
    <3>3. pending[t] \in Ids
      BY <1>19 DEF CaptureWrite, CheckpointInv, Issued
    <3> QED BY <1>19, <3>1, <3>2, <3>3 DEF CaptureWrite, CapturedOps
  <2> QED BY <2>1, <2>2
<1>20. ASSUME NEW t \in Turns, CaptureFails(t) PROVE TypeOK'
  BY <1>20 DEF CaptureFails
<1>21. CASE UNCHANGED vars
  BY <1>21 DEF vars
<1> HIDE DEF TypeOK, Phases, turnVars, history
<1> QED BY <1>1, <1>2, <1>3, <1>4, <1>5, <1>7, <1>8, <1>9, <1>10, <1>11, <1>12,
           <1>13, <1>14, <1>15, <1>16, <1>17, <1>18, <1>19, <1>20, <1>21
       DEF Next, Inject, Capture, MonologueEnd, LateMonologueEnd

-----------------------------------------------------------------------------
(* Checkpoints.  The owner of an identifier never changes once it is issued, so  *)
(* each step keeps what CheckpointInv says of those it does not touch.         *)

LEMMA CheckpointInit == Init => CheckpointInv
  BY KeysFact DEF Init, CheckpointInv

LEMMA CheckpointStep == TypeOK /\ CheckpointInv /\ [Next]_vars => CheckpointInv'
<1> SUFFICES ASSUME TypeOK, CheckpointInv, [Next]_vars PROVE CheckpointInv'
  OBVIOUS
<1>0. /\ pc \in [Turns -> Phases]
      /\ pending \in [Turns -> Ids \cup {NoId}]
      /\ cache \in [Keys -> Ids \cup {NoId}]
      /\ owner \in [Ids -> Turns \cup {NoTurn}]
      /\ NoTurn \notin Turns /\ NoId \notin Ids
  BY ConstantsAssumption DEF TypeOK
\* Steps that leave cache, owner, pending and retired alone, and put no turn into a
\* phase that holds a checkpoint.
<1>1. ASSUME NEW t \in Turns, NEW x, x \notin {"cached", "publish", "write"},
             pc' = [pc EXCEPT ![t] = x], UNCHANGED <<cache, owner, pending, retired>>
      PROVE  CheckpointInv'
  BY <1>0, <1>1 DEF CheckpointInv, Issued
<1>2. ASSUME UNCHANGED <<pc, cache, owner, pending, retired>> PROVE CheckpointInv'
  BY <1>2 DEF CheckpointInv, Issued
<1>3. ASSUME NEW t \in Turns, BuildPrompt(t) PROVE CheckpointInv'
  <2>1. CASE cache[TurnKey(t)] = NoId
    BY <1>1, <1>3, <2>1 DEF BuildPrompt, history
  <2>2. CASE cache[TurnKey(t)] # NoId
    <3>1. /\ pending' = [pending EXCEPT ![t] = cache[TurnKey(t)]]
          /\ pc' = [pc EXCEPT ![t] = "cached"]
          /\ UNCHANGED <<cache, owner, retired>>
      BY <1>3, <2>2 DEF BuildPrompt, history
    <3> QED BY <1>0, <2>2, <3>1, KeysFact DEF CheckpointInv, Issued
  <2> QED BY <2>1, <2>2
<1>4. ASSUME NEW t \in Turns, ReceiveContext(t) PROVE CheckpointInv'
  <2>1. PICK i \in Ids :
          /\ owner[i] = NoTurn
          /\ owner' = [owner EXCEPT ![i] = t]
          /\ pending' = [pending EXCEPT ![t] = i]
    BY <1>4 DEF ReceiveContext
  <2>2. pc' = [pc EXCEPT ![t] = "publish"] /\ UNCHANGED <<cache, retired>>
    BY <1>4 DEF ReceiveContext
  <2>3. /\ i \notin retired
        /\ \A k \in Keys : cache[k] # i
    BY <1>0, <2>1 DEF CheckpointInv, Issued
  <2>4. \A j \in Ids : owner[j] # NoTurn => owner'[j] = owner[j]
    BY <1>0, <2>1
  <2>5. \A k \in Keys : cache'[k] # NoId =>
          owner'[cache'[k]] # NoTurn /\ TurnKey(owner'[cache'[k]]) = k
    <3> SUFFICES ASSUME NEW k \in Keys, cache[k] # NoId
                 PROVE  owner'[cache[k]] # NoTurn /\ TurnKey(owner'[cache[k]]) = k
      BY <2>2
    <3>1. cache[k] \in Ids /\ owner[cache[k]] # NoTurn /\ TurnKey(owner[cache[k]]) = k
      BY <1>0 DEF CheckpointInv, Issued
    <3> QED BY <2>2, <2>4, <3>1
  <2>6. ASSUME NEW u \in Turns, pc'[u] \in {"cached", "publish", "write"}
        PROVE  /\ pending'[u] # NoId /\ owner'[pending'[u]] # NoTurn
               /\ TurnKey(owner'[pending'[u]]) = TurnKey(u)
    <3>1. CASE u = t
      <4>1. pending'[u] = i /\ owner'[i] = t /\ i # NoId /\ t # NoTurn
        BY <1>0, <2>1, <3>1
      <4> QED BY <3>1, <4>1
    <3>2. CASE u # t
      <4>1. /\ pc[u] \in {"cached", "publish", "write"}
            /\ pending'[u] = pending[u]
        BY <1>0, <2>1, <2>2, <2>6, <3>2
      <4>2. /\ pending[u] \in Ids /\ owner[pending[u]] # NoTurn
            /\ TurnKey(owner[pending[u]]) = TurnKey(u)
        BY <1>0, <4>1 DEF CheckpointInv, Issued
      <4> QED BY <1>0, <2>4, <4>1, <4>2
    <3> QED BY <3>1, <3>2
  <2>7. ASSUME NEW u \in Turns, pc'[u] = "publish"
        PROVE  /\ owner'[pending'[u]] = u
               /\ pending'[u] \notin retired'
               /\ \A k \in Keys : cache'[k] # pending'[u]
    <3>1. CASE u = t
      BY <1>0, <2>1, <2>2, <2>3, <3>1
    <3>2. CASE u # t
      <4>1. pc[u] = "publish" /\ pending'[u] = pending[u]
        BY <1>0, <2>1, <2>2, <2>7, <3>2
      <4>2. Issued(pending[u]) /\ pending[u] \in Ids
        BY <1>0, <4>1 DEF CheckpointInv, Issued
      <4> QED BY <2>2, <2>4, <4>1, <4>2 DEF CheckpointInv, Issued
    <3> QED BY <3>1, <3>2
  <2>8. \A j \in retired' : j # NoId /\ owner'[j] # NoTurn
    <3>1. \A j \in retired : j \in Ids /\ j # NoId /\ owner[j] # NoTurn
      BY <1>0 DEF CheckpointInv, Issued, TypeOK
    <3> QED BY <2>2, <2>4, <3>1
  <2> QED BY <2>5, <2>6, <2>7, <2>8 DEF CheckpointInv, Issued, Keys
<1>5. ASSUME NEW t \in Turns, Publish(t) PROVE CheckpointInv'
  <2>1. /\ pc[t] = "publish"
        /\ cache' = [cache EXCEPT ![TurnKey(t)] = pending[t]]
        /\ pc' = [pc EXCEPT ![t] = "loop"]
        /\ UNCHANGED <<owner, pending, retired>>
    BY <1>5 DEF Publish
  <2>2. \A u \in Turns : pc[u] = "publish" /\ u # t => pending[u] # pending[t]
    BY <2>1 DEF CheckpointInv
  <2> QED BY <1>0, <2>1, <2>2, KeysFact DEF CheckpointInv, Issued
<1>6. ASSUME NEW t \in Turns, Cleanup(t) PROVE CheckpointInv'
  <2>1. /\ cache' = [cache EXCEPT ![TurnKey(t)] = NoId]
        /\ retired' = retired \cup ({cache[TurnKey(t)]} \ {NoId})
        /\ UNCHANGED <<owner, pending>>
    BY <1>6 DEF Cleanup
  <2>2. PICK x \in {"done", "gone"} : pc' = [pc EXCEPT ![t] = x]
    BY <1>0, <1>6 DEF Cleanup
  <2> QED BY <1>0, <2>1, <2>2, KeysFact DEF CheckpointInv, Issued
<1>7. ASSUME NEW t \in Turns, CaptureValidate(t) PROVE CheckpointInv'
  <2>1. /\ pending' = [pending EXCEPT ![t] = cache[TurnKey(t)]]
        /\ cache[TurnKey(t)] # NoId
        /\ pc' = [pc EXCEPT ![t] = "write"]
        /\ UNCHANGED <<cache, owner, retired>>
    BY <1>7 DEF CaptureValidate, Accepts, history
  <2> QED BY <1>0, <2>1, KeysFact DEF CheckpointInv, Issued
<1>8. ASSUME NEW t \in Turns,
             \/ StartTurn(t) \/ AttachCached(t) \/ AttachCachedFails(t)
             \/ RecordUnbound(t) \/ AcquireSlot(t) \/ SlotRaises(t)
             \/ ReceiveFailure(t) \/ RecordFailure(t) \/ Kill(t)
             \/ CaptureWrite(t) \/ CaptureFails(t)
      PROVE  CheckpointInv'
  BY <1>1, <1>8 DEF StartTurn, AttachCached, AttachCachedFails, RecordUnbound,
       AcquireSlot, SlotRaises, ReceiveFailure, RecordFailure, Kill, CaptureWrite,
       CaptureFails, history
<1>9. ASSUME NEW t \in Turns, BuildRaises(t) \/ ChildExits(t) PROVE CheckpointInv'
  BY <1>2, <1>9 DEF BuildRaises, ChildExits, turnVars, history
<1>10. ASSUME NEW k \in Keys, SwitchProject(k) PROVE CheckpointInv'
  BY <1>2, <1>10 DEF SwitchProject, turnVars, history
<1>11. CASE UNCHANGED vars
  BY <1>2, <1>11 DEF vars
<1> QED BY <1>3, <1>4, <1>5, <1>6, <1>7, <1>8, <1>9, <1>10, <1>11
       DEF Next, Inject, Capture, MonologueEnd, LateMonologueEnd

-----------------------------------------------------------------------------
(* The two properties CheckpointInv is there for. *)

LEMMA IsolationStep ==
  TypeOK /\ CheckpointInv /\ IdentityIsolation /\ [Next]_vars => IdentityIsolation'
<1> SUFFICES ASSUME TypeOK, CheckpointInv, IdentityIsolation, [Next]_vars
             PROVE  IdentityIsolation'
  OBVIOUS
<1>0. /\ pc \in [Turns -> Phases]
      /\ pending \in [Turns -> Ids \cup {NoId}]
      /\ extras \in [Turns -> Ids \cup {NoId}]
      /\ owner \in [Ids -> Turns \cup {NoTurn}]
      /\ captured \subseteq CapturedOps
      /\ NoTurn \notin Turns /\ NoId \notin Ids
  BY ConstantsAssumption DEF TypeOK
\* A checkpoint held by a call in progress is of the caller's identity.
<1>1. ASSUME NEW t \in Turns, pc[t] \in {"cached", "publish", "write"}
      PROVE  /\ Issued(pending[t]) /\ pending[t] \in Ids
             /\ Identity[owner[pending[t]]] = Identity[t]
  <2>1. Issued(pending[t]) /\ TurnKey(owner[pending[t]]) = TurnKey(t)
    BY <1>1 DEF CheckpointInv
  <2>2. pending[t] \in Ids /\ owner[pending[t]] \in Turns
    BY <1>0, <2>1 DEF Issued
  <2> QED BY <2>1, <2>2, KeyDeterminesIdentity
<1>2. ASSUME UNCHANGED <<extras, captured, owner>> PROVE IdentityIsolation'
  BY <1>2 DEF IdentityIsolation, Issued
<1>3. ASSUME NEW t \in Turns, extras' = [extras EXCEPT ![t] = NoId],
             UNCHANGED <<captured, owner>>
      PROVE  IdentityIsolation'
  BY <1>0, <1>3 DEF IdentityIsolation, Issued
<1>4. ASSUME NEW t \in Turns, AttachCached(t) PROVE IdentityIsolation'
  <2>1. /\ pc[t] = "cached" /\ extras' = [extras EXCEPT ![t] = pending[t]]
        /\ UNCHANGED <<captured, owner>>
    BY <1>4 DEF AttachCached, history
  <2>2. Issued(pending[t]) /\ Identity[owner[pending[t]]] = Identity[t]
    BY <1>1, <2>1
  <2> QED BY <1>0, <2>1, <2>2 DEF IdentityIsolation, Issued
<1>5. ASSUME NEW t \in Turns, ReceiveContext(t) PROVE IdentityIsolation'
  <2>1. PICK i \in Ids : /\ owner[i] = NoTurn
                         /\ owner' = [owner EXCEPT ![i] = t]
                         /\ extras' = [extras EXCEPT ![t] = i]
    BY <1>5 DEF ReceiveContext
  <2>2. captured' = captured
    BY <1>5 DEF ReceiveContext
  <2>3. \A j \in Ids : owner[j] # NoTurn => owner'[j] = owner[j]
    BY <1>0, <2>1
  <2>4. ASSUME NEW u \in Turns, extras'[u] # NoId
        PROVE  owner'[extras'[u]] # NoTurn /\ Identity[owner'[extras'[u]]] = Identity[u]
    <3>1. CASE u = t
      <4>1. extras'[u] = i /\ owner'[i] = t /\ t # NoTurn
        BY <1>0, <2>1, <3>1
      <4> QED BY <3>1, <4>1
    <3>2. CASE u # t
      <4>1. extras'[u] = extras[u] /\ extras[u] # NoId
        BY <1>0, <2>1, <2>4, <3>2
      <4>2. /\ extras[u] \in Ids /\ owner[extras[u]] # NoTurn
            /\ Identity[owner[extras[u]]] = Identity[u]
        BY <1>0, <4>1 DEF IdentityIsolation, Issued
      <4> QED BY <2>3, <4>1, <4>2
    <3> QED BY <3>1, <3>2
  <2>5. ASSUME NEW c \in captured
        PROVE  /\ c.id # NoId /\ owner'[c.id] # NoTurn
               /\ Identity[owner'[c.id]] = Identity[c.turn]
    <3>1. /\ c.id \in Ids /\ c.id # NoId /\ owner[c.id] # NoTurn
          /\ Identity[owner[c.id]] = Identity[c.turn]
      BY <1>0 DEF IdentityIsolation, Issued, CapturedOps
    <3> QED BY <2>3, <3>1
  <2> QED BY <2>2, <2>4, <2>5 DEF IdentityIsolation, Issued
<1>6. ASSUME NEW t \in Turns, CaptureWrite(t) PROVE IdentityIsolation'
  <2>1. pc[t] = "write" /\ UNCHANGED <<extras, owner>>
    BY <1>6 DEF CaptureWrite, history
  <2>2. CASE captured' = captured
    BY <1>2, <2>1, <2>2
  <2>3. CASE captured' # captured
    <3>1. captured' = captured \cup
            {[id |-> pending[t], candidate |-> candidate[t], turn |-> t,
              dest |-> config[TurnKey(t)]]}
      BY <1>6, <2>3 DEF CaptureWrite
    <3>2. Issued(pending[t]) /\ Identity[owner[pending[t]]] = Identity[t]
      BY <1>1, <2>1
    <3> QED BY <2>1, <3>1, <3>2 DEF IdentityIsolation, Issued
  <2> QED BY <2>2, <2>3
<1>7. ASSUME NEW t \in Turns,
             \/ StartTurn(t) \/ BuildPrompt(t) \/ AttachCachedFails(t)
             \/ RecordUnbound(t) \/ AcquireSlot(t) \/ SlotRaises(t) \/ ChildExits(t)
             \/ ReceiveFailure(t) \/ RecordFailure(t) \/ Publish(t) \/ Kill(t)
             \/ CaptureValidate(t) \/ CaptureFails(t)
      PROVE  IdentityIsolation'
  BY <1>2, <1>7 DEF StartTurn, BuildPrompt, AttachCachedFails, RecordUnbound,
       AcquireSlot, SlotRaises, ChildExits, ReceiveFailure, RecordFailure, Publish,
       Kill, CaptureValidate, CaptureFails, history, turnVars
<1>8. ASSUME NEW t \in Turns, BuildRaises(t) \/ Cleanup(t) PROVE IdentityIsolation'
  BY <1>3, <1>8 DEF BuildRaises, Cleanup, history
<1>9. ASSUME NEW k \in Keys, SwitchProject(k) PROVE IdentityIsolation'
  BY <1>2, <1>9 DEF SwitchProject, turnVars, history
<1>10. CASE UNCHANGED vars
  BY <1>2, <1>10 DEF vars
<1> QED BY <1>4, <1>5, <1>6, <1>7, <1>8, <1>9, <1>10
       DEF Next, Inject, Capture, MonologueEnd, LateMonologueEnd

LEMMA RetiredStep ==
  TypeOK /\ CheckpointInv /\ RetiredStaysRetired /\ [Next]_vars => RetiredStaysRetired'
<1> SUFFICES ASSUME TypeOK, CheckpointInv, RetiredStaysRetired, [Next]_vars
             PROVE  RetiredStaysRetired'
  OBVIOUS
<1>0. cache \in [Keys -> Ids \cup {NoId}] /\ retired \subseteq Ids /\ NoId \notin Ids
  BY ConstantsAssumption DEF TypeOK
<1>1. ASSUME NEW t \in Turns, Publish(t) PROVE RetiredStaysRetired'
  <2>1. /\ cache' = [cache EXCEPT ![TurnKey(t)] = pending[t]]
        /\ retired' = retired /\ pending[t] \notin retired
    BY <1>1 DEF Publish, CheckpointInv
  <2> QED BY <1>0, <2>1 DEF RetiredStaysRetired, Keys
\* Two keys never cache the same identifier, so the popped one is in no other entry.
<1>2. ASSUME NEW t \in Turns, Cleanup(t) PROVE RetiredStaysRetired'
  <2>1. /\ cache' = [cache EXCEPT ![TurnKey(t)] = NoId]
        /\ retired' = retired \cup ({cache[TurnKey(t)]} \ {NoId})
    BY <1>2 DEF Cleanup
  <2>2. \A k \in Keys : cache[k] # NoId /\ k # TurnKey(t) => cache[k] # cache[TurnKey(t)]
    BY KeysFact DEF CheckpointInv
  <2>3. ASSUME NEW k \in Keys PROVE cache'[k] \notin retired'
    <3>1. CASE k = TurnKey(t)
      BY <1>0, <2>1, <3>1
    <3>2. CASE k # TurnKey(t)
      BY <1>0, <2>1, <2>2, <3>2 DEF RetiredStaysRetired
    <3> QED BY <3>1, <3>2
  <2> QED BY <2>3 DEF RetiredStaysRetired, Keys
<1>3. ASSUME UNCHANGED <<cache, retired>> PROVE RetiredStaysRetired'
  BY <1>3 DEF RetiredStaysRetired, Keys
<1>4. ASSUME NEW t \in Turns,
             \/ StartTurn(t) \/ BuildPrompt(t) \/ BuildRaises(t) \/ AttachCached(t)
             \/ AttachCachedFails(t) \/ RecordUnbound(t) \/ AcquireSlot(t)
             \/ SlotRaises(t) \/ ChildExits(t) \/ ReceiveContext(t)
             \/ ReceiveFailure(t) \/ RecordFailure(t) \/ Kill(t) \/ Capture(t)
      PROVE  RetiredStaysRetired'
  BY <1>3, <1>4 DEF StartTurn, BuildPrompt, BuildRaises, AttachCached,
       AttachCachedFails, RecordUnbound, AcquireSlot, SlotRaises, ChildExits,
       ReceiveContext, ReceiveFailure, RecordFailure, Kill, Capture,
       CaptureValidate, CaptureWrite, CaptureFails, history, turnVars
<1>5. ASSUME NEW k \in Keys, SwitchProject(k) PROVE RetiredStaysRetired'
  BY <1>3, <1>5 DEF SwitchProject, turnVars, history
<1>6. CASE UNCHANGED vars
  BY <1>3, <1>6 DEF vars
<1> QED BY <1>1, <1>2, <1>4, <1>5, <1>6
       DEF Next, Inject, MonologueEnd, LateMonologueEnd

-----------------------------------------------------------------------------
(* The theorems. *)

IInv == TypeOK /\ SlotAccounting /\ CheckpointInv

\* The inductive invariant: types, permits and ownership support each other.
THEOREM Invariance == Spec => []IInv
<1>1. Init => IInv
  BY TypeInit, SlotInit, CheckpointInit DEF IInv
<1>2. IInv /\ [Next]_vars => IInv'
  BY TypeStep, SlotStep, CheckpointStep DEF IInv
<1> QED BY <1>1, <1>2, PTL DEF Spec

\* inject_lifecycle_context, cleanup_lifecycle_context and the capture tool keep every
\* variable in its type, the semaphore within its capacity included.
THEOREM TypeCorrect == Spec => []TypeOK
<1>1. IInv => TypeOK
  BY DEF IInv
<1> QED BY <1>1, Invariance, PTL

\* No permit of _PREFLIGHT_SLOTS is lost or released twice, whatever is cancelled.
THEOREM PermitsConserved == Spec => []SlotAccounting
<1>1. IInv => SlotAccounting
  BY DEF IInv
<1> QED BY <1>1, Invariance, PTL

\* Cached, published and validated checkpoints belong to the key they are used under.
THEOREM CheckpointsOwned == Spec => []CheckpointInv
<1>1. IInv => CheckpointInv
  BY DEF IInv
<1> QED BY <1>1, Invariance, PTL

\* No prompt shows and no stored capture uses the checkpoint of another agent.
THEOREM Isolation == Spec => []IdentityIsolation
<1>1. Init => IdentityIsolation
  BY DEF Init, IdentityIsolation
<1>2. IInv /\ IdentityIsolation /\ [Next]_vars => IdentityIsolation'
  BY IsolationStep DEF IInv
<1> QED BY <1>1, <1>2, Invariance, PTL DEF Spec

\* A checkpoint that a monologue end dropped is never accepted again.
THEOREM RetirementIsFinal == Spec => []RetiredStaysRetired
<1>1. Init => RetiredStaysRetired
  BY DEF Init, RetiredStaysRetired
<1>2. IInv /\ RetiredStaysRetired /\ [Next]_vars => RetiredStaysRetired'
  BY RetiredStep DEF IInv
<1> QED BY <1>1, <1>2, Invariance, PTL DEF Spec
-----------------------------------------------------------------------------
(* The public state of a store. *)

\* No agent is configured with an isolated store; a call that finds its binding unusable
\* then knows no store; and whoever still has to prove a store has its failure on record.
SharedOnly ==
  /\ \A k \in Keys : config[k].state # "active-isolated"
  /\ \A t \in Turns :
       /\ bound[t].state # "active-isolated"
       /\ pc[t] = "unbound" => bound[t].store = NoStore
  /\ \A s \in Stores : unproven[s] => latest[s] = "failed"

LEMMA SharedOnlyInit ==
  ASSUME \A b \in Bindings : b.state # "active-isolated", Init PROVE SharedOnly
  BY KeysFact DEF Init, SharedOnly, Unmounted

\* A result recorded for a store that is a failure, or the success of an attempt.
LEMMA AttemptRecorded ==
  ASSUME TypeOK, SharedOnly, NEW s, NEW result \in {"failed", "injected"},
         RecordLatest(s, result)
  PROVE  \A r \in Stores : unproven'[r] => latest'[r] = "failed"
  BY DEF SharedOnly, RecordLatest, TypeOK

LEMMA SharedOnlyStep ==
  ASSUME \A b \in Bindings : b.state # "active-isolated", TypeOK, SharedOnly, [Next]_vars
  PROVE  SharedOnly'
<1>0. /\ pc \in [Turns -> Phases] /\ bound \in [Turns -> ActivationBindings]
      /\ config \in [Keys -> ActivationBindings]
      /\ \A t \in Turns : TurnKey(t) \in Keys
  BY KeysFact DEF TypeOK
\* Steps of a turn that lead to no unusable binding.
<1>1. ASSUME NEW t \in Turns, NEW x, x # "unbound", pc' = [pc EXCEPT ![t] = x],
             UNCHANGED <<config, bound>>,
             \A r \in Stores : unproven'[r] => latest'[r] = "failed"
      PROVE  SharedOnly'
  BY <1>0, <1>1 DEF SharedOnly
<1>2. ASSUME UNCHANGED <<pc, config, bound, latest, unproven>> PROVE SharedOnly'
  BY <1>2 DEF SharedOnly
<1>3. ASSUME NEW t \in Turns, BuildPrompt(t) PROVE SharedOnly'
  <2>1. CASE cache[TurnKey(t)] # NoId
    <3>1. /\ pc' = [pc EXCEPT ![t] = "cached"]
          /\ UNCHANGED <<config, bound, latest, unproven>>
      BY <1>3, <2>1 DEF BuildPrompt, history
    <3> QED BY <1>1, <3>1 DEF SharedOnly
  <2>2. CASE cache[TurnKey(t)] = NoId
    <3>1. /\ pc' = [pc EXCEPT ![t] =
                      IF config[TurnKey(t)].state = "configured-awaiting-proof"
                      THEN "slot" ELSE "unbound"]
          /\ bound' = [bound EXCEPT ![t] = config[TurnKey(t)]]
          /\ UNCHANGED <<config, latest, unproven>>
      BY <1>3, <2>2 DEF BuildPrompt, history
    <3>2. /\ config[TurnKey(t)].state # "active-isolated"
          /\ config[TurnKey(t)] \in ActivationBindings
      BY <1>0 DEF SharedOnly
    <3>3. config[TurnKey(t)].state # "configured-awaiting-proof" =>
            config[TurnKey(t)].store = NoStore
      BY <3>2 DEF ActivationBindings, BindingStates
    <3> QED BY <1>0, <3>1, <3>2, <3>3 DEF SharedOnly
  <2> QED BY <2>1, <2>2
<1>4. ASSUME NEW t \in Turns, AttachCachedFails(t) \/ RecordFailure(t) \/ Publish(t)
      PROVE  SharedOnly'
  <2>1. \A r \in Stores : unproven'[r] => latest'[r] = "failed"
    BY <1>4, AttemptRecorded DEF AttachCachedFails, RecordFailure, Publish
  <2>2. pc' = [pc EXCEPT ![t] = "loop"] /\ UNCHANGED <<config, bound>>
    BY <1>4 DEF AttachCachedFails, RecordFailure, Publish
  <2> QED BY <1>1, <2>1, <2>2
<1>5. ASSUME NEW t \in Turns, RecordUnbound(t) PROVE SharedOnly'
  <2>1. /\ pc' = [pc EXCEPT ![t] = "loop"]
        /\ UNCHANGED <<config, bound, latest, unproven>>
    BY <1>5 DEF RecordUnbound, SharedOnly
  <2> QED BY <1>1, <2>1 DEF SharedOnly
<1>6. ASSUME NEW t \in Turns,
             \/ StartTurn(t) \/ AttachCached(t) \/ AcquireSlot(t) \/ SlotRaises(t)
             \/ ReceiveContext(t) \/ ReceiveFailure(t) \/ Cleanup(t) \/ Kill(t) \/ Capture(t)
      PROVE  SharedOnly'
  <2> USE DEF StartTurn, AttachCached, AcquireSlot, SlotRaises, ReceiveContext,
          ReceiveFailure, Cleanup, Kill, Capture, CaptureValidate, CaptureWrite, CaptureFails
  <2>1. UNCHANGED <<config, bound, latest, unproven>>
    BY <1>6 DEF history
  <2>2. \E x : x # "unbound" /\ pc' = [pc EXCEPT ![t] = x]
    BY <1>0, <1>6
  <2> QED BY <1>1, <2>1, <2>2 DEF SharedOnly
<1>7. ASSUME NEW t \in Turns, BuildRaises(t) \/ ChildExits(t) PROVE SharedOnly'
  BY <1>2, <1>7 DEF BuildRaises, ChildExits, turnVars, history
<1>8. ASSUME NEW k \in Keys, SwitchProject(k) PROVE SharedOnly'
  BY <1>0, <1>8 DEF SwitchProject, turnVars, history, SharedOnly
<1>9. CASE UNCHANGED vars
  BY <1>2, <1>9 DEF vars
<1> QED BY <1>3, <1>4, <1>5, <1>6, <1>7, <1>8, <1>9
       DEF Next, Inject, MonologueEnd, LateMonologueEnd

\* What the run lifecycle_status refutes holds where no agent is bound to an isolated store:
\* recording the result of such an agent is the one way in which the API comes to report a
\* store active although its last injection failed.
THEOREM FailureWithheld ==
  ASSUME \A b \in Bindings : b.state # "active-isolated"
  PROVE  Spec => []FailureWithheldFromStatus
<1>1. Init => SharedOnly
  BY SharedOnlyInit
<1>2. TypeOK /\ SharedOnly /\ [Next]_vars => SharedOnly'
  BY SharedOnlyStep
<1>3. SharedOnly => FailureWithheldFromStatus
  BY DEF SharedOnly, FailureWithheldFromStatus, PublicState
<1> QED BY <1>1, <1>2, <1>3, TypeCorrect, PTL DEF Spec
=============================================================================
