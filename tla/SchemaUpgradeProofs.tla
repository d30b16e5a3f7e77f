------------------------ MODULE SchemaUpgradeProofs -------------------------
(***************************************************************************)
(* What the schema upgrade keeps for every number of requests, crashes and        *)
(* rollbacks.                                                                *)
(***************************************************************************)
EXTENDS SchemaUpgrade, TLAPS

-----------------------------------------------------------------------------
(* Without any assumption about other users of the store. *)

\* A request that goes on with a copy has one.
Copying == {"checkpointed", "locked", "copied", "placed"}

CopyHeld == \A r \in Requests : pc[r] \in Copying => copy[r] \in Contents

Base == TypeOK /\ BackupsAreOld /\ LockHeldOnlyToCopy /\ CopyHeld

LEMMA BaseInit == Init => Base
  BY UpgradeAssumption
  DEF Init, Base, TypeOK, BackupsAreOld, LockHeldOnlyToCopy, CopyHeld, Copying, Contents,
      Names, Versions, Old, Steps, Files, Ops, FirstName, Unreadable

\* A request that returns, in a step that keeps the files in order.
LEMMA ReturnKeeps ==
  ASSUME Base, NEW r \in Requests, Return(r),
         lock' = IF lock = r THEN NoRequest ELSE lock,
         db' \in Contents, marker' \in Markers \cup Unreadable,
         tmp' \in Markers \cup Unreadable, file' \in [Requests -> Files],
         writes' \in Nat, from' \in Contents \cup {NoContent},
         UNCHANGED <<backups, clock, crashes, restores>>
  PROVE  Base'
<1>1. TypeOK'
  <2>1. FirstName \in Names /\ "done" \in Steps /\ "none" \in Ops
    BY UpgradeAssumption DEF FirstName, Names, Old, Steps, Ops
  <2>2. lock' \in Requests \cup {NoRequest} /\ backups' = backups /\ clock' = clock
        /\ crashes' = crashes /\ restores' = restores
    BY DEF Base, TypeOK
  <2> QED BY <2>1, <2>2 DEF Base, TypeOK, Return, Goto
<1>2. pc'[r] = "done" /\ \A s \in Requests \ {r} : pc'[s] = pc[s] /\ copy'[s] = copy[s]
  BY DEF Base, TypeOK, Return, Goto
<1>3. BackupsAreOld' /\ LockHeldOnlyToCopy' /\ CopyHeld'
  BY <1>2, UpgradeAssumption DEF Base, BackupsAreOld, LockHeldOnlyToCopy, CopyHeld, Copying
<1> QED BY <1>1, <1>3 DEF Base

\* A request that goes on, neither to nor from the locked step.
LEMMA MoveKeeps ==
  ASSUME Base, NEW r \in Requests, NEW step \in Steps \ {"locked"}, Goto(r, step),
         pc[r] # "locked", step \in Copying => copy[r] \in Contents,
         db' \in Contents, tmp' \in Markers \cup Unreadable,
         marker' \in Markers \cup Unreadable, file' \in [Requests -> Files],
         name' \in [Requests -> Names], op' \in [Requests -> Ops],
         mine' \in [Requests -> Markers \cup {NoMarker}],
         migrating' \in [Requests -> BOOLEAN], from' \in Contents \cup {NoContent},
         backups' \in [Names -> Contents \cup {NoContent}], BackupsAreOld',
         UNCHANGED <<lock, copy, clock, writes, crashes, restores>>
  PROVE  Base'
  BY UpgradeAssumption
  DEF Base, TypeOK, LockHeldOnlyToCopy, CopyHeld, Goto

LEMMA SameBackups == BackupsAreOld /\ UNCHANGED backups => BackupsAreOld'
  BY DEF BackupsAreOld

LEMMA BasePrepare == ASSUME Base, NEW r \in Requests, Prepare(r) PROVE Base'
<1>0. TypeOK /\ BackupsAreOld
  BY DEF Base
<1>1. CASE PrepareInspect(r)
  <2>1. [version |-> db.version, stamp |-> clock] \in Names
    BY <1>0, <1>1 DEF PrepareInspect, TypeOK, Names
  <2> QED
    BY <1>0, <1>1, <2>1, MoveKeeps, SameBackups
    DEF PrepareInspect, Start, TypeOK, bounds, Steps, Copying, Ops
<1>c. CASE PrepareCheckpoint(r)
  <2>1. lock # r
    BY <1>c DEF Base, LockHeldOnlyToCopy, PrepareCheckpoint
  <2>2. CASE lock = NoRequest
    BY <1>c, <2>2, UpgradeAssumption
    DEF PrepareCheckpoint, Base, TypeOK, BackupsAreOld, LockHeldOnlyToCopy, CopyHeld, Copying,
        Goto, bounds, Steps
  <2>3. CASE lock # NoRequest
    BY <1>0, <1>c, <2>1, <2>3, ReturnKeeps DEF PrepareCheckpoint, TypeOK, bounds
  <2> QED BY <2>2, <2>3
<1>2. CASE PrepareLock(r)
  <2>1. CASE lock = NoRequest
    BY <1>2, <2>1, UpgradeAssumption
    DEF PrepareLock, Base, TypeOK, BackupsAreOld, LockHeldOnlyToCopy, CopyHeld, Copying, Goto,
        bounds, locals, Steps
  <2>2. CASE lock # NoRequest
    <3>1. lock # r
      BY <1>2 DEF Base, LockHeldOnlyToCopy, PrepareLock
    <3> QED
      BY <1>0, <1>2, <2>2, <3>1, ReturnKeeps DEF PrepareLock, TypeOK, bounds
  <2> QED BY <2>1, <2>2
<1>3. CASE PrepareCopy(r)
  <2>1. copy'[r] \in Contents /\ copy' \in [Requests -> Contents \cup {NoContent}]
        /\ \A s \in Requests \ {r} : copy'[s] = copy[s]
    BY <1>3 DEF PrepareCopy, Base, TypeOK, CopyHeld, Copying
  <2> QED
    BY <1>3, <2>1, UpgradeAssumption
    DEF PrepareCopy, Base, TypeOK, BackupsAreOld, LockHeldOnlyToCopy, CopyHeld, Copying, Goto,
        bounds, Steps
<1>4. CASE PrepareFails(r)
  <2>1. lock = r
    BY <1>4 DEF PrepareFails, Base, LockHeldOnlyToCopy
  <2> QED
    BY <1>0, <1>4, <2>1, ReturnKeeps DEF PrepareFails, TypeOK, bounds
<1>5. CASE PreparePlace(r)
  <2>0. copy[r] \in Contents /\ lock # r
    BY <1>5 DEF PreparePlace, Base, CopyHeld, Copying, LockHeldOnlyToCopy
  <2>1. CASE copy[r].version = name[r].version
    <3>1. backups' = [backups EXCEPT ![name[r]] = copy[r]]
      BY <1>5, <2>1 DEF PreparePlace
    <3>2. backups' \in [Names -> Contents \cup {NoContent}] /\ BackupsAreOld'
      BY <1>0, <2>0, <2>1, <3>1 DEF TypeOK, BackupsAreOld
    <3> QED
      BY <1>0, <1>5, <2>0, <2>1, <3>2, MoveKeeps
      DEF PreparePlace, TypeOK, bounds, locals, Steps, Copying
  <2>2. CASE copy[r].version # name[r].version
    BY <1>0, <1>5, <2>0, <2>2, ReturnKeeps DEF PreparePlace, TypeOK, bounds
  <2> QED BY <2>1, <2>2
<1>6. CASE PrepareMarker(r)
  <2>1. copy[r] \in Contents
    BY <1>6 DEF PrepareMarker, Base, CopyHeld, Copying
  <2>2. [sha |-> copy[r], size |-> db, backup |-> name[r], completed |-> FALSE] \in Markers
    BY <1>0, <2>1 DEF TypeOK, Markers
  <2>3. mine' \in [Requests -> Markers \cup {NoMarker}]
    BY <1>0, <1>6, <2>2 DEF PrepareMarker, TypeOK
  <2> QED
    BY <1>0, <1>6, <2>3, MoveKeeps, SameBackups
    DEF PrepareMarker, TypeOK, bounds, Steps, Copying
<1> QED BY <1>1, <1>c, <1>2, <1>3, <1>4, <1>5, <1>6 DEF Prepare

LEMMA BaseApply == ASSUME Base, NEW r \in Requests, Apply(r) PROVE Base'
<1>0. TypeOK /\ BackupsAreOld /\ (pc[r] # "locked" => lock # r)
  BY DEF Base, LockHeldOnlyToCopy
<1>1. CASE ApplyStart(r)
  BY <1>0, <1>1, MoveKeeps, SameBackups DEF ApplyStart, Start, TypeOK, bounds, Steps, Copying, Ops
<1>m. CASE ReadMarker(r)
  <2>1. CASE marker \in Unreadable
    BY <1>0, <1>m, <2>1, ReturnKeeps DEF ReadMarker, TypeOK, bounds
  <2>2. CASE marker \notin Unreadable
    <3>1. mine' \in [Requests -> Markers \cup {NoMarker}]
      BY <1>0, <1>m, <2>2 DEF ReadMarker, TypeOK
    <3> QED
      BY <1>0, <1>m, <2>2, <3>1, MoveKeeps, SameBackups
      DEF ReadMarker, TypeOK, bounds, Steps, Copying
  <2> QED BY <2>1, <2>2
<1>2. CASE VerifySource(r)
  <2>1. CASE Return(r)
    BY <1>0, <1>2, <2>1, ReturnKeeps DEF VerifySource, TypeOK, bounds
  <2>2. CASE ~Return(r)
    BY <1>0, <1>2, <2>2, MoveKeeps, SameBackups
    DEF VerifySource, TypeOK, bounds, locals, Steps, Copying
  <2> QED BY <2>1, <2>2
<1>3. CASE VerifyBackup(r)
  <2>1. CASE Return(r)
    BY <1>0, <1>3, <2>1, ReturnKeeps DEF VerifyBackup, TypeOK, bounds
  <2>2. CASE ~Return(r)
    BY <1>0, <1>3, <2>2, MoveKeeps, SameBackups
    DEF VerifyBackup, TypeOK, bounds, locals, Steps, Copying
  <2> QED BY <2>1, <2>2
<1>4. CASE InitInspect(r)
  BY <1>0, <1>4, MoveKeeps, SameBackups DEF InitInspect, TypeOK, bounds, Steps, Copying
<1>5. CASE CoreInit(r)
  <2>0. db' \in Contents /\ from' \in Contents \cup {NoContent}
    BY <1>0, <1>5 DEF CoreInit, TypeOK, Contents, Versions
  <2>1. CASE Return(r)
    BY <1>0, <1>5, <2>0, <2>1, ReturnKeeps DEF CoreInit, TypeOK, bounds
  <2>2. CASE ~Return(r)
    BY <1>0, <1>5, <2>0, <2>2, MoveKeeps, SameBackups
    DEF CoreInit, TypeOK, bounds, locals, Steps, Copying
  <2> QED BY <2>1, <2>2
<1>6. CASE CoreInitNoop(r)
  BY <1>0, <1>6, MoveKeeps, SameBackups DEF CoreInitNoop, TypeOK, bounds, locals, Steps, Copying
<1>7. CASE CoreInitFails(r)
  BY <1>0, <1>7, ReturnKeeps DEF CoreInitFails, TypeOK, bounds
<1>8. CASE InitFinal(r)
  <2>1. CASE Return(r)
    BY <1>0, <1>8, <2>1, ReturnKeeps DEF InitFinal, TypeOK, bounds
  <2>2. CASE ~Return(r)
    BY <1>0, <1>8, <2>2, MoveKeeps, SameBackups DEF InitFinal, TypeOK, bounds, locals, Steps, Copying
  <2> QED BY <2>1, <2>2
<1>9. CASE MarkCompleted(r)
  <2>1. CASE marker \in Unreadable
    BY <1>0, <1>9, <2>1, ReturnKeeps DEF MarkCompleted, TypeOK, bounds
  <2>2. CASE marker \notin Unreadable
    <3>1. [marker EXCEPT !.completed = TRUE] \in Markers
      BY <1>0, <2>2 DEF TypeOK, Markers
    <3>2. mine' \in [Requests -> Markers \cup {NoMarker}]
      BY <1>0, <1>9, <2>2, <3>1 DEF MarkCompleted, TypeOK
    <3> QED
      BY <1>0, <1>9, <2>2, <3>2, MoveKeeps, SameBackups
      DEF MarkCompleted, TypeOK, bounds, Steps, Copying
  <2> QED BY <2>1, <2>2
<1> QED BY <1>1, <1>m, <1>2, <1>3, <1>4, <1>5, <1>6, <1>7, <1>8, <1>9 DEF Apply

LEMMA BaseOther ==
  ASSUME Base,
         \/ \E r \in Requests : Use(r) \/ Write(r)
         \/ OldWrite \/ Tick \/ Crash \/ Restore
  PROVE  Base'
<1>0. TypeOK /\ BackupsAreOld /\ \A r \in Requests : pc[r] # "locked" => lock # r
  BY DEF Base, LockHeldOnlyToCopy
<1>1. ASSUME NEW r \in Requests, UseInspect(r) PROVE Base'
  BY <1>0, <1>1, MoveKeeps, SameBackups DEF UseInspect, Start, TypeOK, bounds, Steps, Copying, Ops
<1>2. ASSUME NEW r \in Requests, UseWrite(r) PROVE Base'
  <2>1. db' \in Contents /\ writes' \in Nat
    BY <1>0, <1>2 DEF UseWrite, TypeOK, Contents
  <2> QED BY <1>0, <1>2, <2>1, ReturnKeeps DEF UseWrite, TypeOK
<1>o. ASSUME NEW r \in Requests, OpenTmp(r) PROVE Base'
  <2>1. file' \in [Requests -> Files] /\ tmp' \in Markers \cup Unreadable
    BY <1>0, <1>o DEF OpenTmp, TypeOK, Files, Unreadable
  <2> QED
    BY <1>0, <1>o, <2>1, MoveKeeps, SameBackups
    DEF OpenTmp, TypeOK, bounds, locals, Steps, Copying
<1>3. ASSUME NEW r \in Requests, WriteTmp(r) PROVE Base'
  <2>1. file' \in [Requests -> Files]
    BY <1>0, <1>3 DEF WriteTmp, TypeOK, Files
  <2>2. Written(r, tmp) \subseteq Markers \cup Unreadable
        /\ Written(r, marker) \subseteq Markers \cup Unreadable
    BY <1>0 DEF TypeOK, Written, Unreadable
  <2>3. tmp' \in Markers \cup Unreadable /\ marker' \in Markers \cup Unreadable
    BY <1>0, <1>3, <2>2 DEF WriteTmp, TypeOK
  <2> QED
    BY <1>0, <1>3, <2>1, <2>3, MoveKeeps, SameBackups
    DEF WriteTmp, TypeOK, bounds, locals, Steps, Copying
<1>4. ASSUME NEW r \in Requests, ReplaceMarker(r) PROVE Base'
  <2>1. file' \in [Requests -> Files]
    BY <1>0, <1>4 DEF ReplaceMarker, TypeOK, Files
  <2>2. tmp' \in Markers \cup Unreadable /\ marker' \in Markers \cup Unreadable
    BY <1>0, <1>4 DEF ReplaceMarker, TypeOK, Unreadable
  <2> QED BY <1>0, <1>4, <2>1, <2>2, ReturnKeeps DEF ReplaceMarker, TypeOK, bounds
<1>f. ASSUME NEW r \in Requests, FileFails(r) PROVE Base'
  <2>1. file' \in [Requests -> Files]
    BY <1>0, <1>f DEF FileFails, TypeOK, Files
  <2> QED BY <1>0, <1>f, <2>1, ReturnKeeps DEF FileFails, TypeOK, bounds
<1>5. CASE OldWrite
  <2>1. db' \in Contents /\ writes' \in Nat
    BY <1>0, <1>5 DEF OldWrite, TypeOK, Contents, Versions, Old
  <2> QED
    BY <1>5, <2>1 DEF OldWrite, Base, TypeOK, BackupsAreOld, LockHeldOnlyToCopy, CopyHeld,
       locals
<1>6. CASE Tick
  BY <1>6, UpgradeAssumption DEF Tick, Base, TypeOK, BackupsAreOld, LockHeldOnlyToCopy,
     CopyHeld, locals
<1>7. CASE Crash
  <2>1. TypeOK'
    BY <1>0, <1>7, UpgradeAssumption
    DEF Crash, TypeOK, Steps, Files, Ops, FirstName, Names, Old
  <2>2. \A r \in Requests : pc'[r] \in {"idle", "done"}
    BY <1>7 DEF Crash
  <2> QED
    BY <1>0, <1>7, <2>1, <2>2, UpgradeAssumption
    DEF Crash, Base, BackupsAreOld, LockHeldOnlyToCopy, CopyHeld, Copying
<1>8. CASE Restore
  <2>1. db' \in Contents
    BY <1>0, <1>8 DEF Restore, TypeOK, Markers
  <2> QED
    BY <1>8, <2>1 DEF Restore, Base, TypeOK, BackupsAreOld, LockHeldOnlyToCopy, CopyHeld,
       locals
<1> QED BY <1>1, <1>2, <1>o, <1>3, <1>4, <1>f, <1>5, <1>6, <1>7, <1>8 DEF Use, Write

LEMMA BaseStutter == ASSUME Base, UNCHANGED vars PROVE Base'
  BY DEF Base, TypeOK, BackupsAreOld, LockHeldOnlyToCopy, CopyHeld, vars

LEMMA BaseKeeps == Base /\ [Next]_vars => Base'
  BY BasePrepare, BaseApply, BaseOther, BaseStutter DEF Next

\* Every behaviour keeps the base invariant.
THEOREM BaseInvariance == Spec => []Base
  BY BaseInit, BaseKeeps, PTL DEF Spec

\* Every variable keeps its type.
THEOREM UpgradeTypeCorrect == Spec => []TypeOK
<1>1. Base => TypeOK BY DEF Base
<1> QED BY <1>1, BaseInvariance, PTL

\* No copy of a migrated store is ever filed as a backup of an old one.
THEOREM OldBackups == Spec => []BackupsAreOld
<1>1. Base => BackupsAreOld BY DEF Base
<1> QED BY <1>1, BaseInvariance, PTL

\* The exclusive lock never survives the request that took it.
THEOREM LockReleased == Spec => []LockHeldOnlyToCopy
<1>1. Base => LockHeldOnlyToCopy BY DEF Base
<1> QED BY <1>1, BaseInvariance, PTL

-----------------------------------------------------------------------------
(* While the store is offline during requests. *)

Same(s) == /\ pc'[s] = pc[s] /\ name'[s] = name[s] /\ copy'[s] = copy[s]
           /\ mine'[s] = mine[s] /\ migrating'[s] = migrating[s]

\* What a step of one request may do while others are running: the old content, or the
\* one migrated from, stays the same, and whatever was recorded stays recorded.
SafeStep ==
  /\ IF db'.version \in Old THEN db' = Current ELSE from' = Current
  /\ \A n \in Names : backups[n] = Current => backups'[n] = Current
  /\ marker' = marker \/ marker' \in Unreadable \/ backups'[marker'.backup] = Current
  /\ tmp' = tmp \/ tmp' \in Unreadable \/ backups'[tmp'.backup] = Current
  /\ db.version \notin Old => db'.version \notin Old
  /\ db.version = "v3" => db'.version = "v3"

GlobalInv ==
  /\ from # NoContent => db.version = "v3"
  /\ marker \notin Unreadable => marker.sha.version \in Old
  /\ tmp \notin Unreadable => tmp.sha.version \in Old
  /\ RollbackPossible

LEMMA SameCurrent == SafeStep => Current' = Current
  BY DEF SafeStep, Current

LEMMA SavedKept == SafeStep /\ Current \in Saved => (Current \in Saved)'
<1> SUFFICES ASSUME SafeStep, Current \in Saved PROVE (Current \in Saved)'
  OBVIOUS
<1>1. PICK n \in Names : backups[n] = Current /\ Current # NoContent
  BY DEF Saved
<1>2. backups'[n] = Current /\ Current' = Current
  BY <1>1, SameCurrent DEF SafeStep
<1> HIDE DEF Current
<1> QED BY <1>1, <1>2 DEF Saved

LEMMA OtherKept ==
  ASSUME Base, Base', NEW s \in Requests, RequestInv(s), SafeStep, Same(s)
  PROVE  RequestInv(s)'
<1>1. Current' = Current
  BY SameCurrent
<1>2. /\ mine[s] \in Markers \cup {NoMarker} /\ name[s] \in Names
      /\ marker \in Markers \cup Unreadable /\ tmp \in Markers \cup Unreadable
  BY DEF Base, TypeOK
<1>3. /\ mine[s] # NoMarker => mine[s].backup \in Names
      /\ marker \notin Unreadable => marker.backup \in Names
      /\ tmp \notin Unreadable => tmp.backup \in Names
  BY <1>2 DEF Markers
<1>4. mine[s] # NoMarker /\ Records(mine[s]) => Records(mine[s])'
  BY <1>1, <1>3 DEF SafeStep, Same, Records
<1>5. marker' = marker \/ marker' \in Unreadable \/ Records(marker)'
  BY <1>1 DEF SafeStep, Records
<1>6. marker \notin Unreadable /\ Records(marker) /\ marker' = marker => Records(marker)'
  BY <1>1, <1>3 DEF SafeStep, Records
<1>7. tmp' = tmp \/ tmp' \in Unreadable \/ Records(tmp)'
  BY <1>1 DEF SafeStep, Records
<1>8. tmp \notin Unreadable /\ Records(tmp) /\ tmp' = tmp => Records(tmp)'
  BY <1>1, <1>3 DEF SafeStep, Records
<1>9. backups[name[s]] = Current => backups'[name'[s]] = Current'
  BY <1>1, <1>2 DEF SafeStep, Same
<1>10. Current \in Saved => (Current \in Saved)'
  BY SavedKept
<1>11. UNCHANGED Unreadable
  BY DEF Unreadable
<1> HIDE DEF Records, Current, Saved, Unreadable
<1> QED
  BY <1>1, <1>2, <1>4, <1>5, <1>6, <1>7, <1>8, <1>9, <1>10, <1>11
  DEF RequestInv, Same, SafeStep

LEMMA Combine ==
  ASSUME Base, Base', UpgradeInv, NEW r \in Requests, SafeStep, GlobalInv',
         \A s \in Requests \ {r} : Same(s), RequestInv(r)'
  PROVE  UpgradeInv'
  BY OtherKept DEF UpgradeInv, GlobalInv

\* A step that leaves the files alone.
LEMMA FilesKept ==
  ASSUME UpgradeInv, UNCHANGED <<db, backups, marker, tmp, from>>
  PROVE  SafeStep /\ GlobalInv'
<1>1. db' = db /\ backups' = backups /\ marker' = marker /\ tmp' = tmp /\ from' = from
  OBVIOUS
<1>2. IF db.version \in Old THEN db = Current ELSE from = Current
  BY DEF Current
<1>3. SafeStep
  BY <1>1, <1>2 DEF SafeStep
<1>4. GlobalInv'
  BY <1>1 DEF UpgradeInv, GlobalInv, RollbackPossible, Saved
<1> QED BY <1>3, <1>4

\* A request that returns, leaving the files alone.
LEMMA Returned ==
  ASSUME Base, NEW r \in Requests, Return(r)
  PROVE  (\A s \in Requests \ {r} : Same(s)) /\ RequestInv(r)'
<1>1. pc'[r] = "done" /\ mine'[r] = NoMarker
  BY DEF Base, TypeOK, Return, Goto
<1>2. RequestInv(r)'
  BY <1>1 DEF RequestInv
<1>3. \A s \in Requests \ {r} : Same(s)
  BY DEF Base, TypeOK, Return, Goto, Same
<1> QED BY <1>2, <1>3

\* A request that goes on to another step and changes no local but, at most, its own.
LEMMA Moved ==
  ASSUME Base, NEW r \in Requests, NEW step, Goto(r, step),
         \A s \in Requests \ {r} :
           /\ name'[s] = name[s] /\ copy'[s] = copy[s]
           /\ mine'[s] = mine[s] /\ migrating'[s] = migrating[s]
  PROVE  /\ \A s \in Requests \ {r} : Same(s)
         /\ pc'[r] = step
  BY DEF Base, TypeOK, Goto, Same

\* The way back stays open in a safe step that leaves the store alone.
LEMMA StillPossible ==
  ASSUME Base, UpgradeInv, SafeStep, UNCHANGED <<db, from>>
  PROVE  RollbackPossible'
<1>1. SUFFICES ASSUME from # NoContent PROVE RollbackPossible'
  BY DEF RollbackPossible
<1>2. from = Current /\ Current' = Current
  BY <1>1, SameCurrent DEF Current, UpgradeInv, Old
<1>3. Current \in Saved /\ (marker \notin Unreadable => backups[marker.backup] = Current)
  BY <1>1, <1>2 DEF UpgradeInv, RollbackPossible
<1>4. (Current \in Saved)'
  BY <1>3, SavedKept
<1>5. marker \notin Unreadable => marker.backup \in Names
  BY DEF Base, TypeOK, Markers
<1>6. marker' \notin Unreadable => backups'[marker'.backup] = Current
  BY <1>3, <1>5 DEF SafeStep
<1>7. from' = Current'
  BY <1>2
<1> HIDE DEF Current
<1> QED BY <1>2, <1>4, <1>6, <1>7 DEF RollbackPossible, Unreadable

LEMMA PrepareSafe ==
  ASSUME Base, Base', UpgradeInv, NEW r \in Requests, Prepare(r) PROVE UpgradeInv'
<1>0. /\ db \in Contents /\ pc \in [Requests -> Steps] /\ name \in [Requests -> Names]
      /\ copy \in [Requests -> Contents \cup {NoContent}]
      /\ mine \in [Requests -> Markers \cup {NoMarker}]
      /\ backups \in [Names -> Contents \cup {NoContent}]
      /\ migrating \in [Requests -> BOOLEAN]
      /\ marker \in Markers \cup Unreadable /\ tmp \in Markers \cup Unreadable
      /\ name[r].version \in Old
      /\ RequestInv(r)
  BY DEF Base, TypeOK, Names, UpgradeInv
<1>1. CASE PrepareInspect(r)
  <2>1. SafeStep /\ GlobalInv'
    BY <1>1, FilesKept DEF PrepareInspect
  <2>2. (\A s \in Requests \ {r} : Same(s)) /\ pc'[r] = "open"
    BY <1>0, <1>1, Moved DEF PrepareInspect
  <2>3. RequestInv(r)'
    BY <1>0, <1>1, <2>2 DEF RequestInv, PrepareInspect
  <2> QED BY <2>1, <2>2, <2>3, Combine
<1>c. CASE PrepareCheckpoint(r)
  <2>1. SafeStep /\ GlobalInv'
    BY <1>c, FilesKept DEF PrepareCheckpoint
  <2>2. CASE Return(r)
    BY <2>1, <2>2, Returned, Combine
  <2>3. CASE ~Return(r)
    <3>1. /\ copy' = [copy EXCEPT ![r] = db] /\ UNCHANGED <<db, from, mine, name, migrating>>
          /\ Goto(r, "checkpointed")
      BY <1>c, <2>3 DEF PrepareCheckpoint
    <3>2. (\A s \in Requests \ {r} : Same(s)) /\ pc'[r] = "checkpointed"
      BY <1>0, <3>1, Moved
    <3>3. RequestInv(r)'
      BY <1>0, <3>1, <3>2, NoContentAssumption DEF RequestInv, Current
    <3> QED BY <2>1, <3>2, <3>3, Combine
  <2> QED BY <2>2, <2>3
<1>2. CASE PrepareLock(r)
  <2>1. SafeStep /\ GlobalInv' /\ UNCHANGED <<db, from>>
    BY <1>2, FilesKept DEF PrepareLock
  <2>2. CASE Return(r)
    BY <2>1, <2>2, Returned, Combine
  <2>3. CASE ~Return(r)
    <3>1. (\A s \in Requests \ {r} : Same(s)) /\ pc'[r] = "locked"
      BY <1>0, <1>2, <2>3, Moved DEF PrepareLock, locals
    <3>2. RequestInv(r)'
      BY <1>0, <1>2, <2>1, <2>3, <3>1 DEF RequestInv, PrepareLock, locals, Current
    <3> QED BY <2>1, <3>1, <3>2, Combine
  <2> QED BY <2>2, <2>3
<1>3. CASE PrepareCopy(r)
  <2>1. SafeStep /\ GlobalInv'
    BY <1>3, FilesKept DEF PrepareCopy
  <2>2. (\A s \in Requests \ {r} : Same(s)) /\ pc'[r] = "copied"
    BY <1>0, <1>3, Moved DEF PrepareCopy
  <2>3. copy'[r] \in {db, copy[r]} /\ UNCHANGED <<db, from, mine>> /\ pc[r] = "locked"
    BY <1>0, <1>3 DEF PrepareCopy
  <2>4. RequestInv(r)'
    BY <1>0, <2>2, <2>3, NoContentAssumption DEF RequestInv, Current
  <2> QED BY <2>1, <2>2, <2>4, Combine
<1>4. CASE PrepareFails(r)
  BY <1>4, FilesKept, Returned, Combine DEF PrepareFails
<1>5. CASE PreparePlace(r)
  <2>1. CASE copy[r].version # name[r].version
    BY <1>5, <2>1, FilesKept, Returned, Combine DEF PreparePlace
  <2>2. CASE copy[r].version = name[r].version
    <3>1. copy[r] # NoContent /\ copy[r].version \in Old /\ copy[r] = Current
      BY <1>0, <1>5, <2>2 DEF RequestInv, PreparePlace
    <3>2. backups' = [backups EXCEPT ![name[r]] = Current]
      BY <1>5, <2>2, <3>1 DEF PreparePlace
    <3>3. UNCHANGED <<db, marker, tmp, from, name, copy, mine, migrating>>
      BY <1>5, <2>2 DEF PreparePlace, locals
    <3>4. (\A s \in Requests \ {r} : Same(s)) /\ pc'[r] = "placed"
      BY <1>0, <1>5, <2>2, <3>3, Moved DEF PreparePlace
    <3>5. IF db.version \in Old THEN db = Current ELSE from = Current
      BY DEF Current
    <3>6. \A n \in Names : backups[n] = Current => backups'[n] = Current
      BY <1>0, <3>2
    <3>7. SafeStep
      BY <3>3, <3>5, <3>6 DEF SafeStep
    <3>8. GlobalInv'
      BY <1>0, <3>3, <3>7, StillPossible DEF UpgradeInv, GlobalInv
    <3>10. Current' = Current
      BY <3>7, SameCurrent
    <3>11. backups'[name'[r]] = Current'
      BY <1>0, <3>2, <3>3, <3>10
    <3> HIDE DEF Current
    <3>12. RequestInv(r)'
      BY <1>0, <3>1, <3>3, <3>4, <3>10, <3>11 DEF RequestInv
    <3> QED BY <3>4, <3>7, <3>8, <3>12, Combine
  <2> QED BY <2>1, <2>2
<1>6. CASE PrepareMarker(r)
  <2>1. SafeStep /\ GlobalInv'
    BY <1>6, FilesKept DEF PrepareMarker
  <2>2. (\A s \in Requests \ {r} : Same(s)) /\ pc'[r] = "tmp"
    BY <1>0, <1>6, Moved DEF PrepareMarker
  <2>3. /\ copy[r] \in Contents /\ copy[r].version \in Old
        /\ backups[name[r]] = Current
    BY <1>0, <1>6 DEF RequestInv, PrepareMarker
  <2>4. mine'[r] = [sha |-> copy[r], size |-> db, backup |-> name[r], completed |-> FALSE]
    BY <1>0, <1>6 DEF PrepareMarker
  <2>5. mine'[r] \in Markers
    BY <1>0, <2>3, <2>4 DEF Markers
  <2>6. mine'[r] # NoMarker /\ Records(mine[r])'
    <3>1. Current' = Current /\ backups' = backups
      BY <1>6, <2>1, SameCurrent DEF PrepareMarker
    <3>2. mine'[r] # NoMarker
      BY <2>5, NoContentAssumption DEF Unreadable
    <3>3. mine'[r].backup = name[r]
      BY <2>4
    <3> QED BY <2>3, <3>1, <3>2, <3>3 DEF Records
  <2>7. RequestInv(r)'
    BY <2>2, <2>3, <2>4, <2>6 DEF RequestInv
  <2> QED BY <2>1, <2>2, <2>7, Combine
<1> QED BY <1>1, <1>c, <1>2, <1>3, <1>4, <1>5, <1>6 DEF Prepare

\* A step that leaves the marker, the temporary marker and the backups alone and the old
\* content where it was.
LEMMA ContentKept ==
  ASSUME Base, UpgradeInv, UNCHANGED <<backups, marker, tmp>>,
         IF db'.version \in Old THEN db' = Current ELSE from' = Current,
         db.version \notin Old => db'.version \notin Old,
         db.version = "v3" => db'.version = "v3",
         from' # NoContent =>
           /\ db'.version = "v3"
           /\ Current \in Saved /\ (marker \notin Unreadable => Records(marker))
  PROVE  SafeStep /\ GlobalInv'
<1>1. SafeStep
  BY DEF SafeStep
<1>2. from' # NoContent => from' = Current
  BY DEF Old
<1>3. GlobalInv'
  BY <1>2 DEF UpgradeInv, GlobalInv, RollbackPossible, Records, Saved
<1> QED BY <1>1, <1>3

LEMMA ApplySafe ==
  ASSUME Base, Base', UpgradeInv, NEW r \in Requests, Apply(r) PROVE UpgradeInv'
<1>0. /\ db \in Contents /\ pc \in [Requests -> Steps]
      /\ mine \in [Requests -> Markers \cup {NoMarker}]
      /\ migrating \in [Requests -> BOOLEAN]
      /\ marker \in Markers \cup Unreadable /\ tmp \in Markers \cup Unreadable
      /\ RequestInv(r)
  BY DEF Base, TypeOK, UpgradeInv
<1>a. from # NoContent => /\ Current \in Saved /\ db.version = "v3"
                          /\ marker \notin Unreadable => Records(marker)
  BY DEF UpgradeInv, RollbackPossible, Records, Current, Old
<1>b. IF db.version \in Old THEN db = Current ELSE from = Current
  BY DEF Current
<1>1. CASE ApplyStart(r)
  <2>1. SafeStep /\ GlobalInv'
    BY <1>1, FilesKept DEF ApplyStart
  <2>2. (\A s \in Requests \ {r} : Same(s)) /\ pc'[r] = "verify"
    BY <1>0, <1>1, Moved DEF ApplyStart
  <2>3. RequestInv(r)'
    BY <1>0, <1>1, <2>2 DEF RequestInv, ApplyStart
  <2> QED BY <2>1, <2>2, <2>3, Combine
<1>m. CASE ReadMarker(r)
  <2>1. SafeStep /\ GlobalInv' /\ UNCHANGED marker
    BY <1>m, FilesKept DEF ReadMarker
  <2>2. CASE marker \in Unreadable
    BY <1>m, <2>1, <2>2, Returned, Combine DEF ReadMarker
  <2>3. CASE marker \notin Unreadable
    <3>1. /\ mine' = [mine EXCEPT ![r] = marker]
          /\ UNCHANGED <<op, name, copy, migrating>>
          /\ Goto(r, IF pc[r] = "verify" THEN "compare" ELSE "recompare")
          /\ pc[r] \in {"verify", "reverify"}
      BY <1>m, <2>3 DEF ReadMarker
    <3>2. /\ \A s \in Requests \ {r} : Same(s)
          /\ pc'[r] = IF pc[r] = "verify" THEN "compare" ELSE "recompare"
      BY <1>0, <3>1, Moved
    <3>3. mine'[r] = marker /\ marker.sha.version \in Old /\ marker # NoMarker
      BY <1>0, <2>3, <3>1 DEF UpgradeInv, Unreadable
    <3>4. pc[r] = "reverify" => migrating'[r]
      BY <1>0, <3>1 DEF RequestInv
    <3>5. RequestInv(r)'
      BY <2>1, <3>1, <3>2, <3>3, <3>4 DEF RequestInv
    <3> QED BY <2>1, <3>2, <3>5, Combine
  <2> QED BY <2>2, <2>3
<1>2. CASE VerifySource(r)
  <2>1. SafeStep /\ GlobalInv' /\ UNCHANGED <<db, from, backups, marker>>
    BY <1>2, FilesKept DEF VerifySource
  <2>2. CASE Return(r)
    BY <2>1, <2>2, Returned, Combine
  <2>3. CASE ~Return(r)
    <3>1. /\ mine[r].sha = db
          /\ UNCHANGED locals
          /\ Goto(r, IF pc[r] = "compare" THEN "backup" ELSE "rebackup")
          /\ pc[r] \in {"compare", "recompare"}
      BY <1>2, <2>3 DEF VerifySource, Matches
    <3>2. /\ \A s \in Requests \ {r} : Same(s)
          /\ pc'[r] = IF pc[r] = "compare" THEN "backup" ELSE "rebackup"
      BY <1>0, <3>1, Moved DEF locals
    <3>3. /\ mine[r] # NoMarker /\ mine[r].sha.version \in Old
          /\ marker \in Unreadable \cup {mine[r]} \/ Records(marker)
      BY <3>1, <1>0 DEF RequestInv
    <3>4. mine[r].sha = Current' /\ Current' = Current
      BY <2>1, <3>1, <3>3, <1>b, SameCurrent
    <3>5. marker' \in Unreadable \cup {mine'[r]} \/ Records(marker)'
      BY <2>1, <3>1, <3>3, <3>4 DEF Records, locals
    <3>6. pc[r] = "recompare" => migrating'[r]
      BY <1>0, <3>1 DEF RequestInv, locals
    <3> HIDE DEF Current, Records
    <3>7. RequestInv(r)'
      BY <2>1, <3>1, <3>2, <3>3, <3>4, <3>5, <3>6 DEF RequestInv, locals
    <3> QED BY <2>1, <3>2, <3>7, Combine
  <2> QED BY <2>2, <2>3
<1>3. CASE VerifyBackup(r)
  <2>1. SafeStep /\ GlobalInv' /\ UNCHANGED <<db, from, backups, marker>>
    BY <1>3, FilesKept DEF VerifyBackup
  <2>2. CASE Return(r)
    BY <2>1, <2>2, Returned, Combine
  <2>3. CASE ~Return(r)
    <3>1. /\ backups[mine[r].backup] = mine[r].sha
          /\ UNCHANGED locals
          /\ Goto(r, IF pc[r] = "backup" THEN "inspect" ELSE "core")
          /\ pc[r] \in {"backup", "rebackup"}
      BY <1>3, <2>3 DEF VerifyBackup
    <3>2. /\ \A s \in Requests \ {r} : Same(s)
          /\ pc'[r] = IF pc[r] = "backup" THEN "inspect" ELSE "core"
      BY <1>0, <3>1, Moved DEF locals
    <3>3. /\ mine[r] # NoMarker /\ mine[r].sha = Current
          /\ marker \in Unreadable \cup {mine[r]} \/ Records(marker)
      BY <1>0, <3>1 DEF RequestInv
    <3>4. Records(mine[r])
      BY <3>1, <3>3 DEF Records
    <3>5. mine[r] \in Markers
      BY <1>0, <3>3
    <3>6. Current \in Saved
      BY <3>1, <3>3, <3>5, NoContentAssumption DEF Saved, Markers
    <3>7. /\ (Current \in Saved)'
          /\ marker' \notin Unreadable => Records(marker)'
      BY <2>1, <3>3, <3>4, <3>6, SameCurrent, SavedKept DEF Records
    <3>8. pc[r] = "rebackup" => migrating'[r]
      BY <1>0, <3>1 DEF RequestInv, locals
    <3>9. mine'[r] # NoMarker => mine'[r].sha.version \in Old
      BY <1>0, <3>1 DEF RequestInv, locals
    <3>10. RequestInv(r)'
      BY <3>1, <3>2, <3>7, <3>8, <3>9 DEF RequestInv, Unreadable
    <3> QED BY <2>1, <3>2, <3>10, Combine
  <2> QED BY <2>2, <2>3
<1>4. CASE InitInspect(r)
  <2>1. SafeStep /\ GlobalInv' /\ UNCHANGED <<db, mine>>
    BY <1>4, FilesKept DEF InitInspect
  <2>2. /\ \A s \in Requests \ {r} : Same(s)
        /\ pc'[r] = IF db.version \in Old THEN "reverify" ELSE "core"
    BY <1>0, <1>4, Moved DEF InitInspect
  <2>3. migrating'[r] = (db.version \in Old)
    BY <1>0, <1>4 DEF InitInspect
  <2>4. RequestInv(r)'
    BY <1>0, <2>1, <2>2, <2>3 DEF RequestInv
  <2> QED BY <2>1, <2>2, <2>4, Combine
<1>5. CASE CoreInit(r)
  <2>1. /\ db'.version = "v3"
        /\ from' = IF db.version \in Old THEN db ELSE from
        /\ UNCHANGED <<backups, marker, tmp>>
    BY <1>0, <1>5 DEF CoreInit, Contents
  <2>2. migrating[r] => Current \in Saved /\ (marker \notin Unreadable => Records(marker))
    BY <1>0, <1>5 DEF CoreInit, RequestInv
  <2>3. db.version \in Old => migrating[r]
    BY <1>0, <1>5 DEF CoreInit, RequestInv
  <2>4. from' = Current
    BY <2>1, <1>b
  <2>5. SafeStep /\ GlobalInv'
    <3>1. db'.version \notin Old
      BY <2>1 DEF Old
    <3>2. from' # NoContent => Current \in Saved /\ (marker \notin Unreadable => Records(marker))
      BY <1>a, <2>1, <2>2, <2>3
    <3> HIDE DEF Current
    <3> QED BY <2>1, <2>4, <3>1, <3>2, ContentKept
  <2>6. CASE Return(r)
    BY <2>5, <2>6, Returned, Combine
  <2>7. CASE ~Return(r)
    <3>1. UNCHANGED locals /\ Goto(r, "final") /\ pc[r] = "core"
      BY <1>5, <2>7 DEF CoreInit
    <3>2. (\A s \in Requests \ {r} : Same(s)) /\ pc'[r] = "final"
      BY <1>0, <3>1, Moved DEF locals
    <3>3. migrating'[r] => /\ (Current \in Saved)'
                           /\ marker' \notin Unreadable => Records(marker)'
      BY <2>1, <2>2, <2>5, <3>1, SameCurrent, SavedKept DEF Records, locals
    <3>4. RequestInv(r)'
      BY <1>0, <3>1, <3>2, <3>3 DEF RequestInv, locals, Unreadable
    <3> QED BY <2>5, <3>2, <3>4, Combine
  <2> QED BY <2>6, <2>7
<1>6. CASE CoreInitNoop(r)
  <2>1. SafeStep /\ GlobalInv' /\ UNCHANGED <<db, from, backups, marker>>
    BY <1>6, FilesKept DEF CoreInitNoop
  <2>2. (\A s \in Requests \ {r} : Same(s)) /\ pc'[r] = "final"
    BY <1>0, <1>6, Moved DEF CoreInitNoop, locals
  <2>3. migrating'[r] => /\ (Current \in Saved)'
                         /\ marker' \notin Unreadable => Records(marker)'
    BY <1>0, <1>6, <2>1, SameCurrent, SavedKept
    DEF RequestInv, CoreInitNoop, Records, locals
  <2>4. RequestInv(r)'
    BY <1>0, <1>6, <2>2, <2>3 DEF RequestInv, CoreInitNoop, locals, Unreadable
  <2> QED BY <2>1, <2>2, <2>4, Combine
<1>7. CASE CoreInitFails(r)
  BY <1>7, FilesKept, Returned, Combine DEF CoreInitFails
<1>8. CASE InitFinal(r)
  <2>1. SafeStep /\ GlobalInv' /\ UNCHANGED <<db, from, backups, marker>>
    BY <1>8, FilesKept DEF InitFinal
  <2>2. CASE Return(r)
    BY <2>1, <2>2, Returned, Combine
  <2>3. CASE ~Return(r)
    <3>1. UNCHANGED locals /\ Goto(r, "mark") /\ pc[r] = "final" /\ migrating[r]
      BY <1>8, <2>3 DEF InitFinal
    <3>2. (\A s \in Requests \ {r} : Same(s)) /\ pc'[r] = "mark"
      BY <1>0, <3>1, Moved DEF locals
    <3>3. /\ (Current \in Saved)'
          /\ marker' \notin Unreadable => Records(marker)'
      BY <1>0, <2>1, <3>1, SameCurrent, SavedKept DEF RequestInv, Records
    <3>4. RequestInv(r)'
      BY <1>0, <3>1, <3>2, <3>3 DEF RequestInv, locals, Unreadable
    <3> QED BY <2>1, <3>2, <3>4, Combine
  <2> QED BY <2>2, <2>3
<1>9. CASE MarkCompleted(r)
  <2>1. SafeStep /\ GlobalInv' /\ UNCHANGED <<db, from, backups, marker>>
    BY <1>9, FilesKept DEF MarkCompleted
  <2>2. CASE marker \in Unreadable
    BY <1>9, <2>1, <2>2, Returned, Combine DEF MarkCompleted
  <2>3. CASE marker \notin Unreadable
    <3>1. /\ mine'[r] = [marker EXCEPT !.completed = TRUE]
          /\ pc[r] = "mark"
      BY <1>0, <1>9, <2>3 DEF MarkCompleted
    <3>2. (\A s \in Requests \ {r} : Same(s)) /\ pc'[r] = "tmp"
      BY <1>0, <1>9, <2>3, Moved DEF MarkCompleted
    <3>3. Records(marker)
      BY <1>0, <2>3, <3>1 DEF RequestInv
    <3>4. mine'[r] \in Markers /\ mine'[r].backup = marker.backup
          /\ mine'[r].sha = marker.sha
      BY <1>0, <2>3, <3>1 DEF Markers
    <3>5. mine'[r] # NoMarker /\ Records(mine[r])'
      BY <2>1, <3>3, <3>4, SameCurrent, NoContentAssumption DEF Records, Unreadable
    <3>6. RequestInv(r)'
      BY <2>3, <3>2, <3>4, <3>5 DEF RequestInv, UpgradeInv
    <3> QED BY <2>1, <3>2, <3>6, Combine
  <2> QED BY <2>2, <2>3
<1> QED BY <1>1, <1>m, <1>2, <1>3, <1>4, <1>5, <1>6, <1>7, <1>8, <1>9 DEF Apply

\* Between requests only the marker a request holds could matter.
LEMMA QuietSafe ==
  ASSUME UpgradeInv, \A s \in Requests : pc'[s] \in {"idle", "done"},
         \A s \in Requests : mine'[s] = mine[s] \/ mine'[s] = NoMarker,
         GlobalInv'
  PROVE  UpgradeInv'
<1>1. ASSUME NEW s \in Requests PROVE RequestInv(s)'
  <2>1. mine'[s] # NoMarker => mine'[s].sha.version \in Old
    BY DEF UpgradeInv, RequestInv
  <2>2. pc'[s] \in {"idle", "done"}
    OBVIOUS
  <2> QED BY <2>1, <2>2 DEF RequestInv
<1> QED BY <1>1 DEF UpgradeInv, GlobalInv

LEMMA RequestSafe ==
  ASSUME Base, Base', UpgradeInv, NEW r \in Requests,
         Use(r) \/ Write(r)
  PROVE  UpgradeInv'
<1>0. /\ db \in Contents /\ pc \in [Requests -> Steps]
      /\ mine \in [Requests -> Markers \cup {NoMarker}]
      /\ marker \in Markers \cup Unreadable /\ tmp \in Markers \cup Unreadable
      /\ RequestInv(r)
  BY DEF Base, TypeOK, UpgradeInv
<1>a. from # NoContent => /\ Current \in Saved /\ db.version = "v3"
                          /\ marker \notin Unreadable => Records(marker)
  BY DEF UpgradeInv, RollbackPossible, Records, Current, Old
<1>b. IF db.version \in Old THEN db = Current ELSE from = Current
  BY DEF Current
<1>1. CASE UseInspect(r)
  <2>1. SafeStep /\ GlobalInv' /\ UNCHANGED <<db, mine>>
    BY <1>1, FilesKept DEF UseInspect
  <2>2. /\ \A s \in Requests \ {r} : Same(s)
        /\ pc'[r] = IF db.version = "v3" THEN "write" ELSE "inspect"
    BY <1>0, <1>1, Moved DEF UseInspect
  <2>3. RequestInv(r)'
    BY <1>0, <2>1, <2>2 DEF RequestInv
  <2> QED BY <2>1, <2>2, <2>3, Combine
<1>2. CASE UseWrite(r)
  <2>1. db.version = "v3" /\ db'.version = "v3" /\ Return(r)
    BY <1>0, <1>2 DEF UseWrite, RequestInv, Contents
  <2>2. UNCHANGED <<backups, marker, tmp, from>>
    BY <1>2 DEF UseWrite
  <2>3. SafeStep /\ GlobalInv'
    <3>1. db'.version \notin Old /\ db.version \notin Old /\ from' = Current
      BY <1>b, <2>1, <2>2 DEF Old
    <3>2. from' # NoContent => Current \in Saved /\ (marker \notin Unreadable => Records(marker))
      BY <1>a, <2>2
    <3> HIDE DEF Current
    <3> QED BY <2>1, <2>2, <3>1, <3>2, ContentKept
  <2> QED BY <2>1, <2>3, Returned, Combine
<1>o. CASE OpenTmp(r)
  <2>1. /\ UNCHANGED <<db, backups, marker, from, mine>> /\ tmp' \in Unreadable
        /\ pc[r] = "tmp"
    BY <1>o DEF OpenTmp, locals, Unreadable
  <2>2. SafeStep
    BY <1>b, <2>1 DEF SafeStep
  <2>3. GlobalInv'
    BY <2>1, <2>2, StillPossible DEF UpgradeInv, GlobalInv, Unreadable
  <2>4. (\A s \in Requests \ {r} : Same(s)) /\ pc'[r] = "writing"
    BY <1>0, <1>o, Moved DEF OpenTmp, locals
  <2>5. mine'[r] # NoMarker /\ Records(mine[r])'
    BY <1>0, <2>1, <2>2, SameCurrent DEF RequestInv, Records
  <2>6. RequestInv(r)'
    BY <1>0, <2>1, <2>4, <2>5 DEF RequestInv, Unreadable
  <2> QED BY <2>2, <2>3, <2>4, <2>6, Combine
<1>3. CASE WriteTmp(r)
  <2>1. mine[r] # NoMarker /\ Records(mine[r]) /\ mine[r].sha.version \in Old
    BY <1>0, <1>3 DEF WriteTmp, RequestInv
  <2>2. UNCHANGED <<db, backups, from, mine>>
    BY <1>3 DEF WriteTmp, locals
  <2>3. /\ Written(r, tmp) \subseteq {mine[r]} \cup Unreadable
        /\ Written(r, marker) \subseteq {mine[r]} \cup Unreadable
    BY <1>0 DEF Written, Unreadable
  <2>4. /\ tmp' \in {tmp, mine[r]} \cup Unreadable
        /\ marker' \in {marker, mine[r]} \cup Unreadable
    BY <1>3, <2>3 DEF WriteTmp
  <2>5. SafeStep
    BY <1>b, <2>1, <2>2, <2>4 DEF SafeStep, Records
  <2>6. GlobalInv'
    BY <2>1, <2>2, <2>4, <2>5, StillPossible DEF UpgradeInv, GlobalInv, Unreadable, SafeStep
  <2>7. (\A s \in Requests \ {r} : Same(s)) /\ pc'[r] = "replace"
    BY <1>0, <1>3, Moved DEF WriteTmp, locals
  <2>8. /\ mine'[r] # NoMarker => mine'[r].sha.version \in Old
        /\ tmp' \notin Unreadable => Records(tmp)'
    <3>1. pc[r] = "writing"
      BY <1>3 DEF WriteTmp
    <3>2. tmp \notin Unreadable => Records(tmp)
      BY <1>0, <3>1 DEF RequestInv
    <3> QED BY <2>1, <2>2, <2>4, <2>5, <3>2, SameCurrent DEF Records
  <2>9. RequestInv(r)'
    BY <2>7, <2>8 DEF RequestInv, Unreadable
  <2> QED BY <2>5, <2>6, <2>7, <2>9, Combine
<1>4. CASE ReplaceMarker(r)
  <2>1. Return(r) /\ UNCHANGED <<db, backups, from>> /\ pc[r] = "replace"
    BY <1>4 DEF ReplaceMarker
  <2>2. CASE tmp = NoMarker
    BY <1>4, <2>1, <2>2, FilesKept, Returned, Combine DEF ReplaceMarker
  <2>3. CASE tmp # NoMarker
    <3>1. marker' = tmp /\ tmp' \in Unreadable /\ (tmp \notin Unreadable => Records(tmp))
      BY <1>0, <1>4, <2>1, <2>3 DEF ReplaceMarker, RequestInv, Unreadable
    <3>2. SafeStep
      BY <1>b, <2>1, <3>1 DEF SafeStep, Records
    <3>3. GlobalInv'
      BY <2>1, <3>1, <3>2, StillPossible DEF UpgradeInv, GlobalInv, Unreadable, SafeStep
    <3> QED BY <2>1, <3>2, <3>3, Returned, Combine
  <2> QED BY <2>2, <2>3
<1>5. CASE FileFails(r)
  BY <1>5, FilesKept, Returned, Combine DEF FileFails
<1> QED BY <1>1, <1>2, <1>o, <1>3, <1>4, <1>5 DEF Use, Write

LEMMA EnvironmentSafe ==
  ASSUME Offline, Base, UpgradeInv, OldWrite \/ Tick \/ Crash \/ Restore
  PROVE  UpgradeInv'
<1>0. GlobalInv /\ db \in Contents
  BY DEF UpgradeInv, GlobalInv, Base, TypeOK
<1>1. CASE OldWrite
  <2>1. Quiet /\ from = NoContent
    BY <1>0, <1>1 DEF OldWrite, GlobalInv, Old
  <2>2. UNCHANGED <<marker, tmp, from, pc, mine>>
    BY <1>1 DEF OldWrite, locals
  <2>3. GlobalInv'
    BY <1>0, <2>1, <2>2 DEF GlobalInv, RollbackPossible
  <2> QED BY <2>1, <2>2, <2>3, QuietSafe DEF Quiet
<1>2. CASE Tick
  BY <1>2 DEF Tick, locals, UpgradeInv, RequestInv, RollbackPossible, Records, Current, Saved,
     Unreadable
<1>3. CASE Crash
  <2>1. \A s \in Requests : pc'[s] \in {"idle", "done"} /\ mine'[s] = NoMarker
    BY <1>3 DEF Crash
  <2>2. GlobalInv'
    BY <1>0, <1>3 DEF Crash, GlobalInv, RollbackPossible, Saved
  <2> QED BY <2>1, <2>2, QuietSafe
<1>4. CASE Restore
  <2>1. Quiet /\ from' = NoContent /\ UNCHANGED <<marker, tmp, pc, mine>>
    BY <1>4 DEF Restore, locals
  <2>2. GlobalInv'
    BY <1>0, <2>1 DEF GlobalInv, RollbackPossible
  <2> QED BY <2>1, <2>2, QuietSafe DEF Quiet
<1> QED BY <1>1, <1>2, <1>3, <1>4

LEMMA SafeInit == Init => UpgradeInv
  BY DEF Init, UpgradeInv, RequestInv, RollbackPossible, Unreadable

LEMMA SafeStutter == ASSUME UpgradeInv, UNCHANGED vars PROVE UpgradeInv'
  BY DEF vars, locals, UpgradeInv, RequestInv, RollbackPossible, Records, Current, Saved,
     Unreadable

LEMMA SafeKeeps == Offline /\ Base /\ Base' /\ UpgradeInv /\ [Next]_vars => UpgradeInv'
  BY PrepareSafe, ApplySafe, RequestSafe, EnvironmentSafe, SafeStutter DEF Next

\* While nobody else uses the store, every behaviour keeps the upgrade invariant.
THEOREM OfflineInvariance == ASSUME Offline PROVE Spec => []UpgradeInv
<1>1. Base /\ Base' /\ UpgradeInv /\ [Next]_vars => UpgradeInv'
  BY SafeKeeps
<1> QED BY <1>1, SafeInit, BaseInvariance, PTL DEF Spec

\* From a migrated store there is always a way back to what it held before: the marker
\* names a backup with that content.
THEOREM AlwaysAWayBack == ASSUME Offline PROVE Spec => []RollbackPossible
<1>1. UpgradeInv => RollbackPossible BY DEF UpgradeInv
<1> QED BY <1>1, OfflineInvariance, PTL

-----------------------------------------------------------------------------
(* The upgrade implements the gate. *)

LEMMA GateInitial == Init => Gate!GateInit
  BY DEF Init, Gate!GateInit, Saved

LEMMA GateIdle ==
  ASSUME UNCHANGED <<db, backups, from>> PROVE UNCHANGED Gate!gateVars
  BY DEF Gate!gateVars, Saved

LEMMA PlaceSaves ==
  ASSUME Base, UpgradeInv, UpgradeInv', NEW r \in Requests, PreparePlace(r),
         copy[r].version = name[r].version
  PROVE  Gate!Save
<1>0. /\ name[r] \in Names /\ name[r].version \in Old
      /\ backups \in [Names -> Contents \cup {NoContent}]
  BY DEF Base, TypeOK, Names
<1>1. copy[r] # NoContent /\ copy[r].version \in Old /\ copy[r] = Current
  BY <1>0 DEF PreparePlace, UpgradeInv, RequestInv
<1>2. UNCHANGED <<db, from, marker>> /\ backups' = [backups EXCEPT ![name[r]] = copy[r]]
  BY DEF PreparePlace
<1>3. copy[r] \in Saved' /\ Saved' \subseteq Saved \cup {copy[r]}
  BY <1>0, <1>1, <1>2 DEF Saved
<1>4. copy[r] \in {db, from}
  BY <1>1 DEF Current
<1>5. from # NoContent => from \in Saved'
  BY <1>2 DEF UpgradeInv, RollbackPossible
<1> QED BY <1>1, <1>2, <1>3, <1>4, <1>5 DEF Gate!Save

LEMMA CoreImplements ==
  ASSUME Base, UpgradeInv, NEW r \in Requests, CoreInit(r)
  PROVE  Gate!Upgrade \/ Gate!Create \/ UNCHANGED Gate!gateVars
<1>0. /\ db \in Contents /\ db.version \in Old \cup {"absent", "empty", "v3"}
  BY DEF Base, TypeOK, Contents, Versions, CoreInit
<1>1. /\ db' = [db EXCEPT !.version = "v3"] /\ UNCHANGED backups
      /\ from' = IF db.version \in Old THEN db ELSE from
  BY DEF CoreInit
<1>a. Saved' = Saved
  BY <1>1 DEF Saved
<1>2. CASE db.version \in Old
  <2>1. migrating[r] /\ pc[r] = "core"
    BY <1>2 DEF CoreInit, UpgradeInv, RequestInv
  <2>2. db \in Saved
    BY <1>2, <2>1 DEF UpgradeInv, RequestInv, Current
  <2> QED BY <1>1, <1>2, <1>a, <2>2 DEF Gate!Upgrade
<1>3. CASE db.version \in {"absent", "empty"}
  BY <1>0, <1>1, <1>3, <1>a DEF Gate!Create, Old, Contents
<1>4. CASE db.version = "v3"
  <2>1. db' = db
    BY <1>0, <1>1, <1>4 DEF Contents
  <2> QED BY <1>1, <1>4, <2>1, GateIdle DEF Old
<1> QED BY <1>0, <1>2, <1>3, <1>4

LEMMA StepImplements ==
  ASSUME Base, UpgradeInv, UpgradeInv', [Next]_vars
  PROVE  [Gate!GateNext]_(Gate!gateVars)
<1>0. db \in Contents /\ marker \in Markers \cup Unreadable
  BY DEF Base, TypeOK
<1>1. ASSUME NEW r \in Requests, Prepare(r) PROVE Gate!Save \/ UNCHANGED Gate!gateVars
  <2>1. CASE UNCHANGED backups
    <3>1. UNCHANGED <<db, from>>
      BY <1>1 DEF Prepare, PrepareInspect, PrepareCheckpoint, PrepareLock,
         PrepareCopy, PrepareFails,
         PreparePlace, PrepareMarker
    <3> QED BY <2>1, <3>1, GateIdle
  <2>2. CASE ~UNCHANGED backups
    <3>1. PreparePlace(r) /\ copy[r].version = name[r].version
      BY <1>1, <2>2 DEF Prepare, PrepareInspect, PrepareCheckpoint, PrepareLock,
         PrepareCopy, PrepareFails,
         PreparePlace, PrepareMarker
    <3> QED BY <3>1, PlaceSaves
  <2> QED BY <2>1, <2>2
<1>2. ASSUME NEW r \in Requests, Apply(r)
      PROVE  Gate!Upgrade \/ Gate!Create \/ UNCHANGED Gate!gateVars
  <2>1. CASE CoreInit(r)
    BY <2>1, CoreImplements
  <2>2. CASE ~CoreInit(r)
    <3>1. UNCHANGED <<db, backups, from>>
      BY <1>2, <2>2 DEF Apply, ApplyStart, ReadMarker, VerifySource, VerifyBackup, InitInspect,
         CoreInitNoop, CoreInitFails, InitFinal, MarkCompleted
    <3> QED BY <3>1, GateIdle
  <2> QED BY <2>1, <2>2
<1>3. ASSUME NEW r \in Requests, Use(r) PROVE Gate!Change \/ UNCHANGED Gate!gateVars
  <2>1. CASE UNCHANGED db
    <3>1. UNCHANGED <<backups, from>>
      BY <1>3 DEF Use, UseInspect, UseWrite
    <3> QED BY <2>1, <3>1, GateIdle
  <2>2. CASE ~UNCHANGED db
    <3>1. pc[r] = "write" /\ UNCHANGED <<backups, from>> /\ db'.version = db.version
      BY <1>0, <1>3, <2>2 DEF Use, UseInspect, UseWrite, Contents
    <3>2. db.version = "v3"
      BY <3>1 DEF UpgradeInv, RequestInv
    <3> QED BY <3>1, <3>2 DEF Gate!Change, Saved
  <2> QED BY <2>1, <2>2
<1>4. ASSUME NEW r \in Requests, Write(r) PROVE UNCHANGED Gate!gateVars
  BY <1>4, GateIdle DEF Write, OpenTmp, WriteTmp, ReplaceMarker, FileFails
<1>5. CASE OldWrite
  <2>1. UNCHANGED <<from>> /\ Saved' = Saved
    BY <1>5 DEF OldWrite, Saved
  <2>2. CASE db.version \in Old
    BY <1>5, <2>1, <2>2 DEF OldWrite, Gate!GateNext, Gate!Change
  <2>3. CASE db.version \notin Old
    BY <1>5, <2>1, <2>3 DEF OldWrite, Gate!GateNext, Gate!Create
  <2> QED BY <2>2, <2>3
<1>6. CASE Tick \/ Crash \/ UNCHANGED vars
  BY <1>6, GateIdle DEF Tick, Crash, vars
<1>7. CASE Restore
  <2>1. from # NoContent /\ db' = backups[marker.backup] /\ from' = NoContent
        /\ UNCHANGED backups /\ marker \notin Unreadable
    BY <1>7 DEF Restore
  <2>2. db' = from /\ Saved' = Saved
    BY <2>1 DEF UpgradeInv, RollbackPossible, Saved
  <2> QED BY <2>1, <2>2 DEF Gate!GateNext, Gate!Rollback
<1> QED BY <1>1, <1>2, <1>3, <1>4, <1>5, <1>6, <1>7 DEF Next, Gate!GateNext

\* While nobody else uses the store, every run of the code is one the gate allows: an
\* old store is upgraded only from a content that a backup holds, and kept.
THEOREM GateImplemented == ASSUME Offline PROVE Spec => ImplementsGate
<1>1. Init => Gate!GateInit
  BY GateInitial
<1>2. Base /\ UpgradeInv /\ UpgradeInv' /\ [Next]_vars => [Gate!GateNext]_(Gate!gateVars)
  BY StepImplements
<1> QED BY <1>1, <1>2, BaseInvariance, OfflineInvariance, PTL
        DEF Spec, ImplementsGate, Gate!GateSpec

\* What follows for the store: it becomes schema v3 only from a content that a backup holds
\* and goes on to hold, and what it was migrated from is remembered until a rollback has
\* brought it back, never overwritten by another migration.
THEOREM UpgradedFromBackup ==
  ASSUME Offline
  PROVE  Spec => [][/\ db.version \in Old /\ db'.version = "v3" =>
                         db \in Saved /\ db \in Saved' /\ from' = db
                    /\ from # NoContent /\ from' # from => db' = from /\ from' = NoContent]_vars
<1> DEFINE Upgrades == db.version \in Old /\ db'.version = "v3" =>
                         db \in Saved /\ db \in Saved' /\ from' = db
           Remembers == from # NoContent /\ from' # from => db' = from /\ from' = NoContent
<1>1. Base /\ Base' /\ UpgradeInv /\ UpgradeInv' /\ [Next]_vars => [Upgrades /\ Remembers]_vars
  <2> SUFFICES ASSUME Base, UpgradeInv, UpgradeInv', [Next]_vars PROVE Upgrades /\ Remembers
    OBVIOUS
  <2>0. "v3" \notin Old /\ (from # NoContent => db.version = "v3")
    BY DEF Old, UpgradeInv
  <2>1. [Gate!GateNext]_(Gate!gateVars)
    BY StepImplements
  <2>2. CASE Gate!Upgrade
    BY <2>0, <2>2 DEF Gate!Upgrade
  <2>3. CASE Gate!Rollback
    BY <2>0, <2>3 DEF Gate!Rollback
  <2>4. CASE Gate!Save \/ Gate!Create \/ Gate!Change \/ UNCHANGED Gate!gateVars
    BY <2>0, <2>4 DEF Gate!Save, Gate!Create, Gate!Change, Gate!gateVars, Old
  <2> QED BY <2>1, <2>2, <2>3, <2>4 DEF Gate!GateNext
<1> QED BY <1>1, BaseInvariance, OfflineInvariance, PTL DEF Spec

-----------------------------------------------------------------------------
(* Requests end. *)

\* The steps that a request still has before it, at most: those of prepare and of an
\* application share the writing of the marker.
Left(step) ==
  CASE step = "verify"    -> 13
    [] step = "compare"   -> 12
    [] step = "backup"    -> 11
    [] step = "inspect"   -> 10
    [] step = "reverify"  -> 9
    [] step \in {"recompare", "open"}         -> 8
    [] step \in {"rebackup", "checkpointed"}  -> 7
    [] step \in {"core", "locked"}            -> 6
    [] step \in {"final", "copied"}           -> 5
    [] step \in {"mark", "placed"}            -> 4
    [] step = "tmp"       -> 3
    [] step = "writing"   -> 2
    [] step \in {"replace", "write"}          -> 1
    [] OTHER              -> 0

\* Whatever other requests, old programs and crashes do between its steps, no request
\* verifies, migrates or writes its marker again: init's second verification and the second
\* reading of the marker are steps of their own, and a request that has ended has ended.
THEOREM RequestsAdvance ==
  Spec => [][\A r \in Requests : pc[r] # "idle" =>
               pc'[r] \in {pc[r], "done"} \/ Left(pc'[r]) < Left(pc[r])]_vars
<1> DEFINE Advances(r) == pc[r] # "idle" =>
             pc'[r] \in {pc[r], "done"} \/ Left(pc'[r]) < Left(pc[r])
<1>1. TypeOK /\ [Next]_vars => [\A r \in Requests : Advances(r)]_vars
  <2> SUFFICES ASSUME TypeOK, Next, NEW r \in Requests PROVE Advances(r)
    OBVIOUS
  <2>0. pc \in [Requests -> Steps]
    BY DEF TypeOK
  <2>1. ASSUME NEW s \in Requests, NEW step, Goto(s, step),
               s = r => step = "done" \/ pc[r] = "idle" \/ Left(step) < Left(pc[r])
        PROVE  Advances(r)
    BY <2>0, <2>1 DEF Goto
  <2>2. ASSUME NEW s \in Requests, Return(s) PROVE Advances(r)
    BY <2>1, <2>2 DEF Return
  <2>3. ASSUME NEW s \in Requests, Prepare(s) PROVE Advances(r)
    BY <2>1, <2>2, <2>3 DEF Prepare, PrepareInspect, PrepareCheckpoint, PrepareLock,
       PrepareCopy, PrepareFails, PreparePlace, PrepareMarker, Start, Left
  <2>4. ASSUME NEW s \in Requests, Apply(s) PROVE Advances(r)
    <3>1. CASE ApplyStart(s) \/ ReadMarker(s) \/ VerifySource(s) \/ VerifyBackup(s)
      BY <2>1, <2>2, <3>1 DEF ApplyStart, ReadMarker, VerifySource, VerifyBackup, Start, Left
    <3>2. CASE InitInspect(s) \/ CoreInit(s) \/ CoreInitNoop(s) \/ CoreInitFails(s)
               \/ InitFinal(s) \/ MarkCompleted(s)
      BY <2>1, <2>2, <3>2 DEF InitInspect, CoreInit, CoreInitNoop, CoreInitFails, InitFinal,
         MarkCompleted, Left
    <3> QED BY <2>4, <3>1, <3>2 DEF Apply
  <2>5. ASSUME NEW s \in Requests, Use(s) \/ Write(s) PROVE Advances(r)
    BY <2>1, <2>2, <2>5 DEF Use, UseInspect, UseWrite, Write, OpenTmp, WriteTmp, ReplaceMarker,
       FileFails, Start, Left
  <2>6. CASE OldWrite \/ Tick \/ Restore
    BY <2>6 DEF OldWrite, Tick, Restore
  <2>7. CASE Crash
    BY <2>7 DEF Crash
  <2> QED BY <2>3, <2>4, <2>5, <2>6, <2>7 DEF Next
<1> QED BY <1>1, UpgradeTypeCorrect, PTL DEF Spec

-----------------------------------------------------------------------------
(* The completed marker. *)

\* A marker with the checksum of the old content, and one that is completed only once the
\* store was migrated from it.
Exact(m) == m \in Unreadable \/ m.sha = Current

Truthful(m) ==
  m \in Unreadable \/ ~m.completed \/ restores > 0 \/ (from # NoContent /\ m.sha = from)

MarkerSteps == {"tmp", "writing", "replace", "compare", "recompare", "backup", "rebackup",
                "core", "final", "mark"}

ExactInv(r) ==
  /\ pc[r] \in {"tmp", "writing"} => mine[r].sha = Current /\ Truthful(mine[r])
  /\ pc[r] \in {"writing", "replace"} => Exact(tmp)
  /\ pc[r] \in {"compare", "recompare", "backup", "rebackup"} => marker = mine[r] \/ Exact(marker)
  /\ pc[r] \in {"core", "final", "mark"} /\ migrating[r] => Exact(marker)
  /\ pc[r] = "mark" => db.version = "v3"

MarkersInv == Truthful(marker) /\ Truthful(tmp) /\ \A r \in Requests : ExactInv(r)

\* A step of one request after which the old content is the same, nothing else migrated the
\* store, and whatever files are new are exact.
LEMMA MarkersCombine ==
  ASSUME Base, MarkersInv, NEW r \in Requests, \A s \in Requests \ {r} : Same(s),
         Current' = Current, from' = from \/ from = NoContent, restores' = restores,
         db.version = "v3" => db'.version = "v3",
         marker' = marker \/ (Exact(marker) /\ Truthful(marker))',
         tmp' = tmp \/ (Exact(tmp) /\ Truthful(tmp))',
         ExactInv(r)'
  PROVE  MarkersInv'
<1>1. ASSUME NEW m, Truthful(m) PROVE Truthful(m)'
  BY <1>1 DEF Truthful, Unreadable
<1>2. ASSUME NEW m, Exact(m) PROVE Exact(m)'
  BY <1>2 DEF Exact, Unreadable
<1>3. /\ marker' = marker => Truthful(marker)' /\ (Exact(marker) => Exact(marker)')
      /\ tmp' = tmp => Truthful(tmp)' /\ (Exact(tmp) => Exact(tmp)')
  BY <1>1, <1>2 DEF MarkersInv, Truthful, Exact, Unreadable
<1>4. ASSUME NEW s \in Requests, s # r PROVE ExactInv(s)'
  <2>1. Truthful(mine[s]) /\ mine'[s] = mine[s] => Truthful(mine[s])'
    BY DEF Truthful, Unreadable
  <2> HIDE DEF Truthful, Exact, Current
  <2>2. ExactInv(s) /\ Same(s)
    BY <1>4 DEF MarkersInv
  <2> QED BY <1>3, <2>1, <2>2 DEF ExactInv, Same
<1> HIDE DEF Truthful, Exact
<1> QED BY <1>3, <1>4 DEF MarkersInv

\* A step that leaves the store and its files alone.
LEMMA MarkersMoved ==
  ASSUME Base, MarkersInv, NEW r \in Requests, \A s \in Requests \ {r} : Same(s),
         UNCHANGED <<db, from, marker, tmp, restores>>,
         pc'[r] \notin MarkerSteps \/ ExactInv(r)'
  PROVE  MarkersInv'
<1>1. Current' = Current
  BY DEF Current
<1>2. ExactInv(r)'
  BY DEF ExactInv, MarkerSteps
<1> QED BY <1>1, <1>2, MarkersCombine

LEMMA MarkersPrepare ==
  ASSUME Base, UpgradeInv, MarkersInv, NEW r \in Requests, Prepare(r) PROVE MarkersInv'
<1>0. /\ pc \in [Requests -> Steps] /\ mine \in [Requests -> Markers \cup {NoMarker}]
      /\ RequestInv(r)
      /\ UNCHANGED <<db, from, marker, tmp, restores>>
  BY DEF Base, TypeOK, UpgradeInv, bounds, Prepare, PrepareInspect, PrepareCheckpoint,
     PrepareLock, PrepareCopy, PrepareFails, PreparePlace, PrepareMarker
<1>1. CASE Return(r)
  BY <1>0, <1>1, Returned, MarkersMoved DEF Return, Goto, MarkerSteps
<1>2. CASE PrepareMarker(r)
  <2>1. /\ pc[r] = "placed" /\ \A s \in Requests \ {r} : Same(s)
        /\ pc'[r] = "tmp"
    BY <1>0, <1>2, Moved DEF PrepareMarker
  <2>2. mine'[r] = [sha |-> copy[r], size |-> db, backup |-> name[r], completed |-> FALSE]
    BY <1>0, <1>2 DEF PrepareMarker
  <2>3. mine'[r].sha = Current'
    BY <1>0, <2>1, <2>2 DEF RequestInv, Current
  <2>4. ExactInv(r)'
    BY <2>1, <2>2, <2>3 DEF ExactInv, Truthful
  <2> QED BY <1>0, <2>1, <2>4, MarkersMoved
<1>3. CASE ~Return(r) /\ ~PrepareMarker(r)
  <2>1. PICK step \in {"open", "checkpointed", "locked", "copied", "placed"} : Goto(r, step)
    BY <1>3 DEF Prepare, PrepareInspect, PrepareCheckpoint, PrepareLock, PrepareCopy,
       PrepareFails, PreparePlace
  <2>2. \A s \in Requests \ {r} :
          /\ name'[s] = name[s] /\ copy'[s] = copy[s]
          /\ mine'[s] = mine[s] /\ migrating'[s] = migrating[s]
    BY <1>3 DEF Base, TypeOK, locals, Prepare, PrepareInspect, PrepareCheckpoint, PrepareLock,
       PrepareCopy, PrepareFails, PreparePlace
  <2> QED BY <1>0, <2>1, <2>2, Moved, MarkersMoved DEF MarkerSteps
<1> QED BY <1>1, <1>2, <1>3

LEMMA MarkersApply ==
  ASSUME Base, UpgradeInv, MarkersInv, NEW r \in Requests, Apply(r) PROVE MarkersInv'
<1>0. /\ pc \in [Requests -> Steps] /\ mine \in [Requests -> Markers \cup {NoMarker}]
      /\ migrating \in [Requests -> BOOLEAN] /\ db \in Contents
      /\ marker \in Markers \cup Unreadable
      /\ RequestInv(r) /\ ExactInv(r) /\ Truthful(marker)
      /\ UNCHANGED <<marker, tmp, restores>>
  BY DEF Base, TypeOK, UpgradeInv, MarkersInv, bounds, Apply, ApplyStart, ReadMarker,
     VerifySource, VerifyBackup, InitInspect, CoreInit, CoreInitNoop, CoreInitFails, InitFinal,
     MarkCompleted
<1>c. CASE CoreInit(r)
  <2>1. Current' = Current /\ (from' = from \/ from = NoContent) /\ db'.version = "v3"
    BY <1>0, <1>c DEF CoreInit, Current, Old, UpgradeInv, Contents
  <2>2. (\A s \in Requests \ {r} : Same(s)) /\ pc[r] = "core"
    BY <1>c, Returned, Moved DEF CoreInit, locals
  <2>3. pc'[r] = "done" \/ (pc'[r] = "final" /\ migrating'[r] = migrating[r])
    BY <1>0, <1>c DEF CoreInit, Return, Goto, locals
  <2>4. ExactInv(r)'
    BY <1>0, <2>1, <2>2, <2>3 DEF ExactInv, Exact, Unreadable
  <2> QED BY <1>0, <2>1, <2>2, <2>4, MarkersCombine
<1>k. ~CoreInit(r) => UNCHANGED <<db, from>>
  BY DEF Apply, ApplyStart, ReadMarker, VerifySource, VerifyBackup, InitInspect, CoreInitNoop,
     CoreInitFails, InitFinal, MarkCompleted
<1>r. CASE Return(r) /\ ~CoreInit(r)
  BY <1>0, <1>k, <1>r, Returned, MarkersMoved DEF Return, Goto, MarkerSteps
<1> DEFINE moves == ~Return(r) /\ ~CoreInit(r)
<1>1. CASE ApplyStart(r) /\ moves
  <2>1. (\A s \in Requests \ {r} : Same(s)) /\ pc'[r] = "verify"
    BY <1>1, Moved DEF ApplyStart
  <2> QED BY <1>0, <1>1, <1>k, <2>1, MarkersMoved DEF MarkerSteps
<1>2. CASE ReadMarker(r) /\ moves
  <2>1. mine' = [mine EXCEPT ![r] = marker] /\ UNCHANGED <<name, copy, migrating>>
        /\ pc' = [pc EXCEPT ![r] = IF pc[r] = "verify" THEN "compare" ELSE "recompare"]
    BY <1>2 DEF ReadMarker, Goto
  <2>2. (\A s \in Requests \ {r} : Same(s)) /\ pc'[r] \in {"compare", "recompare"}
        /\ mine'[r] = marker'
    BY <1>0, <2>1 DEF Same
  <2> QED BY <1>0, <1>2, <1>k, <2>2, MarkersMoved DEF ExactInv
<1>3. CASE VerifySource(r) /\ moves
  <2>1. /\ \A s \in Requests \ {r} : Same(s)
        /\ pc'[r] \in {"backup", "rebackup"} /\ pc[r] \in {"compare", "recompare"}
        /\ mine'[r] = mine[r]
    BY <1>0, <1>3, Moved DEF VerifySource, locals, Goto
  <2>2. ExactInv(r)'
    BY <1>0, <1>3, <1>k, <2>1 DEF ExactInv, Exact, Unreadable, Current
  <2> QED BY <1>0, <1>3, <1>k, <2>1, <2>2, MarkersMoved
<1>4. CASE VerifyBackup(r) /\ moves
  <2>1. /\ \A s \in Requests \ {r} : Same(s)
        /\ pc'[r] \in {"inspect", "core"} /\ pc[r] \in {"backup", "rebackup"}
        /\ mine'[r] = mine[r]
    BY <1>0, <1>4, Moved DEF VerifyBackup, locals, Goto
  <2>2. mine[r].sha = Current /\ (marker = mine[r] \/ Exact(marker))
    BY <1>0, <2>1 DEF RequestInv, ExactInv
  <2>3. Exact(marker)'
    BY <1>0, <1>4, <1>k, <2>2 DEF Exact, Unreadable, Current
  <2>4. ExactInv(r)'
    BY <2>1, <2>3 DEF ExactInv
  <2> QED BY <1>0, <1>4, <1>k, <2>1, <2>4, MarkersMoved
<1>5. CASE InitInspect(r) /\ moves
  <2>1. /\ \A s \in Requests \ {r} : Same(s)
        /\ pc'[r] = "reverify" \/ (pc'[r] = "core" /\ ~migrating'[r])
    BY <1>0, <1>5, Moved DEF InitInspect
  <2>2. pc'[r] \notin MarkerSteps \/ ExactInv(r)'
    BY <2>1 DEF ExactInv, MarkerSteps
  <2> QED BY <1>0, <1>5, <1>k, <2>1, <2>2, MarkersMoved
<1>6. CASE CoreInitNoop(r) /\ moves
  <2>1. /\ \A s \in Requests \ {r} : Same(s)
        /\ pc[r] = "core" /\ pc'[r] = "final" /\ migrating'[r] = migrating[r]
    BY <1>6, Moved DEF CoreInitNoop, locals
  <2>2. ExactInv(r)'
    BY <1>0, <1>6, <1>k, <2>1 DEF ExactInv, Exact, Unreadable, Current
  <2> QED BY <1>0, <1>6, <1>k, <2>1, <2>2, MarkersMoved
<1>7. CASE InitFinal(r) /\ moves
  <2>1. /\ \A s \in Requests \ {r} : Same(s)
        /\ pc[r] = "final" /\ pc'[r] = "mark" /\ db.version = "v3"
        /\ migrating'[r] = migrating[r]
    BY <1>7, Moved DEF InitFinal, locals
  <2>2. ExactInv(r)'
    BY <1>0, <1>7, <1>k, <2>1 DEF ExactInv, Exact, Unreadable, Current
  <2> QED BY <1>0, <1>7, <1>k, <2>1, <2>2, MarkersMoved
<1>8. CASE MarkCompleted(r) /\ moves
  <2>1. /\ pc[r] = "mark" /\ Goto(r, "tmp") /\ marker \in Markers
        /\ mine' = [mine EXCEPT ![r] = [marker EXCEPT !.completed = TRUE]]
        /\ UNCHANGED <<name, copy, migrating>>
    BY <1>0, <1>8 DEF MarkCompleted
  <2>2. (\A s \in Requests \ {r} : Same(s)) /\ pc'[r] = "tmp"
    BY <1>0, <2>1 DEF Same, Goto
  <2>3. marker.sha = Current /\ Current = from /\ from # NoContent
    BY <1>0, <2>1, NoContentAssumption DEF RequestInv, ExactInv, Exact, Current, Old, Saved,
       Markers
  <2>4. mine'[r].sha = Current' /\ Truthful(mine[r])'
    BY <1>0, <1>8, <1>k, <2>1, <2>3 DEF Truthful, Current, Markers
  <2>5. ExactInv(r)'
    BY <2>2, <2>4 DEF ExactInv
  <2> QED BY <1>0, <1>8, <1>k, <2>2, <2>5, MarkersMoved
<1>9. CoreInitFails(r) => Return(r)
  BY DEF CoreInitFails
<1> QED BY <1>c, <1>r, <1>1, <1>2, <1>3, <1>4, <1>5, <1>6, <1>7, <1>8, <1>9 DEF Apply

LEMMA MarkersRequest ==
  ASSUME Base, UpgradeInv, MarkersInv, NEW r \in Requests, Use(r) \/ Write(r)
  PROVE  MarkersInv'
<1>0. /\ pc \in [Requests -> Steps] /\ mine \in [Requests -> Markers \cup {NoMarker}]
      /\ RequestInv(r) /\ ExactInv(r) /\ UNCHANGED <<from, restores>>
  BY DEF Base, TypeOK, UpgradeInv, MarkersInv, bounds, Use, Write, UseInspect, UseWrite, OpenTmp,
     WriteTmp, ReplaceMarker, FileFails
<1>1. CASE UseInspect(r)
  <2>1. /\ \A s \in Requests \ {r} : Same(s)
        /\ pc'[r] \in {"write", "inspect"} /\ UNCHANGED <<db, marker, tmp>>
    BY <1>1, Moved DEF UseInspect
  <2> QED BY <1>0, <2>1, MarkersMoved DEF MarkerSteps
<1>2. CASE UseWrite(r)
  <2>1. Return(r) /\ UNCHANGED <<marker, tmp>> /\ db.version = "v3" /\ db'.version = "v3"
    BY <1>0, <1>2 DEF UseWrite, RequestInv, Base, TypeOK, Contents
  <2>2. Current' = Current
    BY <1>0, <2>1 DEF Current, Old
  <2>3. ExactInv(r)'
    BY <1>0, <2>1 DEF Return, Goto, ExactInv
  <2> QED BY <1>0, <2>1, <2>2, <2>3, Returned, MarkersCombine
<1>3. CASE OpenTmp(r)
  <2>1. /\ \A s \in Requests \ {r} : Same(s)
        /\ pc[r] = "tmp" /\ pc'[r] = "writing" /\ mine'[r] = mine[r]
        /\ UNCHANGED <<db, marker>> /\ tmp' = Empty
    BY <1>3, Moved DEF OpenTmp, locals
  <2>2. Current' = Current /\ Exact(tmp)' /\ Truthful(tmp)'
    BY <1>0, <2>1 DEF Current, Exact, Truthful, Unreadable
  <2>3. ExactInv(r)'
    BY <1>0, <2>1, <2>2 DEF ExactInv, Truthful, Unreadable
  <2> QED BY <1>0, <2>1, <2>2, <2>3, MarkersCombine
<1>4. CASE WriteTmp(r)
  <2>1. /\ \A s \in Requests \ {r} : Same(s)
        /\ pc[r] = "writing" /\ pc'[r] = "replace" /\ UNCHANGED db
    BY <1>4, Moved DEF WriteTmp, locals
  <2>2. Current' = Current
    BY <1>0, <2>1 DEF Current
  <2>3. Written(r, tmp) \cup Written(r, marker) \subseteq {mine[r], Garbage}
    BY DEF Written
  <2>4. tmp' \in {tmp, mine[r], Garbage} /\ marker' \in {marker, mine[r], Garbage}
    BY <1>4, <2>3 DEF WriteTmp
  <2>5. mine[r].sha = Current /\ Truthful(mine[r]) /\ Exact(tmp)
    BY <1>0, <2>1 DEF ExactInv
  <2>6. ASSUME NEW m \in {mine[r], Garbage} PROVE Exact(m)' /\ Truthful(m)'
    BY <1>0, <2>2, <2>5 DEF Exact, Truthful, Unreadable
  <2>7. /\ marker' = marker \/ (Exact(marker)' /\ Truthful(marker)')
        /\ tmp' = tmp \/ (Exact(tmp)' /\ Truthful(tmp)')
    BY <2>4, <2>6 DEF Exact, Truthful
  <2>8. Exact(tmp)'
    BY <2>2, <2>5, <2>7 DEF Exact, Unreadable
  <2>9. ExactInv(r)'
    BY <2>1, <2>8 DEF ExactInv
  <2> QED BY <1>0, <2>1, <2>2, <2>7, <2>9, MarkersCombine
<1>5. CASE ReplaceMarker(r)
  <2>1. /\ Return(r) /\ pc[r] = "replace" /\ UNCHANGED db
        /\ \/ UNCHANGED <<marker, tmp>>
           \/ marker' = tmp /\ tmp' = NoMarker
    BY <1>5 DEF ReplaceMarker
  <2>2. Current' = Current /\ Exact(tmp) /\ Truthful(tmp)
    BY <1>0, <2>1 DEF Current, ExactInv, MarkersInv
  <2>3. /\ marker' = marker \/ (Exact(marker) /\ Truthful(marker))'
        /\ tmp' = tmp \/ (Exact(tmp) /\ Truthful(tmp))'
    BY <1>0, <2>1, <2>2 DEF Exact, Truthful, Unreadable
  <2>4. ExactInv(r)'
    BY <1>0, <2>1 DEF Return, Goto, ExactInv
  <2> QED BY <1>0, <2>1, <2>2, <2>3, <2>4, Returned, MarkersCombine
<1>6. CASE FileFails(r)
  <2>1. Return(r) /\ UNCHANGED <<db, marker, tmp>> /\ pc'[r] = "done"
    BY <1>0, <1>6 DEF FileFails, Return, Goto
  <2> QED BY <1>0, <2>1, Returned, MarkersMoved DEF MarkerSteps
<1> QED BY <1>1, <1>2, <1>3, <1>4, <1>5, <1>6 DEF Use, Write

LEMMA MarkersEnvironment ==
  ASSUME Offline, Base, UpgradeInv, MarkersInv, OldWrite \/ Tick \/ Crash \/ Restore
  PROVE  MarkersInv'
<1>1. UNCHANGED <<marker, tmp>>
  BY DEF OldWrite, Tick, Crash, Restore
<1>2. CASE Tick
  BY <1>2 DEF Tick, locals, MarkersInv, ExactInv, Exact, Truthful, Current, Unreadable
<1>3. CASE OldWrite \/ Crash \/ Restore
  <2>1. \A r \in Requests : pc'[r] \in {"idle", "done"}
    BY <1>3 DEF OldWrite, Crash, Restore, Quiet
  <2>2. \A r \in Requests : ExactInv(r)'
    BY <2>1 DEF ExactInv
  <2>3. restores' > 0 \/ (restores' = restores /\ from' = from)
    BY <1>3 DEF OldWrite, Crash, Restore, Base, TypeOK
  <2>4. Truthful(marker)' /\ Truthful(tmp)'
    BY <1>1, <2>3 DEF MarkersInv, Truthful, Unreadable
  <2> QED BY <2>2, <2>4 DEF MarkersInv
<1> QED BY <1>2, <1>3

LEMMA MarkersInit == Init => MarkersInv
  BY DEF Init, MarkersInv, ExactInv, Truthful, Unreadable

LEMMA MarkersKeep ==
  Offline /\ Base /\ UpgradeInv /\ MarkersInv /\ [Next]_vars => MarkersInv'
<1>1. ASSUME MarkersInv, UNCHANGED vars PROVE MarkersInv'
  BY <1>1 DEF vars, locals, MarkersInv, ExactInv, Exact, Truthful, Current, Unreadable
<1> QED BY <1>1, MarkersPrepare, MarkersApply, MarkersRequest, MarkersEnvironment DEF Next

\* While nobody else uses the store and until the operator rolls back, a marker that says
\* completed names, by its checksum, the content that the store was migrated from.
THEOREM CompletedIsTrue == ASSUME Offline PROVE Spec => []CompletedMeansUpgraded
<1>1. Base /\ UpgradeInv /\ MarkersInv /\ [Next]_vars => MarkersInv'
  BY MarkersKeep
<1>2. Base /\ UpgradeInv /\ MarkersInv => CompletedMeansUpgraded
  BY DEF Base, TypeOK, UpgradeInv, MarkersInv, Truthful, CompletedMeansUpgraded
<1> QED BY <1>1, <1>2, MarkersInit, BaseInvariance, OfflineInvariance, PTL DEF Spec
=============================================================================
