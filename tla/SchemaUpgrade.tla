---------------------------- MODULE SchemaUpgrade ----------------------------
(***************************************************************************)
(* The offline schema-v3 upgrade (helpers/upgrade.py) and the calls of the CLI *)
(* bridge that reach it (helpers/cli.py: init, prepare_schema_upgrade,         *)
(* apply_schema_upgrade, ensure_initialized).                               *)
(*                                                                         *)
(* A request prepares a backup, applies the upgrade, or is any ordinary        *)
(* operation, which first makes sure that the store is initialized.  Requests  *)
(* run on several threads; each action is one access to a shared file or to    *)
(* the SQLite lock.  The plugin may crash between any two.                   *)
(***************************************************************************)
EXTENDS Integers, FiniteSets

CONSTANTS
  Requests,
  NoRequest,
  NoContent,
  NoMarker,
  Empty,       \* a marker file that was truncated and not written yet
  Garbage,     \* one that two requests have written over each other
  Offline,     \* are other users of the store stopped while a request runs?
  MaxClock,    \* bound: distinct seconds in backup names
  MaxGen,      \* bound: changes of the store's content
  MaxCrashes,  \* bound: crashes of the plugin's process
  MaxRestores  \* bound: rollbacks by the operator

ASSUME UpgradeAssumption ==
  /\ NoRequest \notin Requests
  /\ Offline \in BOOLEAN
  /\ MaxClock \in Nat /\ MaxGen \in Nat /\ MaxCrashes \in Nat /\ MaxRestores \in Nat

\* inspect_store: unversioned is user_version 0 with a memories table.
Old      == {"unversioned", "v1", "v2"}
Versions == Old \cup {"absent", "empty", "v3", "newer"}

\* The bytes of a store, up to equality: what a checksum tells apart.
Contents == [version : Versions, gen : Nat]

\* pre-v0.13-schema-v<version>-<seconds>.sqlite
Names == [version : Old, stamp : 0..MaxClock]

Markers == [sha : Contents, size : Contents, backup : Names, completed : BOOLEAN]

\* A marker file that _read_marker takes for no marker.
Unreadable == {NoMarker, Empty, Garbage}

ASSUME NoContentAssumption ==
  NoContent \notin Contents /\ Unreadable \cap Markers = {} /\ NoMarker \notin {Empty, Garbage}

\* Where the file is that an open handle of _write_marker writes; "none" when there is no
\* handle or its file has been replaced.
Files == {"none", "tmp", "marker"}

Ops == {"none", "prepare", "apply", "use"}

Steps == {
  "idle", "done",
  "open", "checkpointed", "locked", "copied", "placed",     \* prepare
  "verify", "compare", "backup",                            \* apply, first check
  "inspect", "reverify", "recompare", "rebackup",           \* init
  "core", "final", "mark",
  "tmp", "writing", "replace",                              \* _write_marker
  "write" }                                                 \* an ordinary operation

VARIABLES
  db,        \* memory.sqlite
  lock,      \* who holds BEGIN EXCLUSIVE
  backups,   \* [Names -> content]: files under migrations/
  marker,    \* schema-v3-upgrade.json
  tmp,       \* schema-v3-upgrade.tmp
  clock,     \* seconds
  pc, op,
  name,      \* the backup name a prepare request has chosen
  copy,      \* its temporary backup
  mine,      \* the marker a request has read or composed
  file,      \* the file a request's open handle writes
  migrating, \* init found an upgrade to do
  writes,    \* changes of the store's content so far
  crashes, restores,
  from       \* history: the content the last migration started from

locals == <<op, name, copy, mine, migrating>>
bounds == <<clock, writes, crashes, restores>>
vars == <<db, lock, backups, marker, tmp, clock, pc, op, name, copy, mine, file, migrating,
          writes, crashes, restores, from>>

FirstName == [version |-> "v2", stamp |-> 0]

Init ==
  /\ db \in [version : Versions, gen : {0}]
  /\ lock = NoRequest
  /\ backups = [n \in Names |-> NoContent]
  /\ marker = NoMarker /\ tmp = NoMarker
  /\ clock = 0
  /\ pc = [r \in Requests |-> "idle"] /\ op = [r \in Requests |-> "none"]
  /\ name = [r \in Requests |-> FirstName]
  /\ copy = [r \in Requests |-> NoContent]
  /\ mine = [r \in Requests |-> NoMarker]
  /\ file = [r \in Requests |-> "none"]
  /\ migrating = [r \in Requests |-> FALSE]
  /\ writes = 0 /\ crashes = 0 /\ restores = 0
  /\ from = NoContent

-----------------------------------------------------------------------------
(* Helpers. *)

Goto(r, step) == pc' = [pc EXCEPT ![r] = step]

\* The request returns or raises: its locals are gone.
Return(r) ==
  /\ Goto(r, "done")
  /\ op' = [op EXCEPT ![r] = "none"]
  /\ name' = [name EXCEPT ![r] = FirstName]
  /\ copy' = [copy EXCEPT ![r] = NoContent]
  /\ mine' = [mine EXCEPT ![r] = NoMarker]
  /\ migrating' = [migrating EXCEPT ![r] = FALSE]

Quiet == \A r \in Requests : pc[r] \in {"idle", "done"}

Start(r, what) == pc[r] = "idle" /\ op' = [op EXCEPT ![r] = what]

-----------------------------------------------------------------------------
(* prepare_schema_upgrade *)

\* Mutant: any store that is not schema v3 is prepared.
PrepareInspectAny(r) ==
  /\ Start(r, "prepare")
  /\ db.version # "v3"
  /\ name' = [name EXCEPT ![r] = [version |-> db.version, stamp |-> clock]]
  /\ Goto(r, "open")
  /\ UNCHANGED <<db, lock, backups, marker, tmp, bounds, copy, mine, migrating, file, from>>

\* Only an old store can be prepared; every other answer returns at once.
PrepareInspect(r) ==
  /\ Start(r, "prepare")
  /\ db.version \in Old
  /\ name' = [name EXCEPT ![r] = [version |-> db.version, stamp |-> clock]]
  /\ Goto(r, "open")
  /\ UNCHANGED <<db, lock, backups, marker, tmp, bounds, copy, mine, migrating, file, from>>

\* The WAL checkpoint moves every commit into the database file, or finds the store in
\* use.
PrepareCheckpoint(r) ==
  /\ pc[r] = "open"
  /\ IF lock = NoRequest
     THEN /\ copy' = [copy EXCEPT ![r] = db]
          /\ Goto(r, "checkpointed")
          /\ UNCHANGED <<op, name, mine, migrating>>
     ELSE Return(r)
  /\ UNCHANGED <<db, lock, backups, marker, tmp, bounds, file, from>>

\* BEGIN EXCLUSIVE, or "the store is in use".
PrepareLock(r) ==
  /\ pc[r] = "checkpointed"
  /\ \/ lock = NoRequest /\ lock' = r /\ Goto(r, "locked") /\ UNCHANGED locals
     \/ lock # NoRequest /\ UNCHANGED lock /\ Return(r)
  /\ UNCHANGED <<db, backups, marker, tmp, bounds, file, from>>

\* Copy the file to a temporary one, compare the checksums, commit and close.  What was
\* committed after the checkpoint may still be in the WAL and not in the file.
PrepareCopy(r) ==
  /\ pc[r] = "locked"
  /\ copy' = [copy EXCEPT ![r] = db] \/ UNCHANGED copy
  /\ lock' = NoRequest
  /\ Goto(r, "copied")
  /\ UNCHANGED <<db, backups, marker, tmp, bounds, op, name, mine, file, migrating, from>>

\* Mutant: the error path does not close the connection.
PrepareFailsKeepsLock(r) ==
  /\ pc[r] = "locked"
  /\ Return(r)
  /\ UNCHANGED <<db, lock, backups, marker, tmp, bounds, file, from>>

\* Integrity check, write or checksum fails: roll back, close, unlink.
PrepareFails(r) ==
  /\ pc[r] = "locked"
  /\ lock' = NoRequest
  /\ Return(r)
  /\ UNCHANGED <<db, backups, marker, tmp, bounds, file, from>>

\* Mutant: the copy's version is not compared.
PreparePlaceUnchecked(r) ==
  /\ pc[r] = "copied"
  /\ backups' = [backups EXCEPT ![name[r]] = copy[r]]
  /\ Goto(r, "placed")
  /\ UNCHANGED locals
  /\ UNCHANGED <<db, lock, marker, tmp, bounds, file, from>>

\* The store may have been migrated since it was inspected: the version of the copy
\* is compared before the copy becomes a backup.
PreparePlace(r) ==
  /\ pc[r] = "copied"
  /\ IF copy[r].version = name[r].version
     THEN /\ backups' = [backups EXCEPT ![name[r]] = copy[r]]
          /\ Goto(r, "placed")
          /\ UNCHANGED locals
     ELSE Return(r) /\ UNCHANGED backups
  /\ UNCHANGED <<db, lock, marker, tmp, bounds, file, from>>

\* The source's size is read only now, after the lock was released.
PrepareMarker(r) ==
  /\ pc[r] = "placed"
  /\ mine' = [mine EXCEPT ![r] = [sha |-> copy[r], size |-> db, backup |-> name[r],
                                  completed |-> FALSE]]
  /\ Goto(r, "tmp")
  /\ UNCHANGED <<db, lock, backups, marker, tmp, bounds, op, name, copy, migrating, file, from>>

-----------------------------------------------------------------------------
(* _write_marker: every writer uses the same temporary name. *)

\* write_text opens the file, which creates or truncates it.
OpenTmp(r) ==
  /\ pc[r] = "tmp"
  /\ tmp' = Empty
  /\ file' = [file EXCEPT ![r] = "tmp"]
  /\ Goto(r, "writing")
  /\ UNCHANGED <<db, lock, backups, marker, bounds, locals, from>>

\* Written over a text that another request has written since: a completed marker is
\* longer than one that is not, and its end is left behind.
Written(r, old) ==
  CASE old = Empty   -> {mine[r]}
    [] old = Garbage -> {mine[r], Garbage}
    [] OTHER         -> IF old.completed /\ ~mine[r].completed THEN {Garbage} ELSE {mine[r]}

\* Write through the handle, wherever its file is by now, and close it.
WriteTmp(r) ==
  /\ pc[r] = "writing"
  /\ IF file[r] = "tmp" THEN tmp' \in Written(r, tmp) ELSE UNCHANGED tmp
  /\ IF file[r] = "marker" THEN marker' \in Written(r, marker) ELSE UNCHANGED marker
  /\ file' = [file EXCEPT ![r] = "none"]
  /\ Goto(r, "replace")
  /\ UNCHANGED <<db, lock, backups, bounds, locals, from>>

\* os.replace publishes whatever the file holds, with the handles open on it, or fails
\* when another writer has already moved it.
ReplaceMarker(r) ==
  /\ pc[r] = "replace"
  /\ IF tmp = NoMarker THEN UNCHANGED <<marker, tmp, file>>
     ELSE /\ marker' = tmp /\ tmp' = NoMarker
          /\ file' = [s \in Requests |-> IF file[s] = "tmp" THEN "marker" ELSE "none"]
  /\ Return(r)
  /\ UNCHANGED <<db, lock, backups, bounds, from>>

\* A file cannot be written, renamed or read: OSError.
FileFails(r) ==
  /\ pc[r] \in {"copied", "placed", "tmp", "writing", "replace"}
  /\ file' = [file EXCEPT ![r] = "none"]
  /\ Return(r)
  /\ UNCHANGED <<db, lock, backups, marker, tmp, bounds, from>>

-----------------------------------------------------------------------------
(* verify_prepared_upgrade, once by apply_schema_upgrade and once by init *)

ApplyStart(r) ==
  /\ Start(r, "apply")
  /\ Goto(r, "verify")
  /\ UNCHANGED <<db, lock, backups, marker, tmp, bounds, name, copy, mine, migrating, file, from>>

\* Mutant: a recorded backup is enough.
MatchesAnything(m, content) == m.sha \in Contents

Matches(m, content) == m.sha = content /\ m.size = content

ReadMarker(r) ==
  /\ pc[r] \in {"verify", "reverify"}
  /\ IF marker \notin Unreadable
     THEN /\ mine' = [mine EXCEPT ![r] = marker]
          /\ Goto(r, IF pc[r] = "verify" THEN "compare" ELSE "recompare")
          /\ UNCHANGED <<op, name, copy, migrating>>
     ELSE Return(r)
  /\ UNCHANGED <<db, lock, backups, marker, tmp, bounds, file, from>>

\* Checkpoint, take and release the lock, compare the source with the marker.
VerifySource(r) ==
  /\ pc[r] \in {"compare", "recompare"}
  /\ IF lock = NoRequest /\ Matches(mine[r], db)
     THEN Goto(r, IF pc[r] = "compare" THEN "backup" ELSE "rebackup") /\ UNCHANGED locals
     ELSE Return(r)
  /\ UNCHANGED <<db, lock, backups, marker, tmp, bounds, file, from>>

\* The recorded backup exists with its checksum and schema.
VerifyBackup(r) ==
  /\ pc[r] \in {"backup", "rebackup"}
  /\ IF /\ backups[mine[r].backup] = mine[r].sha
        /\ mine[r].sha.version = mine[r].backup.version
     THEN /\ Goto(r, IF pc[r] = "backup" THEN "inspect" ELSE "core")
          /\ UNCHANGED locals
     ELSE Return(r)
  /\ UNCHANGED <<db, lock, backups, marker, tmp, bounds, file, from>>

-----------------------------------------------------------------------------
(* init *)

InitInspect(r) ==
  /\ pc[r] = "inspect"
  /\ migrating' = [migrating EXCEPT ![r] = db.version \in Old]
  /\ Goto(r, IF db.version \in Old THEN "reverify" ELSE "core")
  /\ UNCHANGED <<db, lock, backups, marker, tmp, bounds, op, name, copy, mine, file, from>>

\* The core's `init' in one SQLite transaction: create, migrate, or find schema v3.
\* The bridge may lose its answer (an error or the timeout) after the commit.
CoreInit(r) ==
  /\ pc[r] = "core"
  /\ lock = NoRequest
  /\ db.version # "newer"
  /\ db' = [db EXCEPT !.version = "v3"]
  /\ from' = IF db.version \in Old THEN db ELSE from
  /\ \/ Goto(r, "final") /\ UNCHANGED locals
     \/ Return(r)
  /\ UNCHANGED <<lock, backups, marker, tmp, file, bounds>>

\* The core answers but has left an old store as it was.
CoreInitNoop(r) ==
  /\ pc[r] = "core"
  /\ db.version \in Old
  /\ Goto(r, "final")
  /\ UNCHANGED <<db, lock, backups, marker, tmp, bounds, locals, file, from>>

\* The store is busy or too new, or the core fails before its commit.
CoreInitFails(r) ==
  /\ pc[r] = "core"
  /\ Return(r)
  /\ UNCHANGED <<db, lock, backups, marker, tmp, bounds, file, from>>

\* Mutant: the core's answer is taken for the result.
InitFinalUnchecked(r) ==
  /\ pc[r] = "final"
  /\ IF migrating[r] THEN Goto(r, "mark") /\ UNCHANGED locals ELSE Return(r)
  /\ UNCHANGED <<db, lock, backups, marker, tmp, bounds, file, from>>

InitFinal(r) ==
  /\ pc[r] = "final"
  /\ IF db.version = "v3" /\ migrating[r]
     THEN Goto(r, "mark") /\ UNCHANGED locals
     ELSE Return(r)
  /\ UNCHANGED <<db, lock, backups, marker, tmp, bounds, file, from>>

\* mark_upgrade_completed: the marker is read again.
MarkCompleted(r) ==
  /\ pc[r] = "mark"
  /\ IF marker \in Unreadable THEN Return(r)
     ELSE /\ mine' = [mine EXCEPT ![r] = [marker EXCEPT !.completed = TRUE]]
          /\ Goto(r, "tmp")
          /\ UNCHANGED <<op, name, copy, migrating>>
  /\ UNCHANGED <<db, lock, backups, marker, tmp, bounds, file, from>>

-----------------------------------------------------------------------------
(* Ordinary operations: ensure_initialized, then the core *)

\* An old or a newer store is refused, a missing or empty one initialized.
UseInspect(r) ==
  /\ Start(r, "use")
  /\ db.version \in {"absent", "empty", "v3"}
  /\ Goto(r, IF db.version = "v3" THEN "write" ELSE "inspect")
  /\ UNCHANGED <<db, lock, backups, marker, tmp, bounds, name, copy, mine, migrating, file, from>>

UseWrite(r) ==
  /\ pc[r] = "write"
  /\ IF lock = NoRequest /\ writes < MaxGen
     THEN /\ writes' = writes + 1
          /\ db' = [db EXCEPT !.gen = writes']
     ELSE UNCHANGED <<db, writes>>
  /\ Return(r)
  /\ UNCHANGED <<lock, backups, marker, tmp, clock, crashes, restores, file, from>>

-----------------------------------------------------------------------------
(* The environment. *)

\* An old CLI, TUI or worker writes or creates the store; while the store is
\* offline, between requests.
OldWrite ==
  /\ Offline => Quiet
  /\ lock = NoRequest
  /\ db.version \in Old \cup {"absent", "empty"}
  /\ writes < MaxGen
  /\ writes' = writes + 1
  /\ db' = [version |-> IF db.version \in Old THEN db.version ELSE "v2", gen |-> writes']
  /\ UNCHANGED <<lock, backups, marker, tmp, clock, crashes, restores, pc, locals, file, from>>

Tick ==
  /\ clock < MaxClock
  /\ clock' = clock + 1
  /\ UNCHANGED <<db, lock, backups, marker, tmp, writes, crashes, restores, pc, locals, file, from>>

\* The process dies with its requests; SQLite's lock dies with it.
Crash ==
  /\ crashes < MaxCrashes
  /\ ~Quiet
  /\ crashes' = crashes + 1
  /\ pc' = [r \in Requests |-> IF pc[r] = "idle" THEN "idle" ELSE "done"]
  /\ op' = [r \in Requests |-> "none"]
  /\ name' = [r \in Requests |-> FirstName]
  /\ copy' = [r \in Requests |-> NoContent]
  /\ mine' = [r \in Requests |-> NoMarker]
  /\ file' = [r \in Requests |-> "none"]
  /\ migrating' = [r \in Requests |-> FALSE]
  /\ lock' = NoRequest
  /\ UNCHANGED <<db, backups, marker, tmp, clock, writes, restores, from>>

\* README: rollback is stopping every process and restoring the recorded backup.
Restore ==
  /\ restores < MaxRestores
  /\ Quiet
  /\ from # NoContent
  /\ marker \notin Unreadable /\ backups[marker.backup] # NoContent
  /\ db' = backups[marker.backup]
  /\ restores' = restores + 1
  /\ from' = NoContent
  /\ UNCHANGED <<lock, backups, marker, tmp, clock, writes, crashes, pc, file, locals>>

-----------------------------------------------------------------------------
Prepare(r) == \/ PrepareInspect(r) \/ PrepareCheckpoint(r) \/ PrepareLock(r)
              \/ PrepareCopy(r) \/ PrepareFails(r) \/ PreparePlace(r) \/ PrepareMarker(r)

Write(r) == OpenTmp(r) \/ WriteTmp(r) \/ ReplaceMarker(r) \/ FileFails(r)

Apply(r) == \/ ApplyStart(r) \/ ReadMarker(r) \/ VerifySource(r) \/ VerifyBackup(r)
            \/ InitInspect(r) \/ CoreInit(r) \/ CoreInitNoop(r) \/ CoreInitFails(r) \/ InitFinal(r)
            \/ MarkCompleted(r)

Use(r) == UseInspect(r) \/ UseWrite(r)

Next ==
  \/ \E r \in Requests : Prepare(r) \/ Apply(r) \/ Use(r) \/ Write(r)
  \/ OldWrite \/ Tick \/ Crash \/ Restore

Spec == Init /\ [][Next]_vars

-----------------------------------------------------------------------------
(* Properties. *)

TypeOK ==
  /\ db \in Contents
  /\ lock \in Requests \cup {NoRequest}
  /\ backups \in [Names -> Contents \cup {NoContent}]
  /\ marker \in Markers \cup Unreadable
  /\ tmp \in Markers \cup Unreadable
  /\ clock \in 0..MaxClock
  /\ pc \in [Requests -> Steps]
  /\ op \in [Requests -> Ops]
  /\ name \in [Requests -> Names]
  /\ copy \in [Requests -> Contents \cup {NoContent}]
  /\ mine \in [Requests -> Markers \cup {NoMarker}]
  /\ file \in [Requests -> Files]
  /\ migrating \in [Requests -> BOOLEAN]
  /\ writes \in Nat /\ crashes \in Nat /\ restores \in Nat
  /\ from \in Contents \cup {NoContent}

\* The exclusive lock is held only while a prepare request copies: every other path
\* out of prepare_schema_upgrade has let it go.  (verify_prepared_upgrade takes and releases
\* it within one step.)
LockHeldOnlyToCopy ==
  \A r \in Requests : pc[r] = "locked" <=> lock = r

\* A file under migrations/ that calls itself a pre-upgrade backup is a copy of a
\* store of that old schema, even if the upgrade overtook the preparation.
BackupsAreOld ==
  \A n \in Names : backups[n] # NoContent => backups[n].version = n.version

\* The backups that exist.
Saved == {backups[n] : n \in Names} \ {NoContent}

\* Once a store was migrated, and until the operator rolls back, a backup has exactly
\* the content the migration started from, and a marker that can be read names such a
\* backup: whatever requests ran at the same time, failed, crashed, or prepared again.
RollbackPossible ==
  from # NoContent => /\ from \in Saved
                      /\ marker \notin Unreadable => backups[marker.backup] = from

\* Why the rollback is possible while the store is offline.  All backups made during one
\* period between changes of the old store hold the same content: the one the store has,
\* or had before its migration.
Current == IF db.version \in Old THEN db ELSE from

Records(m) == backups[m.backup] = Current

RequestInv(r) ==
  /\ mine[r] # NoMarker => mine[r].sha.version \in Old
  /\ pc[r] \in {"checkpointed", "locked", "copied"} =>
       /\ copy[r] # NoContent
       /\ copy[r].version \in Old => copy[r] = Current
  /\ pc[r] = "placed" =>
       /\ copy[r] # NoContent /\ copy[r].version \in Old
       /\ copy[r] = Current /\ backups[name[r]] = Current
  /\ pc[r] \in {"tmp", "writing"} => mine[r] # NoMarker /\ Records(mine[r])
  /\ pc[r] \in {"writing", "replace"} /\ tmp \notin Unreadable => Records(tmp)
  /\ pc[r] \in {"compare", "recompare", "backup", "rebackup"} =>
       /\ mine[r] # NoMarker
       /\ marker \in Unreadable \cup {mine[r]} \/ Records(marker)
  /\ pc[r] \in {"backup", "rebackup"} => mine[r].sha = Current
  /\ pc[r] \in {"reverify", "recompare", "rebackup", "mark"} => migrating[r]
  /\ pc[r] = "core" /\ ~migrating[r] => db.version \notin Old
  /\ pc[r] \in {"core", "final", "mark"} /\ migrating[r] =>
       Current \in Saved /\ (marker \notin Unreadable => Records(marker))
  /\ pc[r] = "write" => db.version = "v3"

UpgradeInv ==
  /\ from # NoContent => db.version = "v3"
  /\ marker \notin Unreadable => marker.sha.version \in Old
  /\ tmp \notin Unreadable => tmp.sha.version \in Old
  /\ RollbackPossible
  /\ \A r \in Requests : RequestInv(r)

\* A completed marker describes the migration that took place.
CompletedMeansUpgraded ==
  marker \notin Unreadable /\ restores = 0 /\ marker.completed
    => db.version = "v3" /\ from = marker.sha

\* The gate as a whole.
Gate == INSTANCE UpgradeGate WITH store <- db, saved <- Saved

\* Every run of the code is one the gate's specification allows.
ImplementsGate == Gate!GateSpec
=============================================================================
