----------------------------- MODULE UpgradeGate -----------------------------
(***************************************************************************)
(* What the offline upgrade gate promises of one store, whoever asks and       *)
(* whatever fails on the way: an old store becomes a schema-v3 store only from a *)
(* content of which a backup exists, and that backup stays for the rollback.     *)
(***************************************************************************)
EXTENDS Integers

CONSTANTS Old, Versions, NoContent

VARIABLES
  store,   \* [version, gen]
  saved,   \* contents that backups hold
  from     \* content before the last upgrade, until it is rolled back

gateVars == <<store, saved, from>>

GateInit ==
  /\ store \in [version : Versions, gen : {0}]
  /\ saved = {}
  /\ from = NoContent

\* A backup of what the store holds, or held before its upgrade.  It may replace a
\* backup nobody can need any more.
Save ==
  /\ \E c \in {store, from} :
       /\ c # NoContent /\ c.version \in Old
       /\ c \in saved' /\ saved' \subseteq saved \cup {c}
  /\ from # NoContent => from \in saved'
  /\ UNCHANGED <<store, from>>

Upgrade ==
  /\ store.version \in Old
  /\ store \in saved
  /\ store' = [store EXCEPT !.version = "v3"]
  /\ from' = store
  /\ UNCHANGED saved

Create ==
  /\ store.version \in {"absent", "empty"}
  /\ \E v \in {"v2", "v3"} : store'.version = v
  /\ UNCHANGED <<saved, from>>

Change ==
  /\ store.version \in Old \cup {"v3"}
  /\ store'.version = store.version
  /\ UNCHANGED <<saved, from>>

Rollback ==
  /\ from # NoContent
  /\ store' = from
  /\ from' = NoContent
  /\ UNCHANGED saved

GateNext == Save \/ Upgrade \/ Create \/ Change \/ Rollback

GateSpec == GateInit /\ [][GateNext]_gateVars
=============================================================================
