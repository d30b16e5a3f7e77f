-------------------------- MODULE CheckpointRegistry --------------------------
(***************************************************************************)
(* What the lifecycle adapter and the capture tool promise of checkpoints,  *)
(* whoever builds prompts, is cancelled or cleans up late: an identifier is  *)
(* active once in its life, for one key, where no other is; and a candidate   *)
(* is stored once in a place, by a turn of the identifier's key, whether the   *)
(* identifier is still active or not.                                         *)
(***************************************************************************)
CONSTANTS Keys, KeyOf(_), Ids, NoId, NoKey

VARIABLES
  given,   \* [Ids -> the key an identifier is or was active for]
  active,  \* [Keys -> the active identifier]
  stored   \* automatic captures: by which turn, under which identifier, what, where

registryVars == <<given, active, stored>>

RegistryInit ==
  /\ given = [i \in Ids |-> NoKey]
  /\ active = [k \in Keys |-> NoId]
  /\ stored = {}

Activate(k, i) ==
  /\ active[k] = NoId
  /\ active' = [active EXCEPT ![k] = i]
  /\ given[i] = NoKey
  /\ given' = [given EXCEPT ![i] = k]
  /\ UNCHANGED stored

Retire(k) ==
  /\ active[k] # NoId
  /\ active' = [active EXCEPT ![k] = NoId]
  /\ UNCHANGED <<given, stored>>

Store(r) ==
  /\ stored' = stored \cup {r}
  /\ given[r.id] = KeyOf(r.by)
  /\ \A q \in stored : q.id # r.id \/ q.candidate # r.candidate \/ q.place # r.place
  /\ UNCHANGED <<given, active>>

RegistryNext ==
  \/ \E k \in Keys : Retire(k) \/ \E i \in Ids : Activate(k, i)
  \/ \E r \in stored' \ stored : Store(r)

RegistrySpec == RegistryInit /\ [][RegistryNext]_registryVars
=============================================================================
