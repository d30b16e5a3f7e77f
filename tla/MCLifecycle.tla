----------------------------- MODULE MCLifecycle -----------------------------
(* Small instances of Lifecycle for TLC. *)
EXTENDS Lifecycle, TLC

CONSTANTS t1, t2, t3, i1, i2, i3, i4, s1, s2, chat, worker

Id(session, workflow, number) ==
  [session |-> session, workflow |-> workflow, profile |-> chat, number |-> number]

MCNames == {chat, worker}

\* t1 and t2 are successive turns of one agent; t3 belongs to its subordinate in
\* the same chat, which differs in the agent number alone.
ChatAndSubordinate ==
  [t \in {t1, t2, t3} |-> Id(chat, chat, IF t = t3 THEN 1 ELSE 0)]

\* Two agents with one turn each: a chat and a parallel worker of it.
ChatAndWorker ==
  [t \in {t1, t3} |-> IF t = t3 THEN Id(worker, chat, 0) ELSE Id(chat, chat, 0)]

Shared(s)   == [state |-> "configured-awaiting-proof", store |-> s]
Isolated(s) == [state |-> "active-isolated", store |-> s]

OneStore     == {Shared(s1), Unmounted}
TwoStores    == {Shared(s1), Shared(s2)}
WithIsolated == {Shared(s1), Isolated(s1)}

\* For lifecycle_live, where symmetry would be unsound: of the identifiers, which are
\* interchangeable, the next one in a fixed order is drawn.  Nothing is disabled by this, so
\* that Fairness means the same.
InOrder ==
  /\ owner'[i2] # NoTurn => owner'[i1] # NoTurn
  /\ owner'[i3] # NoTurn => owner'[i2] # NoTurn

\* Every agent begins in the first project.
LiveInit == Init /\ config = [k \in Keys |-> Shared(s1)]
LiveSpec == LiveInit /\ [][Next]_vars /\ Fairness

IdSymmetry == Permutations(Ids)
=============================================================================
