-------------------------------- MODULE Recall --------------------------------
(***************************************************************************)
(* The recall of the bridge (TreeRingCli.recall, helpers/cli.py): it asks the   *)
(* core for more memories than are wanted, filters them again, by ring as well,  *)
(* which the core cannot, and cuts the rest to the limit.  What the query says    *)
(* and how the core ranks are left out: every memory answers it, in any order.     *)
(***************************************************************************)
EXTENDS Configuration, Integers, FiniteSets

CONSTANTS
  MaxLimit,    \* what a request is cut to (100)
  ScanFactor,  \* how many times its limit is scanned (5)
  ScanLimit,   \* recall.bridge_scan_limit
  ScanCap      \* what a scan is cut to (1000)

ASSUME RecallAssumption ==
  /\ MaxLimit \in Nat \ {0} /\ ScanFactor \in Nat \ {0} /\ ScanLimit \in Nat \ {0}
  /\ ScanCap \in Nat /\ ScanCap >= ScanFactor * MaxLimit

Smaller(m, n) == IF m <= n THEN m ELSE n
Larger(m, n)  == IF m >= n THEN m ELSE n

\* requested_limit
RequestedLimit(n) == Larger(1, Smaller(MaxLimit, n))

\* Mutant: the core is asked for no more than is wanted.
ScanUnscaled(n) == RequestedLimit(n)

\* scan_limit: what the core is asked for
ScanWindow(n) == Smaller(ScanCap, Larger(ScanFactor * RequestedLimit(n), ScanLimit))

\* A filter that is Nothing lets everything pass.
Passes(wanted, value) == wanted \in {Nothing, value}

\* What the core's own filters let pass.
CoreMatch(f, m) ==
  /\ Passes(f.project, m.project)   /\ Passes(f.profile, m.profile)
  /\ Passes(f.workflow, m.workflow) /\ Passes(f.session, m.session)
  /\ Passes(f.scope, m.scope)

\* The memories the core has for its filters, before it ranks and cuts them.
Matched(f, memories) == {m \in memories : CoreMatch(f, m)}

\* _filter_memories
Filtered(f, memories) == {m \in Matched(f, memories) : Passes(f.ring, m.ring)}

\* A list cut to n of its members, whichever come first.
Cuts(n, S) == {T \in SUBSET S : Cardinality(T) = Smaller(n, Cardinality(S))}

\* What the core may return: export for a blank query.
Scanned(f, n, blank, memories) ==
  IF blank THEN {memories}
  ELSE Cuts(ScanWindow(n), Matched(f, memories))

\* recall
Recalls(f, n, blank, memories) ==
  UNION {Cuts(RequestedLimit(n), Filtered(f, S)) : S \in Scanned(f, n, blank, memories)}
=============================================================================
