------------------------------- MODULE MCBridge -------------------------------
(* A small instance of Bridge for TLC. *)
EXTENDS Bridge, TLC

CONSTANTS boss, worker, c1, c2, p1, p2, r0, r1, r2, f1, f2, k1, repo, none, bad, t1, t2

MCProfileOf == c1 :> boss @@ c2 :> worker
MCParentOf  == c1 :> none @@ c2 :> c1

\* c2, a fan-out worker of c1, starts in no project, c1 in p1.
NoEnvironment == [root |-> none, project_root |-> none]
MCWorlds == {NoEnvironment, [root |-> none, project_root |-> f2]}

Activated(r, f, cs) ==
  [Unset EXCEPT !.root = r, !.project_root = f, !.allowed_project_root = f, !.coordinators = cs]
Conflicting == [Activated(r1, f2, {boss}) EXCEPT !.allowed_project_root = f1]
Invalid == [Activated(r1, bad, {}) EXCEPT !.allowed_project_root = none]
Compatible == [Unset EXCEPT !.root = r2, !.allowed_project_root = f2]

Edit(p, s) == [of |-> p, settings |-> s]
MCEdits == {Edit(p1, Conflicting), Edit(p1, Invalid), Edit(p1, Activated(r1, f1, {})),
            Edit(p2, Activated(r2, f2, {worker}))}
MCStarted == {c1 :> p1 @@ c2 :> none}
MCGiven == none :> Unset @@ p1 :> Activated(r1, f1, {boss}) @@ p2 :> Compatible

MCLayouts ==
  {[r \in Roots |-> "v3"],
   [r \in Roots |-> CASE r = r1 -> "absent" [] r = r2 -> "old" [] OTHER -> "newer"]}

Ask(op) ==
  [op |-> op, key |-> none, project |-> none, profile |-> none, workflow |-> none,
   session |-> none, ring |-> none, scope |-> none, apply |-> FALSE, wide |-> FALSE,
   blank |-> FALSE, limit |-> 1]
MCRequests ==
  {[Ask("remember") EXCEPT !.key = k1, !.project = p1, !.scope = "shared"],
   [Ask("remember") EXCEPT !.ring = "heartwood"],
   [Ask("capture") EXCEPT !.key = k1],
   [Ask("recall") EXCEPT !.ring = "heartwood"],
   [Ask("recall") EXCEPT !.wide = TRUE, !.session = c2, !.blank = TRUE, !.limit = 2],
   Ask("audit"), Ask("import"), Ask("forget"), [Ask("sync") EXCEPT !.apply = TRUE]}

Memory(c, ring) ==
  [number |-> 0, root |-> r1, key |-> none, project |-> p1, profile |-> MCProfileOf[c],
   workflow |-> c1, session |-> c, scope |-> "agent", ring |-> ring, asked |-> none,
   home |-> p1, own |-> p1]
MCSeeded == {Memory(c1, "cambium"), Memory(c2, "cambium"), Memory(c2, "heartwood")}

BridgeSymmetry == Permutations({t1, t2})
=============================================================================
