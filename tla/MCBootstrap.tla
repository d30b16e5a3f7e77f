----------------------------- MODULE MCBootstrap -----------------------------
(* Instances of Bootstrap for TLC. *)
EXTENDS Bootstrap, TLC

\* The dashboard's "Activate this project"; the same with a conflicting root; the
\* project with the plugin's own store; activation switched off.
Selected == [project |-> "selected", enabled |-> TRUE, root |-> "shared"]
Conflict == [Selected EXCEPT !.project = "bad"]
Isolated == [Selected EXCEPT !.root = "own"]
Off      == [Default EXCEPT !.enabled = FALSE]

\* The first for the violations of an activated project; the second has one of each kind
\* that the bootstrap goes different ways for.
ProjectConfigs == {Selected, Conflict}
EveryWay       == {Selected, Isolated, Off}

\* Fewer starting points: the plugin's own store does not exist yet, the project's is not
\* at schema v3, the policy is open, the manifest is not damaged and an unmounted project
\* has none.  OldStoreAppears, the hooks, ProjectChanges and HostChanges lead to the others.
HooksInit ==
  /\ Init
  /\ store["own"] = "absent" /\ store["shared"] # "v3" /\ policy = "open"
  /\ manifest # "invalid" /\ (mounted \/ manifest = "absent")

HooksSpec == HooksInit /\ [][Next]_vars

ThreadSymmetry == Permutations(Threads)
=============================================================================
