---------------------------- MODULE Configuration ----------------------------
(***************************************************************************)
(* How the plugin reads its settings (helpers/config.py) and which paths they  *)
(* allow (helpers/paths.py).  load_config is a function of the process          *)
(* environment and of one settings dictionary, and its result is a settings      *)
(* dictionary again: what the hooks return is what Agent Zero stores, and what    *)
(* the API or a tool has loaded is loaded once more by the bridge it builds.       *)
(***************************************************************************)
CONSTANTS
  Roots,         \* memory roots: storage.root, storage.data_dir
  DefaultRoot,   \* DEFAULT_MEMORY_ROOT
  Folders,       \* project roots, up to Path.resolve
  RepoRoot,      \* paths.REPO_ROOT
  Profiles,      \* agent profiles
  Nothing,       \* a missing or empty value
  NotAPath       \* any other value that is no path

ASSUME ConfigurationAssumption ==
  /\ DefaultRoot \in Roots /\ RepoRoot \notin Folders
  /\ Nothing \notin Roots \cup Folders \cup {RepoRoot, NotAPath}
  /\ NotAPath \notin Folders \cup {RepoRoot}

Environments == [root : Roots \cup {Nothing}, project_root : Folders \cup {Nothing}]

\* `legacy' is the memory root beside whose store the Python-v1 store lies.
Settings ==
  [root : Roots \cup {Nothing}, legacy : Roots \cup {Nothing},
   project_root : Folders \cup {Nothing, NotAPath},
   allowed_project_root : Folders \cup {Nothing, NotAPath},
   project_root_error : BOOLEAN, scope_conflict : BOOLEAN,
   coordinators : SUBSET Profiles]

\* The empty dictionary: nothing is set.
Unset ==
  [root |-> Nothing, legacy |-> Nothing, project_root |-> Nothing,
   allowed_project_root |-> Nothing, project_root_error |-> FALSE, scope_conflict |-> FALSE,
   coordinators |-> {}]

\* Python's `or'
Or(v, w) == IF v # Nothing THEN v ELSE w

\* _normalize_project_root, without its error
Normalized(v) == IF v = NotAPath THEN Nothing ELSE v

\* _roots_disagree
Disagree(v, w) == v # Nothing /\ w # Nothing /\ v # w

\* The root load_config prefers, and what the scope names.
ActivationSource(env, c) == Or(env.project_root, Normalized(c.project_root))
Compatibility(c) == Normalized(c.allowed_project_root)
Conflict(env, c) == Disagree(ActivationSource(env, c), Compatibility(c))
Selected(env, c) == Or(ActivationSource(env, c), Compatibility(c))

\* Mutant: no memory root unless one is given.
RootUndefaulted(env, c) == Or(env.root, c.root)

\* The memory root; paths.memory_root looks at the environment again.
RootOf(env, c) == Or(env.root, Or(c.root, DefaultRoot))

\* Mutant: the scope's root is overwritten before it is compared.
LoadOverwritesScope(env, c) ==
  [root |-> RootOf(env, c),
   legacy |-> IF env.root = Nothing THEN Or(c.legacy, RootOf(env, c)) ELSE env.root,
   project_root |-> Selected(env, c),
   allowed_project_root |-> Or(Selected(env, c), c.allowed_project_root),
   project_root_error |-> NotAPath \in {c.project_root, c.allowed_project_root},
   scope_conflict |-> Conflict(env, c),
   coordinators |-> c.coordinators]

\* load_config
Load(env, c) ==
  [root |-> RootOf(env, c),
   legacy |-> IF env.root = Nothing THEN Or(c.legacy, RootOf(env, c)) ELSE env.root,
   project_root |-> Selected(env, c),
   allowed_project_root |->
     IF Selected(env, c) # Nothing /\ ~Conflict(env, c)
     THEN Selected(env, c) ELSE c.allowed_project_root,
   project_root_error |-> NotAPath \in {c.project_root, c.allowed_project_root},
   scope_conflict |-> Conflict(env, c),
   coordinators |-> c.coordinators]

\* allowed_project_root; Nothing when it raises.
AllowedRoot(c) ==
  IF c.project_root_error \/ c.scope_conflict THEN Nothing
  ELSE Or(c.project_root, Or(c.allowed_project_root, RepoRoot))
=============================================================================
