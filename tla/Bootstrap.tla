------------------------------ MODULE Bootstrap ------------------------------
(***************************************************************************)
(* The configuration hooks (hooks.py) and what they reach: the project's        *)
(* activation binding (helpers/activation.py), the selections of the            *)
(* configuration (helpers/config.py), the bridge's status and the two ways it    *)
(* runs the core's `init' (helpers/cli.py), and the legacy migration             *)
(* (helpers/legacy.py), which the dashboard can run at the same time.           *)
(*                                                                         *)
(* One Agent Zero project, with the store mounted in it ("shared") and the       *)
(* plugin's own store ("own").  Hooks run on several threads of one process;     *)
(* other programs change the files and the project's mount between their steps. *)
(***************************************************************************)
EXTENDS Naturals

CONSTANTS
  Threads,
  NoThread,
  Configs,     \* the configurations that are ever saved
  LegacyRoots, \* where there is a Python-v1 store, which nothing here ever changes
  MaxChanges   \* bound: changes made from outside the plugin

Roots == {"shared", "own"}

\* load_config: the selected project ("bad": an unusable path, or two selections that
\* disagree), activation.enabled, and storage.root.
ConfigSpace ==
  [project : {"none", "selected", "bad"}, enabled : BOOLEAN, root : Roots]

ASSUME BootstrapAssumption ==
  /\ NoThread \notin Threads
  /\ Configs \subseteq ConfigSpace
  /\ LegacyRoots \subseteq Roots
  /\ MaxChanges \in Nat

Stores == {"absent", "old", "v3", "newer"}
Files  == {"absent", "valid", "invalid"}

\* "unbound" is "failed" with the error that the core's binding is missing.
States == {"needs-project-mount", "needs-user-review", "failed", "unbound",
           "active-isolated", "configured-awaiting-proof"}

Calls == {"none", "get", "save", "migrate", "force"}

\* Steps inside bootstrap_runtime.
Boot == {"load", "candidate", "activate", "reload", "status", "init", "open", "policy",
         "inspect", "import", "store", "mark", "final", "report"}

\* Those of the dashboard's migration, outside the lock.
Migration == {"m-inspect", "m-import", "m-init", "m-open", "m-store", "m-mark"}

Steps == Boot \cup Migration \cup {"idle", "lock", "return"}

\* The bridge has looked at the store and runs the core's `init'.
Opening == {"open", "m-open"}

VARIABLES
  mounted,   \* is the project's directory reachable?
  manifest,  \* .tree-ring/activation.json
  binding,   \* .tree-ring/activation/agent-zero.json
  store,     \* [Roots -> memory.sqlite]
  marker,    \* [Roots -> legacy-python-v1.json]
  imported,  \* history: [Roots -> were the legacy memories ever imported?]
  runtime,   \* does a compatible executable answer?
  policy,    \* "open" or "coordinated"
  saved,     \* the persisted configuration
  cache,     \* _BOOTSTRAPPED_ROOTS
  lock,      \* _BOOTSTRAP_LOCK
  pc, call, cfg,
  act,       \* the activation state a bootstrap has read
  pending,   \* legacy_migration_pending, as its status read it
  confirm,   \* may its migration import?
  ready,     \* what it will report
  ran,       \* has this call run a bootstrap?
  late,      \* history: the threads in whose root an old store has appeared since they last
             \* looked, before the core's `init' that follows
  changes

files  == <<mounted, manifest, binding, store, marker, imported, runtime, policy, late>>
locals == <<call, cfg, act, pending, confirm, ready, ran>>
vars == <<mounted, manifest, binding, store, marker, imported, runtime, policy,
          saved, cache, lock, pc, call, cfg, act, pending, confirm, ready, ran, late, changes>>

\* load_config of an empty configuration.
Default == [project |-> "none", enabled |-> TRUE, root |-> "own"]

Init ==
  /\ mounted \in BOOLEAN
  /\ manifest \in Files /\ binding \in Files
  /\ <<manifest, binding>> \in {<<"absent", "absent">>, <<"valid", "absent">>,
                                <<"valid", "valid">>, <<"invalid", "absent">>}
  /\ store \in [Roots -> Stores]
  /\ marker = [root \in Roots |-> FALSE] /\ imported = marker
  /\ runtime = TRUE /\ policy \in {"open", "coordinated"}
  /\ saved = Default
  /\ cache = {} /\ lock = NoThread
  /\ pc = [t \in Threads |-> "idle"] /\ call = [t \in Threads |-> "none"]
  /\ cfg = [t \in Threads |-> Default]
  /\ act = [t \in Threads |-> "needs-project-mount"]
  /\ pending = [t \in Threads |-> FALSE] /\ confirm = pending
  /\ ready = pending /\ ran = pending
  /\ late = {} /\ changes = 0

-----------------------------------------------------------------------------
(* Reading the configuration and the project. *)

\* _has_explicit_activation_selection
Explicit(c) == c.project # "none"

\* Mutant: a missing binding is reported under a name of its own.
ActivationNamesBinding(c) ==
  IF c.project = "none" \/ ~mounted \/ manifest = "absent" THEN "needs-project-mount"
  ELSE IF binding = "absent" THEN "needs-binding"
  ELSE "configured-awaiting-proof"

\* load_activation_binding
Activation(c) ==
  IF c.project = "bad" THEN "needs-user-review"
  ELSE IF c.project = "none" THEN "needs-project-mount"
  ELSE IF ~c.enabled THEN "needs-user-review"
  ELSE IF ~mounted \/ manifest = "absent" THEN "needs-project-mount"
  ELSE IF manifest = "invalid" THEN "failed"
  ELSE IF binding = "absent" THEN "unbound"
  ELSE IF binding = "invalid" THEN "failed"
  ELSE IF c.root # "shared" THEN "active-isolated"
  ELSE "configured-awaiting-proof"

\* _project_activation_bootstrap_candidate: the mount is looked at again, and a missing
\* manifest; a missing binding is known from the state read before.
Candidate(c, state) ==
  /\ c.enabled /\ c.project = "selected" /\ c.root = "shared"
  /\ mounted
  /\ \/ state = "needs-project-mount" /\ manifest = "absent"
     \/ state = "unbound"

\* TreeRingCli.status
UpgradeRequired(root) == store[root] = "old"
StatusOk(root)        == runtime /\ store[root] \in {"absent", "v3"}

Goto(t, step) == pc' = [pc EXCEPT ![t] = step]

\* A confirmed request of the dashboard for the legacy migration
Dashboard(t) == call[t] \in {"migrate", "force"}

\* The call returns or raises: its locals are gone.
Leave(t) ==
  /\ Goto(t, "idle")
  /\ call' = [call EXCEPT ![t] = "none"]
  /\ cfg' = [cfg EXCEPT ![t] = Default]
  /\ act' = [act EXCEPT ![t] = "needs-project-mount"]
  /\ pending' = [pending EXCEPT ![t] = FALSE]
  /\ confirm' = [confirm EXCEPT ![t] = FALSE]
  /\ ready' = [ready EXCEPT ![t] = FALSE]
  /\ ran' = [ran EXCEPT ![t] = FALSE]

\* The hook raises: the `with' statement releases the lock, nothing is cached.
Raise(t) == Leave(t) /\ lock' = IF lock = t THEN NoThread ELSE lock

-----------------------------------------------------------------------------
(* _ensure_auto_bootstrap *)

\* get_plugin_config uses the persisted configuration, save_plugin_config the one about
\* to be persisted.  A cached root needs no lock.
Call(t, what, c) ==
  /\ pc[t] = "idle"
  /\ Goto(t, IF c.root \in cache THEN "return" ELSE "lock")
  /\ call' = [call EXCEPT ![t] = what]
  /\ cfg' = [cfg EXCEPT ![t] = c]
  /\ UNCHANGED <<files, saved, cache, lock, act, pending, confirm, ready, ran, changes>>

GetConfig(t)  == Call(t, "get", saved)
SaveConfig(t) == \E c \in Configs : Call(t, "save", c)

\* Mutant: no second look at the cache under the lock.
LockUnchecked(t) ==
  /\ pc[t] = "lock"
  /\ lock = NoThread
  /\ lock' = t /\ Goto(t, "load") /\ ran' = [ran EXCEPT ![t] = TRUE]
  /\ UNCHANGED <<files, saved, cache, call, cfg, act, pending, confirm, ready, changes>>

\* The second look at the cache is made under the lock.
Lock(t) ==
  /\ pc[t] = "lock"
  /\ lock = NoThread
  /\ IF cfg[t].root \in cache
     THEN Goto(t, "return") /\ UNCHANGED <<lock, ran>>
     ELSE lock' = t /\ Goto(t, "load") /\ ran' = [ran EXCEPT ![t] = TRUE]
  /\ UNCHANGED <<files, saved, cache, call, cfg, act, pending, confirm, ready, changes>>

\* _should_cache_bootstrap: only a missing project mount is tried again.
Report(t) ==
  /\ pc[t] = "report"
  /\ cache' = IF ready[t] \/ act[t] # "needs-project-mount"
              THEN cache \cup {cfg[t].root} ELSE cache
  /\ lock' = NoThread
  /\ Goto(t, "return")
  /\ UNCHANGED <<files, saved, locals, changes>>

\* Agent Zero persists the configuration that the save hook returned.
Return(t) ==
  /\ pc[t] = "return"
  /\ saved' = IF call[t] = "save" THEN cfg[t] ELSE saved
  /\ Leave(t)
  /\ UNCHANGED <<files, cache, lock, changes>>

-----------------------------------------------------------------------------
(* bootstrap_runtime *)

\* Mutant: an explicit selection that cannot be bound falls back to the store.
LoadFallsBack(t) ==
  /\ pc[t] = "load"
  /\ act' = [act EXCEPT ![t] = Activation(cfg[t])]
  /\ Goto(t, IF cfg[t].enabled /\ ~Explicit(cfg[t]) THEN "report" ELSE "status")
  /\ UNCHANGED <<files, saved, cache, lock, call, cfg, pending, confirm, ready, ran, changes>>

\* Without a selection nothing is touched; with one, only a bound project goes on.
Load(t) ==
  /\ pc[t] = "load"
  /\ act' = [act EXCEPT ![t] = Activation(cfg[t])]
  /\ Goto(t, IF Explicit(cfg[t])
             THEN IF act'[t] = "configured-awaiting-proof" THEN "status" ELSE "candidate"
             ELSE IF cfg[t].enabled THEN "report" ELSE "status")
  /\ UNCHANGED <<files, saved, cache, lock, call, cfg, pending, confirm, ready, ran, changes>>

ConsiderProject(t) ==
  /\ pc[t] = "candidate"
  /\ Goto(t, IF Candidate(cfg[t], act[t]) THEN "activate" ELSE "report")
  /\ UNCHANGED <<files, saved, cache, lock, locals, changes>>

\* initialize_project_activation: the core's `init' in the project creates what is
\* missing of the manifest, the binding and the store, and migrates an old store.
\* The bridge may lose the answer of an `init' that succeeded.
ActivateProject(t) ==
  /\ pc[t] = "activate"
  /\ mounted /\ runtime
  /\ manifest # "invalid" /\ store["shared"] # "newer"
  /\ manifest' = "valid"
  /\ binding' = IF binding = "absent" THEN "valid" ELSE binding
  /\ store' = [store EXCEPT !["shared"] = "v3"]
  /\ \/ Goto(t, "reload")
     \/ Goto(t, "report")
  /\ UNCHANGED <<mounted, marker, imported, runtime, policy, late, saved, cache, lock,
                 locals, changes>>

\* It fails: the report keeps the activation state read before.
ActivateProjectFails(t) ==
  /\ pc[t] = "activate"
  /\ Goto(t, "report")
  /\ UNCHANGED <<files, saved, cache, lock, locals, changes>>

Reload(t) ==
  /\ pc[t] = "reload"
  /\ act' = [act EXCEPT ![t] = Activation(cfg[t])]
  /\ Goto(t, IF act'[t] = "configured-awaiting-proof" THEN "status" ELSE "report")
  /\ UNCHANGED <<files, saved, cache, lock, call, cfg, pending, confirm, ready, ran, changes>>

\* An old store is reported; an unusable runtime raises, and so may ensure_memory_dirs.
Status(t) ==
  LET root == cfg[t].root IN
  /\ pc[t] = "status"
  /\ \/ /\ UpgradeRequired(root)
        /\ Goto(t, "report")
        /\ UNCHANGED <<locals, lock>>
     \/ Raise(t)
     \/ /\ StatusOk(root)
        /\ pending' = [pending EXCEPT ![t] = root \in LegacyRoots /\ ~marker[root]]
        /\ confirm' = [confirm EXCEPT ![t] = FALSE]
        /\ Goto(t, IF store[root] = "absent" THEN "init"
                   ELSE IF pending'[t] THEN "policy" ELSE "final")
        /\ UNCHANGED <<call, cfg, act, ready, ran, lock>>
  /\ UNCHANGED <<files, saved, cache, changes>>

\* Mutant: the store's schema is taken from the status read before.
CliInitUninspected(t) ==
  /\ pc[t] \in {"init", "m-init"}
  /\ Goto(t, IF Dashboard(t) THEN "m-open" ELSE "open")
  /\ UNCHANGED <<files, saved, cache, lock, locals, changes>>

\* TreeRingCli.init inspects the store again: one that has become old needs a verified
\* backup, which there is not.
CliInit(t) ==
  /\ pc[t] \in {"init", "m-init"}
  /\ \/ /\ store[cfg[t].root] # "old"
        /\ Goto(t, IF Dashboard(t) THEN "m-open" ELSE "open")
        /\ UNCHANGED <<lock, locals>>
     \/ Raise(t)
  /\ late' = late \ {t}
  /\ UNCHANGED <<mounted, manifest, binding, store, marker, imported, runtime, policy,
                 saved, cache, changes>>

\* Then the core's `init', which looks for itself: it creates a missing store, and migrates
\* one that has appeared since.
CoreInit(t) ==
  LET root == cfg[t].root IN
  /\ pc[t] \in Opening
  /\ \/ /\ runtime /\ store[root] # "newer"
        /\ store' = [store EXCEPT ![root] = "v3"]
        /\ \/ /\ Goto(t, IF Dashboard(t) THEN "m-store"
                         ELSE IF pending[t] THEN "policy" ELSE "final")
              /\ UNCHANGED <<lock, locals>>
           \/ Raise(t)
     \/ UNCHANGED store /\ Raise(t)
  /\ UNCHANGED <<mounted, manifest, binding, marker, imported, runtime, policy, late,
                 saved, cache, changes>>

\* policy_status reads schema v3 only; the migration imports only under an open policy.
Policy(t) ==
  /\ pc[t] = "policy"
  /\ \/ /\ runtime /\ store[cfg[t].root] = "v3"
        /\ confirm' = [confirm EXCEPT ![t] = policy = "open"]
        /\ Goto(t, "inspect")
        /\ UNCHANGED <<call, cfg, act, pending, ready, ran, lock>>
     \/ Raise(t)
  /\ UNCHANGED <<files, saved, cache, changes>>

\* The audit and the last status: only a store that is usable now is reported ready.
Final(t) ==
  /\ pc[t] = "final"
  /\ \/ /\ StatusOk(cfg[t].root) /\ store[cfg[t].root] = "v3"
        /\ ready' = [ready EXCEPT ![t] = TRUE]
        /\ Goto(t, "report")
        /\ UNCHANGED <<call, cfg, act, pending, confirm, ran, lock>>
     \/ Raise(t)
  /\ UNCHANGED <<files, saved, cache, changes>>

-----------------------------------------------------------------------------
(* LegacyMigrator.migrate, in a bootstrap ("inspect", "import", "store", "mark", then
   "final") or for a confirmed request of the dashboard. *)

Migrated(t) == IF Dashboard(t) THEN "return" ELSE "final"

MigrateRequest(t) ==
  /\ pc[t] = "idle"
  /\ Goto(t, "m-inspect")
  /\ \E what \in {"migrate", "force"} : call' = [call EXCEPT ![t] = what]
  /\ cfg' = [cfg EXCEPT ![t] = saved]
  /\ confirm' = [confirm EXCEPT ![t] = TRUE]
  /\ UNCHANGED <<files, saved, cache, lock, act, pending, ready, ran, changes>>

\* Nothing to migrate, or migrated before.
MigrateInspect(t) ==
  LET root == cfg[t].root IN
  /\ pc[t] \in {"inspect", "m-inspect"}
  /\ \/ /\ IF root \notin LegacyRoots \/ (marker[root] /\ call[t] # "force")
           THEN Goto(t, Migrated(t))
           ELSE Goto(t, IF Dashboard(t) THEN "m-import" ELSE "import")
        /\ UNCHANGED <<locals, lock>>
     \/ root \in LegacyRoots /\ Raise(t)
  /\ UNCHANGED <<files, saved, cache, changes>>

\* Mutant: the validated preview counts as a migration.
MigrateImportPreview(t) ==
  /\ pc[t] \in {"import", "m-import"}
  /\ Goto(t, IF Dashboard(t) THEN "m-mark" ELSE "mark")
  /\ UNCHANGED <<files, locals, lock>>
  /\ UNCHANGED <<saved, cache, changes>>

\* The preview, with which an unconfirmed migration ends; then ensure_initialized: an old
\* store is refused, and a missing one, which a bootstrap has created by now, is
\* initialized.
MigrateImport(t) ==
  LET root == cfg[t].root IN
  /\ pc[t] \in {"import", "m-import"}
  /\ \/ /\ \/ ~confirm[t] /\ Goto(t, Migrated(t))
           \/ /\ confirm[t] /\ store[root] = "v3"
              /\ Goto(t, IF Dashboard(t) THEN "m-store" ELSE "store")
           \/ confirm[t] /\ store[root] = "absent" /\ Dashboard(t) /\ Goto(t, "m-init")
        /\ UNCHANGED <<locals, lock>>
     \/ Raise(t)
  /\ UNCHANGED <<files, saved, cache, changes>>

\* The import itself: under a coordinated policy the core refuses it unless the request
\* comes from a coordinator.
MigrateStore(t) ==
  /\ pc[t] \in {"store", "m-store"}
  /\ \/ /\ runtime /\ (policy = "open" \/ Dashboard(t))
        /\ imported' = [imported EXCEPT ![cfg[t].root] = TRUE]
        /\ \/ Goto(t, IF Dashboard(t) THEN "m-mark" ELSE "mark") /\ UNCHANGED <<locals, lock>>
           \/ Raise(t)
     \/ Raise(t) /\ UNCHANGED imported
  /\ UNCHANGED <<mounted, manifest, binding, store, marker, runtime, policy, late,
                 saved, cache, changes>>

\* _write_marker; it fails when another migration has moved the temporary file.
MigrateMark(t) ==
  /\ pc[t] \in {"mark", "m-mark"}
  /\ \/ /\ marker' = [marker EXCEPT ![cfg[t].root] = TRUE]
        /\ Goto(t, Migrated(t)) /\ UNCHANGED <<locals, lock>>
     \/ Raise(t) /\ UNCHANGED marker
  /\ UNCHANGED <<mounted, manifest, binding, store, imported, runtime, policy, late,
                 saved, cache, changes>>

-----------------------------------------------------------------------------
(* Everything outside the plugin's process. *)

Outside ==
  /\ changes < MaxChanges
  /\ changes' = changes + 1
  /\ UNCHANGED <<marker, imported, saved, cache, lock, pc, locals>>

\* The project is mounted, unmounted, repaired or damaged.
ProjectChanges ==
  /\ Outside
  /\ mounted' \in BOOLEAN
  /\ manifest' \in Files /\ binding' \in Files
  /\ UNCHANGED <<store, runtime, policy, late>>

\* An older installation's store appears where there was none.
OldStoreAppears ==
  /\ Outside
  /\ \E root \in Roots :
       /\ store[root] = "absent" /\ store' = [store EXCEPT ![root] = "old"]
       /\ late' = late \cup {t \in Threads : pc[t] \in Opening /\ cfg[t].root = root}
  /\ UNCHANGED <<mounted, manifest, binding, runtime, policy>>

\* The operator applies the prepared upgrade (SchemaUpgrade).
UpgradeApplied ==
  /\ Outside
  /\ \E root \in Roots : store[root] = "old" /\ store' = [store EXCEPT ![root] = "v3"]
  /\ UNCHANGED <<mounted, manifest, binding, runtime, policy, late>>

\* The executable is replaced, or the operator changes the write policy.
HostChanges ==
  /\ Outside
  /\ runtime' \in BOOLEAN /\ policy' \in {"open", "coordinated"}
  /\ UNCHANGED <<mounted, manifest, binding, store, late>>

\* Agent Zero restarts: the cache and the running calls are gone.
Restart ==
  /\ changes < MaxChanges
  /\ changes' = changes + 1
  /\ cache' = {} /\ lock' = NoThread
  /\ pc' = [t \in Threads |-> "idle"] /\ call' = [t \in Threads |-> "none"]
  /\ cfg' = [t \in Threads |-> Default]
  /\ act' = [t \in Threads |-> "needs-project-mount"]
  /\ pending' = [t \in Threads |-> FALSE] /\ confirm' = pending'
  /\ ready' = pending' /\ ran' = pending' /\ late' = {}
  /\ UNCHANGED <<mounted, manifest, binding, store, marker, imported, runtime, policy, saved>>

-----------------------------------------------------------------------------
Hook(t) == \/ GetConfig(t) \/ SaveConfig(t) \/ Lock(t) \/ Report(t) \/ Return(t)

BootstrapRuntime(t) ==
  \/ Load(t) \/ ConsiderProject(t) \/ ActivateProject(t) \/ ActivateProjectFails(t)
  \/ Reload(t) \/ Status(t) \/ Policy(t) \/ Final(t)

\* TreeRingCli.init, in a bootstrap or in the dashboard's migration
CliOpens(t) == CliInit(t) \/ CoreInit(t)

Migrate(t) ==
  MigrateRequest(t) \/ MigrateInspect(t) \/ MigrateImport(t) \/ MigrateStore(t) \/ MigrateMark(t)

Next ==
  \/ \E t \in Threads : Hook(t) \/ BootstrapRuntime(t) \/ CliOpens(t) \/ Migrate(t)
  \/ ProjectChanges \/ OldStoreAppears \/ UpgradeApplied \/ HostChanges \/ Restart

Spec == Init /\ [][Next]_vars

-----------------------------------------------------------------------------
(* Properties. *)

TypeOK ==
  /\ mounted \in BOOLEAN /\ manifest \in Files /\ binding \in Files
  /\ store \in [Roots -> Stores]
  /\ marker \in [Roots -> BOOLEAN] /\ imported \in [Roots -> BOOLEAN]
  /\ runtime \in BOOLEAN /\ policy \in {"open", "coordinated"}
  /\ saved \in ConfigSpace
  /\ cache \subseteq Roots
  /\ lock \in Threads \cup {NoThread}
  /\ pc \in [Threads -> Steps] /\ call \in [Threads -> Calls]
  /\ cfg \in [Threads -> ConfigSpace]
  /\ act \in [Threads -> States]
  /\ pending \in [Threads -> BOOLEAN] /\ confirm \in [Threads -> BOOLEAN]
  /\ ready \in [Threads -> BOOLEAN] /\ ran \in [Threads -> BOOLEAN]
  /\ late \subseteq Threads /\ changes \in Nat

\* "Bootstraps once per memory root" (test_config_hook_bootstraps_once_per_memory_root),
\* for any number of threads: the one thread that bootstraps holds the lock and never works
\* on a root that a bootstrap has already settled; and nobody else holds it, so that no
\* bootstrap that raised, at whatever step, keeps the next one out.
BootstrapsOnce ==
  \A t \in Threads :
    /\ lock = t <=> pc[t] \in Boot
    /\ pc[t] \in Boot => cfg[t].root \notin cache

\* The selection on which a hook may create a store.
MayCreate(c) == IF Explicit(c) THEN c = [project |-> "selected", enabled |-> TRUE,
                                         root |-> "shared"]
                ELSE ~c.enabled

\* A hook that bootstraps creates or changes no store but its configuration's, and that
\* only when no project is selected and activation is switched off, or when a usable
\* project is selected and the store is the one mounted in it: the fallback to the
\* plugin's own store that bootstrap_runtime's early returns are there to prevent, whatever
\* happens to the project's files between its steps.  It leaves it at schema v3, and never
\* touches one that a newer core has written.
OnlySelectedStore ==
  [][ \A t \in Threads, root \in Roots :
        pc[t] \in Boot /\ pc'[t] # pc[t] /\ store'[root] # store[root]
          => /\ root = cfg[t].root /\ MayCreate(cfg[t])
             /\ store[root] \in {"absent", "old"} /\ store'[root] = "v3" ]_vars

\* The gate as far as it reaches: outside project activation, the only old store that a hook
\* or a migration migrates is one that has appeared since TreeRingCli.init looked, while the
\* core's `init' was being started.  One that is there before, even if only since the status
\* or since ensure_initialized looked, is refused.  The exception is a gap of the code: nothing
\* locks the store, and the core's `init' knows of no gate.
GateHeldWhenLooked ==
  [][ \A t \in Threads, root \in Roots :
        pc'[t] # pc[t] /\ store[root] = "old" /\ store'[root] = "v3"
          => pc[t] = "activate" \/ t \in late ]_vars

\* The marker that stops later migrations never precedes an import, whichever of the
\* bootstrap and the dashboard wrote it, and a bootstrap that saw a pending migration it
\* may import goes on to report the store ready only when there is a marker.
MigrationMarked ==
  /\ \A root \in Roots : marker[root] => imported[root]
  /\ \A t \in Threads : pc[t] = "final" /\ pending[t] /\ confirm[t] => marker[cfg[t].root]

\* Why: a call is inside the migration of the dashboard only if the dashboard made it, and
\* inside a bootstrap only if it did not; and a bootstrap gets past its early returns only
\* with a configuration that may create its store.
CallsKept ==
  \A t \in Threads :
    /\ pc[t] \in Migration => Dashboard(t)
    /\ pc[t] \in Boot \cup {"lock"} => ~Dashboard(t)
    /\ pc[t] \in Boot \ {"load", "candidate", "report"} => MayCreate(cfg[t])
    /\ pc[t] = "activate" => Explicit(cfg[t])

\* README: the bridge "never auto-opens an existing unversioned v0.12 or versioned
\* schema-v1/v2 store"; bootstrap_runtime: "without crossing the offline upgrade gate".
\* Only the operator's explicit upgrade migrates an old store.
NeverAutoOpened ==
  [][ \A t \in Threads, root \in Roots :
        store[root] = "old" /\ store'[root] = "v3" => pc'[t] = pc[t] ]_vars

\* save_plugin_config: "apply a saved project configuration immediately", so that "the
\* project-scoped activation bootstrap complete[s] in the same user action".  A save that
\* selects a mounted project with nothing but its activation missing has tried to
\* bootstrap it.
SavedIsApplied ==
  \A t \in Threads :
    pc[t] = "return" /\ call[t] = "save" /\ Candidate(cfg[t], "needs-project-mount")
      => ran[t]
=============================================================================
