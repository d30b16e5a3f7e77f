--------------------------- MODULE BootstrapProofs ---------------------------
(***************************************************************************)
(* What the configuration hooks keep for every number of threads, every set of   *)
(* configurations, and any sequence of changes from outside.                    *)
(***************************************************************************)
EXTENDS Bootstrap, TLAPS

IInv == TypeOK /\ BootstrapsOnce /\ CallsKept

LEMMA Initially == Init => IInv
  BY BootstrapAssumption
  DEF Init, IInv, TypeOK, BootstrapsOnce, CallsKept, Roots, Stores, Files, States, Calls,
      Steps, Boot, ConfigSpace, Default, Migration

LEMMA HookKeeps == ASSUME IInv, NEW t \in Threads, Hook(t) PROVE IInv'
<1>1. ASSUME NEW what \in {"get", "save"}, NEW c \in ConfigSpace, Call(t, what, c)
      PROVE  IInv'
  BY <1>1 DEF IInv, TypeOK, BootstrapsOnce, CallsKept, Call, Goto, files,
     Steps, Boot, Calls, Dashboard, MayCreate, Explicit, Migration
<1>2. CASE GetConfig(t) \/ SaveConfig(t)
  <2>1. CASE GetConfig(t)
    BY <1>1, <2>1 DEF GetConfig, IInv, TypeOK
  <2>2. CASE SaveConfig(t)
    <3>1. PICK c \in Configs : Call(t, "save", c)
      BY <2>2 DEF SaveConfig
    <3>2. c \in ConfigSpace
      BY BootstrapAssumption
    <3> QED BY <1>1, <3>1, <3>2
  <2> QED BY <1>2, <2>1, <2>2
<1>3. CASE Lock(t)
  <2>1. CASE cfg[t].root \in cache
    BY <1>3, <2>1 DEF IInv, TypeOK, BootstrapsOnce, CallsKept, Lock, Goto,
       files, Steps, Boot, Dashboard, MayCreate, Explicit, Migration
  <2>2. CASE cfg[t].root \notin cache
    <3>1. TypeOK'
      BY <1>3, <2>2 DEF IInv, TypeOK, Lock, Goto, files, Steps, Boot, Migration
    <3>2. \A s \in Threads : s # t => pc[s] \notin Boot
      BY <1>3, BootstrapAssumption DEF IInv, BootstrapsOnce, Lock
    <3>3. BootstrapsOnce'
      <4>1. /\ lock' = t /\ pc' = [pc EXCEPT ![t] = "load"] /\ "load" \in Boot
            /\ UNCHANGED <<cache, cfg>> /\ pc \in [Threads -> Steps]
        BY <1>3, <2>2 DEF IInv, TypeOK, Lock, Goto, Boot
      <4> QED BY <2>2, <3>2, <4>1 DEF BootstrapsOnce
    <3>4. CallsKept'
      BY <1>3, <2>2 DEF IInv, TypeOK, CallsKept, Lock, Goto, files, Boot, Dashboard,
         MayCreate, Explicit, Migration
    <3> QED BY <3>1, <3>3, <3>4 DEF IInv
  <2> QED BY <2>1, <2>2
<1>4. CASE Report(t)
  <2>1. lock = t
    BY <1>4 DEF IInv, BootstrapsOnce, Report, Boot
  <2> QED
    BY <1>4, <2>1, BootstrapAssumption DEF IInv, TypeOK, BootstrapsOnce, CallsKept, Report,
       Goto, files, locals, Steps, Boot, Dashboard, MayCreate, Explicit, ConfigSpace, Migration
<1>5. CASE Return(t)
  BY <1>5, BootstrapAssumption DEF IInv, TypeOK, BootstrapsOnce, CallsKept, Return, Leave,
     Goto, files, Steps, Boot, Calls, States, Default, ConfigSpace, Roots, Dashboard,
     MayCreate, Explicit, Migration
<1> QED BY <1>2, <1>3, <1>4, <1>5 DEF Hook

\* A hook that raises leaves a state as good as the one it found.
LEMMA RaiseKeeps ==
  ASSUME IInv, NEW t \in Threads, Raise(t),
         UNCHANGED <<mounted, manifest, binding, runtime, policy, saved, cache, changes>>,
         store' \in [Roots -> Stores], marker' \in [Roots -> BOOLEAN],
         imported' \in [Roots -> BOOLEAN], late' \subseteq Threads
  PROVE  IInv'
  BY BootstrapAssumption
  DEF IInv, TypeOK, BootstrapsOnce, CallsKept, Raise, Leave, Goto, Steps, Boot, Calls,
      States, Default, ConfigSpace, Roots, Dashboard, MayCreate, Explicit, Migration

\* A step from one part of a bootstrap to another keeps the lock and the configuration.
LEMMA StepKeeps ==
  ASSUME IInv, NEW t \in Threads, pc[t] \in Boot, NEW step \in Boot, Goto(t, step),
         UNCHANGED <<mounted, runtime, policy, saved, cache, lock, call, cfg, ran, changes>>,
         store' \in [Roots -> Stores], marker' \in [Roots -> BOOLEAN],
         imported' \in [Roots -> BOOLEAN], manifest' \in Files, binding' \in Files,
         late' \subseteq Threads,
         act' \in [Threads -> States], pending' \in [Threads -> BOOLEAN],
         confirm' \in [Threads -> BOOLEAN], ready' \in [Threads -> BOOLEAN],
         step \in Boot \ {"load", "candidate", "report"} => MayCreate(cfg[t]),
         step = "activate" => Explicit(cfg[t])
  PROVE  IInv'
<1>1. TypeOK'
  BY DEF IInv, TypeOK, Goto, Steps, Migration
<1>2. pc' = [pc EXCEPT ![t] = step] /\ pc \in [Threads -> Steps]
  BY DEF Goto, IInv, TypeOK
<1>3. BootstrapsOnce'
  BY <1>2 DEF IInv, BootstrapsOnce
<1>4. CallsKept'
  BY <1>2 DEF IInv, CallsKept, Boot, Dashboard, MayCreate, Explicit, Migration
<1> QED BY <1>1, <1>3, <1>4 DEF IInv

LEMMA BootstrapKeeps ==
  ASSUME IInv, NEW t \in Threads, BootstrapRuntime(t) PROVE IInv'
<1>0. /\ TypeOK /\ cfg[t] \in ConfigSpace /\ Activation(cfg[t]) \in States
      /\ pc[t] \in Boot \ {"load", "candidate", "report"} => MayCreate(cfg[t])
  BY DEF IInv, TypeOK, CallsKept, Activation, States, Migration
<1>1. CASE Load(t)
  <2>1. Activation(cfg[t]) = "configured-awaiting-proof" /\ Explicit(cfg[t])
          => MayCreate(cfg[t])
    BY <1>0 DEF Activation, MayCreate, Explicit, ConfigSpace
  <2>2. ~Explicit(cfg[t]) /\ ~cfg[t].enabled => MayCreate(cfg[t])
    BY DEF MayCreate
  <2>3. PICK step \in {"status", "candidate", "report"} :
          Goto(t, step) /\ (step = "status" => MayCreate(cfg[t]))
    BY <1>0, <1>1, <2>1, <2>2 DEF Load, TypeOK
  <2> QED
    BY <1>0, <1>1, <2>3, StepKeeps DEF Load, Boot, files, TypeOK
<1>2. CASE ConsiderProject(t)
  <2>1. Candidate(cfg[t], act[t]) => MayCreate(cfg[t]) /\ Explicit(cfg[t])
    BY <1>0 DEF Candidate, MayCreate, Explicit, ConfigSpace
  <2> QED
    BY <1>0, <1>2, <2>1, StepKeeps DEF ConsiderProject, Boot, files, locals, TypeOK
<1>3. CASE ActivateProject(t) \/ ActivateProjectFails(t)
  BY <1>0, <1>3, StepKeeps
  DEF ActivateProject, ActivateProjectFails, Boot, files, locals, TypeOK, Stores, Files, Roots
<1>4. CASE Reload(t)
  BY <1>0, <1>4, StepKeeps DEF Reload, Boot, files, TypeOK
<1>5. CASE Status(t)
  <2>1. CASE Raise(t)
    BY <1>0, <1>5, <2>1, RaiseKeeps DEF Status, files, TypeOK
  <2>2. CASE ~Raise(t)
    <3>1. PICK step \in {"report", "init", "policy", "final"} : Goto(t, step)
      BY <1>5, <2>2 DEF Status
    <3>2. pending' \in [Threads -> BOOLEAN] /\ confirm' \in [Threads -> BOOLEAN]
      BY <1>0, <1>5, <2>2 DEF Status, locals, TypeOK
    <3>3. /\ pc[t] = "status"
          /\ UNCHANGED <<lock, call, cfg, act, ready, ran>>
      BY <1>5, <2>2 DEF Status, locals
    <3> QED
      BY <1>0, <1>5, <3>1, <3>2, <3>3, StepKeeps DEF Status, Boot, files, TypeOK
  <2> QED BY <2>1, <2>2
<1>6. CASE Policy(t)
  <2>1. CASE Raise(t)
    BY <1>0, <1>6, <2>1, RaiseKeeps DEF Policy, files, TypeOK
  <2>2. CASE ~Raise(t)
    BY <1>0, <1>6, <2>2, StepKeeps DEF Policy, Boot, files, TypeOK
  <2> QED BY <2>1, <2>2
<1>7. CASE Final(t)
  <2>1. CASE Raise(t)
    BY <1>0, <1>7, <2>1, RaiseKeeps DEF Final, files, TypeOK
  <2>2. CASE ~Raise(t)
    BY <1>0, <1>7, <2>2, StepKeeps DEF Final, Boot, files, TypeOK
  <2> QED BY <2>1, <2>2
<1> QED
  BY <1>1, <1>2, <1>3, <1>4, <1>5, <1>6, <1>7 DEF BootstrapRuntime

\* A step of the dashboard's migration, or out of a migration.
LEMMA MigrationKeeps ==
  ASSUME IInv, NEW t \in Threads, NEW step \in Migration \cup {"return"},
         Goto(t, step), Dashboard(t),
         UNCHANGED <<mounted, manifest, binding, runtime, policy, saved, cache, lock,
                     locals, changes>>,
         store' \in [Roots -> Stores], marker' \in [Roots -> BOOLEAN],
         imported' \in [Roots -> BOOLEAN], late' \subseteq Threads
  PROVE  IInv'
  BY DEF IInv, TypeOK, BootstrapsOnce, CallsKept, Goto, Steps, Boot, Migration, Dashboard,
      MayCreate, Explicit, locals

\* The look of TreeRingCli.init, and the core's.
LEMMA OpenKeeps == ASSUME IInv, NEW t \in Threads, CliOpens(t) PROVE IInv'
<1>0. /\ TypeOK
      /\ pc[t] \in {"init", "open"} => MayCreate(cfg[t]) /\ ~Dashboard(t)
      /\ pc[t] \in {"m-init", "m-open"} => Dashboard(t)
  BY DEF IInv, CallsKept, Boot, Migration
<1>1. /\ pc[t] \in {"init", "open", "m-init", "m-open"}
      /\ store' \in [Roots -> Stores] /\ late' \subseteq Threads
      /\ UNCHANGED <<mounted, manifest, binding, marker, imported, runtime, policy, saved,
                     cache, changes>>
  BY <1>0 DEF CliOpens, CliInit, CoreInit, Opening, TypeOK, Stores
<1>2. CASE Raise(t)
  BY <1>0, <1>1, <1>2, RaiseKeeps DEF TypeOK
<1>3. CASE ~Raise(t) /\ Dashboard(t)
  <2>1. /\ UNCHANGED <<lock, locals>>
        /\ \E step \in {"m-open", "m-store"} : Goto(t, step)
    BY <1>3 DEF CliOpens, CliInit, CoreInit
  <2> QED BY <1>0, <1>1, <1>3, <2>1, MigrationKeeps DEF Migration, TypeOK
<1>4. CASE ~Raise(t) /\ ~Dashboard(t)
  <2>1. /\ UNCHANGED <<lock, locals>>
        /\ \E step \in {"open", "policy", "final"} : Goto(t, step)
    BY <1>4 DEF CliOpens, CliInit, CoreInit
  <2> QED BY <1>0, <1>1, <1>4, <2>1, StepKeeps DEF Boot, locals, TypeOK
<1> QED BY <1>2, <1>3, <1>4

LEMMA MigrateKeeps == ASSUME IInv, NEW t \in Threads, Migrate(t) PROVE IInv'
<1>0. /\ TypeOK /\ cfg[t] \in ConfigSpace
      /\ pc[t] \in Boot \ {"load", "candidate", "report"} => MayCreate(cfg[t])
      /\ pc[t] \in Migration => Dashboard(t)
  BY DEF IInv, TypeOK, CallsKept, Migration
<1>1. CASE MigrateRequest(t)
  BY <1>1 DEF IInv, TypeOK, BootstrapsOnce, CallsKept, MigrateRequest, Goto, files,
     Steps, Boot, Migration, Calls, Dashboard, MayCreate, Explicit
<1>2. CASE MigrateInspect(t)
  <2>1. CASE Raise(t)
    BY <1>0, <1>2, <2>1, RaiseKeeps DEF MigrateInspect, files, TypeOK
  <2>2. CASE ~Raise(t) /\ Dashboard(t)
    BY <1>0, <1>2, <2>2, MigrationKeeps DEF MigrateInspect, Migrated, Migration, files, TypeOK
  <2>3. CASE ~Raise(t) /\ ~Dashboard(t)
    BY <1>0, <1>2, <2>3, StepKeeps
    DEF MigrateInspect, Migrated, Boot, Migration, files, locals, TypeOK
  <2> QED BY <2>1, <2>2, <2>3
<1>3. CASE MigrateImport(t)
  <2>1. CASE Raise(t)
    BY <1>0, <1>3, <2>1, RaiseKeeps DEF MigrateImport, files, TypeOK
  <2>2. CASE ~Raise(t) /\ Dashboard(t)
    BY <1>0, <1>3, <2>2, MigrationKeeps DEF MigrateImport, Migrated, Migration, files, TypeOK
  <2>3. CASE ~Raise(t) /\ ~Dashboard(t)
    BY <1>0, <1>3, <2>3, StepKeeps
    DEF MigrateImport, Migrated, Boot, Migration, files, locals, TypeOK
  <2> QED BY <2>1, <2>2, <2>3
<1>4. CASE MigrateStore(t)
  <2>0. imported' \in [Roots -> BOOLEAN]
    BY <1>0, <1>4 DEF MigrateStore, TypeOK
  <2>1. CASE Raise(t)
    BY <1>0, <1>4, <2>0, <2>1, RaiseKeeps DEF MigrateStore, TypeOK
  <2>2. CASE ~Raise(t) /\ Dashboard(t)
    BY <1>0, <1>4, <2>0, <2>2, MigrationKeeps DEF MigrateStore, Migration, TypeOK
  <2>3. CASE ~Raise(t) /\ ~Dashboard(t)
    BY <1>0, <1>4, <2>0, <2>3, StepKeeps
    DEF MigrateStore, Boot, Migration, locals, TypeOK
  <2> QED BY <2>1, <2>2, <2>3
<1>5. CASE MigrateMark(t)
  <2>0. marker' \in [Roots -> BOOLEAN]
    BY <1>0, <1>5 DEF MigrateMark, TypeOK
  <2>1. CASE Raise(t)
    BY <1>0, <1>5, <2>0, <2>1, RaiseKeeps DEF MigrateMark, TypeOK
  <2>2. CASE ~Raise(t) /\ Dashboard(t)
    BY <1>0, <1>5, <2>0, <2>2, MigrationKeeps DEF MigrateMark, Migrated, Migration, TypeOK
  <2>3. CASE ~Raise(t) /\ ~Dashboard(t)
    BY <1>0, <1>5, <2>0, <2>3, StepKeeps
    DEF MigrateMark, Migrated, Boot, Migration, locals, TypeOK
  <2> QED BY <2>1, <2>2, <2>3
<1> QED BY <1>1, <1>2, <1>3, <1>4, <1>5 DEF Migrate

LEMMA OutsideKeeps ==
  ASSUME IInv,
         ProjectChanges \/ OldStoreAppears \/ UpgradeApplied \/ HostChanges \/ Restart
  PROVE  IInv'
<1>1. CASE Restart
  <2>1. TypeOK'
    BY <1>1, BootstrapAssumption
    DEF IInv, TypeOK, Restart, Steps, Calls, States, Default, ConfigSpace, Roots, Migration
  <2>2. \A t \in Threads : pc'[t] = "idle"
    BY <1>1 DEF Restart
  <2>3. lock' = NoThread
    BY <1>1 DEF Restart
  <2> QED
    BY <2>1, <2>2, <2>3, BootstrapAssumption DEF IInv, BootstrapsOnce, CallsKept, Boot, Migration
<1>2. ASSUME Outside, store' \in [Roots -> Stores], mounted' \in BOOLEAN,
             manifest' \in Files, binding' \in Files, runtime' \in BOOLEAN,
             policy' \in {"open", "coordinated"}, late' \subseteq Threads
      PROVE  IInv'
  BY <1>2 DEF IInv, TypeOK, BootstrapsOnce, CallsKept, Outside, locals, Dashboard,
     MayCreate, Explicit, Migration
<1>3. CASE ProjectChanges
  BY <1>2, <1>3 DEF ProjectChanges, IInv, TypeOK
<1>4. CASE HostChanges
  BY <1>2, <1>4 DEF HostChanges, IInv, TypeOK
<1>5. CASE OldStoreAppears \/ UpgradeApplied
  <2>1. PICK root \in Roots, version \in Stores :
          store' = [store EXCEPT ![root] = version]
    BY <1>5 DEF OldStoreAppears, UpgradeApplied, Stores
  <2>2. store' \in [Roots -> Stores]
    BY <2>1 DEF IInv, TypeOK
  <2>3. late' \subseteq Threads
    BY <1>5 DEF OldStoreAppears, UpgradeApplied, IInv, TypeOK
  <2> QED BY <1>2, <1>5, <2>2, <2>3 DEF OldStoreAppears, UpgradeApplied, IInv, TypeOK
<1> QED BY <1>1, <1>3, <1>4, <1>5

LEMMA Stuttering == ASSUME IInv, UNCHANGED vars PROVE IInv'
  BY DEF IInv, TypeOK, BootstrapsOnce, CallsKept, vars, Dashboard, MayCreate, Explicit, Migration

LEMMA Keeps == IInv /\ [Next]_vars => IInv'
  BY HookKeeps, BootstrapKeeps, OpenKeeps, MigrateKeeps, OutsideKeeps, Stuttering DEF Next

\* Every behaviour of the hooks keeps the inductive invariant.
THEOREM HooksInvariance == Spec => []IInv
  BY Initially, Keeps, PTL DEF Spec

\* Every variable keeps its type.
THEOREM HooksTypeCorrect == Spec => []TypeOK
<1>1. IInv => TypeOK BY DEF IInv
<1> QED BY <1>1, HooksInvariance, PTL

\* Any number of threads bootstrap one at a time, and a settled root never again before a
\* restart.
THEOREM OneBootstrap == Spec => []BootstrapsOnce
<1>1. IInv => BootstrapsOnce BY DEF IInv
<1> QED BY <1>1, HooksInvariance, PTL

\* A bootstrap past its early returns has a configuration that may create its store.
THEOREM SelectionKept == Spec => []CallsKept
<1>1. IInv => CallsKept BY DEF IInv
<1> QED BY <1>1, HooksInvariance, PTL

-----------------------------------------------------------------------------
(* What a single step may do to a store. *)

SelectedStep ==
  \A t \in Threads, root \in Roots :
    pc[t] \in Boot /\ pc'[t] # pc[t] /\ store'[root] # store[root]
      => /\ root = cfg[t].root /\ MayCreate(cfg[t])
         /\ store[root] \in {"absent", "old"} /\ store'[root] = "v3"

GateStep ==
  \A t \in Threads, root \in Roots :
    pc'[t] # pc[t] /\ store[root] = "old" /\ store'[root] = "v3"
      => pc[t] = "activate" \/ t \in late

\* Which steps of a call change a store, and which store.
LEMMA StoreSteps ==
  ASSUME IInv, Next, NEW root \in Roots, store'[root] # store[root], pc' # pc
  PROVE  \E s \in Threads, step \in Steps :
           /\ Goto(s, step)
           /\ store[root] \in {"absent", "old"} /\ store'[root] = "v3"
           /\ \/ pc[s] = "activate" /\ root = "shared"
              \/ pc[s] \in Opening /\ root = cfg[s].root
<1>1. PICK s \in Threads : ActivateProject(s) \/ CoreInit(s)
  <2>1. ~(ProjectChanges \/ OldStoreAppears \/ UpgradeApplied \/ HostChanges)
    BY DEF ProjectChanges, OldStoreAppears, UpgradeApplied, HostChanges, Outside
  <2>2. ~Restart
    BY DEF Restart
  <2>3. PICK s \in Threads : Hook(s) \/ BootstrapRuntime(s) \/ CliOpens(s) \/ Migrate(s)
    BY <2>1, <2>2 DEF Next
  <2>4. ~Hook(s)
    BY DEF Hook, GetConfig, SaveConfig, Call, Lock, Report, Return, files
  <2>5. CASE BootstrapRuntime(s)
    BY <2>5 DEF BootstrapRuntime, Load, ConsiderProject, ActivateProjectFails, Reload,
       Status, Policy, Final, files
  <2>6. CASE CliOpens(s)
    BY <2>6 DEF CliOpens, CliInit
  <2>7. CASE Migrate(s)
    BY <2>7 DEF Migrate, MigrateRequest, MigrateInspect, MigrateImport, MigrateStore,
       MigrateMark, files
  <2> QED BY <2>3, <2>4, <2>5, <2>6, <2>7
<1>2. CASE ActivateProject(s)
  BY <1>2 DEF ActivateProject, Steps, Boot, IInv, TypeOK, Roots, Stores, Migration
<1>3. CASE CoreInit(s)
  <2>1. /\ pc[s] \in Opening /\ root = cfg[s].root
        /\ store[root] # "newer" /\ store'[root] = "v3"
    BY <1>3 DEF CoreInit, IInv, TypeOK
  <2>2. PICK step \in Steps : Goto(s, step)
    BY <1>3 DEF CoreInit, Raise, Leave, Steps, Boot, Migration
  <2> QED BY <2>1, <2>2 DEF IInv, TypeOK, Stores
<1> QED BY <1>1, <1>2, <1>3

LEMMA Selected == IInv /\ [Next]_vars => SelectedStep
<1> SUFFICES ASSUME IInv, Next, NEW t \in Threads, NEW root \in Roots,
                    pc[t] \in Boot, pc'[t] # pc[t], store'[root] # store[root]
             PROVE  /\ root = cfg[t].root /\ MayCreate(cfg[t])
                    /\ store[root] \in {"absent", "old"} /\ store'[root] = "v3"
  BY DEF SelectedStep, vars
<1>1. PICK s \in Threads, step \in Steps :
        /\ Goto(s, step) /\ store[root] \in {"absent", "old"} /\ store'[root] = "v3"
        /\ \/ pc[s] = "activate" /\ root = "shared"
           \/ pc[s] \in Opening /\ root = cfg[s].root
  BY StoreSteps
<1>2. s = t
  BY <1>1 DEF Goto, IInv, TypeOK
<1>3. MayCreate(cfg[t])
  BY <1>1, <1>2 DEF IInv, CallsKept, Boot, Opening, Migration
<1>4. CASE pc[t] = "activate"
  <2>1. Explicit(cfg[t])
    BY <1>4 DEF IInv, CallsKept, Migration
  <2> QED BY <1>1, <1>2, <1>3, <1>4, <2>1 DEF MayCreate
<1> QED BY <1>1, <1>2, <1>3, <1>4

\* An old store under a call that runs the core's `init' has appeared since the call looked.
Overtaken ==
  \A t \in Threads : pc[t] \in Opening /\ store[cfg[t].root] = "old" => t \in late

LEMMA OvertakenStep == IInv /\ Overtaken /\ [Next]_vars => Overtaken'
<1> SUFFICES ASSUME IInv, Overtaken, [Next]_vars, NEW t \in Threads,
                    pc'[t] \in Opening, store'[cfg'[t].root] = "old"
             PROVE  t \in late'
  BY DEF Overtaken
<1>0. /\ pc \in [Threads -> Steps] /\ cfg \in [Threads -> ConfigSpace]
      /\ store \in [Roots -> Stores] /\ late \subseteq Threads
  BY DEF IInv, TypeOK
<1>1. CASE UNCHANGED <<store, pc, cfg, late>>
  BY <1>1 DEF Overtaken
\* Another call's step leaves this one where it is, and makes no store old; its own step
\* gets there only past the look.
<1>2. ASSUME NEW s \in Threads,
             Hook(s) \/ BootstrapRuntime(s) \/ CliOpens(s) \/ Migrate(s)
      PROVE  t \in late'
  <2> USE DEF Hook, GetConfig, SaveConfig, Call, Lock, Report, Return, BootstrapRuntime, Load,
              ConsiderProject, ActivateProject, ActivateProjectFails, Reload, Status, Policy,
              Final, Migrate, MigrateRequest, MigrateInspect, MigrateImport, MigrateStore,
              MigrateMark
  <2>1. \A root \in Roots : store'[root] = "old" => store[root] = "old"
    BY <1>0, <1>2 DEF CliOpens, CliInit, CoreInit, files
  <2>2. /\ late' = late \/ (CliInit(s) /\ late' = late \ {s})
        /\ \E step : Goto(s, step)
        /\ s # t => cfg'[t] = cfg[t]
    BY <1>0, <1>2 DEF CliOpens, CliInit, CoreInit, files, locals, Raise, Leave
  <2>3. CASE s # t
    <3>1. pc'[t] = pc[t] /\ cfg[t].root \in Roots
      BY <1>0, <2>2, <2>3 DEF Goto, ConfigSpace
    <3> QED BY <2>1, <2>2, <2>3, <3>1 DEF Overtaken
  <2>4. CASE s = t
    <3>1. CliInit(t) /\ ~Raise(t)
      BY <1>0, <1>2, <2>4
      DEF CliOpens, CoreInit, Migrated, Raise, Leave, Goto, Opening
    <3> QED BY <3>1 DEF CliInit, locals
  <2> QED BY <2>3, <2>4
<1>3. CASE OldStoreAppears
  BY <1>0, <1>3 DEF OldStoreAppears, Outside, locals, Overtaken, ConfigSpace
<1>4. CASE ProjectChanges \/ HostChanges
  BY <1>1, <1>4 DEF ProjectChanges, HostChanges, Outside, locals
<1>5. CASE UpgradeApplied
  BY <1>0, <1>5 DEF UpgradeApplied, Outside, locals, Overtaken, ConfigSpace
<1>6. CASE Restart
  BY <1>6 DEF Restart, Opening
<1> QED BY <1>1, <1>2, <1>3, <1>4, <1>5, <1>6 DEF Next, vars

LEMMA Gated == IInv /\ Overtaken /\ [Next]_vars => GateStep
<1> SUFFICES ASSUME IInv, Overtaken, Next, NEW t \in Threads, NEW root \in Roots,
                    pc'[t] # pc[t], store[root] = "old", store'[root] = "v3"
             PROVE  pc[t] = "activate" \/ t \in late
  BY DEF GateStep, vars
<1>1. PICK s \in Threads, step \in Steps :
        /\ Goto(s, step)
        /\ pc[s] = "activate" \/ (pc[s] \in Opening /\ root = cfg[s].root)
  BY StoreSteps
<1>2. s = t
  BY <1>1 DEF Goto, IInv, TypeOK
<1> QED BY <1>1, <1>2 DEF Overtaken

\* No bootstrap creates or changes a store other than the one its configuration selects.
THEOREM SelectedOnly == Spec => OnlySelectedStore
<1>1. IInv /\ [Next]_vars => [SelectedStep]_vars
  BY Selected
<1> QED BY <1>1, HooksInvariance, PTL DEF Spec, OnlySelectedStore, SelectedStep

\* Outside project activation a call migrates an old store only if the store has appeared
\* between the call's own look and the core's `init'.
THEOREM GateHeld == Spec => GateHeldWhenLooked
<1>1. Init => Overtaken
  BY DEF Init, Overtaken, Opening
<1>2. IInv /\ Overtaken /\ [Next]_vars => Overtaken' /\ [GateStep]_vars
  BY OvertakenStep, Gated
<1> QED BY <1>1, <1>2, HooksInvariance, PTL DEF Spec, GateHeldWhenLooked, GateStep

-----------------------------------------------------------------------------
(* The marker of the legacy migration. *)

\* What a call relies on between the steps of its migration.
MarkInv(t) ==
  /\ pc[t] = "idle" => ~pending[t]
  /\ pending[t] => cfg[t].root \in LegacyRoots
  /\ pc[t] \in Boot \cup {"lock"} => ~Dashboard(t)
  /\ pc[t] \in Migration => Dashboard(t)
  /\ pc[t] \in {"mark", "m-mark"} => imported[cfg[t].root]
  /\ pc[t] = "final" /\ pending[t] /\ confirm[t] => marker[cfg[t].root]

Marked ==
  /\ \A root \in Roots : marker[root] => imported[root]
  /\ \A t \in Threads : MarkInv(t)

\* A step of one call leaves the others what they rely on: nothing is ever unmarked.
LEMMA OthersMarked ==
  ASSUME TypeOK, Marked, NEW t \in Threads,
         \A s \in Threads \ {t} :
           /\ pc'[s] = pc[s] /\ call'[s] = call[s] /\ cfg'[s] = cfg[s]
           /\ pending'[s] = pending[s] /\ confirm'[s] = confirm[s],
         \A root \in Roots : /\ marker[root] => marker'[root]
                             /\ imported[root] => imported'[root]
                             /\ marker'[root] => imported'[root],
         MarkInv(t)'
  PROVE  Marked'
<1>1. ASSUME NEW s \in Threads, s # t PROVE MarkInv(s)'
  <2>1. cfg[s].root \in Roots
    BY DEF TypeOK, ConfigSpace
  <2> QED BY <1>1, <2>1 DEF Marked, MarkInv, Dashboard
<1> QED BY <1>1 DEF Marked

\* A call that returns or raises.
LEMMA LeftMarked ==
  ASSUME TypeOK, Marked, NEW t \in Threads, Leave(t), UNCHANGED marker,
         \A root \in Roots : imported[root] => imported'[root]
  PROVE  Marked'
<1>1. MarkInv(t)'
  BY DEF Leave, Goto, TypeOK, MarkInv, Boot, Migration
<1>2. \A s \in Threads \ {t} :
        /\ pc'[s] = pc[s] /\ call'[s] = call[s] /\ cfg'[s] = cfg[s]
        /\ pending'[s] = pending[s] /\ confirm'[s] = confirm[s]
  BY DEF Leave, Goto, TypeOK
<1> QED BY <1>1, <1>2, OthersMarked DEF Marked

\* A step that neither looks for a migration, nor imports, nor ends one.
LEMMA MovedMarked ==
  ASSUME TypeOK, Marked, NEW t \in Threads,
         NEW step \in Boot \cup Migration \cup {"lock", "return"},
         Goto(t, step), pc[t] # "idle",
         step \in Boot \cup {"lock"} => pc[t] \in Boot \cup {"lock"},
         step \in Migration => Dashboard(t),
         step \notin {"mark", "m-mark", "final"} \/ (step = "final" /\ ~pending[t]),
         UNCHANGED <<marker, imported, call, cfg, pending>>,
         \A s \in Threads \ {t} : confirm'[s] = confirm[s]
  PROVE  Marked'
<1>1. MarkInv(t)'
  BY DEF Goto, TypeOK, Marked, MarkInv, Dashboard, Boot, Migration
<1>2. \A s \in Threads \ {t} : pc'[s] = pc[s]
  BY DEF Goto, TypeOK
<1> QED BY <1>1, <1>2, OthersMarked DEF Marked

LEMMA MarkedInit == Init => Marked
  BY DEF Init, Marked, MarkInv, Boot, Migration

LEMMA HookMarked == ASSUME TypeOK, Marked, NEW t \in Threads, Hook(t) PROVE Marked'
<1>1. ASSUME NEW what \in {"get", "save"}, NEW c, Call(t, what, c) PROVE Marked'
  <2>1. /\ pc[t] = "idle" /\ UNCHANGED <<marker, imported, pending, confirm>>
        /\ \/ pc' = [pc EXCEPT ![t] = "return"]
           \/ pc' = [pc EXCEPT ![t] = "lock"]
        /\ call' = [call EXCEPT ![t] = what] /\ cfg' = [cfg EXCEPT ![t] = c]
    BY <1>1 DEF Call, Goto, files
  <2>2. MarkInv(t)'
    BY <2>1 DEF TypeOK, Marked, MarkInv, Dashboard, Boot, Migration
  <2>3. \A s \in Threads \ {t} : pc'[s] = pc[s] /\ call'[s] = call[s] /\ cfg'[s] = cfg[s]
    BY <2>1 DEF TypeOK
  <2> QED BY <2>1, <2>2, <2>3, OthersMarked DEF Marked
<1>2. CASE Lock(t)
  BY <1>2, MovedMarked DEF Lock, files, Boot, Migration
<1>3. CASE Report(t)
  BY <1>3, MovedMarked DEF Report, files, locals, Boot, Migration
<1>4. CASE Return(t)
  BY <1>4, LeftMarked DEF Return, files
<1> QED BY <1>1, <1>2, <1>3, <1>4 DEF Hook, GetConfig, SaveConfig

LEMMA BootstrapMarked ==
  ASSUME TypeOK, Marked, NEW t \in Threads, BootstrapRuntime(t) PROVE Marked'
<1>1. CASE Raise(t)
  <2>1. UNCHANGED <<marker, imported>>
    BY DEF BootstrapRuntime, Load, ConsiderProject, ActivateProject, ActivateProjectFails,
       Reload, Status, Policy, Final, files
  <2> QED BY <1>1, <2>1, LeftMarked DEF Raise
<1>2. CASE Load(t) \/ ConsiderProject(t) \/ ActivateProject(t) \/ ActivateProjectFails(t)
             \/ Reload(t)
  <2> USE DEF Load, ConsiderProject, ActivateProject, ActivateProjectFails, Reload
  <2>1. /\ pc[t] \in Boot /\ UNCHANGED <<marker, imported, call, cfg, pending, confirm>>
        /\ \E step \in Boot \ {"mark", "final"} : Goto(t, step)
    BY <1>2 DEF files, locals, Boot
  <2> QED BY <2>1, MovedMarked DEF Boot, Migration
<1>3. CASE Status(t) /\ ~Raise(t)
  <2>1. CASE UNCHANGED locals
    BY <1>3, <2>1, MovedMarked DEF Status, locals, files, Boot, Migration
  <2>2. CASE ~UNCHANGED locals
    <3> DEFINE found == cfg[t].root \in LegacyRoots /\ ~marker[cfg[t].root]
    <3>1. /\ pc[t] = "status" /\ UNCHANGED <<marker, imported, call, cfg>>
          /\ pending' = [pending EXCEPT ![t] = found]
          /\ confirm' = [confirm EXCEPT ![t] = FALSE]
          /\ \E step \in {"init", "policy", "final"} : pc' = [pc EXCEPT ![t] = step]
      BY <1>3, <2>2 DEF Status, files, Goto
    <3>2. MarkInv(t)'
      BY <3>1 DEF TypeOK, Marked, MarkInv, Dashboard, Boot, Migration
    <3>3. \A s \in Threads \ {t} :
            pc'[s] = pc[s] /\ pending'[s] = pending[s] /\ confirm'[s] = confirm[s]
      BY <3>1 DEF TypeOK
    <3> QED BY <3>1, <3>2, <3>3, OthersMarked DEF Marked
  <2> QED BY <2>1, <2>2
<1>4. CASE Policy(t) /\ ~Raise(t)
  <2>1. \A s \in Threads \ {t} : confirm'[s] = confirm[s]
    BY <1>4 DEF Policy, TypeOK
  <2> QED BY <1>4, <2>1, MovedMarked DEF Policy, files, Boot, Migration
<1>5. CASE Final(t) /\ ~Raise(t)
  BY <1>5, MovedMarked DEF Final, files, Boot, Migration
<1> QED BY <1>1, <1>2, <1>3, <1>4, <1>5 DEF BootstrapRuntime

LEMMA OpenMarked == ASSUME TypeOK, Marked, NEW t \in Threads, CliOpens(t) PROVE Marked'
<1>0. /\ MarkInv(t) /\ pc[t] \in {"init", "open", "m-init", "m-open"}
      /\ UNCHANGED <<marker, imported>>
  BY DEF Marked, CliOpens, CliInit, CoreInit, Opening
<1>1. CASE Raise(t)
  BY <1>0, <1>1, LeftMarked DEF Raise
<1>2. CASE ~Raise(t)
  <2>1. UNCHANGED locals
    BY <1>2 DEF CliOpens, CliInit, CoreInit
  <2>2. \/ Dashboard(t) /\ (Goto(t, "m-open") \/ Goto(t, "m-store"))
        \/ ~Dashboard(t) /\ (Goto(t, "open") \/ Goto(t, "policy"))
        \/ ~Dashboard(t) /\ ~pending[t] /\ Goto(t, "final")
    BY <1>2 DEF CliOpens, CliInit, CoreInit
  <2> QED BY <1>0, <2>1, <2>2, MovedMarked DEF locals, MarkInv, Boot, Migration
<1> QED BY <1>1, <1>2

LEMMA MigrateMarked == ASSUME TypeOK, Marked, NEW t \in Threads, Migrate(t) PROVE Marked'
<1> DEFINE root == cfg[t].root
<1>0. root \in Roots /\ MarkInv(t)
  BY DEF TypeOK, ConfigSpace, Marked
<1>1. CASE MigrateRequest(t)
  <2>1. /\ pc[t] = "idle" /\ pc' = [pc EXCEPT ![t] = "m-inspect"]
        /\ UNCHANGED <<marker, imported, pending>> /\ Dashboard(t)'
        /\ \A s \in Threads \ {t} :
             call'[s] = call[s] /\ cfg'[s] = cfg[s] /\ confirm'[s] = confirm[s]
    BY <1>1 DEF MigrateRequest, Goto, files, TypeOK, Dashboard
  <2>2. MarkInv(t)' /\ \A s \in Threads \ {t} : pc'[s] = pc[s]
    BY <1>0, <2>1 DEF TypeOK, MarkInv, Boot, Migration
  <2> QED BY <2>1, <2>2, OthersMarked DEF Marked
<1>2. CASE Raise(t)
  <2>1. UNCHANGED marker /\ \A r \in Roots : imported[r] => imported'[r]
    <3>1. CASE MigrateMark(t)
      BY <1>2, <3>1 DEF MigrateMark, Raise, Leave, Goto, TypeOK, Migrated
    <3>2. CASE ~MigrateMark(t)
      BY <3>2 DEF Migrate, MigrateRequest, MigrateInspect, MigrateImport, MigrateStore, files,
         TypeOK
    <3> QED BY <3>1, <3>2
  <2> QED BY <1>2, <2>1, LeftMarked DEF Raise
<1>3. CASE MigrateInspect(t) /\ ~Raise(t)
  <2>1. /\ pc[t] \in {"inspect", "m-inspect"} /\ UNCHANGED <<marker, imported>>
        /\ UNCHANGED <<call, cfg, pending, confirm>>
        /\ \/ /\ pc' = [pc EXCEPT ![t] = Migrated(t)]
              /\ root \notin LegacyRoots \/ (marker[root] /\ call[t] # "force")
           \/ /\ pc' = [pc EXCEPT ![t] = "m-import"] /\ Dashboard(t)
           \/ /\ pc' = [pc EXCEPT ![t] = "import"] /\ ~Dashboard(t)
    BY <1>3 DEF MigrateInspect, Goto, files, locals
  <2>2. MarkInv(t)' /\ \A s \in Threads \ {t} : pc'[s] = pc[s]
    BY <1>0, <2>1 DEF TypeOK, MarkInv, Dashboard, Migrated, Boot, Migration
  <2> QED BY <2>1, <2>2, OthersMarked DEF Marked
<1>4. CASE MigrateImport(t) /\ ~Raise(t)
  <2>1. /\ pc[t] \in {"import", "m-import"} /\ UNCHANGED <<marker, imported>>
        /\ UNCHANGED <<call, cfg, pending, confirm>>
        /\ \/ ~confirm[t] /\ pc' = [pc EXCEPT ![t] = Migrated(t)]
           \/ ~Dashboard(t) /\ pc' = [pc EXCEPT ![t] = "store"]
           \/ /\ Dashboard(t)
              /\ \E step \in {"m-store", "m-init"} : pc' = [pc EXCEPT ![t] = step]
    BY <1>4 DEF MigrateImport, Goto, files, locals
  <2>2. MarkInv(t)' /\ \A s \in Threads \ {t} : pc'[s] = pc[s]
    BY <1>0, <2>1 DEF TypeOK, MarkInv, Dashboard, Migrated, Boot, Migration
  <2> QED BY <2>1, <2>2, OthersMarked DEF Marked
<1>5. CASE MigrateStore(t) /\ ~Raise(t)
  <2>1. /\ pc[t] \in {"store", "m-store"} /\ UNCHANGED marker
        /\ UNCHANGED <<call, cfg, pending, confirm>>
        /\ imported' = [imported EXCEPT ![root] = TRUE]
        /\ pc' = [pc EXCEPT ![t] = IF Dashboard(t) THEN "m-mark" ELSE "mark"]
    BY <1>5 DEF MigrateStore, Goto, locals
  <2>2. \A r \in Roots : imported[r] => imported'[r]
    BY <2>1 DEF TypeOK
  <2>3. MarkInv(t)' /\ \A s \in Threads \ {t} : pc'[s] = pc[s]
    BY <1>0, <2>1 DEF TypeOK, MarkInv, Dashboard, Boot, Migration
  <2> QED BY <2>1, <2>2, <2>3, OthersMarked DEF Marked
<1>6. CASE MigrateMark(t) /\ ~Raise(t)
  <2>1. /\ pc[t] \in {"mark", "m-mark"} /\ UNCHANGED imported
        /\ UNCHANGED <<call, cfg, pending, confirm>>
        /\ marker' = [marker EXCEPT ![root] = TRUE]
        /\ pc' = [pc EXCEPT ![t] = Migrated(t)]
    BY <1>6 DEF MigrateMark, Goto, locals
  <2>2. \A r \in Roots : (marker[r] => marker'[r]) /\ (marker'[r] => imported'[r])
    BY <1>0, <2>1 DEF TypeOK, MarkInv, Marked
  <2>3. MarkInv(t)' /\ \A s \in Threads \ {t} : pc'[s] = pc[s]
    BY <1>0, <2>1 DEF TypeOK, MarkInv, Dashboard, Migrated, Boot, Migration
  <2> QED BY <2>1, <2>2, <2>3, OthersMarked
<1> QED BY <1>1, <1>2, <1>3, <1>4, <1>5, <1>6 DEF Migrate

LEMMA MarkedStep == TypeOK /\ Marked /\ [Next]_vars => Marked'
<1> SUFFICES ASSUME TypeOK, Marked, [Next]_vars PROVE Marked'
  OBVIOUS
<1>1. ASSUME UNCHANGED <<marker, imported, pc, call, cfg, pending, confirm>> PROVE Marked'
  BY <1>1 DEF Marked, MarkInv, Dashboard
<1>2. CASE ProjectChanges \/ OldStoreAppears \/ UpgradeApplied \/ HostChanges
  BY <1>1, <1>2 DEF ProjectChanges, OldStoreAppears, UpgradeApplied, HostChanges, Outside,
     locals
<1>3. CASE Restart
  BY <1>3 DEF Restart, Marked, MarkInv, Boot, Migration
<1>4. CASE UNCHANGED vars
  BY <1>1, <1>4 DEF vars
<1> QED BY <1>2, <1>3, <1>4, HookMarked, BootstrapMarked, OpenMarked, MigrateMarked DEF Next

\* Any number of bootstraps and dashboard migrations together: the marker that stops later
\* migrations never precedes an import, and no bootstrap reports a store ready past a
\* migration it saw pending and could make.
THEOREM MarkerAfterImport == Spec => []MigrationMarked
<1>1. Marked => MigrationMarked
  BY DEF Marked, MarkInv, MigrationMarked
<1> QED BY <1>1, MarkedInit, MarkedStep, HooksTypeCorrect, PTL DEF Spec
-----------------------------------------------------------------------------
(* What a save may rely on. *)

\* Whoever selects the project's store selects the project too, and activation is on.
Usable(c) == c.root = "shared" => c.project = "selected" /\ c.enabled

\* The project is there and nothing of its activation is.
Bare == mounted /\ manifest = "absent"

\* The root of the project is cached only when its activation is no longer missing, since
\* a bootstrap reports another state only after it has seen another one.
AppliedInv(t) ==
  /\ Usable(cfg[t])
  /\ pc[t] \in Boot => ran[t]
  /\ pc[t] = "return" /\ call[t] = "save" /\ ~ran[t] => cfg[t].root \in cache
  /\ ready[t] => pc[t] \in {"report", "return"}
  /\ pc[t] \in Boot \ {"load"} /\ cfg[t].root = "shared" =>
       /\ act[t] # "needs-project-mount" => ~Bare
       /\ pc[t] \notin {"candidate", "activate", "reload", "report"} \/ ready[t] =>
            act[t] # "needs-project-mount"

Applied ==
  /\ Usable(saved)
  /\ "shared" \in cache => ~Bare
  /\ \A t \in Threads : AppliedInv(t)

LEMMA AppliedInit == Init => Applied
  BY DEF Init, Applied, AppliedInv, Usable, Default, Boot

\* A step of one call: nothing takes the activation away, or a root out of the cache.
LEMMA OthersApplied ==
  ASSUME TypeOK, Applied, NEW t \in Threads, Usable(saved)', AppliedInv(t)',
         UNCHANGED mounted, manifest' \in {manifest, "valid"},
         cache \subseteq cache', "shared" \in cache' => "shared" \in cache \/ ~Bare,
         \A s \in Threads \ {t} :
           /\ pc'[s] = pc[s] /\ call'[s] = call[s] /\ cfg'[s] = cfg[s]
           /\ act'[s] = act[s] /\ ready'[s] = ready[s] /\ ran'[s] = ran[s]
  PROVE  Applied'
<1>1. ~Bare => ~Bare'
  BY DEF Bare
<1>2. ASSUME NEW s \in Threads, s # t PROVE AppliedInv(s)'
  BY <1>1, <1>2 DEF Applied, AppliedInv, Usable
<1> QED BY <1>1, <1>2 DEF Applied

\* A call that returns or raises.
LEMMA LeftApplied ==
  ASSUME TypeOK, Applied, NEW t \in Threads, Leave(t), Usable(saved)',
         UNCHANGED <<mounted, manifest, cache>>
  PROVE  Applied'
<1>1. AppliedInv(t)'
  BY DEF Leave, Goto, TypeOK, AppliedInv, Usable, Default, Boot
<1>2. \A s \in Threads \ {t} :
        /\ pc'[s] = pc[s] /\ call'[s] = call[s] /\ cfg'[s] = cfg[s]
        /\ act'[s] = act[s] /\ ready'[s] = ready[s] /\ ran'[s] = ran[s]
  BY DEF Leave, Goto, TypeOK
<1> QED BY <1>1, <1>2, OthersApplied

\* A step that reads no activation state.
LEMMA MovedApplied ==
  ASSUME TypeOK, Applied, NEW t \in Threads, NEW step \in Steps, Goto(t, step),
         UNCHANGED <<mounted, saved, cache, call, cfg, act, ready, ran>>,
         manifest' \in {manifest, "valid"}, ~ready[t],
         step \in Boot => /\ pc[t] \in Boot \ {"load"}
                          /\ \/ step \in {"candidate", "activate", "reload", "report"}
                             \/ pc[t] \notin {"candidate", "activate", "reload", "report"},
         step # "return"
  PROVE  Applied'
<1>1. pc' = [pc EXCEPT ![t] = step] /\ pc \in [Threads -> Steps]
  BY DEF Goto, TypeOK
<1>2. ~Bare => ~Bare'
  BY DEF Bare
<1>3. AppliedInv(t)'
  BY <1>1, <1>2 DEF Applied, AppliedInv, Usable
<1> QED BY <1>1, <1>3, OthersApplied DEF Applied, Usable

\* With a usable configuration only a missing mount or activation is reported as such.
LEMMA ActivationSeen ==
  ASSUME TypeOK, NEW c \in ConfigSpace, Usable(c), c.root = "shared"
  PROVE  Activation(c) # "needs-project-mount" => ~Bare
  BY DEF Usable, Activation, Bare

LEMMA HookApplied ==
  ASSUME \A c \in Configs : Usable(c), TypeOK, Applied, BootstrapsOnce,
         NEW t \in Threads, Hook(t)
  PROVE  Applied'
<1>1. ASSUME NEW what \in {"get", "save"}, NEW c, Usable(c), Call(t, what, c) PROVE Applied'
  <2>1. /\ pc[t] = "idle" /\ UNCHANGED <<mounted, manifest, saved, cache, act, ready, ran>>
        /\ pc' = [pc EXCEPT ![t] = IF c.root \in cache THEN "return" ELSE "lock"]
        /\ call' = [call EXCEPT ![t] = what] /\ cfg' = [cfg EXCEPT ![t] = c]
    BY <1>1 DEF Call, Goto, files
  <2>2. AppliedInv(t)'
    BY <1>1, <2>1 DEF TypeOK, Applied, AppliedInv, Usable, Boot
  <2> QED BY <2>1, <2>2, OthersApplied DEF Applied, Usable, TypeOK
<1>2. CASE GetConfig(t) \/ SaveConfig(t)
  BY <1>1, <1>2 DEF GetConfig, SaveConfig, Applied
<1>3. CASE Lock(t)
  <2>1. /\ pc[t] = "lock" /\ UNCHANGED <<mounted, manifest, saved, cache, call, cfg, act, ready>>
        /\ pc' = [pc EXCEPT ![t] = IF cfg[t].root \in cache THEN "return" ELSE "load"]
        /\ ran' = IF cfg[t].root \in cache THEN ran ELSE [ran EXCEPT ![t] = TRUE]
    BY <1>3 DEF Lock, Goto, files
  <2>2. AppliedInv(t)'
    BY <2>1 DEF TypeOK, Applied, AppliedInv, Usable, Boot
  <2> QED BY <2>1, <2>2, OthersApplied DEF Applied, Usable, TypeOK
<1>4. CASE Report(t)
  <2>1. /\ pc[t] = "report" /\ pc' = [pc EXCEPT ![t] = "return"]
        /\ cache' = IF ready[t] \/ act[t] # "needs-project-mount"
                    THEN cache \cup {cfg[t].root} ELSE cache
        /\ UNCHANGED <<mounted, manifest, saved, call, cfg, act, ready, ran>>
    BY <1>4 DEF Report, Goto, files, locals
  <2>2. ran[t] /\ (cfg[t].root = "shared" =>
          /\ act[t] # "needs-project-mount" => ~Bare
          /\ ready[t] => act[t] # "needs-project-mount")
    BY <2>1 DEF Applied, AppliedInv, Boot
  <2>3. AppliedInv(t)'
    BY <2>1, <2>2 DEF TypeOK, Applied, AppliedInv, Usable, Boot
  <2> QED BY <2>1, <2>2, <2>3, OthersApplied DEF Applied, Usable, TypeOK
<1>5. CASE Return(t)
  BY <1>5, LeftApplied DEF Return, files, Applied, AppliedInv, Usable
<1> QED BY <1>2, <1>3, <1>4, <1>5 DEF Hook

LEMMA BootstrapApplied ==
  ASSUME TypeOK, Applied, NEW t \in Threads, BootstrapRuntime(t) PROVE Applied'
<1>0. cfg[t] \in ConfigSpace /\ Usable(cfg[t]) /\ AppliedInv(t)
  BY DEF TypeOK, Applied, AppliedInv
<1>1. CASE Raise(t)
  <2>1. UNCHANGED <<mounted, saved, cache>> /\ Leave(t)
    BY <1>1 DEF Raise, BootstrapRuntime, Load, ConsiderProject, ActivateProject,
       ActivateProjectFails, Reload, Status, Policy, Final, files
  <2>2. UNCHANGED manifest
    <3>1. ~ActivateProject(t)
      BY <1>1 DEF ActivateProject, Raise, Leave, Goto, TypeOK
    <3> QED BY <3>1 DEF BootstrapRuntime, Load, ConsiderProject,
               ActivateProjectFails, Reload, Status, Policy, Final, files
  <2> QED BY <2>1, <2>2, LeftApplied DEF Applied, Usable
\* The activation is read.
<1>2. CASE Load(t) \/ Reload(t)
  <2>1. /\ pc[t] \in {"load", "reload"} /\ act' = [act EXCEPT ![t] = Activation(cfg[t])]
        /\ UNCHANGED <<mounted, manifest, saved, cache, call, cfg, ready, ran>>
    BY <1>2 DEF Load, Reload, files
  <2>2. PICK step \in {"status", "candidate", "report"} :
          /\ pc' = [pc EXCEPT ![t] = step]
          /\ step = "status" /\ cfg[t].root = "shared" =>
               Activation(cfg[t]) = "configured-awaiting-proof"
    <3>1. CASE Load(t)
      BY <1>0, <2>1, <3>1 DEF Load, Goto, Explicit, Usable, TypeOK
    <3>2. CASE Reload(t)
      BY <1>0, <2>1, <3>2 DEF Reload, Goto, TypeOK
    <3> QED BY <1>2, <3>1, <3>2
  <2>3. cfg[t].root = "shared" /\ Activation(cfg[t]) # "needs-project-mount" => ~Bare
    BY <1>0, ActivationSeen
  <2>4. AppliedInv(t)'
    BY <1>0, <2>1, <2>2, <2>3 DEF TypeOK, AppliedInv, Usable, Boot, Bare
  <2> QED BY <2>1, <2>2, <2>4, OthersApplied DEF Applied, Usable, TypeOK
<1>3. CASE ConsiderProject(t) \/ ActivateProject(t) \/ ActivateProjectFails(t)
  <2>1. /\ pc[t] \in {"candidate", "activate"}
        /\ UNCHANGED <<mounted, saved, cache, call, cfg, act, ready, ran>>
        /\ manifest' \in {manifest, "valid"}
        /\ \E step \in {"activate", "reload", "report"} : Goto(t, step)
    BY <1>3 DEF ConsiderProject, ActivateProject, ActivateProjectFails, files, locals
  <2> QED BY <1>0, <2>1, MovedApplied DEF AppliedInv, Steps, Boot, Migration
<1>4. CASE (Status(t) \/ Policy(t)) /\ ~Raise(t)
  <2>1. /\ pc[t] \in {"status", "policy"}
        /\ UNCHANGED <<mounted, manifest, saved, cache, call, cfg, act, ready, ran>>
        /\ \E step \in {"report", "init", "policy", "final", "inspect"} : Goto(t, step)
    BY <1>4 DEF Status, Policy, files, locals
  <2> QED BY <1>0, <2>1, MovedApplied DEF AppliedInv, Steps, Boot, Migration
<1>5. CASE Final(t) /\ ~Raise(t)
  <2>1. /\ pc[t] = "final" /\ pc' = [pc EXCEPT ![t] = "report"]
        /\ ready' = [ready EXCEPT ![t] = TRUE]
        /\ UNCHANGED <<mounted, manifest, saved, cache, call, cfg, act, ran>>
    BY <1>5 DEF Final, Goto, files
  <2>2. AppliedInv(t)'
    BY <1>0, <2>1 DEF TypeOK, AppliedInv, Usable, Boot, Bare
  <2> QED BY <2>1, <2>2, OthersApplied DEF Applied, Usable, TypeOK
<1> QED BY <1>1, <1>2, <1>3, <1>4, <1>5 DEF BootstrapRuntime

LEMMA OpenApplied ==
  ASSUME TypeOK, Applied, CallsKept, NEW t \in Threads, CliOpens(t) PROVE Applied'
<1>0. /\ AppliedInv(t) /\ pc[t] \in {"init", "open", "m-init", "m-open"}
      /\ pc[t] \in Migration => Dashboard(t)
      /\ UNCHANGED <<mounted, manifest, saved, cache>>
  BY DEF Applied, CallsKept, CliOpens, CliInit, CoreInit, Opening, Migration
<1>1. CASE Raise(t)
  BY <1>0, <1>1, LeftApplied DEF Raise, Applied, Usable
<1>2. CASE ~Raise(t)
  <2>1. /\ UNCHANGED <<call, cfg, act, ready, ran>>
        /\ \/ Dashboard(t) /\ \E step \in {"m-open", "m-store"} : Goto(t, step)
           \/ ~Dashboard(t) /\ \E step \in {"open", "policy", "final"} : Goto(t, step)
    BY <1>2 DEF CliOpens, CliInit, CoreInit, locals
  <2> QED BY <1>0, <2>1, MovedApplied DEF AppliedInv, Steps, Boot, Migration
<1> QED BY <1>1, <1>2

LEMMA MigrateApplied ==
  ASSUME TypeOK, Applied, CallsKept, NEW t \in Threads, Migrate(t) PROVE Applied'
<1>0. /\ AppliedInv(t) /\ UNCHANGED <<mounted, manifest, saved, cache>>
      /\ pc[t] \in Migration => Dashboard(t)
  BY DEF Applied, CallsKept, Migrate, MigrateRequest, MigrateInspect, MigrateImport,
     MigrateStore, MigrateMark, files, Migration
<1>1. CASE Raise(t)
  BY <1>0, <1>1, LeftApplied DEF Raise, Applied, Usable
<1>2. CASE MigrateRequest(t)
  <2>1. /\ pc[t] = "idle" /\ pc' = [pc EXCEPT ![t] = "m-inspect"]
        /\ cfg' = [cfg EXCEPT ![t] = saved] /\ UNCHANGED <<act, ready, ran>>
        /\ \A s \in Threads \ {t} : call'[s] = call[s]
    BY <1>2 DEF MigrateRequest, Goto, TypeOK
  <2>2. AppliedInv(t)'
    BY <1>0, <2>1 DEF TypeOK, Applied, AppliedInv, Usable, Boot
  <2> QED BY <1>0, <2>1, <2>2, OthersApplied DEF Applied, Usable, TypeOK
<1>3. CASE (MigrateInspect(t) \/ MigrateImport(t) \/ MigrateStore(t) \/ MigrateMark(t))
             /\ ~Raise(t)
  <2> USE DEF MigrateInspect, MigrateImport, MigrateStore, MigrateMark
  <2>1. PICK step \in {"return", "final", "import", "store", "mark"} \cup Migration :
          /\ pc' = [pc EXCEPT ![t] = step]
          /\ step \in Boot => ~Dashboard(t)
          /\ step = "return" => Dashboard(t)
    BY <1>3 DEF Migrated, Goto, Boot, Migration
  <2>2. /\ pc[t] \in {"inspect", "import", "store", "mark"} \cup Migration
        /\ UNCHANGED <<call, cfg, act, ready, ran>>
    BY <1>3 DEF locals, Migration
  <2>3. step \in Boot => pc[t] \in Boot
    BY <1>0, <2>1, <2>2 DEF Boot, Migration
  <2>4. AppliedInv(t)'
    BY <1>0, <2>1, <2>2, <2>3 DEF TypeOK, AppliedInv, Usable, Boot, Migration, Bare, Dashboard
  <2> QED BY <1>0, <2>1, <2>2, <2>4, OthersApplied DEF Applied, Usable, TypeOK
<1> QED BY <1>1, <1>2, <1>3 DEF Migrate

\* A step of the host while nothing has been changed from outside.
LEMMA UntouchedApplied ==
  ASSUME \A c \in Configs : Usable(c), IInv, Applied, [Next]_vars, changes' = 0
  PROVE  Applied'
<1>1. changes \in Nat
  BY DEF IInv, TypeOK
<1>2. ~(ProjectChanges \/ OldStoreAppears \/ UpgradeApplied \/ HostChanges \/ Restart)
  BY <1>1 DEF ProjectChanges, OldStoreAppears, UpgradeApplied, HostChanges, Outside, Restart
<1>3. CASE UNCHANGED vars
  BY <1>3 DEF vars, Applied, AppliedInv, Usable, Bare
<1>4. ASSUME NEW t \in Threads, Hook(t) \/ BootstrapRuntime(t) \/ CliOpens(t) \/ Migrate(t)
      PROVE  Applied'
  <2>1. TypeOK /\ BootstrapsOnce /\ CallsKept
    BY DEF IInv
  <2> QED BY <1>4, <2>1, HookApplied, BootstrapApplied, OpenApplied, MigrateApplied
<1> QED BY <1>2, <1>3, <1>4 DEF Next

\* What the run bootstrap_save refutes holds as long as nothing has been changed from
\* outside, when the project's store is configured with the project only: it takes a
\* configuration under which the project could not be bootstrapped, or a change of what a
\* cached report was about, to keep a save from being applied.
THEOREM SavedApplied ==
  ASSUME \A c \in Configs : Usable(c)
  PROVE  Spec => [](changes = 0 => SavedIsApplied)
<1> DEFINE Kept == changes = 0 => Applied
<1>1. Init => Kept
  BY AppliedInit
<1>2. IInv /\ Kept /\ [Next]_vars => Kept'
  <2> SUFFICES ASSUME IInv, Kept, [Next]_vars, changes' = 0 PROVE Applied'
    OBVIOUS
  <2>1. changes = 0
    <3>1. changes \in Nat
      BY DEF IInv, TypeOK
    <3>2. changes' = changes \/ changes' = changes + 1
      BY DEF Next, vars, ProjectChanges, OldStoreAppears, UpgradeApplied, HostChanges, Outside,
         Restart, Hook, GetConfig, SaveConfig, Call, Lock, Report, Return, BootstrapRuntime,
         Load, ConsiderProject, ActivateProject, ActivateProjectFails, Reload, Status, Policy,
         Final, CliOpens, CliInit, CoreInit, Migrate, MigrateRequest, MigrateInspect,
         MigrateImport, MigrateStore, MigrateMark
    <3> QED BY <3>1, <3>2
  <2> QED BY <2>1, UntouchedApplied
<1>3. Kept => (changes = 0 => SavedIsApplied)
  BY DEF Applied, AppliedInv, SavedIsApplied, Candidate, Bare
<1> QED BY <1>1, <1>2, <1>3, HooksInvariance, PTL DEF Spec

-----------------------------------------------------------------------------
(* What opens an old store. *)

\* The configuration of an activated project.
Activated == [project |-> "selected", enabled |-> TRUE, root |-> "shared"]

\* Every configuration in use is one that has been saved, or the default.
SavedOnly ==
  /\ saved \in Configs \cup {Default}
  /\ \A t \in Threads : cfg[t] \in Configs \cup {Default}

LEMMA SavedOnlyStep == ASSUME TypeOK, SavedOnly, [Next]_vars PROVE SavedOnly'
<1>1. ASSUME UNCHANGED <<saved, cfg>> PROVE SavedOnly'
  BY <1>1 DEF SavedOnly
<1>2. ASSUME NEW t \in Threads, NEW c \in Configs \cup {Default}, UNCHANGED saved,
             cfg' = [cfg EXCEPT ![t] = c]
      PROVE  SavedOnly'
  BY <1>2 DEF SavedOnly, TypeOK
<1>3. ASSUME NEW t \in Threads, Hook(t) PROVE SavedOnly'
  <2>1. CASE GetConfig(t) \/ SaveConfig(t)
    BY <1>2, <2>1 DEF GetConfig, SaveConfig, Call, SavedOnly
  <2>2. CASE Lock(t) \/ Report(t)
    BY <1>1, <2>2 DEF Lock, Report, locals
  <2>3. CASE Return(t)
    BY <2>3 DEF Return, Leave, SavedOnly, TypeOK
  <2> QED BY <1>3, <2>1, <2>2, <2>3 DEF Hook
<1>4. ASSUME NEW t \in Threads, BootstrapRuntime(t) \/ CliOpens(t) \/ Migrate(t)
      PROVE  SavedOnly'
  <2>1. CASE Raise(t)
    <3>1. UNCHANGED saved
      BY <1>4 DEF BootstrapRuntime, Load, ConsiderProject, ActivateProject,
         ActivateProjectFails, Reload, Status, Policy, Final, CliOpens, CliInit, CoreInit,
         Migrate, MigrateRequest, MigrateInspect, MigrateImport, MigrateStore, MigrateMark
    <3> QED BY <1>2, <2>1, <3>1 DEF Raise, Leave
  <2>2. CASE MigrateRequest(t)
    BY <1>2, <2>2 DEF MigrateRequest, SavedOnly
  <2>3. CASE ~Raise(t) /\ ~MigrateRequest(t)
    BY <1>1, <1>4, <2>3 DEF BootstrapRuntime, Load, ConsiderProject, ActivateProject,
       ActivateProjectFails, Reload, Status, Policy, Final, CliOpens, CliInit, CoreInit,
       Migrate, MigrateInspect, MigrateImport, MigrateStore, MigrateMark, locals
  <2> QED BY <2>1, <2>2, <2>3
<1>5. CASE ProjectChanges \/ OldStoreAppears \/ UpgradeApplied \/ HostChanges
  BY <1>1, <1>5 DEF ProjectChanges, OldStoreAppears, UpgradeApplied, HostChanges, Outside, locals
<1>6. CASE Restart
  BY <1>6 DEF Restart, SavedOnly
<1>7. CASE UNCHANGED vars
  BY <1>1, <1>7 DEF vars
<1> QED BY <1>3, <1>4, <1>5, <1>6, <1>7 DEF Next

\* What the run bootstrap_gate refutes holds where no project is ever
\* activated with its own store and no old store appears in the root of a call that has
\* looked and not yet run the core's `init': these are the only two ways in which the hooks
\* and the migrations of the dashboard turn an old store into schema v3, whatever other
\* programs do and whenever an old store appears otherwise.
THEOREM OpenedByActivation ==
  ASSUME Activated \notin Configs PROVE Spec /\ [](late = {}) => NeverAutoOpened
<1> DEFINE Kept == \A t \in Threads, root \in Roots :
                     store[root] = "old" /\ store'[root] = "v3" => pc'[t] = pc[t]
<1>1. Init => SavedOnly
  BY DEF Init, SavedOnly
<1>2. TypeOK /\ SavedOnly /\ [Next]_vars => SavedOnly'
  BY SavedOnlyStep
<1>3. IInv /\ SavedOnly /\ late = {} /\ [GateStep]_vars => [Kept]_vars
  <2> SUFFICES ASSUME IInv, SavedOnly, NEW t \in Threads, pc[t] = "activate" PROVE FALSE
    BY DEF GateStep
  <2>1. MayCreate(cfg[t]) /\ Explicit(cfg[t])
    BY DEF IInv, CallsKept, Boot, Migration
  <2>2. cfg[t] = Activated
    BY <2>1 DEF MayCreate, Activated
  <2> QED BY <2>2 DEF SavedOnly, Activated, Default
<1> QED BY <1>1, <1>2, <1>3, HooksInvariance, HooksTypeCorrect, GateHeld, PTL
        DEF Spec, NeverAutoOpened, GateHeldWhenLooked, GateStep

-----------------------------------------------------------------------------
(* Hooks and migrations end. *)

\* The steps that a call still has before it, at most.
Left(step) ==
  CASE step = "lock"                    -> 15
    [] step = "load"                    -> 14
    [] step = "candidate"               -> 13
    [] step = "activate"                -> 12
    [] step = "reload"                  -> 11
    [] step = "status"                  -> 10
    [] step = "init"                    -> 9
    [] step \in {"open", "m-inspect"}   -> 8
    [] step \in {"policy", "m-import"}  -> 7
    [] step \in {"inspect", "m-init"}   -> 6
    [] step \in {"import", "m-open"}    -> 5
    [] step \in {"store", "m-store"}    -> 4
    [] step \in {"mark", "m-mark"}      -> 3
    [] step = "final"                   -> 2
    [] step = "report"                  -> 1
    [] OTHER                            -> 0

\* Whatever the other threads and the rest of the machine do between its steps, no hook
\* and no migration goes back to an earlier step: each ends after at most fifteen, if the
\* lock is given to it.
THEOREM HooksAdvance ==
  Spec => [][\A t \in Threads : pc[t] # "idle" =>
               pc'[t] \in {pc[t], "idle"} \/ Left(pc'[t]) < Left(pc[t])]_vars
<1> DEFINE Advances(t) == pc[t] # "idle" =>
             pc'[t] \in {pc[t], "idle"} \/ Left(pc'[t]) < Left(pc[t])
<1>1. IInv /\ [Next]_vars => [\A t \in Threads : Advances(t)]_vars
  <2> SUFFICES ASSUME IInv, Next, NEW t \in Threads PROVE Advances(t)
    OBVIOUS
  <2>0. pc \in [Threads -> Steps]
    BY DEF IInv, TypeOK
  <2>1. ASSUME NEW u \in Threads, NEW step, Goto(u, step),
               u = t => step = "idle" \/ pc[t] = "idle" \/ Left(step) < Left(pc[t])
        PROVE  Advances(t)
    BY <2>0, <2>1 DEF Goto
  <2>2. ASSUME NEW u \in Threads, Hook(u) PROVE Advances(t)
    <3>1. CASE GetConfig(u) \/ SaveConfig(u)
      BY <2>1, <3>1 DEF GetConfig, SaveConfig, Call
    <3>2. CASE Lock(u)
      BY <2>1, <3>2 DEF Lock, Left
    <3>3. CASE Report(u) \/ Return(u)
      BY <2>1, <3>3 DEF Report, Return, Leave, Left
    <3> QED BY <2>2, <3>1, <3>2, <3>3 DEF Hook
  <2>3. ASSUME NEW u \in Threads, BootstrapRuntime(u) PROVE Advances(t)
    <3>1. CASE Load(u) \/ ConsiderProject(u) \/ ActivateProject(u) \/ ActivateProjectFails(u)
               \/ Reload(u)
      BY <2>1, <3>1 DEF Load, ConsiderProject, ActivateProject, ActivateProjectFails, Reload, Left
    <3>2. CASE Status(u) \/ Policy(u) \/ Final(u)
      BY <2>1, <3>2 DEF Status, Policy, Final, Raise, Leave, Left
    <3> QED BY <2>3, <3>1, <3>2 DEF BootstrapRuntime
  <2>4. ASSUME NEW u \in Threads, CliOpens(u) PROVE Advances(t)
    <3>1. (pc[u] \in Migration <=> Dashboard(u)) \/ pc[u] \notin {"init", "open"} \cup Migration
      BY DEF IInv, CallsKept, Boot, Migration
    <3>2. CASE CliInit(u)
      BY <2>1, <3>1, <3>2 DEF CliInit, Raise, Leave, Left, Migration
    <3>3. CASE CoreInit(u)
      BY <2>1, <3>1, <3>3 DEF CoreInit, Opening, Raise, Leave, Left, Migration
    <3> QED BY <2>4, <3>2, <3>3 DEF CliOpens
  <2>5. ASSUME NEW u \in Threads, Migrate(u) PROVE Advances(t)
    <3>1. CASE MigrateRequest(u)
      BY <2>1, <3>1 DEF MigrateRequest
    <3>2. (pc[u] \in Migration <=> Dashboard(u))
          \/ pc[u] \notin {"inspect", "import", "store", "mark"} \cup Migration
      BY DEF IInv, CallsKept, Boot, Migration
    <3>3. CASE MigrateInspect(u)
      BY <2>1, <3>2, <3>3 DEF MigrateInspect, Migrated, Raise, Leave, Left, Migration
    <3>4. CASE MigrateImport(u)
      BY <2>1, <3>2, <3>4 DEF MigrateImport, Migrated, Raise, Leave, Left, Migration
    <3>5. CASE MigrateStore(u) \/ MigrateMark(u)
      BY <2>1, <3>2, <3>5
      DEF MigrateStore, MigrateMark, Migrated, Raise, Leave, Left, Migration
    <3> QED BY <2>5, <3>1, <3>3, <3>4, <3>5 DEF Migrate
  <2>6. CASE ProjectChanges \/ OldStoreAppears \/ UpgradeApplied \/ HostChanges \/ Restart
    BY <2>6 DEF ProjectChanges, OldStoreAppears, UpgradeApplied, HostChanges, Outside, Restart
  <2> QED BY <2>2, <2>3, <2>4, <2>5, <2>6 DEF Next
<1> QED BY <1>1, HooksInvariance, PTL DEF Spec

\* Nobody waits for the lock in vain: whoever holds it is inside its bootstrap, where no
\* step waits for anyone.
THEOREM LockHeldInside ==
  Spec => [](lock # NoThread => \E t \in Threads : lock = t /\ pc[t] \in Boot)
<1>1. IInv => (lock # NoThread => \E t \in Threads : lock = t /\ pc[t] \in Boot)
  BY DEF IInv, TypeOK, BootstrapsOnce
<1> QED BY <1>1, HooksInvariance, PTL
=============================================================================
