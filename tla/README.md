# Tree Ring Memory for Agent Zero: verification project

TLA+ models of the Tree Ring Memory plugin for Agent Zero, the TLC
configurations that check them on small instances, and TLAPS proofs of the
properties that matter most. Paths below are relative to the repository, which
the modules were translated from; `PROJECT.json` gives, for every definition,
the lines it stands for.

## 1. The system

The plugin connects Agent Zero, a Python web application that runs chat agents
on an asyncio event loop and serves its API on other threads, to `tree-ring`, a
Rust executable (the *core*, not part of this repository) that owns a SQLite
store. Everything that reads or writes memories is a child process of the
plugin. Five pieces of code decide what happens when things overlap: the
lifecycle adapter, the upgrade, the bootstrap, the page's choice of a writer, and
the bridge with the settings and the identity it works under. The rest formats,
validates and forwards.

| Component | State it keeps | Operations | What makes it correct |
|---|---|---|---|
| **Native agent lifecycle adapter** `runtime/lifecycle.py`, `extensions/` | `_TURN_CONTEXTS` (checkpoint and prompt context per turn key), `_LATEST_BY_STORE`, `_PREFLIGHT_SLOTS`; the prompt extras of each `LoopData` | inject a context before each prompt, clean up at monologue end, report the latest result | no permit is lost; agents never share a checkpoint; a retired checkpoint stays retired; prompt and cache agree; every call returns |
| **Capture tool** `tools/capture.py` | none; core keeps the captures | validate a checkpoint, write through the bridge | a capture belongs to the turn and to the project its checkpoint was issued for |
| **Offline schema-v3 upgrade** `helpers/upgrade.py`, part of `helpers/cli.py` | `memory.sqlite` and its lock, `migrations/*.sqlite`, `schema-v3-upgrade.json` and its temporary file | prepare a backup, verify, apply, mark completed | an old store is migrated only from a content that a recorded backup holds and keeps |
| **Configuration hooks and bootstrap** `hooks.py` | `_BOOTSTRAPPED_ROOTS`, `_BOOTSTRAP_LOCK` | get and save the configuration, bootstrap a root once | one bootstrap at a time and per root; no store but the selected one is created; the upgrade gate is not crossed; saving applies |
| **Project activation binding** `helpers/activation.py` | none; `activation.json` and `agent-zero.json` in the project | load the binding | one public state per situation; unsafe files are refused |
| **Legacy migration** `helpers/legacy.py` | `legacy-python-v1.json` | inspect, preview, import, mark | the marker follows an import |
| **Invocation identity** `helpers/context.py` | none | derive session, workflow, profile, project, agent number | a memory names the chat it was made for, and its project where it is in one, never what a payload says |
| **Configuration and paths** `helpers/config.py`, `paths.py`, `values.py` | none; Agent Zero keeps what is saved | load, and load again what was loaded; derive roots | loading is stable; a conflict of roots survives it; the folder that is read is the selected one |
| **CLI bridge** `helpers/cli.py` | the resolved executable | every operation of the core, as a child process | a retry stores nothing twice; the capability goes where it is due and nowhere else; read-only operations create no store; a recall misses nothing within its window |
| **Dashboard API** `api/memory_api.py` | none | dispatches the actions of the Web UI | a mutation has a context; a memory lies in a root of its project |
| **Web UI store** `webui/memory-store.js` | `writerContextId`, one remembered writer per project in `localStorage`, ring filter, results | open the panel, search, filter, write, activate a project | requests are sent under a chat of the project the panel names; remembered writers stay with their project |
| **Agent tools** `tools/*.py` | none | one bridge call each | as for the API |
| **Binaries, tooling, prompts** `bin/`, `scripts/`, `prompts/` | - | - | - |

How they interact: Agent Zero calls the two extensions around each monologue,
the tools in between, and the hooks whenever it reads or saves a configuration.
The lifecycle adapter, the tools, the hooks and the API build a bridge
(`TreeRingCli`) from the configuration of the moment, and the bridge runs the
core. They share state in three places: the lifecycle's module variables (event
loop and API threads, under `_STATE_LOCK`), the bootstrap cache (threads, under
`_BOOTSTRAP_LOCK`), and the files of a memory root (any thread, any process).

What is hard: coroutines suspended at the semaphore and at the child while other
turns publish and clean up; cancellation, after which Agent Zero still delivers
`monologue_end`; a project binding that changes during a turn; upgrade requests
that check a file, release the lock, and act later; marker files that several
requests write under one temporary name; crashes between those steps; a cache of
what has been bootstrapped, in front of files other programs change; an answer
of the core lost after its commit, and the retry; a call that reads settings,
identity and schema one after the other while a user changes each of them. `PROJECT.json` lists each such hazard at its
line with the properties that would catch it.

## 2. Modules

| Module | What it is |
|---|---|
| `Lifecycle` | lifecycle adapter, its two extensions and the capture tool, with Agent Zero's turns and cancellations and the changing project binding |
| `CheckpointRegistry` | abstract specification: what the adapter and the capture tool promise of checkpoints |
| `MCLifecycle` | instances of `Lifecycle`: agents, bindings |
| `LifecycleProofs` | its theorems on permits, isolation and retirement |
| `TurnProofs` | its theorems on what a turn shows and uses, and the refinement of `CheckpointRegistry` |
| `SchemaUpgrade` | the offline upgrade: prepare, apply, and ordinary requests on several threads, the operator and old programs around them |
| `UpgradeGate` | abstract specification: what the upgrade promises of one store |
| `MCSchemaUpgrade` | instances |
| `SchemaUpgradeProofs` | its theorems, the refinement included |
| `Bootstrap` | hooks, activation binding, the bridge's `status`, `init` and `initialize_project_activation`, legacy migration, dashboard migration requests |
| `MCBootstrap` | instances, with the restricted initial states |
| `BootstrapProofs` | its theorems |
| `WriterContext` | the Web UI store: writer context, openings, writes, activation, with the chats and projects of Agent Zero around it |
| `MCWriterContext` | instances |
| `WriterContextProofs` | its theorems |
| `Configuration` | `load_config` and the paths derived from it, as operators |
| `Recall` | recall's window, filters and cut, as operators |
| `Bridge` | the calls of the API and the tools through the bridge: settings, identity, gate, init, capability, core, with chats that move, settings that are saved and other programs around them |
| `MCBridge` | an instance |
| `BridgeProofs` | the theorems of the three |

Each module is one component with the components it cannot be understood
without. They meet at `TreeRingCli.init`, whose look at the store and whose call of
the core are two steps in all three: `Bootstrap` and `Bridge` show what it does to a
store that no upgrade was prepared for, `SchemaUpgrade` what it does to one that is
being upgraded, with the backup and the marker that go with it. `Bridge`
composes `Configuration` and `Recall` with the calls, and takes from the other two
what a bootstrap may do to a store.
`WriterContext` is the browser's side: what it sends arrives at the API as the
context from which `Bridge` takes the identity of a request.

In every module the operators whose comment begins with *Mutant* are altered
copies of an action or helper, each with one plausible mistake. No
specification uses them: they exist to show that the properties can fail.

### 2.1 `Lifecycle` and `CheckpointRegistry`

An action is the code between two points where another coroutine or thread may
run: an `await`, or a region under `_STATE_LOCK`.

| Code | Actions |
|---|---|
| `inject_lifecycle_context`, up to the first suspension | `BuildPrompt`, `BuildRaises` |
| cache hit: attach, record a failure | `AttachCached`, `AttachCachedFails` |
| no usable binding | `RecordUnbound` |
| `async with _PREFLIGHT_SLOTS` | `AcquireSlot`, `SlotRaises` (contended from a second event loop) |
| the preflight child | `ChildExits` |
| the await returns | `ReceiveContext`, `ReceiveFailure` |
| result recorded, cache updated | `Publish`, `RecordFailure` |
| `cleanup_lifecycle_context` | `MonologueEnd`, `LateMonologueEnd` |
| cancellation at an `await` | `Kill` |
| `tools/capture.py` | `CaptureValidate`, `CaptureWrite`, `CaptureFails` |
| Agent Zero and the operator | `StartTurn`, `SwitchProject` |

A checkpoint is a model value (`_new_checkpoint_id` is random: none is drawn
twice); the context it is composed into is represented by it. The validation of
the receipt is abstracted to the three outcomes the code tells apart: accepted,
refused, error. The variables `owner`, `origin`, `retired` and `unproven` are
history: no guard reads the last two, and the first two are read only to know
which identifiers are taken and where a cached context came from (the code keeps
the latter inside the entry).

A capture is stored where the configuration of the moment of the write says: the
store of the bound project or, for another binding, the agent's own root. Core
recognises a replayed operation identifier within one store.

`CheckpointRegistry` knows which identifier is active for which key, for which key
an identifier has ever been active, and the captures. An identifier is activated
once, where no other is active; it is retired; and a candidate is stored once in a
place, by a turn of the identifier's key, active or not.
`ImplementsRegistry` maps the active identifiers to `_TURN_CONTEXTS`, and the key an
identifier was given to the key of its owner, once it has been in the cache
(`Spent`). `Publish` activates, a monologue end retires unless another one already
has, `CaptureWrite` stores unless it is a replay, and everything else stutters:
attaching, failing, waiting, being cancelled.

### 2.2 `SchemaUpgrade` and `UpgradeGate`

An action is one access to a shared file or to the SQLite lock.

| Code | Actions |
|---|---|
| `prepare_schema_upgrade` | `PrepareInspect`, `PrepareCheckpoint`, `PrepareLock`, `PrepareCopy`, `PrepareFails`, `PreparePlace`, `PrepareMarker` |
| `_write_marker` | `OpenTmp`, `WriteTmp`, `ReplaceMarker`, `FileFails` |
| `verify_prepared_upgrade` (by `apply_schema_upgrade`, again by `init`) | `ReadMarker`, `VerifySource`, `VerifyBackup` |
| `TreeRingCli.init` | `InitInspect`, `CoreInit`, `CoreInitNoop`, `CoreInitFails`, `InitFinal`, `MarkCompleted` |
| `ensure_initialized` and an operation | `UseInspect`, `UseWrite` |
| everything else | `OldWrite` (an old CLI, TUI or worker), `Tick`, `Crash`, `Restore` (the operator's rollback) |

A store is its schema version and the number of the last change: what a checksum
distinguishes. `Offline` says whether the operator keeps the confirmation the
API demands ("every Tree Ring process is stopped") while a request of the plugin
runs. The WAL is modelled by what it can do: the checkpoint before `BEGIN
EXCLUSIVE` puts every commit into the database file, and what is committed
between the two may be missing in the copy. `_write_marker` keeps its file
handle: `file[r]` says where the file a handle writes is, since `os.replace` by
another request takes it along. Writing over another request's text leaves a
mixture only when the old text is longer, which is so for a completed marker;
other lengths are taken as equal.

Two requests may write the marker under its one temporary name. One may then
publish the file that the other has just truncated: if the other fails after its
migration has been committed, the backup exists but no readable marker names it.
`RollbackPossible` asks for the backup, and for the marker only if it can be read;
no document promises more.

`UpgradeGate` has a store, the set of contents that backups hold, and the
content before the last upgrade. `ImplementsGate` maps `saved` to the contents of
the files under `migrations/`.

### 2.3 `Bootstrap`

| Code | Actions |
|---|---|
| `get_plugin_config`, `save_plugin_config`, `_ensure_auto_bootstrap` | `GetConfig`, `SaveConfig`, `Lock`, `Report`, `Return` |
| `bootstrap_runtime` | `Load`, `ConsiderProject`, `ActivateProject`, `ActivateProjectFails`, `Reload`, `Status`, `Policy`, `Final` |
| `TreeRingCli.init` (from the bootstrap, or for the dashboard's migration) | `CliInit` (the look), `CoreInit` (the core) |
| `LegacyMigrator` | `MigrateInspect`, `MigrateImport` (preview and `ensure_initialized`), `MigrateStore` (the import), `MigrateMark` |
| `migrate` of the API | `MigrateRequest`, then those of `LegacyMigrator` and, where the store is missing, of `init`, without the lock |
| other programs, the operator, a restart | `ProjectChanges`, `OldStoreAppears`, `UpgradeApplied`, `HostChanges`, `Restart` |

A configuration is reduced to what the decisions use: the project (none, usable,
unusable or contradictory), whether activation is enabled, and which of two roots
it selects. `Activation` gives the five answers of `load_activation_binding` ("unbound" is the
failure whose error the candidate test compares);
the field checks of the two JSON files are one value, "invalid".

`late` is history: the threads in whose root an old store has appeared since `init`
looked, while the core's own `init` is still to come. Nothing in the code can notice
such a store, and the core migrates it. `GateHeldWhenLooked` says that
besides the activation (finding 3) this is the only gap of the gate: a store that has
become old earlier, even since the status or since `ensure_initialized` looked, is
refused.

### 2.4 `WriterContext`

JavaScript runs a handler up to its next `await`; an action is such a stretch.

| Code | Actions |
|---|---|
| `init`, `onOpen` up to their first `await` | `Open` |
| `post` of a mutation (`remember`, `mark`, `forgetSelected`, `maintenance`, `developerAction`) | `SendWrite` |
| `activateProject` | `Activate`, `ConfigSaved`, `PreflightAnswered` |
| Agent Zero, the user, the browser | `Poll`, `SwitchChat`, `ChangeProject`, `DeleteChat`, `Reload` |

`Sync` is `syncWriterContext` with `saveWriterContextId`. `contexts[0]` is any
chat of the project, since Agent Zero decides the order. One activation at a time:
its button is disabled by `activationBusy`. A project's name is known to the page
at once, the list of chats only after a poll. `past`, `aligned` and `sent` are
history. Left out: the search, its filters and results, and the refreshes, which
only display; a browser that refuses storage; and `selectWriterContext`: the
repository's README speaks of a visible writer-context selector, but no page calls
this function, and `tests/test_webui.py` wants the pages without one.

### 2.5 `Configuration`, `Recall` and `Bridge`

A call reads its settings, then its identity, then the schema of the store, and
then runs the core; each is one action, and anything may happen between them. Where the
store is missing, `init` looks once more and then runs the core, in two actions.

| Code | Actions |
|---|---|
| `bridge_and_config` and `MemoryApi._bridge`: settings | `Request`; `RequestDefaults` when the hook fails |
| `InvocationContext.from_agent`, and the checks before the gate | `ReadIdentity` |
| `ensure_initialized`, `_require_existing_schema_v3` | `Inspect` |
| `init` | `Initialize` (the look), `CoreInit` (the core) |
| `_run_json`, `_process_environment`, the core | `Run`, `RunRefused` |
| users, other programs, the operator | `MoveChat`, `SaveSettings`, `OtherProgram`, `EnablePolicy` |

The operations fall into those that store (`remember`, `evidence`, `capture`),
those that read, and those that change what is stored; `list` stands for every
operation with the gate of an ordinary read, `audit` for those of
`_require_existing_schema_v3`, `sync` for both synchronisations, `scan` for
`integrations_scan`. Whether a request has a chat decides whose settings it has.
`Load` is `load_config` as a function from a dictionary to a dictionary, because
it is applied to its own result: by the hook before Agent Zero saves, by the hook
that reads, by the API or the tool, and for a request without a chat to the file.

What the code does, and the properties take into account:

- `load_config` notes the error of a project root that is no path, and sets the
  root to `None`. When the result is loaded again, the error is gone and
  `allowed_project_root` falls back to the scope's root or the repository's:
  `paths.py:112` is not reached through the bridge. `SourceSelected` and
  `ReloadStable` are therefore stated for settings whose roots are paths.
- The API goes on with the defaults when the hook that reads the settings fails
  (`memory_api.py:322`): a write of the project then lands in the default root,
  under the project's name. `OneProjectPerWrite` allows exactly this.
- The root and the project root of the environment become part of what is saved.
- `consolidate`, `maintain` and the synchronisations take the project, and the
  first the whole identity, from the payload where it names one. `remember` and
  `evidence` refuse a project other than the chat's, but for a chat in no project
  they take the project that the payload names (`_bound_write_project`, finding 6);
  `capture` refuses a chat in no project. `WriterIsCaller` is about these three and
  says what the code guarantees: a chat in a project writes for that project only.
  `own` records the project the chat was in when the call read its identity.
- Other programs create stores too, older ones an old store. `late` is the callers in
  whose root that has happened since `init` looked; the core migrates such a store,
  and `StoresKept` allows this case and no other.
- The preview of an import and `integrations_scan` run the core without a look at
  the store. That the core's dry run and scan write nothing is assumed of it.
- The hooks may bootstrap the root they select, while settings are read or saved:
  `Bootstraps` lets them create or migrate it (`Bootstrap` says when they do).
- A write whose answer was lost may be in the store: `Run` has both outcomes.
  Nothing is stored twice because the core knows an operation id and its writer
  again (`Known`, external); the plugin's part is to forward both unchanged.

`number`, `asked`, `home` and `own` of a memory, `from` and `home` of a call,
`edited`, `past`, `roots` and `late` are history. Left out: the filters by event type and
sensitivity, which work as the ring's does; the ranking; the default of a missing
limit; which memories a consolidation, an import, a synchronisation or maintenance
derives; which file below an allowed folder is named.

## 3. Runs

| Run | Question | States |
|---|---|---|
| `lifecycle_kill` | With a turn that may be cancelled anywhere and cleaned up late, and a binding that changes while agents run: permits, isolation, retirement, agreement of prompt and cache, children bounded, one turn per checkpoint, a capture only against the checkpoint that was shown, and the abstract registry implemented; a cancelled turn may leave one child and its checkpoint behind, and nothing else | 662 k |
| `lifecycle_live` | Bindings changing between turns only, under fairness: every call returns, every published checkpoint leaves the cache, and captures stay in its project | 45 k |
| `lifecycle_status` | *violation*: see finding 1 | |
| `lifecycle_project` | *violation*: see finding 2 | |
| `upgrade_offline` | Four requests, a crash, a rollback, the store offline during requests: the rollback is always possible, no migrated store is filed as a backup, and the abstract gate is implemented | 683 k |
| `bootstrap_hooks` | Two threads, three kinds of configuration, one change from outside or a restart, hooks and dashboard migrating a Python-v1 store: one bootstrap at a time, no store but the selected one, no old store but one that appears behind the look of `init` | 4.8 M |
| `bootstrap_gate` | *violation*: see finding 3 | |
| `bootstrap_save` | *violation*: see finding 4 | |
| `writer_project` | One activation, two chats switched, moved, deleted or the page reloaded: writers and proofs belong to their project, and remembered writers stay | 418 k |
| `writer_shown` | *violation*: see finding 5 | |
| `bridge_calls` | Two concurrent calls of nine kinds, a change or a failing hook between any two steps: writer, root, retry, capability, creation and migration of stores, folder, recall | 1.5 M |
| `bridge_project` | *violation*: see finding 6 | |

### Findings

1. `FailureWithheldFromStatus`. `_redacted_activation_payload` keeps the public
   state "awaiting proof" when this process saw an injection fail. The latest
   result of a store is overwritten by any other agent of the project, also one
   whose storage root is isolated and that therefore attempted nothing; the API
   then reports the store active on core's receipt alone.
2. `CheckpointBoundToProject`. The prompt says a checkpoint is bound to the
   project; `_turn_key` has no project. If the project of an agent changes during
   its turn, the old project's checkpoint authorises a capture that the bridge
   stores in the new one.
3. `NeverAutoOpened`. The README says that the bridge never opens an old store by
   itself. `bootstrap_runtime` runs the core's `init` in a project without a
   manifest before it looks at the store: an old store there is migrated without
   a backup.
4. `SavedIsApplied`. A configuration that needed the user's review is cached as
   bootstrapped; saving the corrected one does nothing until Agent Zero restarts.
5. `WritesGoWhereShown`. "Activate this project" for a project other than the
   active chat's makes a chat of that project the writer context, and leaves it
   so. The panel goes on to name the active chat's project as the one writes use;
   they go to the activated one until the panel is opened again.
6. `ProjectIsCallers`. The documents say that identity never comes from the payload
   and that the project is that of the active chat. For a chat in no project
   `_bound_write_project` returns the project that the request names, and the memory
   is filed under it.

Finding 3 has a smaller sibling without a run of its own. `TreeRingCli.init` inspects
the store (`cli.py:147`) and then starts the core (`:151`), with nothing held in
between: an old store that another program creates there is migrated without a backup,
and the inspection afterwards sees schema v3. The bootstrap, the dashboard's migration
and every operation that initializes a missing store share this gap. `GateHeldWhenLooked`
and `StoresKept` name it as their exception (`late`); without it, TLC refutes both.

### Bounds, and why they are enough

- **`Turns` = 3, two agents.** Two successive turns of one agent, so that one's
  late cleanup meets the other's cache entry, and a subordinate that differs in
  the number only. `MaxConcurrentPreflights = 1` makes them contend: the code's
  limit matters only in being reached.
- **`Ids` = 3.** One checkpoint for each turn, or a second one for a turn whose
  entry a late cleanup removed. When all are used, a preflight that would
  succeed waits; in the liveness run each turn builds once, so this cannot
  happen there. That run begins with every agent in one of two projects, and one of
  them is switched to the other between turns.
- **`MaxBuilds` = 2** gives a miss and a hit in one turn. **`MaxSwitches` = 1.**
- **`Requests` = 4** for `upgrade_offline` (two preparations, two applications,
  or an ordinary request between them). **`MaxClock` = 1**: two
  preparations in the same second, which share a name, or in different ones.
  **`MaxGen`** = 1 or 2 contents beyond the first. **One crash, one rollback.**
  What holds when the operator does not keep the store offline is proved
  (`OldBackups`, section 4), not run.
- **`Threads` = 2**, **`MaxChanges` = 1**: one thread inside the bootstrap and one
  at its door; one change between any two steps. `HooksSpec` starts from a subset
  of the initial states (the plugin's own store absent, the project's not yet at
  schema v3, the policy open, the manifest not damaged, an unmounted project without
  one): the actions lead to the others. A configuration
  with contradictory roots (`Conflict`) appears in `bootstrap_gate` and
  `bootstrap_save`; in `bootstrap_hooks` it would take the way of `Isolated`.
- **`Chats` = 3, `Projects` = 2, `MaxChanges` = 2**: two chats of one project and
  one of another, and two changes around one activation. `writer_project` has
  every kind of change: a page without an active chat (`Deselect`), chats that
  change projects (`Reassign`), a writer kept by the previous version
  (`Upgraded`). `writer_shown` needs none of them.
- **`MaxCalls` = 2, `MaxChanges` = 1** in `bridge_calls`: a write and its retry, or
  two calls at once, and a change (or a failing hook) between any two steps. A
  chat and a fan-out worker of it, a listed profile and another, two projects with
  a root each and the default root; one chat in a project and one in none; settings that conflict, that are invalid, that
  name the scope's folder only; with and without a project root in the
  environment; stores that are all at schema v3, or absent, old and newer. Requests
  are nine records, at least one for each way a call can take. `MaxLimit` = 2 and
  `ScanFactor` = 2 stand for 100 and 5: three memories exceed the limit, and with
  two wanted the window matters. `RecallAssumption` is what the code's numbers
  satisfy; the theorems hold for all that do.

Checkpoint identifiers, requests, threads, callers, chats and projects are interchangeable and symmetry
is used for them in the safety runs, never in the liveness run. `lifecycle_live` draws
identifiers in a fixed order instead (`InOrder`): which one is drawn makes no difference,
and no action is disabled by it, so the fairness assumed is the same. The proofs
below need none of these bounds.

`CHECK_DEADLOCK FALSE` in the lifecycle, upgrade and bridge runs: every turn ends,
every request and call finishes, and there are finitely many; the model stops there. The
bootstrap threads and the page go on forever and deadlock is checked.

### Fairness

Only `lifecycle_live` uses it.

- A coroutine that is not suspended runs: weak fairness for the steps of
  `inject_lifecycle_context` and of the capture that wait for nobody.
- A child ends: weak fairness of `ChildExits`; `cli.timeout_seconds` bounds it.
- `asyncio.Semaphore` serves its waiters in order: strong fairness of
  `AcquireSlot`, whose guard comes and goes with other turns' permits.
- A monologue ends: strong fairness of `MonologueEnd`, which a turn's other
  activity disables again and again; weak fairness of `LateMonologueEnd`. Both
  are Agent Zero's promise: it calls `monologue_end` for a cancelled turn too.

Nothing is assumed of users, of the operator or of a turn's captures.

## 4. Proofs

TLAPS checks the following for all values of the constants that satisfy the
named assumptions.

**`LifecycleProofs`** (assumption: `ConstantsAssumption`).
`Invariance`: `Spec => []IInv` with `IInv == TypeOK /\ SlotAccounting /\
CheckpointInv`. `TypeCorrect`, `PermitsConserved`, `CheckpointsOwned` follow.
`SlotAccounting` speaks of the cardinality of the turns inside the semaphore, so
each action gets a lemma on how the set changes (nothing, one joins, one leaves).
`CheckpointInv` is the strengthening the other two need: `Isolation`
(`[]IdentityIsolation`) holds because whatever is cached, about to be published
or held by a call was issued to the same key, and `RetirementIsFinal`
(`[]RetiredStaysRetired`) because a checkpoint about to be published is nowhere
else and never retired. Retirement of a cached identifier by one turn and its
publication by another cannot both happen, since only the owner publishes it.
`FailureWithheld` says what finding 1 takes: where no agent's binding is
`active-isolated` (the theorem's one hypothesis), whatever is recorded for a store is
an injection attempt (`SharedOnly`), and `FailureWithheldFromStatus` holds.

**`TurnProofs`** (same assumption). `ShownInvariance`, `Spec => []Shown`: one
monologue at a time runs for an agent, and what a call of it has read from the
cache before an `await` it still finds after it, since nobody else fills the entry
of its key and a late monologue end can only empty it. `PromptAgrees` follows.
`OrderlyInvariance`, `Spec => []Orderly`, says which turn a checkpoint belongs to,
cancellations included: an entry of the cache belongs to a turn whose monologue end
is still to come (`EntriesKept`), so that a running turn finds either its own
checkpoint there, which it shows, or one that a cancelled turn of its agent left
behind (`CachedUsable`, `OnlyLeftBehind`). `ChildrenHavePermits`, `OneTurn` and
`ShownBeforeAccepted` follow; `ChildrenBounded` counts by the library's facts on
cardinality: the running children are among the holders of permits and the
cancelled turns. `NothingLeaks` draws the consequence for the cache: once every
turn has ended, it is empty. Where projects change between turns only
(`~MidTurnSwitch`), `Settled` says that a running turn's binding, its configuration
and the origin of its checkpoint are of one store: `BoundToProject`. That
restriction is needed: `lifecycle_project` shows what a change during a turn does.
`RegistryImplemented`, `Spec => ImplementsRegistry`, needs no restriction: a
published identifier is new because of `CheckpointInv` and finds no other because of
`Shown`, and `WriteSpent` says that whatever is being written for has been active.

Two theorems give what `InjectReturns` rests on besides fairness, for any number of
turns and permits. `NobodyWaitsInVain`: while a turn waits, a permit is free, or it
is held by a turn that waits for its own child and for nothing else (`Awaited` with
`SlotAccounting`). `CallsAdvance`: each step of a call brings it nearer to its turn,
whatever the others do, and none lets it start over.

**`SchemaUpgradeProofs`** (assumptions: `UpgradeAssumption`,
`NoContentAssumption`). Without the offline rule: `BaseInvariance` with `TypeOK`,
`BackupsAreOld`, `LockHeldOnlyToCopy` and `CopyHeld` (a request past the
checkpoint holds a copy); `UpgradeTypeCorrect`, `OldBackups`, `LockReleased`
follow. Under `Offline`: `OfflineInvariance`, `Spec => []UpgradeInv`. Its key is
`Current`: while the store is offline, all requests see one content, that of the
old store or of the store before its migration, and `RequestInv` says what each
step of a request knows about it. A step of one request leaves `Current` alone
and can only add backups of it, so the other requests keep what they know; the
lemmas `SafeStep`, `SameCurrent`, `OtherKept` and `Combine` state this once.
`AlwaysAWayBack`: `[]RollbackPossible`. `GateImplemented`: `Spec => ImplementsGate`.
`CompletedIsTrue`: `[]CompletedMeansUpgraded`, from an invariant on every copy of
the marker, in a request's hands, in the temporary file or in place: it is for the
present old content (`Exact`), and completed only after a migration from the
content it names (`Truthful`). `UpgradedFromBackup` draws the consequence of the
refinement for the store: it becomes schema v3 only from a content that a backup holds
and keeps, and what it was migrated from is forgotten by a rollback only, never
overwritten. `RequestsAdvance`, without any hypothesis: no request repeats a step.

**`BootstrapProofs`** (assumption: `BootstrapAssumption`). `HooksInvariance`:
`TypeOK /\ BootstrapsOnce /\ CallsKept`; `HooksTypeCorrect`, `OneBootstrap`,
`SelectionKept`; from it the action properties `SelectedOnly`
(`OnlySelectedStore`) and `GateHeld` (`GateHeldWhenLooked`). The latter needs
`Overtaken`: a thread about to run the core's `init` in a root with an old store is in
`late`, since the store was not old when it looked (`CliInit`), and whatever made it old
afterwards has put the thread there. `BootstrapsOnce` has the
lock in both directions: a thread is inside the bootstrap exactly when it holds it,
so a bootstrap that raises never keeps the next one out. `SelectedOnly` also gives
what `Bridge` assumes of the hooks (`Bootstraps`): only the configured store changes,
and only from absent or old to schema v3. `MarkerAfterImport`,
`[]MigrationMarked`, adds `MarkInv`: whoever is about to write the marker of a root
has imported into it, the dashboard's requests outside the lock included.
`SavedApplied` says what finding 4 takes: if every configuration that selects the
project's store can bootstrap it (`Usable`), `SavedIsApplied` holds as long as nothing
has been changed from outside. Its invariant `Applied` follows what a bootstrap
knows: it reports another state than a missing activation, or a ready store, only
after it has seen one, so a root is cached only when its activation is no longer
missing.
`OpenedByActivation` says what finding 3 and its sibling take: if the configuration of an
activated project (`Activated`) is none of those ever saved, and `late` stays empty
(`[](late = {})`, a hypothesis on the behaviour), nothing opens an old store. Every
configuration in use has been saved or is the default (`SavedOnly`), `CallsKept` says
which of them may activate, and `GateHeld` leaves no third way. `HooksAdvance`: no hook
and no migration goes back to an earlier step, and none takes more than fifteen; `LockHeldInside`: the lock is held from inside a bootstrap
only, where no step waits for another thread.

**`WriterContextProofs`** (assumption: `WriterAssumption`). `WriterInvariance`:
`IInv == TypeOK /\ Placed /\ SavedInProject /\ WriterAligned /\
ActivatesInProject`. `Placed` says that `past` holds every chat's present
project, which is what makes a choice among a project's chats a chat that has
been in it; `WriterAligned` says of the writer, and of the active chat, what
`OpenedInProject` says of `CurrentContext` and of the project the panel names; `ActivatesInProject` extends `ProvedInProject` back to the
save of the configuration. `WriterTypeCorrect`, `IdentityScoped`,
`OpeningAligns`, `ActivationProved` follow, and from the types `WriterKept`, that
a remembered writer which is still available gives way to the writer in use only.
`AlignedWrites` says what finding 5 takes: until an activation or a change since the
panel was opened, every write goes to the active project, and where the panel says.

**`BridgeProofs`** (assumptions: `ConfigurationAssumption`, `RecallAssumption`,
`BridgeAssumption`). Of the operators: `ReloadStable` (loading a loaded result
changes nothing), `ConflictSurvives`, `ActivationResolves`, and `RecallExact`, what
recall returns against its definition, from the library's facts on cardinality. Of
the calls: `Invariant`, `Spec => []IInv`. Besides the invariants themselves `IInv`
says that the settings of a call are those of its project, loaded any number of
times (`Settled`, by `Reached`, which `ReachedLoad` shows loading to preserve);
that a call past its second step has the identity of its chat, in the project, or in
none, where it then was (`Identified`); that a call about to run the core's `init` in a
root with an old store is in `late` (`Overtaken`), which is what `StoresKeptHolds`
rests on; that a call under way has no token and initializes
only for an operation that may (`UnderWay`); and that the stored memories carry
the operation id they were given (`KeysForwarded`), without which two writes of
one operation would not be recognised. `MemoriesKept`, `OthersKeep` and
`ChangesKeep` state once what a step leaves alone. `TypeCorrect`,
`WriterIsCallerHolds`, `OneProjectPerWriteHolds`, `OncePerOperationHolds`,
`CapabilityIsLeastHolds`, `CoordinatorNotDeniedHolds`, `SourceSelectedHolds`
follow, and the action properties `StoresKeptHolds` and `RecallCompleteHolds`.
`CallsEnd` says that a call is answered after at most five steps, with no retry among
them; `OwnCall` states once that a caller's step moves no other call.

**Model-checked only**: the liveness properties `InjectReturns` and
`CheckpointRetires`, since liveness under fairness is outside this prover's reach.
What they need of the state is proved: `NobodyWaitsInVain`, `CallsAdvance`,
`EntriesKept`. Refuted, and proved under a hypothesis that excludes their cause, are
`FailureWithheldFromStatus`, `CheckpointBoundToProject`, `NeverAutoOpened`,
`SavedIsApplied` and `WritesGoWhereShown`. For `NeverAutoOpened` there is also
`GateHeld`: whatever is configured, the activation step and the gap of `init` are its only
exceptions. How far `ProjectIsCallers` fails is what `WriterIsCallerHolds` says.

## 5. Not modelled

- **The core.** Only what the plugin relies on: a receipt is stored with each
  answered preflight, a capture is stored once per operation identifier, `init`
  is one SQLite transaction.
- **Power loss.** The plugin calls no `fsync`; a crash here is the end of the
  process, and renames survive it.
- **A restart of Agent Zero in `Lifecycle`**: its state is memory only, so a
  restart is the initial state again.
- **Fields and formats**: event labels, log lines, prompt text, receipts'
  fields, file modes and ownership checks, the normalization of memory records.
- **The checks of single arguments** in the API and the tools, the resolution and
  the version of the executable, and the redaction of its output: sequential, each
  with a test of its own.
- **The Web UI's search**: answers may arrive in another order than their questions
  (`memory-store.js:476`); they are displayed only, and the store promises nothing.
- **`bin/`, `scripts/`, workflows**: binaries, release and build tooling.

## 6. Plan

Done: the components whose interleavings decide what users lose, the Web UI's
choice of a writer, the calls through the bridge, two abstract specifications, and
proofs of every invariant, action property and refinement that a passing run
checks. Next, in this order:

1. Liveness of the bootstrap: every hook returns when the core's calls do. Its safety
   half is proved (`HooksAdvance`, `LockHeldInside`); a run with fairness is left.
2. The Web UI's overlapping searches, once the store promises which answer stays.
3. `WriterContext` and `Bridge` in one module: that the project a panel names is the
   one in which the core stores, while chats move between the two.
