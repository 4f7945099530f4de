# tspack in TLA+

tspack is a package manager and build tool for TypeScript projects.  A project
is described by a manifest (`manifest.tsx`); tspack resolves its dependencies
into a lockfile, keeps the packages in a content-addressed store, materializes
them into `node_modules`, builds and runs targets, tests them, packs them, and
runs *workflows*: authored trees of build, test, audit and process effects that
are lowered to a state machine and executed concurrently.

This directory models the parts of it where something can go wrong in an order,
or for a combination of inputs, that no test exercises.  Processes with steps,
failures and interleavings are state machines; what is decided by a function of
the inputs is an operator, checked over all combinations of small inputs
against a definition of what it is for.

## The system

| Part | Code | State it keeps | Operations | Hard because |
|---|---|---|---|---|
| Manifest frontend | `manifest-frontend/src/index.ts` | evaluated records, result identities | evaluate expressions, loops, split workspaces | one evaluated body is copied for every iteration |
| Manifest IR | `internal/manifest` | the manifest | `Validate`, effective dependencies, build order | everything later relies on what is refused here |
| Dependency authoring | `internal/authoring`, `internal/concepts`, `internal/manifestedit` | the tape of declarations | effective dependencies, edits, projection into the source, merging concepts | layers and overrides; an edit is aimed by index |
| Resolver | `internal/resolver`, `internal/requirements` | packages, edges, requirements, two memos, worker pool | frontiers, peers, endpoints and retries | workers share calls; peers are resolved in rounds that change who controls a version |
| Lockfile, graph | `internal/lockfile`, `internal/graph` | records of a lock | module instances, checks, comparison | recursion over a graph that may be cyclic |
| Store | `internal/store` | blobs, trees, metadata | `PutArtifact`, `Verify` | a mutex per hash made on demand; a crash between three writes |
| Materializer | `internal/materialize` | `node_modules`, a marker with the plan's digest | plan, clean, operations, prune, fixtures | the marker is compared with a tree that may have changed since |
| Project lifecycle | `internal/project` | manifest and lockfile on disk | add, remove, update, sync, pack | several files must agree when one step fails |
| Workflows | `internal/workflow` | the flow's snapshot, running effects, channel | plan, lower, run | nested scopes, goroutines, Ctrl+C, timeouts |
| Artifact transport | `workflow/artifact_transport.go` | a staging directory, the destination | copy, verify, rename | the source changes while it is copied; one of several fails |
| Build targets | `internal/cli/*build*.go`, `project/built_test_fixtures.go` | artifacts, cache records, staging paths, one coordinator per run | build, cache, replace, project, make fixtures | edits during a build, crashes between record and artifact, two tests that want one target |
| Run sessions | `internal/cli/run_command.go`, `vite_dev.go` | process groups, timers | select, prepare, start, wait, stop | exit, readiness, timeout and Ctrl+C at about the same time |
| Native tests | `manifest-frontend/src/native-test` | per-test activity, artifacts, sandboxes | run, time out, judge, report | a body goes on after its timeout, in the same process |
| Watch | `internal/testcmd/watch.go` | a snapshot of files, pending changes, a timer | poll, debounce, run | edits while the tests run |
| Import boundaries | `internal/boundary`, `internal/graph` | none | check imports, assign sources to compilers | what a path reaches depends on where it starts |
| Migration | `internal/cli/migrate*.go` | drafts and evidence | convert package.json, scripts, locks | what is not understood has to be marked |
| Pack | `internal/pack` | plans, archives | plan, write, verify, rename | a tree that changes meanwhile |
| Browser | `internal/integrations/browser` | a page's frames, plans and hosts | bundle, import map, runtime | plans wait for hosts that come and go |
| Skyrim | `internal/integrations/skyrim` | deployed files, backups, fixtures | deploy, run, restore, capture | a kill between a change and its undoing |
| Why | `internal/why` | none | explain a dependency or a script | forward and reverse answers must agree |
| Lifecycle scripts, update policies | `project/lifecycle_support.go`, `cli/doctor_command.go`, `cli/lifecycle_adjacent_commands.go`, `internal/updatepolicy` | none | check, doctor security, outdated, `update --policy` | four matchers of the same acknowledgements |
| Templates | `internal/templates` | the files of a new project | validate, plan, apply | nothing may be overwritten, and all or nothing written |
| Other reports, bridges, editor | `internal/audit`, `internal/cli`, ... | none of their own | | presentation and analysis |

How they interact: the frontend evaluates the manifest, `manifest` validates it,
`authoring` decides which declarations are effective.  `project` operations
resolve through `resolver`, fill the `store`, write manifest and lock, and call
`materialize`.  `flow.go` turns workflow records into a flow; `RunFlow` feeds
events to the pure `Step` and starts a goroutine for each effect that becomes
active, which runs a process or a `project` operation and sends its completion
back over a channel.  Effects that are executing at once share one build
coordinator.  `cli` starts the sessions, and the harness runs in a process of
its own.

## Modules

```
 workflows    FlowLowering <- FlowTrees (machine on lowered trees)   FlowMachine <- FlowExecutor
              FlowExecutor  refines  WorkflowContract   Frontend, WorkflowPlan (before the lowering)
 packages     Store  refines  StoreContract    Store <- StorePopulation
              Resolver   RegistryChain   Lockfile <- MaterializationPlan   Materializer
              ProjectLifecycle   Acknowledgements
 manifest     Authoring, BuildOrder <- Manifest     ImportBoundaries   Migration   Packing
 targets      TargetBuilds   BuildOrder <- BuiltTests   RunSessions
 tests        NativeTests
 integration  BrowserPackages   BrowserRuntime   Skyrim
 proofs       FlowExecutor_proofs   Store_proofs   Materializer_proofs   Resolver_proofs
              Lifecycle_proofs   Harness_proofs   Builds_proofs   Targets_proofs
```
(`A <- B`: B extends A.)  Every module states at its top what its records and
numbers stand for, and `PROJECT.json` gives the lines of each definition.  Names
are compared and never taken apart, except where the code does so; where the
code sorts strings, a name is its rank.

### Workflows

**FlowMachine** is `machine.go`.  A flow is a sequence of node records; a node
is its position, which is the order `addNode` gives identities and so the order
`sort.Strings` gives completions (true up to 999 nodes, whose numbers are padded
to three digits).  A snapshot keeps the status, the state of each node, the
active set, the outcome and the value of each effect, the cleanups that failed
and the step count.  `Step` is one operator for each of its events (`Start`,
`EffectStarted`, `EffectFinished`, `CancelRequested`); `settleControl` is
`SettleNode`, one node at a time in the order the loop visits them
(`SettlesNext`).  Values are reduced to what a guard can ask of them: nothing, a
result without the fact, or the fact.  The trace, event sequence numbers,
iteration cursors and the layout of aggregates are left out: nothing in the
machine's control reads them.

**FlowExecutor** is `RunFlow`.  `pc` is the coordinator's place in it:

| pc | code | actions |
|---|---|---|
| start | `flow_executor.go:38` | `StartFlow` |
| loop | the loop head, 48-53 | `LeaveLoop`, `CancelFlow`, `BeginRound` |
| launch | 54-90 | `Launch`, `SkipLaunch`, `RefuseLaunch`, `EndRound` |
| collect | 91-102 | `Collect` |
| apply | 103-152 | `ApplyCompletion`, `EndApply` |
| settle | inside `Step`, `machine.go:181` | `Settle`, `EndStep` |
| report, done | 154-156 | `ReportResult` |

Each effect has a goroutine: `AcquireSlot` (the semaphore) or `GiveUp` (its
`select` takes `ctx.Done()`), `RunEffect` (it runs and sends), `ReleaseSlot`
(the deferred release, after the send).  `CancelContext` is Ctrl+C.  The
coordinator reads the context at the loop head, before each launch and when it
applies a completion, as the code does, so Ctrl+C may come between any two.
When `Step` fails it gives back the snapshot it was called with (`prior`), and
what RunFlow does then depends on the event (`FailStep`).

**WorkflowContract** is what RunFlow promises its caller: each effect is started
at most once, nothing starts after Ctrl+C but cleanup, nothing is at work when
the call returns.  `FlowExecutor` refines it through `Contract`.

**FlowLowering** is `flow.go`: one operator per authoring form, the builder
passed along as the code passes it, the outcome targets saved and restored.  It
is recursive and therefore for TLC only.  Left out: placement (regions,
platforms, environments), the types of values, iteration cursors, size limits.

**FlowTrees** says what an authored tree means without any graph: the endings
it may have and the effects it may run, given how its effects ended
(`docs/workflows.md` and `docs/dev/m77-typed-workflow-values.md` describe the
forms).  It runs the machine on the lowering of every tree of a finite set,
effects ending in every order and with every outcome, and compares with the
meaning (`TreeIsFollowed`).  The meaning is the documents'; where the code departs
from it, the case is named (`BranchFailsInScope`, `CleanupFailsInScope`,
`BranchesFailApart`), the property stops there, and the run `scopes` shows the
first of them.

**Frontend** is how the TypeScript frontend evaluates a written workflow: an
expression has a form, a result identity is the place of the call followed by
the iterations around it, and a loop copies one evaluated body, renaming the
identities its own effects produce (`NamespaceWorkflowValues`,
`CollectProduced`).  It also puts the packages of a split workspace together.

**WorkflowPlan** is `validateWorkflows` and `BuildPlan`: what the manifest
accepts is lowered to a flow that `ValidateFlow` accepts, and every combination
of a job's matrix needs all combinations of the jobs it needs.  It composes
`FlowLowering` and `BuildOrder`.

### Packages

**Resolver** is `ResolveNPM`.  Requests are a frontier; the frontier is grouped
by package and range; a submitter offers the groups to workers (`Offer`,
`Take`), who look at two memos (`LookupMetadata`, `LookupPackage`), fetch, or
wait for another worker's call (`Await`); one goroutine commits what was prepared
in the order of the groups.  `pc` is the coordinator's place (`enqueue`,
`frontier`, `prepare`, `commit`, `peers`, and the three passes at the end,
`reconcile`, `prune`, `recompute`, before `finalize`).  A range is the set of
versions it admits, or one that does not parse.  `TargetJobs` is the occupancy
controller's decision for a host budget.  What a registry knows is a function of
names and versions; a name that nobody published has no versions.

**RegistryChain** is `fallbackRegistryBackend` over `HTTPRegistryClient`: the
endpoints of a source in turn, each with a retry, and what makes an answer one
that may be passed over.

**Lockfile** is a lock as data with `RebuildModuleInstances`, the checks of a
file that is read, and `DiffLockfiles`.  **MaterializationPlan** computes from
it the entries of the plan and the operations that carry it out, for locks with
instances and for older ones without, and the fixtures of tests.  `Lockfile`
also has `tspack why`, forward and in reverse, over a lock.
**Materializer** is `Materialize` over such plans: the fast path by the marker,
cleaning, each operation (done, done half, failed, or cut off by a crash),
pruning, the marker, the fixtures and theirs.  `Delete` is somebody who removes a
directory anywhere, one instance or a nested package as well as everything.
`touched` and `gone` remember what other syncs changed and what was deleted since
the marker was written, for the properties.

**Store** is `store.go`: what `PutArtifact` does to one artifact, step by step,
by the goroutines of one command that share a `Store`.

| pc | code | actions |
|---|---|---|
| idle | the caller | `BeginPut` |
| enter | `lockArtifact`, 271-278 | `Enter` |
| wait | `lock.mu.Lock()`, 280 | `Acquire` |
| blob | `writeBlobIfMissing` | `WriteBlob`, `BlobFails` |
| check | the tests in 129 and 136 | `CheckTree` |
| remove, clear | `os.RemoveAll`, 130 and 137, and again inside `copyTree`, 668 | `RemoveSome`, `RemoveTree`, `RemoveFails` |
| publish | the rest of `extractTarGz` or `copyTree`, `finalizeAtomicDirectory` | `PublishTree`, `PublishFails` |
| read, record | `mergeStoredProvenance`, `writeMetadata` | `ReadMetadata`, `WriteMetadata`, `MetadataFails` |
| unlock, release | the closure `lockArtifact` returned, then the return | `Unlock`, `Release` |

A tree is `absent`, `headless` (no `package.json`), `holed` (something else is
missing or changed) or `whole`; removing one takes file after file, so that a
crash may leave any of what remains.  Building the temporary copy and renaming
it is one step, since nobody looks at the copy; an error or a crash before the
rename leaves the tree as it was.  An identity is its rank in
`provenanceIdentityKey`'s order and `payload` is the put the metadata's other
fields come from, so `Merge` has the four cases of `mergeStoredProvenance`.
`Damage` is somebody else who deletes or changes files of a tree while nobody
puts it.  `tampered` remembers which trees that happened to, and `misread` which
were published from a directory that had changed since it was hashed, both for
the properties only.  `Crash` ends the process.  Left out: the preferred values of an identity
that is repeated with other ones, `PutPatchedTree`, what a file system loses
when the machine (not the process) stops, and a second process on the same store
root: the mutex is in memory, and no document says that two commands may run at
once.

**StoreContract** is what the store promises: a catalog of the identities of each
artifact, from which none is ever lost, and no success reported for what is not
in it.  `Store` refines it through `Contract`.

**StorePopulation** is the commands around it, one after another on one project.
`tspack update` runs two pools of workers, `prepareGroups` (phase `capture`) and
`populateStoreParallel` (phase `populate`), and then truncates and writes the
lockfile (`open`, `fill`).  `pool` is a worker's place in its loop, beside its
place `pc` in `PutArtifact`; the producer's look at the stop flag and its send
are two steps in `prepareGroups` (`CommitHead`, `Feed`) and one `select` in
`populateStoreParallel`.  `tspack sync` verifies every locked artifact and
hydrates the missing ones on one goroutine (phase `hydrate`); what it
materializes afterwards is module Materializer.  A local package's directory may be
edited at any time, so that its hash no longer matches (`Mismatch`) or its copy
is not what was hashed (`Copies`); in the run `store` neither happens, and
metadata that is there can always be read.  Simplified: the resolver is the plan
it makes, one frontier of required packages; a package has one identity; `Has`
and `Verify` are one step; patches, targeted and dry-run updates, and offline
policy are left out.

**ProjectLifecycle** puts the commands together over what they share with each
other and with the user: the manifest's source, the lockfile, the store and
`node_modules`.

| pc | code | actions |
|---|---|---|
| load | `dependency_edit_target.go:12`, `update_operation.go:37` | `Start`, `Load`, `Sync` |
| plan, write | `add_operation.go:259-430`, `remove_operation.go:80-272` | `Plan`, `WritePlannedFile` |
| preflight | `add_operation.go:348` | `Preflight` |
| resolve, populate | `update_operation.go:37-236` | `Resolve`, `Populate` |
| lock, fill | `os.WriteFile`, `update_operation.go:250` | `TruncateLock`, `WriteLock` |
| rollback | `projection.go:222-262` | `Rollback` |

`World` is everybody else: the user edits the manifest or removes a torn
lockfile, the registry publishes, and a command is killed.  A manifest that
declares a name twice is refused (`Valid`); a full update locks the closure of
what is declared (`Reach`), in which every requirement selects by its own range,
so that a lock may hold a name at two versions; a targeted one merges two locks
(`Preserved`), as the code does.

**Acknowledgements** is what becomes of the lifecycle scripts a lock records:
the three reports on which of them the manifest acknowledges (check, doctor
security, why), each with the matcher it has; and `outdated` and
`update --policy`: which candidates a policy allows, its gate, which asks of a
candidate what check will ask of it, the plan and its steps.

### Manifest

**Authoring** is the tape of declarations, the edits of `add` and `remove`, what
becomes of an edit in the source, and the merge of concepts.  **Manifest** is
`Validate` with what the build and the tests take from an accepted manifest;
**BuildOrder** the two depth-first walks over its targets and jobs.
**ImportBoundaries** is `boundary.Check` over the graph's dependencies of a
target, and which sources each compiler is given.  **Migration** is what a draft
declares, marks and writes.  **Packing** is what tspack writes beside files it
did not write: the plans, archives, verification and outputs of `tspack pack`,
the files of a template, and the artifacts a transfer moves.

### Targets and tests

**TargetBuilds** is one target built again and again by each compiler, with its
cache record, staging path, replacement and projection, while sources are
edited and edited back, writes fail and tspack dies.  A file holds the contents of
the sources it was made of, and a record the contents it was fingerprinted from;
`since`, `made` and `match` are history, for the properties.

**BuiltTests** is the Build and Test effects of a workflow that execute at once:
the coordinator's single flight (`Leads`, `Follow`), the artifacts, and the
built fixtures step by step (verify, lock, reuse or remove, copy, place).

**RunSessions** is `tspack run`: what it decides before a process starts (the
target meant, its directory, environment, readiness URL and executable), and what
happens then: process groups that show readiness, exit, or ignore SIGTERM; the
readiness timer; the stop with its escalation, in the goroutine of the command
or of Ctrl+C.

**NativeTests** is the harness: workers claim files and run tests in a race with
a timeout; an action is what happens between two awaits, and a body may do
anything (assert, open and complete expectations, write, skip, throw, never
return) also after it lost the race.  It ends with the watch loop
(`WatchSpec`), which has variables of its own.

### Integrations

**BrowserPackages** is what a page is served: the entry of each package, its
directory, the import map, the checks of attachments, at the build and at
runtime.  **BrowserRuntime** is the runtime on that page.  **Skyrim** is
`tspack run skyrim` again and again (`SessionSpec`), and the creation of a save
fixture (`FixtureSpec`).

### Model checking modules

`MCFlowExecutor`, `MCStorePopulation` (for the store and its population),
`MCMaterializer`, `MCResolver` and `MCProjectLifecycle` give a module its
constants.  Three put several modules
into one run whose parts share nothing:

- `MCDecisions`: every initial state asks one question of one decision module
  (`question`); three of the questions are behaviours, a workflow of `FlowTrees`,
  a session of `RunSessions` and the builds of `TargetBuilds`, and in every other
  state these are at rest.  The answer's conditions are the value of the constant
  `Sound`.
- `MCBuilds`: four scenes, `BuiltTests`, `BrowserRuntime`, and the two of
  `Skyrim`.
- `MCHarness`: a batch run of `NativeTests` and a watch.

An operator whose name ends in a fault (`DependenciesComplete_Any`,
`CacheHit_AnyRecord`, ...) is the definition of that name with a plausible bug.
No specification uses it; with it in place of the definition, the property
listed beside it in `PROJECT.json` no longer holds.

## Runs

| Run | Module, states | What it shows |
|---|---|---|
| `flow` | `MCFlowExecutor`, 200 614 | A `Finally` around two effects, then a match beside another effect whose arms read a fact and a value that may be missing; two slots, timeouts, a budget of eleven events, Ctrl+C at any moment. Nothing starts before what it needs (`DependenciesHold`), the coordinator works on settled snapshots also when `Step` fails (`LaunchIsSettled`), the cleanup runs once and alone (`CleanupIsExclusive`), RunFlow refines `WorkflowContract` (`ContractHolds`) and returns (`Termination`). |
| `decisions` | `MCDecisions`, 352 286 | Workflows of every form in every form run as the documents say (`TreeIsFollowed`); a session stops its target and ends (`TargetIsStopped`, `SessionEnds`); a build that succeeds is fresh, over sources edited back and forth (`SuccessIsFresh`); and eight properties, each of one or more questions: `ChainFailsClosed`, `WorkflowsAreLowered`, `ManifestsAreBuildable`, `DependenciesAreDeclared` (which includes who owns a source), `DraftsAreFaithful`, `TargetsAreFound`, `ShipmentsAreWhole` (archives, templates and transfers), `ScriptsAreAudited` (reports and policies). |
| `store` | `MCStorePopulation`, 3 293 364 | Two workers put a tarball under three identities and a directory; disks fill up, trees are damaged, the command dies once, anywhere. One writer per hash (`OneWriterPerArtifact`), nothing half published is recorded (`RecordedIsWhole`), the store refines `StoreContract` (`CatalogOnlyGrows`). |
| `population` | `MCStorePopulation`, 654 458 | Two commands, update or sync, on an npm and a jsr package with the same bytes and a directory somebody edits, with failing downloads, writes, reads and removals, and a crash. What is locked is stored and verifies, and only an edit between a directory's hash and its copy is ever recorded wrong (`LockIsBacked`) and every command returns (`CommandsEnd`). |
| `materializer` | `MCMaterializer`, 2 429 727 | Three commands over five locks (with instances, without, with a cycle, with a package that cannot be realized, with two packages under one name), each with or without `--clean` and `--force`, one failing operation, a crash, a deletion of any directory by somebody else, and a `node_modules` of another tool to begin with. A sync that succeeds leaves the tree of its plan (`SyncedIsWhole`), the marker vouches for all that no interrupted sync changed and no unseen deletion took (`MarkerIsSound`), clean removes what is not planned (`CleanIsExact`). |
| `resolver` | `MCResolver`, 2 063 | Five manifests over four registry packages and a local one, two workers, failing endpoints. A question is asked once and the lock is closed (`ResolutionIsSound`), what controls a requirement decides its version and a required peer is there or the user is warned (`RequirementsAreMet`), the resolution ends (`Termination`). |
| `lifecycle` | `MCProjectLifecycle`, 1 948 722 | Four commands among full and targeted updates, adds with and without a range, removes and syncs, over two packages with two versions each; one edit of the user, one publication, two failures or kills. A full update locks what was asked for, each requirement in its own range, and a targeted one leaves the rest (`LockIsReliable`), what is locked is stored (`LockedIsStored`), an edit that fails leaves no trace and one that goes on does what its preflight announced (`EditsAreAtomic`). |
| `harness` | `MCHarness`, 258 201 | Two workers over two files of tests with a sandbox, a type assertion and an artifact, a callback of a module, bodies that go on after their timeout; a watch over two files with three edits. What a report says is earned (`ReportIsEarned`), no edit is forgotten (`NoEditIsForgotten`), both come to an answer (`EveryRunIsAnswered`). |
| `builds` | `MCBuilds`, 646 238 | Two tests and a Build effect over a library and an application, with an edit and a timeout: the tests of one run have one build and run on it (`CoordinatorIsSound`, `TestsRunOnTheirBuild`), every effect ends (`SceneEnds`). A page whose hosts come and go (`PageIsExact`); Skyrim runs with overlays, failing writes and a kill (`OverlayLeavesNoTrace`); fixtures while the game saves (`FixtureIsRecorded`). |

Three runs find a documented statement violated by what the code does; each is a
finding in `PROJECT.json` with the quotation.

| Run | Statement | What happens |
|---|---|---|
| `targeted` | module instances are derived from the package, edge and requirement records | a targeted update of a dependency that no target lists keeps the old edges; the new version is among the packages, the requirements and the instances, but no edge leads to it |
| `backend` | child cleanup is tspack's | a development server's backend is started into a variable of an inner block; nothing ever stops it |
| `scopes` | a failing branch blocks the pending work of its siblings | inside a `Finally`, the failure of one branch starts the cleanup, and the other branch goes on to its next effect |

### Bounds

Every counter that could grow has a bound named in a constant: `StepLimit`,
`MaxCrashes`, `MaxCommands`, `MaxFaults`, `MaxDeletions`, `MaxFailures`,
`MaxEdits`, `MaxPublished`, `MaxMishaps`, `MaxSaves`, `MaxHosts`, `MaxWrites`.
They are chosen so that each case happens, and with every combination of two
faults where a recovery can itself fail (`lifecycle`: an edit fails and its
rollback fails; `builds`: a write of Skyrim's files fails and so does putting
them back).

- Workflows: the trees are all pairs of forms around two effects, since a
  lowering error shows where one scope meets another; loops have three items and
  windows of one and two, the smallest where an item is admitted by another's
  end.  In `flow` two slots for up to two effects and a step limit that some
  behaviours reach and others do not.
- Store: two workers suffice for every pair of positions, and a third put begins
  as soon as one is idle; three identities are the smallest set in which an old
  and a new one with the canonical coordinates can both meet one without.
- Resolver: two requests for one package in one frontier, in two, and for one
  range that selects another's version; a peer whose resolution changes what the
  peer is; two rounds of peers.
- Lifecycle: two packages, one of which requires the other, are the smallest
  where a targeted update has something to leave alone; four commands let an
  update, an edit that fails, and two that find what it left follow each other.
- Materializer: three commands are the fewest in which a marker survives a sync
  that was cut off and is met again by its own lock.
- Target builds: two contents of the sources are enough to leave and come back;
  three edits let them do so within a build and after it.
- Builds and harness: a test that leads, one that follows, and a Build effect
  besides; three edits let one fall before, into and after a run.

`CHECK_DEADLOCK FALSE` stands where the program stops of itself: a resolution
that is done, a question that is answered, effects that have ended, a report
that is out, a watch that was interrupted, the last command of the lifecycle.
In `flow`, `store`, `population` and `materializer` a named action (`Returned`,
`Quiet`, `Finished`) is the only way to stand still, and deadlock is checked.

### Fairness

| Specification | Fair | Because |
|---|---|---|
| `FlowExecutor!FairSpec` | the coordinator, each effect's goroutine | the Go scheduler runs a goroutine that is ready. That an effect that holds a slot ends is an assumption: an authored effect without a timeout need not, and RunFlow waits for it, as it should. Nothing is assumed of Ctrl+C. |
| `StorePopulation!FairPSpec` | the command's goroutines, workers, channels | the same; a download ends by the HTTP client's timeouts. Weak fairness is enough for the mutexes because a command hands out finitely many packages. |
| `Resolver!FairSpec` | the coordinator, each worker | the same |
| `RunSessions` in `MCDecisions` | the command, the stopper, the wait on each child, and the exit of a root that was sent SIGKILL | the kernel ends a process that was killed. No process has to show readiness, exit by itself or heed SIGTERM. |
| `BuiltTests` in `MCBuilds` | each effect | compilers and tests are taken to end |
| `NativeTests` in `MCHarness` | each worker with its timers, the report | one event loop runs what is ready; nothing is assumed of a body |
| the watch in `MCHarness` | start, poll, debounce, each read of a run and its end | ticker and timer fire; tests are taken to end |
| `Materializer` | the command | no liveness is checked |

## Proofs

TLAPS proves these for every value of the constants.  The assumptions are the
named `ASSUME`s of the modules that declare the constants; TLC evaluates each of
them on the constants of a run.

| Module | Theorem | States |
|---|---|---|
| `FlowExecutor_proofs` | `TypeCorrectness` | `Spec => []TypeOK` |
| | `RunningMapIsExact` | `Spec => []RunningIsAccountedFor` |
| | `NothingIsOrphaned` | `Spec => []NoOrphanedEffect` |
| | `SendsNeverBlock` | `Spec => []ChannelHasRoom` |
| | `DependenciesAreKept` | `Spec => []DependenciesHold` |
| | `LaunchesAreSettled` | `Spec => []LaunchIsSettled` |
| | `ExecutorKeepsContract` | `Spec => ContractHolds` (refinement) |
| | `ScopesAreExclusive` | `Spec => []CleanupIsExclusive`, for every flow that `BeginsWithScope` |
| `Store_proofs` | `TypeCorrectness`, `LocksAreForgotten`, `MutualExclusion`, `RecordsAreWhole`, `PutsRepair`, `PayloadsAreCanonical` | `Spec => []` of `TypeOK`, `NoLockIsLeaked`, `OneWriterPerArtifact`, `RecordedIsWhole`, `PutRepairs`, `PayloadIsCanonical` |
| | `StoreKeepsContract` | `Spec => CatalogOnlyGrows` (refinement), if metadata that is there can be read |
| | `CommandsRunTheStore` | `PSpec => Spec`: what update and sync do is a behaviour of the store (refinement) |
| | `LocksAreBacked` | `PSpec => []LockIsBacked` |
| `Resolver_proofs` | `ResolutionsAreSound` | `Spec => []ResolutionIsSound` |
| | `RequirementsAreAnswered` | `Spec => []RequirementsAreMet` |
| | `ChainsFailClosed` | `ChainFailsClosed` of every chain of endpoints (`RegistryChain`) |
| `Materializer_proofs` | `SyncsAreWhole` | `Spec => []SyncedIsWhole` |
| | `MarkersAreSound` | `Spec => []MarkerIsSound` |
| | `CleansAreExact` | `Spec => []CleanIsExact` |
| `Lifecycle_proofs` | `LocksAreBacked` | `Spec => []LockedIsStored` |
| | `EditsAreAllOrNothing` | `Spec => EditsAreAtomic` (action properties) |
| | `LocksAreReliable` | `Spec => []LockIsReliable` |
| `Harness_proofs` | `ReportsAreEarned` | `Spec => []ReportIsEarned` |
| | `NothingIsForgotten` | `WatchSpec => []NoEditIsForgotten` |
| `Builds_proofs` | `CoordinatorKeepsOneBuild` | `Spec => []CoordinatorIsSound` |
| | `TestsFindTheirBuild` | `Spec => []TestsRunOnTheirBuild` |
| | `FixturesAreRecorded` | `FixtureSpec => []FixtureIsRecorded` |
| | `OverlaysAreTemporary` | `SessionSpec => []OverlayLeavesNoTrace`, under `SessionAssumption` |
| | `PagesAreExact` | `PageSpec => []PageIsExact` |
| `Targets_proofs` | `BuildsAreFresh` | `BuildSpec => []SuccessIsFresh` |
| | `TargetsAreStopped` | `SessionSpec => []TargetIsStopped` |
| | `CleanChecksAreSound`, `ChecksAreExact` | `CleanCheckIsSound` of any finite set of imports, and `CheckIsExact` of a package that does not depend on its own name (`ImportBoundaries`) |
| | `SourcesHaveOneCompiler` | `OneCompilerPerSource` of any sources, imports and targets the manifest accepts (`ImportBoundaries`) |
| | `TransfersAreWhole` | `TransferIsWhole` of any number of artifacts (`Packing`) |
| | `InitsAreCareful` | `InitIsCareful` of any template and tree (`Packing`) |
| | `PacksAreWhole` | `PacksAreWhole` of any packages and disks (`Packing`) |

**The executor** (for every flow that meets `FlowAssumption`: references in
range, closed outcomes).  All rest on one inductive invariant, `IInv`.
`RunningIsAccountedFor` alone is not inductive: that a launched effect was idle,
so that it enters no second place, needs `UnstartedIsIdle`, a fact about the
snapshot; and because a failing `Step` falls back to `prior`, the same facts have
to be kept of `prior` while an event is settled.  `NothingRunsAtTheEnds` carries
the empty running map from the loop's exits to the return.  The module begins
with the lemmas about the machine: each operator keeps the type,
`DependenciesMet`, and the set of unstarted effects from growing.

`CleanupIsExclusive` is about the flows that begin with a `Finally` around effects
in sequence, as `BeginsWithScope` says of the lowered graph (`MCFlowExecutor`
assumes it of its own graph, so TLC evaluates it): around branches it is false,
and `Step`'s limit of 10 000 events has to suffice for the scope, which it does
for 4 998 effects.  On top of `IInv`, `ScopeInv` says where the flow is: before
the scope; at one node of it, with nothing else active or in flight and
everything deeper untouched (`InScope`); or past it, when no node of the scope is
active in the snapshot or in `prior`, so that a `Step` that fails does not bring
one back (`PastScope`).

**The store** (finitely many workers; offers of known artifacts and identities).
The invariant comes in layers, each inductive with those below it.  What it says
of trees is said of those nobody changed (`Unsound`).  `LockInv` is
the mutexes: who has one has the one in the map, a mutex serves one artifact, and
its count is exactly the number of its users (`RefsAreExact`, by cardinality).
Without the count the last `Release` could not be told from another, and
exclusion would not be inductive; without the layer not even `refs \in Nat`
would be.  `DiskInv` is the files: a worker removes only a tree that is broken,
and records only one that is there (`KnowsItsFiles`); a critical step is local to
its artifact (`CriticalStepIsLocal`) and no other worker is at work on it, so the
others' knowledge stands.  `MetaInv` is the metadata; `MergeIsCanonical` is the
case analysis of `mergeStoredProvenance`, and needs that a set of identities has
a least element, which the invariant carries along, since a set gains one element
at a time.  `RecordInv` says that what a worker is about to merge with is what is
there, which exclusion gives it.

**The population.**  Every step of `StorePopulation` is a step of `Store` or
leaves its variables alone, so the layers above hold of it too
(`CommandsRunTheStore`).  On top of them `ReportInv` says that a put about to
report success is recorded, and `PopInv` where each package is: `CoverInv`
follows it from the queue to the worker that has it (`WorksAt`) to the store, so
that a pool whose workers have all exited without a failure has recorded
everything.  `PoolInv` is what that step needs: a pool that stopped early was
cancelled, and it is cancelled only after a failure.  `EditInv` follows the edits
of directories: what is published under a hash it does not have was copied from a
directory that had been edited since, and that edit is never undone.

**The resolver** (`ResolverAssumption`: versions are positive and finitely many of
each name, a package's dependencies and a manifest's requests are sequences;
nothing is assumed of ranges, of cycles, or of who is a peer of whom).
`ResolverInv` has nine parts.  `FlightIsSingle` says that what was asked for has
a memo, so that it is not asked for again.  `Grouped` and `AtWork` say of the
workers that the groups are a listing of the frontier without repetition and that
every group offered is prepared or with exactly one worker.  `NeedsAreServed` and
`AsksAreServed` are the heart: from the moment a package is locked, each of its
required dependencies is led to by an edge (`Served`) or is in a frontier, a
batch, or a group not yet committed (`Pending`) - unless an error has `Escaped`,
into the diagnostics or into a result whose turn is still to come.  An item for a
slot counts as it will be `Controlled` when it is asked for, so the two are stated
of direct requests in the form they have then.  `EdgesAreInside` and `IsPruned`
are about the end: reconciliation drops the edges of peers only, and pruning
keeps what is reachable, hence what the edges lead to.  `Only`, `SetToSeq` and
`InOrder` are defined by recursive functions and choices; that a listing of a
finite set exists, and that `Only` keeps exactly what it is given, is proved by
taking a least counterexample.

**The peers of a resolution.**  `RequirementsAreMet` is about the end, and its
proof follows a required peer from the round that finds it to the lock.  `PeerInv`
adds seven parts to `ResolverInv`.  `FactsAreKnown` says that a fact is a peer in
the workspace's environment or a direct dependency; `PackagesArePublished` and
`RequestsAreKnown` that only requests of that environment select for its slots;
`SlotsHaveEdges` that a slot which nothing asks for directly has an edge until the
edges are reconciled.  `Rounds` is the heart: a round counts the facts it began
with, and while it finds no new one, every controlling peer without a package is
among the requests under way, unless an error has escaped; hence none is left at
reconciliation.  It also bounds the rounds by the facts.  `Leave` carries that
past pruning and the second computation of the slots as an edge that meets the
peer (`MetBy`), to the report (`PeersAreAnswered`).  `AnswersAreGiven` is
the same of the direct dependencies, whose failure may also be a warning.

**The chain of endpoints.**  No state: `FetchArtifact`'s loop over the remaining
endpoints ends at the first whose verdict is not to go on, so that all between
the metadata and it were worth falling back from.  The hypothesis that the
package's name does not read like an error (`alarming`) is that of the run.

**The materializer** (for every lock whose layout is sound, as `LayoutAssumption`
says: no operation takes away what an earlier one placed, a nested layout prunes
and then places every visible name, whoever has instances has a visible link into
them, and fixtures have their own places; TLC evaluates it on the layouts of the
run, which `MaterializationPlan` computes).  `Placing` is about the work
queue: what the operations behind it placed is there, and whatever else is in
node_modules is pruned or will be replaced by one of those ahead.  `Vouched` is
about the marker while other syncs are cut off and somebody deletes: each thing a
marker promises is there, or below what was deleted (`gone`) or changed
(`touched`) since; and below what was deleted there is nothing (`Emptied`).  When
the sanity check then passes, each place it looks at leads to something, so that
no deletion was above one of them: what is missing is where it does not look
(`MarkerFindsAll`).  `Settling` carries both past the fixtures, which come last.

**The lifecycle.**  `LockedIsStored` is inductive once it is known of the lock a
command holds: `StoredInvariant` adds that at `lock` and `fill` the packages to
be written are stored.  Either `Populate` stored them, or the download was
skipped because `HasPackageChanges` found them equal to those of the lock on
disk, which the invariant knows to be stored.  `TraceInvariant` relates the bytes
a command remembers (`original`, `planned`, `before`) to the files until the lock
is opened, and what the user wrote meanwhile; `FailsWithoutTrace` follows of each
failing step.  That an edit locks what its preflight computed
(`KeepsPreflight`) needs `PreviewStands`: the versions the resolver has seen are
in the memo of the command, so a registry that publishes meanwhile gives the
second resolution nothing new.  `EditInvariant` also has what `LockIsReliable`
says of the lock to be written (`NextIsWanted`); its lemmas are about the closure
of a request: that a resolution is closed under what its packages require and
leads from each of them to a version in the range asked for (`ResolutionAnswers`), that
its edges stay in it, and that a merge of two locks (`Preserved`) loses nothing
outside the closure of its targets.

**The harness.**  `HarnessInv` says where a worker is in its file (`Progress`),
what it knows of the test it is at (`KnowsItsTest`), and what each reported
result can answer for, now and after (`Settled`): the body may still be alive
only if the test lost to its timeout, and then it has failed.  `Exclusive` is
that two workers never have one file; without it the results of a file would not
be in its order.  A test is credited by itself or by a callback of a module
(`TestInv`), since every strand of a body has the context of its test; where no
module has callbacks, only by itself.

**The watch.**  A stamp is new whenever it is given: `Seen` bounds what may have
been seen by the number of edits, so that what was seen before an edit differs
from what is there after it, for any number of edits.

**The builds.**  `Leaders` says that a target some test leads is in the
coordinator's hands and has one leader, and that what a follower received is what
was called.  `AtFixtures` follows a test through its fixtures in order: those
behind it are in place, except where two producers write to one destination
(`Undisturbed`), and `Stable` keeps the output still while it is copied, which is
true of targets that no Build effect builds.

**Target builds and sessions.**  `Ordered` says at which phases the staging path
and the output hold contents the sources had since the build began, and those it
was fingerprinted from if no edit came before the compiler; without it
`RecordedIsBuilt`, on which a cache hit rests, would not be kept by `Record`.  A
crash between `Install` and `Record`, or an edit before the compiler, leaves
artifact and record apart (`match`), and the theorem says of what succeeds that
only a cache hit on such a pair is not of the build's own time.
`StopInvariant` adds to `TargetIsStopped` that a session lives only after its
launch, that nothing of the target lives while the command starts or observes its
backend, and that wherever the command kills a group its SIGKILL is already sent,
so that no path reaches the end past a running group.

**Skyrim.**  `Deploying` says that each item still waiting is untouched and each
one applied has its backup (`Recorded`), so that a rollback can return it;
`Returning` counts the steps of the rollback that failed, and `Overlaid` carries
from the deployment to the restoration that the INI can still be put back.  For
the fixture: until the commit the pair is the one planned on; between its halves
(`Halfway`) the sidecar still is, and the backup has the `.ess`; what is recorded
was verified to be the candidate.

**The page** (`PageAssumption`: the frames of the artifact are a forest, and what
a branch shows has a first state, as the compiler emits them; the runtime checks
neither).  `Kept` holds after each step of a projection, also of one that throws
half-way: the active frames are still a `Forest`, so that a frame is never below
its own child and destroying what a branch dropped never reaches the frame whose
event is handled; a plan that waits and is still `current` is the registered one;
and what is in the document's host shows its plan (`Mounted`).  The projection is
three recursive functions along the branch, and the facts about them (`Grown`
owns every child up to here, `Replanned` only adds plans) are proved by the order
of the naturals.  The property is `Kept` between the tasks of the browser, with
what the last handled event left.

**Import boundaries.**  The files a check visits and the files a compiler is given
are each the end of a walk along the imports that takes one step in all
directions as often as there are imports.  A wave that is not closed gains a
file, and only a file that something imports, so that a walk of that many steps
has closed (`WalkCloses`, by cardinality); and it never leaves a closed set it
began in (`WalkIsLeast`).  So what is visited is what every closed set has, which
is how `Leads` says it (`VisitedAreLedTo`), and each diagnostic of `Check` answers
to a clause of `Respects`, in both directions.  `CheckIsExact` is false of a
package that declares a dependency under its own name: the import of itself is
then taken for one of the dependency.  For compilers, what the ownership check
lets pass stays in the set of files a target of the same compiler owns, which is
therefore closed (`CompiledIs`).  That a native compiler's target declares its
inputs is what the manifest requires of it (`BuildTargetsOf`, ir.go:923-941).

**The transfer.**  `Transported` says of the first `m` artifacts what
`TransferIsWhole` says of all; it is kept by each artifact, whichever of its steps
fails, because the destinations of two ordinals differ.

**Init.**  `PlannedIsGiven` finds that every destination of the plan is one of the
template's files, one of its concepts' or the generated manifest, so that all of
them were asked about (`MayWrite`) before the first write.  `Applied` says of the
first `m` writes that what was there still is, that only planned paths differ, and
that a path has the content of a planned file of that path; `WritesAreApplied` is
its step, for a write that succeeds, fails or stops half way.  Without `--force`
no planned path was there, so nothing that was there differs.

**Pack.**  The metadata is collected with `FlattenSeq` over the targets;
`FlattenHolds` says that nothing is lost on the way, so that `VerifyArchive` asks
for every optional peer (`PeersAreCollected`).  `ArchivesAreVerified` is about one
archive, `PacksAreWhole` about the run: of its outcomes only the last has outputs
of its own.  It assumes that there is a package to pack.

Model-checked only, and why:

- Liveness (`Termination`, `CommandsEnd`, `SessionEnds`, `SceneEnds`,
  `EveryRunIsAnswered`): it needs `ENABLED`, which the prover does not treat.
- What rests on recursive operators: the lowering and the trees
  (`TreeIsFollowed`) and most decisions of `MCDecisions`, which are compared with
  their definitions on bounded inputs.  Of those, the chain of endpoints, the
  import boundaries, the ownership of sources, the transfer, the init from a
  template and the pack are also proved.

## What the properties keep clear of

A property that holds has the conditions under which it does in its definition.
These behaviours of the code are outside of them; a reader who relies on the
properties should know them.

- *Workflows.*  Inside a `Finally` (or a loop's item) the failure of one parallel
  branch starts the cleanup, or the next item, beside the other branches, which
  go on (`BranchFailsInScope`), where docs/workflows.md:31-33 has "If a branch
  fails, pending sibling work and the continuation become blocked".  A cleanup
  that fails skips the outer cleanup (`CleanupFailsInScope`; flow.go:842-847),
  where docs/workflows.md:180 has "Nested `Finally` is compositional up to eight
  levels".  When two branches fail differently, the one whose effect ends last
  decides the verdict (`BranchesFailApart`), where docs/workflows.md:34 has
  "goroutine completion order does not change workflow meaning".
  `TreeIsFollowed` says nothing once one of these has happened (of the last, only
  nothing of the verdict).  A transfer renames its copy before it verifies it.
  Ctrl+C between two effects of a body ends the workflow without cleanup.  At the
  step limit the reported verdict may be that of an earlier event.  A result that
  is used in two arms is lowered once.  A match in a loop's body whose source is
  placed by the match alone gets one identity in all iterations
  (`MatchesReadPlaced`); `ValidateFlow` refuses that workflow.  The TypeScript list
  of typed effects has `transfer` and Go's (flow.go:741-752) has not.
- *Lifecycle.*  A torn lockfile refuses every command until somebody removes it.
  A failed write of the lockfile leaves the manifest ahead of it.  Sync does not
  compare declared dependencies with the lock.  Comparing and renaming the
  manifest are two steps, and there is no lock between two processes.  A git
  package is locked and not stored (update_operation.go:459).
- *Reports.*  doctor counts an acknowledgement that drifted as unused unless a
  diagnostic names it (doctor_command.go:885-907): beside a category that
  acknowledges the script, and beside a second drifted one.  docs/doctor.md:78-79
  tells "stale" from "unused", and `DriftIsNamed` leaves these out.  A package
  that only a plain dependency or a test leads to is named with no path.
  `outdated --json` dereferences a record that is missing when the update failed.
  A template may name one destination `a` and `./a`.
- *Materializer.*  The marker stays where it is until the next one is written
  (materialize.go:135-147), so that after an interrupted sync the lock it is of
  meets it again and is taken for materialized, with what that sync removed or
  wrote over missing (`Disturbed`); docs/commands.md:72 has "`tspack sync`
  materializes the dependency reality already recorded in `ts-lock.toml`".  What
  was deleted below the entries of the root, a nested package or one instance of
  several, is not noticed either (`Overlooked`); that the sanity check is
  "intentionally not a full integrity verifier" is docs/materialization.md:85.
  Both are in the run `materializer`, and `MarkerIsSound` says that nothing else
  is ever missing.  The instance mode does not prune; what is deleted in a member's
  `node_modules` is not noticed; a copied fixture is not refreshed when its hash
  changes.  When all instances are linked
  in member directories only, and somebody else puts entries of their names at
  the root, the sanity check would take these for them (`LeadsToInstance`).
- *Store.*  A local directory that is edited between `computeHash` (store.go:114)
  and `copyTree` (store.go:138) is published and recorded under a hash it does not
  have; update locks that hash and succeeds, where docs/commands.md:39 has "writes
  deterministic `ts-lock.toml` only after required store population succeeds".
  `RecordedIsWhole` and `LockIsBacked` leave such an artifact out (`misread`), and
  the latter says that it never happens otherwise.  Metadata that is there but
  cannot be read is taken for none, and its identities are lost (store.go:171-173):
  `CatalogOnlyGrows` is about runs in which that does not happen.
- *Resolver and registry.*  A failing optional direct dependency leaves the peers
  it required with its own warning only.  Whether an error may be passed over is
  decided on its text, which contains the package's name.  A required peer whose
  range does not parse, and which does not control its slot, gets the status
  `invalid` and no diagnostic (requirements.go:142-186).
- *Builds.*  An edit between the fingerprint and the compiler, or a crash between
  artifact and record, leaves them apart; when the sources return to what the
  record names, the cache answers with that artifact (scriptc_build.go:391-408).
  docs/dev/m71a-scriptc-hotpath.md:141-145 and
  docs/dev/m71b-perry-performance.md:113-116 have the sources' fingerprints as
  what a hit stands for; `SuccessIsFresh` excepts the case (`match = "apart"`),
  which the run has.  tsc or tscl that exits with zero and writes nothing reports
  the earlier output.  A Build effect does not go through the coordinator, and two
  tests may bind different producers to one place (`Undisturbed`).  A panic in
  the leader of a build leaves its followers waiting.
- *Sessions.*  Ctrl+C before readiness, and with finite targets, scenarios and
  inspection, leaves the child to the terminal.  A foreign listener on the port
  makes `--once` succeed.  A `tscl` browser target takes `run dev` over from the
  ordinary target that `--list` shows.
- *Tests.*  A file that is created and removed again during a watch run leaves no
  trace.  What a callback that a module started for itself asserts is counted for
  the test that started last, of whichever file (`fallbackTracker`,
  activity.ts:19), so that a test without an assertion may pass
  (docs/native-test-harness.md:354 has "it fails with `TSPACK_TEST_NO_ASSERTION`",
  and :422 "the same per-test contexts as serial runs"); `PassedIsEarned` leaves
  such a test out (`Overheard`), which the run has.  A timeout ends neither the
  body nor its children.
- *Import boundaries.*  `from` and `transitiveFrom` match different spellings of
  a path; a dependency of kind test may be imported at runtime.
- *Migration and pack.*  A package in both `dependencies` and `devDependencies`
  gets two rows with one key; distinct exports may get one target name;
  `@a/b` and `a-b` share an archive name.
- *Browser.*  A plan that is replaced while it waits for its host is refused and
  lost; a retained child's label is reset; a host that appears after five seconds
  in a background tab is not used.
- *Skyrim.*  A kill between deployment and restoration leaves the overlay: the
  configuration heals at the next run, and the INI override becomes the original.
  A configuration of the transport that fails after the deployment ends the
  command without restoring.
- *Why.*  The roots of tests are not considered, so that a package only a test
  needs has no forward answer.

## Not modelled

- The projection to GitHub's YAML, the other reports (`audit`, `how`, `perf`,
  `capability`, `explain`), the other scopes of `doctor`, `adopt`, `init`
  alongside a project, and the commands' presentation: functions from one record
  to another, whose content is wording and tables.
- Bridges, observation of npm, type surfaces and the editor extension: adapters
  to external tools and generated text.
- Parts of modelled components, each named in `PROJECT.json`: patches and
  `PutPatchedTree`, dry runs, the development server's supervisor, declaration
  defaults, archive formats, the text of files.
- What a file system loses when the machine, not the process, stops; and a second
  tspack process on the same project or store.  The code has locks in memory
  only, and no document says that two commands may run at once.

## Plan

1. Patched trees in `Store`.
2. The supervisor of the development server (`vite_dev.go` 404-495): rebuilds,
   missed edits, an exit nobody notices; composed with `RunSessions`.
3. Proofs: that `ProjectLifecycle` implements a specification in which a command
   changes both files at once or neither.
