# Formal models of UE_AI_integration

TLA+ models of the concurrent and persistent core of the Unreal Editor plugin and its
services, TLC configurations that check them on small instances, and proofs of
the main results for every value of the constants. Paths are relative to the
repository; `Private/` stands for `Source/UE_AI_integration/Private/`.

1. [The system](#1-the-system)
2. [The modules](#2-the-modules)
3. [Runs](#3-runs)
4. [Fairness](#4-fairness)
5. [Proofs](#5-proofs)
6. [Findings](#6-findings)
7. [What is not modelled](#7-what-is-not-modelled)
8. [Plan](#8-plan)

## 1. The system

AI clients reach the Unreal Editor through a TypeScript MCP server or a native CLI. Both
speak HTTP to a server inside the Editor. HTTP threads open a request and queue it; the
Game Thread takes one request per frame, checks leases, executes a capability and
answers; two capabilities (viewport capture, Niagara cache capture) answer frames
later. Long work is done by durable jobs and workflows, which keep journals on disk.

| Component | State | Operations | Talks to | Hard because | Correct when |
|---|---|---|---|---|---|
| **Client activity** `Private/Infrastructure/ClientActivityService.cpp` | sessions, index by instanceId, leases, audit of overrides, CLI invocations, activities, statistics | register, unregister, heartbeat, begin/end request, begin/complete activity, acquire/release lease, expire, disconnect all | called by HTTP threads, the Game Thread, the UI | one mutex, but many methods take it twice; clock read before the lock; sessions end five ways; override approvals can be replayed | index exact, leases owned by live sessions, counts exact, pinned sessions stay, one approval one take-over, CLI outcomes true |
| **Request executor** `Private/Core/MCPExecutor.cpp`, asynchronous part of `MCPToolRegistry.cpp` | idempotency cache (256 records, 15 min), in-flight requests | execute, begin asynchronous, complete, cancel, cancel all | server above, tool handlers below | retries, payload conflicts, eviction, completion against cancellation | one execution per remembered requestId, the same answer to each retry |
| **Editor server** `Private/Transport/UEAIIntegrationServer.cpp` | running flag, request queue, crash marker, instance record | route handlers, tick, stop, start | activity service, executor, workflow runtime | HTTP threads race with Stop; several parties may complete one request; crash marker | each request answered exactly once, marker names the request under way |
| **Durable package recovery** `Private/Infrastructure/DurablePackageRecovery.cpp` | package files, backups, manifests | prepare, seal, rollback | asset and settings handlers | crash between any two files, edits by others, several change sets on one package | rollback exact, restores only what was sealed, refuses only with cause |
| **Asynchronous captures** `NiagaraSimCacheObservation.cpp`, `ViewportVisualization.cpp` | one active operation each | begin, tick, finish, cancel, deadline | executor | completion, deadline and cancellation compete | seen through executor and server |
| **Plugin subsystem** `Private/UEAIIntegrationSubsystem.cpp` | owns the services | tick, enable, disable, restart | all of the above | order of Stop, disconnect, Start | seen through the server |
| **PIE session controller** `Infrastructure/PIESessionController.cpp`, sessions of `Runtime/RuntimeSceneService.cpp` | pending restart, pause; session with its generation, waits, pointer sequence, object handles, pressed input | start, stop, restart, pause, resume, wait, input; delegates and tick | subsystem tick, engine, user of the Editor | the engine starts and ends worlds later; a generation is told to clients before its world exists | the promised generation is the world's, nothing outlives its session |
| **Production jobs** `ProductionJobRuntime.cpp` | job table, journals, heavy-job lock, active trace, child processes | start process, trace, performance run, DDC clean-up; stop, analyse, cancel; tick, load at start-up, shutdown | child processes, engine trace, analysis | restart with jobs running, cancel against tick and completion, one job owning another | one heavy job, one outcome per job, no process left over, one job per requestId |
| **Editor workflow runtime** `Workflow/UEWorkflowRuntime.cpp` | runs, journals, checkpoint files, packages, assets in memory | execute, checkpoint, save, roll back, resume, status | executor, engine packages | crash between any two writes, replay, edits of users | each step done once, rollback exact, edits of users kept |
| **Workflow core** `src/Workflow/src/WorkflowCore.cpp` | none (library) | parse, validate, order, evaluate | runtime, CLI | deterministic order | order respects dependencies |
| **Recovery journal** `RecoveryJournalService.cpp` | journal of editor transactions | begin, checkpoint, recover | handlers | crash | journal describes the state |
| **Authoring guards** `BlueprintMutationGuard.cpp`, `MaterialAuthoredCheckpoint.cpp`, `DomainChangePlan.cpp` | snapshots of object graphs | capture, compare, restore | handlers | restore after partial failure | restored graph equals the captured one |
| **Runtime services** `Infrastructure/Runtime/*` | breakpoints, pause state, input state | pause, step, resume, inspect | engine debugger, server | nested engine loops while paused | pause always ends |
| **Performance services** `Performance*Service.cpp`, `StandalonePerformanceController.cpp` | suite runs, baselines | start, sample, compare | production controller | child process life cycle | verdict follows samples |
| **Landscape water** `LandscapeWaterService.cpp` | landscape edits and receipts | plan, apply, roll back | asset recovery | partial application | undo exact |
| **Registry, catalog** `MCPToolRegistry.cpp`, `MCPCapabilityCatalog.cpp` | manifests, handlers | load, look up | executor | static after start-up | one handler per capability |
| **Trace worker, runtime, analysis** `Source/UEAITrace*` | resident server, result store, trace sessions | launch, serve, evict, analyse | CLI and MCP processes | two processes, cache eviction, lost worker | result belongs to its request |
| **Development bridge** `Source/UEAIDevelopmentBridge` | endpoint of a development build | execute | MCP | restricted surface | only allowed calls |
| **MCP server** `src/MCP/src` | session and heartbeat of `ue-bridge.ts`, recipe state | connect, request, cancel, heartbeat | Editor server | expiry and re-registration under concurrent requests | a newer session is never lost to an older failure |
| **CLI** `src/CLI/src` | one-shot process | commands | Editor server, trace worker | retries, exit codes | outcome reported as it was |
| **Domain handlers** `Private/Domains` | engine objects | capabilities | executor | partial failure | change or report |
| **UI, skills, scripts, resources, tests** | none of their own | | | | |

The first four and the three from the PIE session controller to the workflow runtime
are modelled (captures and subsystem as far as these see them). `PROJECT.json` lists every component with its status,
and the hazards (what is hard to test in this code, at its line) with the properties
that cover them.

## 2. The modules

```
ClientActivity <- ClientActivityProofs, MCClientActivity
RequestExecutor --implements--> IdempotentService
   ^- RequestExecutorProofs, MCRequestExecutor
   ^- EditorServer                             (EditorServer EXTENDS RequestExecutor)
         ^- MCEditorServer
         ^- EditorServerProofs                 (and RequestExecutorProofs)
DurableRecovery <- DurableRecoveryProofs, MCDurableRecovery
PIESession      <- PIESessionProofs
ProductionJobs  <- ProductionJobsProofs, MCProductionJobs
WorkflowRun     <- WorkflowRunProofs, MCWorkflowRun
```

The `MC` modules hold the values of the constants. In each component's module, operators whose comment says
"Mutant" are plausible faults of a definition: nothing uses them, they are there
to confirm that a property fails when the code is wrong in that way. No module uses a
`RECURSIVE` operator.

### ClientActivity

`FClientActivityService`. The mutex makes a lock section atomic; one section is one
action. `RegisterClient`, `Heartbeat`, `BeginRequest` and `AcquireLease` lock twice
(`ExpireSessions`, then their own work), and read the clock for the first before the
lock, so they are a record in `calls[t]` that goes through `Start...`, `Sweep` and a
body; threads interleave between. `BeginActivity` locks once but reads the clock
before the lock and writes it inside: `StampActivity`, then `BeginActivity`.
`UnregisterClient`, `DisconnectAllSessions`, `CompleteWithFailure`
(`CompleteActivityFromHttp`), `EndRequest` and `ReleaseLease` lock once and are one action.

| Variable | Code |
|---|---|
| `sessions`, `byInstance` | `Sessions`, `SessionByInstanceId` |
| `leases`, `audit` | `Leases`, `LeaseAudit` (approved overrides only) |
| `ledger`, `recorded` | `CliInvocations`, `Statistics.CliInvocations` (which numbers the records: `born`) |
| `clock` | `FPlatformTime::Seconds` |
| `calls`, `requests` | the callers: threads inside a method, requests between Begin and EndRequest |
| `usedIds`, `digests`, `heard` | history: ids drawn, override digests returned, when a session was heard from |

Abstractions: an opaque id is a value never drawn before; an override digest is the
tuple it is the hash of; a client is its identity, and two clients may claim one
instanceId. `InvocationAssumption` says that a CLI process makes up a fresh
invocationId, as `CommandCli.cpp` does. Methods that only report an error change
nothing. The list of activities and the statistics per workflow run are left out.

### RequestExecutor and IdempotentService

`FMCPExecutor::Execute`, `BeginExecuteAsync`, `CompleteAsync`, `CancelAsyncOperation`,
`CancelAsyncOperations`, the cache functions, and each asynchronous tool's single
operation. It all runs on the Game Thread; a synchronous handler is one action that
takes 0..`MaxRun` time, since the code reads the clock before the handler and stores
that reading. The loop that cancels all tools is one step per tool, as each
cancellation calls back into the executor. `event` is the last thing a client could
notice; `answered` is history. Schema and readiness failures are a nondeterministic
refusal (`rejected`, `unprepared`).

`IdempotentService` is the promise: a requestId is free, running or done; it is
run once while it is remembered, a repetition gets the first answer, another payload is
refused, finished requests may be forgotten. `ServesOnce` is the refinement, under the
mapping `StateOf`: in flight is running, cached is done.

### EditorServer

Composes the transport with the executor: `Arrive` and `Enqueue` are the two halves of
`QueueRequest` on an HTTP thread; `Dispatch`, `Execute`, `RunWorkflow`, `TurnDown`,
`CancelExecute` are `ProcessOneRequest`, which the subsystem's tick calls whether
or not the server is running; `FinishTool` is a tool's ticker; `Stop`,
`StopTool`, `Unbind`, `DrainOne`, `Stopped` is `Stop()` in the order of the code.
`waiting[t]` is the completion handed to a tool, `marker` is
`Saved/UEAIIntegration/last-request.json`, `answers` counts calls of `OnComplete`.
`WriteRequestMarker` tells nobody when it fails: `WriteMarker` may then leave the marker of
before, or none at all (its move removes the old file first); `unwritten` is the history of
that.

### DurableRecovery

`Prepare`, `Seal` and `Rollback` of `FDurablePackageRecovery` with the handlers
that call them. `handler` is what the Game Thread is doing; a crash may come between
any two steps, and rollback restores one file per step, because the code replaces each
file atomically and the set of files not at all. `disk` and `manifest` survive a crash.
`original`, `touched` and `halfway` are history. File contents are who wrote them, so
equal hashes are equal contents. Manifests and package files are published by a temporary file
and a rename, and so change at once.

The answers are the code's: `alreadyRolledBack` when the manifest says so, whatever the
files are, or when the files are as before; `conflict` when the files are not as sealed,
when an import source changed, or when a package is dirty or cannot be unloaded. What
makes the last two go wrong is `hindered`, and a file that is there and cannot be read is
`locked`; both come and go.

### PIESession

`FPIESessionController` and what `FRuntimeSceneService` keeps per session, against the
Editor that takes a play request and ends a world some time later, and against its
user. Everything is on the Game Thread, so an action is a request, a delegate, a tick,
or a step of the engine. The service's fields are the record `rt`, and its methods
(`PrepareNextSession`, `BeginSession`, `EndSession`, `CancelPreparedSession`,
`TerminateAsyncForSessionEnd`) functions from record to record; `RuntimeTicked` gives the
outcomes of its tick.

| Variable | Code |
|---|---|
| `engine` | `GEditor`: a queued play request, a Play World, whether it is ending or paused (external) |
| `restartPending`, `paused` | `bRestartPending`, `bPaused` |
| `rt` | generation, prepared and active session, `AsyncJobs`, pointer sequence, `Refs`, pressed input |
| `promise`, `worldGen`, `lastGen` | history: the generation the last accepted start or restart answered with, and those of worlds |

`BeginPIE` and `PostPIEStarted` come in one engine call. A wait has reached its deadline
(`late`) or not; whether its poll interval has passed is nondeterministic, and its ways of
failing are one status. Of object handles, those to Play World objects are kept, as
the generation they belong to. The store of finished pointer sequences is left out.

### ProductionJobs

`FProductionJobRuntime`: processes (all of `StartProcessJob`), traces, trace analyses,
performance runs that may own a trace, and the DDC clean-up, which is done at once.
Requests are one action each; the tick visits one job at a time (`walk`), then stops the
traces it has marked, as the code does, so that one job's end in a tick meets the
visit of another.

| Variable | Code |
|---|---|
| `rt.jobs`, `rt.asked` | `Jobs`, and what `SaveJournal` was last asked to write of each |
| `disk` | `job.json` of each job in `Saved/` |
| `rt.heavy`, `rt.active`, `rt.handle`, `rt.connected` | `ActiveHeavyJobId`, `ActiveTraceJobId`, the connection delegate and its flag |
| `rt.writer` | which trace the engine is writing, a job's or its user's (external) |
| `procs` | child processes (external) |
| `orphans`, `rejected`, `abandoned` | history: processes of an Editor that crashed, jobs of refused trace requests, traces whose analysis was cancelled |

`Crash` and `Shutdown` both lead to a new Editor that loads the journals. `SaveJournal` writes
`job.json` in place and ignores the result (`ProductionJobRuntime.cpp:9084`): after a call
(`Written`) a file holds what was asked, or is as it was, or is torn, or holds what an
earlier call of the same handler wrote; `LoadJournals` skips what it cannot read. The
functions from runtime to runtime note in `asked` what they save, and the action that
applies them writes the files of the jobs it changed (`Saves`). Artifacts, logs, reports and
statistics are left out.

### WorkflowRun

The v2 runs of `FWorkflowRuntime`: `ExecuteWorkflowV2`, `ContinueWorkflowV2`,
`CaptureDurableCheckpoint`, `SaveRun`, `RollbackV2`, `ResumeRunV2` and the status query. A
handler occupies the Game Thread, and `at` says where it is; it is split at the points
between which a crash leaves a different disk: the package overwritten, copied to the
checkpoint, put back, the journal written with or without its manifest, one asset of
several restored.

An asset's content is the sequence of changes made to it (number of the step, `Partial`
for a step that failed halfway, `Edit` or `Detail` for a user's), so that the SHA-256 of a package
is equal when the content is, and "each step once" can be read off the result. The structure
hash, by which `RollbackV2` judges an asset in memory, is no such digest:
`CaptureAssetStructure` (`UEWorkflowRuntime.cpp:8260-8677`) leaves out the values of component
templates, the properties of widgets, most properties of materials, and the content of other
kinds of assets. `Structure` is
what it does: it leaves out the user's edits called `Detail` and the changes of the
steps in `Unseen`, and does not know in which order the others were made.
`Stage` asks that no asset is dirty; that memory is what the package holds is not looked
at, neither in the code nor here. `mem` and `pkg` are the asset in
the Editor and its package; the undo of a transaction leaves what it changes dirty.
A plan that is executed was prepared for the assets as they are, so a changed
digest, plugin version or contract refuses the request without a change of state.
Packages are written by the runs and by users who save; other programs that write
packages, level maps and v1 runs are left out.

## 3. Runs

| Run | Question | Instance and bounds | Distinct states |
|---|---|---|---|
| `executor` | Is the cache right at its limits, and does the executor implement the idempotent service? | 3 requestIds, 2 asynchronous tools, a synchronous and a leased one, 2 records, retention 1, handler up to 1, clock to 2; no requestId is used for both kinds of capability | 67 000 |
| `mixed` | ... and if one is? (expected violation) | as above, one requestId used for both kinds, clock to 3 | |
| `server` | Is each request answered once, and at all, through cancellation, Stop and Start? | 3 HTTP requests, one requestId, two asynchronous tools, one leased; the marker of one request may fail; fair specification | 443 000 |
| `clients` | Do sessions, index, counts and the CLI ledger agree, and is expiry just? | 2 threads, 3 clients (a CLI and another share an instanceId), room for 1 session, a legacy invocation, timeout 1, clock to 3, room for 1 finished invocation | 1 730 000 |
| `leases` | Do leases belong to the living, and what can an approval do, used once, late or twice? | 2 threads, 2 clients, 3 lease ids, timeout 1, TTL 1, clock to 2 | 825 000 |
| `rollback` | Does a rollback do what it says, through crashes and edits? | 2 change sets over 2 files, one file shared, 2 edits by others, 1 hindrance or locked file at a time | 1 600 000 |
| `restart` | Can an interrupted rollback be finished? (expected violation) | as above | |
| `pie` | Do sessions, waits and promises follow the Play Worlds, and do promised worlds begin? | 4 generations, 3 waits, room for 1 result, 1 play request refused; fair specification | 59 800 |
| `jobs` | Do jobs end once, one heavy one at a time, with their processes and traces, and over restarts? | 3 jobs, 1 restart, 2 requestIds sent with jobs of four kinds, the first job's journal may fail; fair specification | 117 000 |
| `cancels` | Does a cancellation stop only its own trace? (expected violation) | 2 requestIds, each with a trace to be analyzed, 3 jobs, 1 restart | |
| `workflow` | Is a run exact when it completes and when it is rolled back, through crashes and edits? | 2 assets, one missing, 2 runs of 2 plans (one creates an asset and changes the other, one changes that and is saved), 1 crash, 1 edit; the first step of each plan is outside the structure | 3 250 000 |
| `recovers` | Can an interrupted run be resumed or rolled back? (expected violation) | 1 plan, 1 run, 1 crash, no edit | |

Why these bounds reach the interesting cases:

* Two threads inside a method are what a split lock section needs to go wrong: one
  between its two sections, one doing the damage. In `clients` a registration evicts the
  only session there is room for, so that sessions end in each of the five ways; that index and counts
  agree with any number of sessions is proved. The clock goes past the timeout (and the
  TTL) in both runs, so that a session expires between the two sections of another call, or takes
  its leases with it; in `clients` it has a tick to spare for the late write of an old reading.
* Three lease ids let a lease go from one session to the other and back, so that a
  digest can be replayed after its lease has changed hands twice. The audit keeps all
  take-overs that fit.
* Limits (`MaxSessions`, `MaxTerminal`, `MaxRecords`, `MaxRetainedAsyncJobs`) are
  reached in every run that has a property about them. `MaxJournalScan` is not: it is as large
  as the number of runs, and `OneRunPerRequest` says nothing beyond it, where the code
  does bind a requestId again.
* What may go wrong silently is bounded by `Unlucky` (requests whose marker may not be written),
  `Fragile` (jobs whose journal may not) and `MaxHindered` (hindered change sets
  and locked files at one time). One of each is enough for a failure next to a success, and
  a failure that is put right; the proofs have no such bound.
* One step of each plan in `Unseen` makes a run whose changes the structure hash sees in part: the
  initializer of the asset that one plan creates, the only operation of the other.
  A user's edit is seen (`Edit`) or not (`Detail`).
* Three HTTP requests are one deferred, one cancelling it or executing, and one
  about to be queued while the server stops. Both asynchronous tools can be busy; that no
  number of requests does more is proved, liveness excepted. The clock stands
  still in this run: time is a matter of `executor`.
* Two change sets with one file in common: the second made on top of the first, either
  rolled back before the other. Two edits: something foreign, and the old content back.
* Four generations are a world, its restart, and a start or a user's world on either side of
  it; three waits with room for one push a result out.
* Three jobs are a performance run with its trace and the analysis of that, or two jobs
  that compete for the lock or the trace and one that follows. A requestId comes back
  with another kind of job, before and after the restart.
* Two runs are a run and another over the same assets, which finds them as the first one
  left them; with a crash and an edit anywhere between. Finalizers (`readBack`, `compile`), which
  change nothing, are in no plan of the run; the proofs include them.

`CHECK_DEADLOCK` is off only in `workflow` and `recovers`, where all bounds together may be
used up with nothing left to do; everywhere else some action is always possible.
Symmetry is used over interchangeable model values (threads, ids) in `clients` and
`leases`, which check safety and action properties only.

What each property says stands above it in its module. Those that took most care:

* `ExpiredWasSilent`: a session taken by expiry was silent for `SessionTimeout`
  less `MaxStall`. The slack is the code's: a registration writes a clock reading from
  before it waited for the mutex.
* `ApprovalSpentOnce`, `TakeoverWasAnnounced`: an override takes exactly the grant the
  caller was shown, once.
* `UnbackedIsFinished`: each way in which the last session or request behind a CLI
  invocation ends finishes it. A `BeginActivity` that comes late reopens it with
  nothing behind it; the property is about the step that takes the backing away, and the
  late reopening is in the model.
* `KeptForRetention`: a cached answer lives `Retention` less the time its handler took.
* `AnsweredOnce`: a history counter and, with it, the one place that still has
  to answer: queue, execution, or a tool.
* `StopLeavesNoOperation` is about the end of a stop. A request queued late may be
  taken by the next tick of a stopped server and start an operation then; the model
  contains this and `EveryRequestAnswered` covers it.
* `MarkerNamesExecuting` excepts the time after a marker that could not be written, when the
  file may name a request that has ended, or be gone.
* `ReplacesOnlyTheSealed`, `RollbackIsExact` (of `DurableRecovery`), `ConflictHasCause`: a
  rollback destroys nobody's work; each of its answers of success (`rolledBack` and
  `alreadyRolledBack`) is exact; and each `rollback_conflict` has one of the causes named.
  Success is inexact in one case only: the repeated rollback is answered from the manifest
  (`DurablePackageRecovery.cpp:668`), so a file that somebody else changed since the first
  one is not as it was before the change set, and the answer says `rollbackVerified` all the same.
* `ReadyIsOwnWorld`, `WorldHasThePromisedGeneration`, `PromisedWorldBegins`: `Restart` prepares
  the next session while the old world still runs. A wait for it is not satisfied by that old
  world, the world that comes has the generation the client was told, and it comes unless
  somebody withdrew it.
* `RecordingIsOwned`, `JobsEnd`: a performance run never leaves its trace recording, and
  every job ends; excepted is the trace whose analysis was cancelled, since no tick looks
  at a trace in its phase `analyzing`: it ends with an analysis that a client asks for anew, a
  cancellation or the Editor.
* `OutcomesStay`: an outcome is final while the Editor runs. Over a restart it is final if
  `job.json` could be written; if not, the job comes back interrupted or not at
  all, but never with another outcome.
* `OneJobPerRequest` excepts analyses, which do not look for their requestId, and
  trace requests that were refused after their journal was written: the journal comes back as
  an interrupted job after a restart. It is about the jobs the Editor knows: one whose journal was
  lost over a restart has freed its requestId.
* `CompletedIsOnce`: a completed run has made each change of its plan once, on top of what the
  packages held, however often it was replayed. It excepts the Editor in which a rollback left an
  asset in memory that is not what its package holds (`Estranged`): blocked, or verified
  with a change that the structure does not show. That asset may be clean and wrong, and a
  later run takes it for its baseline.
* `RollbackIsExact` (of `WorkflowRun`): a verified rollback has each package exactly as it was,
  and each asset in memory with the same structure. No more is true: a change of the
  run outside the structure is kept in memory and marked clean.
* `OthersEditsStay`: no step of a run takes from a package a user's edit that is part of
  the structure, and only a crash takes one from memory. For an edit outside the structure it
  does not hold: in the same Editor a rollback does not see it and loads the snapshot over it
  (`UEWorkflowRuntime.cpp:6923-6939`; the memory digest is left out of the comparison on purpose).
* `OneRunPerRequest` holds up to the number of journals that the search looks at.

## 4. Fairness

Three runs assume some, weak throughout. Nobody is ever obliged to send a request, to
play, or to stop or start a thing.

`server` (`Fairness` in `EditorServer`):

* an HTTP handler that has begun goes on to queue its request (`Enqueue`);
* the subsystem ticks every frame and each tick takes one request (`Process`), whether or not
  the server is running (`UEAIIntegrationSubsystem.cpp`, `Tick`);
* a capability handler on the Game Thread returns (`Execute`, `RunWorkflow`);
* each capture ends: both have a deadline checked in their own ticker (`FinishTool`);
* a stop that has started runs to its end on the Game Thread (`StopTool`, `Drain`).

`pie`: the controller is ticked (`Tick`), and the Editor ends the world it was asked to end and
takes or drops the request it has queued (`PlayWorldEnds`, `PlayWorldBegins`), as its own
tick does.

`jobs`: the runtime is ticked (`Tick`, every part of the walk), and deadlines pass. No process has
to exit, no trace to connect and no analysis to complete: it is the deadlines that
end such jobs.

Liveness is model-checked only; the proof system does not handle fairness or `ENABLED`.

## 5. Proofs

Checked by TLAPS with Z3, Zenon and LS4, for every value of the constants that
satisfies the assumptions of the module.

**ClientActivityProofs** (assumptions: types of the constants, finiteness of the id
sets, fresh invocation ids, `None` apart from ids).

| Theorem | States |
|---|---|
| `TypeCorrect` | `TypeOK`, with the bounds on the number of sessions and the length of the audit |
| `LeasesHaveLiveOwners` | `LeaseOwnerIsLive` |
| `IndexIsExact` | `InstanceIndexExact` |
| `GrantsKeepOwners`, `TakeoversWereAnnounced` | `GrantKeepsItsOwner`, `TakeoverWasAnnounced` |
| `ApprovalsAreSpentOnce` | `ApprovalSpentOnce` |
| `RequestCountsAreExact`, `OpenRequestsPin` | `RequestCountExact`, `PinnedSessionStays` |
| `ExpiryIsOfSilentSessions` | `ExpiredWasSilent` |
| `BackedInvocationsRun`, `UnbackedInvocationsFinish` | `BackedIsRunning`, `UnbackedIsFinished` |

`TypeOK` is inductive, one lemma per conjunct. `LeaseOwnerIsLive` and
`InstanceIndexExact` are inductive with it, by one lemma about `Drop`, which every way
out of the registry uses. Grants need `GrantInv`: the id of a lease in the table has been
drawn (so a fresh draw is another grant), and the approval in a call was returned by a
refusal. Counts need `CountInv`: an open request was begun under an id that has been
handed out, so a session registered later does not inherit requests of one that was
disconnected under them. Approvals need `AuditInv`: what the audit records is about lease ids
that were drawn and that no lease has any more, and two leases share none. Expiry needs
`SilenceInv`: no call is older than `MaxStall`, so the registry's time of a session is at most that
much behind. The CLI ledger needs `LedgerInv`: what backs an invocation keeps it running, and an
invocation of session-less callers counts exactly their open requests; it rests on
the index (a client has one live session) and on fresh invocation ids.

**DurableRecoveryProofs** (assumptions: each change set has a sequence of files, contents are
distinct from change-set ids).

| Theorem | States |
|---|---|
| `TypeCorrect` | `TypeOK` |
| `RolledBackIsRestored` | `RolledBackStays` |
| `RollbackReplacesOnlyTheSealed` | `ReplacesOnlyTheSealed` |
| `RollbackAnswersAreExact` | `RollbackIsExact` |
| `ConflictsHaveCauses` | `ConflictHasCause` |

The inductive invariant is `DurableInv` = `TypeOK`, `HandlerInv`, `SnapshotsInv`,
`RolledBackStays` and `WholeInv`. `HandlerInv` describes a rollback on its way: every
file is as before or as sealed, those it is through with are as before. `WholeInv` says
that a sealed change set nobody touched and no rollback of which stopped halfway
is wholly as sealed or wholly as before: without it a conflict would have no cause. The
answer to a repeated rollback rests on `RolledBackStays`, as it looks at no file. What
the hash of a file says, whether or not it can be read, is `AsRecorded`; `Matches` is both.

**RequestExecutorProofs** (assumptions: `NoId` is no requestId, leased tools are synchronous, finitely
many requestIds, limits are natural numbers).

| Theorem | States |
|---|---|
| `TypeCorrect` | `TypeOK`, with the limit of the cache |
| `RecordsAreKept` | `KeptForRetention` |
| `Implements` | `ServesOnce`, if no requestId serves for both kinds of capability (`KindsKeptApart`) |

`ExecutorInv` adds to `TypeOK` that what is in flight is what its tool works on
(`InFlightInv`) and the other way round (`OpInv`), and how old a record may be when it was answered
(`AgeInv`). For the refinement, `ServeInv` says that a requestId is not in flight
and answered at once; each action then maps to one of `IdempotentService`, with the records
that pruning and eviction took as the requests forgotten. `KindsKeptApart` is needed: the
run `mixed` shows the violation without it, and the instance of `executor` satisfies it.

**EditorServerProofs** (in addition: HTTP requests are not requestIds, `None` is neither).

| Theorem | States |
|---|---|
| `ServerTypeCorrect` | `ServerTypeOK` |
| `RequestsAreAnsweredOnce` | `AnsweredOnce` |
| `HeldIsActive` | `DeferredIsActive` |
| `MarkerIsHonest` | `MarkerNamesExecuting` |
| `StopEndsOperations` | `StopLeavesNoOperation` |

`ServerInv` has the executor's invariant in it, so each executor step is taken from the
lemma about it, and says for every place a request can be in (`QueueInv`, `ThreadInv`, `HeldInv`)
that its phase and the place agree, without repetition; `AnsweredOnce` counts
with cardinalities what these say with quantifiers. `StopInv` says that during a stop
the Game Thread has no request and every busy tool is still to be visited.

**PIESessionProofs** (assumptions: bounds are natural numbers, there is room for a wait).

| Theorem | States |
|---|---|
| `TypeCorrect` | `TypeOK`, with the room for waits |
| `SessionsAreTheWorlds` | `ActiveSessionIsTheWorld` |
| `NothingOutlives` | `NothingOutlivesItsSession` |
| `WaitsAreForTheirWorld` | `ReadyIsOwnWorld` |
| `PromisesAreKept` | `WorldHasThePromisedGeneration` |

`PIEInv` = `Typed` (what `TypeOK` says), `ServiceInv` (of the service's record alone, preserved by each of its
methods), `ActiveSessionIsTheWorld`, `EngineInv` (which states of the Editor go together) and
`GenerationInv` (where a promised generation is: prepared, with a request queued or a restart
pending). The methods are proved once as functions and used by each action.

**ProductionJobsProofs** (assumptions: the kinds and inputs of `Uses` are known ones, bounds are
natural numbers).

| Theorem | States |
|---|---|
| `TypeCorrect` | `TypeOK` |
| `OneHeavyJobRuns` | `OneHeavyJob` |
| `ProcessesHaveJobs` | `ProcessesBelongToJobs` |
| `RecordingsAreOwned` | `RecordingIsOwned` |
| `OutcomesAreFinal` | `OutcomesStay` |
| `RequestsStartOneJob` | `OneJobPerRequest` |

`JobsInv` has a part about the runtime's record alone, `Good`: its types, that `SaveJournal` was last
asked to write of each job what the table says, the lock (`HeavyInv`), the trace (`RecordingInv`), in what phase each
kind of running job can be (`PhaseInv`, without which a stopped trace might be a
process), and the tie between a performance run and its trace (`RunInv`). Each function that takes
a runtime to a runtime (`Created`, `Ended`, `StopTrace`, ...) is shown once to preserve `Good`
and to relate the two (`Grows`: no job changes but those named, and only the first new one has the
requestId), and requests and the tick compose these. The files have a part of their own, `Fits`:
one that can be read is about its job and has no other outcome, and there are none besides, but those
of refused requests; `Written` preserves it whatever fails, which is what `OutcomesStay` and
`OneJobPerRequest` need at a restart. A performance run holds no lock
while it starts: `HeavyInv(r, X)` excepts it.

**WorkflowRunProofs** (assumptions: `AssetSet` lists the assets, plans are sequences of the four
kinds of steps on them, bounds are natural numbers, and no content is `Absent`).

| Theorem | States |
|---|---|
| `TypeCorrect` | `TypeOK` |
| `RequestsAreBoundOnce` | `OneRunPerRequest` |
| `RollbackRestores` | `RollbackIsExact` |
| `EditsAreNeverTakenBack` | `OthersEditsStay` |
| `CompletedRunsAreExact` | `CompletedIsOnce` |
| `LeftRunsRollBack` | a left run whose assets are its baseline can be rolled back (`BaselineRollsBack`) |

Each result has an invariant of its own on top of `TypeInv`, which says what a handler has
in hand at each point (`HandlerInv`) and of every record that a blocked rollback is not available
and only a run that ended is verified (`RecordsInv`).

- `OneRunPerRequest`: the journals are numbered without gaps, every run in memory has one, and a
  record never changes its requestId (`RequestsInv`). Without it the next number might be taken, and
  one run's journal be written over another's.
- `RollbackIsExact` needs `RestoreInv`: of an asset that has been treated the record has what it now
  is (`Noted`), and while nothing has failed its package is the baseline and its structure in
  memory what it was before (`Restored`). So the order in which the assets are put
  back, and a crash that begins it again, do not matter.
- `OthersEditsStay` needs `EditsInv`, about the edits that are part of the structure: every
  content a record could put back (what was there before, the current digest, that of the
  package) has as many edits of users as the asset had at admission; while a handler works, memory and disk have just as many; and between handlers a package never has
  more than the asset in memory, and as many when the asset is clean. This is why it is enough
  for rollback to compare the structure with that of the record: equal structures have
  equally many such edits.
- `CompletedIsOnce` needs `MadeInv`: during the steps each asset in memory is what the steps so far
  make of what its package held (`MadeSoFar`), and each package is as before, except the one
  that a checkpoint is being copied from (`OnDisk`); and an asset that differs from its package
  is dirty and exists (`Settled`, `Unsaved`), so that a resume, which looks at packages and dirty
  assets only, replays on what was there before. A rollback that leaves an asset clean and not
  as its package (`Unrestored`) breaks `Settled`, hence the property's exception.
  What one step adds is `MadeByStep`, about contents and plans only: an initializer acts once, on an absent asset that no
  earlier step made.
- `BaselineRollsBack` is what does hold of finding 4, and is proved of the model without a run of its
  own. It needs `BaseInv`, on top of `OnDisk`: every record of a running run that has its
  baseline can be rolled back, and has the packages as they were before the run; `Apply` takes them
  from disk when no checkpoint is being copied. It matters for a replay too: `ContinueWorkflowV2`
  (`UEWorkflowRuntime.cpp:4468-4481`) begins again without resetting `CheckpointId`, so an initializer's
  checkpoint is written over one that the journal refers to, and after a second crash resume answers
  `recovery_checkpoint_corrupt`. The rollback is then open, unless a package was caught overwritten.

`CompletedIsOnce` states what the changes of a plan should be as a set of steps (`ChangesOf`) in
increasing order (`Made`), and not as a fold over the plan: so no induction over the plan
is needed, and the invariant carries it.

Model-checked only: liveness (`EveryRequestAnswered`, `PromisedWorldBegins`, `JobsEnd`).

## 6. Findings

1. **A synchronous call may reuse the requestId of an asynchronous one in flight**
   (run `mixed`, `Private/Core/MCPExecutor.cpp:80`). `Execute` looks at the cache of
   answers and not at the requests in flight, so a second payload under the same
   requestId is run. `README_EN.md:488` promises 409 for a requestId payload conflict.
2. **A rollback that stopped between two files cannot be finished**
   (run `restart`, `Private/Infrastructure/DurablePackageRecovery.cpp:680`). The files
   are then partly before and partly after; the next attempt compares all of them with the
   state after the change and answers `rollback_conflict`, after a crash or an I/O
   error alike. `DurablePackageRecovery.h:21` calls the recovery restart-durable. The proved
   `ConflictHasCause` has the other causes of that answer: a change set that was never sealed, an
   edit of its files by somebody else, a file that cannot be read, a changed import source, and a
   package that is dirty or cannot be unloaded. The last three go away by themselves or with
   what caused them; a rollback that stopped halfway can only be put right by hand.
3. **Cancelling a trace job stops whatever the engine is recording**
   (run `cancels`, `Private/Infrastructure/ProductionJobRuntime.cpp:1836`). A trace that was
   stopped and is being analyzed is still running; its cancellation stops the trace of the next
   job. `Resources/Capabilities/production.json:1142` promises to cancel "one active durable
   production job", and `StopTrace` refuses the same request (`:3125`).
4. **A run interrupted while a checkpoint is taken cannot be resumed or rolled back**
   (run `recovers`, `Private/Workflow/UEWorkflowRuntime.cpp:4755`). Between the save over the package
   and the return of the baseline, the package has the checkpoint's content; resume and
   rollback of the next Editor both compare it with what it should be and answer a conflict, with
   no edit by anybody. `docs/UE_WORKFLOW_DSL.md:209-210` and `README_EN.md:49` promise recovery
   after a restart.

The models contain, and no source forbids, some more behaviour worth knowing:

* after a marker or a journal that could not be written nobody is told: the marker names a request
  that has ended, and over a restart a job's outcome is lost or its requestId free
  (`WriteMarker`, `Written`);
* a repeated rollback of a change set says `rollbackVerified` without a look at the files
  (`AlreadyRolledBack`);
* a rollback of a run in the Editor that ran it overwrites a user's unsaved edit that the structure
  hash does not show, and keeps, marked clean, a change of the run that it does not show
  (`CanRollback`, `Kept`); a later save of that asset writes it.

## 7. What is not modelled

`PROJECT.json` gives the reason for each component. In short: the domain handlers, the
guards, the performance and landscape services are computations on engine objects
that the executor sees as a call which returns, defers or fails; registry, catalog,
skills, scripts and manifests are static; UI has no state of its own. The session handling of
`ue-bridge.ts`, Blueprint debugging, the activity history, the recovery journal and the
trace worker have the kind of state these models are for, and are planned below.

Within the modelled components:

* the server's model decides the lease check nondeterministically, instead of composing
  with ClientActivity; routes, JSON, the port and the instance record are left out;
* the ring of activities and the statistics per workflow run of ClientActivity;
* edits by others happen between handlers, not inside one: a process outside the Editor
  writing between a rollback's comparison and its replacement of a file is out of scope;
* one I/O error ends a rollback or a change. The files of `DurableRecovery` and the
  journals of workflow runs are written to a temporary file and moved, and so are the packages
  that a rollback puts back; a move replaces a file at once here, although the engine's removes
  the old file first. `job.json` of a production job is written in place, and is modelled so;
* `RestoreBaselineFile` copies a package in place (`UEWorkflowRuntime.cpp:4697`). The copy is
  whole or not made: one that a crash breaks off leaves a package that is neither, which the next
  Editor refuses exactly as in finding 4, and which has lost what was in it;
* the server after `Deinitialize`, when nothing ticks any more: an HTTP request queued then is never
  answered;
* delegates are bound as long as their owner lives, so binding and unbinding are no actions;
* artifacts, logs, reports and source control of production jobs, and
  `ProductionRuntimeController`;
* planning, the plan cache, projections, level maps and v1 runs of the workflow runtime.

## 8. Plan

Done: ClientActivity, DurableRecovery, PIESession and ProductionJobs with their proofs; RequestExecutor
with its proof of IdempotentService; EditorServer composed with RequestExecutor, and WorkflowRun,
with their proofs.

Next, most important first:

| Module | Models | Properties |
|---|---|---|
| `BridgeSession` | registration, heartbeat, expiry and retry of `ue-bridge.ts` against ClientActivity's contract | a newer session is never cleared by an older failure; a retry executes once |
| `ActivityHistory` | the ring of activities and the run statistics, on top of ClientActivity | each terminal run counted once; the ring never loses what is running |
| `BlueprintDebug` | pause, step, resume in the nested loop | a pause ends; a stale handle does nothing |
| `RecoveryJournal`, `TraceStore` | journal of editor transactions; resident worker and its store | after the above |
