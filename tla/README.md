# A TLA+ development of pici

pici is a small CI server: a Go process with a queue of executions in a
database (SQLite or Postgres), a pool of workers that clone a repository, build
an image and run the steps of `.ci/<workflow>/ci.yml` in containers, and an HTTP
interface that submits, cancels, retries and shows executions. This directory
holds TLA+ modules of the parts of it that are hard to test, the TLC runs that
check them on small instances, and proofs of their safety properties for every
instance.

## 1. Inventory

Paths are relative to the repository.

| component | state it keeps | operations | what is hard | what makes it correct |
|---|---|---|---|---|
| **execution queue**, `internal/stores` | one row per attempt: status, execution, attempt, workspace, previous attempt, `cancel_requested`, `concurrency_group`; a sequence per project | create, claim, update, requeue, flag, flag the group, latest attempt, busy | several workers and processes; updates write a whole copy of the row; select and update of a claim are two statements | a row is claimed once; a finished row stays finished; an execution has one active attempt |
| **runner**, `internal/ci/runner.go` | worker goroutines, wait group, `cancels`, `stopCh`, the workspaces on disk | worker loop, run, finish, watch for cancellation, enqueue, retry, drain | crashes and restarts, drain against claim, cancellation seen by polling, retries sharing a workspace | every queued execution ends; one run per workspace; canceled only on request; a drained process runs nothing |
| **step executor**, `internal/ci/step.go` | results, statuses and progress under a mutex, semaphore, wait group | order, launch, run, retry, record, notify | goroutines against the launch loop, cancellation anywhere, carried-over results | steps run behind their dependencies, every step settles, the executor returns and then is silent |
| **execution requests**, `internal/app/executions` | none of its own | create, create from a snapshot, cancel, rebuild, retry | reads the latest attempt and then writes | reach the queue as above |
| **source materialization**, `internal/git`, `internal/archive` | the workspace directory | clone a branch, tag, commit or pull request, unpack an upload | a directory that is already there | a run starts from a fresh source, a retry from the one it failed on |
| **garbage collector**, `internal/gc` | the time of its sweeps | sweep workspaces, logs, uploads, sandboxes, registry caches | decides and removes in two steps, against runs and retries | never takes what an active or retained execution needs |
| **schedules**, `internal/scheduler`, `internal/ci/schedule.go` | due times per workflow | tick, sync from `ci.yml`, sync of a project | a crash between enqueue and update, syncs from old commits, next times computed before they are written, a scheduler in every process | a due workflow is queued, once per due time but for what the code does not guard against |
| **triggers**, `internal/handlers/webhooks.go`, `internal/ci/paths.go` | a shared discovery directory | push, pull request, tag, manual; path and ref filters | concurrent webhooks of one project | exactly the matching workflows start |
| **check runs**, `internal/notify` | the id of a check run, saved with the first attempt | started, finished | reported after the row is written, with the context of the run; attempts that report past each other | one check run per execution, which shows how the last attempt ended |
| **log streams**, `internal/ci/stream.go` | offset per file | poll files and row, last sweep, close | the end of the run between two reads; a requeued run that empties the log | a stream that is done has sent what the run wrote |
| **sessions, tokens, revalidation**, `internal/auth` | users with provider tokens, sessions, API tokens | login, authenticate, log out, revoke, revalidate, disable | every process has a pass, which works on copies; refresh tokens are spent when used; a disabled user signs in again | whoever lost access is disabled, and whoever was disabled or signed out is not served |
| **sandboxes**, `internal/docker/sandbox.go`, `internal/ci/sandbox.go` | network, volume, containers per run | create in steps, remove, sweep | partial failure of creation and removal, crashes | none is left, none of a live run is taken |
| **cache sizes**, `internal/app/cache` | sizes by project and of the registries, from the last walk | refresh, forget, purge, page; the registries of the engine | a walk against a removal; purges against runs that start a registry | a deleted volume shows no size |
| **projects and variables**, `internal/app/projects`, `internal/handlers/projects.go`, `internal/stores` | a row per project, variables by scope and key, and what hangs on a project | create, update, delete, resolve; set and delete variables | handlers read and then write; deletion against runs, ticks and requests; names that become free | names and keys stay unique; a deleted project leaves nothing and does not come back; secrets stay with their project |
| **artifacts**, `internal/ci/artifacts.go`, `internal/app/artifacts` | files and a manifest of hashes per step | reset, copy, write the manifest; list, download | a collection under a download, a listing or another collection; failures half way | a hash is that of the bytes it is given with |
| **workspace paths**, **engine client**, **masking and secrets**, **workflow configuration** | none that others decide on | | names, calls and parsing | |
| **web pages**, **CLI and client**, **configuration**, **logging** | none | | presentation | |

How they interact: requests, webhooks and schedules create rows; workers claim
them, and `run` calls git, the store, the reporter, the engine and the step
executor in turn; the step executor calls back into the store on every
transition; cancellation and supersession are flags in the row that a goroutine
of the run polls once a second; the collector and the retry requests look at
the same workspaces as the runs; streams and check runs follow the row from
outside; the deletion of a project reaches all of them by foreign keys. Processes
share the database and the workspace volume and nothing else.

The hazards found, each at its line and with the properties that cover it, are
listed under `hazards` in `PROJECT.json`.

## 2. Plan

The modules, in the order they were written, each checked before the next:

1. `Executions`, `Runner`, against the abstract `AttemptChain`; proofs.
2. `StepOrder`, `StepExecutor`; proofs.
3. `Collector`, composed with `Runner`; proofs.
4. `Schedules`; `Triggers`, which implements it; proofs.
5. `Access`; proofs.
6. `Reports` (check runs and log streams), composed with `Runner`; proofs.
7. `Projects`, `Caches`, `Artifacts`; proofs.

What is left: every invariant and every safety property of an action that a passing
run checks is proved; of the code, the commit status of GitLab, the filter of
manual runs and the detection of the default branch, the discovery directory and
the pruning of images in the collector.

## 3. Modules

| module | models | state and actions |
|---|---|---|
| `Executions` | the executions table, `internal/stores/sqlite.go` (the Postgres statements do the same) | `row`, `seq`; one operator per statement |
| `Runner` | `internal/ci/runner.go`, the start and stop of `cmd/pici/main.go`, the requests of `internal/app/executions`, the outcomes of `internal/git` | `inst` and `starts` (the processes), `pc`, `job`, `ctx` (the workers and their run contexts), `dir` (what each workspace holds), `retry` (requests in flight), `lost` |
| `RunnerProperties` | | invariants, action properties and liveness of `Runner` |
| `AttemptChain` | | what the queue promises, without table, workers or processes; `ImplementsChain` maps the table to it |
| `RunnerClaims` | | statements of the documentation that the code does not keep |
| `MCRunner` | | instances for TLC |
| `RunnerProofs` | | theorems |
| `Collector` | `internal/gc`, with `WorkspaceRetained`, the life of uploads, log directories and sandboxes | everything of `Runner`, and `aged`, `upload`, `logs`, `boxes`, `box` (what lies on the disk and the daemon), `sweep` (where the collector of each process is), `closing` (whose root context is canceled) |
| `CollectorProperties`, `MCCollector` | | properties, and instances for TLC |
| `CollectorProofs` | | theorems |
| `Reports` | `internal/notify/notify.go`, the report of `run` and `finish`, `internal/ci/stream.go`, `SetCheckRunID` | everything of `Runner`, and `logs`, `stream` (each reader), `reporter` (of each worker's run), `check` (what the host shows) |
| `ReportsProperties`, `MCReports`, `ReportsProofs` | | properties, an instance for TLC, theorems |
| `StepOrder` | `orderSteps` | a recursive function over the turns of the loop, and the reference definitions |
| `StepExecutor` | `executeSteps`, `runStep`, `runStepOnce`, `carryOverSteps` | `main`, `routines`, `results`, `progress`, `persisted`, `failed`, `canceled`, `ctx`; one action per critical section, callback or container |
| `StepProperties`, `MCSteps`, `StepProofs` | | properties, workflows for TLC, theorems |
| `Schedules` | `internal/scheduler`, the syncs of `internal/ci/schedule.go`, the schedules table of one project | `now`, `sched` (the table), `due` and `queued` (where the tick of each process is), `ran`, `held` and `again` (what was queued, auxiliary) |
| `ScheduleProperties`, `MCSchedules` | | properties, instances; proved in `TriggersProofs` |
| `WorkflowMatching` | `internal/ci/paths.go`, `on` of `internal/ci/config.go` | operators; a glob is the set of names it matches |
| `Triggers` | `internal/handlers/webhooks.go`, `internal/ci/discover.go`, the two listings of workflows, the sync of a run | everything of `Schedules`, and `head` (the branches), `disc` (the discovery directory), `request`, `run` |
| `TriggersProperties`, `MCTriggers`, `TriggersProofs` | | properties, instances, theorems |
| `Access` | `internal/auth`, the users, sessions and api_tokens tables | `config` (of each running process), `member` (of the teams), `user`, `session`, `token` (the tables), `request` (in flight), `pass` (the revalidation of each process), `ended` |
| `AccessProperties`, `MCAccess`, `AccessProofs` | | properties, an instance, theorems |
| `Projects` | `internal/app/projects`, the handlers of projects and variables, their tables, and how runs and ticks use them | `project`, `vars`, `runs`, `sched` (the tables), `due` (a tick), `request`, `run` (their copies), `given` (which value was given to whom, auxiliary) |
| `ProjectsProperties`, `ProjectsProofs` | | properties, theorems |
| `Caches` | `internal/app/cache`, `DeleteCacheVolume`, `PurgeRegistries` and `EnsureRegistries` of `internal/docker`, the cap in `internal/gc` | `disk`, `mounted` (the daemon), `sizes`, `walker`, `seen`, `todo` (the walk under `refreshMu`), `thread` (loops, requests, runs) |
| `CachesProperties` | | properties; proved in `DiskProofs` |
| `Artifacts` | `internal/ci/artifacts.go`, `internal/app/artifacts`, the download handler | `files`, `manifest`, `run` (the collection of each launch of the step), `download`, `listing` |
| `ArtifactsProperties`, `DiskProofs` | | properties; theorems about caches and about artifacts |

`Runner` and `StepExecutor` meet in two places. For `Runner` the steps of a run
are the phase `steps`, in which `StepUpdate` may write the row at any time and
which `EndSteps` ends with one of the three outcomes; `StepExecutor` shows that
`executeSteps` returns, with such an outcome, and that nothing calls
`onStepUpdate` afterwards (`QuietAfterReturn`), which is what allows `Runner` to
confine `StepUpdate` to that phase. `retryable` in a row stands for
`hasRetryableSteps`.

`Collector` is composed with `Runner`: its next-state relation is a step of
`Runner` together with what that step does to uploads, logs and sandboxes
(`Follow`), or a step of a sweep. A sweep goes through its stages in the order
of `tick` (`NextStage` lists a stage, and passes over one that lists nothing),
and asks and removes item by item: `AskWorkspace`, `RemoveWorkspace`,
`CleanupLogs`, `CleanupUploads`, `AskSandbox`, `RemoveSandbox`. Where query and
removal are one action, nothing can change the answer in between. Time is one
bit per row and upload, older than the retention or not. `StartSandbox` removes the
stale sandboxes of the attempt, or some of them when calls fail, and makes a new one all
the same; `LeaveSandbox` is a run that fails, or whose process dies, while its sandbox is
set up, and may leave it behind. (With a group that happens in the phase `build`, which
the runs, having no groups, do not reach; the proofs cover it.) The daemon's ids are
numbers that are used again only when nobody remembers them. At SIGTERM
`CancelRoot`, the cancelation of the root context under which sweeps query, comes up to
five seconds before `BeginDrain`, and rows are still claimed in between.

`Reports` is composed with `Runner` in the same way: its `Follow` empties the log
when a run begins, starts the reporter when a run has its source, and hands it
the verdict when a run ends. A reporter goes through `Create`, `Save` and `Mark`
(`Started`: the check run, its id in the first attempt's row, the update of an
old one) and `Tell` (`Finished`); each call succeeds, fails, or takes effect
without an answer. A stream goes through `Sweep` (read the files), `Look` (read
the row), and, after a terminal status, `LastSweep` and `CloseStream`.

`Triggers` extends `Schedules` and uses its `SyncSchedule` in place of the
arbitrary `Sync`; `TriggersProofs` shows that it implements `Schedules`. A
webhook or a listing goes through `Clear` (`os.RemoveAll`), `Clone`, `Checkout`,
`Detach` (a clone of a commit starts at the default branch), `AsTag` (a branch
that could not be cloned is tried as a tag), `List`, and then workflow by workflow
through `StartWorkflow` (`trigger`) or `ReadSchedule` and `SyncWorkflow`
(`SyncProjectSchedules`); `Touch` notes whose directory was disturbed. The tick of a
scheduler is `TickList`, `TickTrigger` and `TickUpsert`: its three statements. No writer of
the table looks at the clock when it writes: a sync computes the next time and then
upserts it (`schedule.go:27` and 31), and so does the scheduler (`scheduler.go:50` and 52).
In `Triggers` a request or a run keeps the moment at which it computed (`at`); in
`Schedules` a sync may carry any earlier moment, and a scheduler any since it queued the
run. An expression that falls on no day of the next five years (`0 0 30 2 *`) has the zero
time, `Zero`, for its next one (`cron.go:16`), and its row is due at every tick. All processes
have a scheduler (`Processes`), and one clock; the requests and runs of `Triggers` are
those of one process (`Here`), since a discovery directory is local, and the syncs of the
others are what `Schedules` allows. Payloads of both
code hosts are reduced to what the handlers decide on. The list of changed files
may be empty for want of an answer of the host.

How the code maps to actions of `Runner`:

- `workerLoop`: `Select`, `Claim` (the two statements of the claim), `ClaimUnread`
  (the read after the commit failed), `Count` (`wg.Add`), `Register`, `Release`,
  `Stop`.
- `run`: `Begin` (project, first update), `Reuse` (retry), `CloneFresh`,
  `CloneOver`, `Extract` (the source), `ReadConfig` (configuration, ref check,
  planned steps, concurrency group; for a run without a group also image and
  sandbox, which change nothing that others read), `Supersede`, `Build`,
  `StepUpdate`, `EndSteps`. Every early `finish` is `FailSetup`.
- `finish`: `Finish`, whose write may be lost because its error is dropped.
- `watchCancel` and `Runner.Cancel`: `CancelRun`.
- `Drain`: `BeginDrain`, `DrainTimeout` (`cancelAll`), `DrainReturn`.
- `main`: `StartInstance` with `Recover` (the requeue, whose failure is only
  logged), `Exit`, and `Crash` for everything that ends a process; a clone cut
  short leaves a `.git` behind (`CutShort`).
- `Enqueue`, `EnqueueSnapshot`, `EnqueueRebuild`: `Submit`. `EnqueueRetry`:
  `RetryRead`, `RetryCheck`, `RetryInsert`, because its reads and its insert
  are separate statements. `Cancel`: `RequestCancel`.

And to those of the four modules that stand alone:

- `Access`. `authenticate` with a session is `BeginSession`, `DropSession`,
  `CheckUser`, `ExpelUser`, `TouchSession`; with a token `BeginToken`,
  `CheckTokenUser`; then `ServePage` or one of the actions on sessions and
  tokens. A login is `BeginLogin` (the provider has answered and `authorize` has
  agreed), `UpsertUser`, `CreateSession`. `Revalidate`, which every process runs
  (`main.go:159`), is `StartPass` (the list), `NextUser`, the outcomes of the refresh (`RefreshRenews`, `RefreshRefused`,
  `RefreshFails`), `StoreToken`, `Ask` or `AskFails`, `Mark`, and `Disable`
  followed by `Expel` (`DisableUser`, then `DeleteUserSessions`).
- `Projects`. Create is one statement; an update, a deletion and a write of a
  variable read the project first (`BeginUpdate`, `Update`, ...). A run takes the
  project with its row, then the global variables, then those of the project
  (`BeginRun`, `ReadGlobal`, `ReadProject`), and syncs its schedule; a tick lists
  and then enqueues.
- `Caches`. A refresh is `BeginRefresh`, `Lock`, `Visit` volume by volume,
  `Walked`. A removal is `RemoveVolume` and `Forget`; a purge `StopRegistry` and
  `DropVolume` for each of the two registries, `StartRegistry`, `Forget`, or
  `GivesUp` half way. Either may fail after the daemon has removed the volume, since the call
  is made with the context of the request, and then forgets nothing (`RemovedUnheard`). `Judge` is the collector's comparison with the cap.
- `Artifacts`. A collection is `Collect`, `Reset` (files) and `Unlist` (manifest),
  `CopyStarts`, `CopyEnds` or `CopyFails` file by file, `WriteManifest`. Each launch of the
  step (`Launches`) may collect, so that the collections of a step that is launched twice
  (finding 3) overlap: the later reset unlinks what the earlier one writes, and the later
  `os.Create` truncates what the earlier one has hashed. A download is
  `OpenFile`, `ReadTag`, `CloseFile`; a listing `ReadHashes`, `Listed`.

Abstractions, and why nothing is lost by them: the step list of a row is reduced
to whether it can be retried, which is all the queue decides on; error texts to
whether the clone met a repository; times are left out, so every timer may fire
at any moment (the poll, the shutdown timeout, a step's timeout); a group is a
name without structure; `claimed_by` is written and never read by a statement.
Rows are never deleted in `Runner`: what the deletion of a project does to the
tables is in `Projects`. The provider's view of a token is kept in the token
itself, so that "spent" and "revoked" are facts about it wherever a copy lies; copies of
one refresh token share a number (`Grants`), by which the use of one takes it from the
others. A
hash is the contents it was taken of. The lines of a log are reduced to whether a
stream has sent all of them.

Some definitions are faults the code does not have (`NoUniqueIndex`,
`NeverDone`, ...; each module's header lists its own). No action uses them. They
are put in place of the real definition, one at a time, to see that each
property notices: `mutants` in `PROJECT.json` pairs them with the properties.

## 4. Runs

Run a configuration with `tlc -config X.cfg <module>`.

| run | configuration | checks |
|---|---|---|
| `runner` | `Runner.cfg`: one process, two workers, two retry requests, cloned and uploaded sources, two starts, one cancel request; two rows, one group and one lost call, or three rows of cloned source without them (`ThirdRowPlain`) | `TypeOK`, `OneRunPerWorkspace`, `SupersededAttemptsFailed`, `Ownership`, `TerminalIsFinal`, `CanceledOnRequest` |
| `reports` | `Reports.cfg`: one process, two workers, two rows of cloned source, one retry request, two starts, one reader, one failed call of the reporter | `ReportsTypeOK`, `StreamTellsAll`, `CheckShowsResult`, `OneCheckRun` |
| `steps` | `Steps.cfg`: three steps as a chain, a reversed chain, a fork, a join and every cyclic shape; two steps with retries, a repeated and an unknown dependency; two slots, two attempts | `TypeOK`, `OrderedWhenAcyclic`, `EveryStepSettles`, `SkippedBehindFailure`, `RunsBehindDeps`, `CarriedNotRerun`, `QuietAfterReturn`, `Returns` |
| `collector` | `Collector.cfg`: one process, one worker, one retry request, two rows of cloned source, two starts, one failed query, creation or removal | `CollectorTypeOK`, `RunsHaveWorkspace`, `RunsHaveLogs`, `RunsHaveSandbox`, `ImplementsChain` |
| `collector_live` | `CollectorLive.cfg`: one snapshot execution, one worker, two starts, one lost call, one cancel request, one failure, fairness | `UploadOutlivesRun`, `CancelEnds`, `RunsEnd`, `DrainReturns`, `NothingLeaks` |
| `schedules` | `Schedules.cfg`: two processes, one workflow, an expression that always falls due again and one that never does, three units of time, one failed call, one restart, fairness | `ScheduleTypeOK`, `OncePerDueTime`, `NoDueTimeDropped`, `DueRuns` |
| `triggers` | `Triggers.cfg`: one process, two requests, two workflows with filters, defaults, a schedule that goes away and an invalid one at two commits, three payloads (a tag, a deleted branch, a pull request), one unit of time, one restart | `TriggersTypeOK`, `WebhookStartsWanted` |
| `access` | `Access.cfg`: one process, one account, one session, one token, one request, two configurations (groups of one provider; another provider), one fault, fairness | `AccessTypeOK`, `RevokedStaysOut`, `DisableEndsSessions`, `RefreshTokenKept`, `LeaversLoseAccess` |
| `recovery`, `two_instances`, `sweep`, `step_retries` | the smallest instance that shows the divergence | one claim each, which TLC refutes |

`Projects`, `Caches` and `Artifacts` have no run: their properties are proved, for
every instance (section 6).

`AccessPasses.cfg` is a second configuration of `MCAccess`, which is not among the runs: two
processes, one account and a login, without sessions or faults. It checks the safety
properties where two passes list one row and one of them spends its refresh token; that
they hold for any number of processes is proved.

All of these finish within three and a half minutes with two workers. The largest are
`triggers` (4.7 million distinct states), `collector` (2.6 million) and `access` (550
thousand).

Why the bounds are enough. Three rows hold an execution with two retries, or two
executions one of which is retried; two workers and two requests are what the
races need (each property speaks of two of them); two starts give a crash or a
drain and one recovery, and what a second crash meets is a state a first one can
already meet. One cancel request suffices to tell rows apart. For steps, every
relation `executeSteps` handles appears with three steps: a step with two
dependencies, one with two dependents, and a chain behind a failure.
For the collector, an origin
and its retry share a workspace and one worker suffices, since a sweep meets one
item at a time; snapshots cannot be retried, so one row of them will do.
For reports, two workers let the end of an attempt be told while the next one
runs, and one failed call is what it takes to lose an id or a result.
For schedules, two schedulers are what it takes to list a row twice, and three units of
time one in which a row comes up, is moved and comes up again, or a next time is computed
before it comes and written after it was run. Rows of different workflows meet only in the
list of a tick; `triggers` has two, and the proofs any number. Two requests are what it
takes to share a directory, and the ci.yml files of the two commits differ in every
section that is read.
For access, accounts do not meet: what one does to the rows of another no
statement allows. The one request overlaps with the pass, and signs in, is served
and signs out in any order; the safety properties are proved for any number of requests
and processes. `LeaversLoseAccess` is checked for one process only.
For the collector, two ids per attempt are one for what an earlier run left and one for the
new sandbox; `MaxLost` is 0 there, so what lost writes and unread claims do to the chain of
attempts is left to the proof of `SweptTableIsChain` and `TableIsChain`.
`MaxRoutines` keeps the repeated launches of the step executor finite: once that
many goroutines exist, the launch loop does not launch a step a second time.

Deadlock checking is off: the bounds make every behaviour end, and a system
with no request left is at rest. That nobody waits for ever is stated by the
liveness properties.

Fairness. Goroutines are scheduled, so a worker that can go
on does (`Advance`); timers fire, so the cancel poll and the shutdown timeout are
fair; a supervisor starts a process that is down; the collector of a process that
is up goes on sweeping, and rows and uploads grow old (`FairCollectorSpec`). The
end of a run's steps is fair only when its context was canceled, because then the
containers are killed; `RunsEnd`, `DrainReturns` and `NothingLeaks` assume in
addition that steps end (`StepsEnd`), which the step timeout provides. Users,
crashes, signals and lost calls are not fair. A lost terminal write or an unread
claim leaves a row running until the next start, so the liveness properties of the
queue excuse executions of a history in which a call was lost (`Over`), as
`Ownership` does (`NoOrphans` is conditional on `lost = 0`). In `StepExecutor` the
main goroutine is fair, and so are the step goroutines together. The scheduler's
ticker fires and its loop goes on (`FairScheduleSpec`); the clock need not. In
`FairAccessSpec` a process is started again, its pass, which is a loop over calls
with deadlines, goes on, checks come due, and a login that was let in is carried
through or dropped; the provider may fail as often as it likes but not for ever,
which is strong fairness of its answers.

What the properties say of the code:

- `OneRunPerWorkspace`: attempts share a directory, and nothing but the state of
  the table keeps two of them from running in it at a time.
- `SupersededAttemptsFailed`: `EnqueueRetry` decides on a copy; the unique index
  on (project, execution, attempt) is what makes it safe.
- `Ownership`: claims are exclusive, a claimed row is running, and no row is
  orphaned while the process is up and no store call has failed.
- `TerminalIsFinal`: although `UpdateExecution` checks nothing.
- `CanceledOnRequest`: neither a flag, a context nor an entry of `cancels`
  reaches another run.
- `ImplementsChain`: with all of it together, and a collector beside it, users see
  chains of attempts that only grow behind a failure and only move forward, but for
  a restart.
- `CancelEnds`: a cancellation survives a crash before it is seen. `RunsEnd`: what is
  queued ends, over drains, crashes and restarts. `DrainReturns`: and no worker keeps
  a process from stopping.
- `StreamTellsAll`: the last sweep comes after the terminal row was seen, so nothing
  written before that row is missed, except by a reader whose log a requeued run
  emptied.
- `CheckShowsResult`: two attempts may report at once, and the check run still shows the
  later one, unless its last word is lost or overtaken (section 5).
- `OneCheckRun`: the id saved with the first attempt is what later attempts, requeues
  included, update.
- `RunsHaveWorkspace`, `RunsHaveLogs`: a run keeps what it works on, although the
  directory belongs to an attempt that ended long ago, unless a query of a sweep
  fails or a retry is accepted between the query and the removal (`unsafe`): the
  two ways in which the code can take a directory in use.
- `RunsHaveSandbox`: a requeued attempt has a new sandbox under the same labels,
  and a sweep that found the old one orphaned removes the old one only.
- `CollectorTypeOK`: as long as no call fails, an attempt has one sandbox, although one that
  a crash left is there when the next run makes its own.
- `UploadOutlivesRun`: the archive goes after the terminal row was written, so a
  run that is interrupted finds it again; unless it was swept for its age.
- `NothingLeaks`: whatever was interrupted, in the end the disk is empty.
- `OncePerDueTime`: schedulers write copies back and runs sync in the middle of a
  tick, and still no time comes up twice, but for these, each of which excuses the one
  time it concerns: the process died, or the write failed, between the run and the write
  of the next time; another scheduler had listed the time, or lists it before the row is
  moved; a writer had computed it before it came and writes it after; it is the zero time.
- `NoDueTimeDropped`, `DueRuns`: what could not be queued stays due, and is queued in the
  end. A row with the zero time stays due for ever.
- `WebhookStartsWanted`: exactly the workflows that docs/guide/workflows.md promises
  (`Wanted`, stated by cases from its text), at the commit of the webhook, unless
  another request got at the directory meanwhile or the store refused a run.
- `RunsBehindDeps`, `SkippedBehindFailure` and `CarriedNotRerun` are stated for
  attempts in which no step was launched twice (`twice`): see finding 3.
  `EveryStepSettles`, `QuietAfterReturn` and `Returns` hold even then.
- `RevokedStaysOut`: sessions slide, are swept, are ended by a logout, by a pass and by
  a request that finds its user disabled, and a request that begins after one of these
  is not served, whatever is under way.
- `DisableEndsSessions`: a user who is disabled and signs in again does not get the old
  sessions back, if nothing failed between the two statements of disabling.
- `RefreshTokenKept`: no user is disabled for a refresh token that pici has itself
  spent, if no answer and no write was lost, and it was not the pass of another process
  that spent it while this one had a copy (`taken`), which the code does not prevent.
- `LeaversLoseAccess`: whoever has left for good is disabled in the end.
- `NamesUnique`, `KeysUnique`, `RowsHaveProject`, `OwnSecrets`, `DeletedStays`:
  handlers check first and write later, and it is the constraints of the tables and
  the ids that keep this true when a project is deleted and its name given away.
- `OneWalk`, `RemovalShows`, `MountedExists`: the kept sizes are edited by removals and
  replaced by walks; only a walk that was under way, or a purge or a removal that failed
  after the daemon had done it, leaves a deleted volume a size.
- `HashesTell`, `TagTells`, `ListTells`: a hash is that of its bytes, for everybody who
  is not crossed by a new collection at the wrong point (section 5), as long as no two
  collections of a step overlap.

## 5. Divergences found

Each is a run whose counterexample is short; `findings` in `PROJECT.json` quotes
the statement.

1. **A run interrupted after its clone is lost** (`recovery`). Claim, clone,
   crash, restart, requeue, claim: the clone meets the old directory and the run
   fails without having run a step, and so cannot be retried.
2. **A second process runs the executions of the first** (`two_instances`).
   The requeue at startup takes every running row. The safety theorems of the queue
   and of what is composed with it therefore assume one process, and their proofs need it
   only for the requeue. Elsewhere several processes matter too: see the
   schedules and the access below.
3. **A step can be run twice in one attempt** (`step_retries`). The launch loop
   and the goroutine of its dependency both find it ready; `a` then `b` behind
   it suffices when `a` ends while the loop still runs.
4. **A sweep under way at shutdown removes the workspaces of the runs that
   Drain waits for** (`sweep`). `main` cancels the collector's context first, the
   remaining queries of the sweep fail, and a failed query counts as "not
   retained"; for logs, as "expired".

More was met while modelling. It is part of the models, and the properties
excuse it where they must; no run is kept for it.

Of the runner and the executor:

- Drain can return when a worker has claimed a row and not yet joined the wait
  group (`runner.go:113`).
- An execution that reaches `CancelRunningInGroup` last cancels newer ones of its
  group (`runner.go:422`).
- Two steps of one name pass validation (`config.go:232`) and share one position in
  the tables of `executeSteps`. The models assume that names differ.

Of check runs and streams:

- `finish` reports with the context of the run (`runner.go:629`), and a run is
  "canceled" because that context is: the conclusion `cancelled` (`notify.go:124`)
  never reaches the host, and the check run stays in progress
  (`docs/guide/webhooks.md:21` promises the result). So it does when a requeued run
  fails before its reporter has started.
- A check run that was created and whose id could not be saved stays in progress,
  and the next attempt creates a second one, against `notify.go:64`. The result of an
  earlier attempt told late can overwrite that of the later one.
- A stream that is open while its execution is requeued loses the lines behind its old
  offset when the log is emptied (`stream.go:53`). The last line of `finish` is
  written after the terminal row and may come too late for a stream.

Of schedules:

- The scheduler writes back its copy of a row, and so registers an
  expression again that a sync changed or deleted after the list
  (`scheduler.go:50`), until the next sync.
- Every process has a scheduler (`main.go:169`), and two that list the same row both
  queue a run for it, against `docs/guide/configuration.md:82`.
- A next time is computed before it is written: one that came, and was run, in between is
  due once more.
- An expression that never falls due (`0 0 30 2 *`) is accepted, and due at every tick
  (`cron.go:16`).

Of access:

- A user who signs in anew between the list of a pass and its verdict is disabled
  on what was true before (`auth.go:459`).
- Every process has a revalidator (`main.go:159`). Two passes that list the same user both
  use the refresh token; where the provider rotates it the second is refused, and the user
  is disabled though nobody revoked anything (`auth.go:224`, `flow.go:148`).
- GitHub's 403 and 404 count as a token that is no longer valid (`github.go:56`), whatever
  they were for, and disable the user.
- A rotated refresh token whose answer or whose write is lost disables its user at the
  next pass (`auth.go:228`).
- Sessions whose deletion failed after their user was disabled (`auth.go:505`)
  are good again when the user signs in.
- A user with an access token that expires and no refresh token is disabled
  once it has expired; `docs/guide/authentication.md:237` says that such a user
  "cannot be revalidated".

Of projects:

- An update writes the whole row it has read (`handlers/projects.go:75`): of two
  concurrent updates the fields of one are lost, a rotated secret among
  them. An update of a project that was deleted meanwhile reports success.
- `projects.go:110` says that a project "always has" a branch to run on; it has none
  when its remote could not be asked (lines 137 to 139).
- The name "is a unique slug" (`docs/guide/projects.md`), but its form is
  not validated, and `Resolve` takes a name that is the id of a project for the id.
- Masking works line by line (`mask.go:27`), so a secret of several lines is never
  masked. This is not modelled.

Of sandboxes: stale ones are removed first, but errors of the list and of the removal are
ignored and a new one is made beside them (`sandbox.go:265`); the collector removes what is
left once the attempt has ended, and `NothingLeaks` holds.

Of caches: a walk that was under way during a purge puts the removed sizes back
until the next refresh (`cache.go:87`). A purge that fails half way, and a removal that fails
after the daemon has done it, because the client has gone, forget nothing (`cache.go:246`). The collector compares these sizes with the cap and may purge again.

Of artifacts:

- A download opens the file and then reads its hash, a listing reads the hashes and then the
  files (`artifacts.go:138`, `artifacts.go:76`), so a collection in between gives
  them the bytes of one and the hash of the other.
- A step that is launched twice (finding 3) collects twice at a time (`step.go:215`): the
  files and hashes of the two may mix, until the next collection.
- The files of a step are reset when it collects again: a requeued
  run in which the step fails still shows those of the interrupted run.

## 6. Proofs

`tlapm` on the eight proof modules checks all of it, in about ten minutes.

| theorem | states | assumes |
|---|---|---|
| `TypeCorrect` | `Spec => []TypeOK`, for `Runner` | the assumptions of `Executions` and `Runner` on their constants |
| `AttemptsChain` | `Spec => []SupersededAttemptsFailed` | and `OneInstance` |
| `ClaimsOwn` | `Spec => []Ownership` | and `OneInstance` |
| `WorkspacesExclusive` | `Spec => []OneRunPerWorkspace` | and `OneInstance` |
| `ResultsFinal` | `Spec => TerminalIsFinal` | and `OneInstance` |
| `CancelsOnRequest` | `Spec => CanceledOnRequest` | and `OneInstance` |
| `TableIsChain` | `Spec => ImplementsChain` | and `OneInstance` |
| `CollectorTypes` | `CollectorSpec => []CollectorTypeOK` | those of `Runner` and `Collector`, and `OneInstance` |
| `WorkspacesStay`, `LogsStay` | and `[]RunsHaveWorkspace`, `[]RunsHaveLogs` | the same |
| `SandboxesStay`, `UploadsStay` | and `[]RunsHaveSandbox`, `[]UploadOutlivesRun` | the same |
| `SweptTableIsChain` | `CollectorSpec => ImplementsChain` | the same |
| `DueTimesOnce` | `ScheduleSpec => []OncePerDueTime` | those of `Schedules`: the next time of an expression lies ahead, or is the zero time |
| `SchedulesTyped`, `NoneDropped` | `ScheduleSpec` implies `[]ScheduleTypeOK`, `NoDueTimeDropped` | the same |
| `SchedulesImplemented` | `Spec => ImplementsSchedules`, for `Triggers` | those of `Schedules` and `Triggers` |
| `DueTimesOnceInCompany` | `Spec => []OncePerDueTime`, for `Triggers` | the same |
| `TriggersTyped` | `Spec => []TriggersTypeOK`, for `Triggers` | the same |
| `StartsWhatIsWanted` | `Spec => []WebhookStartsWanted`, for `Triggers` | the same |
| `StepTypes`, `DependenciesFirst`, `CarriedStayCarried` | `Spec` of `StepExecutor` implies `TypeOK`, `RunsBehindDeps`, `CarriedNotRerun` | `StepExecutorAssumption`: a workflow has steps, of different names |
| `SilentOnceReturned` | and `QuietAfterReturn` | the same |
| `OrderStepsCorrect` | `orderSteps` fails exactly on a cycle or an unknown dependency, and otherwise lists each step once, behind all it depends on | in the statement: a listing of steps of different names |
| `OrderedExactly`, `StepsSettle`, `SkipsAgree` | `Spec` implies `OrderedWhenAcyclic`, `EveryStepSettles`, `SkippedBehindFailure` | `StepExecutorAssumption` |
| `Inductive`, `TypesHold` | `AccessSpec => []AccessInv`, `[]AccessTypeOK` | `AccessAssumption` |
| `LateIsRefused` | `AccessSpec => []RevokedStaysOut` | the same |
| `DisabledLoseSessions` | `AccessSpec => []DisableEndsSessions` | the same |
| `SpentTokenIsNobodysFault` | `AccessSpec => []RefreshTokenKept` | the same |
| `TablesHold` | `ProjectsSpec` implies `NamesUnique`, `KeysUnique`, `RowsHaveProject` | `Constants`, in the statement |
| `SecretsStayApart` | and `OwnSecrets` | the same |
| `NoResurrection` | and `DeletedStays` | the same |
| `CachesHold`, `WalksAlone` | the invariant of `Caches`, `OneWalk` | `CachesConstants`, in the statement |
| `DeletionShows`, `RegistriesHaveVolumes` | `RemovalShows`, `MountedExists` | the same |
| `ArtifactsHold`, `ManifestTells` | the invariant of `Artifacts`, `HashesTell` | `ArtifactsConstants`, in the statement |
| `RequestsTell` | `TagTells`, `ListTells` | the same |
| `ReportsRunTheQueue` | `ReportsSpec => Spec`, for `Runner` | the assumptions on the constants of `Runner` and `Reports` |
| `ReportsTyped`, `StreamsTellAll` | `ReportsSpec` implies `[]ReportsTypeOK`, `[]StreamTellsAll` | and `OneInstance` |
| `ChecksAreOne`, `ChecksShowResults` | and `[]OneCheckRun`, `[]CheckShowsResult` | the same |

They hold for every number of projects, rows, workers, requests, accounts, volumes,
files, launches, starts and failures, and those of `Schedules`, `Triggers` and `Access` for
every number of processes. `OneInstance` says that at most one process uses
the database; finding 2 is what happens without it.

The argument for the runner. None of the invariants is inductive alone, so `SafetyInv` carries
four parts through a step together:

- `TypeInv`: types, and a retry request past its first read has a row.
- `StoreInv`: rows are the numbers drawn so far (`RowsNumbered`); an attempt
  works in the directory of its execution (`RowsBelong`); attempts of an
  execution are unique and without gaps (`AttemptsUnique`,
  `AttemptsContiguous`), which is what makes "the next attempt behind a failed
  one" the last; an attempt number is at most the number of its row
  (`AttemptsBounded`), so that a chain has room for what the table holds; and
  `SupersededAttemptsFailed`.
- `RetriesBehindFailure`: what a retry request read stays true until it
  inserts, because a failed row never changes.
- `WorkerInv`: a process that is down has no workers, a worker that owns has a
  row, and `Ownership`.

Store changes are of two kinds, shown once (`StoreStep`): `Progress` moves
statuses of rows that have not ended and keeps everything else;
`Insertion` adds one row, first of its execution or next behind a failure. Both
keep `StoreInv`, and `TerminalIsFinal` follows from the same split. That a
worker's write is `Progress` needs `Ownership` (the row it writes is running),
and `Ownership` at a restart needs `OneInstance` (the requeue finds nobody at
work). `OneRunPerWorkspace` then follows: two runs in one directory would be two
running attempts of one execution, one of which is failed.

For `CanceledOnRequest` the missing link is `CanceledByCause`: behind the canceled
context of a run is the flag of its own row or a shutdown that gave up waiting. A
flag is never taken back (`FlagsStay`), so the cause is still there when
`finish` writes the verdict.

For the refinement, a place of the abstract chain is an execution and an attempt,
and since `AttemptsUnique` says that at most one row is there, its status is that of
this row (`StatusOfRow`). A `Progress` that moves one row is one move of the chain, the
requeue is its restart, an insertion its first or next attempt, and the rest are
stutters (`ChainStep`).

For the collector, `CollectorInv` carries `SafetyInv` along: a sweep changes nothing
the runner's invariant speaks of but the directories. `FilesInv` says what a decision
of a sweep is still worth when it is acted on. A workspace is doomed when all its rows have ended,
and rows that have ended stay so (`DoomedEnded`), while the row of a run is
running; only a retry puts a new row there, and then `unsafe` is set. For
sandboxes a decision may be outdated, since a row that does not run may be claimed
before the removal. That hurts nobody: the daemon gives a new sandbox an id that no worker
and no sweep remembers (`Known`), so it is in no sweep's list, and a run that has its
sandbox is running (`BoxesHeld`), so no sweep comes to condemn it (`DoomedUnused`).
That an attempt has one sandbox (`OneBoxEach`) needs that no call failed: then the stale
ones are removed before a new one is made.

For the schedules, `held` has the times that must not come again: those that were queued,
without the excused ones. `Fresh` says why none of them does: a list of a tick holds each
workflow once and no such time (`DueFresh`), and a row holds none but for the one about to
be moved (`RowsFresh`); every write to the table puts a time that lies ahead of the clock,
while every queued one lies behind, or one that the late write, or the zero time, excuses
(`WriteAhead`). `Ticking` adds
that the entry in hand was queued for the time it lists (`QueuedFits`), which is why
moving its row on drops nothing. `Triggers` implements `Schedules` because all its
writes to the table are `SyncSchedule`, for workflows of the project (`Within`), so what
holds of the table and the tick holds in the company of requests.

For webhooks, `ChecksAgree` shows that the checks of the handler and of ci.yml's filters,
together, are what docs/guide/workflows.md says of an event, for every filter. `Faithful`
follows a webhook that nobody disturbs: the directory it cloned into has the files of its
commit when it lists and reads them, and what the commit declares is among the
workflows started and those still to be read (`Undisturbed`). `Typed` says what any number
of requests leave in the directory (`DirFits`) and what each may rely on there (`Fits`):
every write takes the directory from all others, so a request that still owns it when
its clone starts finds it as it emptied it.

For access, `AccessInv` adds to the types and the properties: a process that is down has
no requests and no pass (`Stopped`); whoever holds a session or a token has signed in
(`Known`); a session that was given up is gone and its number is not used again
(`EndedGone`); a request that should not be served is on its way out (`LateLeaves`);
and a refresh token is spent in no copy, and in a row only until the pass that spent it
stores the next one (`SpentStored`); a pass of another process that lists the row until then,
or had listed it before, has a copy that is marked as taken.

For projects, no id is given out twice (`Rows`), so a row that names a deleted project
names none, and a copy of it writes nothing; `OwnSecrets` speaks of all the copies that
requests and runs hold and is kept as it stands. For caches, what a walk has seen of a
volume that is now empty was removed during the walk (`WalkSees`), and a thread has
removed only what its job removes (`ThreadsFit`). For artifacts, the hashes that a
collection has noted are those of the copies (`EntriesTell`), there is no manifest while
it copies (`Unlisted`) and no file it has yet to copy (`Fresh`), and listings that hold
hashes then began before the manifest went (`ListingsCross`); and a collection whose files
another one could touch knows that it was crossed (`Alone`).

For the step executor, `StepInv` has a part that holds even when a step is launched twice
(`Orderly`): a goroutine is launched, or collected for a launch, only when all its step
depends on has a result, and none is left when the executor has returned. The other
part (`Once`) holds until then: a step has one goroutine and no result before this one
stores it, so results are final, and whether a step runs or is skipped was decided by
final results (`Decided`). That the carried steps are closed under dependencies
(`CarryIdle`) is why a goroutine does not launch one of them.

`orderSteps` is a loop inside a loop, written as recursive functions over the turns
(`Turns`, `Sifted`). What they compute is proved by induction, spelled out in first-order
steps: a set of turns without a least member is empty (`LeastNumber`, from the
library's theorem that strict inclusion of finite subsets is well founded), so a set of
turns that has the first and every next one has all (`ReachesAll`); with it each
function exists and unfolds (`TurnsUnfold`, `SiftedUnfold`). The invariant of a turn is
that of Kahn's algorithm: what is ordered has all its dependencies before it, a step
is queued or ordered once, and exactly when none of its dependencies is still to be
visited (`VisitKahn`). When the queue is empty, the steps that were not ordered each wait
for one of them, which is a cycle; and a workflow with an order has none.

That order is all that `Settling` needs of it: a set of steps without a result has a
member that waits for none of the others. Such a step has a goroutine, or one that is
reporting is about to launch it (`Covered`): by the launch loop, if its dependencies were
carried over (`LoopLaunched`), or by whoever settled its last dependency (`Promised`).
When the main goroutine returns there are no goroutines left, so there is no such
step, however often a step was launched.

For the reports, every step is a step of `Runner` or leaves its variables alone, so
`SafetyInv` is at hand, and `ReportsInv` adds what the reporters and streams know. A
reporter's place fits the phase of its run (`ReportersFit`). Once a run has ended, its
row is not held by another worker and keeps its status until it is told, because it has
ended or, after a lost write, stays running until the next start (`ResultsKept`). A
stream that acts on an end has seen a terminal row, to which nothing is written
(`StreamsFit`). Each check run that was made is the saved one, one whose number was lost, or
one about to be saved, and nobody is about to make one while one is saved
(`ChecksCounted`, `NotYetSaved`); that no two reporters are between making and saving one
rests on attempts of an execution running one at a time. The last word belongs to the
attempt with the highest number: the end the host has heard of is that of an attempt
that exists (`HeardOfAttempt`), and if the last one has ended, its end is shown or about
to be told (`LastWordTold`), unless `untold` says why not.

Only model-checked: the liveness properties (`Returns`, `CancelEnds`, `RunsEnd`,
`DrainReturns`, `NothingLeaks`, `DueRuns`, `LeaversLoseAccess`), which rest on fairness and
so are beyond the prover, and the counterexamples of section 5.

## 7. Not modelled

- Of the triggers: the filter of manual runs, the detection of the default branch, the
  signatures of payloads.
- Of the collector: the discovery directory and the pruning of images, which do not
  look at runs. Nothing collects artifacts.
  Of a snapshot, an archive whose row could not be inserted and whose removal failed.
  The volumes of a sandbox: where its creation fails, the container is removed without
  them (`sandbox.go:202`), and no sweep looks for them.
- Of the reports: the commit status of GitLab, which is one call without an id; an error
  when a stream reads one of the files (`stream.go:72`), which it skips until the next poll;
  the bytes that the mask holds back until a line is complete.
- Of several processes: the skew of their clocks.
- Of access: the renaming of tokens, the nonce and the state of a login, the provider
  beyond its answers. A refusal of GitLab to show a user's groups counts as a
  failed call (`gitlab.go:40`), as in the code.
- Of projects and variables: ciphers and masking. They change texts, not states.
- Workspace paths and the configuration of a workflow beyond what the executor and the
  triggers use: names and parsing.
- The engine and git beyond their outcomes (they are not this code), the HTTP and
  HTML layers, the command line client, the configuration of the server, logging.

Database failures are modelled where the code ignores them; where it returns them to
the user nothing changes.
