# GPTWork: TLA+ models and proofs

GPTWork is a control plane for coding agents. A Node.js server (`src/backend`)
keeps goals and tasks in one JSON state file, runs Codex or Claude sessions in
git worktrees, judges what they deliver, and moves each task through acceptance,
repair, review and integration. Its logic is about *who may move a task, when,
and how often an effect happens*. That logic runs as asynchronous JavaScript: a
mutation of the state file is one step, the code around it is cut at every
`await`, several ticks, tool calls and start-up passes are in flight at the same
time, and the process is killed and restarted on purpose.

This directory models that logic in TLA+, checks it with TLC and proves the main
results with TLAPS. Paths below are under `backend/src/` of the repository unless
they start with another directory.

## 1. The system

### Parts

| Part | State it keeps | Operations | Modelled |
|---|---|---|---|
| Repository lock (`repo-lock-*.mjs`, `runtime-reconciler-repo-locks.mjs`, `task-cancellation.mjs`) | one JSON lock file per repository | acquire, update, release, keep for a restart, release for a task, force release, reconcile, cancel a task | `RepoLock`, `RepoLockProofs` |
| Task transition kernel (`task-state/`) | a task's status and terminal timestamps, the event list, the idempotency index | `transitionTask`, 15 events, a status matrix; `updateTask` beside it | `TaskTransition`, `TaskTransitionProofs` |
| Progression commands (`progression/`, `task-finalization/task-finalization-effects.mjs`) | the durable command list, the decision revision of a task | decide, claim under a lease, run, mark, expire, supersede | `CommandLifecycle`, `ProgressionCommands`, `ProgressionProofs` |
| Execution runs (`execution-core/`) | runs with a state, an outcome and a failure, two look-up indexes | start, advance, evaluate, cancel, checkpoint | `RunLifecycle`, `ExecutionRun`, `ExecutionRunProofs` |
| Goal queue (`goal-queue.mjs`, `queue-policy.mjs`, `queue-reconciler.mjs`) | queue items in order, with a status and a blocking reason | enqueue, start, advance after a completion, recheck, reconcile, cancel, recover | `GoalQueue`, `GoalQueueProofs`, `GoalQueueOrderProofs` |
| State store (`state-store.mjs`) | the in-memory copy, the file, two promise chains | load with reload, mutate, save | `StateStore`, `StateStoreProofs` |
| Workstream task graph (`orchestration/task-*-service.mjs`, `dependency-resolver.mjs`) | nodes and edges of a workstream's tasks | fan out, join, list and start ready nodes, apply a plan | `TaskDag`, `DependencyResolver`, `TaskDagProofs` |
| Worker (`codex-worker-*.mjs`) | a `running` flag, the tasks it executes | tick, recoveries, launch | its drain in `ProgressionCommands`, its recoveries in `GoalQueue`, its start-up in `RepoLock` |
| Finalization, acceptance, closure, evidence | evidence documents, the final status | judge, decide, write back | the decision in `ProgressionCommands`, the write-back in `GoalQueue`; the judging is a pure function of documents |
| Reconciliation and safe restart (`runtime-reconciler*.mjs`, `safe-restart*.mjs`) | restart markers, run directories | start-up passes, schedule, verify | markers and order, in `RepoLock` |
| Attempts and providers (`execution/`, `executions/`, `providers/`) | attempts, provider handles | execute, observe, collect, fail over | only their outcome, in `ExecutionRun` |
| TUI ownership and sessions | session records, a pseudo-terminal | manual start, rollback, collect, the worker's claim | no, see *Not modelled* |
| Supervisor review (`supervisor-review/`, `supervisor/`) | review requests, commands, controller leases | quiesce, review, command, hand off | no, see *Not modelled* |
| Repair and review, integration | links between a task and its repair, a lock per repository and branch | repair, merge, push | their effect on tasks and queue items, in `TaskTransition` and `GoalQueue` |
| Context, prompts, planning, subagents, embedding | text and indexes | build | no: data without control |
| Worktrees, workspaces, retention, repositories | directories | git and file commands | no: correctness is that of paths and git |
| MCP tools, HTTP, authentication | none of their own | dispatch | no |
| Notifications, GitHub, webhooks, cards, diagnostics, CLI | none that decides | report | no |

`PROJECT.json` lists every part with its sources and the reason for its status.

### How they interact

    tool calls ---> kernel <--- worker tick ---> task execution ---> Codex child
        |             |             |                  |
        v             v             v                  v
    goal queue --> state file   progression        lock file
        ^             ^         commands               ^
        |             |             ^                  |
        +------- finalization ------+            start-up reconciliation

The worker's tick drains progression commands, recovers tasks and launches the
ready ones. An execution acquires the repository lock, spawns a child and, when
the child ends, goes to finalization. Finalization writes the final status of the
task, its goal and its queue item and its commands, then starts what the queue
has next, and releases or keeps the lock. The handlers of the commands call the
kernel, create repair goals, integrate and advance the queue. All of it but the
lock file goes through the state store: a call of `mutate` is one step for every
other module, and `StateStore` says what such a step is worth. After a restart
the reconciliation repairs locks, markers and tasks before the first tick. Tool
calls enter all of this at any time.

### What is hard

* **Interleaving.** Ticks, tools and callbacks interleave at awaits. The lock
  file's calls are check-then-act over files; several parts load, decide and
  mutate in separate steps. A start of the queue holds its list of candidates
  over many awaits.
* **Crashes.** The server restarts itself for deployments. Codex children
  outlive it. A crash may hit between two file operations, between a claim and
  its mark, between a task and the queue item it is for, or in a fan-out.
* **Retries and late answers.** Commands carry idempotency keys, leases lapse
  under handlers that are slow, revisions and statuses that were read are stale
  when they are used.
* **Several writers.** `updateTask` writes a status that the kernel also writes;
  a queue item is written by starts, finalizations, recoveries and
  reconciliations; another process may write the state file.

`PROJECT.json` "hazards" lists them at their lines, with the properties that
cover each one or the reason why none does; section 6 has the rest.

### What makes each part correct

* Lock: one holder; what the holder believes is what the file says; a live child
  keeps its repository; a lock outlives its task only for a finalization under way
  or a restart that is due.
* Kernel: a key takes effect once; the log is the history; a terminal status is
  left by a correction only; a completion is someone's judgement.
* Commands: bounded attempts, one start per attempt, no mark on an attempt of
  another process, what is settled stays settled, and everything settles.
* Runs: one run per request, one executor per run, states along the table, no
  completion or failure without its record.
* Queue: no item is reported done without a completed task, nothing runs before
  what it depends on, and a chain of automatic items runs to its end. (That a goal
  has one live task and a repository one running item is meant by the code and not
  achieved by it; see *GoalQueue*.)
* Store: what a call has returned stays in the file, and no failure holds up the
  calls behind it.
* Graph: no cycle, no fan-out answered by halves, no task before its
  dependencies.

## 2. The modules

In every module an `await` of the code ends a step, so that whatever a call has
read may be stale at its next one. A call in flight is a record (`call`,
`starter`, `pc`) with the step it is at and what it holds.

### RepoLock

One lock file at one path. Every `await` on the file system is a step: `Create`
is the open with flag `wx`, `Truncate` the open with flag `w`, `Fill` the write
of the content, `Read` a `readFile` with the decision taken on it, `Archive` the
rename. A call is `call[c]`: its operation, the step it is at, the record it
will write. The operations share these steps and differ in `Rewrite`, which says
what each may write after what it has read. Cancelling a task (`BeginCancel`,
`ReadOwn`, `Remove`, `Settle`) deletes the file that names it. `Absent` and
`Torn` are the two unreadable states of the path; `fds` holds the calls whose
open file is still the one at the path, so that a write into a renamed file is
lost, as it is on a POSIX file system. `Begin...` actions are the callers:
execution, the spawn callback that is not awaited, finalization, healing,
start-up, the operator.

An execution ends in one of three ways. The finalization writes the final status
first (`FinalWrite`, task-finalization-effects.mjs:263), whatever status the task
has by then, and comes to the lock later (`BeginFinalRelease`, :350): the marker as
it is at that time decides whether the lock is kept or released
(worktree-cleanup.mjs:42), so a task may have ended while its lock is kept for a
restart that is due. The other regular exits (a parked retry, a review, a missing
provider, a supervisor's checkpoint) release through `releaseLockForTask`, which
does not look at the marker (`BeginReleaseForTask`); a parked task gets its status
after the call (`Settle`). An exception (`ExecutionThrows`) fails the task and
leaves the lock.

Start-up first releases the locks of interrupted tasks, then those of tasks that
have ended (`BeginStartupRelease`, runtime-reconciler-repo-locks.mjs:13), again
without a look at the marker, then marks dead locks stale, and settles the markers
(`VerifyMarker`: the marker file, then the release, then, with `store.save` after the
last marker, the statuses: `Saved`, `StartTicks`; a crash in between leaves a marker
that is settled and a status that is not).

| Model | Code |
|---|---|
| `lock` | the file at `lockPath` |
| `holds` | the tasks whose `acquireRepoLock` returned `acquired: true` and that run |
| `phase` | how far `reconcileRuntimeRepoLocks` and `reconcileRestartMarkers` have come |
| `children` | Codex children that are alive, whatever the file says of them |
| `marker` | the restart marker: none, active (`pending`/`scheduled`/`restarted`), verified (settled by this start-up, the task's status not saved yet), final |
| `status` | the task's status in three classes: open (the worker may execute it or does), review, ended |
| `finishing` | the holders whose final status is written and whose lock is still theirs |
| `old`, `dead` of a record | the age of the heartbeat, the probe of `pid` |

`Faults` switches on the passing of `STALL_THRESHOLD_MS` ("time"), crashes between
calls and inside a call, and exceptions ("throw"); `Ops` the operations; `MaxOverlap` how many calls are
in flight at the same time.

| Run | Question | Answer |
|---|---|---|
| `repo_lock_serial` | three tasks, calls that do not overlap, all faults but exceptions | one holder; the holder's file; a lock held for an ended task is one its finalization is about to come to, or kept for a restart that is due; the lock kept for a restart of a task that has not ended, and the lock of a child at work, survive |
| `repo_lock_restart` | two tasks, crashes during start-up, exceptions, forced releases, cancellations, fairness | a kept lock is freed |
| `repo_lock_race` | two tasks, two calls at a time | **violated**: both of two acquires win |

The violation is the finding: `archiveInactiveLock` renames whatever is at the
path. Of two acquires that read the same released lock, the slower one renames
away the held file that the faster one created meanwhile. The repository's test
`backend/test/repo-lock.test.mjs:192` starts from an absent file, where
exclusive creation decides, and cannot see it. So OneHolder holds as long as the
calls of one repository do not overlap, and the serial run says exactly that.

The results are conditional, on purpose. The serial run has neither forced
releases nor cancellations: both take the lock from a task that goes on running
(task-cancellation.mjs:74 deletes the file whether or not an execution goes on),
and OneHolder and HolderOwnsFile are false with them. Nor has it exceptions: one
that leaves an execution strands its lock until the next start-up releases the
locks of ended tasks, so EndedTaskHoldsNothing is false with them; the liveness run
has them. EndedTaskHoldsNothing says that a running server holds no lock for an
ended task but those two, and RestartKeepsLock is about tasks that have not ended:
the release of ended tasks' locks at start-up frees a lock that the finalization kept
for an admin restart of the same task, before its marker is verified. The model does
so too; whether it should is for the code's owners. OrphanKeepsRepo is about a
child whose pid is in the file and whose lock has a fresh heartbeat: the
heartbeat is refreshed at acquisition and spawn only, and its age is tested before
the child is probed (repo-lock-reconciler.mjs:40), so a restart more than 15
minutes into a run frees the lock under a living child. KeptLockIsFreed excludes
crashes inside a call: an empty lock file is skipped by every call of the
program. And `releaseRepoLock` with `restartState` (repo-lock-lifecycle.mjs:153)
writes before it compares owners; the liveness run includes it with forced
releases. The liveness run leaves out the spawn callback ("update"): with it the
result is the same and the run takes four minutes.

Bounds: the operations do not count tasks, so two tasks show every conflict and
the third adds a bystander (the serial run has all three). `Attempts` is the
code's own 3. Nothing else is bounded: the state space is finite.

Fairness: strong, because a crash disables every step and may happen again and
again. It says that a process which is restarted infinitely often is also given
time, at some restart, for the next step: `Restart` is the scheduled restart
itself (an external scheduler), the others are the straight-line start-up code
and file operations that return. The facts are combined with `\E` into one
condition per kind of step.

### TaskTransition

`transitionTask` with the whole matrix of `task-state-model.mjs`. `Resolve(s, e,
p)` is the set with the next status of event `e` with payload `p`, empty when
the matrix refuses. A caller first fixes a command (`Prepare`: the task, the key,
and the expected statuses it has read) and later sends it, so that everything it
has read may be stale. `Transition` is the mutation, with the key gate before the
expected-status gate as in the code; its answer may be lost, in which case the
caller keeps the command and sends it again. `Answer` covers a replay and both
errors. `UpdateTask` is the legacy writer, `task-lifecycle.mjs:181`: it assigns
a status, guarded against terminal regression, and touches no log. It is used on
the tasks in `LegacyTasks`.

Not in the module is the third writer of a task's status, `mutateFinalTaskState`
(task-finalization-effects.mjs:183): it has no guard against leaving a terminal
status and writes no event record, so a task cancelled while its session went on may
come back to review. Nor are the statuses that only `updateTask` gives, such as
`materializing_worktree`. What the module says of a task is about these two writers,
TerminalReopenedByCorrection included; `GoalQueue` has the finalization's write.

| Model | Code |
|---|---|
| `status`, `stamps` | `task.status`; the terminal timestamps that are set |
| `log`, `idem` | `state.task_events`; the index by idempotency key |
| `call` | a command built by a caller and not answered yet |
| `Canonicals` | the values of `payload.canonical_status` that are used |

| Run | Question | Answer |
|---|---|---|
| `task_kernel` | two tasks, one of them also written by `updateTask`; two keys, two events, a caller whose answers get lost | a key takes effect once; a task is reopened by a logged correction only; of the task that the kernel alone writes, the log is the history, the stamps tell it, terminal statuses are left by corrections and completion is decided |

Three disagreements were met and are recorded here rather than as runs.
`task-transition-events.mjs` says that every task transition generates exactly
one event record; `updateTask` generates none, so HistoryIsWhole and the three
properties that build on it say nothing of tasks in `LegacyTasks`.
`TERMINAL_ADVANCING_EVENTS`, "events that may advance a task toward terminal"
(task-transition-events.mjs:48), leaves out `execution_evidence_failed`, which
the matrix maps to `failed` (task-state-model.mjs:114), and
`execution_evidence_ready`. And a correction "must carry administrative audit
info" (task-state-model.mjs:83), which `transitionTask` does not test (:217).

Bounds: `MaxEvents` bounds the log. Each property is violated, if at all, by a
chain of at most two events of one task, or one of each; the theorems remove the
bound on tasks, keys and callers and hold for every value of `MaxEvents`.
`Canonicals` keeps one terminal and one repairable value where more would only
multiply the runs.

### CommandLifecycle and ProgressionCommands

`CommandLifecycle` is the abstract specification, one command at a time: it is
created once, handed out at most `MaxAttempts` times, its effect is started at most
once each time, it is applied only while it is handed out and after an effect was
started, and nothing moves it once it is applied or superseded. It says nothing of
drains, owners, leases or retries. A failed command that has an attempt left waits,
as a pending one does (`Stage`); since one mutation of the state file concerns many
commands, a step of it takes each command along in one of these ways.

`ProgressionCommands` is the store with its drains. The finalization's mutation (`Decide`) writes a new decision revision and one
command per effect, supersedes stale pending commands and creates those whose
key is not in use. A drain releases expired leases, claims the oldest command
that is due, reads the current revision (`Check`), runs the handler (`Run`,
whose outcome is free: applied, failed, or thrown), marks it (`Apply`,
`Supersede`, `Fail`) and notifies (`Notify`, which may throw, and then the code
tries to mark the applied command failed). Between these steps other drains,
finalizations, lapses and crashes happen.

| Model | Code |
|---|---|
| `cmd[k]` | the command with idempotency key `k`; absent before it was created |
| `revision`, `latest` | `decision_revision` of the task; the commands its last decision asked for |
| `pc`, `item` | where each overlapping call of `drain` is, and with which attempt |
| `OwnerOf` | `codex-worker:<pid>`: the same for all drains of a process |
| `LeaseLapses`, `RetryDue` | the 60 s lease and the retry delay run out |
| `started` | the attempts whose handler was started (history, for properties) |

| Run | Question | Answer |
|---|---|---|
| `progression_retry` | two processes, lapsing leases, a crash, a second decision | attempts bounded, one start each, no process marks another's attempt; the store implements `CommandLifecycle`, so what is settled stays settled |
| `progression_settle` | two drains of one process, handlers within their lease, a crash, fairness | no command is taken from under its handler; every command settles |
| `progression_sticky` | a task that is decided twice | **violated**: a command of the first decision starts after the second |

The violation is the finding: a later decision inherits the first one's
revision, so commands of the first decision are not stale for the drain.

`Lapses` and `OwnerOf` separate what depends on what. HandlerHasLease needs
handlers that end in time; OneStartPerAttempt, AttemptsBounded and KeepsLifecycle do
not. The owner is `codex-worker:<pid>`, one per process: of two drains of one process
the one that lost its lease may mark the attempt of the other. MarkWithinProcess says
what the owner test does achieve: a mark ends an attempt that some drain of the
marking process is at work on. With one drain per process, as in the run, that drain
is the marking one; the theorem is about any number.

Bounds: two attempts show the first, the retry and the last; the code's default
is 3, and a third is a second retry. Two decisions show inheritance and
supersession; `MaxDecisions` and `MaxCrashes` are the only bounds that cut
behaviours off. `EffectSets` takes one decision with and one without completion,
because commands of different actions do not interact but for their order.

Fairness: weak fairness of each drain's steps (the worker's tick drains every few
seconds; handlers bound the time of what they run), of lapsing leases and of due
retries (time passes).

### RunLifecycle and ExecutionRun

`RunLifecycle` is the abstract specification: a run is created once, moves along
the table of `execution-state-machine.mjs`, and is completed or failed only after
its acceptance or failure was recorded. It says nothing of who moves the run.

`ExecutionRun` is the service over the store that `supervisor-runtime.mjs` backs
with the state file. A call of `start`, `advanceRun`, `evaluateRun`, `cancel` or
`checkpointRun` is `call[c]`: the step it is at, its run, and `seen`, the state in
the clone of the run it read. `Transition` is the table's assertion with the
store's compare-and-set, `RecordFailure` the store's `updateRun`, which writes
whatever the state is by now. Where `advanceRun` lets an error through to its
caller the call ends (`TransitionOrThrow`); `start` catches it
(`TransitionOrFault`, `Fault`, `GiveUp`). The services a call awaits, and the
provider, answer freely or throw.

| Model | Code |
|---|---|
| `runState` | `run.state`; "absent" before `createRun` |
| `request`, `key` | `run.request_id`, `run.idempotency_key`; the indexes by them are `Carrying` |
| `outcome`, `failure` | whether `run.outcome` is set; the code of `run.failure`, the three codes of the gates as one |
| `call` | a service call in flight |
| `Crash` | the process ends: calls are lost, stored runs are not |

| Run | Question | Answer |
|---|---|---|
| `exec_run_service` | any three calls on two runs, crashes | one executor per run; one run per request_id; the service implements `RunLifecycle` |

A disagreement is recorded here rather than as a run. Inside its transaction
`createRun` finds the run that already carries the request_id and returns it
(execution-core/execution-run-store.mjs:9 speaks of idempotent creation, and
`backend/test/execution-core/execution-run-service.test.mjs:298` of a repeated start that gets
the first one's run). `start` takes that run for new, its move from created to
planning conflicts, and the catch records `startup_failed` and fails the run,
whatever it is doing. It needs two starts that race past the look-ups, or
`force_new_run`, which skips them; the repository's tests run on the in-memory
store, whose `createRun` looks nothing up. The model keeps it (`GiveUp`), and the
properties hold beside it.

That store is what `task-processing/execution-run-bridge.mjs` uses by default, one
per task, without request_ids; OneRunPerRequest is about the durable one. And both
stores look up an idempotency_key only before the transaction: two racing starts
that share a key make two runs. SingleExecutor is about the service's own calls:
the supervisor's takeover also moves runs, and may make one ready while its
executor still runs.

Bounds: `Calls` is how many calls are made in all, `Runs` how many runs can be
created; nothing else is cut off. Each property is violated, if at all, by two calls
racing on a run that a third has started. The theorems hold for any number. Ids,
supervision records and `pending_effects`, which nothing consumes, are left out:
no guard of these calls reads them.

### GoalQueue

The queue with everything that writes it. A start (`startNext`, by the worker or
a tool) rechecks the transient blocks, lists its candidates and, candidate by
candidate, asks the gates (`ScanNext`: dependency, acceptance, repository),
awaits the resolution of the repository, creates the task (`CreateGoalTask`) and
marks the item running (`RunItem`): three awaits, with the list from before the
first. A tick after a completion (`AutoStartNextOnTaskCompleted`) reconciles the
items by their goals' status and picks one more (`PickItem`, `GatesRefuse`,
`GatesPass`).

An execution is a call that goes on whatever becomes of the task's status: `run` says
where it is, `status` what the last writer wrote. It is taken up (`BeginExecution`),
gets a worktree (`MaterializeWorktree`, a status of its own during the await,
task-execution-runner.mjs:196; `FailWorktree`), may be refused its lock
(`LockRefused`), is dispatched and runs (`Dispatch`). It ends without a result
(`LeaveSession`: parked for a retry or a review, without a provider, waiting for a
supervisor) or in the finalization (`FinalizeTask`): one mutation for task, goal, item
and dependents that writes its status over whatever the task has by then. The updates
before that go through `updateTask`, which refuses to take a task out of a terminal
status; the call that was refused then marks the task failed (`UpdateTask`).
`CancelTask` looks at neither queue nor execution. `RecoverReview`, `BeginRetry` and
`EndRetry`, `ReconcileRunningQueueItems` and `ReconcileRunningTask` are the worker's
recoveries, the retried integration, the mirror of ended tasks in items, and the
start-up's look at tasks that a dead server left running.

| Model | Code |
|---|---|
| `queue` | `state.goal_queue`, by position: goal, task, status, `blocked_reason` by kind |
| `plan` | what `enqueue_goal` is given: repository, `auto_start`, the dependency and its policy; chosen at the start and constant |
| `tasks`, `goals` | `state.tasks` (status, and whether accepted evidence says it is done), what a call of the worker is doing for the task (`run`), the goal's status and `task_id` |
| `starter` | the starts and ticks in flight, with the candidates that are left |
| `owed` | finalizations whose tick has not begun |

| Run | Question | Answer |
|---|---|---|
| `goal_queue` | two goals in two plans, one start at a time, every failure, a crash | no item is reported done without a completed task of its goal; nothing runs before its dependency |
| `goal_queue_drain` | chains of three goals, no failures but a busy repository and the operator's unblocking, fairness | no wake-up is lost; a completed item is not run again; the chain runs to its end |

Two rules of the code are not properties here, because the code does not keep them.
A goal may get two live tasks: `ACTIVE_TASK_STATUSES` (goal-task-task-factory.mjs:10)
leaves out `materializing_worktree`, so a start that overlaps another one does not
find its task while the worktree is made (:171); and a task that is cancelled,
replaced and then finalized comes back beside its replacement. And two items of one
repository may run at once: two starts that overlap both pass `checkRepoConcurrency`
(queue-policy.mjs:22), and the repository's lock then makes the second task wait.
The model does both, and the other properties are stated and proved beside it:
ItemDoneHasTask, that an item is completed only when its goal has a completed task,
is what matters when tasks are duplicated or come back.

What the conditions are for. The runs have one start at a time, for the size of the
state space (with two, and without crashes, refused worktrees and holds, TLC finds the
safety properties of `goal_queue` true on 2.6 million states, in a run that is not
kept); the theorems about ItemDoneHasTask, StartsAfterDependency and NoWakeupLost have
any number. DoneOnce needs the one: a start holds its candidate over
three awaits and does not read the status again (goal-queue.mjs:378), so a second
start, or a recovery after a crash, may complete it meanwhile, and the first takes it
back to "running" or "blocked". It also needs that nothing is cancelled: the operator
cancels an item that a start holds, a second item of its goal is queued, and the start
fails to resolve the repository and writes "blocked" over the cancellation; the goal
then has two live items. QueueDrains is checked without crashes: the tick that follows
a completion runs after the completion was written
(task-finalization-effects.mjs:109), and a crash between them loses it. It says
nothing once a task failed, waits for review or was cancelled (`Calm`): what happens
then is the operator's. StartsAfterDependency speaks of an item's start with its task;
an item that waits for a goal "whatever its end" (`terminal_any`) may start after its
goal is reopened, so the theorem asks for `completed_only` there.

`MutationsFree`: mutations of the store queue up behind each other and look at the
file's time before they run, while the write of an item (`RunItem`) follows that of its
task after a microtask. So no other *mutation* falls between `CreateGoalTask` and
`RunItem` (a crash does). It guards the other `CreateGoalTask`, the finalization, the
recovered reviews and the mirror; cancellations, retries and the steps of an execution
are not guarded, which adds behaviours and takes none away.

Bounds: two items show every conflict of starts, finalizations and recoveries;
the third makes a chain, where a block is passed on; two tasks are a goal's and its
dependent's, or two of one goal. `MaxTasks`, `MaxItems` and `MaxCrashes` are the only
bounds. The operator's update of an item is restricted to what its documentation
describes, and a cancellation to tasks that have not ended: `update_task_status` would
also take back a completed task, and with it what a dependent has waited for.

Fairness: weak for a start's own steps, for the mirror of ended tasks, and for taking
up, dispatching and ending an execution (the event loop, the worker's timer, time
limits of sessions); strong for the worker's start and for an owed tick, which other
starts disable and enable again and which the worker's timer repeats.

Met while modelling, and kept by the model or outside it: two starts that overlap
pass the repository check; `TRANSIENT_PATTERNS` (goal-queue.mjs:319) match neither
"repo concurrency" nor the typed reasons, so only an unknown worktree is
rechecked; the item of a cancelled task stays "running" (codex-worker-runner.mjs:470,
goal-queue.mjs:630); `retryIntegrationForTask` updates neither goal nor
item (codex-worker-runner.mjs:573); `recoverAccepted...` marks an item running
without the repository check (:455); a candidate's status is not read again when it is
started (goal-queue.mjs:378); the typed eligibility check writes its result over a
status that may have moved (:1013); a task that ended "blocked" makes its item
eligible again; a crash between a task and its item leaves both (the next start
finds the live task); of two items of one goal a finalization completes the first,
whichever its task was made for.

Outside: two executions or two integration retries of one task at a time,
`waiting_for_repair`, and the passes that move tasks on evidence in files
(`reconcileAllActiveTaskRuntimes`, `sweepStaleTaskStates`,
`recoverDurableReviewEvidenceTasks`).

### StateStore

`load`, `mutate` and `save` of one process over a file that another process may
replace. A state is the set of the changes in it, a change has the name of the
call that makes it. Objects are shared, as in the code: `heap` has every state
object of the process, its last one is `this.state`, and a call changes the
object that `load` gave it, which need not be the one that is written. The two
promise chains are sequences of calls, and only the head goes on. `load` stats the
file, compares with the fingerprint last recorded, and reads it again if it
differs; `save` writes a temporary file, renames it and then records the
fingerprint.

| Model | Code |
|---|---|
| `disk` | the state file; `stamp` is its mtime and size |
| `heap`, `seen` | `this.state` and earlier objects; `_stateMtime`, `_stateSize` |
| `mutations`, `saves` | `_mutationLock`, `_saveLock` |
| `intact` | history: `this.state` was not replaced since the server booted |

| Run | Question | Answer |
|---|---|---|
| `state_store` | two mutations, a load-change-save, an external change, all faults, a crash, fairness | what has returned is in the file; every call settles |

ReturnedIsDurable speaks of executions without a reload, because a reload may lose
a change. The sequence: a save renames its file; before it has recorded the
fingerprint (state-store.mjs:325 and :334), the `load` of another call stats the
new file, finds the fingerprint changed (:129) and reads; meanwhile a mutation
changes `this.state`; the reload then replaces `this.state` with what it has read,
and the next save writes a file without that mutation, which has returned. It
contradicts `backend/test/state-store.test.mjs:100`, "mutate serializes updater
and save so concurrent mutations see prior writes", for calls of `load` or `save`
beside a mutation. The same window makes an external change look like the
process's own (:330). Also outside: an updater that throws leaves what it changed
in memory, and the next save writes it (:346, kept by the model); a file that
cannot be read is replaced by the default state (:154, `BootUnreadable`); two
processes overwrite each other's changes (:119).

Bounds: two mutations and a save show a chain with a head, a successor and a call
of the other chain; a third caller only queues. `Readers` is empty in the run,
because a load that only reads does what a save does first. Fingerprints are
distinct for each rename.

Fairness: weak for each call's next step and for the boot: the event loop runs what
is ready, file operations end, and the server is started again.

### TaskDag and DependencyResolver

The graph of a workstream's tasks. Each `store.mutate` is one step (what such a
step is worth is `StateStore`'s subject); a fan-out, a join and a start of ready
nodes are series of them, so calls interleave and a crash leaves them half done.
`Linked` is the edge transaction with its cycle test, which runs the search below;
`ApplyPlan` is one transaction. `DependencyResolver` has the depth-first search and
Kahn's sort as the code runs them, colour by colour and queue by queue. A recursive
call or a loop is a step on a record (`Search`: the open calls, the black nodes, the
path found; `Sort`: the degrees, the queue, the result, the edges left to relax),
and the algorithm is that step repeated as often as it can do anything, a recursive
function on the natural numbers. `Acyclic` ("no set of nodes each of which has a
predecessor in the set") and `IsStable` say what they decide: CycleIsFound and
OrderIsStable compare the two in every state, and theorems do so for every finite
graph. Nodes are numbers, because the sort breaks ties by the order of their ids.

| Model | Code |
|---|---|
| `status`, `edges`, `applied` | `dag.nodes[n].status`, `dag.edges`, `dag.applied_plans` |
| `call` | the open tool call of each client, with the shards, predecessors or ready nodes it has left |
| `answered`, `begun`, `passed` | history: fan-outs answered with `idempotent: false`; executions begun and completed |

| Run | Question | Answer |
|---|---|---|
| `task_dag` | two clients; a fan-out, two joins that await each other, a plan, capacity 2, failures, crashes | the graph is acyclic; a fan-out answered as new is whole; a plan's task waits for its dependencies; the search is right about the graph a join would make, and the sort about the graph there is |

A start of ready nodes lists them, asks for the capacity once after the await
(`CheckExecutionCapacity`), and then sets one node after the other.

`Begin` and `End` are external: no code in the repository moves a node to running
or completed; they are what the status updates of its tools allow. FanoutIsWhole
is about answers that are new: a crash or an overlapping call in the middle of a
fan-out leaves a part of it, and later calls are answered with that part,
`idempotent: true` (task-fanout-service.mjs:108). An overlapping second call may
also fail with "already exists". Further disagreements: a join that has only some
of its edges looks ready (task-join-service.mjs:125); a refused edge is swallowed
and reported as added (:129); ready nodes do not look at `join_condition`
(task-dag-service.mjs:361) nor at predecessors in another workstream (:339); the
joins of a plan are created "pending" and only "waiting" ones become ready
(plan-ir-compiler.mjs:3, task-dag-service.mjs:369); of two overlapping starts the
slower may set a node that already runs back to ready
(workstream-orchestration-tools-group.mjs:157), and capacity is asked once, before
the loop; a task whose predecessor failed is never ready.

Bounds: six nodes give a fan-out, a chain, and the shortest cycle that two calls can
attempt; no action is bounded. The model assumes that ids made by the three kinds
of call do not collide. Left out: the manual release and the evaluation of a join,
whose results no other operation reads, and `createDagBatch` and `removeDagEdge`,
which have no caller.

## 3. What is proved

`tlapm` checks every theorem to its leaves. They hold for every set of tasks,
callers, keys, drains, runs, goals, nodes or calls and every bound, under the
assumption each module states about its constants, which TLC evaluates in the
runs.

**RepoLockProofs.** Types hold whatever calls overlap. The other theorems assume
`Serial`: at most one call at a time, no forced release, no cancellation and no
exception that leaves an execution; without it they are false, as the race run and
the list above show. OneHolder is
not inductive: what keeps a second acquire from succeeding is that the file is
held for the holder between calls (`Between`) and that a call, at each of its
steps, still relies on what it has read (`CallFits`: who makes it, what its
target is to the world, what the record it will write says of the holder). `WorldFits` ties the holder to the start-up, to
its status and to its finalization; `Freed` and `Gives` say when nothing is held for a
task any more, and whose lock a release may give up, an ended task's kept lock
included. With `OneCall` only one call can disturb, so each step's lemma shows that what it
leaves behind is enough for `OneLeft`. `Overwrites` says whose held lock a call
may write over; the two action properties are read off it: a held lock leaves the
path only by `Truncate` (`HeldUntilWritten`), and what is then written holds it on
(`OpenedToWrite`).

**TaskTransitionProofs.** `Typing` is Spec => []TypeOK. `KeyTheorem` shows
that OneEffectPerKey is inductive by itself: only a step with a fresh key
appends, and it sets the index to the place it appends to. `ReopenTheorem` is an
action property and needs the types alone: of the events of the matrix only a
correction maps a terminal status to another one, and `UpdateTask`'s guard
excludes it. The four others are about the tasks outside `LegacyTasks`. They share
one argument, in which the log grows by one record whose `previous` is the status
the task had and whose `next` is the status it gets.

**ProgressionProofs.** The invariants are not inductive. That an attempt stays
within its bound, when `Claim` increments it, depends on what waits having an
attempt left (WaitingHasAttempt); that a start is new depends on the attempt of
a checking drain not being among the started ones (CheckIsNew), on no two drains
working on one attempt (AttemptsDiffer), and on starts and items being attempts
that were made (StartsAreAttempts, ItemsAreAttempts). `IInv` is their conjunction
with TypeOK. Most steps change none of the attempts; the lemmas with `Kept` say so
once for each way a command record is rewritten, and KeptInvariant closes those
cases together. `SettledTheorem` is read off the same rewrites. `LifecycleTheorem` is
the refinement: each action takes each command along in one step of
`CommandLifecycle` (`Follows`), and a command is applied after its effect was started
because a drain that runs or applies has passed its check (`EffectWasStarted`, which
joins the invariant). `LeaseTheorem`
(handlers end within their lease) adds an assumption and a strengthening of its own,
and is false without it. `MarkTheorem` has no assumption on owners: a lease does not
name its drain, but it is the lease of an attempt that some drain of that process is at
work on (`LeasesAreWorked`), since the drain that made the attempt leaves it only by a
mark that ends the lease or with its process.

**ExecutionRunProofs.** SingleExecutor is not inductive: two calls may both be
about to claim a run. CallsOK says what a call may still rely on at its step: a
claim goes from "ready" only, and the run of an executing call is past its early
states. Since no call brings a run back to those (NeverResumed excludes the states
a claim might otherwise start from), a second claim finds the run moved. CallsOK
also says that the outcome is on record before `Complete`, and the failure before
each step that fails a run. CallStep proves once that a step keeps `IInv` when what
others rely on only grows; the other lemmas instantiate it for a transition, a
failure, a read and a return. `ImplementsLifecycle` is the refinement: MoveMaps and
FailureMaps turn the two kinds of write into a step of `RunLifecycle`, StutterMaps
covers the rest, and the theorem combines them per step of a call.

**GoalQueueProofs, GoalQueueOrderProofs.** Types need that items, calls and goals
name tasks that are there, and what an execution may be doing for a task in a given
status (`RunsFit`: a session whose task was cancelled or sent to review goes on).
Nothing is assumed about how many starts and ticks overlap or how many tasks a goal has.

`DoneTheorem` needs that links agree (an item, a start and a goal have tasks of that
goal: `ItemsFit`, `CallsFit`, `GoalsFit`) and that a goal is completed only with a
completed task; a completed task stays completed whatever is written late. For the
order, what a gate answered must still hold many awaits later. `Met` is what the gates
stand for once they let an item pass, a completed task; completed tasks stay so
(`MetStays`), while a goal's status may be taken back, hence the assumption
`WaitsForSuccess` of `OrderTheorem`. A call past its gates has it (`CallsMet`), and so
has an item with a task (`ItemsMet`), since a recovered review marks an item running
again long after. `Quiet` collects what every step but those of a start leaves alone.

`WakeupTheorem` is the part of QueueDrains that is a safety property, for any number
of starts and of tasks of a goal: an item that is blocked although all it waits for is
done has a tick that is owed, or a task at work that will owe one (`NoWakeupLost`). A
gate refuses an item for a predecessor that is not done or for another item that runs
(`RefusalHasCause`); an item that runs has a task at work (`RunsItsTask`), also while a
start is between claiming it and running it (`CallRunsTask`); a goal is queued once
(`GoalsOnce`); and a tick leaves nothing blocked that may go on. `Undisturbed` excludes
refused worktrees, failures, parked, waiting and held tasks, cancellations and crashes: with any
one of them an item may wait for the operator or for the worker's next tick. That a
least candidate exists (`SmallestExists`) is the library's well-foundedness of the
order on Nat.

There is no theorem that a goal has one live task, that a repository has one running
item, or that a completed item is not run again: the first two are false of the code,
and the third is true of one start at a time with nothing cancelled, which is what its
run shows and no more than that.

**StateStoreProofs.** While no reload intervened there is one object, a change goes
from it to what a save writes and from there to the file, and none of the three
lacks what was returned (`ChangesKept`). That needs the chains: only the head of a
chain goes on (`ChainsFit`). `TurnsTheorem` is the part of EveryCallSettles that is a
safety property. Each call that waits stands in its chain behind others and is at a
step where it can be (`TurnsFit`); the head of the save chain never waits for a
mutation, so while anything is under way some call may go on (`SomeCallGoesOn`), also
after writes that failed and updaters that threw. `MayGoOn` is written out; that it
says what ENABLED says of a call's step was checked with TLC.

**TaskDagProofs.** GraphIsAcyclic follows from the test in the edge's own
transaction, with lemmas on acyclic graphs (`HasFirst`, `SourceIsSafe`); a fan-out
is whole because nothing removes a node or an edge; a plan's task waits because a
completed predecessor stays completed and edges into a plan's task come with its
plan.

The test itself is proved too. `DetectCycleDecides`: on every finite graph the search
answers with a closed path of the graph if there is a cycle and with none otherwise. Its
invariant has a stack that is a path of distinct nodes, none of them black, and
black nodes whose successors are all black: so a cycle among them is impossible, and
when nothing is left to visit all nodes are black. `TopologicalSortDecides`: the sort
answers every node once, each the least of those whose predecessors are out, or a cycle.
Its invariant ties the degrees to the edges that are not relaxed and the queue, in
ascending order, to the nodes of degree 0. Both run for as long as a number falls at
each step (`ToDo`, `Rest`). The library's induction theorems are beyond the provers
here, since they take an operator; induction over a *set* of numbers is not. `CountUp`
derives it from the pigeonhole principle for finite sets, `AllNaturals` carries it to
Nat, and `Iteration` shows with it that the recursive functions of the two
algorithms exist. CycleTheorem and SortTheorem apply them to what the calls of the
graph do.

**Only model-checked**: the four liveness properties (KeptLockIsFreed,
EveryCommandSettles, EveryCallSettles, QueueDrains: fairness and ENABLED are out of
TLAPS's reach; TurnsTheorem and WakeupTheorem prove the safety half of two of them),
DoneOnce, and the two violations. Every other property of a run is stated by a
theorem, most of them with fewer conditions than the run.

## 4. Abstractions

* A mutation of the state file is one step everywhere but in `StateStore`, which
  says when that is so: within a process, as long as no reload falls into a save
  and no updater throws after it has changed something.
* Times are events: a threshold, a lease or a delay is over or is not.
* Payloads, results, messages, file names and wording are left out; a decision is
  the set of effects it asks for, a handler is its outcome.
* Projections of a run to its task, best-effort in the code, are left out.
* The activity log, notifications' content and counters decide nothing and are
  left out.

## 5. Not modelled, and why

* **TUI sessions and their ownership** (`tool-groups/codex-tui-tools-group.mjs`,
  `runtime/task-runtime-reconciler.mjs`). Session records are read, changed and
  written back without a transaction, beside a pseudo-terminal; next to no property
  of the ownership would hold. Read with it: overlapping manual starts both spawn a
  terminal; an early exit is overwritten by "running"; a start that fails before it
  spawns leaves its owner mark on a failed task; the end of a session can take a
  completed task back to review; `tui_claim:<task>:<status>` makes a second claim
  from the same status a replay (:221); a session's claim and its owner mark are two
  transactions (:223); `isProcessAlive` is used in the bootstrap of sessions and
  not imported.
* **Supervisor review and commands.** As wired, `supervisor-runtime.mjs` gives the
  command executor a lease store without `read`, so `executeNext` throws before it
  marks a command (supervisor-command-executor.mjs:33), and the command is claimed
  again every 30 seconds; the quiescence, takeover and correction services are not
  configured. A model would be one of code that production does not run. Read with
  it: the hand-off takes the answer of `compareAndSetOwner`, a boolean, for a lease
  (handoff-to-codex-service.mjs:48).
* **Acceptance, closure, evidence, final status**: pure functions of large
  documents. A model would repeat their tables.
* **Task execution and attempts**: a child process, its files and its streams. The
  lock they hold is in `RepoLock`.
* **Review and repair**: their transitions are in `TaskTransition` and `GoalQueue`;
  which tasks are selected depends on long conditions over evidence
  (codex-worker-runner.mjs:296).
* **Integration**: a lock by repository and branch around git commands that run
  synchronously and release it in a `finally`.
* **Safe restart, runtime reconciliation** of sessions and runs: external commands,
  files and process ids; the markers and their order are in `RepoLock`.
* **Workstream tick, stall and drift reports**: computed from the state and not
  written back.
* **Retention, worktrees, workspaces**: paths, ages and git.
* **Context, prompts, planning, cards, diagnostics, CLI, HTTP, notifications**: text,
  dispatch and best-effort output.

The modelled parts are a small share of the repository's lines. Most of the rest is
of these kinds: text for prompts and cards, tables over documents, files and git.

## 6. Further hazards

`PROJECT.json` lists the hazards of the modelled parts and the main ones outside.
Met as well:

* repo-lock-lifecycle.mjs:110: `updateRepoLock` is not awaited when the child is
  spawned, and may write after a release.
* task-codex-execution.mjs:150: a crash after the spawn and before the pid is in the
  lock file makes the child invisible to the reconciliation.
* executions/execution-runtime-service.mjs:267: a cancellation stops the provider
  before it moves the task, which the matrix may refuse.
* runtime-reconciler-stale-tasks.mjs:31: the idempotency key of a stale task's end
  does not tell a second staleness from the first.
* execution-core/execution-run-service.mjs:47 and :185: a run whose process died
  while it was created or planned stays there; an evaluation whose decision keeps
  differing starts over without a bound.
* codex-worker-runner.mjs:869: the worker's timer does not start a tick while one
  runs, but the tool `run_assigned_codex_tasks` runs the same function beside it:
  what each selects may have been moved by the other's recoveries.

## 7. What a next step would be

The composition of `GoalQueue` with `RepoLock` (two starts that overlap, the two
tasks they make, and the lock that keeps these apart); the takeover of a run once the supervisor is
wired; a single writer as an abstract specification of `StateStore` once a reload
is inside the mutation chain.

Runs are few by design: a module asks one question per run, and a question that a
second run would only repeat is left out.

## 8. Running it

    tlc -workers 2 -config MCRepoLockSerial.cfg MCRepoLock
    tlapm ProgressionProofs.tla

`CHECK_DEADLOCK FALSE` stands in every configuration because every system here
may stop: all tasks have ended, all commands are settled, or a bound is reached.
