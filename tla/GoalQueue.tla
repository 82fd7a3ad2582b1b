----------------------------- MODULE GoalQueue -----------------------------
(***************************************************************************)
(* The goal queue (goal-queue.mjs, queue-policy.mjs, queue-reconciler.mjs) *)
(* with its other writers: the runner of a task, its finalization, the     *)
(* worker's recoveries and those of a start of the server.  State in       *)
(* memory is live, so the code between two awaits is one step.  A start or *)
(* a tick is a call that holds its list of candidates over many awaits,    *)
(* and an execution one that goes on whatever the task's status becomes.   *)
(***************************************************************************)
EXTENDS Naturals, Sequences, FiniteSetsExt

CONSTANTS
    Goals,        \* the goals that may be queued
    Plans,        \* each plan says what enqueue_goal is given for every goal
    Starters,     \* the start calls and ticks that may be in flight together
    None,         \* no goal, no repository
    MaxItems,     \* bound on queue items
    MaxTasks,     \* bound on tasks
    MaxCrashes,   \* bound on crashes of the server
    Faults        \* what the environment may do: a subset of FaultKinds

FaultKinds == {"cancel", "fail", "hold", "noEvidence", "worktree", "lock", "operator",
               "park", "supervisor"}

ASSUME PlanAssumption ==
    /\ None \notin Goals
    /\ MaxItems \in Nat /\ MaxTasks \in Nat /\ MaxCrashes \in Nat
    /\ Faults \subseteq FaultKinds
    /\ Plans \subseteq [Goals -> [repo: {"r1", "r2", None}, auto: BOOLEAN,
                                  kind: {"none", "goal", "task"}, on: Goals \cup {None},
                                  policy: {"completed_only", "terminal_any"}]]
    /\ \A p \in Plans, g \in Goals : p[g].kind # "none" => p[g].on \in Goals

VARIABLES
    plan,      \* the plan of this queue; it never changes
    queue,     \* state.goal_queue: items in the order of their position
    tasks,     \* state.tasks
    goals,     \* state.goals: the status and the task_id (0: none)
    starter,   \* the calls in flight
    owed,      \* tasks whose completion still has to run autoStartNextOnTaskCompleted
    crashes    \* how often the server has crashed

vars == <<plan, queue, tasks, goals, starter, owed, crashes>>

-----------------------------------------------------------------------------
Eligible == {"waiting", "ready"}                         \* ELIGIBLE_STATUSES
Held == {"waiting_for_review", "waiting_for_integration"}
Ended == {"completed", "failed", "blocked", "cancelled"} \* TERMINAL_STATUSES

\* "assigned" stands for "queued" and "waiting_for_lock" as well.
Working == {"assigned", "materializing_worktree", "running"}
TaskStatuses == Working \cup Held \cup Ended \cup {"waiting_for_supervisor"}

\* ACTIVE_TASK_STATUSES: a task whose worktree is being made is not among them.
Live == {"assigned", "running"} \cup Held

\* What a call of the worker is doing for a task, whatever its status says.
Runs == {"none", "begun", "codex", "merge"}

ItemStatuses == Eligible \cup Ended \cup Held \cup {"running"}

Idle == [at |-> "idle", kind |-> "tool", left |-> {}, item |-> 0, task |-> 0]

Reasons == {"none", "dependency", "worktree", "other"}

Items == [goal: Goals, on: 0..MaxTasks, status: ItemStatuses, task: 0..MaxTasks, reason: Reasons]
Tasks == [goal: Goals, status: TaskStatuses, run: Runs, done: BOOLEAN]
Calls == [at: {"idle", "list", "scan", "resolve", "run", "pick", "gates"},
          kind: {"worker", "tool", "tick"}, left: SUBSET (1..MaxItems),
          item: 0..MaxItems, task: 0..MaxTasks]

TypeOK ==
    /\ plan \in Plans
    /\ queue \in Seq(Items) /\ Len(queue) <= MaxItems
    /\ tasks \in Seq(Tasks) /\ Len(tasks) <= MaxTasks
    /\ goals \in [Goals -> [status: {"open"} \cup Ended, task: 0..MaxTasks]]
    /\ starter \in [Starters -> Calls]
    /\ owed \subseteq 1..MaxTasks
    /\ crashes \in 0..MaxCrashes

Init ==
    /\ plan \in Plans
    /\ queue = <<>>
    /\ tasks = <<>>
    /\ goals = [g \in Goals |-> [status |-> "open", task |-> 0]]
    /\ starter = [s \in Starters |-> Idle]
    /\ owed = {}
    /\ crashes = 0

-----------------------------------------------------------------------------
(* Gates.  An item depends on nothing, on a goal or on one task.           *)

PlanOf(i) == plan[queue[i].goal]

CompletedTasks(g) == {t \in DOMAIN tasks : tasks[t].goal = g /\ tasks[t].status = "completed"}

GoalStatus(g) ==
    IF CompletedTasks(g) # {} THEN "completed" ELSE goals[g].status

DependencyStatus(i) ==
    CASE PlanOf(i).kind = "goal" -> GoalStatus(PlanOf(i).on)
      [] PlanOf(i).kind = "task" -> tasks[queue[i].on].status
      [] PlanOf(i).kind = "none" -> "none"

CheckDependency(i) ==
    \/ PlanOf(i).kind = "none"
    \/ DependencyStatus(i) = "completed"
    \/ PlanOf(i).policy = "terminal_any" /\ DependencyStatus(i) \in Ended

CheckAcceptanceGate(i) ==
    PlanOf(i).kind = "task" => tasks[queue[i].on].status = "completed"

CheckRepoConcurrency(i) ==
    PlanOf(i).repo = None \/
    \A j \in DOMAIN queue \ {i} :
        queue[j].status = "running" => PlanOf(j).repo # PlanOf(i).repo

\* The reconciler asks more than the policy: the completed task behind the
\* dependency must carry a decision or evidence that lets dependents go.
EffectiveCompleted(i) ==
    CASE PlanOf(i).kind = "none" -> TRUE
      [] PlanOf(i).kind = "task" -> /\ tasks[queue[i].on].status = "completed"
                                    /\ tasks[queue[i].on].done
      [] PlanOf(i).kind = "goal" ->
            LET done == CompletedTasks(PlanOf(i).on)
            IN  done # {} /\ tasks[Max(done)].done

-----------------------------------------------------------------------------
(* The tools.                                                              *)

Marked(item, status, reason) ==
    [goal |-> item.goal, on |-> item.on, status |-> status, task |-> item.task, reason |-> reason]

SetItem(i, status, reason) == [queue EXCEPT ![i] = Marked(queue[i], status, reason)]

Unqueued(g) == \A i \in DOMAIN queue : queue[i].goal = g => queue[i].status = "cancelled"

\* ACTIVE_TASK_STATUSES_FOR_QUEUE leaves out the same status as createGoalTask.
LiveTasks(g) == {t \in DOMAIN tasks : tasks[t].goal = g /\ tasks[t].status \in Live}

\* An item that waits for a task is given the task of a goal that has one.
EnqueueGoal(g) ==
    /\ Len(queue) < MaxItems
    /\ Unqueued(g)
    /\ LiveTasks(g) = {}
    /\ plan[g].kind = "task" => goals[plan[g].on].task # 0
    /\ queue' = Append(queue,
         [goal |-> g, status |-> "waiting", task |-> 0, reason |-> "none",
          on |-> IF plan[g].kind = "task" THEN goals[plan[g].on].task ELSE 0])
    /\ UNCHANGED <<plan, tasks, goals, starter, owed, crashes>>

\* Only a running item is refused.
CancelGoalQueueItem(i) ==
    /\ "cancel" \in Faults
    /\ queue[i].status \notin {"running", "cancelled"}
    /\ queue' = SetItem(i, "cancelled", queue[i].reason)
    /\ UNCHANGED <<plan, tasks, goals, starter, owed, crashes>>

\* update_goal_queue_item, used as its description says: to unblock by hand.
UpdateGoalQueueItem(i) ==
    /\ "operator" \in Faults
    /\ queue[i].status = "blocked"
    /\ queue' = SetItem(i, "ready", queue[i].reason)
    /\ UNCHANGED <<plan, tasks, goals, starter, owed, crashes>>

-----------------------------------------------------------------------------
(* startNextQueuedGoal: the worker's, a tool's, or the end of a tick.      *)

Goto(s, at) == starter' = [starter EXCEPT ![s].at = at]
Return(s) == starter' = [starter EXCEPT ![s] = Idle]

\* Only "Worktree status unknown" matches a pattern: the typed reasons and
\* "repo concurrency" are written in other words.
RecheckTransientBlockedItems ==
    [i \in DOMAIN queue |->
        IF queue[i].status = "blocked" /\ queue[i].reason = "worktree" /\ CheckDependency(i)
        THEN Marked(queue[i], "waiting", "none")
        ELSE queue[i]]

BeginStart(s, kind) ==
    /\ starter[s].at = "idle"
    /\ queue' = RecheckTransientBlockedItems
    /\ starter' = [starter EXCEPT ![s].at = "list", ![s].kind = kind]
    /\ UNCHANGED <<plan, tasks, goals, owed, crashes>>

Candidates(kind, item) ==
    {i \in DOMAIN queue : /\ queue[i].status \in Eligible
                          /\ kind = "worker" => PlanOf(i).auto
                          /\ kind = "tick" => i = item}

First(items, i) == i \in items /\ \A j \in items : i <= j

\* The list is made once; the status of a candidate is not read again.
Remaining(s) ==
    IF starter[s].at = "list" THEN Candidates(starter[s].kind, starter[s].item)
                              ELSE starter[s].left

ScanEnds(s) ==
    /\ starter[s].at \in {"list", "scan"}
    /\ Remaining(s) = {}
    /\ Return(s)
    /\ UNCHANGED <<plan, queue, tasks, goals, owed, crashes>>

Scan(s, i, at) ==
    starter' = [starter EXCEPT ![s] =
        [at |-> at, kind |-> @.kind, left |-> Remaining(s) \ {i}, item |-> i, task |-> 0]]

ScanNextUngated(s) ==
    /\ starter[s].at \in {"list", "scan"}
    /\ \E i \in DOMAIN queue :
        /\ First(Remaining(s), i)
        /\ IF CheckRepoConcurrency(i)
           THEN Scan(s, i, "resolve") /\ UNCHANGED queue
           ELSE Scan(s, i, "scan") /\ queue' = SetItem(i, "blocked", "other")
    /\ UNCHANGED <<plan, tasks, goals, owed, crashes>>

ScanNext(s) ==
    /\ starter[s].at \in {"list", "scan"}
    /\ \E i \in DOMAIN queue :
        /\ First(Remaining(s), i)
        /\ IF CheckDependency(i) /\ CheckAcceptanceGate(i) /\ CheckRepoConcurrency(i)
           THEN Scan(s, i, "resolve") /\ UNCHANGED queue
           ELSE /\ Scan(s, i, "scan")
                /\ queue' = SetItem(i, "blocked",
                              IF CheckDependency(i) THEN "other" ELSE "dependency")
    /\ UNCHANGED <<plan, tasks, goals, owed, crashes>>

\* resolveQueueItemRepository answers that the worktree cannot be prepared.
ResolveFails(s) ==
    /\ "worktree" \in Faults
    /\ starter[s].at = "resolve"
    /\ queue' = SetItem(starter[s].item, "blocked", "worktree")
    /\ Goto(s, "scan")
    /\ UNCHANGED <<plan, tasks, goals, owed, crashes>>

\* Mutations of the store queue up: the next one waits until that of createGoalTask
\* is saved, and reads the file's time while the item is tied to the task.
MutationsFree == \A s \in Starters : starter[s].at # "run"

\* createGoalTask: one mutation, which takes the goal's task again if it is live.
\* A task that was cancelled, or whose worktree is being made, is not found, and
\* the goal gets a second one.
CreateGoalTask(s) ==
    LET g == queue[starter[s].item].goal
        reuse == goals[g].task # 0 /\ tasks[goals[g].task].status \in Live
        t == IF reuse THEN goals[g].task ELSE Len(tasks) + 1
    IN  /\ starter[s].at = "resolve" /\ MutationsFree
        /\ t <= MaxTasks
        /\ tasks' = IF reuse THEN tasks
                    ELSE Append(tasks, [goal |-> g, status |-> "assigned",
                                        run |-> "none", done |-> FALSE])
        /\ goals' = [goals EXCEPT ![g].task = t]
        /\ starter' = [starter EXCEPT ![s].at = "run", ![s].task = t]
        /\ UNCHANGED <<plan, queue, owed, crashes>>

\* A crash between the two leaves the task without its item.
RunItem(s) ==
    /\ starter[s].at = "run"
    /\ queue' = [queue EXCEPT ![starter[s].item] =
                  [goal |-> @.goal, on |-> @.on, status |-> "running",
                   task |-> starter[s].task, reason |-> "none"]]
    /\ Return(s)
    /\ UNCHANGED <<plan, tasks, goals, owed, crashes>>

-----------------------------------------------------------------------------
(* queueAutoAdvanceTick, run for a completed task.                         *)

ReconcileQueueAnyStatus ==
    [i \in DOMAIN queue |->
        IF queue[i].status # "running" /\ EffectiveCompleted(i)
        THEN Marked(queue[i], "ready", "none")
        ELSE queue[i]]

ReconcileQueueDependentsOnly ==
    [i \in DOMAIN queue |->
        IF queue[i].status = "blocked" /\ PlanOf(i).kind # "none" /\ EffectiveCompleted(i)
        THEN Marked(queue[i], "ready", "none")
        ELSE queue[i]]

\* reconcileQueue over all items, then the save and the reload.
ReconcileQueue ==
    [i \in DOMAIN queue |->
        CASE /\ queue[i].status \in Eligible
             /\ EffectiveCompleted(i) /\ CheckAcceptanceGate(i) ->
                 Marked(queue[i], "waiting", "none")
          [] queue[i].status = "blocked" /\ EffectiveCompleted(i) ->
                 Marked(queue[i], "ready", "none")
          [] OTHER -> queue[i]]

AutoStartNextOnTaskCompleted(s, t) ==
    /\ starter[s].at = "idle"
    /\ t \in owed
    /\ owed' = owed \ {t}
    /\ queue' = ReconcileQueue
    /\ starter' = [starter EXCEPT ![s].at = "pick", ![s].kind = "tick"]
    /\ UNCHANGED <<plan, tasks, goals, crashes>>

\* checkTypedEligibility of the first auto-start item, up to its first await.
\* A refused item ends the tick.
PickItem(s) ==
    /\ starter[s].at = "pick"
    /\ \E i \in DOMAIN queue :
        /\ First(Candidates("worker", 0), i)
        /\ IF /\ EffectiveCompleted(i) /\ CheckAcceptanceGate(i)
              /\ CheckDependency(i) /\ CheckRepoConcurrency(i)
           THEN /\ starter' = [starter EXCEPT ![s].at = "gates", ![s].item = i]
                /\ UNCHANGED queue
           ELSE Return(s) /\ queue' = SetItem(i, "blocked", "other")
    /\ UNCHANGED <<plan, tasks, goals, owed, crashes>>

NothingToPick(s) ==
    /\ starter[s].at = "pick"
    /\ Candidates("worker", 0) = {}
    /\ Return(s)
    /\ UNCHANGED <<plan, queue, tasks, goals, owed, crashes>>

\* The lock of a task outlives a crash until a start of the server frees it.
LocksHeld == \E t \in DOMAIN tasks : tasks[t].run = "codex" \/ tasks[t].status = "running"

GatesRefuseStale(s) ==
    /\ starter[s].at = "gates"
    /\ PlanOf(starter[s].item).repo # None
    /\ queue' = SetItem(starter[s].item, "blocked", "other")
    /\ Return(s)
    /\ UNCHANGED <<plan, tasks, goals, owed, crashes>>

\* The lock files and the canonical worktree are read; the item is not.
GatesRefuse(s) ==
    /\ starter[s].at = "gates"
    /\ \/ "lock" \in Faults /\ LocksHeld /\ PlanOf(starter[s].item).repo # None
       \/ "worktree" \in Faults
    /\ queue' = SetItem(starter[s].item, "blocked", "other")
    /\ Return(s)
    /\ UNCHANGED <<plan, tasks, goals, owed, crashes>>

GatesPass(s) ==
    /\ starter[s].at = "gates"
    /\ queue' = RecheckTransientBlockedItems
    /\ Goto(s, "list")
    /\ UNCHANGED <<plan, tasks, goals, owed, crashes>>

-----------------------------------------------------------------------------
(* The execution of a task (task-execution-runner.mjs).                    *)

SetTask(t, status, run, done) ==
    [tasks EXCEPT ![t] = [goal |-> @.goal, status |-> status, run |-> run, done |-> done]]

\* updateTask throws when the task has ended and is given a status that has not,
\* and the call that threw ends with markTaskFailed.
UpdateTask(t, status, run) ==
    IF tasks[t].status \in Ended /\ status \notin Ended
    THEN SetTask(t, "failed", "none", FALSE)
    ELSE SetTask(t, status, run, status = "completed")

\* A status that the call writes while it does what "from" says.
Step(t, from, status, to) ==
    /\ tasks[t].run = from
    /\ tasks' = UpdateTask(t, status, to)
    /\ UNCHANGED <<plan, queue, goals, starter, owed, crashes>>

BeginExecution(t) == tasks[t].status = "assigned" /\ Step(t, "none", "assigned", "begun")

MaterializeWorktree(t) ==
    tasks[t].status # "materializing_worktree" /\ Step(t, "begun", "materializing_worktree", "begun")

FailWorktree(t) == "worktree" \in Faults /\ Step(t, "begun", "failed", "none")

LockRefused(t) ==
    /\ "lock" \in Faults
    /\ \E u \in DOMAIN tasks \ {t} : tasks[u].run = "codex"
    /\ Step(t, "begun", "assigned", "none")

Dispatch(t) == Step(t, "begun", "running", "codex")

\* The session ends without a result: a retry or a review is arranged
\* (parkTaskForHealingRetry), the provider is missing, or it waits for a human.
LeaveSession(t) ==
    \/ "park" \in Faults /\ \E status \in {"assigned", "waiting_for_review"} :
                               Step(t, "codex", status, "none")
    \/ "fail" \in Faults /\ Step(t, "codex", "failed", "none")
    \/ "supervisor" \in Faults /\ Step(t, "codex", "waiting_for_supervisor", "none")

-----------------------------------------------------------------------------
(* Finalization, the worker's passes and a start of the server.            *)

FirstItem(items) == Min(items \cup {MaxItems + 1})

ItemsOf(t) == {i \in DOMAIN queue : queue[i].task = t \/ queue[i].goal = tasks[t].goal}

\* reconcileAcceptedQueuePropagation: the item of the task or of the goal
\* completes, and items blocked on the goal itself are freed.
Propagate(q, g, first) ==
    [i \in DOMAIN q |->
        CASE i = first -> Marked(q[i], "completed", "none")
          [] /\ i # first /\ q[i].status = "blocked" /\ q[i].reason = "dependency"
             /\ plan[q[i].goal].kind = "goal" /\ plan[q[i].goal].on = g ->
                 Marked(q[i], IF plan[q[i].goal].auto THEN "ready" ELSE "waiting", "none")
          [] OTHER -> q[i]]

\* mutateFinalTaskState: one mutation, which does not look at the status that the
\* task has by now.  The item takes the task's own status.
FinalizeTask(t, status, done, accepted) ==
    LET g == tasks[t].goal
        mine == FirstItem({i \in DOMAIN queue : \/ queue[i].task = t
                                                \/ queue[i].goal = g /\ queue[i].status = "running"})
        q == IF mine \in DOMAIN queue THEN SetItem(mine, status, "none") ELSE queue
        goalStatus == CASE status \in {"completed", "blocked"} -> status
                        [] status = "failed" /\ ~ (\E i \in DOMAIN queue :
                               queue[i].task = t /\ queue[i].status = "running") -> "failed"
                        [] OTHER -> "open"
    IN  /\ tasks[t].run = "codex" /\ MutationsFree
        /\ tasks' = SetTask(t, status, "none", done)
        /\ goals' = [goals EXCEPT ![g].status = goalStatus]
        /\ queue' = IF accepted
                    THEN Propagate(q, g, FirstItem(ItemsOf(t)))
                    ELSE q
        /\ owed' = IF status = "completed" THEN owed \cup {t} ELSE owed
        /\ UNCHANGED <<plan, starter, crashes>>

Finalize(t) ==
    \/ FinalizeTask(t, "completed", TRUE, TRUE)
    \/ "noEvidence" \in Faults /\ FinalizeTask(t, "completed", FALSE, FALSE)
    \/ "hold" \in Faults /\ \E status \in Held : FinalizeTask(t, status, FALSE, FALSE)
    \/ "fail" \in Faults /\ \E status \in {"failed", "blocked"} : FinalizeTask(t, status, FALSE, FALSE)

RecoverReviewEarly(t, integrated) ==
    LET mine == FirstItem(ItemsOf(t))
    IN  /\ tasks[t].status = "waiting_for_review" /\ MutationsFree
        /\ tasks' = IF integrated THEN SetTask(t, "completed", tasks[t].run, TRUE)
                                  ELSE SetTask(t, "waiting_for_integration", tasks[t].run, FALSE)
        /\ queue' = IF mine \in ItemsOf(t) THEN SetItem(mine, "completed", "none") ELSE queue
        /\ UNCHANGED <<plan, goals, starter, owed, crashes>>

\* recoverAcceptedVerifiedReviewTasks.  A task that still needs integration
\* waits for it, and its item is marked running again.
RecoverReview(t, integrated) ==
    LET mine == FirstItem(ItemsOf(t))
    IN  /\ tasks[t].status = "waiting_for_review" /\ MutationsFree
        /\ tasks' = IF integrated THEN SetTask(t, "completed", tasks[t].run, TRUE)
                                  ELSE SetTask(t, "waiting_for_integration", tasks[t].run, FALSE)
        /\ queue' = IF mine \in ItemsOf(t)
                    THEN SetItem(mine, IF integrated THEN "completed" ELSE "running", "none")
                    ELSE queue
        /\ UNCHANGED <<plan, goals, starter, owed, crashes>>

\* retryIntegrationForTask merges over many awaits, and then completes the task,
\* gives it to review or lets it wait on; it touches neither goal nor queue.
BeginRetry(t) ==
    tasks[t].status = "waiting_for_integration" /\ Step(t, "none", "waiting_for_integration", "merge")

EndRetry(t) ==
    \/ \E status \in Held \cup {"completed"} : Step(t, "merge", status, "none")
    \/ "fail" \in Faults /\ Step(t, "merge", "failed", "none")

\* update_task_status with "cancelled": neither the queue nor the execution is
\* looked at, and the execution goes on to its own last write.  (An operator who
\* takes back a completed task takes back what others waited for: not here.)
CancelTask(t) ==
    /\ "cancel" \in Faults
    /\ tasks[t].status \notin Ended
    /\ tasks' = SetTask(t, "cancelled", tasks[t].run, FALSE)
    /\ UNCHANGED <<plan, queue, goals, starter, owed, crashes>>

\* reconcileRunningTasks, for a task that the last server left running: by the
\* result file it finds, by the lock's reason, or to review.
ReconcileRunningTask(t) ==
    /\ tasks[t].status = "running" /\ tasks[t].run = "none"
    /\ \/ \E status \in {"completed", "failed"}, done \in BOOLEAN :
            /\ done => status = "completed"
            /\ tasks' = SetTask(t, status, "none", done)
            /\ goals' = [goals EXCEPT ![tasks[t].goal].status = status]
       \/ \E status \in {"waiting_for_review", "assigned"} :
            /\ tasks' = SetTask(t, status, "none", FALSE)
            /\ UNCHANGED goals
    /\ UNCHANGED <<plan, queue, starter, owed, crashes>>

QueueStatusForTaskStatusRaw(status) ==
    IF status \in Held THEN "linked task " \o status ELSE status

QueueStatusForTaskStatus(status) ==
    CASE status = "completed" -> "completed"
      [] status = "failed" -> "failed"
      [] status \in Held -> "blocked"
      [] OTHER -> "running"

ReconcileRunningQueueItems ==
    LET Linked(i) == queue[i].status = "running" /\ queue[i].task # 0
        After(i) == QueueStatusForTaskStatus(tasks[queue[i].task].status)
    IN  /\ MutationsFree
        /\ \E i \in DOMAIN queue : Linked(i) /\ After(i) # "running"
        /\ queue' = [i \in DOMAIN queue |->
             IF Linked(i) /\ After(i) # "running"
             THEN Marked(queue[i], After(i), IF After(i) = "blocked" THEN "other" ELSE "none")
             ELSE queue[i]]
        /\ UNCHANGED <<plan, tasks, goals, starter, owed, crashes>>

Crash ==
    /\ crashes < MaxCrashes
    /\ crashes' = crashes + 1
    /\ tasks' = [t \in DOMAIN tasks |-> [goal |-> tasks[t].goal, status |-> tasks[t].status,
                                         run |-> "none", done |-> tasks[t].done]]
    /\ starter' = [s \in Starters |-> Idle]
    /\ owed' = {}
    /\ UNCHANGED <<plan, queue, goals>>

-----------------------------------------------------------------------------
StarterStep(s) ==
    \/ ScanNext(s) \/ ScanEnds(s) \/ ResolveFails(s) \/ CreateGoalTask(s) \/ RunItem(s)
    \/ PickItem(s) \/ NothingToPick(s) \/ GatesRefuse(s) \/ GatesPass(s)

Execution(t) ==
    \/ BeginExecution(t) \/ MaterializeWorktree(t) \/ FailWorktree(t) \/ LockRefused(t)
    \/ Dispatch(t) \/ LeaveSession(t) \/ Finalize(t)

Next ==
    \/ \E g \in Goals : EnqueueGoal(g)
    \/ \E i \in DOMAIN queue : CancelGoalQueueItem(i) \/ UpdateGoalQueueItem(i)
    \/ \E s \in Starters :
        \/ \E kind \in {"worker", "tool"} : BeginStart(s, kind)
        \/ \E t \in owed : AutoStartNextOnTaskCompleted(s, t)
        \/ StarterStep(s)
    \/ \E t \in DOMAIN tasks :
        \/ Execution(t) \/ BeginRetry(t) \/ EndRetry(t)
        \/ CancelTask(t) \/ ReconcileRunningTask(t)
        \/ \E integrated \in BOOLEAN : RecoverReview(t, integrated)
    \/ ReconcileRunningQueueItems
    \/ Crash

Spec == Init /\ [][Next]_vars

\* The worker's tick starts items and executions and mirrors ended tasks, a call
\* that began goes on, a session ends, and its finalization runs the tick it owes.
Fairness ==
    /\ \A s \in Starters :
        /\ WF_vars(StarterStep(s))
        /\ SF_vars(BeginStart(s, "worker"))
        /\ SF_vars(\E t \in owed : AutoStartNextOnTaskCompleted(s, t))
    /\ WF_vars(ReconcileRunningQueueItems)
    /\ \A t \in 1..MaxTasks :
        /\ WF_vars(t \in DOMAIN tasks /\ BeginExecution(t))
        /\ WF_vars(t \in DOMAIN tasks /\ Dispatch(t))
        /\ WF_vars(t \in DOMAIN tasks /\ Finalize(t))

LiveSpec == Spec /\ Fairness

-----------------------------------------------------------------------------
(* Properties.                                                             *)

\* No item is ever reported done without work that is: whatever finalizations,
\* recoveries and mirrors of duplicate, cancelled or recovered tasks interleave,
\* the goal of a completed item has a completed task.
ItemDoneHasTask ==
    \A i \in DOMAIN queue : queue[i].status = "completed" => CompletedTasks(queue[i].goal) # {}

\* A failed or unfinished prerequisite never lets an item run: what the gates
\* found before the awaits still holds when the task is there.
StartsAfterDependency ==
    [][\A i \in DOMAIN queue :
        /\ queue[i].status # "running" /\ queue'[i].status = "running"
        /\ queue'[i].task # 0 /\ tasks[queue'[i].task].status \in Working
        => CheckDependency(i) /\ CheckAcceptanceGate(i)]_vars

\* The work of an item is done once: with one start at a time, and when no crash,
\* no recovered review and no item that comes back after its cancellation
\* intervenes, a completed item is not started again.
DoneOnce ==
    [][\A i \in DOMAIN queue :
        queue[i].status = "completed" => queue'[i].status \in {"completed", "cancelled"}]_vars

\* No wake-up is lost: an item that is blocked although all it waits for is done
\* will be freed by a tick that is owed, or by one that a task at work will owe.
NoWakeupLost ==
    \A i \in DOMAIN queue :
        queue[i].status = "blocked" /\ EffectiveCompleted(i) =>
            owed # {} \/ \E t \in DOMAIN tasks : tasks[t].status \in Working

\* As long as nothing fails and nothing is cancelled, every item that starts by
\* itself is run once its dependency is queued, however starts, ticks and
\* finalizations interleave.
Calm ==
    /\ \A t \in DOMAIN tasks : tasks[t].status \in Working \cup {"completed"}
    /\ \A i \in DOMAIN queue : queue[i].status # "cancelled"

Queued(g) == \E i \in DOMAIN queue : queue[i].goal = g
Started(g) == \E i \in DOMAIN queue :
                  queue[i].goal = g /\ queue[i].status \in {"running", "completed"}

QueueDrains ==
    \A g \in Goals :
        []Calm => ((/\ Queued(g) /\ plan[g].auto
                    /\ plan[g].kind # "none" => Queued(plan[g].on)) ~> Started(g))
=============================================================================
