-------------------------- MODULE GoalQueueProofs --------------------------
(***************************************************************************)
(* What holds of the goal queue for every set of goals, plans and starters *)
(* and for queues and task lists of any bounded length.                    *)
(***************************************************************************)
EXTENDS GoalQueue, TLAPS

(***************************************************************************)
(* The invariant.  A call of the worker that executes a task may find it   *)
(* cancelled and nothing else, so no call takes back what is completed.    *)
(***************************************************************************)
ItemRefs ==
    \A i \in DOMAIN queue : queue[i].task # 0 => queue[i].task \in DOMAIN tasks

CallRefs ==
    \A s \in Starters :
        /\ starter[s].at \in {"resolve", "run", "gates"} => starter[s].item \in DOMAIN queue
        /\ starter[s].at = "run" => starter[s].task \in DOMAIN tasks

GoalRefs ==
    \A g \in Goals : goals[g].task # 0 => goals[g].task \in DOMAIN tasks

RunFits(status, run) ==
    /\ run = "begun" => status \in {"assigned", "materializing_worktree", "cancelled"}
    /\ run = "codex" => status \in {"running", "cancelled"}
    /\ run = "merge" => status \in {"waiting_for_integration", "cancelled"}

RunsFit == \A t \in DOMAIN tasks : RunFits(tasks[t].status, tasks[t].run)

IInv == TypeOK /\ ItemRefs /\ CallRefs /\ GoalRefs /\ RunsFit

-----------------------------------------------------------------------------
(* Sequences rewritten in place.                                           *)

LEMMA SeqOfFunction ==
  ASSUME NEW S, NEW n \in Nat, NEW q \in [1..n -> S]
  PROVE  q \in Seq(S) /\ Len(q) = n
OBVIOUS

Rewrites ==
    /\ queue' = [i \in DOMAIN queue |-> queue'[i]]
    /\ \A i \in DOMAIN queue :
          \/ queue'[i] = queue[i]
          \/ \E status \in ItemStatuses, reason \in Reasons :
                queue'[i] = Marked(queue[i], status, reason)

QueueKept ==
    /\ queue' \in Seq(Items) /\ Len(queue') = Len(queue) /\ DOMAIN queue' = DOMAIN queue
    /\ \A i \in DOMAIN queue : /\ queue'[i].task = queue[i].task
                               /\ queue'[i].goal = queue[i].goal /\ queue'[i].on = queue[i].on

\* Items that only change their status and reason keep the rest, and stay items.
LEMMA RewritesKeep == ASSUME TypeOK, Rewrites PROVE QueueKept
<1>1. DOMAIN queue = 1..Len(queue) /\ Len(queue) \in Nat
  BY DEF TypeOK
<1>2. \A i \in DOMAIN queue : queue[i] \in Items
  BY DEF TypeOK
<1>3. \A i \in DOMAIN queue : /\ queue'[i] \in Items /\ queue'[i].task = queue[i].task
                            /\ queue'[i].goal = queue[i].goal /\ queue'[i].on = queue[i].on
  BY <1>2 DEF Rewrites, Marked, Items
<1>4. queue' \in [1..Len(queue) -> Items]
  BY <1>1, <1>3 DEF Rewrites
<1>5. queue' \in Seq(Items) /\ Len(queue') = Len(queue)
  BY <1>1, <1>4
<1>6. QED
  BY <1>1, <1>3, <1>4, <1>5 DEF QueueKept

\* Setting one item is a rewrite.
LEMMA SetItemRewrites ==
  ASSUME TypeOK, NEW i \in DOMAIN queue, NEW status \in ItemStatuses, NEW reason \in Reasons,
         queue' = SetItem(i, status, reason)
  PROVE  Rewrites
BY DEF TypeOK, SetItem, Rewrites

\* A task keeps its goal, no task comes back to work and none that is completed
\* is anything else again.
TasksKept ==
    /\ tasks' \in Seq(Tasks) /\ Len(tasks') = Len(tasks) /\ DOMAIN tasks' = DOMAIN tasks
    /\ \A t \in DOMAIN tasks : /\ tasks'[t].goal = tasks[t].goal
                               /\ tasks'[t].status \in Working => tasks[t].status \in Working
                               /\ tasks[t].status = "completed" => tasks'[t].status = "completed"
                               /\ RunFits(tasks'[t].status, tasks'[t].run)

LEMMA SameTasksKept == ASSUME IInv, UNCHANGED tasks PROVE TasksKept
BY DEF TasksKept, IInv, TypeOK, RunsFit

LEMMA StatusKeeps ==
  ASSUME IInv, NEW t \in DOMAIN tasks, NEW status \in TaskStatuses, NEW run \in Runs,
         NEW done \in BOOLEAN, tasks' = SetTask(t, status, run, done),
         status \in Working => tasks[t].status \in Working,
         tasks[t].status = "completed" => status = "completed", RunFits(status, run)
  PROVE  TasksKept
<1>. DEFINE k == [goal |-> tasks[t].goal, status |-> status, run |-> run, done |-> done]
<1>0. tasks' = [tasks EXCEPT ![t] = k]
  BY DEF SetTask
<1>9. k \in Tasks /\ k.goal = tasks[t].goal /\ k.status = status /\ k.run = run
  <2>1. tasks[t] \in Tasks
    BY DEF IInv, TypeOK
  <2>2. QED
    BY <2>1 DEF Tasks
<1> HIDE DEF k
<1>1. DOMAIN tasks = 1..Len(tasks) /\ Len(tasks) \in Nat
  BY DEF IInv, TypeOK
<1>2. \A u \in DOMAIN tasks : tasks[u] \in Tasks
  BY DEF IInv, TypeOK
<1>3. tasks' = [u \in 1..Len(tasks) |-> IF u = t THEN k ELSE tasks[u]]
  BY <1>0, <1>1
<1>4. tasks' \in [1..Len(tasks) -> Tasks]
  BY <1>1, <1>2, <1>3, <1>9
<1>5. tasks' \in Seq(Tasks) /\ Len(tasks') = Len(tasks)
  <2>1. PICK q : q = tasks'
    OBVIOUS
  <2>2. q \in [1..Len(tasks) -> Tasks]
    BY <1>4, <2>1
  <2>3. QED
    BY <1>1, <2>1, <2>2, SeqOfFunction
<1>6. \A u \in DOMAIN tasks : tasks'[u] = IF u = t THEN k ELSE tasks[u]
  BY <1>1, <1>3
<1>7. DOMAIN tasks' = DOMAIN tasks
  BY <1>1, <1>3
<1>8. QED
  BY <1>5, <1>6, <1>7, <1>9 DEF TasksKept, IInv, RunsFit

-----------------------------------------------------------------------------
(* What a step leaves alone, for the groups of actions that touch the same *)
(* variables.                                                              *)

\* Items and tasks are never dropped, an item never changes what it waits for,
\* what is completed stays so and what ended is not at work again.
Grows ==
    /\ plan' = plan
    /\ \A i \in DOMAIN queue : /\ i \in DOMAIN queue'
                               /\ queue'[i].goal = queue[i].goal /\ queue'[i].on = queue[i].on
    /\ \A t \in DOMAIN tasks : /\ t \in DOMAIN tasks' /\ tasks'[t].goal = tasks[t].goal
                               /\ tasks'[t].status \in Working => tasks[t].status \in Working
                               /\ tasks[t].status = "completed" => tasks'[t].status = "completed"

CallsTyped ==
    /\ starter' \in [Starters -> Calls]
    /\ \A s \in Starters :
          /\ starter'[s].at \in {"resolve", "run", "gates"} => starter'[s].item \in DOMAIN queue
          /\ starter'[s].at = "run" => starter'[s].task \in DOMAIN tasks

\* A step that moves calls, rewrites items and keeps the tasks.
LEMMA TaskStepKeeps ==
  ASSUME IInv, CallsTyped, TasksKept, UNCHANGED queue \/ Rewrites, plan' = plan,
         goals' \in [Goals -> [status: {"open"} \cup Ended, task: 0..MaxTasks]],
         \A g \in Goals : goals'[g].task = goals[g].task,
         owed' \subseteq 1..MaxTasks, crashes' \in 0..MaxCrashes
  PROVE  IInv' /\ Grows
<1>1. QueueKept
  BY RewritesKeep DEF IInv, TypeOK, QueueKept
<1>2. TypeOK'
  BY <1>1 DEF IInv, TypeOK, QueueKept, TasksKept, CallsTyped
<1>3. ItemRefs'
  BY <1>1 DEF IInv, ItemRefs, QueueKept, TasksKept
<1>4. CallRefs'
  BY <1>1 DEF IInv, CallRefs, QueueKept, CallsTyped, TasksKept
<1>5. GoalRefs'
  BY DEF IInv, GoalRefs, TasksKept
<1>6. RunsFit'
  BY DEF RunsFit, TasksKept
<1>7. Grows
  BY <1>1 DEF Grows, QueueKept, TasksKept
<1>8. QED
  BY <1>2, <1>3, <1>4, <1>5, <1>6, <1>7 DEF IInv

\* A step that moves calls and rewrites items, and nothing else.
LEMMA CallStepKeeps ==
  ASSUME IInv, CallsTyped, UNCHANGED queue \/ Rewrites, UNCHANGED <<plan, tasks, goals>>,
         owed' \subseteq owed, crashes' \in 0..MaxCrashes
  PROVE  IInv' /\ Grows
<1>1. owed' \subseteq 1..MaxTasks
  BY DEF IInv, TypeOK
<1>2. goals' \in [Goals -> [status: {"open"} \cup Ended, task: 0..MaxTasks]]
  BY DEF IInv, TypeOK
<1>3. QED
  BY <1>1, <1>2, SameTasksKept, TaskStepKeeps

LEMMA IdleIsCall == Idle \in Calls
BY PlanAssumption DEF Idle, Calls

\* A call that returns is typed as well as the others are.
LEMMA ReturnTyped ==
  ASSUME IInv, NEW s \in Starters, Return(s)
  PROVE  CallsTyped
<1>1. starter' \in [Starters -> Calls]
  BY IdleIsCall DEF IInv, TypeOK, Return
<1>2. \A u \in Starters : starter'[u] = starter[u] \/ starter'[u] = Idle
  BY DEF IInv, TypeOK, Return
<1>3. Idle.at = "idle"
  BY DEF Idle
<1>4. QED
  BY <1>1, <1>2, <1>3 DEF CallsTyped, IInv, CallRefs

\* A call that goes on with an item of the queue.
LEMMA MoveTyped ==
  ASSUME IInv, NEW s \in Starters, NEW c \in Calls,
         c.at \in {"resolve", "run", "gates"} => c.item \in DOMAIN queue,
         c.at = "run" => c.task \in DOMAIN tasks,
         starter' = [starter EXCEPT ![s] = c]
  PROVE  CallsTyped
BY DEF CallsTyped, IInv, TypeOK, CallRefs

-----------------------------------------------------------------------------
(* The tools.                                                              *)

LEMMA EnqueueKeeps ==
  ASSUME IInv, NEW g \in Goals, EnqueueGoal(g)
  PROVE  IInv' /\ Grows
<1>. DEFINE on == IF plan[g].kind = "task" THEN goals[plan[g].on].task ELSE 0
            item == [goal |-> g, status |-> "waiting", task |-> 0, reason |-> "none", on |-> on]
<1>1. plan \in [Goals -> [repo: {"r1", "r2", None}, auto : BOOLEAN,
                          kind: {"none", "goal", "task"}, on: Goals \cup {None},
                          policy: {"completed_only", "terminal_any"}]]
      /\ (plan[g].kind # "none" => plan[g].on \in Goals)
  BY PlanAssumption DEF IInv, TypeOK
<1>2. \A h \in Goals : goals[h].task \in 0..MaxTasks
  BY DEF IInv, TypeOK
<1>3. on \in 0..MaxTasks
  BY <1>1, <1>2, PlanAssumption
<1>4. item \in Items
  BY <1>3, PlanAssumption DEF Items, ItemStatuses, Eligible, Reasons
<1>5. queue' = Append(queue, item) /\ Len(queue) < MaxItems
  BY DEF EnqueueGoal
<1>6. queue \in Seq(Items) /\ Len(queue) \in Nat
  BY DEF IInv, TypeOK
<1> HIDE DEF item
<1>7. /\ queue' \in Seq(Items) /\ Len(queue') = Len(queue) + 1
      /\ \A i \in DOMAIN queue : i \in DOMAIN queue' /\ queue'[i] = queue[i]
      /\ \A i \in DOMAIN queue' : i \in DOMAIN queue \/ queue'[i] = item
  BY <1>4, <1>5, <1>6
<1>8. TypeOK'
  BY <1>5, <1>6, <1>7, PlanAssumption DEF IInv, TypeOK, EnqueueGoal
<1>9. item.task = 0
  BY DEF item
<1>10. ItemRefs'
  BY <1>7, <1>9 DEF IInv, ItemRefs, EnqueueGoal
<1>11. CallRefs' /\ GoalRefs' /\ RunsFit'
  BY <1>7 DEF IInv, CallRefs, GoalRefs, RunsFit, EnqueueGoal
<1>12. Grows
  BY <1>7 DEF Grows, EnqueueGoal
<1>13. QED
  BY <1>8, <1>10, <1>11, <1>12 DEF IInv

\* The three steps of the operator and the worker that rewrite items only.
LEMMA StarterUnchangedTyped ==
  ASSUME IInv, UNCHANGED starter
  PROVE  CallsTyped
BY DEF CallsTyped, IInv, TypeOK, CallRefs

LEMMA CancelItemKeeps ==
  ASSUME IInv, NEW i \in DOMAIN queue, CancelGoalQueueItem(i)
  PROVE  IInv' /\ Grows
<1>1. queue[i] \in Items
  BY DEF IInv, TypeOK
<1>2. queue[i].reason \in Reasons /\ "cancelled" \in ItemStatuses
  BY <1>1 DEF Items, ItemStatuses, Ended
<1>3. Rewrites
  BY <1>2, SetItemRewrites DEF IInv, CancelGoalQueueItem
<1>4. QED
  BY <1>3, StarterUnchangedTyped, CallStepKeeps DEF CancelGoalQueueItem, IInv, TypeOK

LEMMA UpdateItemKeeps ==
  ASSUME IInv, NEW i \in DOMAIN queue, UpdateGoalQueueItem(i)
  PROVE  IInv' /\ Grows
<1>1. queue[i] \in Items
  BY DEF IInv, TypeOK
<1>2. queue[i].reason \in Reasons /\ "ready" \in ItemStatuses
  BY <1>1 DEF Items, ItemStatuses, Eligible
<1>3. Rewrites
  BY <1>2, SetItemRewrites DEF IInv, UpdateGoalQueueItem
<1>4. QED
  BY <1>3, StarterUnchangedTyped, CallStepKeeps DEF UpdateGoalQueueItem, IInv, TypeOK

LEMMA ReconcileRunningKeeps ==
  ASSUME IInv, ReconcileRunningQueueItems
  PROVE  IInv' /\ Grows
<1>. DEFINE After(i) == QueueStatusForTaskStatus(tasks[queue[i].task].status)
            Linked(i) == queue[i].status = "running" /\ queue[i].task # 0
<1>1. queue' = [i \in DOMAIN queue |->
             IF Linked(i) /\ After(i) # "running"
             THEN Marked(queue[i], After(i), IF After(i) = "blocked" THEN "other" ELSE "none")
             ELSE queue[i]]
  BY DEF ReconcileRunningQueueItems
<1>2. ASSUME NEW i \in DOMAIN queue, Linked(i)
      PROVE  After(i) \in ItemStatuses
  <2>1. queue[i].task \in DOMAIN tasks
    BY <1>2 DEF IInv, ItemRefs
  <2>2. tasks[queue[i].task] \in Tasks
    BY <2>1 DEF IInv, TypeOK
  <2>3. PICK status \in TaskStatuses : status = tasks[queue[i].task].status
    BY <2>2 DEF Tasks
  <2>4. QueueStatusForTaskStatus(status) \in {"completed", "failed", "blocked", "running"}
    BY DEF QueueStatusForTaskStatus
  <2>5. QED
    BY <2>3, <2>4 DEF ItemStatuses, Ended
<1> HIDE DEF After, Linked
<1>3. Rewrites
  BY <1>1, <1>2 DEF Rewrites, Reasons
<1>4. UNCHANGED <<plan, tasks, goals, starter, owed, crashes>>
  BY DEF ReconcileRunningQueueItems
<1>5. QED
  BY <1>3, <1>4, StarterUnchangedTyped, CallStepKeeps DEF IInv, TypeOK

-----------------------------------------------------------------------------
(* Starts and ticks.                                                       *)

LEMMA DomainBound == ASSUME IInv PROVE DOMAIN queue \subseteq 1..MaxItems
<1>1. DOMAIN queue = 1..Len(queue) /\ Len(queue) \in Nat /\ Len(queue) <= MaxItems
  BY DEF IInv, TypeOK
<1>2. QED
  BY <1>1, PlanAssumption

LEMMA RecheckRewrites ==
  ASSUME IInv, queue' = RecheckTransientBlockedItems
  PROVE  Rewrites
BY DEF Rewrites, RecheckTransientBlockedItems, ItemStatuses, Eligible, Reasons

LEMMA BeginStartKeeps ==
  ASSUME IInv, NEW s \in Starters, NEW kind \in {"worker", "tool"}, BeginStart(s, kind)
  PROVE  IInv' /\ Grows
<1>1. Rewrites
  BY RecheckRewrites DEF BeginStart
<1>2. starter' = [starter EXCEPT ![s].at = "list", ![s].kind = kind]
  BY DEF BeginStart
<1>3. starter' \in [Starters -> Calls]
  BY <1>2 DEF IInv, TypeOK, Calls
<1>4. starter'[s].at = "list" /\ \A u \in Starters \ {s} : starter'[u] = starter[u]
  BY <1>2 DEF IInv, TypeOK, Calls
<1>5. CallsTyped
  BY <1>3, <1>4 DEF CallsTyped, IInv, CallRefs
<1>6. QED
  BY <1>1, <1>5, CallStepKeeps DEF BeginStart, IInv, TypeOK

LEMMA ScanEndsKeeps ==
  ASSUME IInv, NEW s \in Starters, ScanEnds(s)
  PROVE  IInv' /\ Grows
BY ReturnTyped, CallStepKeeps DEF ScanEnds, IInv, TypeOK

LEMMA NothingToPickKeeps ==
  ASSUME IInv, NEW s \in Starters, NothingToPick(s)
  PROVE  IInv' /\ Grows
BY ReturnTyped, CallStepKeeps DEF NothingToPick, IInv, TypeOK

\* Only items of the queue are ever left to look at.
LEMMA RemainingBound ==
  ASSUME IInv, NEW s \in Starters
  PROVE  Remaining(s) \subseteq 1..MaxItems
<1>1. starter[s] \in Calls
  BY DEF IInv, TypeOK
<1>2. starter[s].left \subseteq 1..MaxItems
  BY <1>1 DEF Calls
<1>3. QED
  BY <1>2, DomainBound DEF Remaining, Candidates

LEMMA ScanTyped ==
  ASSUME IInv, NEW s \in Starters, NEW i \in DOMAIN queue, NEW at \in {"scan", "resolve"},
         Scan(s, i, at)
  PROVE  CallsTyped
<1>1. PICK left \in SUBSET (1..MaxItems) : left = Remaining(s) \ {i}
  BY RemainingBound
<1>3. i \in 0..MaxItems
  BY DomainBound, PlanAssumption
<1>4. starter[s] \in Calls
  BY DEF IInv, TypeOK
<1>5. PICK c : c = [at |-> at, kind |-> starter[s].kind, left |-> left, item |-> i, task |-> 0]
  OBVIOUS
<1>6. c \in Calls
  BY <1>3, <1>4, <1>5, PlanAssumption DEF Calls
<1>7. starter' = [starter EXCEPT ![s] = c]
  BY <1>1, <1>5 DEF Scan
<1>8. QED
  BY <1>5, <1>6, <1>7, MoveTyped

LEMMA ScanNextKeeps ==
  ASSUME IInv, NEW s \in Starters, ScanNext(s)
  PROVE  IInv' /\ Grows
<1>1. PICK i \in DOMAIN queue :
        \/ Scan(s, i, "resolve") /\ UNCHANGED queue
        \/ /\ Scan(s, i, "scan")
           /\ queue' = SetItem(i, "blocked", IF CheckDependency(i) THEN "other" ELSE "dependency")
  BY DEF ScanNext
<1>2. CallsTyped
  BY <1>1, ScanTyped
<1>3. UNCHANGED queue \/ Rewrites
  <2>1. PICK reason \in Reasons : reason = IF CheckDependency(i) THEN "other" ELSE "dependency"
    BY DEF Reasons
  <2>2. "blocked" \in ItemStatuses
    BY DEF ItemStatuses, Ended
  <2>3. QED
    BY <1>1, <2>1, <2>2, SetItemRewrites DEF IInv
<1>4. UNCHANGED <<plan, tasks, goals, owed, crashes>>
  BY DEF ScanNext
<1>5. QED
  BY <1>2, <1>3, <1>4, CallStepKeeps DEF IInv, TypeOK

\* A call that keeps its item and moves on to a place with less to know.
LEMMA GotoTyped ==
  ASSUME IInv, NEW s \in Starters, NEW at \in {"scan", "list"}, Goto(s, at)
  PROVE  CallsTyped
<1>1. starter' \in [Starters -> Calls]
  BY DEF Goto, IInv, TypeOK, Calls
<1>2. starter'[s].at = at /\ \A u \in Starters \ {s} : starter'[u] = starter[u]
  BY DEF Goto, IInv, TypeOK, Calls
<1>3. QED
  BY <1>1, <1>2 DEF CallsTyped, IInv, CallRefs

LEMMA ResolveFailsKeeps ==
  ASSUME IInv, NEW s \in Starters, ResolveFails(s)
  PROVE  IInv' /\ Grows
<1>1. PICK i \in DOMAIN queue : i = starter[s].item
  BY DEF ResolveFails, IInv, CallRefs
<1>2. Rewrites
  BY <1>1, SetItemRewrites DEF ResolveFails, IInv, ItemStatuses, Ended, Reasons
<1>3. CallsTyped
  BY GotoTyped DEF ResolveFails
<1>4. QED
  BY <1>2, <1>3, CallStepKeeps DEF ResolveFails, IInv, TypeOK

LEMMA GatesRefuseKeeps ==
  ASSUME IInv, NEW s \in Starters, GatesRefuse(s)
  PROVE  IInv' /\ Grows
<1>1. PICK i \in DOMAIN queue : i = starter[s].item
  BY DEF GatesRefuse, IInv, CallRefs
<1>2. Rewrites
  BY <1>1, SetItemRewrites DEF GatesRefuse, IInv, ItemStatuses, Ended, Reasons
<1>3. CallsTyped
  BY ReturnTyped DEF GatesRefuse
<1>4. QED
  BY <1>2, <1>3, CallStepKeeps DEF GatesRefuse, IInv, TypeOK

LEMMA GatesPassKeeps ==
  ASSUME IInv, NEW s \in Starters, GatesPass(s)
  PROVE  IInv' /\ Grows
<1>1. Rewrites
  BY RecheckRewrites DEF GatesPass
<1>2. CallsTyped
  BY GotoTyped DEF GatesPass
<1>3. QED
  BY <1>1, <1>2, CallStepKeeps DEF GatesPass, IInv, TypeOK

LEMMA PickItemKeeps ==
  ASSUME IInv, NEW s \in Starters, PickItem(s)
  PROVE  IInv' /\ Grows
<1>1. PICK i \in DOMAIN queue :
        \/ starter' = [starter EXCEPT ![s].at = "gates", ![s].item = i] /\ UNCHANGED queue
        \/ Return(s) /\ queue' = SetItem(i, "blocked", "other")
  BY DEF PickItem
<1>2. UNCHANGED <<plan, tasks, goals, owed, crashes>>
  BY DEF PickItem
<1>3. CASE starter' = [starter EXCEPT ![s].at = "gates", ![s].item = i] /\ UNCHANGED queue
  <2>1. i \in 0..MaxItems
    BY DomainBound, PlanAssumption
  <2>2. starter' \in [Starters -> Calls]
    BY <1>3, <2>1 DEF IInv, TypeOK, Calls
  <2>3. /\ starter'[s].at = "gates" /\ starter'[s].item = i
        /\ \A u \in Starters \ {s} : starter'[u] = starter[u]
    BY <1>3 DEF IInv, TypeOK, Calls
  <2>4. CallsTyped
    BY <2>2, <2>3 DEF CallsTyped, IInv, CallRefs
  <2>5. QED
    BY <1>2, <1>3, <2>4, CallStepKeeps DEF IInv, TypeOK
<1>4. CASE Return(s) /\ queue' = SetItem(i, "blocked", "other")
  <2>1. Rewrites
    BY <1>4, SetItemRewrites DEF IInv, ItemStatuses, Ended, Reasons
  <2>2. CallsTyped
    BY <1>4, ReturnTyped
  <2>3. QED
    BY <1>2, <2>1, <2>2, CallStepKeeps DEF IInv, TypeOK
<1>5. QED
  BY <1>1, <1>3, <1>4

LEMMA TickKeeps ==
  ASSUME IInv, NEW s \in Starters, NEW t \in owed, AutoStartNextOnTaskCompleted(s, t)
  PROVE  IInv' /\ Grows
<1>1. Rewrites
  BY DEF AutoStartNextOnTaskCompleted, ReconcileQueue, Rewrites, ItemStatuses, Eligible, Reasons
<1>2. starter' = [starter EXCEPT ![s].at = "pick", ![s].kind = "tick"]
  BY DEF AutoStartNextOnTaskCompleted
<1>3. starter' \in [Starters -> Calls]
  BY <1>2 DEF IInv, TypeOK, Calls
<1>4. starter'[s].at = "pick" /\ \A u \in Starters \ {s} : starter'[u] = starter[u]
  BY <1>2 DEF IInv, TypeOK, Calls
<1>5. CallsTyped
  BY <1>3, <1>4 DEF CallsTyped, IInv, CallRefs
<1>6. QED
  BY <1>1, <1>5, CallStepKeeps DEF AutoStartNextOnTaskCompleted, IInv, TypeOK

LEMMA CrashKeeps == ASSUME IInv, Crash PROVE IInv' /\ Grows
<1>1. CallsTyped
  BY IdleIsCall DEF Crash, CallsTyped, Idle
<1>2. crashes' \in 0..MaxCrashes
  BY PlanAssumption DEF Crash, IInv, TypeOK
<1>3. /\ tasks \in Seq(Tasks) /\ DOMAIN tasks = 1..Len(tasks) /\ Len(tasks) \in Nat
      /\ \A t \in DOMAIN tasks : tasks[t] \in Tasks
  BY DEF IInv, TypeOK
<1>. DEFINE after(t) == [goal |-> tasks[t].goal, status |-> tasks[t].status,
                         run |-> "none", done |-> tasks[t].done]
<1>4. tasks' = [t \in DOMAIN tasks |-> after(t)]
  BY DEF Crash
<1>5. \A t \in DOMAIN tasks : /\ after(t) \in Tasks /\ after(t).goal = tasks[t].goal
                              /\ after(t).status = tasks[t].status /\ after(t).run = "none"
  BY <1>3 DEF Tasks, Runs
<1> HIDE DEF after
<1>6. DOMAIN tasks' = DOMAIN tasks /\ \A t \in DOMAIN tasks : tasks'[t] = after(t)
  BY <1>4
<1>7. tasks' \in Seq(Tasks) /\ Len(tasks') = Len(tasks)
  <2>1. PICK q : q = tasks'
    OBVIOUS
  <2>2. q \in [1..Len(tasks) -> Tasks]
    BY <1>3, <1>4, <1>5, <2>1
  <2>3. QED
    BY <1>3, <2>1, <2>2, SeqOfFunction
<1>8. TasksKept
  BY <1>5, <1>6, <1>7 DEF TasksKept, RunFits
<1>9. UNCHANGED <<plan, queue, goals>> /\ owed' = {}
  BY DEF Crash
<1>10. goals' \in [Goals -> [status: {"open"} \cup Ended, task: 0..MaxTasks]]
  BY <1>9 DEF IInv, TypeOK
<1>11. QED
  BY <1>1, <1>2, <1>8, <1>9, <1>10, TaskStepKeeps

\* createGoalTask: the goal's task is taken again, or the goal gets a new one.
LEMMA CreateGoalTaskKeeps ==
  ASSUME IInv, NEW s \in Starters, CreateGoalTask(s)
  PROVE  IInv' /\ Grows
<1>1. PICK i \in DOMAIN queue : i = starter[s].item
  BY DEF CreateGoalTask, IInv, CallRefs
<1>2. queue[i] \in Items
  BY DEF IInv, TypeOK
<1>3. PICK g \in Goals : g = queue[i].goal
  BY <1>2 DEF Items
<1>4. /\ goals[g] \in [status: {"open"} \cup Ended, task: 0..MaxTasks]
      /\ tasks \in Seq(Tasks) /\ Len(tasks) \in Nat /\ DOMAIN tasks = 1..Len(tasks)
  BY DEF IInv, TypeOK
<1>5. goals[g].task \in 0..MaxTasks /\ (goals[g].task # 0 => goals[g].task \in DOMAIN tasks)
  BY <1>4 DEF IInv, GoalRefs
<1>. DEFINE reuse == goals[g].task # 0 /\ tasks[goals[g].task].status \in Live
            new == [goal |-> g, status |-> "assigned", run |-> "none", done |-> FALSE]
<1>6. PICK t : t = IF reuse THEN goals[g].task ELSE Len(tasks) + 1
  OBVIOUS
<1>7. /\ t <= MaxTasks
      /\ tasks' = IF reuse THEN tasks ELSE Append(tasks, new)
      /\ goals' = [goals EXCEPT ![g].task = t]
      /\ starter' = [starter EXCEPT ![s].at = "run", ![s].task = t]
      /\ UNCHANGED <<plan, queue, owed, crashes>>
  BY <1>1, <1>3, <1>6 DEF CreateGoalTask
<1>8. new \in Tasks /\ RunFits(new.status, new.run)
  BY DEF Tasks, TaskStatuses, Working, Runs, RunFits
<1>9. t \in 1..MaxTasks
  BY <1>4, <1>5, <1>6, <1>7
<1>10. /\ tasks' \in Seq(Tasks) /\ Len(tasks') <= MaxTasks /\ t \in DOMAIN tasks'
       /\ \A u \in DOMAIN tasks : u \in DOMAIN tasks' /\ tasks'[u] = tasks[u]
       /\ \A u \in DOMAIN tasks' : u \in DOMAIN tasks \/ tasks'[u] = new
  <2>1. CASE reuse
    BY <1>5, <1>6, <1>7, <2>1 DEF IInv, TypeOK
  <2>2. CASE ~ reuse
    <3> HIDE DEF new, reuse
    <3>1. tasks' = Append(tasks, new) /\ t = Len(tasks) + 1
      BY <1>6, <1>7, <2>2
    <3>2. QED
      BY <1>4, <1>7, <1>8, <3>1
  <2>3. QED
    BY <2>1, <2>2
<1>11. goals' \in [Goals -> [status: {"open"} \cup Ended, task: 0..MaxTasks]]
  <2>1. t \in 0..MaxTasks /\ goals \in [Goals -> [status: {"open"} \cup Ended, task: 0..MaxTasks]]
    BY <1>9, PlanAssumption DEF IInv, TypeOK
  <2>2. goals' = [goals EXCEPT ![g].task = t]
    BY <1>7
  <2>3. QED
    BY <2>1, <2>2
<1>12. goals'[g].task = t /\ \A h \in Goals \ {g} : goals'[h] = goals[h]
  BY <1>4, <1>7 DEF IInv, TypeOK
<1>13. starter' \in [Starters -> Calls]
  <2>1. t \in 0..MaxTasks /\ starter \in [Starters -> Calls]
    BY <1>9, PlanAssumption DEF IInv, TypeOK
  <2>2. QED
    BY <1>7, <2>1 DEF Calls
<1>14. /\ starter'[s].at = "run" /\ starter'[s].item = i /\ starter'[s].task = t
       /\ \A u \in Starters \ {s} : starter'[u] = starter[u]
  <2>1. starter \in [Starters -> Calls]
    BY DEF IInv, TypeOK
  <2>2. QED
    BY <1>1, <1>7, <2>1 DEF Calls
<1>15. TypeOK'
  BY <1>7, <1>10, <1>11, <1>13 DEF IInv, TypeOK
<1>16. ItemRefs' /\ CallRefs' /\ GoalRefs'
  <2>1. ItemRefs'
    BY <1>7, <1>10 DEF IInv, ItemRefs
  <2>2. CallRefs'
    BY <1>7, <1>10, <1>14 DEF IInv, CallRefs
  <2>3. GoalRefs'
    BY <1>10, <1>12 DEF IInv, GoalRefs
  <2>4. QED
    BY <2>1, <2>2, <2>3
<1>17. RunsFit'
  <2> HIDE DEF new, reuse
  <2>1. QED
    BY <1>8, <1>10 DEF IInv, RunsFit
<1>18. Grows
  BY <1>7, <1>10 DEF Grows
<1>19. QED
  BY <1>15, <1>16, <1>17, <1>18 DEF IInv

LEMMA RunItemKeeps ==
  ASSUME IInv, NEW s \in Starters, RunItem(s)
  PROVE  IInv' /\ Grows
<1>1. PICK i \in DOMAIN queue : i = starter[s].item
  BY DEF RunItem, IInv, CallRefs
<1>2. PICK t \in DOMAIN tasks : t = starter[s].task
  BY DEF RunItem, IInv, CallRefs
<1>3. PICK item : item = [goal |-> queue[i].goal, on |-> queue[i].on, status |-> "running",
                          task |-> t, reason |-> "none"]
  OBVIOUS
<1>4. queue' = [queue EXCEPT ![i] = item]
  BY <1>1, <1>2, <1>3 DEF RunItem
<1>5. starter[s] \in Calls /\ queue[i] \in Items
  BY DEF IInv, TypeOK
<1>6. item \in Items
  BY <1>2, <1>3, <1>5 DEF Items, Calls, ItemStatuses, Reasons
<1>7. queue \in Seq(Items) /\ DOMAIN queue = 1..Len(queue) /\ Len(queue) \in Nat
  BY DEF IInv, TypeOK
<1>8. /\ DOMAIN queue' = DOMAIN queue /\ queue'[i] = item
      /\ \A j \in DOMAIN queue \ {i} : queue'[j] = queue[j]
  BY <1>4, <1>7
<1>9. queue' \in Seq(Items) /\ Len(queue') = Len(queue)
  BY <1>4, <1>6, <1>7
<1>10. CallsTyped
  BY ReturnTyped DEF RunItem
<1>11. UNCHANGED <<plan, tasks, goals, owed, crashes>>
  BY DEF RunItem
<1>12. TypeOK'
  BY <1>9, <1>10, <1>11 DEF IInv, TypeOK, CallsTyped
<1>13. item.task = t
  BY <1>3
<1>14. ItemRefs'
  BY <1>8, <1>11, <1>13 DEF IInv, ItemRefs
<1>15. CallRefs' /\ GoalRefs' /\ RunsFit'
  BY <1>8, <1>10, <1>11 DEF IInv, CallRefs, GoalRefs, RunsFit, CallsTyped
<1>16. Grows
  <2>1. item.goal = queue[i].goal /\ item.on = queue[i].on
    BY <1>3
  <2>2. QED
    BY <1>8, <1>11, <2>1 DEF Grows
<1>17. QED
  BY <1>12, <1>14, <1>15, <1>16 DEF IInv

LEMMA StarterStepKeeps ==
  ASSUME IInv, NEW s \in Starters, StarterStep(s)
  PROVE  IInv' /\ Grows
BY ScanNextKeeps, ScanEndsKeeps, ResolveFailsKeeps, CreateGoalTaskKeeps, RunItemKeeps,
   PickItemKeeps, NothingToPickKeeps, GatesRefuseKeeps, GatesPassKeeps DEF StarterStep

-----------------------------------------------------------------------------
(* Tasks that are executed, end, wait or are recovered.                    *)

\* A status that a call writes: the task it executes may be cancelled by now.
LEMMA StepKeeps ==
  ASSUME IInv, NEW t \in DOMAIN tasks, NEW from, NEW status \in TaskStatuses, NEW to \in Runs,
         Step(t, from, status, to), RunFits(status, to),
         status \in Working => tasks[t].status \in Working \cup {"cancelled"},
         tasks[t].status # "completed"
  PROVE  IInv' /\ Grows
<1>1. /\ tasks' = IF tasks[t].status \in Ended /\ status \notin Ended
                  THEN SetTask(t, "failed", "none", FALSE)
                  ELSE SetTask(t, status, to, status = "completed")
      /\ UNCHANGED <<plan, queue, goals, starter, owed, crashes>>
  BY DEF Step, UpdateTask
<1>2. CASE tasks[t].status \in Ended /\ status \notin Ended
  <2>1. /\ tasks' = SetTask(t, "failed", "none", FALSE)
        /\ "failed" \in TaskStatuses \ Working /\ "none" \in Runs /\ RunFits("failed", "none")
    BY <1>1, <1>2 DEF TaskStatuses, Ended, Working, Runs, RunFits
  <2>2. TasksKept
    BY <2>1, StatusKeeps
  <2>3. QED
    BY <1>1, <2>2, StarterUnchangedTyped, TaskStepKeeps DEF IInv, TypeOK
<1>3. CASE ~ (tasks[t].status \in Ended /\ status \notin Ended)
  <2>1. PICK done \in BOOLEAN : tasks' = SetTask(t, status, to, done)
    BY <1>1, <1>3
  <2>2. status \in Working => tasks[t].status \in Working
    BY <1>3 DEF Working, Ended
  <2>3. TasksKept
    BY <2>1, <2>2, StatusKeeps
  <2>4. QED
    BY <1>1, <2>3, StarterUnchangedTyped, TaskStepKeeps DEF IInv, TypeOK
<1>4. QED
  BY <1>2, <1>3

LEMMA ExecutionKeeps ==
  ASSUME IInv, NEW t \in DOMAIN tasks,
         \/ BeginExecution(t) \/ MaterializeWorktree(t) \/ FailWorktree(t)
         \/ LockRefused(t) \/ Dispatch(t) \/ LeaveSession(t)
  PROVE  IInv' /\ Grows
<1>1. /\ tasks[t].run = "begun" =>
             tasks[t].status \in {"assigned", "materializing_worktree", "cancelled"}
      /\ tasks[t].run = "codex" => tasks[t].status \in {"running", "cancelled"}
  BY DEF IInv, RunsFit, RunFits
<1>2. /\ {"assigned", "materializing_worktree", "running", "failed",
          "waiting_for_review", "waiting_for_supervisor"} \subseteq TaskStatuses
      /\ {"none", "begun", "codex"} \subseteq Runs
  BY DEF TaskStatuses, Working, Held, Ended, Runs
<1>3. CASE BeginExecution(t)
  <2>1. tasks[t].status = "assigned" /\ Step(t, "none", "assigned", "begun")
    BY <1>3 DEF BeginExecution
  <2>2. RunFits("assigned", "begun") /\ "assigned" \in Working
    BY DEF RunFits, Working
  <2>3. QED
    BY <1>2, <2>1, <2>2, StepKeeps
<1>4. CASE MaterializeWorktree(t)
  <2>1. Step(t, "begun", "materializing_worktree", "begun") /\ tasks[t].run = "begun"
    BY <1>4 DEF MaterializeWorktree, Step
  <2>2. RunFits("materializing_worktree", "begun")
    BY DEF RunFits
  <2>3. tasks[t].status \in Working \cup {"cancelled"} /\ tasks[t].status # "completed"
    BY <1>1, <2>1 DEF Working
  <2>4. QED
    BY <1>2, <2>1, <2>2, <2>3, StepKeeps
<1>5. CASE FailWorktree(t)
  <2>1. Step(t, "begun", "failed", "none") /\ tasks[t].run = "begun"
    BY <1>5 DEF FailWorktree, Step
  <2>2. RunFits("failed", "none") /\ "failed" \notin Working /\ tasks[t].status # "completed"
    BY <1>1, <2>1 DEF RunFits, Working
  <2>3. QED
    BY <1>2, <2>1, <2>2, StepKeeps
<1>6. CASE LockRefused(t)
  <2>1. Step(t, "begun", "assigned", "none") /\ tasks[t].run = "begun"
    BY <1>6 DEF LockRefused, Step
  <2>2. RunFits("assigned", "none")
    BY DEF RunFits
  <2>3. tasks[t].status \in Working \cup {"cancelled"} /\ tasks[t].status # "completed"
    BY <1>1, <2>1 DEF Working
  <2>4. QED
    BY <1>2, <2>1, <2>2, <2>3, StepKeeps
<1>7. CASE Dispatch(t)
  <2>1. Step(t, "begun", "running", "codex") /\ tasks[t].run = "begun"
    BY <1>7 DEF Dispatch, Step
  <2>2. RunFits("running", "codex")
    BY DEF RunFits
  <2>3. tasks[t].status \in Working \cup {"cancelled"} /\ tasks[t].status # "completed"
    BY <1>1, <2>1 DEF Working
  <2>4. QED
    BY <1>2, <2>1, <2>2, <2>3, StepKeeps
<1>8. CASE LeaveSession(t)
  <2>1. PICK status \in {"assigned", "waiting_for_review", "failed", "waiting_for_supervisor"} :
          Step(t, "codex", status, "none")
    BY <1>8 DEF LeaveSession
  <2>2. tasks[t].run = "codex"
    BY <2>1 DEF Step
  <2>3. RunFits(status, "none")
    BY DEF RunFits
  <2>4. tasks[t].status \in Working \cup {"cancelled"} /\ tasks[t].status # "completed"
    BY <1>1, <2>2 DEF Working
  <2>5. QED
    BY <1>2, <2>1, <2>3, <2>4, StepKeeps
<1>9. QED
  BY <1>3, <1>4, <1>5, <1>6, <1>7, <1>8

LEMMA RetryKeeps ==
  ASSUME IInv, NEW t \in DOMAIN tasks, BeginRetry(t) \/ EndRetry(t)
  PROVE  IInv' /\ Grows
<1>1. {"waiting_for_integration", "waiting_for_review", "completed", "failed"} \subseteq TaskStatuses
      /\ {"none", "merge"} \subseteq Runs
  BY DEF TaskStatuses, Held, Ended, Runs
<1>2. CASE BeginRetry(t)
  <2>1. /\ tasks[t].status = "waiting_for_integration"
        /\ Step(t, "none", "waiting_for_integration", "merge")
    BY <1>2 DEF BeginRetry
  <2>2. RunFits("waiting_for_integration", "merge") /\ "waiting_for_integration" \notin Working
    BY DEF RunFits, Working
  <2>3. QED
    BY <1>1, <2>1, <2>2, StepKeeps
<1>3. CASE EndRetry(t)
  <2>1. PICK status \in {"waiting_for_integration", "waiting_for_review", "completed", "failed"} :
          Step(t, "merge", status, "none")
    BY <1>3 DEF EndRetry, Held
  <2>2. tasks[t].status \in {"waiting_for_integration", "cancelled"}
    BY <2>1 DEF Step, IInv, RunsFit, RunFits
  <2>3. RunFits(status, "none") /\ status \notin Working
    BY DEF RunFits, Working
  <2>4. QED
    BY <1>1, <2>1, <2>2, <2>3, StepKeeps
<1>4. QED
  BY <1>2, <1>3

\* Marking the task's own item and then letting the dependents go is a rewrite.
LEMMA PropagateRewrites ==
  ASSUME IInv, NEW first, NEW g \in Goals, NEW mine, NEW status \in ItemStatuses, NEW q,
         q = IF mine \in DOMAIN queue THEN SetItem(mine, status, "none") ELSE queue,
         queue' = Propagate(q, g, first)
  PROVE  Rewrites
<1>1. /\ DOMAIN q = DOMAIN queue
      /\ \A i \in DOMAIN queue : q[i] = queue[i] \/ q[i] = Marked(queue[i], status, "none")
  BY DEF SetItem, IInv, TypeOK
<1>2. \A i \in DOMAIN queue, st \in ItemStatuses :
        Marked(q[i], st, "none") = Marked(queue[i], st, "none")
  <2>1. \A i \in DOMAIN queue : /\ q[i].goal = queue[i].goal /\ q[i].on = queue[i].on
                                /\ q[i].task = queue[i].task
    <3>1. SUFFICES ASSUME NEW i \in DOMAIN queue
                   PROVE  /\ q[i].goal = queue[i].goal /\ q[i].on = queue[i].on
                          /\ q[i].task = queue[i].task
      OBVIOUS
    <3>2. q[i] = queue[i] \/ q[i] = Marked(queue[i], status, "none")
      BY <1>1
    <3>3. /\ Marked(queue[i], status, "none").goal = queue[i].goal
          /\ Marked(queue[i], status, "none").on = queue[i].on
          /\ Marked(queue[i], status, "none").task = queue[i].task
      BY DEF Marked
    <3>4. QED
      BY <3>2, <3>3
  <2>2. QED
    BY <2>1 DEF Marked
<1>3. /\ queue' = [i \in DOMAIN queue |-> queue'[i]]
      /\ \A i \in DOMAIN queue :
           \/ queue'[i] = q[i]
           \/ \E st \in ItemStatuses : queue'[i] = Marked(q[i], st, "none")
  BY <1>1 DEF Propagate, ItemStatuses, Ended, Eligible
<1>4. QED
  BY <1>1, <1>2, <1>3 DEF Rewrites, Reasons

LEMMA FinalizeTaskKeeps ==
  ASSUME IInv, NEW t \in DOMAIN tasks, NEW status \in Held \cup Ended, NEW done \in BOOLEAN,
         NEW accepted \in BOOLEAN, FinalizeTask(t, status, done, accepted)
  PROVE  IInv' /\ Grows
<1>1. tasks[t] \in Tasks /\ t \in 1..MaxTasks
  BY PlanAssumption DEF IInv, TypeOK
<1>2. PICK g \in Goals : g = tasks[t].goal
  BY <1>1 DEF Tasks
<1>3. PICK mine : mine = FirstItem({i \in DOMAIN queue :
                           \/ queue[i].task = t
                           \/ queue[i].goal = g /\ queue[i].status = "running"})
  OBVIOUS
<1>4. PICK q : q = IF mine \in DOMAIN queue THEN SetItem(mine, status, "none") ELSE queue
  OBVIOUS
<1>5. PICK first : first = FirstItem(ItemsOf(t))
  OBVIOUS
<1>6. PICK goalStatus \in {"open"} \cup Ended : goals' = [goals EXCEPT ![g].status = goalStatus]
  <2>1. \E goalStatus \in {"completed", "blocked", "failed", "open"} :
           goals' = [goals EXCEPT ![g].status = goalStatus]
    BY <1>2 DEF FinalizeTask
  <2>2. QED
    BY <2>1 DEF Ended
<1>7. /\ tasks[t].run = "codex" /\ tasks' = SetTask(t, status, "none", done)
      /\ queue' = IF accepted THEN Propagate(q, g, first) ELSE q
      /\ owed' \in {owed, owed \cup {t}}
      /\ UNCHANGED <<plan, starter, crashes>>
  BY <1>2, <1>3, <1>4, <1>5 DEF FinalizeTask
<1>8. TasksKept
  <2>1. tasks[t].status # "completed"
    BY <1>7 DEF IInv, RunsFit, RunFits
  <2>2. status \in TaskStatuses \ Working /\ "none" \in Runs /\ RunFits(status, "none")
    BY DEF TaskStatuses, Held, Ended, Working, Runs, RunFits
  <2>3. QED
    BY <1>7, <2>1, <2>2, StatusKeeps
<1>9. status \in ItemStatuses
  BY DEF ItemStatuses
<1>10. UNCHANGED queue \/ Rewrites
  BY <1>4, <1>7, <1>9, PropagateRewrites, SetItemRewrites DEF IInv, Reasons
<1>11. /\ goals' \in [Goals -> [status: {"open"} \cup Ended, task: 0..MaxTasks]]
       /\ \A h \in Goals : goals'[h].task = goals[h].task
  BY <1>6 DEF IInv, TypeOK
<1>12. owed' \subseteq 1..MaxTasks
  BY <1>1, <1>7 DEF IInv, TypeOK
<1>13. QED
  BY <1>7, <1>8, <1>10, <1>11, <1>12, StarterUnchangedTyped, TaskStepKeeps DEF IInv, TypeOK

LEMMA FinalizeKeeps ==
  ASSUME IInv, NEW t \in DOMAIN tasks, Finalize(t)
  PROVE  IInv' /\ Grows
BY FinalizeTaskKeeps DEF Finalize, Held, Ended

LEMMA RecoverReviewKeeps ==
  ASSUME IInv, NEW t \in DOMAIN tasks, NEW ok \in BOOLEAN, RecoverReview(t, ok)
  PROVE  IInv' /\ Grows
<1>1. PICK mine : mine = FirstItem(ItemsOf(t))
  OBVIOUS
<1>2. PICK status \in ItemStatuses : status = IF ok THEN "completed" ELSE "running"
  BY DEF ItemStatuses, Ended
<1>3. PICK taskStatus \in Held \cup Ended :
        taskStatus = IF ok THEN "completed" ELSE "waiting_for_integration"
  BY DEF Held, Ended
<1>4. /\ tasks[t].status = "waiting_for_review"
      /\ tasks' = SetTask(t, taskStatus, tasks[t].run, ok)
      /\ queue' = IF mine \in ItemsOf(t) THEN SetItem(mine, status, "none") ELSE queue
      /\ UNCHANGED <<plan, goals, starter, owed, crashes>>
  BY <1>1, <1>2, <1>3 DEF RecoverReview
<1>5. TasksKept
  <2>1. tasks[t] \in Tasks
    BY DEF IInv, TypeOK
  <2>2. tasks[t].run = "none" /\ RunFits(taskStatus, "none")
    BY <1>4, <2>1 DEF IInv, RunsFit, RunFits, Tasks, Runs
  <2>3. taskStatus \in TaskStatuses \ Working /\ "none" \in Runs
    BY DEF TaskStatuses, Held, Ended, Working, Runs
  <2>4. QED
    BY <1>4, <2>2, <2>3, StatusKeeps
<1>6. UNCHANGED queue \/ Rewrites
  BY <1>4, SetItemRewrites DEF IInv, Reasons, ItemsOf
<1>7. QED
  BY <1>4, <1>5, <1>6, StarterUnchangedTyped, TaskStepKeeps DEF IInv, TypeOK

LEMMA CancelTaskKeeps ==
  ASSUME IInv, NEW t \in DOMAIN tasks, CancelTask(t)
  PROVE  IInv' /\ Grows
<1>1. /\ tasks[t].status # "completed" /\ tasks' = SetTask(t, "cancelled", tasks[t].run, FALSE)
      /\ UNCHANGED <<plan, queue, goals, starter, owed, crashes>>
  BY DEF CancelTask, Ended
<1>2. tasks[t].run \in Runs /\ RunFits("cancelled", tasks[t].run)
  <2>1. tasks[t] \in Tasks
    BY DEF IInv, TypeOK
  <2>2. QED
    BY <2>1 DEF Tasks, RunFits
<1>3. "cancelled" \in TaskStatuses \ Working
  BY DEF TaskStatuses, Ended, Working
<1>4. TasksKept
  BY <1>1, <1>2, <1>3, StatusKeeps
<1>5. QED
  BY <1>1, <1>4, StarterUnchangedTyped, TaskStepKeeps DEF IInv, TypeOK

LEMMA ReconcileTaskKeeps ==
  ASSUME IInv, NEW t \in DOMAIN tasks, ReconcileRunningTask(t)
  PROVE  IInv' /\ Grows
<1>1. PICK status \in {"completed", "failed", "waiting_for_review", "assigned"}, done \in BOOLEAN :
        tasks' = SetTask(t, status, "none", done)
  BY DEF ReconcileRunningTask
<1>2. tasks[t].status = "running" /\ UNCHANGED <<plan, queue, starter, owed, crashes>>
  BY DEF ReconcileRunningTask
<1>3. /\ status \in TaskStatuses /\ "none" \in Runs /\ RunFits(status, "none")
      /\ tasks[t].status \in Working /\ tasks[t].status # "completed"
  BY <1>2 DEF TaskStatuses, Working, Held, Ended, Runs, RunFits
<1>4. TasksKept
  BY <1>1, <1>3, StatusKeeps
<1>5. tasks[t].goal \in Goals
  <2>1. tasks[t] \in Tasks
    BY DEF IInv, TypeOK
  <2>2. QED
    BY <2>1 DEF Tasks
<1>6. \/ UNCHANGED goals
      \/ \E s \in {"open"} \cup Ended : goals' = [goals EXCEPT ![tasks[t].goal].status = s]
  BY DEF ReconcileRunningTask, Ended
<1>7. /\ goals' \in [Goals -> [status: {"open"} \cup Ended, task: 0..MaxTasks]]
      /\ \A h \in Goals : goals'[h].task = goals[h].task
  <2>1. goals \in [Goals -> [status: {"open"} \cup Ended, task: 0..MaxTasks]]
    BY DEF IInv, TypeOK
  <2>2. CASE UNCHANGED goals
    BY <2>1, <2>2
  <2>3. ASSUME NEW s \in {"open"} \cup Ended, goals' = [goals EXCEPT ![tasks[t].goal].status = s]
        PROVE  /\ goals' \in [Goals -> [status: {"open"} \cup Ended, task: 0..MaxTasks]]
               /\ \A h \in Goals : goals'[h].task = goals[h].task
    BY <1>5, <2>1, <2>3
  <2>4. QED
    BY <1>6, <2>2, <2>3
<1>8. QED
  BY <1>2, <1>4, <1>7, StarterUnchangedTyped, TaskStepKeeps DEF IInv, TypeOK

-----------------------------------------------------------------------------
(* The theorems.                                                           *)

LEMMA InitInv == Init => IInv
<1>. SUFFICES ASSUME Init PROVE IInv
  OBVIOUS
<1>2. starter = [s \in Starters |-> Idle] /\ Idle.at = "idle"
  BY DEF Init, Idle
<1>3. starter \in [Starters -> Calls] /\ \A s \in Starters : starter[s].at = "idle"
  BY <1>2, IdleIsCall
<1>4. /\ queue = <<>> /\ queue \in Seq(Items) /\ Len(queue) = 0 /\ DOMAIN queue = {}
      /\ tasks = <<>> /\ tasks \in Seq(Tasks) /\ Len(tasks) = 0 /\ DOMAIN tasks = {}
  BY DEF Init
<1>5. /\ goals \in [Goals -> [status: {"open"} \cup Ended, task: 0..MaxTasks]]
      /\ \A g \in Goals : goals[g].task = 0
  BY PlanAssumption DEF Init
<1>6. plan \in Plans /\ owed = {} /\ crashes \in 0..MaxCrashes
  BY PlanAssumption DEF Init
<1>7. TypeOK
  BY <1>3, <1>4, <1>5, <1>6, PlanAssumption DEF TypeOK
<1>8. CallRefs
  BY <1>3 DEF CallRefs
<1>9. ItemRefs /\ GoalRefs /\ RunsFit
  BY <1>4, <1>5 DEF ItemRefs, GoalRefs, RunsFit
<1>10. QED
  BY <1>7, <1>8, <1>9 DEF IInv

LEMMA StutterKeeps == ASSUME IInv, UNCHANGED vars PROVE IInv' /\ Grows
<1>1. CallsTyped
  BY StarterUnchangedTyped DEF vars
<1>2. QED
  BY <1>1, CallStepKeeps DEF vars, IInv, TypeOK

LEMMA NextInv == IInv /\ [Next]_vars => IInv' /\ Grows
<1>1. SUFFICES ASSUME IInv, [Next]_vars PROVE IInv' /\ Grows
  OBVIOUS
<1>2. ASSUME NEW s \in Starters,
             \/ \E kind \in {"worker", "tool"} : BeginStart(s, kind)
             \/ \E t \in owed : AutoStartNextOnTaskCompleted(s, t)
             \/ StarterStep(s)
      PROVE  IInv' /\ Grows
  BY <1>1, <1>2, BeginStartKeeps, TickKeeps, StarterStepKeeps
<1>3. ASSUME NEW t \in DOMAIN tasks,
             \/ Execution(t) \/ BeginRetry(t) \/ EndRetry(t)
             \/ CancelTask(t) \/ ReconcileRunningTask(t)
             \/ \E integrated \in BOOLEAN : RecoverReview(t, integrated)
      PROVE  IInv' /\ Grows
  BY <1>1, <1>3, ExecutionKeeps, FinalizeKeeps, RetryKeeps, CancelTaskKeeps, ReconcileTaskKeeps,
     RecoverReviewKeeps DEF Execution
<1>4. QED
  BY <1>1, <1>2, <1>3, EnqueueKeeps, CancelItemKeeps, UpdateItemKeeps, ReconcileRunningKeeps,
     CrashKeeps, StutterKeeps DEF Next

\* The queue, its tasks and the calls in flight stay well formed for any set of
\* goals and plans, any number of overlapping starts and any bounds.
THEOREM TypeTheorem == Spec => []TypeOK
<1>1. IInv => TypeOK
  BY DEF IInv
<1>2. QED
  BY InitInv, NextInv, <1>1, PTL DEF Spec
=============================================================================
