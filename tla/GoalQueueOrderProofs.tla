------------------------ MODULE GoalQueueOrderProofs ------------------------
(***************************************************************************)
(* What an item's status says of tasks, with any number of starts and      *)
(* ticks in flight and of duplicate tasks.  A call asks once and acts many *)
(* awaits later; what it was told must therefore be something that no step *)
(* takes back.  A completed task is such a thing, a goal that merely ended *)
(* is not.  When nothing goes wrong, an item that is blocked although its  *)
(* turn has come has a tick to free it, owed now or when a task at work    *)
(* ends.                                                                   *)
(***************************************************************************)
EXTENDS GoalQueueProofs, WellFoundedInduction

WaitsForSuccess ==
    \A p \in Plans, g \in Goals : p[g].kind = "goal" => p[g].policy = "completed_only"

\* What the gates stand for once they let an item pass.
Met(i) ==
    \/ PlanOf(i).kind = "none"
    \/ /\ PlanOf(i).kind = "task"
       /\ queue[i].on \in DOMAIN tasks /\ tasks[queue[i].on].status = "completed"
    \/ /\ PlanOf(i).kind = "goal"
       /\ CompletedTasks(PlanOf(i).on) # {}

ItemsFit ==
    \A i \in DOMAIN queue :
        /\ queue[i].task # 0 => tasks[queue[i].task].goal = queue[i].goal
        /\ PlanOf(i).kind = "task" => queue[i].on \in DOMAIN tasks

CallsFit ==
    \A s \in Starters :
        starter[s].at = "run" => tasks[starter[s].task].goal = queue[starter[s].item].goal

GoalsFit ==
    \A g \in Goals :
        /\ goals[g].status = "completed" => CompletedTasks(g) # {}
        /\ goals[g].task # 0 => tasks[goals[g].task].goal = g

FInv == IInv /\ ItemsFit /\ CallsFit /\ GoalsFit /\ ItemDoneHasTask

\* What the gates answered a call that is past them still holds.
CallsMet ==
    \A s \in Starters : starter[s].at \in {"resolve", "run"} => Met(starter[s].item)

\* What let an item run holds for as long as the item has its task.
ItemsMet == \A i \in DOMAIN queue : queue[i].task # 0 => Met(i)

Starts ==
    \A i \in DOMAIN queue :
        /\ queue[i].status # "running" /\ queue'[i].status = "running"
        /\ queue'[i].task # 0 /\ tasks[queue'[i].task].status \in Working
        => CheckDependency(i) /\ CheckAcceptanceGate(i)

LinksKept ==
    /\ \A i \in DOMAIN queue : queue'[i].task = queue[i].task
    /\ \A i \in DOMAIN queue' : i \in DOMAIN queue \/ queue'[i].task = 0

NonePasses ==
    \A s \in Starters : starter'[s].at \in {"resolve", "run"} =>
        starter[s].at \in {"resolve", "run"} /\ starter'[s].item = starter[s].item

\* A step that gives no item a task and lets no call past the gates.
Quiet == Grows /\ LinksKept /\ NonePasses

LEMMA SmallestExists ==
  ASSUME NEW S, S \subseteq Nat, S # {}
  PROVE  \E m \in S : \A k \in S : m <= k
<1>1. PICK less : less = OpToRel(<, Nat)
  OBVIOUS
<1>2. IsWellFoundedOn(less, Nat)
  BY <1>1, NatLessThanWellFounded
<1>3. PICK m \in S : \A k \in S : ~ (<<k, m>> \in less)
  BY <1>2, WFMin
<1>4. \A k \in S : ~ (k < m)
  BY <1>1, <1>3 DEF OpToRel
<1>5. QED
  BY <1>4

\* The first of some items is one of them, or none.
LEMMA FirstAmong ==
  ASSUME IInv, NEW items, NEW good, items \subseteq good, good \subseteq DOMAIN queue
  PROVE  FirstItem(items) \in DOMAIN queue => FirstItem(items) \in good
<1>1. DOMAIN queue \subseteq 1..MaxItems /\ MaxItems \in Nat
  BY DomainBound, PlanAssumption
<1>2. MaxItems + 1 \notin DOMAIN queue
  BY <1>1
<1>3. PICK all : all = items \cup {MaxItems + 1}
  OBVIOUS
<1>4. all \subseteq 1..(MaxItems + 1) /\ MaxItems + 1 \in all
  BY <1>1, <1>3
<1>5. \E m \in all : \A k \in all : m <= k
  <2>1. all \subseteq Nat /\ all # {}
    BY <1>1, <1>4
  <2>2. QED
    BY <2>1, SmallestExists
<1>6. Min(all) \in all
  BY <1>5 DEF Min
<1>7. FirstItem(items) = Min(all)
  BY <1>3 DEF FirstItem
<1>8. QED
  BY <1>2, <1>3, <1>6, <1>7

LEMMA TaskNotNull == ASSUME FInv, NEW t \in DOMAIN tasks PROVE t # 0
BY DEF FInv, IInv, TypeOK

-----------------------------------------------------------------------------
(* The gates.                                                              *)

\* What was met stays met.
LEMMA MetStays ==
  ASSUME IInv, Grows, NEW i \in DOMAIN queue, Met(i)
  PROVE  Met(i)'
<1>1. PlanOf(i)' = PlanOf(i) /\ queue'[i].on = queue[i].on
  BY DEF Grows, PlanOf
<1>2. ASSUME NEW g, CompletedTasks(g) # {}
      PROVE  CompletedTasks(g)' # {}
  <2>1. PICK t \in DOMAIN tasks : tasks[t].goal = g /\ tasks[t].status = "completed"
    BY <1>2 DEF CompletedTasks
  <2>2. t \in CompletedTasks(g)'
    BY <2>1 DEF Grows, CompletedTasks
  <2>3. QED
    BY <2>2
<1>3. CASE PlanOf(i).kind = "none"
  BY <1>1, <1>3 DEF Met
<1>4. CASE PlanOf(i).kind = "task"
  BY <1>1, <1>4 DEF Met, Grows
<1>5. CASE PlanOf(i).kind = "goal"
  <2>1. PICK g : g = PlanOf(i).on
    OBVIOUS
  <2>2. CompletedTasks(g) # {}
    BY <1>5, <2>1 DEF Met
  <2>3. CompletedTasks(g)' # {}
    BY <1>2, <2>2
  <2>4. CompletedTasks(PlanOf(i).on)' = CompletedTasks(g)'
    BY <1>1, <2>1 DEF CompletedTasks
  <2>5. QED
    BY <1>1, <1>5, <2>3, <2>4 DEF Met
<1>6. QED
  BY <1>3, <1>4, <1>5 DEF Met

\* Under the assumption the two gates ask for exactly that.
LEMMA MetGates ==
  ASSUME WaitsForSuccess, FInv, NEW i \in DOMAIN queue
  PROVE  CheckDependency(i) /\ CheckAcceptanceGate(i) <=> Met(i)
<1>1. queue[i] \in Items
  BY DEF FInv, IInv, TypeOK
<1>2. PICK g \in Goals : g = queue[i].goal
  BY <1>1 DEF Items
<1>3. plan \in Plans /\ plan \in [Goals -> [repo: {"r1", "r2", None}, auto : BOOLEAN,
                          kind: {"none", "goal", "task"}, on: Goals \cup {None},
                          policy: {"completed_only", "terminal_any"}]]
  BY PlanAssumption DEF FInv, IInv, TypeOK
<1>4. /\ PlanOf(i) = plan[g] /\ PlanOf(i).kind \in {"none", "goal", "task"}
      /\ PlanOf(i).kind = "goal" => PlanOf(i).on \in Goals /\ PlanOf(i).policy = "completed_only"
  BY <1>2, <1>3, PlanAssumption DEF PlanOf, WaitsForSuccess
<1>5. CASE PlanOf(i).kind = "none"
  BY <1>5 DEF CheckDependency, CheckAcceptanceGate, Met
<1>6. CASE PlanOf(i).kind = "task"
  <2>1. DependencyStatus(i) = tasks[queue[i].on].status
    BY <1>6 DEF DependencyStatus
  <2>2. queue[i].on \in DOMAIN tasks
    BY <1>6 DEF FInv, ItemsFit
  <2>3. QED
    BY <1>6, <2>1, <2>2 DEF CheckDependency, CheckAcceptanceGate, Met
<1>7. CASE PlanOf(i).kind = "goal"
  <2>1. PICK h \in Goals : h = PlanOf(i).on
    BY <1>4, <1>7
  <2>2. DependencyStatus(i) = GoalStatus(h)
    BY <1>7, <2>1 DEF DependencyStatus
  <2>3. GoalStatus(h) = "completed" <=> CompletedTasks(h) # {}
    BY DEF GoalStatus, FInv, GoalsFit
  <2>4. QED
    BY <1>4, <1>7, <2>1, <2>2, <2>3 DEF CheckDependency, CheckAcceptanceGate, Met
<1>8. QED
  BY <1>4, <1>5, <1>6, <1>7

-----------------------------------------------------------------------------
(* Steps that complete no item and no goal, give no item a task and let no *)
(* call past the gates.                                                    *)

QuietItems ==
    /\ DOMAIN queue' = DOMAIN queue
    /\ \A i \in DOMAIN queue :
        /\ queue'[i].task = queue[i].task
        /\ queue'[i].status = "completed" => queue[i].status = "completed"

QuietCalls ==
    \A s \in Starters : starter'[s].at \in {"resolve", "run"} => starter'[s] = starter[s]

QuietGoals ==
    \A g \in Goals : /\ goals'[g].status = "completed" => goals[g].status = "completed"
                     /\ goals'[g].task = goals[g].task

\* Calls and tasks keep what they were told, whatever grows.
LEMMA QuietCallsFit ==
  ASSUME FInv, Grows, NEW s \in Starters, starter'[s] = starter[s], starter[s].at = "run"
  PROVE  tasks'[starter'[s].task].goal = queue'[starter'[s].item].goal
<1>1. PICK i \in DOMAIN queue : i = starter[s].item
  BY DEF FInv, IInv, CallRefs
<1>2. PICK t \in DOMAIN tasks : t = starter[s].task
  BY DEF FInv, IInv, CallRefs
<1>3. tasks[t].goal = queue[i].goal
  BY <1>1, <1>2 DEF FInv, CallsFit
<1>4. QED
  BY <1>1, <1>2, <1>3 DEF Grows

LEMMA CallsKeep == ASSUME FInv, Grows, QuietCalls PROVE CallsFit'
BY QuietCallsFit DEF CallsFit, QuietCalls

LEMMA CallsMetKeep == ASSUME IInv, Grows, NonePasses, CallsMet PROVE CallsMet'
<1>1. SUFFICES ASSUME NEW s \in Starters, starter'[s].at \in {"resolve", "run"}
               PROVE  Met(starter[s].item)'
  BY DEF CallsMet
<1>2. starter[s].at \in {"resolve", "run"} /\ starter'[s].item = starter[s].item
  BY <1>1 DEF NonePasses
<1>3. PICK i \in DOMAIN queue : i = starter[s].item
  BY <1>2 DEF IInv, CallRefs
<1>4. Met(i)'
  BY <1>2, <1>3, MetStays DEF CallsMet
<1>5. QED
  BY <1>2, <1>3, <1>4 DEF Met, PlanOf

LEMMA ItemsMetKeep == ASSUME FInv, Grows, LinksKept, ItemsMet PROVE ItemsMet'
<1>1. SUFFICES ASSUME NEW i \in DOMAIN queue', queue'[i].task # 0
               PROVE  Met(i)'
  BY DEF ItemsMet
<1>2. i \in DOMAIN queue /\ queue[i].task # 0
  BY <1>1 DEF LinksKept
<1>3. QED
  BY <1>2, MetStays DEF ItemsMet, FInv

\* What completed a goal or an item once is still there.
LEMMA CompletedKeep ==
  ASSUME Grows, NEW g, CompletedTasks(g) # {}
  PROVE  CompletedTasks(g)' # {}
<1>1. PICK t \in DOMAIN tasks : tasks[t].goal = g /\ tasks[t].status = "completed"
  BY DEF CompletedTasks
<1>2. t \in CompletedTasks(g)'
  BY <1>1 DEF Grows, CompletedTasks
<1>3. QED
  BY <1>2

LEMMA GoalsKeep ==
  ASSUME FInv, Grows, NEW g \in Goals, goals[g].status = "completed"
  PROVE  CompletedTasks(g)' # {}
BY CompletedKeep DEF FInv, GoalsFit

\* An item is completed by a step only for a completed task of its goal.
LEMMA DoneKeeps ==
  ASSUME FInv, Grows,
         \A i \in DOMAIN queue' : queue'[i].status = "completed" =>
            /\ i \in DOMAIN queue
            /\ \/ queue[i].status = "completed"
               \/ \E t \in DOMAIN tasks' :
                    tasks'[t].goal = queue[i].goal /\ tasks'[t].status = "completed"
  PROVE  ItemDoneHasTask'
<1>1. SUFFICES ASSUME NEW i \in DOMAIN queue', queue'[i].status = "completed"
               PROVE  \E t \in DOMAIN tasks' :
                        tasks'[t].goal = queue'[i].goal /\ tasks'[t].status = "completed"
  BY DEF ItemDoneHasTask, CompletedTasks
<1>2. i \in DOMAIN queue /\ queue'[i].goal = queue[i].goal
  BY <1>1 DEF Grows
<1>3. CASE queue[i].status = "completed"
  <2>1. CompletedTasks(queue[i].goal) # {}
    BY <1>2, <1>3 DEF FInv, ItemDoneHasTask
  <2>2. PICK t \in DOMAIN tasks : tasks[t].goal = queue[i].goal /\ tasks[t].status = "completed"
    BY <2>1 DEF CompletedTasks
  <2>3. QED
    BY <1>2, <2>2 DEF Grows
<1>4. QED
  BY <1>1, <1>2, <1>3

LEMMA GoalTaskKeeps ==
  ASSUME FInv, Grows, NEW g \in Goals, goals'[g].task = goals[g].task, goals[g].task # 0
  PROVE  tasks'[goals'[g].task].goal = g
<1>1. goals[g].task \in DOMAIN tasks /\ tasks[goals[g].task].goal = g
  BY DEF FInv, GoalsFit, IInv, GoalRefs
<1>2. QED
  BY <1>1 DEF Grows

\* An item that keeps its task still fits.
LEMMA ItemKeeps ==
  ASSUME FInv, Grows, NEW i \in DOMAIN queue, queue'[i].task = queue[i].task
  PROVE  /\ queue'[i].task # 0 => tasks'[queue'[i].task].goal = queue'[i].goal
         /\ PlanOf(i)'.kind = "task" => queue'[i].on \in DOMAIN tasks'
<1>1. PlanOf(i)' = PlanOf(i) /\ queue'[i].on = queue[i].on /\ queue'[i].goal = queue[i].goal
  BY DEF Grows, PlanOf
<1>2. queue[i].task # 0 => /\ queue[i].task \in DOMAIN tasks
                           /\ tasks[queue[i].task].goal = queue[i].goal
  BY DEF FInv, IInv, ItemRefs, ItemsFit
<1>3. PlanOf(i).kind = "task" => queue[i].on \in DOMAIN tasks
  BY DEF FInv, ItemsFit
<1>4. QED
  BY <1>1, <1>2, <1>3 DEF Grows

LEMMA ItemsKeep ==
  ASSUME FInv, Grows, DOMAIN queue' = DOMAIN queue,
         \A i \in DOMAIN queue : queue'[i].task = queue[i].task
  PROVE  ItemsFit'
BY ItemKeeps DEF ItemsFit

LEMMA QuietKeeps ==
  ASSUME FInv, IInv', Grows, QuietItems, QuietCalls, QuietGoals
  PROVE  FInv' /\ Quiet
<1>1. ItemsFit'
  BY ItemsKeep DEF QuietItems
<1>2. CallsFit'
  BY CallsKeep
<1>3. GoalsFit'
  BY GoalsKeep, GoalTaskKeeps DEF GoalsFit, QuietGoals
<1>4. ItemDoneHasTask'
  BY DoneKeeps DEF QuietItems
<1>5. LinksKept /\ NonePasses
  BY DEF LinksKept, QuietItems, NonePasses, QuietCalls
<1>6. QED
  BY <1>1, <1>2, <1>3, <1>4, <1>5 DEF FInv, Quiet

LEMMA SetItemQuiet ==
  ASSUME FInv, NEW i \in DOMAIN queue, NEW status, NEW reason, status # "completed",
         queue' = SetItem(i, status, reason)
  PROVE  QuietItems
<1>1. /\ Marked(queue[i], status, reason).task = queue[i].task
      /\ Marked(queue[i], status, reason).status = status
  BY DEF Marked
<1>2. /\ DOMAIN queue' = DOMAIN queue /\ queue'[i] = Marked(queue[i], status, reason)
      /\ \A j \in DOMAIN queue \ {i} : queue'[j] = queue[j]
  BY DEF SetItem, FInv, IInv, TypeOK
<1>3. QED
  BY <1>1, <1>2 DEF QuietItems

LEMMA SameItemsQuiet == ASSUME FInv, UNCHANGED queue PROVE QuietItems
BY DEF QuietItems

LEMMA RecheckQuiet == ASSUME FInv, queue' = RecheckTransientBlockedItems PROVE QuietItems
BY DEF QuietItems, RecheckTransientBlockedItems, Marked

LEMMA ReturnQuiet == ASSUME FInv, NEW s \in Starters, Return(s) PROVE QuietCalls
<1>1. Idle.at = "idle"
  BY DEF Idle
<1>2. QED
  BY <1>1 DEF QuietCalls, Return, FInv, IInv, TypeOK

LEMMA MoveQuiet ==
  ASSUME FInv, NEW s \in Starters, starter'[s].at \notin {"resolve", "run"},
         \A u \in Starters \ {s} : starter'[u] = starter[u]
  PROVE  QuietCalls
BY DEF QuietCalls

LEMMA SameCallsQuiet == ASSUME FInv, UNCHANGED starter PROVE QuietCalls
BY DEF QuietCalls

LEMMA SameGoalsQuiet == ASSUME FInv, UNCHANGED goals PROVE QuietGoals
BY DEF QuietGoals

-----------------------------------------------------------------------------
(* The quiet actions.                                                      *)

LEMMA ToolsQuiet ==
  ASSUME FInv, NEW i \in DOMAIN queue, CancelGoalQueueItem(i) \/ UpdateGoalQueueItem(i)
  PROVE  FInv' /\ Quiet
<1>1. QuietItems
  BY SetItemQuiet DEF CancelGoalQueueItem, UpdateGoalQueueItem
<1>2. QuietCalls /\ QuietGoals
  BY SameCallsQuiet, SameGoalsQuiet DEF CancelGoalQueueItem, UpdateGoalQueueItem
<1>3. QED
  BY <1>1, <1>2, CancelItemKeeps, UpdateItemKeeps, QuietKeeps DEF FInv

LEMMA BeginQuiet ==
  ASSUME FInv, NEW s \in Starters, NEW kind \in {"worker", "tool"}, BeginStart(s, kind)
  PROVE  FInv' /\ Quiet
<1>1. starter'[s].at = "list" /\ \A u \in Starters \ {s} : starter'[u] = starter[u]
  BY DEF BeginStart, FInv, IInv, TypeOK, Calls
<1>2. QuietItems /\ QuietCalls /\ QuietGoals
  BY <1>1, RecheckQuiet, MoveQuiet, SameGoalsQuiet DEF BeginStart
<1>3. QED
  BY <1>2, BeginStartKeeps, QuietKeeps DEF FInv

LEMMA TickQuiet ==
  ASSUME FInv, NEW s \in Starters, NEW t \in owed, AutoStartNextOnTaskCompleted(s, t)
  PROVE  FInv' /\ Quiet
<1>1. starter'[s].at = "pick" /\ \A u \in Starters \ {s} : starter'[u] = starter[u]
  BY DEF AutoStartNextOnTaskCompleted, FInv, IInv, TypeOK, Calls
<1>2. QuietItems
  BY DEF AutoStartNextOnTaskCompleted, ReconcileQueue, QuietItems, Marked
<1>3. QuietCalls /\ QuietGoals
  BY <1>1, MoveQuiet, SameGoalsQuiet DEF AutoStartNextOnTaskCompleted
<1>4. QED
  BY <1>2, <1>3, TickKeeps, QuietKeeps DEF FInv

LEMMA GotoQuiet ==
  ASSUME FInv, NEW s \in Starters, NEW at \in {"scan", "list"}, Goto(s, at)
  PROVE  QuietCalls
<1>1. starter'[s].at = at /\ \A u \in Starters \ {s} : starter'[u] = starter[u]
  BY DEF Goto, FInv, IInv, TypeOK, Calls
<1>2. QED
  BY <1>1, MoveQuiet

LEMMA EndsQuiet ==
  ASSUME FInv, NEW s \in Starters, ScanEnds(s) \/ NothingToPick(s)
  PROVE  FInv' /\ Quiet
<1>1. QuietItems /\ QuietCalls /\ QuietGoals
  BY SameItemsQuiet, ReturnQuiet, SameGoalsQuiet DEF ScanEnds, NothingToPick
<1>2. QED
  BY <1>1, ScanEndsKeeps, NothingToPickKeeps, QuietKeeps DEF FInv

LEMMA RefusalsQuiet ==
  ASSUME FInv, NEW s \in Starters, ResolveFails(s) \/ GatesRefuse(s)
  PROVE  FInv' /\ Quiet
<1>1. PICK i \in DOMAIN queue : i = starter[s].item
  BY DEF ResolveFails, GatesRefuse, FInv, IInv, CallRefs
<1>2. QuietItems
  BY <1>1, SetItemQuiet DEF ResolveFails, GatesRefuse
<1>3. QuietCalls /\ QuietGoals
  BY GotoQuiet, ReturnQuiet, SameGoalsQuiet DEF ResolveFails, GatesRefuse
<1>4. QED
  BY <1>2, <1>3, ResolveFailsKeeps, GatesRefuseKeeps, QuietKeeps DEF FInv

LEMMA GatesPassQuiet ==
  ASSUME FInv, NEW s \in Starters, GatesPass(s)
  PROVE  FInv' /\ Quiet
<1>1. QuietItems /\ QuietCalls /\ QuietGoals
  BY RecheckQuiet, GotoQuiet, SameGoalsQuiet DEF GatesPass
<1>2. QED
  BY <1>1, GatesPassKeeps, QuietKeeps DEF FInv

LEMMA PickQuiet ==
  ASSUME FInv, NEW s \in Starters, PickItem(s)
  PROVE  FInv' /\ Quiet
<1>1. PICK i \in DOMAIN queue :
        \/ starter' = [starter EXCEPT ![s].at = "gates", ![s].item = i] /\ UNCHANGED queue
        \/ Return(s) /\ queue' = SetItem(i, "blocked", "other")
  BY DEF PickItem
<1>2. QuietItems
  BY <1>1, SetItemQuiet, SameItemsQuiet
<1>3. ASSUME starter' = [starter EXCEPT ![s].at = "gates", ![s].item = i]
      PROVE  starter'[s].at = "gates" /\ \A u \in Starters \ {s} : starter'[u] = starter[u]
  BY <1>3 DEF FInv, IInv, TypeOK, Calls
<1>4. QuietCalls /\ QuietGoals
  BY <1>1, <1>3, MoveQuiet, ReturnQuiet, SameGoalsQuiet DEF PickItem
<1>5. QED
  BY <1>2, <1>4, PickItemKeeps, QuietKeeps DEF FInv

LEMMA CrashQuiet == ASSUME FInv, Crash PROVE FInv' /\ Quiet
<1>1. QuietCalls
  BY DEF QuietCalls, Crash, Idle
<1>2. QuietItems /\ QuietGoals
  BY SameItemsQuiet, SameGoalsQuiet DEF Crash
<1>3. QED
  BY <1>1, <1>2, CrashKeeps, QuietKeeps DEF FInv

LEMMA StutterQuiet == ASSUME FInv, UNCHANGED vars PROVE FInv' /\ Quiet
<1>1. QuietItems /\ QuietCalls /\ QuietGoals
  BY SameItemsQuiet, SameCallsQuiet, SameGoalsQuiet DEF vars
<1>2. QED
  BY <1>1, StutterKeeps, QuietKeeps DEF FInv

LEMMA QuietTasks ==
  ASSUME FInv, NEW t \in DOMAIN tasks,
         \/ BeginExecution(t) \/ MaterializeWorktree(t) \/ FailWorktree(t)
         \/ LockRefused(t) \/ Dispatch(t) \/ LeaveSession(t)
         \/ BeginRetry(t) \/ EndRetry(t) \/ CancelTask(t)
  PROVE  FInv' /\ Quiet
<1>1. UNCHANGED <<queue, starter, goals>>
  BY DEF BeginExecution, MaterializeWorktree, FailWorktree, LockRefused, Dispatch, LeaveSession,
         BeginRetry, EndRetry, CancelTask, Step
<1>2. QuietItems /\ QuietCalls /\ QuietGoals
  BY <1>1, SameItemsQuiet, SameCallsQuiet, SameGoalsQuiet
<1>3. QED
  BY <1>2, ExecutionKeeps, RetryKeeps, CancelTaskKeeps, QuietKeeps DEF FInv

-----------------------------------------------------------------------------
(* The actions that queue, pass, create, run and end.                      *)

LEMMA EnqueueOrder ==
  ASSUME FInv, NEW g \in Goals, EnqueueGoal(g)
  PROVE  FInv' /\ Quiet
<1>. DEFINE on == IF plan[g].kind = "task" THEN goals[plan[g].on].task ELSE 0
            item == [goal |-> g, status |-> "waiting", task |-> 0, reason |-> "none", on |-> on]
<1>1. IInv' /\ Grows
  BY EnqueueKeeps DEF FInv
<1>2. /\ queue' = Append(queue, item)
      /\ plan[g].kind = "task" => goals[plan[g].on].task # 0
      /\ UNCHANGED <<plan, tasks, goals, starter, owed, crashes>>
  BY DEF EnqueueGoal
<1>3. plan[g].kind = "task" => on \in DOMAIN tasks
  BY <1>2, PlanAssumption DEF FInv, IInv, TypeOK, GoalRefs
<1>4. item.task = 0 /\ item.on = on /\ item.goal = g /\ item.status # "completed"
  OBVIOUS
<1>5. queue \in Seq(Items) /\ Len(queue) \in Nat
  BY DEF FInv, IInv, TypeOK
<1> HIDE DEF item
<1>6. /\ \A i \in DOMAIN queue : i \in DOMAIN queue' /\ queue'[i] = queue[i]
      /\ \A i \in DOMAIN queue' : i \in DOMAIN queue \/ queue'[i] = item
  BY <1>2, <1>5
<1>7. ItemsFit'
  <2>1. SUFFICES ASSUME NEW i \in DOMAIN queue'
                 PROVE  /\ queue'[i].task # 0 => tasks'[queue'[i].task].goal = queue'[i].goal
                        /\ PlanOf(i)'.kind = "task" => queue'[i].on \in DOMAIN tasks'
    BY DEF ItemsFit
  <2>2. CASE i \in DOMAIN queue
    BY <1>1, <1>6, <2>2, ItemKeeps
  <2>3. CASE queue'[i] = item
    BY <1>2, <1>3, <1>4, <2>3 DEF PlanOf
  <2>4. QED
    BY <1>6, <2>2, <2>3
<1>8. CallsFit'
  BY <1>1, <1>2, CallsKeep DEF QuietCalls
<1>9. GoalsFit'
  BY <1>2 DEF FInv, GoalsFit, CompletedTasks
<1>10. LinksKept /\ NonePasses
  BY <1>2, <1>4, <1>6 DEF LinksKept, NonePasses
<1>11. ItemDoneHasTask'
  BY <1>1, <1>4, <1>6, DoneKeeps
<1>12. QED
  BY <1>1, <1>7, <1>8, <1>9, <1>10, <1>11 DEF FInv, Quiet

\* A scan gives no item a task; it may let one call pass.
LEMMA ScanNextOrder ==
  ASSUME FInv, NEW s \in Starters, ScanNext(s)
  PROVE  FInv' /\ Grows /\ LinksKept
<1>1. IInv' /\ Grows
  BY ScanNextKeeps DEF FInv
<1>2. PICK i \in DOMAIN queue, at \in {"resolve", "scan"} :
        /\ Scan(s, i, at)
        /\ \/ UNCHANGED queue
           \/ queue' = SetItem(i, "blocked", IF CheckDependency(i) THEN "other" ELSE "dependency")
  BY DEF ScanNext
<1>3. QuietItems /\ QuietGoals
  BY <1>2, SetItemQuiet, SameItemsQuiet, SameGoalsQuiet DEF ScanNext
<1>4. starter'[s].at # "run" /\ \A u \in Starters \ {s} : starter'[u] = starter[u]
  BY <1>2 DEF Scan, FInv, IInv, TypeOK
<1>5. CallsFit'
  BY <1>1, <1>4, QuietCallsFit DEF CallsFit
<1>6. ItemsFit' /\ GoalsFit' /\ LinksKept
  BY <1>1, <1>3, ItemsKeep, GoalsKeep, GoalTaskKeeps DEF QuietItems, QuietGoals, GoalsFit, LinksKept
<1>7. ItemDoneHasTask'
  BY <1>1, <1>3, DoneKeeps DEF QuietItems
<1>8. QED
  BY <1>1, <1>5, <1>6, <1>7 DEF FInv

\* Whom it lets pass, it let pass through both gates.
LEMMA ScanNextPasses ==
  ASSUME FInv, NEW s \in Starters, ScanNext(s)
  PROVE  /\ \A u \in Starters \ {s} : starter'[u] = starter[u]
         /\ starter'[s].at \in {"resolve", "run"} =>
               LET i == starter'[s].item
               IN  /\ i \in DOMAIN queue /\ UNCHANGED <<plan, queue, tasks>>
                   /\ CheckDependency(i) /\ CheckAcceptanceGate(i)
<1>1. PICK i \in DOMAIN queue, at \in {"resolve", "scan"} :
        /\ Scan(s, i, at)
        /\ at = "resolve" => /\ UNCHANGED <<plan, queue, tasks>>
                             /\ CheckDependency(i) /\ CheckAcceptanceGate(i)
  BY DEF ScanNext
<1>2. /\ starter'[s].at = at /\ starter'[s].item = i
      /\ \A u \in Starters \ {s} : starter'[u] = starter[u]
  BY <1>1 DEF Scan, FInv, IInv, TypeOK
<1>3. QED
  BY <1>1, <1>2

LEMMA ScanNextMet ==
  ASSUME WaitsForSuccess, FInv, CallsMet, NEW s \in Starters, ScanNext(s)
  PROVE  CallsMet'
<1>1. Grows
  BY ScanNextOrder
<1>2. ASSUME NEW u \in Starters \ {s}, starter'[u].at \in {"resolve", "run"}
      PROVE  Met(starter[u].item)'
  <2>1. starter'[u] = starter[u]
    BY ScanNextPasses
  <2>2. PICK i \in DOMAIN queue : i = starter[u].item
    BY <1>2, <2>1 DEF FInv, IInv, CallRefs
  <2>3. Met(i)'
    BY <1>1, <1>2, <2>1, <2>2, MetStays DEF CallsMet, FInv
  <2>4. QED
    BY <2>1, <2>2, <2>3 DEF Met, PlanOf
<1>3. ASSUME starter'[s].at \in {"resolve", "run"}
      PROVE  Met(starter[s].item)'
  <2>1. PICK i : i = starter'[s].item
    OBVIOUS
  <2>2. i \in DOMAIN queue /\ CheckDependency(i) /\ CheckAcceptanceGate(i)
    BY <1>3, <2>1, ScanNextPasses
  <2>3. Met(i)'
    BY <1>1, <2>2, MetGates, MetStays DEF FInv
  <2>4. QED
    BY <2>1, <2>3 DEF Met, PlanOf
<1>4. QED
  BY <1>2, <1>3 DEF CallsMet

\* Starting an item: its own task is there, and no other item starts.
LEMMA RunItemOrder ==
  ASSUME FInv, NEW s \in Starters, RunItem(s)
  PROVE  /\ FInv' /\ Grows /\ NonePasses
         /\ starter'[s].at = "idle" /\ starter[s].item \in DOMAIN queue
         /\ \A j \in DOMAIN queue' \ {starter[s].item} : j \in DOMAIN queue /\ queue'[j] = queue[j]
         /\ UNCHANGED <<plan, tasks>>
<1>1. IInv' /\ Grows
  BY RunItemKeeps DEF FInv
<1>2. PICK i \in DOMAIN queue : i = starter[s].item
  BY DEF RunItem, FInv, IInv, CallRefs
<1>3. PICK t \in DOMAIN tasks : t = starter[s].task
  BY DEF RunItem, FInv, IInv, CallRefs
<1>4. tasks[t].goal = queue[i].goal
  BY <1>2, <1>3 DEF RunItem, FInv, CallsFit
<1>5. UNCHANGED <<plan, tasks, goals, owed, crashes>>
  BY DEF RunItem
<1>6. /\ DOMAIN queue' = DOMAIN queue /\ queue'[i].task = t /\ queue'[i].status = "running"
      /\ \A j \in DOMAIN queue \ {i} : queue'[j] = queue[j]
  BY <1>2, <1>3 DEF RunItem, FInv, IInv, TypeOK
<1>7. ItemsFit'
  <2>1. SUFFICES ASSUME NEW j \in DOMAIN queue
                 PROVE  /\ queue'[j].task # 0 => tasks'[queue'[j].task].goal = queue'[j].goal
                        /\ PlanOf(j)'.kind = "task" => queue'[j].on \in DOMAIN tasks'
    BY <1>6 DEF ItemsFit
  <2>2. CASE j # i
    BY <1>1, <1>6, <2>2, ItemKeeps
  <2>3. CASE j = i
    <3>1. queue'[i].goal = queue[i].goal /\ queue'[i].on = queue[i].on /\ PlanOf(i)' = PlanOf(i)
      BY <1>1 DEF Grows, PlanOf
    <3>2. PlanOf(i).kind = "task" => queue[i].on \in DOMAIN tasks
      BY DEF FInv, ItemsFit
    <3>3. QED
      BY <1>4, <1>5, <1>6, <2>3, <3>1, <3>2
  <2>4. QED
    BY <2>2, <2>3
<1>8. QuietCalls
  BY ReturnQuiet DEF RunItem
<1>9. CallsFit' /\ NonePasses
  BY <1>1, <1>8, CallsKeep DEF NonePasses, QuietCalls
<1>10. GoalsFit'
  BY <1>5 DEF FInv, GoalsFit, CompletedTasks
<1>11. starter'[s].at = "idle"
  BY DEF RunItem, Return, Idle, FInv, IInv, TypeOK
<1>12. ItemDoneHasTask'
  BY <1>1, <1>6, DoneKeeps
<1>13. QED
  BY <1>1, <1>2, <1>5, <1>6, <1>7, <1>9, <1>10, <1>11, <1>12 DEF FInv

LEMMA RunItemStarts ==
  ASSUME WaitsForSuccess, FInv, CallsMet, NEW s \in Starters, RunItem(s)
  PROVE  Starts /\ (ItemsMet => ItemsMet')
<1>1. PICK i \in DOMAIN queue : i = starter[s].item
  BY RunItemOrder
<1>2. Met(i)
  BY <1>1 DEF RunItem, CallsMet
<1>3. CheckDependency(i) /\ CheckAcceptanceGate(i)
  BY <1>2, MetGates
<1>4. \A j \in DOMAIN queue' \ {i} : j \in DOMAIN queue /\ queue'[j] = queue[j]
  BY <1>1, RunItemOrder
<1>5. DOMAIN queue \subseteq DOMAIN queue'
  BY RunItemOrder DEF Grows
<1>6. Starts
  BY <1>3, <1>4, <1>5 DEF Starts
<1>7. ASSUME ItemsMet, NEW j \in DOMAIN queue', queue'[j].task # 0
      PROVE  Met(j)'
  <2>1. j \in DOMAIN queue /\ Met(j)
    BY <1>1, <1>2, <1>4, <1>7 DEF ItemsMet
  <2>2. QED
    BY <2>1, RunItemOrder, MetStays DEF FInv
<1>8. QED
  BY <1>6, <1>7 DEF ItemsMet

LEMMA CreateGoalTaskOrder ==
  ASSUME FInv, NEW s \in Starters, CreateGoalTask(s)
  PROVE  FInv' /\ Quiet
<1>1. IInv' /\ Grows
  BY CreateGoalTaskKeeps DEF FInv
<1>2. PICK i \in DOMAIN queue : i = starter[s].item
  BY DEF CreateGoalTask, FInv, IInv, CallRefs
<1>3. queue[i] \in Items
  BY DEF FInv, IInv, TypeOK
<1>4. PICK g \in Goals : g = queue[i].goal
  BY <1>3 DEF Items
<1>. DEFINE reuse == goals[g].task # 0 /\ tasks[goals[g].task].status \in Live
            new == [goal |-> g, status |-> "assigned", run |-> "none", done |-> FALSE]
<1>5. PICK t : t = IF reuse THEN goals[g].task ELSE Len(tasks) + 1
  OBVIOUS
<1>6. /\ starter[s].at = "resolve"
      /\ tasks' = IF reuse THEN tasks ELSE Append(tasks, new)
      /\ goals' = [goals EXCEPT ![g].task = t]
      /\ starter' = [starter EXCEPT ![s].at = "run", ![s].task = t]
      /\ UNCHANGED <<plan, queue, owed, crashes>>
  BY <1>2, <1>4, <1>5 DEF CreateGoalTask
<1>7. tasks \in Seq(Tasks) /\ Len(tasks) \in Nat
  BY DEF FInv, IInv, TypeOK
<1>8. tasks'[t].goal = g
  <2>1. CASE reuse
    BY <1>5, <1>6, <2>1 DEF FInv, GoalsFit
  <2>2. CASE ~ reuse
    <3>1. new.goal = g /\ new \in Tasks
      BY DEF Tasks, TaskStatuses, Working, Runs
    <3> HIDE DEF new, reuse
    <3>2. tasks' = Append(tasks, new) /\ t = Len(tasks) + 1
      BY <1>5, <1>6, <2>2
    <3>3. tasks'[t] = new
      BY <1>7, <3>1, <3>2
    <3>4. QED
      BY <3>1, <3>3
  <2>3. QED
    BY <2>1, <2>2
<1> HIDE DEF new, reuse
<1>9. /\ goals'[g].task = t /\ goals'[g].status = goals[g].status
      /\ \A h \in Goals \ {g} : goals'[h] = goals[h]
  <2>1. goals[g] \in [status: {"open"} \cup Ended, task: 0..MaxTasks]
    BY DEF FInv, IInv, TypeOK
  <2>2. QED
    BY <1>6, <2>1 DEF FInv, IInv, TypeOK
<1>10. /\ starter'[s].at = "run" /\ starter'[s].item = i /\ starter'[s].task = t
       /\ \A u \in Starters \ {s} : starter'[u] = starter[u]
  <2>1. starter \in [Starters -> Calls]
    BY DEF FInv, IInv, TypeOK
  <2>2. QED
    BY <1>2, <1>6, <2>1 DEF Calls
<1>11. NonePasses
  BY <1>2, <1>6, <1>10 DEF NonePasses
<1>12. CallsFit'
  <2>1. SUFFICES ASSUME NEW u \in Starters, starter'[u].at = "run"
                 PROVE  tasks'[starter'[u].task].goal = queue'[starter'[u].item].goal
    BY DEF CallsFit
  <2>2. CASE u # s
    BY <1>1, <1>10, <2>1, <2>2, QuietCallsFit
  <2>3. CASE u = s
    <3>1. queue'[i].goal = g
      BY <1>4, <1>6
    <3>2. QED
      BY <1>8, <1>10, <2>3, <3>1
  <2>4. QED
    BY <2>2, <2>3
<1>13. ItemsFit'
  BY <1>1, <1>6, ItemsKeep
<1>14. GoalsFit'
  <2>1. ASSUME NEW h \in Goals, goals'[h].status = "completed"
        PROVE  CompletedTasks(h)' # {}
    BY <1>1, <1>9, <2>1, GoalsKeep
  <2>2. ASSUME NEW h \in Goals, goals'[h].task # 0
        PROVE  tasks'[goals'[h].task].goal = h
    BY <1>1, <1>8, <1>9, <2>2, GoalTaskKeeps
  <2>3. QED
    BY <2>1, <2>2 DEF GoalsFit
<1>15. LinksKept /\ ItemDoneHasTask'
  BY <1>1, <1>6, DoneKeeps DEF LinksKept
<1>16. QED
  BY <1>1, <1>11, <1>12, <1>13, <1>14, <1>15 DEF FInv, Quiet

LEMMA FinalizeTaskOrder ==
  ASSUME FInv, NEW t \in DOMAIN tasks, NEW status \in Held \cup Ended, NEW done \in BOOLEAN,
         NEW accepted \in BOOLEAN, FinalizeTask(t, status, done, accepted),
         accepted => status = "completed"
  PROVE  FInv' /\ Quiet
<1>1. IInv' /\ Grows
  BY FinalizeTaskKeeps DEF FInv
<1>2. tasks[t] \in Tasks
  BY DEF FInv, IInv, TypeOK
<1>3. PICK g \in Goals : g = tasks[t].goal
  BY <1>2 DEF Tasks
<1>4. PICK mine : mine = FirstItem({i \in DOMAIN queue :
                           \/ queue[i].task = t
                           \/ queue[i].goal = g /\ queue[i].status = "running"})
  OBVIOUS
<1>5. PICK q : q = IF mine \in DOMAIN queue THEN SetItem(mine, status, "none") ELSE queue
  OBVIOUS
<1>6. PICK first : first = FirstItem(ItemsOf(t))
  OBVIOUS
<1>7. PICK goalStatus \in {"completed", "blocked", "failed", "open"} :
        /\ goals' = [goals EXCEPT ![g].status = goalStatus]
        /\ goalStatus = "completed" => status = "completed"
  BY <1>3 DEF FinalizeTask
<1>8. /\ tasks' = SetTask(t, status, "none", done)
      /\ queue' = IF accepted THEN Propagate(q, g, first) ELSE q
      /\ UNCHANGED <<plan, starter, crashes>>
  BY <1>3, <1>4, <1>5, <1>6 DEF FinalizeTask
<1>9. mine \in DOMAIN queue => queue[mine].goal = g
  <2>1. {i \in DOMAIN queue : \/ queue[i].task = t
                              \/ queue[i].goal = g /\ queue[i].status = "running"}
          \subseteq {i \in DOMAIN queue : queue[i].goal = g}
    BY <1>3, TaskNotNull DEF FInv, ItemsFit
  <2>2. QED
    BY <1>4, <2>1, FirstAmong DEF FInv
<1>10. /\ DOMAIN q = DOMAIN queue
       /\ \A i \in DOMAIN queue : /\ q[i].task = queue[i].task
                                  /\ q[i].status = queue[i].status \/ (q[i].status = status /\ queue[i].goal = g)
  BY <1>5, <1>9 DEF SetItem, Marked, FInv, IInv, TypeOK
<1>11. first \in DOMAIN queue => queue[first].goal = g
  <2>1. ItemsOf(t) \subseteq {i \in DOMAIN queue : queue[i].goal = g}
    BY <1>3, TaskNotNull DEF FInv, ItemsFit, ItemsOf
  <2>2. QED
    BY <1>6, <2>1, FirstAmong DEF FInv
<1>19. /\ DOMAIN queue' = DOMAIN queue
       /\ \A i \in DOMAIN queue :
            /\ queue'[i].task = queue[i].task
            /\ queue'[i].status = "completed" =>
                  \/ queue[i].status = "completed"
                  \/ queue[i].goal = g /\ (status = "completed" \/ accepted)
  BY <1>8, <1>10, <1>11 DEF Propagate, Marked
<1>12. QuietCalls
  BY <1>8 DEF QuietCalls
<1>13. /\ goals'[g].status = goalStatus
       /\ \A h \in Goals : goals'[h].task = goals[h].task
       /\ \A h \in Goals \ {g} : goals'[h] = goals[h]
  BY <1>7 DEF FInv, IInv, TypeOK
<1>14. tasks'[t].status = status /\ tasks'[t].goal = g /\ t \in DOMAIN tasks'
  BY <1>1, <1>3, <1>8 DEF SetTask, Grows, FInv, IInv, TypeOK
<1>15. GoalsFit'
  <2>1. ASSUME NEW h \in Goals, goals'[h].status = "completed"
        PROVE  CompletedTasks(h)' # {}
    <3>1. CASE h = g
      <4>1. t \in CompletedTasks(g)'
        BY <1>7, <1>13, <1>14, <2>1, <3>1 DEF CompletedTasks
      <4>2. QED
        BY <3>1, <4>1
    <3>2. CASE h # g
      BY <1>1, <1>13, <2>1, <3>2, GoalsKeep
    <3>3. QED
      BY <3>1, <3>2
  <2>2. ASSUME NEW h \in Goals, goals'[h].task # 0
        PROVE  tasks'[goals'[h].task].goal = h
    BY <1>1, <1>13, <2>2, GoalTaskKeeps
  <2>3. QED
    BY <2>1, <2>2 DEF GoalsFit
<1>16. ItemsFit' /\ CallsFit' /\ LinksKept
  BY <1>1, <1>12, <1>19, ItemsKeep, CallsKeep DEF LinksKept
<1>17. NonePasses
  BY <1>12 DEF QuietCalls, NonePasses
<1>18. ItemDoneHasTask'
  <2>1. \A i \in DOMAIN queue' : queue'[i].status = "completed" =>
            /\ i \in DOMAIN queue
            /\ \/ queue[i].status = "completed"
               \/ \E u \in DOMAIN tasks' :
                    tasks'[u].goal = queue[i].goal /\ tasks'[u].status = "completed"
    BY <1>14, <1>19
  <2>2. QED
    BY <1>1, <2>1, DoneKeeps
<1>20. QED
  BY <1>1, <1>15, <1>16, <1>17, <1>18 DEF FInv, Quiet

LEMMA FinalizeOrder ==
  ASSUME FInv, NEW t \in DOMAIN tasks, Finalize(t)
  PROVE  FInv' /\ Quiet
BY FinalizeTaskOrder DEF Finalize, Held, Ended

\* A recovered review completes the first item of its task or goal when the task
\* is completed with it.
LEMMA RecoverReviewOrder ==
  ASSUME FInv, NEW t \in DOMAIN tasks, NEW ok \in BOOLEAN, RecoverReview(t, ok)
  PROVE  FInv' /\ Quiet
<1>1. IInv' /\ Grows
  BY RecoverReviewKeeps DEF FInv
<1>2. PICK i : i = FirstItem(ItemsOf(t))
  OBVIOUS
<1>3. PICK status : status = IF ok THEN "completed" ELSE "running"
  OBVIOUS
<1>4. /\ queue' = IF i \in ItemsOf(t) THEN SetItem(i, status, "none") ELSE queue
      /\ ok => tasks' = SetTask(t, "completed", tasks[t].run, TRUE)
      /\ UNCHANGED <<plan, goals, starter, owed, crashes>>
  BY <1>2, <1>3 DEF RecoverReview
<1>5. /\ DOMAIN queue' = DOMAIN queue
      /\ \A j \in DOMAIN queue : queue'[j].task = queue[j].task
      /\ \A j \in DOMAIN queue :
            queue'[j].status = queue[j].status \/ (j \in ItemsOf(t) /\ queue'[j].status = status)
  <2>1. CASE i \in ItemsOf(t)
    <3>1. i \in DOMAIN queue
      BY <2>1 DEF ItemsOf
    <3>2. /\ Marked(queue[i], status, "none").task = queue[i].task
          /\ Marked(queue[i], status, "none").status = status
      BY DEF Marked
    <3>3. /\ DOMAIN queue' = DOMAIN queue /\ queue'[i] = Marked(queue[i], status, "none")
          /\ \A j \in DOMAIN queue \ {i} : queue'[j] = queue[j]
      BY <1>4, <2>1, <3>1 DEF SetItem, FInv, IInv, TypeOK
    <3>4. QED
      BY <2>1, <3>2, <3>3
  <2>2. CASE i \notin ItemsOf(t)
    <3>1. queue' = queue
      BY <1>4, <2>2
    <3>2. QED
      BY <3>1
  <2>3. QED
    BY <2>1, <2>2
<1>6. QuietCalls /\ QuietGoals
  BY <1>4, SameCallsQuiet, SameGoalsQuiet
<1>7. ASSUME ok, NEW j \in ItemsOf(t)
      PROVE  \E u \in DOMAIN tasks' :
                tasks'[u].goal = queue[j].goal /\ tasks'[u].status = "completed"
  <2>1. j \in DOMAIN queue /\ tasks[t].goal = queue[j].goal
    BY <1>7, TaskNotNull DEF ItemsOf, FInv, ItemsFit
  <2>2. /\ t \in DOMAIN tasks' /\ tasks'[t].status = "completed"
        /\ tasks'[t].goal = tasks[t].goal
    BY <1>1, <1>4, <1>7 DEF SetTask, Grows, FInv, IInv, TypeOK
  <2>3. QED
    BY <2>1, <2>2
<1>8. ItemsFit' /\ CallsFit' /\ GoalsFit'
  BY <1>1, <1>5, <1>6, ItemsKeep, CallsKeep, GoalsKeep, GoalTaskKeeps DEF QuietGoals, GoalsFit
<1>9. ItemDoneHasTask'
  BY <1>1, <1>3, <1>5, <1>7, DoneKeeps
<1>10. LinksKept /\ NonePasses
  BY <1>5, <1>6 DEF LinksKept, NonePasses, QuietCalls
<1>11. QED
  BY <1>1, <1>8, <1>9, <1>10 DEF FInv, Quiet

\* A start of the server completes a goal with its task.
LEMMA ReconcileTaskOrder ==
  ASSUME FInv, NEW t \in DOMAIN tasks, ReconcileRunningTask(t)
  PROVE  FInv' /\ Quiet
<1>1. IInv' /\ Grows
  BY ReconcileTaskKeeps DEF FInv
<1>2. tasks[t] \in Tasks
  BY DEF FInv, IInv, TypeOK
<1>3. PICK g \in Goals : g = tasks[t].goal
  BY <1>2 DEF Tasks
<1>4. UNCHANGED <<plan, queue, starter, owed, crashes>>
  BY DEF ReconcileRunningTask
<1>5. QuietItems /\ QuietCalls
  BY <1>4, SameItemsQuiet, SameCallsQuiet
<1>6. \/ UNCHANGED goals
      \/ \E status \in {"completed", "failed"}, done \in BOOLEAN :
            /\ tasks' = SetTask(t, status, "none", done)
            /\ goals' = [goals EXCEPT ![g].status = status]
  BY <1>3 DEF ReconcileRunningTask
<1>7. CASE UNCHANGED goals
  BY <1>1, <1>5, <1>7, SameGoalsQuiet, QuietKeeps
<1>8. ASSUME NEW status \in {"completed", "failed"}, NEW done \in BOOLEAN,
             tasks' = SetTask(t, status, "none", done),
             goals' = [goals EXCEPT ![g].status = status]
      PROVE  FInv' /\ Quiet
  <2>1. /\ goals'[g].status = status
        /\ \A h \in Goals : goals'[h].task = goals[h].task
        /\ \A h \in Goals \ {g} : goals'[h] = goals[h]
    BY <1>8 DEF FInv, IInv, TypeOK
  <2>2. tasks'[t].status = status /\ tasks'[t].goal = g /\ t \in DOMAIN tasks'
    BY <1>1, <1>3, <1>8 DEF SetTask, Grows, FInv, IInv, TypeOK
  <2>3. ASSUME NEW h \in Goals, goals'[h].status = "completed"
        PROVE  CompletedTasks(h)' # {}
    <3>1. CASE h = g
      <4>1. t \in CompletedTasks(g)'
        BY <2>1, <2>2, <2>3, <3>1 DEF CompletedTasks
      <4>2. QED
        BY <3>1, <4>1
    <3>2. CASE h # g
      BY <1>1, <2>1, <2>3, <3>2, GoalsKeep
    <3>3. QED
      BY <3>1, <3>2
  <2>4. GoalsFit'
    BY <1>1, <2>1, <2>3, GoalTaskKeeps DEF GoalsFit
  <2>5. ItemsFit' /\ CallsFit' /\ LinksKept /\ NonePasses
    BY <1>1, <1>5, ItemsKeep, CallsKeep DEF QuietItems, QuietCalls, LinksKept, NonePasses
  <2>6. ItemDoneHasTask'
    BY <1>1, <1>5, DoneKeeps DEF QuietItems
  <2>7. QED
    BY <1>1, <2>4, <2>5, <2>6 DEF FInv, Quiet
<1>9. QED
  BY <1>6, <1>7, <1>8

\* The mirror gives an item the status of the task it is linked to.
LEMMA ReconcileRunningOrder ==
  ASSUME FInv, ReconcileRunningQueueItems
  PROVE  FInv' /\ Quiet
<1>. DEFINE After(i) == QueueStatusForTaskStatus(tasks[queue[i].task].status)
            Linked(i) == queue[i].status = "running" /\ queue[i].task # 0
<1>1. queue' = [i \in DOMAIN queue |->
             IF Linked(i) /\ After(i) # "running"
             THEN Marked(queue[i], After(i), IF After(i) = "blocked" THEN "other" ELSE "none")
             ELSE queue[i]]
  BY DEF ReconcileRunningQueueItems
<1>2. ASSUME NEW i \in DOMAIN queue, Linked(i), After(i) = "completed"
      PROVE  \E t \in DOMAIN tasks :
                tasks[t].goal = queue[i].goal /\ tasks[t].status = "completed"
  <2>1. queue[i].task \in DOMAIN tasks /\ tasks[queue[i].task].goal = queue[i].goal
    BY <1>2 DEF FInv, IInv, ItemRefs, ItemsFit
  <2>2. tasks[queue[i].task].status = "completed"
    BY <1>2 DEF QueueStatusForTaskStatus
  <2>3. QED
    BY <2>1, <2>2
<1> HIDE DEF After, Linked
<1>3. /\ DOMAIN queue' = DOMAIN queue
      /\ \A i \in DOMAIN queue : /\ queue'[i].task = queue[i].task
                                 /\ queue'[i].status = "completed" =>
                                      \/ queue[i].status = "completed"
                                      \/ Linked(i) /\ After(i) = "completed"
  BY <1>1 DEF Marked
<1>4. IInv' /\ Grows
  BY ReconcileRunningKeeps DEF FInv
<1>5. QuietCalls /\ QuietGoals /\ tasks' = tasks
  BY SameCallsQuiet, SameGoalsQuiet DEF ReconcileRunningQueueItems
<1>6. ItemsFit' /\ CallsFit' /\ GoalsFit' /\ LinksKept /\ NonePasses
  BY <1>3, <1>4, <1>5, ItemsKeep, CallsKeep, GoalsKeep, GoalTaskKeeps
     DEF QuietGoals, QuietCalls, GoalsFit, LinksKept, NonePasses
<1>7. ItemDoneHasTask'
  BY <1>2, <1>3, <1>4, <1>5, DoneKeeps
<1>8. QED
  BY <1>4, <1>6, <1>7 DEF FInv, Quiet

-----------------------------------------------------------------------------
(* The theorem.                                                            *)

LEMMA InitFInv == Init => FInv /\ CallsMet /\ ItemsMet
<1>. SUFFICES ASSUME Init PROVE FInv /\ CallsMet /\ ItemsMet
  OBVIOUS
<1>1. queue = <<>> /\ DOMAIN queue = {}
  BY DEF Init
<1>2. Idle.at = "idle"
  BY DEF Idle
<1>3. \A s \in Starters : starter[s].at = "idle"
  BY <1>2 DEF Init
<1>4. \A g \in Goals : goals[g].status = "open" /\ goals[g].task = 0
  BY DEF Init
<1>5. ItemsFit /\ CallsFit /\ GoalsFit /\ ItemDoneHasTask
  BY <1>1, <1>3, <1>4 DEF ItemsFit, CallsFit, GoalsFit, ItemDoneHasTask
<1>6. CallsMet /\ ItemsMet
  BY <1>1, <1>3 DEF CallsMet, ItemsMet
<1>7. QED
  BY <1>5, <1>6, InitInv DEF FInv

\* Every step is quiet, or a scan, or the start of an item.
LEMMA NextQuiet ==
  ASSUME FInv, [Next]_vars
  PROVE  FInv' /\ (Quiet \/ \E s \in Starters : ScanNext(s) \/ RunItem(s))
<1>1. ASSUME NEW s \in Starters, StarterStep(s)
      PROVE  FInv' /\ (Quiet \/ ScanNext(s) \/ RunItem(s))
  BY <1>1, ScanNextOrder, EndsQuiet, RefusalsQuiet, CreateGoalTaskOrder, RunItemOrder,
     PickQuiet, GatesPassQuiet DEF StarterStep
<1>2. ASSUME NEW t \in DOMAIN tasks,
             \/ Execution(t) \/ BeginRetry(t) \/ EndRetry(t)
             \/ CancelTask(t) \/ ReconcileRunningTask(t)
             \/ \E integrated \in BOOLEAN : RecoverReview(t, integrated)
      PROVE  FInv' /\ Quiet
  BY <1>2, QuietTasks, FinalizeOrder, ReconcileTaskOrder, RecoverReviewOrder DEF Execution
<1>3. QED
  BY <1>1, <1>2, EnqueueOrder, ToolsQuiet, BeginQuiet, TickQuiet, ReconcileRunningOrder,
     CrashQuiet, StutterQuiet DEF Next

\* An item is reported done only when its goal has a completed task: with any
\* number of overlapping starts and of duplicate tasks, with finalizations that
\* write over a cancellation (mutateFinalTaskState), with recovered reviews,
\* mirrors (reconcileRunningQueueItems) and crashes at every await.
THEOREM DoneTheorem == Spec => []ItemDoneHasTask
<1>1. FInv /\ [Next]_vars => FInv'
  BY NextQuiet
<1>2. FInv => ItemDoneHasTask
  BY DEF FInv
<1>3. QED
  BY InitFInv, <1>1, <1>2, PTL DEF Spec

\* An item that keeps its task keeps what let it run.
LEMMA LinksStart ==
  ASSUME WaitsForSuccess, FInv, ItemsMet, LinksKept
  PROVE  Starts
BY MetGates DEF Starts, ItemsMet, LinksKept

LEMMA NextMet ==
  ASSUME WaitsForSuccess
  PROVE  FInv /\ CallsMet /\ ItemsMet /\ [Next]_vars => CallsMet' /\ ItemsMet' /\ Starts
<1>1. SUFFICES ASSUME FInv, CallsMet, ItemsMet, [Next]_vars PROVE CallsMet' /\ ItemsMet' /\ Starts
  OBVIOUS
<1>2. CASE Quiet
  BY <1>1, <1>2, CallsMetKeep, ItemsMetKeep, LinksStart DEF Quiet, FInv
<1>3. ASSUME NEW s \in Starters, ScanNext(s) PROVE CallsMet' /\ ItemsMet' /\ Starts
  BY <1>1, <1>3, ScanNextMet, ScanNextOrder, ItemsMetKeep, LinksStart
<1>4. ASSUME NEW s \in Starters, RunItem(s) PROVE CallsMet' /\ ItemsMet' /\ Starts
  BY <1>1, <1>4, RunItemStarts, RunItemOrder, CallsMetKeep DEF FInv
<1>5. QED
  BY <1>1, <1>2, <1>3, <1>4, NextQuiet

\* When no item is content with a goal that merely ended, an item runs with a
\* task at work only while its gates hold, however many calls overlap between
\* asking and starting, and also when a recovered review runs it again.
THEOREM OrderTheorem == ASSUME WaitsForSuccess PROVE Spec => StartsAfterDependency
<1>1. FInv /\ CallsMet /\ ItemsMet /\ [Next]_vars =>
        [\A i \in DOMAIN queue :
            /\ queue[i].status # "running" /\ queue'[i].status = "running"
            /\ queue'[i].task # 0 /\ tasks[queue'[i].task].status \in Working
            => CheckDependency(i) /\ CheckAcceptanceGate(i)]_vars
  BY NextMet DEF Starts
<1>2. FInv /\ CallsMet /\ ItemsMet /\ [Next]_vars => FInv' /\ CallsMet' /\ ItemsMet'
  BY NextQuiet, NextMet
<1>3. QED
  BY InitFInv, <1>1, <1>2, PTL DEF Spec, StartsAfterDependency

-----------------------------------------------------------------------------
(* A blocked item whose turn has come has someone to free it.              *)

\* Nothing fails, is held for review, is cancelled or crashes, and no
\* worktree is refused: what can stop an item is another item's work.
Undisturbed == MaxCrashes = 0 /\ Faults \subseteq {"lock", "noEvidence", "operator"}

\* A task at work will end and owe a tick.
AtWork == \E t \in DOMAIN tasks : tasks[t].status \in Working

AllGoesWell ==
    /\ \A i \in DOMAIN queue : queue[i].status # "cancelled"
    /\ \A t \in DOMAIN tasks : /\ tasks[t].status \in Working \cup {"completed"}
                               /\ tasks[t].status = "running" => tasks[t].run = "codex"

GoalsOnce == \A i, j \in DOMAIN queue : queue[i].goal = queue[j].goal => i = j

RunsItsTask ==
    \A i \in DOMAIN queue : queue[i].status = "running" =>
        queue[i].task # 0 /\ tasks[queue[i].task].status \in Working

CallRunsTask ==
    \A s \in Starters : starter[s].at = "run" => tasks[starter[s].task].status \in Working

WInv == FInv /\ GoalsOnce /\ AllGoesWell /\ RunsItsTask /\ CallRunsTask /\ NoWakeupLost

\* An item that a gate refuses waits for what is not done, or for work.
LEMMA RefusalHasCause ==
  ASSUME WInv, NEW i \in DOMAIN queue,
         ~ (CheckDependency(i) /\ CheckAcceptanceGate(i) /\ CheckRepoConcurrency(i))
  PROVE  ~ EffectiveCompleted(i) \/ AtWork
<1>1. CASE ~ CheckRepoConcurrency(i)
  <2>1. PICK j \in DOMAIN queue : queue[j].status = "running"
    BY <1>1 DEF CheckRepoConcurrency
  <2>2. queue[j].task \in DOMAIN tasks /\ tasks[queue[j].task].status \in Working
    BY <2>1 DEF WInv, RunsItsTask, FInv, IInv, ItemRefs
  <2>3. QED
    BY <2>2 DEF AtWork
<1>2. CASE ~ CheckDependency(i) \/ ~ CheckAcceptanceGate(i)
  <2>1. PlanOf(i).kind \in {"none", "goal", "task"}
    <3>1. queue[i] \in Items /\ plan \in Plans
      BY DEF WInv, FInv, IInv, TypeOK
    <3>2. queue[i].goal \in Goals
      BY <3>1 DEF Items
    <3>3. QED
      BY <3>1, <3>2, PlanAssumption DEF PlanOf
  <2>2. QED
    BY <1>2, <2>1
       DEF CheckDependency, DependencyStatus, CheckAcceptanceGate, GoalStatus, EffectiveCompleted
<1>3. QED
  BY <1>1, <1>2

\* A step that starts and ends no work.  It may take what is owed if it leaves
\* nothing blocked that may go on.
CalmItems ==
    /\ DOMAIN queue' = DOMAIN queue
    /\ \A i \in DOMAIN queue :
        /\ queue'[i].task = queue[i].task
        /\ queue'[i].status = "cancelled" => queue[i].status = "cancelled"
        /\ queue'[i].status = "running" => queue[i].status = "running"

CalmBlocks ==
    \/ /\ owed' = owed
       /\ \A i \in DOMAIN queue : queue'[i].status = "blocked" =>
              queue[i].status = "blocked" \/ ~ EffectiveCompleted(i) \/ AtWork
    \/ \A i \in DOMAIN queue : queue'[i].status = "blocked" => ~ EffectiveCompleted(i)

CalmCalls == \A s \in Starters : starter'[s].at = "run" => starter'[s] = starter[s]

LEMMA CalmKeeps ==
  ASSUME WInv, FInv', Grows, CalmItems, CalmBlocks, CalmCalls, UNCHANGED tasks
  PROVE  WInv'
<1>1. GoalsOnce' /\ AllGoesWell'
  BY DEF WInv, GoalsOnce, AllGoesWell, Grows, CalmItems
<1>2. RunsItsTask' /\ CallRunsTask'
  BY DEF WInv, RunsItsTask, CallRunsTask, CalmItems, CalmCalls
<1>3. NoWakeupLost'
  <2>1. SUFFICES ASSUME NEW i \in DOMAIN queue, queue'[i].status = "blocked",
                        EffectiveCompleted(i)'
                 PROVE  owed' # {} \/ AtWork'
    BY DEF NoWakeupLost, AtWork, CalmItems
  <2>2. /\ plan' = plan /\ tasks' = tasks
        /\ queue'[i].goal = queue[i].goal /\ queue'[i].on = queue[i].on
    BY DEF Grows
  <2>3. EffectiveCompleted(i)
    BY <2>1, <2>2 DEF EffectiveCompleted, PlanOf, CompletedTasks
  <2>4. AtWork' <=> AtWork
    BY <2>2 DEF AtWork
  <2>5. QED
    BY <2>1, <2>3, <2>4 DEF CalmBlocks, WInv, NoWakeupLost, AtWork
<1>4. QED
  BY <1>1, <1>2, <1>3 DEF WInv

LEMMA SameItemsCalm == ASSUME UNCHANGED queue PROVE CalmItems
BY DEF CalmItems

LEMMA SameBlocksCalm ==
  ASSUME UNCHANGED owed,
         \A i \in DOMAIN queue : queue'[i].status = "blocked" => queue[i].status = "blocked"
  PROVE  CalmBlocks
BY DEF CalmBlocks

LEMMA ReturnCalm == ASSUME WInv, NEW s \in Starters, Return(s) PROVE CalmCalls
<1>1. Idle.at = "idle"
  BY DEF Idle
<1>2. QED
  BY <1>1 DEF Return, CalmCalls, WInv, FInv, IInv, TypeOK

LEMMA MoveCalm ==
  ASSUME NEW s \in Starters, starter'[s].at # "run",
         \A u \in Starters \ {s} : starter'[u] = starter[u]
  PROVE  CalmCalls
BY DEF CalmCalls

\* Setting one item to "blocked" for a cause, or to "ready".
LEMMA SetItemCalm ==
  ASSUME WInv, NEW i \in DOMAIN queue, NEW reason, NEW status \in {"blocked", "ready"},
         queue' = SetItem(i, status, reason), UNCHANGED owed,
         status = "blocked" => ~ EffectiveCompleted(i) \/ AtWork
  PROVE  CalmItems /\ CalmBlocks
<1>1. /\ Marked(queue[i], status, reason).task = queue[i].task
      /\ Marked(queue[i], status, reason).status = status
  BY DEF Marked
<1>2. /\ DOMAIN queue' = DOMAIN queue /\ queue'[i] = Marked(queue[i], status, reason)
      /\ \A j \in DOMAIN queue \ {i} : queue'[j] = queue[j]
  BY DEF SetItem, WInv, FInv, IInv, TypeOK
<1>3. QED
  BY <1>1, <1>2 DEF CalmItems, CalmBlocks

LEMMA RecheckCalm ==
  ASSUME queue' = RecheckTransientBlockedItems, UNCHANGED owed
  PROVE  CalmItems /\ CalmBlocks
BY DEF CalmItems, CalmBlocks, RecheckTransientBlockedItems, Marked

LEMMA BeginsCalm ==
  ASSUME WInv, FInv', Grows, NEW s \in Starters,
         \/ \E kind \in {"worker", "tool"} : BeginStart(s, kind)
         \/ \E t \in owed : AutoStartNextOnTaskCompleted(s, t)
  PROVE  WInv'
<1>1. /\ starter'[s].at \in {"list", "pick"} /\ UNCHANGED tasks
      /\ \A u \in Starters \ {s} : starter'[u] = starter[u]
  BY DEF BeginStart, AutoStartNextOnTaskCompleted, WInv, FInv, IInv, TypeOK, Calls
<1>2. CASE \E kind \in {"worker", "tool"} : BeginStart(s, kind)
  BY <1>1, <1>2, RecheckCalm, MoveCalm, CalmKeeps DEF BeginStart
<1>3. CASE \E t \in owed : AutoStartNextOnTaskCompleted(s, t)
  <2>1. queue' = ReconcileQueue
    BY <1>3 DEF AutoStartNextOnTaskCompleted
  <2>2. CalmItems /\ CalmBlocks
    BY <2>1 DEF CalmItems, CalmBlocks, ReconcileQueue, Marked, Eligible
  <2>3. QED
    BY <1>1, <2>2, MoveCalm, CalmKeeps
<1>4. QED
  BY <1>2, <1>3

LEMMA ScanNextCalm ==
  ASSUME WInv, FInv', Grows, NEW s \in Starters, ScanNext(s)
  PROVE  WInv'
<1>1. PICK i \in DOMAIN queue, at \in {"resolve", "scan"} :
        /\ Scan(s, i, at)
        /\ \/ UNCHANGED queue
           \/ /\ queue' = SetItem(i, "blocked", IF CheckDependency(i) THEN "other" ELSE "dependency")
              /\ ~ (CheckDependency(i) /\ CheckAcceptanceGate(i) /\ CheckRepoConcurrency(i))
  BY DEF ScanNext
<1>2. UNCHANGED <<tasks, owed>>
  BY DEF ScanNext
<1>3. /\ starter'[s].at = at
      /\ \A u \in Starters \ {s} : starter'[u] = starter[u]
  BY <1>1 DEF Scan, WInv, FInv, IInv, TypeOK
<1>4. CalmItems /\ CalmBlocks
  BY <1>1, <1>2, SetItemCalm, RefusalHasCause, SameItemsCalm, SameBlocksCalm
<1>5. QED
  BY <1>1, <1>2, <1>3, <1>4, MoveCalm, CalmKeeps

LEMMA PickItemCalm ==
  ASSUME WInv, FInv', Grows, NEW s \in Starters, PickItem(s)
  PROVE  WInv'
<1>1. PICK i \in DOMAIN queue :
        \/ starter' = [starter EXCEPT ![s].at = "gates", ![s].item = i] /\ UNCHANGED queue
        \/ /\ Return(s) /\ queue' = SetItem(i, "blocked", "other")
           /\ ~ (/\ EffectiveCompleted(i) /\ CheckAcceptanceGate(i)
                 /\ CheckDependency(i) /\ CheckRepoConcurrency(i))
  BY DEF PickItem
<1>2. UNCHANGED <<tasks, owed>>
  BY DEF PickItem
<1>3. CalmItems /\ CalmBlocks
  BY <1>1, <1>2, SetItemCalm, RefusalHasCause, SameItemsCalm, SameBlocksCalm
<1>4. CalmCalls
  <2>1. CASE starter' = [starter EXCEPT ![s].at = "gates", ![s].item = i]
    <3>1. /\ starter'[s].at = "gates"
          /\ \A u \in Starters \ {s} : starter'[u] = starter[u]
      BY <2>1 DEF WInv, FInv, IInv, TypeOK, Calls
    <3>2. QED
      BY <3>1, MoveCalm
  <2>2. QED
    BY <1>1, <2>1, ReturnCalm
<1>5. QED
  BY <1>2, <1>3, <1>4, CalmKeeps

LEMMA CallsCalm ==
  ASSUME Undisturbed, WInv, FInv', Grows, NEW s \in Starters,
         \/ ScanEnds(s) \/ NothingToPick(s) \/ ResolveFails(s) \/ GatesRefuse(s) \/ GatesPass(s)
  PROVE  WInv'
<1>1. CASE ScanEnds(s) \/ NothingToPick(s)
  <2>1. Return(s) /\ UNCHANGED <<queue, tasks, owed>>
    BY <1>1 DEF ScanEnds, NothingToPick
  <2>2. QED
    BY <2>1, ReturnCalm, SameItemsCalm, SameBlocksCalm, CalmKeeps
<1>2. ~ ResolveFails(s)
  BY DEF ResolveFails, Undisturbed
<1>3. CASE GatesRefuse(s)
  <2>1. PICK i \in DOMAIN queue : i = starter[s].item
    BY <1>3 DEF GatesRefuse, WInv, FInv, IInv, CallRefs
  <2>2. LocksHeld /\ Return(s) /\ UNCHANGED <<tasks, owed>> /\ queue' = SetItem(i, "blocked", "other")
    BY <1>3, <2>1 DEF GatesRefuse, Undisturbed
  <2>3. AtWork
    BY <2>2 DEF LocksHeld, AtWork, Working, WInv, AllGoesWell, FInv, IInv, RunsFit, RunFits
  <2>4. QED
    BY <2>2, <2>3, SetItemCalm, ReturnCalm, CalmKeeps
<1>4. CASE GatesPass(s)
  <2>1. /\ starter'[s].at = "list" /\ UNCHANGED <<tasks, owed>>
        /\ \A u \in Starters \ {s} : starter'[u] = starter[u]
    BY <1>4 DEF GatesPass, Goto, WInv, FInv, IInv, TypeOK, Calls
  <2>2. QED
    BY <1>4, <2>1, RecheckCalm, MoveCalm, CalmKeeps DEF GatesPass
<1>5. QED
  BY <1>1, <1>2, <1>3, <1>4

LEMMA UpdateItemCalm ==
  ASSUME WInv, FInv', Grows, NEW i \in DOMAIN queue, UpdateGoalQueueItem(i)
  PROVE  WInv'
<1>1. CalmItems /\ CalmBlocks
  BY SetItemCalm DEF UpdateGoalQueueItem
<1>2. QED
  BY <1>1, CalmKeeps DEF UpdateGoalQueueItem, CalmCalls

\* The mirror finds nothing to do: what runs has a task at work.
LEMMA NothingToMirror == ASSUME WInv PROVE ~ ReconcileRunningQueueItems
BY DEF WInv, RunsItsTask, ReconcileRunningQueueItems, QueueStatusForTaskStatus, Held, Working

LEMMA EnqueueCalm ==
  ASSUME WInv, FInv', Grows, NEW g \in Goals, EnqueueGoal(g)
  PROVE  WInv'
<1>1. PICK item : /\ queue' = Append(queue, item) /\ item.goal = g
                  /\ item.status = "waiting" /\ item.task = 0
  BY DEF EnqueueGoal
<1>2. UNCHANGED <<plan, tasks, goals, starter, owed, crashes>>
  BY DEF EnqueueGoal
<1>3. /\ \A i \in DOMAIN queue : i \in DOMAIN queue' /\ queue'[i] = queue[i]
      /\ \A i \in DOMAIN queue' : i \in DOMAIN queue \/ (i = Len(queue) + 1 /\ queue'[i] = item)
  BY <1>1 DEF WInv, FInv, IInv, TypeOK
<1>4. \A i \in DOMAIN queue : queue[i].goal # g
  BY DEF EnqueueGoal, Unqueued, WInv, AllGoesWell
<1>5. GoalsOnce'
  BY <1>1, <1>3, <1>4 DEF GoalsOnce, WInv
<1>6. AllGoesWell' /\ RunsItsTask' /\ CallRunsTask'
  BY <1>1, <1>2, <1>3 DEF AllGoesWell, RunsItsTask, CallRunsTask, WInv
<1>7. NoWakeupLost'
  <2>1. SUFFICES ASSUME NEW i \in DOMAIN queue', queue'[i].status = "blocked",
                        EffectiveCompleted(i)'
                 PROVE  owed' # {} \/ AtWork'
    BY DEF NoWakeupLost, AtWork
  <2>2. i \in DOMAIN queue /\ queue'[i] = queue[i]
    BY <1>1, <1>3, <2>1
  <2>3. EffectiveCompleted(i)
    BY <1>2, <2>1, <2>2 DEF EffectiveCompleted, PlanOf, CompletedTasks
  <2>4. AtWork' <=> AtWork
    BY <1>2 DEF AtWork
  <2>5. QED
    BY <1>2, <2>1, <2>2, <2>3, <2>4 DEF WInv, NoWakeupLost, AtWork
<1>8. QED
  BY <1>5, <1>6, <1>7 DEF WInv

\* The task that is made or found is at work.
LEMMA CreateGoalTaskWakes ==
  ASSUME WInv, FInv', Grows, NEW s \in Starters, CreateGoalTask(s)
  PROVE  WInv'
<1>1. PICK i \in DOMAIN queue : i = starter[s].item
  BY DEF CreateGoalTask, WInv, FInv, IInv, CallRefs
<1>. DEFINE g == queue[i].goal
            reuse == goals[g].task # 0 /\ tasks[goals[g].task].status \in Live
<1>2. PICK task : task = [goal |-> g, status |-> "assigned", run |-> "none", done |-> FALSE]
  OBVIOUS
<1>3. PICK t : t = IF reuse THEN goals[g].task ELSE Len(tasks) + 1
  OBVIOUS
<1>4. g \in Goals
  <2>1. queue[i] \in Items
    BY DEF WInv, FInv, IInv, TypeOK
  <2>2. QED
    BY <2>1 DEF Items
<1>5. /\ UNCHANGED <<plan, queue, owed>>
      /\ starter' = [starter EXCEPT ![s].at = "run", ![s].task = t]
      /\ \/ tasks' = tasks /\ t \in DOMAIN tasks /\ tasks[t].status \in Working
         \/ tasks' = Append(tasks, task) /\ t = Len(tasks) + 1
  <2>1. reuse => t \in DOMAIN tasks /\ tasks[t].status \in Working
    BY <1>3, <1>4 DEF WInv, AllGoesWell, FInv, IInv, GoalRefs, Live, Held
  <2>2. QED
    BY <1>1, <1>2, <1>3, <2>1 DEF CreateGoalTask
<1> HIDE DEF g, reuse
<1>6. tasks \in Seq(Tasks) /\ Len(tasks) \in Nat /\ task.status \in Working \ {"running"}
  BY <1>2 DEF WInv, FInv, IInv, TypeOK, Working
<1>7. /\ \A u \in DOMAIN tasks : u \in DOMAIN tasks' /\ tasks'[u] = tasks[u]
      /\ t \in DOMAIN tasks' /\ tasks'[t].status \in Working
      /\ \A u \in DOMAIN tasks' : u \in DOMAIN tasks \/ tasks'[u] = task
  BY <1>5, <1>6
<1>8. /\ starter'[s].task = t
      /\ \A u \in Starters \ {s} : starter'[u] = starter[u]
  BY <1>5 DEF WInv, FInv, IInv, TypeOK, Calls
<1>9. GoalsOnce' /\ AllGoesWell'
  BY <1>5, <1>6, <1>7 DEF WInv, GoalsOnce, AllGoesWell
<1>10. RunsItsTask'
  BY <1>5, <1>7 DEF WInv, RunsItsTask, FInv, IInv, ItemRefs
<1>11. CallRunsTask'
  BY <1>7, <1>8 DEF WInv, CallRunsTask, FInv, IInv, CallRefs
<1>12. NoWakeupLost'
  BY <1>7 DEF NoWakeupLost
<1>13. QED
  BY <1>9, <1>10, <1>11, <1>12 DEF WInv

LEMMA RunItemWakes ==
  ASSUME WInv, FInv', Grows, NEW s \in Starters, RunItem(s)
  PROVE  WInv'
<1>1. PICK i \in DOMAIN queue : i = starter[s].item
  BY DEF RunItem, WInv, FInv, IInv, CallRefs
<1>2. PICK t \in DOMAIN tasks : t = starter[s].task /\ tasks[t].status \in Working /\ t # 0
  BY DEF RunItem, WInv, CallRunsTask, FInv, IInv, TypeOK, CallRefs
<1>3. UNCHANGED <<plan, tasks, owed>> /\ Return(s)
  BY DEF RunItem
<1>4. /\ DOMAIN queue' = DOMAIN queue
      /\ queue'[i].task = t /\ queue'[i].status = "running"
      /\ \A j \in DOMAIN queue \ {i} : queue'[j] = queue[j]
  BY <1>1, <1>2 DEF RunItem, WInv, FInv, IInv, TypeOK
<1>5. GoalsOnce' /\ AllGoesWell'
  BY <1>3, <1>4 DEF WInv, GoalsOnce, AllGoesWell, Grows
<1>6. RunsItsTask'
  BY <1>2, <1>3, <1>4 DEF WInv, RunsItsTask
<1>7. CallRunsTask'
  BY <1>3, ReturnCalm DEF WInv, CallRunsTask, CalmCalls
<1>8. NoWakeupLost'
  BY <1>2, <1>3 DEF NoWakeupLost
<1>9. QED
  BY <1>5, <1>6, <1>7, <1>8 DEF WInv

LEMMA FirstOfOne ==
  ASSUME IInv, NEW i \in DOMAIN queue
  PROVE  FirstItem({i}) = i
<1>1. i \in Nat /\ i <= MaxItems /\ MaxItems \in Nat
  BY PlanAssumption DEF IInv, TypeOK
<1>2. {i} \cup {MaxItems + 1} = {i, MaxItems + 1}
  OBVIOUS
<1>3. FirstItem({i}) = CHOOSE x \in {i, MaxItems + 1} : \A y \in {i, MaxItems + 1} : x <= y
  BY <1>2 DEF FirstItem, Min
<1>4. QED
  BY <1>1, <1>3

\* The completion owes a tick, and takes its own item out of the running ones.
LEMMA FinalizeWakes ==
  ASSUME WInv, FInv', Grows, NEW t \in DOMAIN tasks, NEW done, NEW accepted \in BOOLEAN,
         FinalizeTask(t, "completed", done, accepted)
  PROVE  WInv'
<1>1. PICK g : g = tasks[t].goal
  OBVIOUS
<1>2. PICK mine : mine = FirstItem({i \in DOMAIN queue :
                             \/ queue[i].task = t
                             \/ queue[i].goal = g /\ queue[i].status = "running"})
  OBVIOUS
<1>3. PICK q : q = IF mine \in DOMAIN queue THEN SetItem(mine, "completed", "none") ELSE queue
  OBVIOUS
<1>4. /\ tasks' = SetTask(t, "completed", "none", done) /\ UNCHANGED <<plan, starter>>
      /\ queue' = IF accepted THEN Propagate(q, g, FirstItem(ItemsOf(t))) ELSE q
      /\ owed' = owed \cup {t} /\ MutationsFree
  BY <1>1, <1>2, <1>3 DEF FinalizeTask
<1>5. /\ DOMAIN tasks' = DOMAIN tasks /\ tasks'[t].status = "completed"
      /\ \A u \in DOMAIN tasks \ {t} : tasks'[u] = tasks[u]
  BY <1>4 DEF SetTask, WInv, FInv, IInv, TypeOK
<1>6. /\ DOMAIN q = DOMAIN queue
      /\ \A j \in DOMAIN queue : q[j].task = queue[j].task
      /\ mine \in DOMAIN queue => q[mine].status = "completed"
      /\ \A j \in DOMAIN queue : q[j].status = "completed" \/ q[j].status = queue[j].status
  BY <1>3 DEF SetItem, Marked, WInv, FInv, IInv, TypeOK
<1>7. /\ DOMAIN queue' = DOMAIN queue
      /\ \A j \in DOMAIN queue :
            /\ queue'[j].task = q[j].task
            /\ queue'[j].status = q[j].status \/ queue'[j].status \in {"completed", "ready", "waiting"}
  BY <1>4, <1>6 DEF Propagate, Marked
<1>8. GoalsOnce' /\ AllGoesWell'
  BY <1>5, <1>6, <1>7 DEF WInv, GoalsOnce, AllGoesWell, Grows
<1>9. RunsItsTask'
  <2>1. SUFFICES ASSUME NEW i \in DOMAIN queue, queue'[i].status = "running"
                 PROVE  queue'[i].task # 0 /\ tasks'[queue'[i].task].status \in Working
    BY <1>7 DEF RunsItsTask
  <2>2. /\ queue[i].status = "running" /\ queue'[i].task = queue[i].task
        /\ q[i].status = "running" /\ queue[i].task # 0
        /\ queue[i].task \in DOMAIN tasks /\ tasks[queue[i].task].status \in Working
    BY <1>6, <1>7, <2>1 DEF WInv, RunsItsTask, FInv, IInv, ItemRefs
  <2>3. CASE queue[i].task = t
    <3>1. \A j \in DOMAIN queue : queue[j].task = t \/ queue[j].goal = g => j = i
      BY <1>1, <2>2, <2>3 DEF WInv, FInv, ItemsFit, GoalsOnce
    <3>2. {j \in DOMAIN queue : \/ queue[j].task = t
                                \/ queue[j].goal = g /\ queue[j].status = "running"} = {i}
      BY <2>3, <3>1
    <3>3. mine = i
      BY <1>2, <3>2, FirstOfOne DEF WInv, FInv
    <3>4. QED
      BY <1>6, <2>2, <3>3
  <2>4. QED
    BY <1>5, <2>2, <2>3
<1>10. CallRunsTask'
  BY <1>4 DEF CallRunsTask, MutationsFree
<1>11. NoWakeupLost'
  BY <1>4 DEF NoWakeupLost
<1>12. QED
  BY <1>8, <1>9, <1>10, <1>11 DEF WInv

\* A task at work that is taken up, gets its worktree, is refused its lock or is
\* dispatched stays at work.
LEMMA WorkWakes ==
  ASSUME WInv, FInv', Grows, NEW t \in DOMAIN tasks,
         \/ BeginExecution(t) \/ MaterializeWorktree(t) \/ LockRefused(t) \/ Dispatch(t)
  PROVE  WInv'
<1>1. UNCHANGED <<plan, queue, starter, owed>>
  BY DEF BeginExecution, MaterializeWorktree, LockRefused, Dispatch, Step
<1>2. tasks[t].status \in Working
  <2>1. tasks[t].run \in {"none", "begun"} /\ (tasks[t].run = "none" => tasks[t].status = "assigned")
    BY DEF BeginExecution, MaterializeWorktree, LockRefused, Dispatch, Step
  <2>2. QED
    BY <2>1 DEF WInv, AllGoesWell, FInv, IInv, RunsFit, RunFits, Working
<1>3. tasks[t].status \notin Ended
  BY <1>2 DEF Working, Ended
<1>4. PICK status \in Working, to \in Runs :
        /\ tasks' = SetTask(t, status, to, status = "completed")
        /\ status = "running" => to = "codex"
  BY <1>3 DEF BeginExecution, MaterializeWorktree, LockRefused, Dispatch, Step, UpdateTask, Working, Runs
<1>5. /\ DOMAIN tasks' = DOMAIN tasks /\ tasks'[t].status \in Working /\ tasks'[t].goal = tasks[t].goal
      /\ tasks'[t].status = "running" => tasks'[t].run = "codex"
      /\ \A u \in DOMAIN tasks \ {t} : tasks'[u] = tasks[u]
  BY <1>4 DEF SetTask, WInv, FInv, IInv, TypeOK
<1>6. GoalsOnce' /\ AllGoesWell'
  BY <1>1, <1>5 DEF WInv, GoalsOnce, AllGoesWell
<1>7. RunsItsTask' /\ CallRunsTask'
  BY <1>1, <1>5 DEF WInv, RunsItsTask, CallRunsTask, FInv, IInv, ItemRefs, CallRefs
<1>8. NoWakeupLost'
  BY <1>5 DEF NoWakeupLost
<1>9. QED
  BY <1>6, <1>7, <1>8 DEF WInv

LEMMA InitWakes == Init => WInv
<1>. SUFFICES ASSUME Init PROVE WInv
  OBVIOUS
<1>1. DOMAIN queue = {} /\ DOMAIN tasks = {}
  BY DEF Init
<1>2. \A s \in Starters : starter[s].at = "idle"
  BY DEF Init, Idle
<1>3. QED
  BY <1>1, <1>2, InitFInv
     DEF WInv, GoalsOnce, AllGoesWell, RunsItsTask, CallRunsTask, NoWakeupLost

LEMMA NextWakes ==
  ASSUME Undisturbed
  PROVE  WInv /\ [Next]_vars => WInv'
<1>1. SUFFICES ASSUME WInv, [Next]_vars PROVE WInv'
  OBVIOUS
<1>2. FInv' /\ Grows
  BY <1>1, NextQuiet, NextInv DEF WInv, FInv
<1>3. ~ Crash /\ {"cancel", "fail", "hold", "worktree", "park", "supervisor"} \cap Faults = {}
  BY <1>1 DEF Undisturbed, Crash, WInv, FInv, IInv, TypeOK
<1>4. ASSUME NEW s \in Starters, StarterStep(s) PROVE WInv'
  BY <1>1, <1>2, <1>4, ScanNextCalm, CallsCalm, CreateGoalTaskWakes, RunItemWakes, PickItemCalm
     DEF StarterStep
<1>5. ASSUME NEW t \in DOMAIN tasks,
             \/ Execution(t) \/ BeginRetry(t) \/ EndRetry(t)
             \/ CancelTask(t) \/ ReconcileRunningTask(t)
             \/ \E integrated \in BOOLEAN : RecoverReview(t, integrated)
      PROVE  WInv'
  <2>1. /\ tasks[t].status \notin {"waiting_for_review", "waiting_for_integration"}
        /\ tasks[t].run # "merge"
        /\ ~ (tasks[t].status = "running" /\ tasks[t].run = "none")
    BY <1>1 DEF WInv, AllGoesWell, Working, FInv, IInv, RunsFit, RunFits
  <2>2. ~ BeginRetry(t) /\ ~ EndRetry(t) /\ ~ CancelTask(t) /\ ~ ReconcileRunningTask(t)
        /\ ~ (\E integrated \in BOOLEAN : RecoverReview(t, integrated))
    BY <1>3, <2>1 DEF BeginRetry, EndRetry, CancelTask, ReconcileRunningTask, RecoverReview, Step
  <2>3. ~ FailWorktree(t) /\ ~ LeaveSession(t)
    BY <1>3 DEF FailWorktree, LeaveSession
  <2>4. CASE Finalize(t)
    <3>1. PICK done \in BOOLEAN, accepted \in BOOLEAN :
            FinalizeTask(t, "completed", done, accepted)
      BY <1>3, <2>4 DEF Finalize
    <3>2. QED
      BY <1>1, <1>2, <3>1, FinalizeWakes
  <2>5. QED
    BY <1>1, <1>2, <1>5, <2>2, <2>3, <2>4, WorkWakes DEF Execution
<1>6. ASSUME NEW i \in DOMAIN queue, CancelGoalQueueItem(i) \/ UpdateGoalQueueItem(i)
      PROVE  WInv'
  BY <1>1, <1>2, <1>3, <1>6, UpdateItemCalm DEF CancelGoalQueueItem
<1>7. CASE UNCHANGED vars
  <2>1. UNCHANGED <<queue, tasks, starter, owed>>
    BY <1>7 DEF vars
  <2>2. CalmCalls
    BY <2>1 DEF CalmCalls
  <2>3. QED
    BY <1>1, <1>2, <2>1, <2>2, SameItemsCalm, SameBlocksCalm, CalmKeeps
<1>8. QED
  BY <1>1, <1>2, <1>3, <1>4, <1>5, <1>6, <1>7, EnqueueCalm, BeginsCalm, NothingToMirror DEF Next

\* As long as nothing fails, is held, is cancelled or crashes, and however many
\* starts and ticks overlap, no wake-up is lost: an item that is blocked although
\* all it waits for is done will be freed, by a tick that is owed or by one that a
\* task at work will owe, also when a goal has two tasks.  It is the safety half of
\* QueueDrains (autoStartNextOnTaskCompleted, reconcileQueue, startNextQueuedGoal).
THEOREM WakeupTheorem == ASSUME Undisturbed PROVE Spec => []NoWakeupLost
<1>1. WInv /\ [Next]_vars => WInv'
  BY NextWakes
<1>2. WInv => NoWakeupLost
  BY DEF WInv
<1>3. QED
  BY InitWakes, <1>1, <1>2, PTL DEF Spec
=============================================================================
