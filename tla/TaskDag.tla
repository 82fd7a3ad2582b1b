------------------------------ MODULE TaskDag ------------------------------
(***************************************************************************)
(* orchestration/task-dag-service.mjs, task-fanout-service.mjs,            *)
(* task-join-service.mjs, the tool that starts ready nodes and the plan    *)
(* applier: the graph of a workstream's tasks.  Each store.mutate is one   *)
(* step (StateStore); a fan-out, a join and a start are several, so calls  *)
(* interleave between them and a crash ends a call half-way.               *)
(***************************************************************************)
EXTENDS DependencyResolver

CONSTANTS
    Nodes, Kind, Workstream,       \* ids, with the type and workstream they stand for
    Fanouts, Parent, Shards,       \* fan-outs that may be asked for
    Joins, JoinNode, Awaited,      \* joins that may be asked for, and their predecessor_ids
    Plans, PlanNodes, PlanEdges,   \* plans that may be applied
    Callers,                       \* clients; each has one call open at a time
    MaxParallel,                   \* workstream_max_parallel
    Results                        \* how executions may end

VARIABLES
    status,     \* status of each node, "absent" before it is created
    edges,      \* dag.edges: pairs from, to
    applied,    \* dag.applied_plans
    call,       \* the open call of each client
    answered,   \* history: fan-outs answered with idempotent: false
    begun,      \* history: nodes whose execution has begun
    passed      \* history: nodes whose execution has completed

vars == <<status, edges, applied, call, answered, begun, passed>>

Terminal == {"completed", "failed", "cancelled"}
Statuses == {"absent", "pending", "waiting", "ready", "running"} \cup Terminal

(* The three kinds of calls do not make nodes of one id (shard_key "join"  *)
(* and a shard prefix are chosen apart); validatePlanIr checks that a plan *)
(* is closed and acyclic.                                                  *)
ASSUME DagAssumption ==
    /\ IsFiniteSet(Nodes) /\ Nodes \subseteq Nat
    /\ Kind \in [Nodes -> {"task", "fanout", "join"}]
    /\ Parent \in [Fanouts -> Nodes] /\ Shards \in [Fanouts -> SUBSET Nodes]
    /\ JoinNode \in [Joins -> Nodes] /\ Awaited \in [Joins -> SUBSET Nodes]
    /\ PlanNodes \in [Plans -> SUBSET Nodes]
    /\ \A f \in Fanouts : Kind[Parent[f]] = "fanout" /\ \A n \in Shards[f] : Kind[n] = "task"
    /\ \A j \in Joins : Kind[JoinNode[j]] = "join"
    /\ \A p \in Plans :
        /\ PlanEdges[p] \subseteq PlanNodes[p] \X PlanNodes[p]
        /\ Acyclic(PlanEdges[p])
        /\ \A m, n \in PlanNodes[p] : Kind[n] # "fanout" /\ Workstream[m] = Workstream[n]
        /\ \A f \in Fanouts : PlanNodes[p] \cap Shards[f] = {}
        /\ \A j \in Joins : JoinNode[j] \notin PlanNodes[p]
    /\ MaxParallel \in Nat /\ Results \subseteq {"completed", "failed", "cancelled"}

Idle == [at |-> "idle", job |-> "none", left |-> {}]
Places == {"idle", "parent", "shard", "shardNew", "link", "joinNode", "await", "listed", "start"}

TypeOK ==
    /\ status \in [Nodes -> Statuses]
    /\ edges \subseteq Nodes \X Nodes
    /\ applied \subseteq Plans
    /\ call \in [Callers -> [at: Places, job: Fanouts \cup Joins \cup {"none"}, left: SUBSET Nodes]]
    /\ answered \subseteq Fanouts /\ begun \subseteq Nodes /\ passed \subseteq Nodes

Init ==
    /\ status = [n \in Nodes |-> "absent"]
    /\ edges = {} /\ applied = {}
    /\ call = [c \in Callers |-> Idle]
    /\ answered = {} /\ begun = {} /\ passed = {}

-----------------------------------------------------------------------------
Exists(n) == status[n] # "absent"

Present == {n \in Nodes : Exists(n)}

At(c, place) == call[c].at = place
Goto(c, place, job, left) == call' = [call EXCEPT ![c] = [at |-> place, job |-> job, left |-> left]]
Return(c) == call' = [call EXCEPT ![c] = Idle]

\* Mutant: no look for a cycle.
LinkedUnchecked(from, to) ==
    IF Exists(from) /\ Exists(to) THEN edges \cup {<<from, to>>} ELSE edges

\* addDagEdge: an edge that exists is answered, one that lacks a node or
\* closes a cycle is refused, and both callers swallow the refusal.
Linked(from, to) ==
    LET more == edges \cup {<<from, to>>} IN
    IF Exists(from) /\ Exists(to) /\ DetectCycle(Present, more) = <<>> THEN more ELSE edges

(* createWorkstreamFanout: the parent, completed from the start, then each *)
(* shard, then the edges.  The shards are taken in any order.              *)

\* The parent exists: what there is of the fan-out is the answer.
FanoutKnown(c, f) ==
    /\ At(c, "idle") /\ Exists(Parent[f])
    /\ UNCHANGED vars

FanoutNew(c, f) ==
    /\ At(c, "idle") /\ ~Exists(Parent[f])
    /\ Goto(c, "parent", f, {})
    /\ UNCHANGED <<status, edges, applied, answered, begun, passed>>

\* createDagNode throws when another call has made the node since.
CreateParent(c) ==
    /\ At(c, "parent")
    /\ LET f == call[c].job IN
        IF Exists(Parent[f])
        THEN Return(c) /\ UNCHANGED status
        ELSE /\ status' = [status EXCEPT ![Parent[f]] = "completed"]
             /\ Goto(c, "shard", f, Shards[f])
    /\ UNCHANGED <<edges, applied, answered, begun, passed>>

\* getDagNode: a shard that exists is kept, one that does not is to be made.
LookShard(c, n) ==
    /\ At(c, "shard") /\ n \in call[c].left
    /\ LET f == call[c].job IN
        IF Exists(n) THEN Goto(c, "shard", f, call[c].left \ {n})
                     ELSE Goto(c, "shardNew", f, call[c].left)
    /\ UNCHANGED <<status, edges, applied, answered, begun, passed>>

CreateShard(c, n) ==
    /\ At(c, "shardNew") /\ n \in call[c].left
    /\ IF Exists(n)
       THEN Return(c) /\ UNCHANGED status
       ELSE /\ status' = [status EXCEPT ![n] = "pending"]
            /\ Goto(c, "shard", call[c].job, call[c].left \ {n})
    /\ UNCHANGED <<edges, applied, answered, begun, passed>>

\* Mutant: the loop that links the shards misses one.
ShardsDoneSkipsOne(c) ==
    /\ At(c, "shard") /\ call[c].left = {}
    /\ LET all == Shards[call[c].job] IN
        Goto(c, "link", call[c].job, all \ {CHOOSE n \in all : TRUE})
    /\ UNCHANGED <<status, edges, applied, answered, begun, passed>>

ShardsDone(c) ==
    /\ At(c, "shard") /\ call[c].left = {}
    /\ Goto(c, "link", call[c].job, Shards[call[c].job])
    /\ UNCHANGED <<status, edges, applied, answered, begun, passed>>

LinkShard(c, n) ==
    /\ At(c, "link") /\ n \in call[c].left
    /\ edges' = Linked(Parent[call[c].job], n)
    /\ Goto(c, "link", call[c].job, call[c].left \ {n})
    /\ UNCHANGED <<status, applied, answered, begun, passed>>

FanoutDone(c) ==
    /\ At(c, "link") /\ call[c].left = {}
    /\ answered' = answered \cup {call[c].job}
    /\ Return(c)
    /\ UNCHANGED <<status, edges, applied, begun, passed>>

(* createWorkstreamJoin: the node, waiting, then an edge from each         *)
(* predecessor.                                                            *)

JoinKnown(c, j) ==
    /\ At(c, "idle") /\ Exists(JoinNode[j])
    /\ UNCHANGED vars

JoinNew(c, j) ==
    /\ At(c, "idle") /\ ~Exists(JoinNode[j])
    /\ Goto(c, "joinNode", j, {})
    /\ UNCHANGED <<status, edges, applied, answered, begun, passed>>

CreateJoin(c) ==
    /\ At(c, "joinNode")
    /\ LET j == call[c].job IN
        IF Exists(JoinNode[j])
        THEN Return(c) /\ UNCHANGED status
        ELSE /\ status' = [status EXCEPT ![JoinNode[j]] = "waiting"]
             /\ Goto(c, "await", j, Awaited[j])
    /\ UNCHANGED <<edges, applied, answered, begun, passed>>

Await(c, n) ==
    /\ At(c, "await") /\ n \in call[c].left
    /\ edges' = Linked(n, JoinNode[call[c].job])
    /\ Goto(c, "await", call[c].job, call[c].left \ {n})
    /\ UNCHANGED <<status, applied, answered, begun, passed>>

JoinDone(c) ==
    /\ At(c, "await") /\ call[c].left = {}
    /\ Return(c)
    /\ UNCHANGED <<status, edges, applied, answered, begun, passed>>

(* start_workstream_ready_tasks: list the ready nodes, look at the         *)
(* capacity once, and set each to "ready", whatever it is by then.         *)

Predecessors(n) == {m \in Nodes : <<m, n>> \in edges /\ Workstream[m] = Workstream[n]}

\* Mutant: a task is content with predecessors that ended.
ReadyWhenEnded(n) ==
    LET before == {status[m] : m \in Predecessors(n)} IN
    \/ status[n] = "pending" /\ before = {}
    \/ status[n] = "waiting" /\ Kind[n] = "join" /\ before # {} /\ before \subseteq Terminal
    \/ status[n] \in {"pending", "waiting"} /\ Kind[n] # "join" /\ before \subseteq Terminal

Ready(n) ==
    LET before == {status[m] : m \in Predecessors(n)} IN
    \/ status[n] = "pending" /\ before = {}
    \/ status[n] = "waiting" /\ Kind[n] = "join" /\ before # {} /\ before \subseteq Terminal
    \/ status[n] \in {"pending", "waiting"} /\ Kind[n] # "join" /\ before = {"completed"}

ListReady(c, w) ==
    /\ At(c, "idle")
    /\ LET ready == {n \in Nodes : Workstream[n] = w /\ Ready(n)} IN
        /\ ready # {}
        /\ Goto(c, "listed", "none", ready)
    /\ UNCHANGED <<status, edges, applied, answered, begun, passed>>

\* After the await of the list: at capacity every node of it is refused.
CheckExecutionCapacity(c) ==
    /\ At(c, "listed")
    /\ \E w \in {Workstream[n] : n \in call[c].left} :
        IF Cardinality({n \in Nodes : Workstream[n] = w /\ status[n] = "running"}) < MaxParallel
        THEN Goto(c, "start", "none", call[c].left)
        ELSE Return(c)
    /\ UNCHANGED <<status, edges, applied, answered, begun, passed>>

\* Mutant: a status that no reader knows.
StartNodeUnknown(c, n) ==
    /\ At(c, "start") /\ n \in call[c].left
    /\ status' = [status EXCEPT ![n] = "started"]
    /\ IF call[c].left = {n} THEN Return(c) ELSE Goto(c, "start", "none", call[c].left \ {n})
    /\ UNCHANGED <<edges, applied, answered, begun, passed>>

StartNode(c, n) ==
    /\ At(c, "start") /\ n \in call[c].left
    /\ status' = [status EXCEPT ![n] = "ready"]
    /\ IF call[c].left = {n} THEN Return(c) ELSE Goto(c, "start", "none", call[c].left \ {n})
    /\ UNCHANGED <<edges, applied, answered, begun, passed>>

\* applyPlanIr with the revision the graph has: another is refused, as is a
\* plan one of whose nodes exists; a plan that was applied is answered.
ApplyPlan(p) ==
    /\ p \notin applied
    /\ \A n \in PlanNodes[p] : ~Exists(n)
    /\ status' = [n \in Nodes |-> IF n \in PlanNodes[p] THEN "pending" ELSE status[n]]
    /\ edges' = edges \cup PlanEdges[p]
    /\ applied' = applied \cup {p}
    /\ UNCHANGED <<call, answered, begun, passed>>

(* Whoever executes a node takes it when it is ready and records how it    *)
(* ended, through updateDagNode.                                           *)

Begin(n) ==
    /\ status[n] = "ready"
    /\ status' = [status EXCEPT ![n] = "running"]
    /\ begun' = begun \cup {n}
    /\ UNCHANGED <<edges, applied, call, answered, passed>>

End(n, result) ==
    /\ status[n] = "running"
    /\ status' = [status EXCEPT ![n] = result]
    /\ passed' = IF result = "completed" THEN passed \cup {n} ELSE passed
    /\ UNCHANGED <<edges, applied, call, answered, begun>>

\* The graph is in the state file; the calls are gone.
Crash ==
    /\ call' = [c \in Callers |-> Idle]
    /\ UNCHANGED <<status, edges, applied, answered, begun, passed>>

Fanning(c) ==
    \/ \E f \in Fanouts : FanoutKnown(c, f) \/ FanoutNew(c, f)
    \/ CreateParent(c) \/ ShardsDone(c) \/ FanoutDone(c)
    \/ \E n \in Nodes : LookShard(c, n) \/ CreateShard(c, n) \/ LinkShard(c, n)

Joining(c) ==
    \/ \E j \in Joins : JoinKnown(c, j) \/ JoinNew(c, j)
    \/ CreateJoin(c) \/ JoinDone(c)
    \/ \E n \in Nodes : Await(c, n)

Starting(c) ==
    \/ \E n \in Nodes : ListReady(c, Workstream[n])
    \/ CheckExecutionCapacity(c)
    \/ \E n \in Nodes : StartNode(c, n)

Executing == \E n \in Nodes : Begin(n) \/ \E result \in Results : End(n, result)

Next ==
    \/ \E c \in Callers : Fanning(c) \/ Joining(c) \/ Starting(c)
    \/ \E p \in Plans : ApplyPlan(p)
    \/ Executing
    \/ Crash

Spec == Init /\ [][Next]_vars

-----------------------------------------------------------------------------
\* The graph never has a cycle, though it grows edge by edge from calls that
\* run at the same time (addDagEdge) and in batches nobody checks against it
\* (applyPlanIr).
GraphIsAcyclic == Acyclic(edges)

\* A fan-out answered as new is there whole: its parent, its shards and an
\* edge to each, whatever other calls and crashes did in between
\* (createWorkstreamFanout, whose calls swallow every refused edge).
FanoutIsWhole ==
    \A f \in answered :
        /\ Exists(Parent[f])
        /\ \A n \in Shards[f] : Exists(n) /\ <<Parent[f], n>> \in edges

\* A task of a plan begins only after each task it depends on has completed,
\* although starts judge a list that is stale when they use it
\* (getReadyNodes, start_workstream_ready_tasks).
BeginsAfterDependencies ==
    \A p \in applied : \A e \in PlanEdges[p] :
        e[2] \in begun /\ Kind[e[2]] = "task" => e[1] \in passed

\* Wherever an edge is about to be added, the depth-first search finds a
\* cycle exactly when the new graph has one, and what it reports is a closed
\* path of that graph (detectCycle).
CycleIsFound ==
    \A c \in Callers : At(c, "await") =>
        \A m \in call[c].left \cap Present :
            LET E == edges \cup {<<m, JoinNode[call[c].job]>>}
                path == DetectCycle(Present, E)
            IN  IF Acyclic(E) THEN path = <<>> ELSE path # <<>> /\ IsClosedPath(path, E)

\* The order get_workstream_execution_graph answers has every node once,
\* each after its predecessors, and the least id among those that may come
\* next (stableTopologicalSort).
OrderIsStable ==
    LET order == TopologicalSort(Present, edges).order
    IN  Len(order) = Cardinality(Present) /\ IsStable(Present, edges, order)
=============================================================================
