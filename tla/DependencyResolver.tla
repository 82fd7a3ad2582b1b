------------------------- MODULE DependencyResolver -------------------------
(***************************************************************************)
(* orchestration/dependency-resolver.mjs: the search for a cycle and the   *)
(* stable topological sort, as they run on the nodes N and edges E of a    *)
(* graph.  Each is the iteration of one step, as often as it can take one. *)
(***************************************************************************)
EXTENDS Naturals, Sequences, FiniteSets

\* What the two decide.  No set of nodes in which each has a predecessor in
\* the set.
Acyclic(E) ==
    \A S \in SUBSET ({e[1] : e \in E} \cap {e[2] : e \in E}) :
        S # {} => \E n \in S : \A m \in S : <<m, n>> \notin E

Successors(E, n) == {e[2] : e \in {e \in E : e[1] = n}}

-----------------------------------------------------------------------------
(* detectCycle.  The grey nodes are those whose dfs call is open, from the *)
(* root of the search to the node it has reached; a node's parent is the   *)
(* one below it.  What is left of a loop over nodes are those not black.   *)

SearchStart == [stack |-> <<>>, black |-> {}, path |-> <<>>]

Reached(s) == s.stack[Len(s.stack)]

ToVisit(N, E, s) ==
    (IF s.stack = <<>> THEN N ELSE Successors(E, Reached(s)) \cap N) \ s.black

\* The path from n to the node reached, and back to n.
PathFrom(stack, n) ==
    LET i == CHOOSE i \in DOMAIN stack : stack[i] = n
    IN  Append(SubSeq(stack, i, Len(stack)), n)

Grey(s) == {s.stack[i] : i \in DOMAIN s.stack}

IsClosedPath(path, E) ==
    /\ Len(path) > 1 /\ path[1] = path[Len(path)]
    /\ \A i \in 1..(Len(path) - 1) : <<path[i], path[i + 1]>> \in E

\* Mutant: a node is black as soon as it is entered.
SearchNoGrey(N, E, s) ==
    LET n == CHOOSE n \in ToVisit(N, E, s) : TRUE
    IN  CASE s.path # <<>> \/ (s.stack = <<>> /\ ToVisit(N, E, s) = {}) -> s
          [] ToVisit(N, E, s) = {} /\ s.stack # <<>> ->
                [s EXCEPT !.stack = SubSeq(@, 1, Len(@) - 1)]
          [] OTHER -> [s EXCEPT !.stack = Append(@, n), !.black = @ \cup {n}]

\* One turn of a loop: the search is over, a dfs call ends, closes a cycle,
\* or the next one begins.
Search(N, E, s) ==
    LET n == CHOOSE n \in ToVisit(N, E, s) : TRUE
    IN  CASE s.path # <<>> \/ (s.stack = <<>> /\ ToVisit(N, E, s) = {}) -> s
          [] s.path = <<>> /\ s.stack # <<>> /\ ToVisit(N, E, s) = {} ->
                [stack |-> SubSeq(s.stack, 1, Len(s.stack) - 1),
                 black |-> s.black \cup {Reached(s)}, path |-> <<>>]
          [] s.path = <<>> /\ ToVisit(N, E, s) # {} /\ n \in Grey(s) ->
                [stack |-> s.stack, black |-> s.black, path |-> PathFrom(s.stack, n)]
          [] s.path = <<>> /\ ToVisit(N, E, s) # {} /\ n \notin Grey(s) ->
                [stack |-> Append(s.stack, n), black |-> s.black, path |-> <<>>]

\* A node is entered once and left once, and a cycle is found once.
DetectCycle(N, E) ==
    LET after[k \in Nat] == IF k = 0 THEN SearchStart ELSE Search(N, E, after[k - 1])
    IN  after[2 * Cardinality(N) + 1].path

-----------------------------------------------------------------------------
(* stableTopologicalSort: Kahn's algorithm with a queue kept in order.     *)

InDegree(E, n) == Cardinality({e \in E : e[2] = n})

\* What may come at the ith place of an order, and an order in which the
\* least of these comes.
MayCome(N, E, order, i) ==
    LET before == {order[k] : k \in 1..(i - 1)}
    IN  {n \in N \ before : \A e \in E : e[2] = n => e[1] \in before}

IsStable(N, E, order) ==
    \A i \in 1..Len(order) :
        /\ order[i] \in MayCome(N, E, order, i)
        /\ \A n \in MayCome(N, E, order, i) : order[i] <= n

\* A set of numbers in order: the nth has n - 1 below it.
Ascending(S) ==
    [i \in 1..Cardinality(S) |-> CHOOSE n \in S : Cardinality({m \in S : m < n}) = i - 1]

\* Mutant: a free node goes to the end of the queue.
InsertLast(queue, n) == Append(queue, n)

\* Before the first that is greater, or at the end.
Inserted(queue, n) ==
    LET at == CHOOSE i \in 1..(Len(queue) + 1) :
                 /\ \A j \in 1..(i - 1) : queue[j] <= n
                 /\ i <= Len(queue) => queue[i] > n
    IN  [k \in 1..(Len(queue) + 1) |->
            IF k < at THEN queue[k] ELSE IF k = at THEN n ELSE queue[k - 1]]

SortStart(N, E) ==
    [degree |-> [n \in N |-> InDegree(E, n)],
     queue |-> Ascending({n \in N : InDegree(E, n) = 0}),
     result |-> <<>>, left |-> {}]

\* One edge out of the node taken last: its target may become free.
Relax(s, n) ==
    [degree |-> [s.degree EXCEPT ![n] = IF @ > 0 THEN @ - 1 ELSE @],
     queue |-> IF s.degree[n] = 1 THEN Inserted(s.queue, n) ELSE s.queue,
     result |-> s.result, left |-> s.left \ {n}]

Take(E, s) ==
    [degree |-> s.degree, queue |-> Tail(s.queue),
     result |-> Append(s.result, Head(s.queue)), left |-> Successors(E, Head(s.queue))]

Sort(E, s) ==
    CASE s.left # {} -> Relax(s, CHOOSE n \in s.left : TRUE)
      [] s.left = {} /\ s.queue # <<>> -> Take(E, s)
      [] s.left = {} /\ s.queue = <<>> -> s

\* Every node is taken once and every edge relaxed once.  A sort that did not
\* reach every node throws, with the cycle that detectCycle finds.
TopologicalSort(N, E) ==
    LET after[k \in Nat] == IF k = 0 THEN SortStart(N, E) ELSE Sort(E, after[k - 1])
        result == after[Cardinality(N) + Cardinality(E)].result
    IN  [order |-> result,
         cycle |-> IF Len(result) < Cardinality(N) THEN DetectCycle(N, E) ELSE <<>>]
=============================================================================
