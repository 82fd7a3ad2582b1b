--------------------------- MODULE TaskDagProofs ---------------------------
(***************************************************************************)
(* The graph of a workstream stays acyclic, its fan-outs whole and its     *)
(* plans in order, for any nodes, plans and number of racing clients.      *)
(***************************************************************************)
EXTENDS TaskDag, FiniteSetTheorems, TLAPS

-----------------------------------------------------------------------------
(* Counting and iterating.                                                 *)

\* A set of numbers that has 0 and with each number the next has all: else the
\* next number would map its members one to one into those but 0.
LEMMA CountUp ==
  ASSUME NEW n \in Nat, NEW S \in SUBSET (0..n), 0 \in S, \A k \in S : k < n => k + 1 \in S
  PROVE  n \in S
<1>1. SUFFICES ASSUME n \notin S PROVE FALSE
  OBVIOUS
<1>2. IsFiniteSet(S)
  <2>1. IsFiniteSet(0..n)
    BY FS_Interval
  <2>2. QED
    BY <2>1, FS_Subset
<1>3. /\ IsFiniteSet(S \ {0}) /\ Cardinality(S \ {0}) = Cardinality(S) - 1
  BY <1>2, FS_RemoveElement
<1>4. Cardinality(S \ {0}) < Cardinality(S)
  BY <1>2, <1>3, FS_CardinalityType
<1>. DEFINE next == [k \in S |-> k + 1]
<1>5. next \in [S -> S \ {0}]
  BY <1>1
<1>6. \E j, k \in S : j # k /\ next[j] = next[k]
  <2> HIDE DEF next
  <2>1. QED
    BY <1>2, <1>3, <1>4, <1>5, FS_PigeonHole, ZenonT(30)
<1>7. QED
  BY <1>6

LEMMA AllNaturals ==
  ASSUME NEW S \in SUBSET Nat, 0 \in S, \A k \in S : k + 1 \in S
  PROVE  \A n \in Nat : n \in S
<1>1. SUFFICES ASSUME NEW n \in Nat PROVE n \in S
  OBVIOUS
<1>2. PICK T : T = S \cap 0..n
  OBVIOUS
<1>3. T \in SUBSET (0..n) /\ 0 \in T /\ \A k \in T : k < n => k + 1 \in T
  BY <1>2
<1>4. n \in T
  BY <1>3, CountUp
<1>5. QED
  BY <1>2, <1>4

\* What a step maps into X can be iterated.
LEMMA Iteration ==
  ASSUME NEW X, NEW step \in [X -> X], NEW a \in X
  PROVE  \E t \in [Nat -> X] : t = [k \in Nat |-> IF k = 0 THEN a ELSE step[t[k - 1]]]
<1>. DEFINE Upto(n, g) == /\ g \in [0..n -> X] /\ g[0] = a
                          /\ \A k \in 1..n : g[k] = step[g[k - 1]]
            S == {n \in Nat : \E g \in [0..n -> X] : Upto(n, g)}
<1>1. 0 \in S
  <2>1. [k \in 0..0 |-> a] \in [0..0 -> X] /\ Upto(0, [k \in 0..0 |-> a])
    OBVIOUS
  <2>2. QED
    BY <2>1
<1>2. ASSUME NEW n \in S PROVE n + 1 \in S
  <2>1. PICK g \in [0..n -> X] : Upto(n, g)
    OBVIOUS
  <2>2. PICK h : h = [k \in 0..(n + 1) |-> IF k \in 0..n THEN g[k] ELSE step[g[n]]]
    OBVIOUS
  <2>3. h \in [0..(n + 1) -> X]
    BY <2>2
  <2>4. h[0] = a
    BY <2>1, <2>2
  <2>5. ASSUME NEW k \in 1..(n + 1) PROVE h[k] = step[h[k - 1]]
    <3>1. CASE k \in 1..n
      BY <2>1, <2>2, <3>1
    <3>2. CASE k = n + 1
      BY <2>2, <3>2
    <3>3. QED
      BY <3>1, <3>2
  <2>6. QED
    BY <2>3, <2>4, <2>5
<1>3. \A n \in Nat : n \in S
  <2> HIDE DEF S
  <2>1. S \in SUBSET Nat
    BY DEF S
  <2>2. QED
    BY <1>1, <1>2, <2>1, AllNaturals
<1>4. \A n \in Nat : \E g \in [0..n -> X] : Upto(n, g)
  BY <1>3
<1>5. ASSUME NEW m \in Nat, NEW n \in Nat, m <= n, NEW g, NEW h, Upto(m, g), Upto(n, h)
      PROVE  g[m] = h[m]
  <2>. DEFINE Same == {k \in 0..m : g[k] = h[k]}
  <2>1. 0 \in Same
    BY <1>5
  <2>2. ASSUME NEW k \in Same, k < m PROVE k + 1 \in Same
    <3>1. k + 1 \in 1..m /\ k + 1 \in 1..n /\ (k + 1) - 1 = k
      BY <1>5, <2>2
    <3>2. g[k + 1] = step[g[k]] /\ h[k + 1] = step[h[k]]
      BY <1>5, <3>1
    <3>3. QED
      BY <3>1, <3>2
  <2>3. Same \in SUBSET (0..m)
    OBVIOUS
  <2>4. m \in Same
    <3> HIDE DEF Same
    <3>1. QED
      BY <2>1, <2>2, <2>3, CountUp
  <2>5. QED
    BY <2>4
<1>. DEFINE G(n) == CHOOSE g \in [0..n -> X] : Upto(n, g)
<1>6. \A n \in Nat : G(n) \in [0..n -> X] /\ Upto(n, G(n))
  BY <1>4
<1>7. PICK t : t = [n \in Nat |-> G(n)[n]]
  OBVIOUS
<1> HIDE DEF G
<1>8. t \in [Nat -> X]
  BY <1>6, <1>7
<1>9. ASSUME NEW k \in Nat PROVE t[k] = IF k = 0 THEN a ELSE step[t[k - 1]]
  <2>1. CASE k = 0
    BY <1>6, <1>7, <2>1
  <2>2. CASE k # 0
    <3>1. k - 1 \in Nat /\ k - 1 <= k /\ k \in 1..k
      BY <2>2
    <3>2. G(k)[k] = step[G(k)[k - 1]]
      BY <1>6, <3>1
    <3>3. G(k - 1)[k - 1] = G(k)[k - 1]
      <4>1. Upto(k - 1, G(k - 1)) /\ Upto(k, G(k))
        BY <1>6, <3>1
      <4> HIDE DEF Upto
      <4>2. QED
        BY <1>5, <3>1, <4>1
    <3>4. QED
      BY <1>7, <2>2, <3>1, <3>2, <3>3
  <2>3. QED
    BY <2>1, <2>2
<1>10. t = [k \in Nat |-> IF k = 0 THEN a ELSE step[t[k - 1]]]
  BY <1>8, <1>9
<1>11. QED
  BY <1>8, <1>10

IsGraph(N, E) == IsFiniteSet(N) /\ E \in SUBSET (N \X N)

SearchStates(N) == [stack: Seq(N), black: SUBSET N, path: Seq(N)]

\* Over: no path is found, no call is open and every node is black.
Over(N, E, s) == s.stack = <<>> /\ ToVisit(N, E, s) = {}

SearchInv(N, E, s) ==
    /\ s \in SearchStates(N)
    /\ \A i, j \in DOMAIN s.stack : i # j => s.stack[i] # s.stack[j]
    /\ Grey(s) \cap s.black = {}
    /\ \A i \in 1..(Len(s.stack) - 1) : <<s.stack[i], s.stack[i + 1]>> \in E
    /\ \A e \in E : e[1] \in s.black => e[2] \in s.black
    /\ \A S \in SUBSET s.black : S # {} => \E n \in S : \A m \in S : <<m, n>> \notin E
    /\ s.path # <<>> => IsClosedPath(s.path, E)

LEMMA SearchOver ==
  ASSUME NEW N, NEW E, NEW s, s.path # <<>> \/ Over(N, E, s)
  PROVE  Search(N, E, s) = s
BY DEF Search, Over

\* A dfs call ends: all successors of its node are black.
LEMMA SearchLeaves ==
  ASSUME NEW N, NEW E, IsGraph(N, E), NEW s, SearchInv(N, E, s),
         s.path = <<>>, s.stack # <<>>, ToVisit(N, E, s) = {}
  PROVE  LET t == Search(N, E, s)
         IN  /\ SearchInv(N, E, t) /\ t.path = <<>>
             /\ Reached(s) \in Grey(s) /\ t.black = s.black \cup {Reached(s)}
             /\ Grey(t) = Grey(s) \ {Reached(s)}
<1>1. PICK t : t = Search(N, E, s)
  OBVIOUS
<1>2. PICK top : top = Reached(s)
  OBVIOUS
<1>3. s.stack \in Seq(N) /\ Len(s.stack) \in Nat \ {0} /\ s.black \in SUBSET N
  BY DEF SearchInv, SearchStates
<1>4. PICK k \in Nat : k = Len(s.stack) - 1 /\ Len(s.stack) = k + 1
  <2>1. Len(s.stack) - 1 \in Nat /\ Len(s.stack) = (Len(s.stack) - 1) + 1
    BY <1>3
  <2>2. QED
    BY <2>1
<1>5. top = s.stack[k + 1] /\ top \in N /\ top \in Grey(s)
  BY <1>2, <1>3, <1>4 DEF Reached, Grey
<1>6. t = [stack |-> SubSeq(s.stack, 1, k), black |-> s.black \cup {top}, path |-> <<>>]
  BY <1>1, <1>2, <1>4 DEF Search, Over
<1>7. t.stack = SubSeq(s.stack, 1, k) /\ t.black = s.black \cup {top} /\ t.path = <<>>
  BY <1>6
<1>8. /\ t.stack \in Seq(N) /\ Len(t.stack) = k
      /\ \A i \in 1..k : t.stack[i] = s.stack[i]
  BY <1>3, <1>4, <1>7
<1>9. t \in SearchStates(N)
  BY <1>3, <1>5, <1>6, <1>8 DEF SearchStates
<1>10. \A i, j \in DOMAIN s.stack : i # j => s.stack[i] # s.stack[j]
  BY DEF SearchInv
<1>11. \A i, j \in DOMAIN t.stack : i # j => t.stack[i] # t.stack[j]
  BY <1>3, <1>4, <1>8, <1>10
<1>12. Grey(t) = Grey(s) \ {top}
  BY <1>3, <1>4, <1>5, <1>8, <1>10 DEF Grey
<1>13. Grey(t) \cap t.black = {}
  BY <1>7, <1>12 DEF SearchInv
<1>14. \A i \in 1..(Len(t.stack) - 1) : <<t.stack[i], t.stack[i + 1]>> \in E
  BY <1>4, <1>8 DEF SearchInv
<1>15. \A n \in N : <<top, n>> \in E => n \in s.black
  BY <1>2, <1>3 DEF ToVisit, Successors
<1>16. \A e \in E : e = <<e[1], e[2]>> /\ e[1] \in N /\ e[2] \in N
  BY DEF IsGraph
<1>17. \A e \in E : e[1] \in s.black => e[2] \in s.black
  BY DEF SearchInv
<1>18. \A e \in E : e[1] \in t.black => e[2] \in t.black
  BY <1>7, <1>15, <1>16, <1>17
<1>19. top \notin s.black
  BY <1>5 DEF SearchInv
<1>20. ASSUME NEW S \in SUBSET t.black, S # {}
       PROVE  \E n \in S : \A m \in S : <<m, n>> \notin E
  <2>1. CASE top \notin S
    BY <1>7, <1>20, <2>1 DEF SearchInv
  <2>2. CASE top \in S
    <3>1. ASSUME NEW m \in S, <<m, top>> \in E PROVE FALSE
      <4>1. CASE m = top
        BY <1>5, <1>15, <1>19, <3>1, <4>1
      <4>2. CASE m # top
        <5>1. m \in s.black
          BY <1>7, <4>2
        <5>2. <<m, top>>[1] = m /\ <<m, top>>[2] = top
          OBVIOUS
        <5>3. QED
          BY <1>17, <1>19, <3>1, <5>1, <5>2
      <4>3. QED
        BY <4>1, <4>2
    <3>2. QED
      BY <2>2, <3>1
  <2>3. QED
    BY <2>1, <2>2
<1>21. SearchInv(N, E, t)
  BY <1>7, <1>9, <1>11, <1>13, <1>14, <1>18, <1>20 DEF SearchInv
<1>22. QED
  BY <1>1, <1>2, <1>5, <1>7, <1>12, <1>21

\* The next dfs call begins.
LEMMA SearchEnters ==
  ASSUME NEW N, NEW E, IsGraph(N, E), NEW s, SearchInv(N, E, s), s.path = <<>>,
         NEW n \in ToVisit(N, E, s) \ Grey(s), n = CHOOSE m \in ToVisit(N, E, s) : TRUE
  PROVE  LET t == Search(N, E, s)
         IN  /\ SearchInv(N, E, t) /\ t.path = <<>> /\ t.black = s.black
             /\ n \in N /\ n \notin Grey(s) \cup s.black /\ Grey(t) = Grey(s) \cup {n}
<1>1. PICK t : t = Search(N, E, s)
  OBVIOUS
<1>2. s.stack \in Seq(N) /\ Len(s.stack) \in Nat /\ s.black \in SUBSET N
  BY DEF SearchInv, SearchStates
<1>3. n \in N /\ n \notin s.black
  BY DEF ToVisit
<1>4. t = [stack |-> Append(s.stack, n), black |-> s.black, path |-> <<>>]
  BY <1>1 DEF Search
<1>5. t.stack = Append(s.stack, n) /\ t.black = s.black /\ t.path = <<>>
  BY <1>4
<1>6. /\ t.stack \in Seq(N) /\ Len(t.stack) = Len(s.stack) + 1 /\ t.stack[Len(s.stack) + 1] = n
      /\ \A i \in 1..Len(s.stack) : t.stack[i] = s.stack[i]
  BY <1>2, <1>3, <1>5
<1>7. t \in SearchStates(N)
  BY <1>2, <1>4, <1>6 DEF SearchStates
<1>8. DOMAIN t.stack = DOMAIN s.stack \cup {Len(s.stack) + 1}
  BY <1>2, <1>6
<1>9. Grey(t) = Grey(s) \cup {n}
  <2>1. DOMAIN s.stack = 1..Len(s.stack) /\ Len(s.stack) + 1 \in DOMAIN t.stack
    BY <1>2, <1>8
  <2>2. \A i \in DOMAIN s.stack : t.stack[i] = s.stack[i]
    BY <1>6, <2>1
  <2>3. ASSUME NEW m \in Grey(t) PROVE m \in Grey(s) \cup {n}
    <3>1. PICK i \in DOMAIN t.stack : m = t.stack[i]
      BY DEF Grey
    <3>2. QED
      BY <1>6, <1>8, <2>2, <3>1 DEF Grey
  <2>4. ASSUME NEW m \in Grey(s) PROVE m \in Grey(t)
    <3>1. PICK i \in DOMAIN s.stack : m = s.stack[i]
      BY DEF Grey
    <3>2. i \in DOMAIN t.stack /\ m = t.stack[i]
      BY <1>8, <2>2, <3>1
    <3>3. QED
      BY <3>2 DEF Grey
  <2>5. n \in Grey(t)
    BY <1>6, <2>1 DEF Grey
  <2>6. QED
    BY <2>3, <2>4, <2>5
<1>10. \A i \in DOMAIN s.stack : s.stack[i] # n
  BY DEF Grey
<1>11. \A i, j \in DOMAIN t.stack : i # j => t.stack[i] # t.stack[j]
  <2>1. \A i, j \in DOMAIN s.stack : i # j => s.stack[i] # s.stack[j]
    BY DEF SearchInv
  <2>2. DOMAIN s.stack = 1..Len(s.stack)
    BY <1>2
  <2>3. \A i \in DOMAIN s.stack : t.stack[i] = s.stack[i]
    BY <1>6, <2>2
  <2>4. QED
    BY <1>6, <1>8, <1>10, <2>1, <2>3
<1>12. Grey(t) \cap t.black = {}
  BY <1>3, <1>5, <1>9 DEF SearchInv
<1>13. ASSUME NEW i \in 1..(Len(t.stack) - 1)
       PROVE  <<t.stack[i], t.stack[i + 1]>> \in E
  <2>1. CASE i < Len(s.stack)
    BY <1>2, <1>6, <2>1 DEF SearchInv
  <2>2. CASE i = Len(s.stack)
    <3>1. n \in Successors(E, s.stack[i])
      <4>1. s.stack # <<>>
        BY <1>2, <1>13, <2>2
      <4>2. QED
        BY <2>2, <4>1 DEF ToVisit, Reached
    <3>2. PICK e \in E : e[1] = s.stack[i] /\ e[2] = n
      BY <3>1 DEF Successors
    <3>3. e = <<s.stack[i], n>>
      BY <3>2 DEF IsGraph
    <3>4. t.stack[i] = s.stack[i] /\ t.stack[i + 1] = n
      BY <1>6, <1>13, <2>2
    <3>5. QED
      BY <3>2, <3>3, <3>4
  <2>3. QED
    BY <1>2, <1>6, <1>13, <2>1, <2>2
<1>14. SearchInv(N, E, t)
  BY <1>5, <1>7, <1>11, <1>12, <1>13 DEF SearchInv
<1>15. QED
  BY <1>1, <1>3, <1>5, <1>9, <1>14

\* A successor is grey: the stack from it on, and back to it, is a cycle.
LEMMA SearchFinds ==
  ASSUME NEW N, NEW E, IsGraph(N, E), NEW s, SearchInv(N, E, s), s.path = <<>>,
         NEW n \in ToVisit(N, E, s) \cap Grey(s), n = CHOOSE m \in ToVisit(N, E, s) : TRUE
  PROVE  SearchInv(N, E, Search(N, E, s)) /\ Search(N, E, s).path # <<>>
<1>1. PICK t : t = Search(N, E, s)
  OBVIOUS
<1>2. s.stack \in Seq(N) /\ Len(s.stack) \in Nat /\ s.black \in SUBSET N
  BY DEF SearchInv, SearchStates
<1>3. t = [stack |-> s.stack, black |-> s.black, path |-> PathFrom(s.stack, n)]
  BY <1>1 DEF Search
<1>4. PICK i \in DOMAIN s.stack : s.stack[i] = n /\ i = CHOOSE j \in DOMAIN s.stack : s.stack[j] = n
  BY DEF Grey
<1>5. PICK p : p = PathFrom(s.stack, n)
  OBVIOUS
<1>6. p = Append(SubSeq(s.stack, i, Len(s.stack)), n)
  BY <1>4, <1>5 DEF PathFrom
<1>7. PICK k \in Nat : Len(s.stack) = i + k
  <2>1. i \in 1..Len(s.stack)
    BY <1>2, <1>4
  <2>2. Len(s.stack) - i \in Nat
    BY <1>2, <2>1
  <2>3. QED
    BY <1>2, <2>1, <2>2
<1>8. i \in Nat \ {0} /\ DOMAIN s.stack = 1..Len(s.stack)
  <2>1. DOMAIN s.stack = 1..Len(s.stack)
    BY <1>2
  <2>2. i \in 1..Len(s.stack)
    BY <2>1
  <2>3. QED
    BY <1>2, <2>1, <2>2
<1>9. /\ SubSeq(s.stack, i, i + k) \in Seq(N) /\ Len(SubSeq(s.stack, i, i + k)) = k + 1
      /\ \A j \in 1..(k + 1) : SubSeq(s.stack, i, i + k)[j] = s.stack[i + j - 1]
  BY <1>2, <1>7, <1>8
<1>10. n \in N
  BY DEF ToVisit
<1>11. /\ p \in Seq(N) /\ Len(p) = k + 2 /\ p[k + 2] = n
       /\ \A j \in 1..(k + 1) : p[j] = s.stack[i + j - 1]
  <2>1. PICK q : q = SubSeq(s.stack, i, i + k)
    OBVIOUS
  <2>2. /\ q \in Seq(N) /\ Len(q) = k + 1
        /\ \A j \in 1..(k + 1) : q[j] = s.stack[i + j - 1]
    BY <1>9, <2>1
  <2>3. p = Append(q, n)
    BY <1>6, <1>7, <2>1
  <2>4. /\ p \in Seq(N) /\ Len(p) = k + 2 /\ p[k + 2] = n
        /\ \A j \in 1..(k + 1) : p[j] = q[j]
    BY <1>10, <2>2, <2>3
  <2>5. QED
    BY <2>2, <2>4
<1>12. p[1] = n
  BY <1>4, <1>8, <1>11
<1>13. <<s.stack[i + k], n>> \in E
  <2>1. n \in Successors(E, s.stack[i + k])
    BY <1>2, <1>7, <1>8 DEF ToVisit, Reached
  <2>2. PICK e \in E : e[1] = s.stack[i + k] /\ e[2] = n
    BY <2>1 DEF Successors
  <2>3. e = <<s.stack[i + k], n>>
    BY <2>2 DEF IsGraph
  <2>4. QED
    BY <2>2, <2>3
<1>14. ASSUME NEW j \in 1..(k + 1) PROVE <<p[j], p[j + 1]>> \in E
  <2>1. CASE j = k + 1
    <3>1. k + 1 \in 1..(k + 1) /\ i + (k + 1) - 1 = i + k /\ (k + 1) + 1 = k + 2
      BY <1>8
    <3>2. p[j] = s.stack[i + k] /\ p[j + 1] = n
      BY <1>11, <2>1, <3>1
    <3>3. QED
      BY <1>13, <3>2
  <2>2. CASE j < k + 1
    <3>1. j + 1 \in 1..(k + 1) /\ i + j - 1 \in 1..(Len(s.stack) - 1) /\ (i + j - 1) + 1 = i + (j + 1) - 1
      BY <1>7, <1>8, <1>14, <2>2
    <3>2. p[j] = s.stack[i + j - 1] /\ p[j + 1] = s.stack[(i + j - 1) + 1]
      BY <1>11, <3>1
    <3>3. QED
      BY <3>1, <3>2 DEF SearchInv
  <2>3. QED
    BY <2>1, <2>2
<1>15. IsClosedPath(p, E)
  BY <1>11, <1>12, <1>14 DEF IsClosedPath
<1>16. t.stack = s.stack /\ t.black = s.black /\ t.path = p /\ p # <<>> /\ p \in Seq(N)
  BY <1>3, <1>5, <1>11
<1>17. t \in SearchStates(N)
  BY <1>3, <1>5, <1>2, <1>16 DEF SearchStates
<1>18. SearchInv(N, E, t)
  BY <1>15, <1>16, <1>17 DEF SearchInv, Grey
<1>19. QED
  BY <1>1, <1>16, <1>18

\* What a search has before it: nodes to leave and nodes to enter.
ToDo(N, s) == Cardinality(N \ s.black) + Cardinality(N \ (s.black \cup Grey(s)))

Goes(N, E, s, k) ==
    s.path # <<>> \/ Over(N, E, s) \/ ToDo(N, s) + k <= 2 * Cardinality(N)

LEMMA ToDoType == ASSUME NEW N, NEW s, IsFiniteSet(N) PROVE ToDo(N, s) \in Nat
<1>1. IsFiniteSet(N \ s.black) /\ IsFiniteSet(N \ (s.black \cup Grey(s)))
  BY FS_Difference
<1>2. QED
  BY <1>1, FS_CardinalityType DEF ToDo

\* Each turn keeps the invariant and, unless the search is over, takes one.
LEMMA SearchStep ==
  ASSUME NEW N, NEW E, IsGraph(N, E), NEW s, SearchInv(N, E, s), NEW k \in Nat, Goes(N, E, s, k)
  PROVE  SearchInv(N, E, Search(N, E, s)) /\ Goes(N, E, Search(N, E, s), k + 1)
<1>1. PICK t : t = Search(N, E, s)
  OBVIOUS
<1>2. IsFiniteSet(N) /\ Cardinality(N) \in Nat
  BY FS_CardinalityType DEF IsGraph
<1>3. Grey(s) \subseteq N /\ Grey(s) \cap s.black = {} /\ s.black \subseteq N
  BY DEF SearchInv, SearchStates, Grey
<1>4. CASE s.path # <<>> \/ Over(N, E, s)
  BY <1>4, SearchOver DEF Goes
<1>5. CASE s.path = <<>> /\ s.stack # <<>> /\ ToVisit(N, E, s) = {}
  <2>1. PICK top : top = Reached(s)
    OBVIOUS
  <2>2. /\ SearchInv(N, E, t) /\ top \in Grey(s)
        /\ t.black = s.black \cup {top} /\ Grey(t) = Grey(s) \ {top}
    BY <1>1, <1>5, <2>1, SearchLeaves
  <2>3. N \ t.black = (N \ s.black) \ {top} /\ top \in N \ s.black
    BY <1>3, <2>2
  <2>4. t.black \cup Grey(t) = s.black \cup Grey(s)
    BY <2>2
  <2>5. IsFiniteSet(N \ s.black)
    BY <1>2, FS_Difference
  <2>6. Cardinality(N \ t.black) = Cardinality(N \ s.black) - 1
    BY <2>3, <2>5, FS_RemoveElement
  <2>7. IsFiniteSet(N \ (s.black \cup Grey(s)))
    BY <1>2, FS_Difference
  <2>8. ToDo(N, t) = ToDo(N, s) - 1
    <3>1. PICK a \in Nat, b \in Nat :
            a = Cardinality(N \ s.black) /\ b = Cardinality(N \ (s.black \cup Grey(s)))
      BY <2>5, <2>7, FS_CardinalityType
    <3>2. ToDo(N, s) = a + b
      BY <3>1 DEF ToDo
    <3>3. ToDo(N, t) = (a - 1) + b
      BY <2>4, <2>6, <3>1 DEF ToDo
    <3>4. QED
      BY <3>2, <3>3
  <2>9. ToDo(N, s) \in Nat
    BY <1>2, ToDoType
  <2>10. QED
    BY <1>1, <1>2, <1>4, <2>2, <2>8, <2>9 DEF Goes
<1>6. CASE s.path = <<>> /\ ToVisit(N, E, s) # {}
  <2>1. PICK n \in ToVisit(N, E, s) : n = CHOOSE m \in ToVisit(N, E, s) : TRUE
    BY <1>6
  <2>2. CASE n \in Grey(s)
    BY <1>6, <2>1, <2>2, SearchFinds DEF Goes
  <2>3. CASE n \notin Grey(s)
    <3>1. /\ SearchInv(N, E, t) /\ t.black = s.black
          /\ n \in N /\ n \notin Grey(s) \cup s.black /\ Grey(t) = Grey(s) \cup {n}
      BY <1>1, <1>6, <2>1, <2>3, SearchEnters
    <3>2. PICK white : white = N \ (s.black \cup Grey(s))
      OBVIOUS
    <3>3. N \ (t.black \cup Grey(t)) = white \ {n} /\ n \in white
      BY <3>1, <3>2
    <3>4. IsFiniteSet(white) /\ IsFiniteSet(N \ s.black)
      BY <1>2, <3>2, FS_Difference
    <3>5. Cardinality(white \ {n}) = Cardinality(white) - 1
      BY <3>3, <3>4, FS_RemoveElement
    <3>6. ToDo(N, t) = ToDo(N, s) - 1
      <4>1. PICK a \in Nat, b \in Nat : a = Cardinality(N \ s.black) /\ b = Cardinality(white)
        BY <3>4, FS_CardinalityType
      <4>2. ToDo(N, s) = a + b
        BY <3>2, <4>1 DEF ToDo
      <4>3. ToDo(N, t) = a + (b - 1)
        BY <3>1, <3>3, <3>5, <4>1 DEF ToDo
      <4>4. QED
        BY <4>2, <4>3
    <3>7. ToDo(N, s) \in Nat
      BY <1>2, ToDoType
    <3>8. QED
      BY <1>1, <1>2, <1>4, <3>1, <3>6, <3>7 DEF Goes
  <2>4. QED
    BY <2>2, <2>3
<1>7. QED
  BY <1>4, <1>5, <1>6 DEF Over

LEMMA SearchTyped ==
  ASSUME NEW N, NEW E, IsGraph(N, E), NEW s \in SearchStates(N)
  PROVE  Search(N, E, s) \in SearchStates(N)
<1>1. PICK t : t = Search(N, E, s)
  OBVIOUS
<1>2. s.stack \in Seq(N) /\ Len(s.stack) \in Nat /\ s.black \in SUBSET N /\ s.path \in Seq(N)
  BY DEF SearchStates
<1>3. CASE s.path # <<>> \/ Over(N, E, s)
  BY <1>3, SearchOver
<1>4. CASE s.path = <<>> /\ s.stack # <<>> /\ ToVisit(N, E, s) = {}
  <2>1. PICK k \in Nat : k = Len(s.stack) - 1 /\ Len(s.stack) = k + 1
    <3>1. Len(s.stack) - 1 \in Nat /\ Len(s.stack) = (Len(s.stack) - 1) + 1
      BY <1>2, <1>4
    <3>2. QED
      BY <3>1
  <2>2. Search(N, E, s) = [stack |-> SubSeq(s.stack, 1, k),
                           black |-> s.black \cup {Reached(s)}, path |-> <<>>]
    BY <1>4, <2>1 DEF Search
  <2>3. SubSeq(s.stack, 1, k) \in Seq(N) /\ Reached(s) \in N
    BY <1>2, <2>1 DEF Reached
  <2>4. QED
    BY <1>2, <2>2, <2>3 DEF SearchStates
<1>5. CASE s.path = <<>> /\ ToVisit(N, E, s) # {}
  <2>1. PICK n \in ToVisit(N, E, s) : n = CHOOSE m \in ToVisit(N, E, s) : TRUE
    BY <1>5
  <2>2. n \in N
    BY DEF ToVisit
  <2>3. CASE n \in Grey(s)
    <3>1. PICK i \in DOMAIN s.stack : i = CHOOSE j \in DOMAIN s.stack : s.stack[j] = n
      BY <2>3 DEF Grey
    <3>2. i \in 1..Len(s.stack)
      <4>1. DOMAIN s.stack = 1..Len(s.stack)
        BY <1>2
      <4>2. QED
        BY <4>1
    <3>3. SubSeq(s.stack, i, Len(s.stack)) \in Seq(N)
      BY <1>2, <3>2
    <3>4. PathFrom(s.stack, n) = Append(SubSeq(s.stack, i, Len(s.stack)), n)
      BY <3>1 DEF PathFrom
    <3>5. PathFrom(s.stack, n) \in Seq(N)
      BY <2>2, <3>3, <3>4
    <3>6. Search(N, E, s) = [stack |-> s.stack, black |-> s.black, path |-> PathFrom(s.stack, n)]
      BY <1>5, <2>1, <2>3 DEF Search
    <3>7. QED
      BY <1>2, <3>5, <3>6 DEF SearchStates
  <2>4. CASE n \notin Grey(s)
    <3>1. Search(N, E, s) = [stack |-> Append(s.stack, n), black |-> s.black, path |-> <<>>]
      BY <1>5, <2>1, <2>4 DEF Search
    <3>2. Append(s.stack, n) \in Seq(N)
      BY <1>2, <2>2
    <3>3. QED
      BY <1>2, <3>1, <3>2 DEF SearchStates
  <2>5. QED
    BY <2>3, <2>4
<1>6. QED
  BY <1>3, <1>4, <1>5 DEF Over

\* What detectCycle answers is the path of the last of the states it runs through.
LEMMA SearchRuns ==
  ASSUME NEW N, NEW E, IsGraph(N, E)
  PROVE  \E t \in [Nat -> SearchStates(N)] :
            /\ t[0] = SearchStart /\ \A k \in Nat : t[k + 1] = Search(N, E, t[k])
            /\ DetectCycle(N, E) = t[2 * Cardinality(N) + 1].path
<1>. DEFINE X == SearchStates(N)
            step == [s \in X |-> Search(N, E, s)]
            Run(t) == t = [k \in Nat |-> IF k = 0 THEN SearchStart ELSE Search(N, E, t[k - 1])]
            after == CHOOSE t : Run(t)
<1>1. step \in [X -> X]
  BY SearchTyped
<1>2. SearchStart \in X
  BY DEF SearchStart, SearchStates
<1>3. PICK t \in [Nat -> X] : t = [k \in Nat |-> IF k = 0 THEN SearchStart ELSE step[t[k - 1]]]
  <2> HIDE DEF X, step
  <2>1. QED
    BY <1>1, <1>2, Iteration
<1>4. \A k \in Nat : k # 0 => step[t[k - 1]] = Search(N, E, t[k - 1])
  <2>1. ASSUME NEW k \in Nat, k # 0 PROVE step[t[k - 1]] = Search(N, E, t[k - 1])
    <3>1. t[k - 1] \in X
      BY <2>1
    <3>2. QED
      BY <3>1
  <2>2. QED
    BY <2>1
<1>5. Run(t)
  <2> HIDE DEF step, X
  <2>1. QED
    BY <1>3, <1>4
<1>6. Run(after)
  BY <1>5
<1>7. DetectCycle(N, E) = after[2 * Cardinality(N) + 1].path
  BY DEF DetectCycle
<1> HIDE DEF after
<1>8. after[0] = SearchStart /\ \A k \in Nat : after[k + 1] = Search(N, E, after[k])
  BY <1>6
<1>9. \A k \in Nat : after[k] \in X
  <2>. DEFINE S == {k \in Nat : after[k] \in X}
  <2>1. 0 \in S /\ \A k \in S : k + 1 \in S
    BY <1>2, <1>8, SearchTyped
  <2>2. S \in SUBSET Nat
    OBVIOUS
  <2>3. \A k \in Nat : k \in S
    <3> HIDE DEF S
    <3>1. QED
      BY <2>1, <2>2, AllNaturals
  <2>4. QED
    BY <2>3
<1>10. after \in [Nat -> X]
  BY <1>6, <1>9
<1>11. QED
  BY <1>7, <1>8, <1>10

\* detectCycle answers exactly when there is a cycle, and what it answers is
\* one: for every finite graph, in whatever order it visits the nodes.
THEOREM DetectCycleDecides ==
  ASSUME NEW N, NEW E, IsGraph(N, E)
  PROVE  IF Acyclic(E) THEN DetectCycle(N, E) = <<>>
                       ELSE DetectCycle(N, E) # <<>> /\ IsClosedPath(DetectCycle(N, E), E)
<1>1. PICK t \in [Nat -> SearchStates(N)] :
            /\ t[0] = SearchStart /\ \A k \in Nat : t[k + 1] = Search(N, E, t[k])
            /\ DetectCycle(N, E) = t[2 * Cardinality(N) + 1].path
  BY SearchRuns
<1>2. IsFiniteSet(N) /\ Cardinality(N) \in Nat
  BY FS_CardinalityType DEF IsGraph
<1>3. SearchInv(N, E, SearchStart) /\ Goes(N, E, SearchStart, 0)
  <2>1. /\ SearchStart \in SearchStates(N) /\ SearchStart.stack = <<>>
        /\ SearchStart.black = {} /\ SearchStart.path = <<>>
    BY DEF SearchStart, SearchStates
  <2>2. Grey(SearchStart) = {}
    BY <2>1 DEF Grey
  <2>3. SearchInv(N, E, SearchStart)
    BY <2>1, <2>2 DEF SearchInv
  <2>4. N \ SearchStart.black = N /\ N \ (SearchStart.black \cup Grey(SearchStart)) = N
    BY <2>1, <2>2
  <2>5. ToDo(N, SearchStart) = Cardinality(N) + Cardinality(N)
    BY <2>4 DEF ToDo
  <2>6. QED
    BY <1>2, <2>3, <2>5 DEF Goes
<1>4. \A k \in Nat : SearchInv(N, E, t[k]) /\ Goes(N, E, t[k], k)
  <2>. DEFINE S == {k \in Nat : SearchInv(N, E, t[k]) /\ Goes(N, E, t[k], k)}
  <2>1. 0 \in S
    BY <1>1, <1>3
  <2>2. \A k \in S : k + 1 \in S
    BY <1>1, SearchStep
  <2>3. S \in SUBSET Nat
    OBVIOUS
  <2>4. \A k \in Nat : k \in S
    <3> HIDE DEF S
    <3>1. QED
      BY <2>1, <2>2, <2>3, AllNaturals
  <2>5. QED
    BY <2>4
<1>5. PICK s : s = t[2 * Cardinality(N) + 1]
  OBVIOUS
<1>6. SearchInv(N, E, s) /\ (s.path # <<>> \/ Over(N, E, s))
  <2>1. 2 * Cardinality(N) + 1 \in Nat
    BY <1>2
  <2>2. SearchInv(N, E, s) /\ Goes(N, E, s, 2 * Cardinality(N) + 1)
    BY <1>4, <1>5, <2>1
  <2>3. ToDo(N, s) \in Nat
    BY <1>2, ToDoType
  <2>4. QED
    BY <1>2, <2>2, <2>3 DEF Goes
<1>7. CASE s.path # <<>>
  <2>1. PICK p : p = s.path
    OBVIOUS
  <2>2. IsClosedPath(p, E) /\ p \in Seq(N)
    BY <1>6, <1>7, <2>1 DEF SearchInv, SearchStates
  <2>3. ~ Acyclic(E)
    <3>1. SUFFICES ASSUME Acyclic(E) PROVE FALSE
      OBVIOUS
    <3>. DEFINE S == {p[i] : i \in 1..Len(p)}
    <3>2. Len(p) \in Nat /\ Len(p) > 1
      BY <2>2 DEF IsClosedPath
    <3>3. ASSUME NEW n \in S PROVE \E m \in S : <<m, n>> \in E
      <4>1. PICK i \in 1..Len(p) : n = p[i]
        OBVIOUS
      <4>2. CASE i = 1
        <5>1. Len(p) - 1 \in 1..(Len(p) - 1) /\ (Len(p) - 1) + 1 = Len(p) /\ Len(p) - 1 \in 1..Len(p)
          BY <3>2
        <5>2. <<p[Len(p) - 1], p[Len(p)]>> \in E /\ p[Len(p)] = n
          BY <2>2, <4>1, <4>2, <5>1 DEF IsClosedPath
        <5>3. QED
          BY <5>1, <5>2
      <4>3. CASE i # 1
        <5>1. i - 1 \in 1..(Len(p) - 1) /\ (i - 1) + 1 = i /\ i - 1 \in 1..Len(p)
          BY <3>2, <4>3
        <5>2. <<p[i - 1], p[i]>> \in E
          BY <2>2, <5>1 DEF IsClosedPath
        <5>3. QED
          BY <4>1, <5>1, <5>2
      <4>4. QED
        BY <4>2, <4>3
    <3>4. ASSUME NEW n \in S PROVE \E m \in S : <<n, m>> \in E
      <4>1. PICK i \in 1..Len(p) : n = p[i]
        OBVIOUS
      <4>2. CASE i = Len(p)
        <5>1. 1 \in 1..(Len(p) - 1) /\ 1 + 1 \in 1..Len(p)
          BY <3>2
        <5>2. <<p[1], p[1 + 1]>> \in E /\ p[1] = n
          BY <2>2, <4>1, <4>2, <5>1 DEF IsClosedPath
        <5>3. QED
          BY <5>1, <5>2
      <4>3. CASE i # Len(p)
        <5>1. i \in 1..(Len(p) - 1) /\ i + 1 \in 1..Len(p)
          BY <3>2, <4>3
        <5>2. <<p[i], p[i + 1]>> \in E
          BY <2>2, <5>1 DEF IsClosedPath
        <5>3. QED
          BY <4>1, <5>1, <5>2
      <4>4. QED
        BY <4>2, <4>3
    <3>5. S # {}
      <4>1. 1 \in 1..Len(p)
        BY <3>2
      <4>2. QED
        BY <4>1
    <3> HIDE DEF S
    <3>6. ASSUME NEW n \in S PROVE n \in {e[1] : e \in E} \cap {e[2] : e \in E}
      <4>1. PICK m \in S : <<m, n>> \in E
        BY <3>3
      <4>2. PICK l \in S : <<n, l>> \in E
        BY <3>4
      <4>3. <<m, n>>[2] = n /\ <<n, l>>[1] = n
        OBVIOUS
      <4>4. QED
        BY <4>1, <4>2, <4>3
    <3>7. PICK n \in S : \A m \in S : <<m, n>> \notin E
      BY <3>1, <3>5, <3>6 DEF Acyclic
    <3>8. QED
      BY <3>3, <3>7
  <2>4. QED
    BY <1>1, <1>5, <1>7, <2>1, <2>2, <2>3
<1>8. CASE s.path = <<>>
  <2>1. N \subseteq s.black
    BY <1>6, <1>8 DEF Over, ToVisit
  <2>2. ASSUME NEW S \in SUBSET ({e[1] : e \in E} \cap {e[2] : e \in E}), S # {}
        PROVE  \E n \in S : \A m \in S : <<m, n>> \notin E
    <3>1. S \in SUBSET s.black
      BY <2>1 DEF IsGraph
    <3>2. QED
      BY <1>6, <2>2, <3>1 DEF SearchInv
  <2>3. Acyclic(E)
    BY <2>2 DEF Acyclic
  <2>4. QED
    BY <1>1, <1>5, <1>8, <2>3
<1>9. QED
  BY <1>7, <1>8
-----------------------------------------------------------------------------
Increasing(q) == \A i, j \in DOMAIN q : i < j => q[i] < q[j]
Elements(q) == {q[i] : i \in DOMAIN q}

\* A sequence without repetition is as long as the set of its elements.
LEMMA LenIsCardinality ==
  ASSUME NEW N, NEW q \in Seq(N), \A i, j \in DOMAIN q : i # j => q[i] # q[j]
  PROVE  IsFiniteSet(Elements(q)) /\ Cardinality(Elements(q)) = Len(q)
<1>1. Len(q) \in Nat /\ DOMAIN q = 1..Len(q) /\ q = [i \in 1..Len(q) |-> q[i]]
  OBVIOUS
<1>2. q \in Bijection(1..Len(q), Elements(q))
  BY <1>1 DEF Bijection, Injection, Surjection, IsInjective, Elements
<1>3. ExistsBijection(1..Len(q), Elements(q))
  BY <1>2 DEF ExistsBijection
<1>4. QED
  BY <1>1, <1>3, FS_CountingElements, FS_NatBijection

\* A finite set of numbers in order.
LEMMA AscendingOrders ==
  ASSUME NEW S \in SUBSET Nat, IsFiniteSet(S)
  PROVE  Ascending(S) \in Seq(S) /\ Increasing(Ascending(S)) /\ Elements(Ascending(S)) = S
<1>. DEFINE Below(n) == {m \in S : m < n}
            c == Cardinality(S)
            rank == [n \in S |-> Cardinality(Below(n))]
<1>1. c \in Nat
  BY FS_CardinalityType
<1>2. \A n : IsFiniteSet(Below(n)) /\ Cardinality(Below(n)) \in Nat
  <2>1. ASSUME NEW n PROVE IsFiniteSet(Below(n)) /\ Cardinality(Below(n)) \in Nat
    <3>1. Below(n) \in SUBSET S
      OBVIOUS
    <3>2. IsFiniteSet(Below(n))
      BY <3>1, FS_Subset
    <3>3. QED
      BY <3>2, FS_CardinalityType
  <2>2. QED
    BY <2>1
<1>3. ASSUME NEW m \in S, NEW n \in S, m < n
      PROVE  Cardinality(Below(m)) < Cardinality(Below(n))
  <2>1. Below(m) \in SUBSET Below(n) /\ m \in Below(n) /\ m \notin Below(m)
    <3>1. m \in Nat /\ n \in Nat
      OBVIOUS
    <3>2. ASSUME NEW x \in Below(m) PROVE x \in Below(n)
      <4>1. x \in S /\ x \in Nat /\ x < m
        OBVIOUS
      <4>2. x < n
        BY <1>3, <3>1, <4>1
      <4>3. QED
        BY <4>1, <4>2
    <3>3. m \in Below(n) /\ m \notin Below(m)
      BY <1>3, <3>1
    <3> HIDE DEF Below
    <3>4. QED
      BY <3>2, <3>3
  <2>2. PICK a, b : a = Below(m) /\ b = Below(n)
    OBVIOUS
  <2>3. IsFiniteSet(b) /\ a \in SUBSET b /\ a # b /\ Cardinality(a) \in Nat /\ Cardinality(b) \in Nat
    BY <1>2, <2>1, <2>2
  <2>4. Cardinality(a) <= Cardinality(b) /\ Cardinality(a) # Cardinality(b)
    BY <2>3, FS_Subset
  <2>5. QED
    BY <2>2, <2>3, <2>4
<1>4. ASSUME NEW n \in S PROVE Cardinality(Below(n)) \in 0..(c - 1)
  <2>1. PICK a : a = Below(n)
    OBVIOUS
  <2>2. a \in SUBSET S /\ a # S /\ Cardinality(a) \in Nat
    BY <1>2, <2>1
  <2>3. Cardinality(a) <= c /\ Cardinality(a) # c
    BY <2>2, FS_Subset
  <2>4. QED
    BY <1>1, <2>1, <2>2, <2>3
<1> HIDE DEF Below
<1>5. rank \in Injection(S, 0..(c - 1))
  <2>1. rank \in [S -> 0..(c - 1)]
    BY <1>4
  <2>2. ASSUME NEW m \in S, NEW n \in S, m # n PROVE rank[m] # rank[n]
    <3>1. m \in Nat /\ n \in Nat
      OBVIOUS
    <3>2. CASE m < n
      BY <1>2, <1>3, <3>2
    <3>3. CASE n < m
      BY <1>2, <1>3, <3>3
    <3>4. QED
      BY <2>2, <3>1, <3>2, <3>3
  <2> HIDE DEF rank
  <2>3. QED
    BY <2>1, <2>2 DEF Injection, IsInjective
<1>6. rank \in Surjection(S, 0..(c - 1))
  <2>1. IsFiniteSet(0..(c - 1)) /\ Cardinality(0..(c - 1)) = c
    <3>1. 0 \in Int /\ c - 1 \in Int
      BY <1>1
    <3>2. PICK b : b = c - 1
      OBVIOUS
    <3>3. IsFiniteSet(0..b) /\ Cardinality(0..b) = IF 0 > b THEN 0 ELSE b - 0 + 1
      BY <3>1, <3>2, FS_Interval
    <3>4. QED
      BY <1>1, <3>2, <3>3
  <2> HIDE DEF rank
  <2>2. QED
    BY <1>5, <2>1, FS_Injection
<1>. DEFINE q == Ascending(S)
<1>7. q = [i \in 1..c |-> CHOOSE n \in S : Cardinality(Below(n)) = i - 1]
  BY DEF Ascending, Below
<1>8. ASSUME NEW i \in 1..c PROVE q[i] \in S /\ Cardinality(Below(q[i])) = i - 1
  <2>1. i - 1 \in 0..(c - 1)
    BY <1>1
  <2>2. \E n \in S : Cardinality(Below(n)) = i - 1
    BY <1>6, <2>1 DEF Surjection
  <2> HIDE DEF q
  <2>3. QED
    BY <1>7, <2>2
<1> HIDE DEF q, rank
<1>9. q \in Seq(S) /\ Len(q) = c /\ DOMAIN q = 1..c
  BY <1>1, <1>7, <1>8
<1>10. ASSUME NEW i \in 1..c, NEW j \in 1..c, i < j PROVE q[i] < q[j]
  <2>1. q[i] \in S /\ q[j] \in S /\ q[i] \in Nat /\ q[j] \in Nat
    BY <1>8
  <2>2. Cardinality(Below(q[i])) < Cardinality(Below(q[j]))
    BY <1>1, <1>8, <1>10
  <2>3. ~ (q[j] < q[i])
    BY <1>2, <1>3, <2>1, <2>2
  <2>4. q[i] # q[j]
    BY <1>2, <2>2
  <2>5. QED
    BY <2>1, <2>3, <2>4
<1>11. ASSUME NEW n \in S PROVE \E i \in 1..c : q[i] = n
  <2>1. PICK r \in 0..(c - 1) : r = Cardinality(Below(n))
    BY <1>4
  <2>2. r + 1 \in 1..c /\ (r + 1) - 1 = r
    BY <1>1
  <2>3. q[r + 1] \in S /\ Cardinality(Below(q[r + 1])) = r
    BY <1>8, <2>2
  <2>4. n \in Nat /\ q[r + 1] \in Nat
    BY <2>3
  <2>5. ~ (n < q[r + 1]) /\ ~ (q[r + 1] < n)
    <3>1. PICK k \in S : k = q[r + 1]
      BY <2>3
    <3>2. Cardinality(Below(k)) = r /\ Cardinality(Below(n)) = r /\ r \in Nat
      BY <1>1, <2>1, <2>3, <3>1
    <3>3. n < k => r < r
      BY <1>3, <3>2
    <3>4. k < n => r < r
      BY <1>3, <3>2
    <3>5. QED
      BY <3>1, <3>2, <3>3, <3>4
  <2>6. QED
    BY <2>2, <2>4, <2>5
<1>12. QED
  BY <1>8, <1>9, <1>10, <1>11 DEF q, Increasing, Elements

\* An element is put where it belongs.
LEMMA InsertedOrders ==
  ASSUME NEW N \in SUBSET Nat, NEW q \in Seq(N), Increasing(q), NEW n \in N \ Elements(q)
  PROVE  /\ Inserted(q, n) \in Seq(N) /\ Increasing(Inserted(q, n))
         /\ Elements(Inserted(q, n)) = Elements(q) \cup {n}
<1>. DEFINE Fits(i) == /\ \A j \in 1..(i - 1) : q[j] <= n
                       /\ i <= Len(q) => q[i] > n
<1>1. Len(q) \in Nat /\ DOMAIN q = 1..Len(q) /\ \A i \in 1..Len(q) : q[i] \in N /\ q[i] \in Nat
  <2>1. Len(q) \in Nat /\ DOMAIN q = 1..Len(q)
    OBVIOUS
  <2>2. ASSUME NEW i \in 1..Len(q) PROVE q[i] \in N
    OBVIOUS
  <2>3. QED
    BY <2>1, <2>2
<1>2. \E i \in 1..(Len(q) + 1) : Fits(i)
  <2>1. SUFFICES ASSUME \A i \in 1..(Len(q) + 1) : ~ Fits(i) PROVE FALSE
    OBVIOUS
  <2>. DEFINE T == {k \in 0..Len(q) : \A j \in 1..k : q[j] <= n}
  <2>2. 0 \in T
    BY <1>1
  <2>3. ASSUME NEW k \in T, k < Len(q) PROVE k + 1 \in T
    <3>1. k + 1 \in 1..(Len(q) + 1) /\ (k + 1) - 1 = k /\ k + 1 <= Len(q)
      BY <1>1, <2>3
    <3>2. ~ (q[k + 1] > n)
      BY <2>1, <3>1
    <3>3. q[k + 1] <= n
      BY <1>1, <3>1, <3>2
    <3>4. QED
      BY <1>1, <2>3, <3>1, <3>3
  <2>4. T \in SUBSET (0..Len(q))
    OBVIOUS
  <2>5. Len(q) \in T
    <3> HIDE DEF T
    <3>1. QED
      BY <1>1, <2>2, <2>3, <2>4, CountUp
  <2>6. Fits(Len(q) + 1)
    BY <1>1, <2>5
  <2>7. QED
    BY <1>1, <2>1, <2>6
<1>3. PICK at : at = CHOOSE i \in 1..(Len(q) + 1) : Fits(i)
  OBVIOUS
<1>4. at \in 1..(Len(q) + 1) /\ Fits(at)
  BY <1>2, <1>3
<1>5. PICK r : r = Inserted(q, n)
  OBVIOUS
<1>6. r = [k \in 1..(Len(q) + 1) |-> IF k < at THEN q[k] ELSE IF k = at THEN n ELSE q[k - 1]]
  BY <1>3, <1>5 DEF Inserted
<1>7. /\ \A j \in 1..(at - 1) : q[j] < n
      /\ \A j \in at..Len(q) : n < q[j]
  <2>1. ASSUME NEW j \in 1..(at - 1) PROVE q[j] < n
    <3>1. j \in 1..Len(q) /\ q[j] <= n
      BY <1>1, <1>4
    <3>2. q[j] # n
      BY <1>1, <3>1 DEF Elements
    <3>3. QED
      BY <1>1, <3>1, <3>2
  <2>2. ASSUME NEW j \in at..Len(q) PROVE n < q[j]
    <3>1. at \in 1..Len(q) /\ j \in 1..Len(q) /\ n < q[at]
      BY <1>1, <1>4
    <3>2. q[at] <= q[j]
      BY <1>1, <3>1 DEF Increasing
    <3>3. QED
      BY <1>1, <3>1, <3>2
  <2>3. QED
    BY <2>1, <2>2
<1>8. /\ \A k \in 1..(at - 1) : k \in 1..Len(q) /\ r[k] = q[k]
      /\ r[at] = n
      /\ \A k \in (at + 1)..(Len(q) + 1) : k - 1 \in 1..Len(q) /\ k - 1 \in at..Len(q) /\ r[k] = q[k - 1]
  BY <1>1, <1>4, <1>6
<1>9. \A k \in 1..(Len(q) + 1) : k \in 1..(at - 1) \/ k = at \/ k \in (at + 1)..(Len(q) + 1)
  BY <1>1, <1>4
<1>10. \A k \in 1..(Len(q) + 1) : r[k] \in N
  BY <1>1, <1>8, <1>9
<1>11. r \in Seq(N) /\ Len(r) = Len(q) + 1 /\ DOMAIN r = 1..(Len(q) + 1)
  BY <1>1, <1>6, <1>10
<1>12. ASSUME NEW i \in 1..(Len(q) + 1), NEW j \in 1..(Len(q) + 1), i < j PROVE r[i] < r[j]
  <2>1. CASE j \in 1..(at - 1)
    <3>1. i \in 1..(at - 1)
      BY <1>1, <1>4, <1>12, <2>1
    <3>2. QED
      BY <1>1, <1>8, <1>12, <2>1, <3>1 DEF Increasing
  <2>2. CASE j = at
    <3>1. i \in 1..(at - 1)
      BY <1>1, <1>4, <1>12, <2>2
    <3>2. QED
      BY <1>7, <1>8, <2>2, <3>1
  <2>3. CASE j \in (at + 1)..(Len(q) + 1)
    <3>1. j - 1 \in at..Len(q) /\ j - 1 \in 1..Len(q) /\ r[j] = q[j - 1]
      BY <1>8, <2>3
    <3>2. CASE i \in 1..(at - 1)
      <4>1. i \in 1..Len(q) /\ r[i] = q[i] /\ i < j - 1
        BY <1>4, <1>8, <3>1, <3>2
      <4>2. QED
        BY <1>1, <3>1, <4>1 DEF Increasing
    <3>3. CASE i = at
      BY <1>7, <1>8, <3>1, <3>3
    <3>4. CASE i \in (at + 1)..(Len(q) + 1)
      <4>1. i - 1 \in 1..Len(q) /\ r[i] = q[i - 1] /\ i - 1 < j - 1
        BY <1>8, <1>12, <3>4
      <4>2. QED
        BY <1>1, <3>1, <4>1 DEF Increasing
    <3>5. QED
      BY <1>9, <3>2, <3>3, <3>4
  <2>4. QED
    BY <1>9, <2>1, <2>2, <2>3
<1>13. ASSUME NEW m \in Elements(r) PROVE m \in Elements(q) \cup {n}
  <2>1. PICK k \in 1..(Len(q) + 1) : m = r[k]
    BY <1>11 DEF Elements
  <2>2. QED
    BY <1>1, <1>8, <1>9, <2>1 DEF Elements
<1>14. ASSUME NEW m \in Elements(q) PROVE m \in Elements(r)
  <2>1. PICK k \in 1..Len(q) : m = q[k]
    BY <1>1 DEF Elements
  <2>2. CASE k \in 1..(at - 1)
    <3>1. k \in DOMAIN r /\ m = r[k]
      BY <1>1, <1>8, <1>11, <2>1, <2>2
    <3>2. QED
      BY <3>1 DEF Elements
  <2>3. CASE k \in at..Len(q)
    <3>1. k + 1 \in (at + 1)..(Len(q) + 1) /\ (k + 1) - 1 = k /\ k + 1 \in DOMAIN r
      BY <1>1, <1>4, <1>11, <2>3
    <3>2. m = r[k + 1]
      BY <1>8, <2>1, <3>1
    <3>3. QED
      BY <3>1, <3>2 DEF Elements
  <2>4. QED
    BY <1>1, <1>4, <2>1, <2>2, <2>3
<1>15. n \in Elements(r)
  <2>1. at \in DOMAIN r
    BY <1>4, <1>11
  <2>2. QED
    BY <1>8, <2>1 DEF Elements
<1>16. Elements(r) = Elements(q) \cup {n}
  BY <1>13, <1>14, <1>15
<1>17. QED
  BY <1>5, <1>11, <1>12, <1>16 DEF Increasing

SortStates(N) == [degree: [N -> Nat], queue: Seq(N), result: Seq(N), left: SUBSET N]

Taken(s) == Elements(s.result)

Last(s) == s.result[Len(s.result)]

\* The edges still to be relaxed.
Pending(E, s) == {e \in E : e[1] \notin Taken(s) \/ (e[2] \in s.left /\ e[1] = Last(s))}

SortInv(N, E, s) ==
    /\ s \in SortStates(N)
    /\ s.left # {} => s.result # <<>> /\ s.left \subseteq Successors(E, Last(s))
    /\ \A n \in N : s.degree[n] = Cardinality({e \in Pending(E, s) : e[2] = n})
    /\ Increasing(s.queue)
    /\ Elements(s.queue) = {n \in N \ Taken(s) : s.degree[n] = 0}
    /\ \A n \in Taken(s) : s.degree[n] = 0
    /\ \A i, j \in DOMAIN s.result : i # j => s.result[i] # s.result[j]
    /\ IsStable(N, E, s.result)

Rest(N, E, s) == Cardinality(N \ Taken(s)) + Cardinality(Pending(E, s))

LEMMA Finite ==
  ASSUME NEW N, NEW E, IsGraph(N, E), NEW s
  PROVE  /\ IsFiniteSet(E) /\ IsFiniteSet(N \ Taken(s)) /\ IsFiniteSet(Pending(E, s))
         /\ \A n : IsFiniteSet({e \in Pending(E, s) : e[2] = n})
<1>1. IsFiniteSet(N \X N)
  BY FS_Product DEF IsGraph
<1>2. IsFiniteSet(E)
  BY <1>1, FS_Subset DEF IsGraph
<1>3. Pending(E, s) \in SUBSET E
  BY DEF Pending
<1>4. IsFiniteSet(Pending(E, s))
  BY <1>2, <1>3, FS_Subset
<1>5. IsFiniteSet(N \ Taken(s))
  BY FS_Difference DEF IsGraph
<1>6. ASSUME NEW n PROVE IsFiniteSet({e \in Pending(E, s) : e[2] = n})
  <2>1. {e \in Pending(E, s) : e[2] = n} \in SUBSET Pending(E, s)
    OBVIOUS
  <2>2. QED
    BY <1>4, <2>1, FS_Subset
<1>7. QED
  BY <1>2, <1>4, <1>5, <1>6

\* An edge is relaxed: it was the degree's last exactly if its target is free now.
LEMMA RelaxKeeps ==
  ASSUME NEW N \in SUBSET Nat, NEW E, IsGraph(N, E), NEW s, SortInv(N, E, s), NEW n \in s.left
  PROVE  LET t == Relax(s, n)
         IN  SortInv(N, E, t) /\ Rest(N, E, t) = Rest(N, E, s) - 1
<1>1. PICK t : t = Relax(s, n)
  OBVIOUS
<1>2. /\ t = [degree |-> t.degree, queue |-> t.queue, result |-> s.result, left |-> s.left \ {n}]
      /\ t.degree = [s.degree EXCEPT ![n] = IF @ > 0 THEN @ - 1 ELSE @]
      /\ t.queue = IF s.degree[n] = 1 THEN Inserted(s.queue, n) ELSE s.queue
      /\ t.result = s.result /\ t.left = s.left \ {n}
  BY <1>1 DEF Relax
<1>3. /\ s.degree \in [N -> Nat] /\ s.queue \in Seq(N) /\ s.result \in Seq(N)
      /\ s.left \in SUBSET N /\ n \in N /\ E \in SUBSET (N \X N)
  BY DEF SortInv, SortStates, IsGraph
<1>4. Taken(t) = Taken(s) /\ Last(t) = Last(s)
  BY <1>2 DEF Taken, Last
<1>5. PICK e0 : e0 = <<Last(s), n>>
  OBVIOUS
<1>6. e0 \in E /\ e0[1] = Last(s) /\ e0[2] = n /\ Last(s) \in Taken(s)
  <2>1. s.result # <<>> /\ n \in Successors(E, Last(s))
    BY DEF SortInv
  <2>2. PICK e \in E : e[1] = Last(s) /\ e[2] = n
    BY <2>1 DEF Successors
  <2>3. e = e0
    BY <1>3, <1>5, <2>2
  <2>4. Len(s.result) \in DOMAIN s.result
    BY <1>3, <2>1
  <2>5. QED
    BY <2>2, <2>3, <2>4 DEF Last, Taken, Elements
<1>7. ASSUME NEW e \in E, e[1] = Last(s), e[2] = n PROVE e = e0
  BY <1>3, <1>5, <1>7
<1>8. Pending(E, t) = Pending(E, s) \ {e0} /\ e0 \in Pending(E, s)
  BY <1>2, <1>4, <1>6, <1>7 DEF Pending
<1>. DEFINE In(m) == {e \in Pending(E, s) : e[2] = m}
            After(m) == {e \in Pending(E, t) : e[2] = m}
<1>9. After(n) = In(n) \ {e0} /\ e0 \in In(n)
  BY <1>6, <1>8
<1>10. \A m : m # n => After(m) = In(m)
  BY <1>6, <1>8
<1>11. IsFiniteSet(In(n)) /\ IsFiniteSet(Pending(E, s)) /\ IsFiniteSet(N \ Taken(s))
  BY Finite
<1>12. \A m \in N : s.degree[m] = Cardinality(In(m))
  BY DEF SortInv
<1> HIDE DEF In, After
<1>13. Cardinality(After(n)) = Cardinality(In(n)) - 1
  BY <1>9, <1>11, FS_RemoveElement
<1>14. Cardinality(After(n)) \in Nat
  <2>1. After(n) = In(n) \ {e0}
    BY <1>9
  <2>2. IsFiniteSet(After(n))
    BY <1>11, <2>1, FS_RemoveElement
  <2>3. QED
    BY <2>2, FS_CardinalityType
<1>15. /\ s.degree[n] \in Nat /\ s.degree[n] > 0
       /\ t.degree = [s.degree EXCEPT ![n] = s.degree[n] - 1]
       /\ Cardinality(After(n)) = s.degree[n] - 1
  <2>1. s.degree[n] \in Nat /\ s.degree[n] = Cardinality(In(n))
    BY <1>3, <1>12
  <2>2. Cardinality(After(n)) = s.degree[n] - 1 /\ s.degree[n] > 0
    BY <1>13, <1>14, <2>1
  <2>3. t.degree = [s.degree EXCEPT ![n] = s.degree[n] - 1]
    BY <1>2, <1>3, <2>2
  <2>4. QED
    BY <2>1, <2>2, <2>3
<1>16. t.degree \in [N -> Nat] /\ \A m \in N : t.degree[m] = Cardinality(After(m))
  BY <1>3, <1>10, <1>12, <1>15
<1>17. n \notin Taken(s) /\ n \notin Elements(s.queue)
  BY <1>15 DEF SortInv
<1>18. /\ t.queue \in Seq(N) /\ Increasing(t.queue)
       /\ Elements(t.queue) = {m \in N \ Taken(s) : t.degree[m] = 0}
  <2>1. Increasing(s.queue) /\ Elements(s.queue) = {m \in N \ Taken(s) : s.degree[m] = 0}
    BY DEF SortInv
  <2>2. CASE s.degree[n] = 1
    <3>1. /\ t.queue \in Seq(N) /\ Increasing(t.queue)
          /\ Elements(t.queue) = Elements(s.queue) \cup {n}
      <4>1. PICK q : q = s.queue
        OBVIOUS
      <4>2. q \in Seq(N) /\ Increasing(q) /\ n \in N \ Elements(q) /\ t.queue = Inserted(q, n)
        BY <1>2, <1>3, <1>17, <2>1, <2>2, <4>1
      <4>3. /\ Inserted(q, n) \in Seq(N) /\ Increasing(Inserted(q, n))
            /\ Elements(Inserted(q, n)) = Elements(q) \cup {n}
        BY <4>2, InsertedOrders
      <4>4. QED
        BY <4>1, <4>2, <4>3
    <3>2. t.degree[n] = 0 /\ \A m \in N \ {n} : t.degree[m] = s.degree[m]
      BY <1>3, <1>15, <2>2
    <3>3. QED
      BY <1>3, <1>17, <2>1, <3>1, <3>2
  <2>3. CASE s.degree[n] # 1
    <3>1. t.degree[n] # 0 /\ \A m \in N \ {n} : t.degree[m] = s.degree[m]
      BY <1>3, <1>15, <2>3
    <3>2. t.queue = s.queue /\ s.degree[n] # 0
      BY <1>2, <1>15, <2>3
    <3>3. QED
      BY <1>3, <2>1, <3>1, <3>2
  <2>4. QED
    BY <2>2, <2>3
<1>19. Rest(N, E, t) = Rest(N, E, s) - 1
  <2>1. Cardinality(Pending(E, t)) = Cardinality(Pending(E, s)) - 1
    BY <1>8, <1>11, FS_RemoveElement
  <2>2. PICK a \in Nat, b \in Nat : a = Cardinality(N \ Taken(s)) /\ b = Cardinality(Pending(E, s))
    BY <1>11, FS_CardinalityType
  <2>3. Rest(N, E, s) = a + b /\ Rest(N, E, t) = a + (b - 1)
    BY <1>4, <2>1, <2>2 DEF Rest
  <2>4. QED
    BY <2>2, <2>3
<1>20. SortInv(N, E, t)
  <2>1. t \in SortStates(N)
    BY <1>2, <1>3, <1>16, <1>18 DEF SortStates
  <2>2. t.left # {} => t.result # <<>> /\ t.left \subseteq Successors(E, Last(t))
    BY <1>2, <1>4 DEF SortInv
  <2>3. \A m \in N : t.degree[m] = Cardinality({e \in Pending(E, t) : e[2] = m})
    BY <1>16 DEF After
  <2>4. \A m \in Taken(t) : t.degree[m] = 0
    <3>1. \A m \in Taken(s) : s.degree[m] = 0 /\ m \in N
      BY <1>3 DEF SortInv, Taken, Elements
    <3>2. QED
      BY <1>3, <1>4, <1>15, <1>17, <3>1
  <2>5. /\ \A i, j \in DOMAIN t.result : i # j => t.result[i] # t.result[j]
        /\ IsStable(N, E, t.result)
    BY <1>2 DEF SortInv
  <2>6. QED
    BY <1>4, <1>18, <2>1, <2>2, <2>3, <2>4, <2>5 DEF SortInv
<1>21. QED
  BY <1>1, <1>19, <1>20

\* The head of the queue is taken: the least of those that may come next.
LEMMA TakeKeeps ==
  ASSUME NEW N \in SUBSET Nat, NEW E, IsGraph(N, E), NEW s, SortInv(N, E, s),
         s.left = {}, s.queue # <<>>
  PROVE  LET t == Take(E, s)
         IN  SortInv(N, E, t) /\ Rest(N, E, t) = Rest(N, E, s) - 1
<1>1. PICK t : t = Take(E, s)
  OBVIOUS
<1>2. PICK h : h = Head(s.queue)
  OBVIOUS
<1>3. PICK q : q = s.queue
  OBVIOUS
<1>4. PICK r : r = s.result
  OBVIOUS
<1>5. /\ s.degree \in [N -> Nat] /\ q \in Seq(N) /\ r \in Seq(N) /\ E \in SUBSET (N \X N)
      /\ q # <<>> /\ Increasing(q) /\ Elements(q) = {n \in N \ Taken(s) : s.degree[n] = 0}
  BY <1>3, <1>4 DEF SortInv, SortStates, IsGraph
<1>6. PICK l \in Nat : Len(r) = l
  BY <1>5
<1>7. DOMAIN r = 1..l /\ \A i \in 1..l : r[i] \in N
  BY <1>5, <1>6
<1>8. /\ t = [degree |-> s.degree, queue |-> t.queue, result |-> t.result, left |-> t.left]
      /\ t.degree = s.degree /\ t.queue = Tail(q) /\ t.result = Append(r, h)
      /\ t.left = Successors(E, h)
  BY <1>1, <1>2, <1>3, <1>4 DEF Take
<1>9. /\ Len(q) \in Nat \ {0} /\ DOMAIN q = 1..Len(q) /\ h = q[1] /\ h \in N
      /\ \A i \in DOMAIN q : q[i] \in N /\ q[i] \in Nat
  <2>1. Len(q) \in Nat \ {0} /\ DOMAIN q = 1..Len(q) /\ h = q[1]
    BY <1>2, <1>3, <1>5
  <2>2. ASSUME NEW i \in DOMAIN q PROVE q[i] \in N
    BY <1>5
  <2>3. h \in N
    BY <2>1, <2>2
  <2>4. QED
    BY <2>1, <2>2, <2>3
<1>10. h \in Elements(q) /\ h \in N \ Taken(s) /\ s.degree[h] = 0
  BY <1>5, <1>9 DEF Elements
<1>11. PICK k \in Nat : Len(q) = k + 1
  <2>1. Len(q) - 1 \in Nat /\ Len(q) = (Len(q) - 1) + 1
    BY <1>9
  <2>2. QED
    BY <2>1
<1>12. PICK u : u = Tail(q)
  OBVIOUS
<1>13. u \in Seq(N) /\ DOMAIN u = 1..k /\ \A i \in 1..k : u[i] = q[i + 1]
  BY <1>5, <1>9, <1>11, <1>12
<1>14. Increasing(u)
  <2>1. ASSUME NEW i \in 1..k, NEW j \in 1..k, i < j PROVE u[i] < u[j]
    <3>1. i + 1 \in DOMAIN q /\ j + 1 \in DOMAIN q /\ i + 1 < j + 1
      BY <1>9, <1>11, <2>1
    <3>2. q[i + 1] < q[j + 1]
      BY <1>5, <3>1 DEF Increasing
    <3>3. QED
      BY <1>13, <3>2
  <2>2. QED
    BY <1>13, <2>1 DEF Increasing
<1>15. Elements(u) = Elements(q) \ {h}
  <2>1. ASSUME NEW m \in Elements(u) PROVE m \in Elements(q) \ {h}
    <3>1. PICK i \in 1..k : m = q[i + 1]
      BY <1>13 DEF Elements
    <3>2. i + 1 \in DOMAIN q /\ 1 \in DOMAIN q /\ 1 < i + 1
      BY <1>9, <1>11
    <3>3. q[1] < q[i + 1] /\ q[1] \in Nat
      BY <1>5, <1>9, <3>2 DEF Increasing
    <3>4. q[1] # q[i + 1]
      BY <1>9, <3>2, <3>3
    <3>5. QED
      BY <1>9, <3>1, <3>2, <3>4 DEF Elements
  <2>2. ASSUME NEW m \in Elements(q), m # h PROVE m \in Elements(u)
    <3>1. PICK i \in 1..(k + 1) : m = q[i]
      BY <1>9, <1>11 DEF Elements
    <3>2. i - 1 \in 1..k /\ (i - 1) + 1 = i
      BY <1>9, <2>2, <3>1
    <3>3. u[i - 1] = m
      BY <1>13, <3>1, <3>2
    <3>4. QED
      BY <1>13, <3>2, <3>3 DEF Elements
  <2>3. QED
    BY <2>1, <2>2
<1>16. PICK p : p = Append(r, h)
  OBVIOUS
<1>17. /\ p \in Seq(N) /\ Len(p) = l + 1 /\ DOMAIN p = 1..(l + 1)
       /\ p[l + 1] = h /\ \A i \in 1..l : p[i] = r[i]
  BY <1>5, <1>6, <1>9, <1>16
<1>18. Taken(s) = {r[i] : i \in 1..l}
  BY <1>4, <1>7 DEF Taken, Elements
<1>19. Taken(t) = Taken(s) \cup {h}
  <2>1. Taken(t) = {p[i] : i \in 1..(l + 1)}
    BY <1>8, <1>16, <1>17 DEF Taken, Elements
  <2>2. \A i \in 1..(l + 1) : i \in 1..l \/ i = l + 1
    OBVIOUS
  <2>3. 1..l \subseteq 1..(l + 1) /\ l + 1 \in 1..(l + 1)
    OBVIOUS
  <2>4. QED
    BY <1>17, <1>18, <2>1, <2>2, <2>3
<1>20. Last(t) = h
  BY <1>8, <1>16, <1>17 DEF Last
<1>21. Pending(E, s) = {e \in E : e[1] \notin Taken(s)}
  BY DEF Pending
<1>22. Pending(E, t) = Pending(E, s)
  <2>1. \A e \in E : e[1] = h => e[2] \in t.left /\ e[1] \notin Taken(s)
    BY <1>8, <1>10 DEF Successors
  <2>2. QED
    BY <1>19, <1>20, <1>21, <2>1 DEF Pending
<1>23. \A n \in N : s.degree[n] = Cardinality({e \in Pending(E, s) : e[2] = n})
  BY DEF SortInv
<1>24. ASSUME NEW n \in N PROVE s.degree[n] = 0 <=> \A e \in E : e[2] = n => e[1] \in Taken(s)
  <2>1. PICK S : S = {e \in Pending(E, s) : e[2] = n}
    OBVIOUS
  <2>2. IsFiniteSet(S)
    <3>1. IsFiniteSet(Pending(E, s)) /\ S \in SUBSET Pending(E, s)
      BY <2>1, Finite
    <3>2. QED
      BY <3>1, FS_Subset
  <2>3. Cardinality(S) = 0 <=> S = {}
    BY <2>2, FS_EmptySet
  <2>4. S = {} <=> \A e \in E : e[2] = n => e[1] \in Taken(s)
    BY <1>21, <2>1
  <2>5. s.degree[n] = Cardinality(S)
    BY <1>23, <2>1
  <2>6. QED
    BY <2>3, <2>4, <2>5
<1>25. IsStable(N, E, p)
  <2>1. ASSUME NEW i \in 1..l
        PROVE  MayCome(N, E, p, i) = MayCome(N, E, r, i)
    <3>1. \A k1 \in 1..(i - 1) : p[k1] = r[k1]
      BY <1>17
    <3>2. {p[k1] : k1 \in 1..(i - 1)} = {r[k1] : k1 \in 1..(i - 1)}
      BY <3>1
    <3>3. QED
      BY <3>2 DEF MayCome
  <2>2. MayCome(N, E, p, l + 1) = Elements(q)
    <3>1. {p[k1] : k1 \in 1..((l + 1) - 1)} = Taken(s)
      BY <1>17, <1>18
    <3>2. MayCome(N, E, p, l + 1) =
             {n \in N \ Taken(s) : \A e \in E : e[2] = n => e[1] \in Taken(s)}
      BY <3>1 DEF MayCome
    <3>3. \A n \in N \ Taken(s) : s.degree[n] = 0 <=> \A e \in E : e[2] = n => e[1] \in Taken(s)
      BY <1>24
    <3>4. {n \in N \ Taken(s) : s.degree[n] = 0} =
             {n \in N \ Taken(s) : \A e \in E : e[2] = n => e[1] \in Taken(s)}
      BY <3>3
    <3>5. QED
      BY <1>5, <3>2, <3>4
  <2>3. IsStable(N, E, r)
    BY <1>4 DEF SortInv
  <2>4. ASSUME NEW n \in Elements(q) PROVE h <= n
    <3>1. PICK i \in 1..(k + 1) : n = q[i]
      BY <1>9, <1>11 DEF Elements
    <3>2. CASE i = 1
      BY <1>9, <1>11, <3>1, <3>2
    <3>3. CASE i # 1
      <4>1. 1 \in DOMAIN q /\ i \in DOMAIN q /\ 1 < i
        BY <1>9, <1>11, <3>3
      <4>2. q[1] < q[i] /\ q[1] \in Nat /\ q[i] \in Nat
        BY <1>5, <1>9, <4>1 DEF Increasing
      <4>3. QED
        BY <1>9, <3>1, <4>2
    <3>4. QED
      BY <3>2, <3>3
  <2>5. ASSUME NEW i \in 1..(l + 1)
        PROVE  p[i] \in MayCome(N, E, p, i) /\ \A n \in MayCome(N, E, p, i) : p[i] <= n
    <3>1. CASE i \in 1..l
      BY <1>6, <1>17, <2>1, <2>3, <3>1 DEF IsStable
    <3>2. CASE i = l + 1
      BY <1>10, <1>17, <2>2, <2>4, <3>2
    <3>3. QED
      BY <3>1, <3>2
  <2>6. QED
    BY <1>17, <2>5 DEF IsStable
<1>26. \A i, j \in DOMAIN p : i # j => p[i] # p[j]
  <2>1. \A i, j \in 1..l : i # j => r[i] # r[j]
    BY <1>4, <1>7 DEF SortInv
  <2>2. \A i \in 1..l : r[i] # h
    BY <1>10, <1>18
  <2>3. \A i \in 1..(l + 1) : i \in 1..l \/ i = l + 1
    OBVIOUS
  <2>4. QED
    BY <1>17, <2>1, <2>2, <2>3
<1>27. Rest(N, E, t) = Rest(N, E, s) - 1
  <2>1. PICK S : S = N \ Taken(s)
    OBVIOUS
  <2>2. N \ Taken(t) = S \ {h} /\ h \in S
    BY <1>10, <1>19, <2>1
  <2>3. IsFiniteSet(S) /\ IsFiniteSet(Pending(E, s))
    BY <2>1, Finite
  <2>4. Cardinality(S \ {h}) = Cardinality(S) - 1
    BY <2>2, <2>3, FS_RemoveElement
  <2>5. PICK a \in Nat, b \in Nat : a = Cardinality(S) /\ b = Cardinality(Pending(E, s))
    BY <2>3, FS_CardinalityType
  <2>6. Rest(N, E, s) = a + b /\ Rest(N, E, t) = (a - 1) + b
    BY <1>22, <2>1, <2>2, <2>4, <2>5 DEF Rest
  <2>7. QED
    BY <2>5, <2>6
<1>28. SortInv(N, E, t)
  <2>1. t.left \in SUBSET N
    BY <1>5, <1>8 DEF Successors
  <2>2. t \in SortStates(N)
    BY <1>5, <1>8, <1>12, <1>13, <1>16, <1>17, <2>1 DEF SortStates
  <2>3. t.left # {} => t.result # <<>> /\ t.left \subseteq Successors(E, Last(t))
    BY <1>8, <1>16, <1>17, <1>20
  <2>4. \A n \in N : t.degree[n] = Cardinality({e \in Pending(E, t) : e[2] = n})
    BY <1>8, <1>22, <1>23
  <2>5. Elements(t.queue) = {n \in N \ Taken(t) : t.degree[n] = 0}
    BY <1>5, <1>8, <1>12, <1>15, <1>19
  <2>6. \A n \in Taken(t) : t.degree[n] = 0
    BY <1>8, <1>10, <1>19 DEF SortInv
  <2>7. QED
    BY <1>8, <1>12, <1>14, <1>16, <1>25, <1>26, <2>2, <2>3, <2>4, <2>5, <2>6 DEF SortInv
<1>29. QED
  BY <1>1, <1>27, <1>28

Through(N, E, s) == s.left = {} /\ s.queue = <<>>

Sorts(N, E, s, k) == Through(N, E, s) \/ Rest(N, E, s) + k = Cardinality(N) + Cardinality(E)

LEMMA RestType ==
  ASSUME NEW N, NEW E, IsGraph(N, E), NEW s PROVE Rest(N, E, s) \in Nat
<1>1. IsFiniteSet(N \ Taken(s)) /\ IsFiniteSet(Pending(E, s))
  BY Finite
<1>2. PICK a \in Nat, b \in Nat : a = Cardinality(N \ Taken(s)) /\ b = Cardinality(Pending(E, s))
  BY <1>1, FS_CardinalityType
<1>3. QED
  BY <1>2 DEF Rest

LEMMA SortStep ==
  ASSUME NEW N \in SUBSET Nat, NEW E, IsGraph(N, E), NEW s, SortInv(N, E, s),
         NEW k \in Nat, Sorts(N, E, s, k)
  PROVE  SortInv(N, E, Sort(E, s)) /\ Sorts(N, E, Sort(E, s), k + 1)
<1>1. PICK t : t = Sort(E, s)
  OBVIOUS
<1>2. CASE Through(N, E, s)
  <2>1. t = s
    BY <1>1, <1>2 DEF Sort, Through
  <2>2. QED
    BY <1>1, <1>2, <2>1 DEF Sorts
<1>3. ASSUME SortInv(N, E, t), Rest(N, E, t) = Rest(N, E, s) - 1, ~ Through(N, E, s)
      PROVE  Sorts(N, E, t, k + 1)
  <2>1. Rest(N, E, s) \in Nat
    BY RestType
  <2>2. QED
    BY <1>3, <2>1 DEF Sorts
<1>4. CASE s.left # {}
  <2>1. PICK n \in s.left : n = CHOOSE m \in s.left : TRUE
    BY <1>4
  <2>2. t = Relax(s, n)
    BY <1>1, <1>4, <2>1 DEF Sort
  <2>3. SortInv(N, E, t) /\ Rest(N, E, t) = Rest(N, E, s) - 1
    BY <2>2, RelaxKeeps
  <2>4. QED
    BY <1>1, <1>3, <1>4, <2>3 DEF Through
<1>5. CASE s.left = {} /\ s.queue # <<>>
  <2>1. t = Take(E, s)
    BY <1>1, <1>5 DEF Sort
  <2>2. SortInv(N, E, t) /\ Rest(N, E, t) = Rest(N, E, s) - 1
    BY <1>5, <2>1, TakeKeeps
  <2>3. QED
    BY <1>1, <1>3, <1>5, <2>2 DEF Through
<1>6. QED
  BY <1>2, <1>4, <1>5 DEF Through

LEMMA SortStarts ==
  ASSUME NEW N \in SUBSET Nat, NEW E, IsGraph(N, E)
  PROVE  SortInv(N, E, SortStart(N, E)) /\ Sorts(N, E, SortStart(N, E), 0)
<1>1. PICK s : s = SortStart(N, E)
  OBVIOUS
<1>2. /\ s = [degree |-> s.degree, queue |-> s.queue, result |-> <<>>, left |-> {}]
      /\ s.degree = [n \in N |-> InDegree(E, n)]
      /\ s.queue = Ascending({n \in N : InDegree(E, n) = 0})
      /\ s.result = <<>> /\ s.left = {}
  BY <1>1 DEF SortStart
<1>3. Taken(s) = {} /\ Pending(E, s) = E
  BY <1>2 DEF Taken, Elements, Pending
<1>4. ASSUME NEW n \in N PROVE InDegree(E, n) \in Nat
  <2>1. {e \in E : e[2] = n} \in SUBSET E /\ IsFiniteSet(E)
    BY Finite
  <2>2. IsFiniteSet({e \in E : e[2] = n})
    BY <2>1, FS_Subset
  <2>3. QED
    BY <2>2, FS_CardinalityType DEF InDegree
<1>5. s.degree \in [N -> Nat]
  BY <1>2, <1>4
<1>6. PICK S : S = {n \in N : InDegree(E, n) = 0}
  OBVIOUS
<1>7. S \in SUBSET Nat /\ S \in SUBSET N /\ IsFiniteSet(S)
  <2>1. S \in SUBSET N
    BY <1>6
  <2>2. IsFiniteSet(S)
    BY <2>1, FS_Subset DEF IsGraph
  <2>3. QED
    BY <2>1, <2>2
<1>8. s.queue \in Seq(S) /\ Increasing(s.queue) /\ Elements(s.queue) = S
  BY <1>2, <1>6, <1>7, AscendingOrders
<1>9. s \in SortStates(N)
  <2>1. s.queue \in Seq(N)
    <3>1. PICK q \in Seq(S) : q = s.queue
      BY <1>8
    <3>2. Len(q) \in Nat /\ q = [i \in 1..Len(q) |-> q[i]]
      OBVIOUS
    <3>3. ASSUME NEW i \in 1..Len(q) PROVE q[i] \in N
      <4>1. q[i] \in S
        OBVIOUS
      <4>2. QED
        BY <1>7, <4>1
    <3>4. QED
      BY <3>1, <3>2, <3>3
  <2>2. <<>> \in Seq(N) /\ {} \in SUBSET N
    OBVIOUS
  <2>3. PICK d, q : d = s.degree /\ q = s.queue
    OBVIOUS
  <2>4. s = [degree |-> d, queue |-> q, result |-> <<>>, left |-> {}]
    BY <1>2, <2>3
  <2>5. QED
    BY <1>5, <2>1, <2>2, <2>3, <2>4 DEF SortStates
<1>10. \A n \in N : s.degree[n] = Cardinality({e \in Pending(E, s) : e[2] = n})
  BY <1>2, <1>3 DEF InDegree
<1>11. Elements(s.queue) = {n \in N \ Taken(s) : s.degree[n] = 0}
  BY <1>2, <1>3, <1>6, <1>8
<1>12. IsStable(N, E, s.result)
  BY <1>2 DEF IsStable
<1>13. SortInv(N, E, s)
  <2>1. DOMAIN s.result = {}
    BY <1>2
  <2>2. QED
    BY <1>2, <1>3, <1>8, <1>9, <1>10, <1>11, <1>12, <2>1 DEF SortInv
<1>14. Sorts(N, E, s, 0)
  <2>1. N \ Taken(s) = N
    BY <1>3
  <2>2. Rest(N, E, s) = Cardinality(N) + Cardinality(E)
    BY <1>3, <2>1 DEF Rest
  <2>3. Rest(N, E, s) \in Nat
    BY RestType
  <2>4. QED
    BY <2>2, <2>3 DEF Sorts
<1>15. QED
  BY <1>1, <1>13, <1>14

IsSortRun(N, E, t) ==
    t = [k \in Nat |-> IF k = 0 THEN SortStart(N, E) ELSE Sort(E, t[k - 1])]

LEMMA SortIterates ==
  ASSUME NEW N, NEW E, NEW X, SortStart(N, E) \in X, \A s \in X : Sort(E, s) \in X
  PROVE  \E t : IsSortRun(N, E, t)
<1>. DEFINE step == [s \in X |-> Sort(E, s)]
<1>1. step \in [X -> X]
  OBVIOUS
<1>2. PICK t \in [Nat -> X] : t = [k \in Nat |-> IF k = 0 THEN SortStart(N, E) ELSE step[t[k - 1]]]
  <2> HIDE DEF step
  <2>1. QED
    BY <1>1, Iteration
<1>3. \A k \in Nat : k # 0 => step[t[k - 1]] = Sort(E, t[k - 1])
  <2>1. ASSUME NEW k \in Nat, k # 0 PROVE step[t[k - 1]] = Sort(E, t[k - 1])
    <3>1. t[k - 1] \in X
      BY <2>1
    <3>2. QED
      BY <3>1
  <2>2. QED
    BY <2>1
<1>4. QED
  <2> HIDE DEF step
  <2>1. QED
    BY <1>2, <1>3 DEF IsSortRun

\* The order answered is the result of a state where the sort is through.
LEMMA SortRuns ==
  ASSUME NEW N \in SUBSET Nat, NEW E, IsGraph(N, E)
  PROVE  \E s : /\ SortInv(N, E, s) /\ Through(N, E, s)
                /\ TopologicalSort(N, E) =
                     [order |-> s.result,
                      cycle |-> IF Len(s.result) < Cardinality(N) THEN DetectCycle(N, E) ELSE <<>>]
<1>. DEFINE X == {s \in SortStates(N) : SortInv(N, E, s)}
            after == CHOOSE t : IsSortRun(N, E, t)
<1>1. ASSUME NEW s, SortInv(N, E, s) PROVE SortInv(N, E, Sort(E, s))
  <2>1. CASE Through(N, E, s)
    BY <1>1, <2>1 DEF Sort, Through
  <2>2. CASE s.left # {}
    <3>1. PICK n \in s.left : n = CHOOSE m \in s.left : TRUE
      BY <2>2
    <3>2. Sort(E, s) = Relax(s, n)
      BY <2>2, <3>1 DEF Sort
    <3>3. QED
      BY <1>1, <3>2, RelaxKeeps
  <2>3. CASE s.left = {} /\ s.queue # <<>>
    <3>1. Sort(E, s) = Take(E, s)
      BY <2>3 DEF Sort
    <3>2. QED
      BY <1>1, <2>3, <3>1, TakeKeeps
  <2>4. QED
    BY <2>1, <2>2, <2>3 DEF Through
<1>2. \A s : SortInv(N, E, s) => s \in SortStates(N)
  BY DEF SortInv
<1>3. SortStart(N, E) \in X
  BY <1>2, SortStarts
<1>4. \E t : IsSortRun(N, E, t)
  <2>1. \A s \in X : Sort(E, s) \in X
    BY <1>1, <1>2
  <2> HIDE DEF X
  <2>2. QED
    BY <1>3, <2>1, SortIterates
<1>5. IsSortRun(N, E, after)
  BY <1>4
<1>6. PICK m : m = Cardinality(N) + Cardinality(E)
  OBVIOUS
<1>7. TopologicalSort(N, E) =
         [order |-> after[m].result,
          cycle |-> IF Len(after[m].result) < Cardinality(N) THEN DetectCycle(N, E) ELSE <<>>]
  BY <1>6 DEF TopologicalSort, IsSortRun
<1> HIDE DEF after
<1>8. after[0] = SortStart(N, E) /\ \A k \in Nat : after[k + 1] = Sort(E, after[k])
  BY <1>5 DEF IsSortRun
<1>9. \A k \in Nat : SortInv(N, E, after[k]) /\ Sorts(N, E, after[k], k)
  <2>. DEFINE S == {k \in Nat : SortInv(N, E, after[k]) /\ Sorts(N, E, after[k], k)}
  <2>1. 0 \in S
    BY <1>8, SortStarts
  <2>2. \A k \in S : k + 1 \in S
    BY <1>8, SortStep
  <2>3. S \in SUBSET Nat
    OBVIOUS
  <2>4. \A k \in Nat : k \in S
    <3> HIDE DEF S
    <3>1. QED
      BY <2>1, <2>2, <2>3, AllNaturals
  <2>5. QED
    BY <2>4
<1>10. PICK s : s = after[m]
  OBVIOUS
<1>11. m \in Nat
  <2>1. IsFiniteSet(N) /\ IsFiniteSet(E)
    BY Finite DEF IsGraph
  <2>2. PICK a \in Nat, b \in Nat : a = Cardinality(N) /\ b = Cardinality(E)
    BY <2>1, FS_CardinalityType
  <2>3. QED
    BY <1>6, <2>2
<1>12. SortInv(N, E, s) /\ Sorts(N, E, s, m)
  BY <1>9, <1>10, <1>11
<1>13. Through(N, E, s)
  <2>1. SUFFICES ASSUME Rest(N, E, s) = 0 PROVE Through(N, E, s)
    <3>1. Rest(N, E, s) \in Nat
      BY RestType
    <3>2. QED
      BY <1>6, <1>11, <1>12, <3>1 DEF Sorts
  <2>2. IsFiniteSet(N \ Taken(s)) /\ IsFiniteSet(Pending(E, s))
    BY Finite
  <2>3. PICK a \in Nat, b \in Nat : a = Cardinality(N \ Taken(s)) /\ b = Cardinality(Pending(E, s))
    BY <2>2, FS_CardinalityType
  <2>4. a = 0 /\ b = 0
    BY <2>1, <2>3 DEF Rest
  <2>5. N \ Taken(s) = {} /\ Pending(E, s) = {}
    BY <2>2, <2>3, <2>4, FS_EmptySet
  <2>6. s.left = {}
    <3>1. SUFFICES ASSUME NEW n \in s.left PROVE FALSE
      OBVIOUS
    <3>2. n \in Successors(E, Last(s))
      BY <1>12 DEF SortInv
    <3>3. PICK e \in E : e[1] = Last(s) /\ e[2] = n
      BY <3>2 DEF Successors
    <3>4. e \in Pending(E, s)
      BY <3>1, <3>3 DEF Pending
    <3>5. QED
      BY <2>5, <3>4
  <2>7. s.queue = <<>>
    <3>1. Elements(s.queue) = {} /\ s.queue \in Seq(N)
      BY <1>12, <2>5 DEF SortInv, SortStates
    <3>2. SUFFICES ASSUME s.queue # <<>> PROVE FALSE
      OBVIOUS
    <3>3. 1 \in DOMAIN s.queue
      BY <3>1, <3>2
    <3>4. QED
      BY <3>1, <3>3 DEF Elements
  <2>8. QED
    BY <2>6, <2>7 DEF Through
<1>14. QED
  BY <1>7, <1>10, <1>12, <1>13

\* Among the nodes of an order that has all of them, each of a set that has a
\* predecessor in the set comes after another of the set.
LEMMA WholeIsAcyclic ==
  ASSUME NEW N, NEW E, NEW order \in Seq(N), IsStable(N, E, order),
         E \in SUBSET (N \X N), N \subseteq Elements(order)
  PROVE  Acyclic(E)
<1>1. SUFFICES ASSUME NEW S \in SUBSET ({e[1] : e \in E} \cap {e[2] : e \in E}), S # {},
                      \A n \in S : \E m \in S : <<m, n>> \in E
               PROVE  FALSE
  BY DEF Acyclic
<1>2. PICK l \in Nat : Len(order) = l
  OBVIOUS
<1>3. DOMAIN order = 1..l
  BY <1>2
<1>. DEFINE T == {k \in 0..l : \A i \in 1..k : order[i] \notin S}
<1>4. 0 \in T
  OBVIOUS
<1>5. ASSUME NEW k \in T, k < l PROVE k + 1 \in T
  <2>1. k + 1 \in 1..l /\ (k + 1) - 1 = k
    BY <1>5
  <2>2. order[k + 1] \notin S
    <3>1. SUFFICES ASSUME order[k + 1] \in S PROVE FALSE
      OBVIOUS
    <3>2. PICK m \in S : <<m, order[k + 1]>> \in E
      BY <1>1, <3>1
    <3>3. order[k + 1] \in MayCome(N, E, order, k + 1)
      BY <1>2, <2>1 DEF IsStable
    <3>4. PICK e \in E : e = <<m, order[k + 1]>>
      BY <3>2
    <3>5. e[1] = m /\ e[2] = order[k + 1]
      BY <3>4
    <3>6. m \in {order[i] : i \in 1..k}
      BY <2>1, <3>3, <3>5 DEF MayCome
    <3>7. QED
      BY <1>5, <3>6
  <2>3. QED
    BY <1>5, <2>1, <2>2
<1>6. T \in SUBSET (0..l)
  OBVIOUS
<1>7. l \in T
  <2> HIDE DEF T
  <2>1. QED
    BY <1>4, <1>5, <1>6, CountUp
<1>8. PICK n \in S : TRUE
  BY <1>1
<1>9. n \in N
  BY <1>8
<1>10. PICK i \in 1..l : n = order[i]
  BY <1>3, <1>9 DEF Elements
<1>11. QED
  BY <1>7, <1>8, <1>10

\* stableTopologicalSort answers every node once, each after its predecessors
\* and the least of those that may come, when there is no cycle, and throws
\* with a cycle when there is one: for every finite graph.
THEOREM TopologicalSortDecides ==
  ASSUME NEW N \in SUBSET Nat, NEW E, IsGraph(N, E)
  PROVE  LET sort == TopologicalSort(N, E)
         IN  IF Acyclic(E)
             THEN sort.cycle = <<>> /\ Len(sort.order) = Cardinality(N) /\ IsStable(N, E, sort.order)
             ELSE sort.cycle # <<>> /\ IsClosedPath(sort.cycle, E)
<1>1. PICK s : /\ SortInv(N, E, s) /\ Through(N, E, s)
               /\ TopologicalSort(N, E) =
                     [order |-> s.result,
                      cycle |-> IF Len(s.result) < Cardinality(N) THEN DetectCycle(N, E) ELSE <<>>]
  BY SortRuns
<1>2. PICK r : r = s.result
  OBVIOUS
<1>3. r \in Seq(N) /\ IsStable(N, E, r) /\ \A i, j \in DOMAIN r : i # j => r[i] # r[j]
  BY <1>1, <1>2 DEF SortInv, SortStates
<1>4. IsFiniteSet(N) /\ E \in SUBSET (N \X N)
  BY DEF IsGraph
<1>5. PICK T : T = Elements(r)
  OBVIOUS
<1>6. T \in SUBSET N /\ T = Taken(s)
  BY <1>2, <1>3, <1>5 DEF Taken, Elements
<1>7. IsFiniteSet(T) /\ Cardinality(T) = Len(r)
  BY <1>3, <1>5, LenIsCardinality
<1>8. Len(r) <= Cardinality(N) /\ (Len(r) = Cardinality(N) => T = N)
  BY <1>4, <1>6, <1>7, FS_Subset
<1>9. Len(r) \in Nat /\ Cardinality(N) \in Nat
  BY <1>3, <1>4, FS_CardinalityType
<1>10. CASE Acyclic(E)
  <2>1. T = N
    <3>1. SUFFICES ASSUME T # N PROVE FALSE
      OBVIOUS
    <3>2. ASSUME NEW n \in N \ T PROVE \E m \in N \ T : <<m, n>> \in E
      <4>1. Elements(s.queue) = {}
        BY <1>1 DEF Through, Elements
      <4>2. s.degree[n] # 0 /\ s.degree[n] = Cardinality({e \in Pending(E, s) : e[2] = n})
        BY <1>1, <1>6, <4>1 DEF SortInv
      <4>3. {e \in Pending(E, s) : e[2] = n} # {}
        BY <4>2, FS_EmptySet
      <4>4. PICK e \in Pending(E, s) : e[2] = n
        BY <4>3
      <4>5. e \in E /\ e[1] \notin T
        BY <1>1, <1>6 DEF Pending, Through
      <4>6. e = <<e[1], n>> /\ e[1] \in N
        BY <1>4, <4>4, <4>5
      <4>7. QED
        BY <4>5, <4>6
    <3>. DEFINE S == {n \in N \ T : \E m \in N : <<n, m>> \in E}
    <3>3. PICK n \in N \ T : TRUE
      BY <1>6, <3>1
    <3>4. S # {}
      BY <3>2, <3>3
    <3>5. ASSUME NEW k \in S PROVE k \in {e[1] : e \in E} \cap {e[2] : e \in E}
      <4>1. PICK m \in N : <<k, m>> \in E
        OBVIOUS
      <4>2. PICK j \in N \ T : <<j, k>> \in E
        BY <3>2
      <4>3. <<k, m>>[1] = k /\ <<j, k>>[2] = k
        OBVIOUS
      <4>4. QED
        BY <4>1, <4>2, <4>3
    <3>6. ASSUME NEW k \in S PROVE \E j \in S : <<j, k>> \in E
      BY <3>2
    <3> HIDE DEF S
    <3>7. PICK k \in S : \A m \in S : <<m, k>> \notin E
      BY <1>10, <3>4, <3>5 DEF Acyclic
    <3>8. QED
      BY <3>6, <3>7
  <2>2. Len(r) = Cardinality(N)
    BY <1>7, <2>1
  <2>3. QED
    BY <1>1, <1>2, <1>3, <1>9, <1>10, <2>2
<1>11. CASE ~ Acyclic(E)
  <2>1. T # N
    BY <1>3, <1>4, <1>5, <1>11, WholeIsAcyclic
  <2>2. Len(r) < Cardinality(N)
    BY <1>8, <1>9, <2>1
  <2>3. TopologicalSort(N, E).cycle = DetectCycle(N, E)
    BY <1>1, <1>2, <2>2
  <2>4. DetectCycle(N, E) # <<>> /\ IsClosedPath(DetectCycle(N, E), E)
    BY <1>11, DetectCycleDecides
  <2>5. QED
    BY <1>11, <2>3, <2>4
<1>12. QED
  BY <1>10, <1>11

-----------------------------------------------------------------------------
(* Acyclic graphs.                                                         *)

\* In an acyclic graph every set of nodes has one without a predecessor in
\* the set: the search need only look at nodes with edges in and out.
LEMMA HasFirst ==
  ASSUME NEW E, Acyclic(E), NEW S \in SUBSET Nodes, S # {}
  PROVE  \E n \in S : \A m \in S : <<m, n>> \notin E
<1>. DEFINE Inner == {e[1] : e \in E} \cap {e[2] : e \in E}
            D == {n \in S : n \in {e[1] : e \in E}}
<1>. SUFFICES ASSUME \A n \in S : \E m \in S : <<m, n>> \in E
              PROVE  FALSE
  OBVIOUS
<1>1. ASSUME NEW n \in S
      PROVE  \E m \in D : <<m, n>> \in E /\ n \in {e[2] : e \in E}
  <2>1. PICK m \in S : <<m, n>> \in E
    OBVIOUS
  <2>2. <<m, n>>[1] = m /\ <<m, n>>[2] = n
    OBVIOUS
  <2>3. QED
    BY <2>1, <2>2
<1>2. D # {} /\ D \in SUBSET Inner
  BY <1>1
<1>3. \E n \in D : \A m \in D : <<m, n>> \notin E
  BY <1>2 DEF Acyclic
<1>4. QED
  BY <1>1, <1>3

LEMMA IsAcyclic ==
  ASSUME NEW E \in SUBSET (Nodes \X Nodes),
         \A S \in SUBSET Nodes : S # {} => \E n \in S : \A m \in S : <<m, n>> \notin E
  PROVE  Acyclic(E)
<1>1. {e[1] : e \in E} \cap {e[2] : e \in E} \subseteq Nodes
  OBVIOUS
<1>2. QED
  BY <1>1 DEF Acyclic

\* An edge from a node without predecessors closes no cycle.
LEMMA SourceIsSafe ==
  ASSUME NEW E \in SUBSET (Nodes \X Nodes), Acyclic(E),
         NEW a \in Nodes, NEW b \in Nodes, a # b,
         \A m \in Nodes : <<m, a>> \notin E
  PROVE  Acyclic(E \cup {<<a, b>>})
<1>. DEFINE F == E \cup {<<a, b>>}
<1>1. ASSUME NEW S \in SUBSET Nodes, S # {}
      PROVE  \E n \in S : \A m \in S : <<m, n>> \notin F
  <2>1. CASE a \in S
    BY <2>1
  <2>2. CASE a \notin S
    BY <1>1, <2>2, HasFirst
  <2>3. QED
    BY <2>1, <2>2
<1>2. F \in SUBSET (Nodes \X Nodes)
  OBVIOUS
<1>3. QED
  BY <1>1, <1>2, IsAcyclic

\* Two acyclic graphs on different nodes are one.
LEMMA UnionIsSafe ==
  ASSUME NEW Old \in SUBSET Nodes, NEW New \in SUBSET Nodes, Old \cap New = {},
         NEW E \in SUBSET (Old \X Old), Acyclic(E),
         NEW F \in SUBSET (New \X New), Acyclic(F)
  PROVE  Acyclic(E \cup F)
<1>1. ASSUME NEW S \in SUBSET Nodes, S # {}
      PROVE  \E n \in S : \A m \in S : <<m, n>> \notin E \cup F
  <2>1. CASE S \cap Old = {}
    <3>1. PICK n \in S : \A m \in S : <<m, n>> \notin F
      BY <1>1, HasFirst
    <3>2. QED
      BY <2>1, <3>1
  <2>2. CASE S \cap Old # {}
    <3>1. PICK n \in S \cap Old : \A m \in S \cap Old : <<m, n>> \notin E
      BY <2>2, HasFirst
    <3>2. QED
      BY <3>1
  <2>3. QED
    BY <2>1, <2>2
<1>2. E \cup F \in SUBSET (Nodes \X Nodes)
  OBVIOUS
<1>3. QED
  BY <1>1, <1>2, IsAcyclic

-----------------------------------------------------------------------------
(* The invariant.                                                          *)

\* What a task of a plan depends on has completed.
Met(n) ==
    \A p \in applied : \A e \in PlanEdges[p] : e[2] = n /\ Kind[n] = "task" => e[1] \in passed

EdgesFit == \A e \in edges : Exists(e[1]) /\ Exists(e[2]) /\ Kind[e[2]] # "fanout"

PlansFit == \A p \in applied : PlanEdges[p] \subseteq edges

NodeFits(n) ==
    /\ status[n] \in {"ready", "running"} \cup Terminal => Met(n)
    /\ status[n] = "completed" => Kind[n] = "fanout" \/ n \in passed
    /\ n \in begun => Exists(n) /\ Met(n)

\* How far a call has come is visible in the graph.
CallFits(c) ==
    /\ At(c, "parent") => call[c].job \in Fanouts
    /\ At(c, "shard") \/ At(c, "shardNew") =>
        /\ call[c].job \in Fanouts /\ Exists(Parent[call[c].job])
        /\ call[c].left \subseteq Shards[call[c].job]
        /\ \A n \in Shards[call[c].job] \ call[c].left : Exists(n)
    /\ At(c, "link") =>
        /\ call[c].job \in Fanouts /\ Exists(Parent[call[c].job])
        /\ call[c].left \subseteq Shards[call[c].job]
        /\ \A n \in Shards[call[c].job] : Exists(n)
        /\ \A n \in Shards[call[c].job] \ call[c].left : <<Parent[call[c].job], n>> \in edges
    /\ At(c, "joinNode") => call[c].job \in Joins
    /\ At(c, "await") => call[c].job \in Joins /\ Exists(JoinNode[call[c].job])
    /\ At(c, "listed") \/ At(c, "start") => \A n \in call[c].left : Exists(n) /\ Met(n)

IInv ==
    /\ TypeOK
    /\ EdgesFit /\ PlansFit /\ GraphIsAcyclic /\ FanoutIsWhole
    /\ \A n \in Nodes : NodeFits(n)
    /\ \A c \in Callers : CallFits(c)

CallRecord == [at: Places, job: Fanouts \cup Joins \cup {"none"}, left: SUBSET Nodes]

-----------------------------------------------------------------------------
(* What every step leaves true: the graph only grows.                      *)

Grows ==
    /\ edges \subseteq edges'
    /\ \A n \in Nodes : Exists(n) => Exists(n)'
    /\ \A n \in Nodes : Exists(n) /\ Met(n) => Met(n)'

LEMMA CallStays ==
  ASSUME IInv, Grows, NEW c \in Callers, call'[c] = call[c]
  PROVE  CallFits(c)'
<1>1. CallFits(c) /\ call[c] \in CallRecord
  BY DEF IInv, TypeOK, CallRecord
<1>2. /\ call[c].job \in Fanouts => Parent[call[c].job] \in Nodes /\ Shards[call[c].job] \subseteq Nodes
      /\ call[c].job \in Joins => JoinNode[call[c].job] \in Nodes
  BY DagAssumption
<1>3. call[c].left \subseteq Nodes
  BY <1>1 DEF CallRecord
<1>4. QED
  BY <1>1, <1>2, <1>3 DEF CallFits, At, Grows

LEMMA FanoutsStay ==
  ASSUME IInv, Grows, answered' = answered
  PROVE  FanoutIsWhole'
<1>1. \A f \in answered : Parent[f] \in Nodes /\ Shards[f] \subseteq Nodes
  BY DagAssumption DEF IInv, TypeOK
<1>2. QED
  BY <1>1 DEF IInv, FanoutIsWhole, Grows

\* A step that changes only a call, to one that fits.
LEMMA CallMoves ==
  ASSUME IInv, NEW c \in Callers, NEW r \in CallRecord,
         call' = [call EXCEPT ![c] = r], CallFits(c)',
         UNCHANGED <<status, edges, applied, answered, begun, passed>>
  PROVE  IInv'
<1>1. Grows
  BY DEF Grows, Exists, Met
<1>2. \A d \in Callers \ {c} : CallFits(d)'
  BY <1>1, CallStays DEF IInv, TypeOK
<1>3. TypeOK'
  BY DEF IInv, TypeOK, CallRecord
<1>4. \A n \in Nodes : NodeFits(n)'
  BY DEF IInv, NodeFits, Exists, Met
<1>5. EdgesFit' /\ PlansFit' /\ GraphIsAcyclic' /\ FanoutIsWhole'
  BY DEF IInv, EdgesFit, PlansFit, GraphIsAcyclic, FanoutIsWhole, Exists
<1>6. QED
  BY <1>2, <1>3, <1>4, <1>5 DEF IInv

LEMMA IdleFits ==
  ASSUME NEW c \in Callers, call'[c] = Idle
  PROVE  CallFits(c)'
BY DEF CallFits, At, Idle

LEMMA IdleTyped == Idle \in CallRecord
BY DEF Idle, CallRecord, Places

\* A node is given a status that NodeFits allows it.
LEMMA StatusMoves ==
  ASSUME IInv, NEW n \in Nodes, NEW s \in Statuses \ {"absent"},
         status' = [status EXCEPT ![n] = s],
         s \in {"ready", "running"} \cup Terminal => Kind[n] = "fanout" \/ Met(n),
         s = "completed" => Kind[n] = "fanout" \/ n \in passed',
         passed \subseteq passed', begun \subseteq begun',
         \A m \in begun' \ begun : m = n /\ Met(n),
         UNCHANGED <<edges, applied>>
  PROVE  /\ Grows /\ EdgesFit' /\ PlansFit' /\ GraphIsAcyclic'
         /\ \A m \in Nodes : NodeFits(m)'
<1>1. status \in [Nodes -> Statuses] /\ status' \in [Nodes -> Statuses]
  BY DEF IInv, TypeOK
<1>2. \A m \in Nodes : status'[m] = IF m = n THEN s ELSE status[m]
  BY <1>1
<1>3. \A m \in Nodes : Exists(m) => Exists(m)'
  BY <1>2 DEF Exists
<1>4. Exists(n)'
  BY <1>2 DEF Exists
<1>5. \A m : Met(m) => Met(m)'
  BY DEF Met
<1>6. Grows
  BY <1>3, <1>5 DEF Grows
<1>7. EdgesFit'
  <2>1. \A e \in edges : e[1] \in Nodes /\ e[2] \in Nodes
    BY DEF IInv, TypeOK
  <2>2. QED
    BY <2>1, <1>3 DEF IInv, EdgesFit
<1>8. PlansFit' /\ GraphIsAcyclic'
  BY DEF IInv, PlansFit, GraphIsAcyclic
<1>9. Kind[n] = "fanout" => Met(n)
  BY DEF Met
<1>10. ASSUME NEW m \in Nodes
       PROVE  NodeFits(m)'
  <2>1. NodeFits(m)
    BY DEF IInv
  <2>2. CASE m = n
    BY <2>1, <2>2, <1>2, <1>4, <1>5, <1>9 DEF NodeFits
  <2>3. CASE m # n
    BY <2>1, <2>3, <1>2, <1>3, <1>5 DEF NodeFits, Terminal
  <2>4. QED
    BY <2>2, <2>3
<1>11. QED
  BY <1>6, <1>7, <1>8, <1>10

-----------------------------------------------------------------------------
(* Steps that only move a call.                                            *)

LEMMA GotoKeeps ==
  ASSUME IInv, NEW c \in Callers, NEW place \in Places,
         NEW job \in Fanouts \cup Joins \cup {"none"}, NEW left \in SUBSET Nodes,
         Goto(c, place, job, left), CallFits(c)',
         UNCHANGED <<status, edges, applied, answered, begun, passed>>
  PROVE  IInv'
<1>. DEFINE r == [at |-> place, job |-> job, left |-> left]
<1>1. r \in CallRecord
  BY DEF CallRecord
<1>2. call' = [call EXCEPT ![c] = r]
  BY DEF Goto
<1>. HIDE DEF r
<1>3. QED
  BY <1>1, <1>2, CallMoves

LEMMA ReturnKeeps ==
  ASSUME IInv, NEW c \in Callers, Return(c),
         UNCHANGED <<status, edges, applied, answered, begun, passed>>
  PROVE  IInv'
<1>1. call' = [call EXCEPT ![c] = Idle] /\ call'[c] = Idle
  BY DEF Return, IInv, TypeOK
<1>2. QED
  BY <1>1, IdleFits, IdleTyped, CallMoves

\* What is known of a call that has begun.
LEMMA CallKnown ==
  ASSUME IInv, NEW c \in Callers
  PROVE  /\ CallFits(c) /\ call[c] \in CallRecord
         /\ call[c].left \subseteq Nodes /\ call[c].job \in Fanouts \cup Joins \cup {"none"}
         /\ call[c].job \in Fanouts =>
               /\ Parent[call[c].job] \in Nodes /\ Shards[call[c].job] \subseteq Nodes
               /\ Kind[Parent[call[c].job]] = "fanout"
               /\ \A n \in Shards[call[c].job] : Kind[n] = "task"
         /\ call[c].job \in Joins => JoinNode[call[c].job] \in Nodes /\ Kind[JoinNode[call[c].job]] = "join"
<1>1. CallFits(c) /\ call[c] \in CallRecord
  BY DEF IInv, TypeOK, CallRecord
<1>2. QED
  BY <1>1, DagAssumption DEF CallRecord

LEMMA MoveKeeps ==
  ASSUME IInv, NEW c \in Callers, NEW n \in Nodes,
         \/ LookShard(c, n) \/ ShardsDone(c) \/ JoinDone(c)
         \/ \E f \in Fanouts : FanoutNew(c, f)
         \/ \E j \in Joins : JoinNew(c, j)
  PROVE  IInv'
<1>. USE CallKnown
<1>1. CASE \E f \in Fanouts : FanoutNew(c, f)
  <2>1. PICK f \in Fanouts : FanoutNew(c, f)
    BY <1>1
  <2>2. call'[c] = [at |-> "parent", job |-> f, left |-> {}]
    BY <2>1 DEF FanoutNew, Goto, IInv, TypeOK
  <2>3. CallFits(c)'
    BY <2>2 DEF CallFits, At
  <2>4. QED
    BY <2>1, <2>3, GotoKeeps DEF FanoutNew, Places
<1>2. CASE \E j \in Joins : JoinNew(c, j)
  <2>1. PICK j \in Joins : JoinNew(c, j)
    BY <1>2
  <2>2. call'[c] = [at |-> "joinNode", job |-> j, left |-> {}]
    BY <2>1 DEF JoinNew, Goto, IInv, TypeOK
  <2>3. CallFits(c)'
    BY <2>2 DEF CallFits, At
  <2>4. QED
    BY <2>1, <2>3, GotoKeeps DEF JoinNew, Places
<1>3. CASE LookShard(c, n)
  <2>1. PICK f : f = call[c].job
    OBVIOUS
  <2>2. f \in Fanouts /\ Exists(Parent[f]) /\ call[c].left \subseteq Shards[f]
        /\ (\A m \in Shards[f] \ call[c].left : Exists(m)) /\ n \in call[c].left
    BY <1>3, <2>1 DEF LookShard, CallFits
  <2>3. CASE Exists(n)
    <3>1. PICK left : left = call[c].left \ {n}
      OBVIOUS
    <3>2. Goto(c, "shard", f, left) /\ UNCHANGED <<status, edges, applied, answered, begun, passed>>
      BY <1>3, <2>1, <2>3, <3>1 DEF LookShard
    <3>3. call'[c] = [at |-> "shard", job |-> f, left |-> left]
      BY <3>2 DEF Goto, IInv, TypeOK
    <3>4. CallFits(c)'
      BY <3>1, <3>2, <3>3, <2>2, <2>3 DEF CallFits, At, Exists
    <3>5. QED
      BY <2>2, <3>1, <3>2, <3>4, GotoKeeps DEF Places
  <2>4. CASE ~Exists(n)
    <3>1. PICK left : left = call[c].left
      OBVIOUS
    <3>2. Goto(c, "shardNew", f, left) /\ UNCHANGED <<status, edges, applied, answered, begun, passed>>
      BY <1>3, <2>1, <2>4, <3>1 DEF LookShard
    <3>3. call'[c] = [at |-> "shardNew", job |-> f, left |-> left]
      BY <3>2 DEF Goto, IInv, TypeOK
    <3>4. CallFits(c)'
      BY <3>1, <3>2, <3>3, <2>2 DEF CallFits, At, Exists
    <3>5. QED
      BY <2>2, <3>1, <3>2, <3>4, GotoKeeps DEF Places
  <2>5. QED
    BY <2>3, <2>4
<1>4. CASE ShardsDone(c)
  <2>1. PICK f : f = call[c].job
    OBVIOUS
  <2>2. f \in Fanouts /\ Exists(Parent[f]) /\ \A m \in Shards[f] : Exists(m)
    BY <1>4, <2>1 DEF ShardsDone, CallFits
  <2>3. Goto(c, "link", f, Shards[f]) /\ UNCHANGED <<status, edges, applied, answered, begun, passed>>
    BY <1>4, <2>1 DEF ShardsDone
  <2>4. call'[c] = [at |-> "link", job |-> f, left |-> Shards[f]]
    BY <2>3 DEF Goto, IInv, TypeOK
  <2>5. CallFits(c)'
    BY <2>2, <2>3, <2>4 DEF CallFits, At, Exists
  <2>6. QED
    BY <2>1, <2>2, <2>3, <2>5, GotoKeeps DEF Places
<1>5. CASE JoinDone(c)
  BY <1>5, ReturnKeeps DEF JoinDone
<1>6. QED
  BY <1>1, <1>2, <1>3, <1>4, <1>5

-----------------------------------------------------------------------------
(* Steps that create or start a node.                                      *)

LEMMA SetKeeps ==
  ASSUME IInv, NEW c \in Callers, NEW r \in CallRecord, NEW n \in Nodes,
         NEW s \in Statuses \ {"absent"},
         status' = [status EXCEPT ![n] = s], call' = [call EXCEPT ![c] = r],
         s \in {"ready", "running"} \cup Terminal => Kind[n] = "fanout" \/ Met(n),
         s = "completed" => Kind[n] = "fanout",
         CallFits(c)',
         UNCHANGED <<edges, applied, answered, begun, passed>>
  PROVE  IInv'
<1>1. /\ Grows /\ EdgesFit' /\ PlansFit' /\ GraphIsAcyclic'
      /\ \A m \in Nodes : NodeFits(m)'
  BY StatusMoves
<1>2. \A d \in Callers \ {c} : CallFits(d)'
  BY <1>1, CallStays DEF IInv, TypeOK
<1>3. FanoutIsWhole'
  BY <1>1, FanoutsStay
<1>4. TypeOK'
  BY DEF IInv, TypeOK, CallRecord
<1>5. QED
  BY <1>1, <1>2, <1>3, <1>4 DEF IInv

LEMMA CreateKeeps ==
  ASSUME IInv, NEW c \in Callers, NEW n \in Nodes,
         CreateParent(c) \/ CreateShard(c, n) \/ CreateJoin(c)
  PROVE  IInv'
<1>. USE CallKnown
<1>1. CASE CreateParent(c)
  <2>1. PICK f : f = call[c].job
    OBVIOUS
  <2>2. f \in Fanouts /\ Parent[f] \in Nodes /\ Kind[Parent[f]] = "fanout" /\ Shards[f] \subseteq Nodes
    BY <1>1, <2>1 DEF CreateParent, CallFits
  <2>3. CASE Exists(Parent[f])
    BY <1>1, <2>1, <2>3, ReturnKeeps DEF CreateParent
  <2>4. CASE ~Exists(Parent[f])
    <3>1. PICK r : r = [at |-> "shard", job |-> f, left |-> Shards[f]]
      OBVIOUS
    <3>2. /\ status' = [status EXCEPT ![Parent[f]] = "completed"]
          /\ call' = [call EXCEPT ![c] = r]
          /\ UNCHANGED <<edges, applied, answered, begun, passed>>
      BY <1>1, <2>1, <2>4, <3>1 DEF CreateParent, Goto
    <3>3. r \in CallRecord
      BY <2>2, <3>1 DEF CallRecord, Places
    <3>4. CallFits(c)'
      BY <2>2, <3>1, <3>2 DEF CallFits, At, Exists, IInv, TypeOK
    <3>5. QED
      BY <2>2, <3>2, <3>3, <3>4, SetKeeps DEF Statuses, Terminal
  <2>5. QED
    BY <2>3, <2>4
<1>2. CASE CreateShard(c, n)
  <2>1. PICK f : f = call[c].job
    OBVIOUS
  <2>2. f \in Fanouts /\ Exists(Parent[f]) /\ call[c].left \subseteq Shards[f]
        /\ (\A m \in Shards[f] \ call[c].left : Exists(m)) /\ n \in call[c].left
        /\ Parent[f] \in Nodes /\ Shards[f] \subseteq Nodes
    BY <1>2, <2>1 DEF CreateShard, CallFits
  <2>3. CASE Exists(n)
    BY <1>2, <2>3, ReturnKeeps DEF CreateShard
  <2>4. CASE ~Exists(n)
    <3>1. PICK r : r = [at |-> "shard", job |-> f, left |-> call[c].left \ {n}]
      OBVIOUS
    <3>2. /\ status' = [status EXCEPT ![n] = "pending"]
          /\ call' = [call EXCEPT ![c] = r]
          /\ UNCHANGED <<edges, applied, answered, begun, passed>>
      BY <1>2, <2>1, <2>4, <3>1 DEF CreateShard, Goto
    <3>3. r \in CallRecord
      BY <2>2, <3>1 DEF CallRecord, Places
    <3>4. status \in [Nodes -> Statuses] /\ call'[c] = r
      BY <3>2 DEF IInv, TypeOK
    <3>5. \A m \in Nodes : Exists(m) \/ m = n => Exists(m)'
      BY <3>2, <3>4 DEF Exists
    <3>6. CallFits(c)'
      BY <2>2, <3>1, <3>4, <3>5 DEF CallFits, At
    <3>7. QED
      BY <3>2, <3>3, <3>6, SetKeeps DEF Statuses, Terminal
  <2>5. QED
    BY <2>3, <2>4
<1>3. CASE CreateJoin(c)
  <2>1. PICK j : j = call[c].job
    OBVIOUS
  <2>2. j \in Joins /\ JoinNode[j] \in Nodes /\ Awaited[j] \subseteq Nodes
    BY <1>3, <2>1, DagAssumption DEF CreateJoin, CallFits
  <2>3. CASE Exists(JoinNode[j])
    BY <1>3, <2>1, <2>3, ReturnKeeps DEF CreateJoin
  <2>4. CASE ~Exists(JoinNode[j])
    <3>1. PICK r : r = [at |-> "await", job |-> j, left |-> Awaited[j]]
      OBVIOUS
    <3>2. /\ status' = [status EXCEPT ![JoinNode[j]] = "waiting"]
          /\ call' = [call EXCEPT ![c] = r]
          /\ UNCHANGED <<edges, applied, answered, begun, passed>>
      BY <1>3, <2>1, <2>4, <3>1 DEF CreateJoin, Goto
    <3>3. r \in CallRecord /\ call'[c] = r
      BY <2>2, <3>1, <3>2 DEF CallRecord, Places, IInv, TypeOK
    <3>4. Exists(JoinNode[j])'
      BY <2>2, <3>2 DEF Exists, IInv, TypeOK
    <3>5. CallFits(c)'
      BY <2>2, <3>1, <3>3, <3>4 DEF CallFits, At
    <3>6. QED
      BY <2>2, <3>2, <3>3, <3>5, SetKeeps DEF Statuses, Terminal
  <2>5. QED
    BY <2>3, <2>4
<1>4. QED
  BY <1>1, <1>2, <1>3

\* What getReadyNodes lists has what it depends on.
LEMMA ReadyIsMet ==
  ASSUME IInv, NEW n \in Nodes, Ready(n)
  PROVE  Exists(n) /\ Met(n)
<1>1. Exists(n)
  BY DEF Ready, Exists
<1>2. ASSUME NEW p \in applied, NEW e \in PlanEdges[p], e[2] = n, Kind[n] = "task"
      PROVE  e[1] \in passed
  <2>1. p \in Plans /\ PlanEdges[p] \subseteq PlanNodes[p] \X PlanNodes[p] /\ PlanNodes[p] \subseteq Nodes
    BY DagAssumption DEF IInv, TypeOK
  <2>2. e = <<e[1], e[2]>> /\ e[1] \in PlanNodes[p] /\ e[2] \in PlanNodes[p] /\ e \in edges
    BY <2>1 DEF IInv, PlansFit
  <2>3. Workstream[e[1]] = Workstream[n] /\ Kind[e[1]] # "fanout"
    BY <1>2, <2>1, <2>2, DagAssumption
  <2>4. e[1] \in Predecessors(n)
    BY <1>2, <2>1, <2>2, <2>3 DEF Predecessors
  <2>5. status[e[1]] = "completed"
    BY <1>2, <2>4 DEF Ready
  <2>6. QED
    BY <2>1, <2>2, <2>3, <2>5 DEF IInv, NodeFits
<1>3. QED
  BY <1>1, <1>2 DEF Met

LEMMA StartKeeps ==
  ASSUME IInv, NEW c \in Callers, NEW n \in Nodes,
         ListReady(c, Workstream[n]) \/ StartNode(c, n)
  PROVE  IInv'
<1>. USE CallKnown
<1>1. CASE ListReady(c, Workstream[n])
  <2>1. PICK left : left = {m \in Nodes : Workstream[m] = Workstream[n] /\ Ready(m)}
    OBVIOUS
  <2>2. Goto(c, "listed", "none", left) /\ UNCHANGED <<status, edges, applied, answered, begun, passed>>
    BY <1>1, <2>1 DEF ListReady
  <2>3. \A m \in left : m \in Nodes /\ Exists(m) /\ Met(m)
    BY <2>1, ReadyIsMet
  <2>4. call'[c] = [at |-> "listed", job |-> "none", left |-> left]
    BY <2>2 DEF Goto, IInv, TypeOK
  <2>5. CallFits(c)'
    BY <2>2, <2>3, <2>4 DEF CallFits, At, Exists, Met
  <2>6. QED
    BY <2>1, <2>2, <2>5, GotoKeeps DEF Places
<1>2. CASE StartNode(c, n)
  <2>1. PICK r : r = IF call[c].left = {n} THEN Idle
                     ELSE [at |-> "start", job |-> "none", left |-> call[c].left \ {n}]
    OBVIOUS
  <2>2. /\ status' = [status EXCEPT ![n] = "ready"]
        /\ call' = [call EXCEPT ![c] = r]
        /\ UNCHANGED <<edges, applied, answered, begun, passed>>
    BY <1>2, <2>1 DEF StartNode, Return, Goto
  <2>3. r \in CallRecord /\ call'[c] = r
    BY <2>1, <2>2, IdleTyped DEF CallRecord, Places, IInv, TypeOK
  <2>4. Met(n) /\ \A m \in call[c].left : m \in Nodes /\ Exists(m) /\ Met(m)
    BY <1>2 DEF StartNode, CallFits
  <2>5. \A m \in Nodes : Exists(m) => Exists(m)'
    BY <2>2 DEF Exists, IInv, TypeOK
  <2>6. CallFits(c)'
    <3>1. CASE r = Idle
      BY <2>3, <3>1, IdleFits
    <3>2. CASE r = [at |-> "start", job |-> "none", left |-> call[c].left \ {n}]
      BY <2>2, <2>3, <2>4, <2>5, <3>2 DEF CallFits, At, Met
    <3>3. QED
      BY <2>1, <3>1, <3>2
  <2>7. QED
    BY <2>2, <2>3, <2>4, <2>6, SetKeeps DEF Statuses
<1>3. QED
  BY <1>1, <1>2

LEMMA CapacityKeeps ==
  ASSUME IInv, NEW c \in Callers, CheckExecutionCapacity(c)
  PROVE  IInv'
<1>. USE CallKnown
<1>1. UNCHANGED <<status, edges, applied, answered, begun, passed>>
  BY DEF CheckExecutionCapacity
<1>2. CASE Return(c)
  BY <1>1, <1>2, ReturnKeeps
<1>3. CASE Goto(c, "start", "none", call[c].left)
  <2>1. call'[c] = [at |-> "start", job |-> "none", left |-> call[c].left]
    BY <1>3 DEF Goto, IInv, TypeOK
  <2>2. CallFits(c)'
    BY <1>1, <2>1 DEF CheckExecutionCapacity, CallFits, At, Exists, Met
  <2>3. QED
    BY <1>1, <1>3, <2>2, GotoKeeps DEF Places
<1>4. QED
  BY <1>2, <1>3 DEF CheckExecutionCapacity

-----------------------------------------------------------------------------
(* Steps that add edges.                                                   *)

\* The edges are a graph on the nodes that exist, also with another edge
\* between two of them.
LEMMA GraphIsGraph == IInv => IsGraph(Present, edges)
<1>. SUFFICES ASSUME IInv PROVE IsGraph(Present, edges)
  OBVIOUS
<1>1. Present \in SUBSET Nodes
  BY DEF Present
<1>2. IsFiniteSet(Present)
  BY <1>1, DagAssumption, FS_Subset
<1>3. ASSUME NEW e \in edges PROVE e \in Present \X Present
  <2>1. PICK m \in Nodes, n \in Nodes : e = <<m, n>>
    BY DEF IInv, TypeOK
  <2>2. Exists(e[1]) /\ Exists(e[2])
    BY DEF IInv, EdgesFit
  <2>3. QED
    BY <2>1, <2>2 DEF Present
<1>4. QED
  BY <1>2, <1>3 DEF IsGraph

LEMMA MoreIsGraph ==
  ASSUME IInv, NEW a \in Present, NEW b \in Present
  PROVE  IsGraph(Present, edges \cup {<<a, b>>})
BY GraphIsGraph DEF IsGraph

\* addDagEdge keeps the graph in order, and adds an edge from a source.
LEMMA LinkedFits ==
  ASSUME IInv, NEW a \in Nodes, NEW b \in Nodes, Kind[b] # "fanout"
  PROVE  /\ edges \subseteq Linked(a, b) /\ Linked(a, b) \subseteq Nodes \X Nodes
         /\ Acyclic(Linked(a, b))
         /\ \A e \in Linked(a, b) : Exists(e[1]) /\ Exists(e[2]) /\ Kind[e[2]] # "fanout"
         /\ Kind[a] = "fanout" /\ Exists(a) /\ Exists(b) => <<a, b>> \in Linked(a, b)
<1>1. edges \in SUBSET (Nodes \X Nodes) /\ Acyclic(edges) /\ EdgesFit
  BY DEF IInv, TypeOK, GraphIsAcyclic
<1>2. Linked(a, b) \in {edges, edges \cup {<<a, b>>}}
  BY DEF Linked
<1>. DEFINE more == edges \cup {<<a, b>>}
<1>3. Exists(a) /\ Exists(b) => (DetectCycle(Present, more) = <<>> <=> Acyclic(more))
  <2>1. SUFFICES ASSUME Exists(a), Exists(b)
                 PROVE  DetectCycle(Present, more) = <<>> <=> Acyclic(more)
    OBVIOUS
  <2>2. IsGraph(Present, more)
    BY <2>1, MoreIsGraph DEF Present
  <2> HIDE DEF more
  <2>3. QED
    BY <2>2, DetectCycleDecides
<1>4. Acyclic(Linked(a, b))
  BY <1>1, <1>3 DEF Linked
<1>5. ASSUME NEW e \in Linked(a, b)
      PROVE  Exists(e[1]) /\ Exists(e[2]) /\ Kind[e[2]] # "fanout"
  <2>1. CASE e \in edges
    BY <1>1, <2>1 DEF EdgesFit
  <2>2. CASE e \notin edges
    BY <2>2 DEF Linked
  <2>3. QED
    BY <2>1, <2>2
<1>6. ASSUME Kind[a] = "fanout", Exists(a), Exists(b)
      PROVE  <<a, b>> \in Linked(a, b)
  <2>1. \A m \in Nodes : <<m, a>> \notin edges
    BY <1>1, <1>6 DEF EdgesFit
  <2>2. Acyclic(edges \cup {<<a, b>>})
    BY <1>1, <1>6, <2>1, SourceIsSafe
  <2>3. QED
    BY <1>3, <1>6, <2>2 DEF Linked
<1>7. QED
  BY <1>1, <1>2, <1>4, <1>5, <1>6

LEMMA EdgeKeeps ==
  ASSUME IInv, NEW c \in Callers, NEW n \in Nodes, LinkShard(c, n) \/ Await(c, n)
  PROVE  IInv'
<1>. USE CallKnown
<1>1. PICK a \in Nodes, b \in Nodes, place \in {"link", "await"} :
        /\ Kind[b] # "fanout" /\ edges' = Linked(a, b) /\ At(c, place)
        /\ Goto(c, place, call[c].job, call[c].left \ {n}) /\ n \in call[c].left
        /\ UNCHANGED <<status, applied, answered, begun, passed>>
        /\ place = "link" => a = Parent[call[c].job] /\ b = n
  <2>1. CASE LinkShard(c, n)
    <3>1. call[c].job \in Fanouts /\ n \in Shards[call[c].job]
      BY <2>1 DEF LinkShard, CallFits
    <3>2. QED
      BY <2>1, <3>1 DEF LinkShard
  <2>2. CASE Await(c, n)
    <3>1. call[c].job \in Joins
      BY <2>2 DEF Await, CallFits
    <3>2. QED
      BY <2>2, <3>1 DEF Await
  <2>3. QED
    BY <2>1, <2>2
<1>2. PICK r : r = [at |-> place, job |-> call[c].job, left |-> call[c].left \ {n}]
  OBVIOUS
<1>3. call' = [call EXCEPT ![c] = r] /\ call'[c] = r /\ r \in CallRecord
  BY <1>1, <1>2 DEF Goto, CallRecord, Places, IInv, TypeOK
<1>4. TypeOK'
  BY <1>1, <1>3, LinkedFits DEF IInv, TypeOK, CallRecord
<1>5. edges \subseteq edges' /\ EdgesFit' /\ GraphIsAcyclic'
  <2>1. /\ edges \subseteq Linked(a, b)
        /\ Acyclic(Linked(a, b))
        /\ \A e \in Linked(a, b) : Exists(e[1]) /\ Exists(e[2]) /\ Kind[e[2]] # "fanout"
    BY <1>1, LinkedFits
  <2>2. EdgesFit'
    BY <1>1, <2>1 DEF EdgesFit, Exists
  <2>3. GraphIsAcyclic'
    BY <1>1, <2>1 DEF GraphIsAcyclic
  <2>4. QED
    BY <1>1, <2>1, <2>2, <2>3
<1>6. Grows
  BY <1>1, <1>5 DEF Grows, Exists, Met
<1>7. PlansFit' /\ FanoutIsWhole' /\ \A m \in Nodes : NodeFits(m)'
  BY <1>1, <1>5, <1>6, FanoutsStay DEF IInv, PlansFit, NodeFits, Exists, Met
<1>8. CallFits(c)'
  <2>1. CASE place = "await"
    BY <1>1, <1>2, <1>3, <2>1 DEF CallFits, At, Exists
  <2>2. CASE place = "link"
    <3>1. PICK f \in Fanouts : f = call[c].job
      BY <1>1, <2>2 DEF CallFits
    <3>2. /\ Parent[f] \in Nodes /\ Kind[Parent[f]] = "fanout" /\ Exists(Parent[f])
          /\ call[c].left \subseteq Shards[f] /\ \A m \in Shards[f] : Exists(m)
          /\ \A m \in Shards[f] \ call[c].left : <<Parent[f], m>> \in edges
      BY <1>1, <2>2, <3>1 DEF CallFits
    <3>3. <<Parent[f], n>> \in edges'
      BY <1>1, <2>2, <3>1, <3>2, LinkedFits
    <3>4. QED
      BY <1>1, <1>2, <1>3, <1>5, <2>2, <3>1, <3>2, <3>3 DEF CallFits, At, Exists
  <2>3. QED
    BY <1>1, <2>1, <2>2
<1>9. \A d \in Callers : CallFits(d)'
  BY <1>3, <1>6, <1>8, CallStays DEF IInv, TypeOK
<1>10. QED
  BY <1>4, <1>5, <1>7, <1>9 DEF IInv

LEMMA FanoutDoneKeeps ==
  ASSUME IInv, NEW c \in Callers, FanoutDone(c)
  PROVE  IInv'
<1>1. PICK f : f = call[c].job
  OBVIOUS
<1>2. /\ f \in Fanouts /\ Exists(Parent[f])
      /\ \A n \in Shards[f] : Exists(n) /\ <<Parent[f], n>> \in edges
  BY <1>1, CallKnown DEF FanoutDone, CallFits
<1>3. /\ answered' = answered \cup {f} /\ call' = [call EXCEPT ![c] = Idle] /\ call'[c] = Idle
      /\ UNCHANGED <<status, edges, applied, begun, passed>>
  BY <1>1 DEF FanoutDone, Return, IInv, TypeOK
<1>4. Grows
  BY <1>3 DEF Grows, Exists, Met
<1>5. FanoutIsWhole'
  BY <1>2, <1>3 DEF IInv, FanoutIsWhole, Exists
<1>6. TypeOK'
  BY <1>2, <1>3, IdleTyped DEF IInv, TypeOK, CallRecord
<1>7. EdgesFit' /\ PlansFit' /\ GraphIsAcyclic' /\ \A n \in Nodes : NodeFits(n)'
  BY <1>3 DEF IInv, EdgesFit, PlansFit, GraphIsAcyclic, NodeFits, Exists, Met
<1>8. \A d \in Callers : CallFits(d)'
  BY <1>3, <1>4, IdleFits, CallStays DEF IInv, TypeOK
<1>9. QED
  BY <1>5, <1>6, <1>7, <1>8 DEF IInv

LEMMA PlanKeeps ==
  ASSUME IInv, NEW p \in Plans, ApplyPlan(p)
  PROVE  IInv'
<1>1. /\ PlanNodes[p] \subseteq Nodes /\ PlanEdges[p] \in SUBSET (PlanNodes[p] \X PlanNodes[p])
      /\ Acyclic(PlanEdges[p]) /\ \A n \in PlanNodes[p] : Kind[n] # "fanout"
  BY DagAssumption
<1>2. /\ \A n \in PlanNodes[p] : ~Exists(n)
      /\ edges' = edges \cup PlanEdges[p] /\ applied' = applied \cup {p}
      /\ UNCHANGED <<call, answered, begun, passed>>
  BY DEF ApplyPlan
<1>3. \A n \in Nodes : status'[n] = IF n \in PlanNodes[p] THEN "pending" ELSE status[n]
  BY DEF ApplyPlan
<1>4. \A n \in Nodes : Exists(n) \/ n \in PlanNodes[p] => Exists(n)'
  BY <1>3 DEF Exists
<1>5. \A e \in PlanEdges[p] : e[1] \in PlanNodes[p] /\ e[2] \in PlanNodes[p]
  BY <1>1
<1>6. \A n \in Nodes : Exists(n) /\ Met(n) => Met(n)'
  BY <1>2, <1>5 DEF Met
<1>7. Grows
  BY <1>2, <1>4, <1>6 DEF Grows
<1>8. TypeOK'
  BY <1>1, <1>2 DEF IInv, TypeOK, ApplyPlan, Statuses
<1>9. EdgesFit'
  <2>1. \A e \in edges : e[1] \in Nodes /\ e[2] \in Nodes
    BY DEF IInv, TypeOK
  <2>2. QED
    BY <1>1, <1>2, <1>4, <1>5, <2>1 DEF IInv, EdgesFit
<1>10. GraphIsAcyclic'
  <2>1. PICK Old : Old = {n \in Nodes : Exists(n)}
    OBVIOUS
  <2>2. edges \in SUBSET (Old \X Old)
    <3>1. edges \subseteq Nodes \X Nodes /\ EdgesFit
      BY DEF IInv, TypeOK
    <3>2. QED
      BY <2>1, <3>1 DEF EdgesFit
  <2>3. Old \in SUBSET Nodes /\ Old \cap PlanNodes[p] = {} /\ Acyclic(edges)
    BY <1>2, <2>1 DEF IInv, GraphIsAcyclic
  <2>4. Acyclic(edges \cup PlanEdges[p])
    BY <1>1, <2>2, <2>3, UnionIsSafe
  <2>5. QED
    BY <1>2, <2>4 DEF GraphIsAcyclic
<1>11. PlansFit'
  BY <1>2 DEF IInv, PlansFit
<1>12. ASSUME NEW n \in Nodes
       PROVE  NodeFits(n)'
  <2>1. NodeFits(n) /\ (n \in begun => n \notin PlanNodes[p])
    BY <1>2 DEF IInv, NodeFits
  <2>2. CASE n \in PlanNodes[p]
    BY <1>2, <1>3, <2>1, <2>2 DEF NodeFits, Terminal
  <2>3. CASE n \notin PlanNodes[p]
    BY <1>2, <1>3, <1>4, <1>6, <2>1, <2>3 DEF NodeFits, Terminal, Exists
  <2>4. QED
    BY <2>2, <2>3
<1>13. FanoutIsWhole' /\ \A c \in Callers : CallFits(c)'
  BY <1>2, <1>7, FanoutsStay, CallStays
<1>14. QED
  BY <1>8, <1>9, <1>10, <1>11, <1>12, <1>13 DEF IInv

-----------------------------------------------------------------------------
(* Execution and crashes.                                                  *)

LEMMA ExecuteKeeps ==
  ASSUME IInv, NEW n \in Nodes,
         Begin(n) \/ \E result \in Results : End(n, result)
  PROVE  IInv'
<1>1. status[n] \in {"ready", "running"} /\ Exists(n) /\ Met(n)
  BY DEF Begin, End, IInv, NodeFits, Exists
<1>2. PICK s \in {"running"} \cup Terminal :
        /\ status' = [status EXCEPT ![n] = s]
        /\ begun \subseteq begun' /\ begun' \subseteq begun \cup {n}
        /\ passed \subseteq passed' /\ passed' \subseteq passed \cup {n}
        /\ s = "completed" => n \in passed'
        /\ UNCHANGED <<edges, applied, call, answered>>
  BY DagAssumption DEF Begin, End, Terminal
<1>3. /\ Grows /\ EdgesFit' /\ PlansFit' /\ GraphIsAcyclic'
      /\ \A m \in Nodes : NodeFits(m)'
  BY <1>1, <1>2, StatusMoves DEF Statuses, Terminal
<1>4. TypeOK'
  BY <1>2 DEF IInv, TypeOK, Statuses
<1>5. FanoutIsWhole' /\ \A c \in Callers : CallFits(c)'
  BY <1>2, <1>3, FanoutsStay, CallStays
<1>6. QED
  BY <1>3, <1>4, <1>5 DEF IInv

LEMMA CrashKeeps ==
  ASSUME IInv, Crash
  PROVE  IInv'
<1>1. \A c \in Callers : call'[c] = Idle
  BY DEF Crash
<1>2. \A c \in Callers : CallFits(c)'
  BY <1>1, IdleFits
<1>3. TypeOK'
  BY IdleTyped DEF Crash, IInv, TypeOK, CallRecord
<1>4. /\ EdgesFit' /\ PlansFit' /\ GraphIsAcyclic' /\ FanoutIsWhole'
      /\ \A n \in Nodes : NodeFits(n)'
  BY DEF Crash, IInv, EdgesFit, PlansFit, GraphIsAcyclic, FanoutIsWhole, NodeFits, Exists, Met
<1>5. QED
  BY <1>2, <1>3, <1>4 DEF IInv

-----------------------------------------------------------------------------
LEMMA InitInv == Init => IInv
<1>1. Init => TypeOK
  BY DEF Init, TypeOK, Statuses, Idle, Places
<1>2. Acyclic({})
  BY DEF Acyclic
<1>3. Init => EdgesFit /\ PlansFit /\ GraphIsAcyclic /\ FanoutIsWhole
  BY <1>2 DEF Init, EdgesFit, PlansFit, GraphIsAcyclic, FanoutIsWhole
<1>4. Init => \A n \in Nodes : NodeFits(n)
  BY DEF Init, NodeFits, Terminal
<1>5. Init => \A c \in Callers : CallFits(c)
  BY DEF Init, CallFits, At, Idle
<1>6. QED
  BY <1>1, <1>3, <1>4, <1>5 DEF IInv

LEMMA NextInv == IInv /\ [Next]_vars => IInv'
<1>. SUFFICES ASSUME IInv, [Next]_vars
              PROVE  IInv'
  OBVIOUS
<1>1. CASE UNCHANGED vars
  <2>1. Grows
    BY <1>1 DEF vars, Grows, Exists, Met
  <2>2. FanoutIsWhole' /\ \A c \in Callers : CallFits(c)'
    BY <1>1, <2>1, FanoutsStay, CallStays DEF vars
  <2>3. QED
    BY <1>1, <2>2 DEF vars, IInv, TypeOK, EdgesFit, PlansFit, GraphIsAcyclic, NodeFits, Exists, Met
<1>2. ASSUME NEW c \in Callers, Fanning(c), ~UNCHANGED vars
      PROVE  IInv'
  <2>1. CASE CreateParent(c) \/ ShardsDone(c)
    <3>1. \E n : n \in Nodes
      BY <2>1, CallKnown DEF CreateParent, ShardsDone, CallFits
    <3>2. QED
      BY <2>1, <3>1, CreateKeeps, MoveKeeps
  <2>2. CASE \E f \in Fanouts : FanoutNew(c, f)
    <3>1. \E n : n \in Nodes
      BY <2>2, DagAssumption
    <3>2. QED
      BY <2>2, <3>1, MoveKeeps
  <2>3. QED
    BY <1>2, <2>1, <2>2, CreateKeeps, MoveKeeps, EdgeKeeps, FanoutDoneKeeps DEF Fanning, FanoutKnown
<1>3. ASSUME NEW c \in Callers, Joining(c), ~UNCHANGED vars
      PROVE  IInv'
  <2>1. CASE CreateJoin(c) \/ JoinDone(c)
    <3>1. \E n : n \in Nodes
      BY <2>1, CallKnown DEF CreateJoin, JoinDone, CallFits
    <3>2. QED
      BY <2>1, <3>1, CreateKeeps, MoveKeeps
  <2>2. CASE \E j \in Joins : JoinNew(c, j)
    <3>1. \E n : n \in Nodes
      BY <2>2, DagAssumption
    <3>2. QED
      BY <2>2, <3>1, MoveKeeps
  <2>3. QED
    BY <1>3, <2>1, <2>2, EdgeKeeps DEF Joining, JoinKnown
<1>4. ASSUME NEW c \in Callers, Starting(c)
      PROVE  IInv'
  BY <1>4, StartKeeps, CapacityKeeps DEF Starting
<1>5. QED
  BY <1>1, <1>2, <1>3, <1>4, PlanKeeps, ExecuteKeeps, CrashKeeps DEF Next, Executing

\* The graph, the calls and the histories stay in their types.
THEOREM TypeTheorem == Spec => []TypeOK
<1>1. IInv => TypeOK
  BY DEF IInv
<1>2. QED
  BY <1>1, InitInv, NextInv, PTL DEF Spec

\* The graph of the tasks never has a cycle: an edge is added only after a
\* search in the same transaction, and a plan brings nodes of its own.
THEOREM AcyclicTheorem == Spec => []GraphIsAcyclic
<1>1. IInv => GraphIsAcyclic
  BY DEF IInv
<1>2. QED
  BY <1>1, InitInv, NextInv, PTL DEF Spec

\* A fan-out answered as new is whole: its parent has no predecessors, so
\* no edge to a shard can be refused, and nothing is ever taken away.
THEOREM WholeTheorem == Spec => []FanoutIsWhole
<1>1. IInv => FanoutIsWhole
  BY DEF IInv
<1>2. QED
  BY <1>1, InitInv, NextInv, PTL DEF Spec

\* A plan's task begins after what it depends on has completed, however old
\* the list is from which it was started.
THEOREM DependenciesTheorem == Spec => []BeginsAfterDependencies
<1>1. IInv => BeginsAfterDependencies
  <2>. SUFFICES ASSUME IInv, NEW p \in applied, NEW e \in PlanEdges[p],
                       e[2] \in begun, Kind[e[2]] = "task"
                PROVE  e[1] \in passed
    BY DEF BeginsAfterDependencies
  <2>1. e[2] \in Nodes
    BY DEF IInv, TypeOK
  <2>2. Met(e[2])
    BY <2>1 DEF IInv, NodeFits
  <2>3. QED
    BY <2>2 DEF Met
<1>2. QED
  BY <1>1, InitInv, NextInv, PTL DEF Spec

\* The search for a cycle is right about every edge a join asks for: the join
\* and what it waits for exist by then, and the search decides for any graph.
THEOREM CycleTheorem == Spec => []CycleIsFound
<1>1. IInv => CycleIsFound
  <2>. SUFFICES ASSUME IInv, NEW c \in Callers, At(c, "await"),
                       NEW m \in call[c].left \cap Present,
                       NEW E, E = edges \cup {<<m, JoinNode[call[c].job]>>}
                PROVE  IF Acyclic(E) THEN DetectCycle(Present, E) = <<>>
                       ELSE /\ DetectCycle(Present, E) # <<>>
                            /\ IsClosedPath(DetectCycle(Present, E), E)
    BY DEF CycleIsFound
  <2>1. call[c].job \in Joins /\ Exists(JoinNode[call[c].job])
    BY DEF IInv, CallFits
  <2>2. JoinNode[call[c].job] \in Present
    BY <2>1, DagAssumption DEF Present
  <2>3. IsGraph(Present, E)
    BY <2>2, MoreIsGraph
  <2>4. QED
    BY <2>3, DetectCycleDecides
<1>2. QED
  BY <1>1, InitInv, NextInv, PTL DEF Spec

\* The order of the tasks is whole and stable: the graph is acyclic, so the
\* sort never throws.
THEOREM SortTheorem == Spec => []OrderIsStable
<1>1. IInv => OrderIsStable
  <2>. SUFFICES ASSUME IInv PROVE OrderIsStable
    OBVIOUS
  <2>1. IsGraph(Present, edges)
    BY GraphIsGraph
  <2>2. Present \in SUBSET Nat /\ Acyclic(edges)
    BY DagAssumption DEF Present, IInv, GraphIsAcyclic
  <2>3. QED
    BY <2>1, <2>2, TopologicalSortDecides DEF OrderIsStable
<1>2. QED
  BY <1>1, InitInv, NextInv, PTL DEF Spec
=============================================================================
