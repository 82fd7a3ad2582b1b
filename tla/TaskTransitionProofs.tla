------------------------ MODULE TaskTransitionProofs ------------------------
(***************************************************************************)
(* What holds of the transition kernel for every set of tasks, callers and *)
(* keys, and for a log of any length.                                      *)
(***************************************************************************)
EXTENDS TaskTransition, TLAPS

(***************************************************************************)
(* The matrix.                                                             *)
(***************************************************************************)

\* Every event that is not refused leads to a status of the taxonomy.
LEMMA ResolveType ==
  ASSUME NEW s \in Statuses, NEW e \in Events, NEW p \in Payloads(e)
  PROVE  Resolve(s, e, p) \subseteq Statuses
<1>1. p.canonical = NoStatus \/ p.canonical \in Statuses
  BY TaskTransitionAssumption DEF Payloads
<1>2. \A f \in FixedMoves : f.to \in Statuses
  BY DEF FixedMoves, Statuses, TerminalStatuses, ReviewStates
<1>3. \A d \in DefaultMoves : d.to \in Statuses
  BY DEF DefaultMoves, Statuses, ReviewStates, TerminalStatuses
<1>4. "waiting_for_repair" \in Statuses /\ "failed" \in Statuses
  BY DEF Statuses, TerminalStatuses
<1>5. QED
  BY <1>1, <1>2, <1>3, <1>4 DEF Resolve, OrCanonical

\* A terminal status refuses every event but the correction.
LEMMA TerminalRefuses ==
  ASSUME NEW s \in TerminalStatuses, NEW e \in Events, NEW p,
         e # "reconciliation_correction"
  PROVE  Resolve(s, e, p) = {}
<1>1. \A f \in FixedMoves : s \notin f.from
  BY DEF FixedMoves, TerminalStatuses, ReviewStates
<1>2. \A d \in DefaultMoves : s \notin d.from
  BY DEF DefaultMoves, TerminalStatuses, ReviewStates
<1>3. s # "collecting"
  BY DEF TerminalStatuses
<1>4. QED
  BY <1>1, <1>2, <1>3 DEF Resolve

\* The events that can resolve to completed.
Deciding == {"canonical_decision_applied", "execution_evidence_ready",
             "integration_completed", "reconciliation_correction"}

LEMMA OnlyDecidingCompletes ==
  ASSUME NEW s, NEW e \in Events \ Deciding, NEW p
  PROVE  "completed" \notin Resolve(s, e, p)
<1>1. \A f \in FixedMoves : f.to # "completed"
  BY DEF FixedMoves
<1>2. \A d \in DefaultMoves : d.event # e
  BY DEF DefaultMoves, Deciding
<1>3. e # "reconciliation_correction"
  BY DEF Deciding
<1>4. QED
  BY <1>1, <1>2, <1>3 DEF Resolve

(***************************************************************************)
(* The type invariant.                                                     *)
(***************************************************************************)

LEMMA ApplyType ==
  ASSUME TypeOK, NEW t \in Tasks, NEW e \in Events, NEW next \in Statuses,
         NEW k \in Keys, NEW audit \in BOOLEAN, Apply(t, e, next, k, audit)
  PROVE  /\ status' \in [Tasks -> Statuses]
         /\ stamps' \in [Tasks -> SUBSET Stamped]
         /\ log' \in Seq(Records)
         /\ idem' \in [Keys -> Nat]
<1>1. [task |-> t, event |-> e, previous |-> status[t], next |-> next,
       key |-> k, audit |-> audit] \in Records
  BY DEF TypeOK, Records
<1>2. log' \in Seq(Records)
  BY <1>1 DEF TypeOK, Apply
<1>3. idem' \in [Keys -> Nat]
  BY DEF TypeOK, Apply
<1>4. QED
  BY <1>2, <1>3 DEF TypeOK, Apply

\* What a Transition step does, in terms of the command it carries out.
LEMMA TransitionApplies ==
  ASSUME TypeOK, NEW c \in Callers, NEW e \in Events, NEW p \in Payloads(e),
         Transition(c, e, p)
  PROVE  /\ call[c] \in Commands
         /\ idem[call[c].key] = 0
         /\ \E next \in Resolve(status[call[c].task], e, p) :
              /\ next \in Statuses
              /\ Apply(call[c].task, e, next, call[c].key, p.audit)
<1>1. call[c] \in Commands
  BY DEF Transition, TypeOK
<1>2. status[call[c].task] \in Statuses
  BY <1>1 DEF TypeOK, Commands
<1>3. Resolve(status[call[c].task], e, p) \subseteq Statuses
  BY <1>2, ResolveType
<1>4. QED
  BY <1>1, <1>3 DEF Transition

\* A record appended by a Transition step, and the task it is about.
LEMMA TransitionRecords ==
  ASSUME TypeOK, NEW c \in Callers, NEW e \in Events, NEW p \in Payloads(e),
         Transition(c, e, p)
  PROVE  \E t \in Tasks : \E next \in Resolve(status[t], e, p) :
           /\ next \in Statuses
           /\ status' = [status EXCEPT ![t] = next]
           /\ stamps' = [stamps EXCEPT ![t] = @ \cup ({next} \cap Stamped)]
           /\ \E r \in Records :
                /\ log' = Append(log, r)
                /\ r.task = t /\ r.event = e
                /\ r.previous = status[t] /\ r.next = next /\ r.key = call[c].key
<1>1. PICK next \in Resolve(status[call[c].task], e, p) :
        next \in Statuses /\ Apply(call[c].task, e, next, call[c].key, p.audit)
  BY TransitionApplies
<1>2. call[c].task \in Tasks /\ call[c].key \in Keys /\ p.audit \in BOOLEAN
  BY TransitionApplies DEF Commands, Payloads
<1>3. status[call[c].task] \in Statuses
  BY <1>2 DEF TypeOK
<1> DEFINE r == [task |-> call[c].task, event |-> e, previous |-> status[call[c].task],
                 next |-> next, key |-> call[c].key, audit |-> p.audit]
<1>4. r \in Records
  BY <1>1, <1>2, <1>3 DEF Records
<1>5. log' = Append(log, r)
  BY <1>1 DEF Apply
<1>6. status' = [status EXCEPT ![call[c].task] = next]
      /\ stamps' = [stamps EXCEPT ![call[c].task] = @ \cup ({next} \cap Stamped)]
  BY <1>1 DEF Apply
<1>7. r.task = call[c].task /\ r.event = e /\ r.previous = status[call[c].task]
      /\ r.next = next /\ r.key = call[c].key
  OBVIOUS
<1> HIDE DEF r
<1>8. QED
  BY <1>1, <1>2, <1>4, <1>5, <1>6, <1>7

LEMMA Typing == Spec => []TypeOK
<1>1. Init => TypeOK
  BY DEF Init, TypeOK, Statuses, Stamped, Records
<1>2. ASSUME TypeOK, [Next]_vars PROVE TypeOK'
  <2>1. ASSUME NEW c \in Callers, NEW t \in Tasks, NEW k \in Keys, Prepare(c, t, k)
        PROVE TypeOK'
    <3>1. PICK x \in {{}, {status[t]}} :
            call' = [call EXCEPT ![c] = [task |-> t, expected |-> x, key |-> k]]
      BY <2>1 DEF Prepare
    <3>2. status[t] \in Statuses
      BY <1>2 DEF TypeOK
    <3>3. [task |-> t, expected |-> x, key |-> k] \in Commands
      BY <3>2 DEF Commands
    <3>4. QED
      BY <1>2, <2>1, <3>1, <3>3 DEF TypeOK, Prepare
  <2>2. ASSUME NEW c \in Callers, NEW e \in Events, NEW p \in Payloads(e),
               Transition(c, e, p)
        PROVE TypeOK'
    <3>1. PICK next \in Resolve(status[call[c].task], e, p) :
            next \in Statuses /\ Apply(call[c].task, e, next, call[c].key, p.audit)
      BY <1>2, <2>2, TransitionApplies
    <3>2. call[c].task \in Tasks /\ call[c].key \in Keys /\ p.audit \in BOOLEAN
      BY <1>2, <2>2, TransitionApplies DEF Commands, Payloads
    <3>3. call' \in [Callers -> Commands \cup {NoCall}]
      BY <1>2, <2>2 DEF TypeOK, Transition
    <3>4. QED
      BY <1>2, <3>1, <3>2, <3>3, ApplyType DEF TypeOK
  <2>3. ASSUME NEW c \in Callers, NEW e \in Events, NEW p \in Payloads(e),
               Answer(c, e, p)
        PROVE TypeOK'
    BY <1>2, <2>3 DEF TypeOK, Answer
  <2>4. ASSUME NEW t \in Tasks, NEW s \in Canonicals, UpdateTask(t, s)
        PROVE TypeOK'
    BY <1>2, <2>4, TaskTransitionAssumption DEF TypeOK, UpdateTask
  <2>5. CASE UNCHANGED vars
    BY <1>2, <2>5 DEF TypeOK, vars
  <2>6. QED
    BY <1>2, <2>1, <2>2, <2>3, <2>4, <2>5 DEF Next
<1>3. QED
  BY <1>1, <1>2, PTL DEF Spec

(***************************************************************************)
(* One effect per idempotency key.                                         *)
(***************************************************************************)

\* A key under which transitionTask took effect is never used again, with the
\* kernel alone and beside updateTask.
THEOREM KeyTheorem == Spec => []OneEffectPerKey
<1>1. Init => OneEffectPerKey
  BY DEF Init, OneEffectPerKey
<1>2. ASSUME TypeOK, OneEffectPerKey, [Next]_vars PROVE OneEffectPerKey'
  <2>1. ASSUME NEW c \in Callers, NEW e \in Events, NEW p \in Payloads(e),
               Transition(c, e, p)
        PROVE OneEffectPerKey'
    <3> DEFINE k == call[c].key
               n == Len(log)
    <3>1. k \in Keys /\ idem[k] = 0
      BY <1>2, <2>1, TransitionApplies DEF Commands
    <3>2. PICK r \in Records : log' = Append(log, r) /\ r.key = k
      BY <1>2, <2>1, TransitionRecords
    <3>3. idem' = [idem EXCEPT ![k] = n + 1]
      BY <1>2, <2>1, TransitionApplies DEF Apply
    <3>4. /\ Len(log') = n + 1 /\ log'[n + 1].key = k
          /\ \A i \in 1 .. n : log'[i] = log[i]
      BY <1>2, <3>2 DEF TypeOK
    <3>5. n \in Nat /\ \A i \in 1 .. n : log[i] \in Records
      BY <1>2 DEF TypeOK
    <3>6. ASSUME NEW i \in 1 .. Len(log') PROVE idem'[log'[i].key] = i
      <4>1. CASE i = n + 1
        BY <4>1, <3>1, <3>3, <3>4, <1>2 DEF TypeOK
      <4>2. CASE i \in 1 .. n
        <5>1. log[i].key \in Keys /\ idem[log[i].key] = i
          BY <4>2, <3>5, <1>2 DEF OneEffectPerKey, Records
        <5>2. log[i].key # k
          BY <5>1, <3>1, <4>2
        <5>3. QED
          BY <5>1, <5>2, <4>2, <3>3, <3>4, <1>2 DEF TypeOK
      <4>3. QED
        BY <4>1, <4>2, <3>4, <3>5
    <3>7. ASSUME NEW x \in Keys, idem'[x] # 0
          PROVE idem'[x] \in 1 .. Len(log') /\ log'[idem'[x]].key = x
      <4>1. CASE x = k
        BY <4>1, <3>1, <3>3, <3>4, <3>5, <1>2 DEF TypeOK
      <4>2. CASE x # k
        <5>1. idem'[x] = idem[x]
          BY <4>2, <3>1, <3>3, <1>2 DEF TypeOK
        <5>2. idem[x] \in 1 .. n /\ log[idem[x]].key = x
          BY <5>1, <3>7, <1>2 DEF OneEffectPerKey
        <5>3. QED
          BY <5>1, <5>2, <3>4, <3>5
      <4>3. QED
        BY <4>1, <4>2
    <3>8. QED
      BY <3>6, <3>7 DEF OneEffectPerKey
  <2>2. CASE UNCHANGED <<log, idem>>
    BY <1>2, <2>2 DEF OneEffectPerKey
  <2>3. QED
    BY <1>2, <2>1, <2>2 DEF Next, Prepare, Answer, UpdateTask, vars
<1>3. QED
  BY <1>1, <1>2, Typing, PTL DEF Spec

(***************************************************************************)
(* Terminal statuses.                                                      *)
(***************************************************************************)

\* A task that leaves the set of terminal statuses does it by a correction that
\* is in the log, also where updateTask is in use.
THEOREM ReopenTheorem == Spec => TerminalReopenedByCorrection
<1>1. ASSUME TypeOK, [Next]_vars, NEW t \in Tasks,
             status[t] \in TerminalStatuses, status'[t] \notin TerminalStatuses
      PROVE  /\ Len(log') = Len(log) + 1
             /\ log'[Len(log')].task = t
             /\ log'[Len(log')].event = "reconciliation_correction"
  <2>1. ASSUME NEW c \in Callers, NEW e \in Events, NEW p \in Payloads(e),
               Transition(c, e, p)
        PROVE  /\ Len(log') = Len(log) + 1
               /\ log'[Len(log')].task = t
               /\ log'[Len(log')].event = "reconciliation_correction"
    <3> DEFINE Step(u, r) ==
                 /\ log' = Append(log, r) /\ r.task = u /\ r.event = e
                 /\ \E next \in Resolve(status[u], e, p) :
                      status' = [status EXCEPT ![u] = next]
    <3>1. PICK u \in Tasks, r \in Records : Step(u, r)
      BY <1>1, <2>1, TransitionRecords
    <3>2. u = t
      BY <1>1, <3>1 DEF TypeOK
    <3>3. e = "reconciliation_correction"
      BY <1>1, <3>1, <3>2, TerminalRefuses
    <3>4. QED
      BY <1>1, <3>1, <3>2, <3>3 DEF TypeOK
  <2>2. ASSUME NEW u \in Tasks, NEW s \in Canonicals, UpdateTask(u, s) PROVE FALSE
    BY <1>1, <2>2 DEF UpdateTask, TypeOK
  <2>3. CASE UNCHANGED status
    BY <1>1, <2>3
  <2>4. QED
    BY <1>1, <2>1, <2>2, <2>3 DEF Next, Prepare, Answer, vars
<1>2. TypeOK /\ [Next]_vars =>
        [\A t \in Tasks :
           status[t] \in TerminalStatuses /\ status'[t] \notin TerminalStatuses =>
             /\ Len(log') = Len(log) + 1
             /\ log'[Len(log')].task = t
             /\ log'[Len(log')].event = "reconciliation_correction"]_vars
  BY <1>1
<1>3. QED
  BY <1>2, Typing, PTL DEF Spec, TerminalReopenedByCorrection

(***************************************************************************)
(* The log.                                                                *)
(***************************************************************************)

\* What the log says of the tasks.
LogInv == HistoryIsWhole /\ StampsTellHistory /\ CompletionIsDecided

LEMMA LogInvInductive ==
  ASSUME TypeOK, LogInv, [Next]_vars
  PROVE  LogInv'
<1>1. ASSUME NEW c \in Callers, NEW e \in Events, NEW p \in Payloads(e),
             Transition(c, e, p)
      PROVE LogInv'
  <2> DEFINE n == Len(log)
  <2>1. PICK t \in Tasks : \E next \in Resolve(status[t], e, p) :
          /\ next \in Statuses
          /\ status' = [status EXCEPT ![t] = next]
          /\ stamps' = [stamps EXCEPT ![t] = @ \cup ({next} \cap Stamped)]
          /\ \E r \in Records :
               /\ log' = Append(log, r)
               /\ r.task = t /\ r.event = e
               /\ r.previous = status[t] /\ r.next = next
    BY <1>1, TransitionRecords
  <2>2. PICK next \in Resolve(status[t], e, p), r \in Records :
          /\ next \in Statuses
          /\ status' = [status EXCEPT ![t] = next]
          /\ stamps' = [stamps EXCEPT ![t] = @ \cup ({next} \cap Stamped)]
          /\ log' = Append(log, r)
          /\ r.task = t /\ r.event = e
          /\ r.previous = status[t] /\ r.next = next
    BY <2>1
  <2>3. /\ n \in Nat /\ Len(log') = n + 1 /\ log'[n + 1] = r
        /\ \A i \in 1 .. n : log'[i] = log[i]
    BY <2>2 DEF TypeOK
  <2>4. /\ \A u \in Tasks \ {t} : EventsOf(u)' = EventsOf(u)
        /\ EventsOf(t)' = EventsOf(t) \cup {n + 1}
        /\ \A u \in Tasks : EventsOf(u) \subseteq 1 .. n
    BY <2>2, <2>3 DEF EventsOf
  <2>5. HistoryIsWhole'
    <3> SUFFICES ASSUME NEW u \in Tasks \ LegacyTasks, NEW i \in EventsOf(u)'
                 PROVE \/ /\ \A j \in EventsOf(u)' : j <= i
                          /\ status'[u] = log'[i].next
                       \/ \E j \in EventsOf(u)' :
                            /\ i < j /\ log'[j].previous = log'[i].next
                            /\ \A k \in EventsOf(u)' : ~(i < k /\ k < j)
      BY DEF HistoryIsWhole
    <3>1. CASE u # t
      <4>1. status'[u] = status[u] /\ EventsOf(u)' = EventsOf(u)
        BY <3>1, <2>2, <2>4 DEF TypeOK
      <4>2. QED
        BY <4>1, <2>3, <2>4 DEF LogInv, HistoryIsWhole
    <3>2. CASE u = t /\ i = n + 1
      BY <3>2, <2>2, <2>3, <2>4 DEF TypeOK
    <3>3. CASE u = t /\ i \in EventsOf(t)
      <4>1. CASE \A j \in EventsOf(t) : j <= i
        <5>1. status[t] = log[i].next
          BY <3>3, <4>1, <2>3, <2>4 DEF LogInv, HistoryIsWhole
        <5>2. n + 1 \in EventsOf(t)' /\ i < n + 1 /\ log'[n + 1].previous = log'[i].next
          BY <5>1, <3>3, <2>2, <2>3, <2>4
        <5>3. \A k \in EventsOf(t)' : ~(i < k /\ k < n + 1)
          BY <3>3, <4>1, <2>3, <2>4
        <5>4. QED
          BY <3>3, <5>2, <5>3
      <4>2. CASE ~ \A j \in EventsOf(t) : j <= i
        <5>1. PICK j \in EventsOf(t) :
                /\ i < j /\ log[j].previous = log[i].next
                /\ \A k \in EventsOf(t) : ~(i < k /\ k < j)
          BY <3>3, <4>2 DEF LogInv, HistoryIsWhole
        <5>2. j \in EventsOf(t)' /\ log'[j].previous = log'[i].next
          BY <5>1, <3>3, <2>3, <2>4
        <5>3. \A k \in EventsOf(t)' : ~(i < k /\ k < j)
          BY <5>1, <2>3, <2>4
        <5>4. QED
          BY <3>3, <5>1, <5>2, <5>3
      <4>3. QED
        BY <4>1, <4>2
    <3>4. QED
      BY <3>1, <3>2, <3>3, <2>4
  <2>6. StampsTellHistory'
    <3> SUFFICES ASSUME NEW u \in Tasks
                 PROVE stamps'[u] = {log'[i].next : i \in EventsOf(u)'} \cap Stamped
      BY DEF StampsTellHistory
    <3>1. stamps[u] = {log[i].next : i \in EventsOf(u)} \cap Stamped
      BY DEF LogInv, StampsTellHistory
    <3>2. {log'[i].next : i \in EventsOf(u)} = {log[i].next : i \in EventsOf(u)}
      BY <2>3, <2>4
    <3>3. CASE u # t
      BY <3>1, <3>2, <3>3, <2>2, <2>4 DEF TypeOK
    <3>4. CASE u = t
      <4>1. {log'[i].next : i \in EventsOf(t)'}
              = {log'[i].next : i \in EventsOf(t)} \cup {next}
        BY <2>2, <2>3, <2>4
      <4>2. stamps'[t] = stamps[t] \cup ({next} \cap Stamped)
        BY <2>2 DEF TypeOK
      <4>3. QED
        BY <3>1, <3>2, <3>4, <4>1, <4>2
    <3>5. QED
      BY <3>3, <3>4
  <2>7. CompletionIsDecided'
    <3>1. r.next = "completed" => r.event \in Deciding
      BY <2>2, OnlyDecidingCompletes
    <3>2. QED
      BY <3>1, <2>3 DEF LogInv, CompletionIsDecided, Deciding
  <2>8. QED
    BY <2>5, <2>6, <2>7 DEF LogInv
<1>2. ASSUME NEW t \in Tasks, NEW s \in Canonicals, UpdateTask(t, s) PROVE LogInv'
  <2>1. /\ \A u \in Tasks \ LegacyTasks : status'[u] = status[u]
        /\ UNCHANGED <<stamps, log>>
    BY <1>2 DEF UpdateTask, TypeOK
  <2>2. QED
    BY <2>1 DEF LogInv, HistoryIsWhole, StampsTellHistory, CompletionIsDecided, EventsOf
<1>3. CASE UNCHANGED <<status, stamps, log>>
  BY <1>3 DEF LogInv, HistoryIsWhole, StampsTellHistory, CompletionIsDecided, EventsOf
<1>4. QED
  BY <1>1, <1>2, <1>3 DEF Next, Prepare, Answer, vars

LEMMA LogInvHolds == Spec => []LogInv
<1>1. Init => LogInv
  BY DEF Init, LogInv, HistoryIsWhole, StampsTellHistory, CompletionIsDecided, EventsOf
<1>2. LogInv /\ TypeOK /\ [Next]_vars => LogInv'
  BY LogInvInductive
<1>3. QED
  BY <1>1, <1>2, Typing, PTL DEF Spec

\* The event records of a task are its whole history: unbroken, and ending in
\* the status the task has.
THEOREM HistoryTheorem == Spec => []HistoryIsWhole
BY LogInvHolds, PTL DEF LogInv

\* A task carries exactly the terminal timestamps its history gave it.
THEOREM StampsTheorem == Spec => []StampsTellHistory
BY LogInvHolds, PTL DEF LogInv

\* Nothing but a decision, evidence, an integration or a correction completes.
THEOREM CompletionTheorem == Spec => []CompletionIsDecided
BY LogInvHolds, PTL DEF LogInv

\* A task that transitionTask alone writes leaves a terminal status only by a logged
\* correction.
THEOREM TerminalTheorem == Spec => TerminalIsCorrected
<1>1. ASSUME TypeOK, [Next]_vars, NEW t \in Tasks \ LegacyTasks,
             status[t] \in TerminalStatuses, status'[t] # status[t]
      PROVE  /\ Len(log') = Len(log) + 1
             /\ log'[Len(log')].task = t
             /\ log'[Len(log')].event = "reconciliation_correction"
  <2>1. ASSUME NEW c \in Callers, NEW e \in Events, NEW p \in Payloads(e),
               Transition(c, e, p)
        PROVE  /\ Len(log') = Len(log) + 1
               /\ log'[Len(log')].task = t
               /\ log'[Len(log')].event = "reconciliation_correction"
    <3> DEFINE Step(u, r) ==
                 /\ log' = Append(log, r) /\ r.task = u /\ r.event = e
                 /\ \E next \in Resolve(status[u], e, p) :
                      status' = [status EXCEPT ![u] = next]
    <3>1. PICK u \in Tasks, r \in Records : Step(u, r)
      BY <1>1, <2>1, TransitionRecords
    <3>2. u = t
      BY <1>1, <3>1 DEF TypeOK
    <3>3. e = "reconciliation_correction"
      BY <1>1, <3>1, <3>2, TerminalRefuses
    <3>4. QED
      BY <1>1, <3>1, <3>2, <3>3 DEF TypeOK
  <2>2. ASSUME NEW u \in Tasks, NEW s \in Canonicals, UpdateTask(u, s) PROVE FALSE
    BY <1>1, <2>2 DEF UpdateTask, TypeOK
  <2>3. CASE UNCHANGED status
    BY <1>1, <2>3
  <2>4. QED
    BY <1>1, <2>1, <2>2, <2>3 DEF Next, Prepare, Answer, vars
<1>2. TypeOK /\ [Next]_vars =>
        [\A t \in Tasks \ LegacyTasks :
           status[t] \in TerminalStatuses /\ status'[t] # status[t] =>
             /\ Len(log') = Len(log) + 1
             /\ log'[Len(log')].task = t
             /\ log'[Len(log')].event = "reconciliation_correction"]_vars
  BY <1>1
<1>3. QED
  BY <1>2, Typing, PTL DEF Spec, TerminalIsCorrected
=============================================================================
