------------------------- MODULE ExecutionRunProofs -------------------------
(***************************************************************************)
(* The service's calls keep an ExecutionRun's promises for any number of   *)
(* runs, calls, request_ids and keys.  The inductive invariant says what   *)
(* each step of a call still knows of its run, although the run may have   *)
(* moved since the call read it.                                           *)
(***************************************************************************)
EXTENDS ExecutionRun, TLAPS

\* The states of a run no executor has claimed; none of them comes back.
Early == {"absent", "created", "planning", "ready"}

\* The steps of a call that has no run yet, or no longer one.
Unbound == {"idle", "done", "lookup", "create"}

\* What a call at its step may rely on, whatever the others did meanwhile.
CallOK(k) ==
  /\ k.pc \notin Unbound => k.run \in Stored
  /\ k.pc = "claim" => k.seen = "ready"
  /\ k.pc = "execute" => runState[k.run] \notin Early
  /\ k.pc = "complete" => outcome[k.run] = "accepted"
  /\ k.pc \in {"giveUp", "attemptFailed", "reject"} => failure[k.run] # "none"

CallsOK == \A c \in Calls : CallOK(call[c])

\* No call of the service moves a run to one of these states.
NeverResumed == \A r \in Runs : runState[r] \notin {"resuming", "correcting"}

IInv == TypeOK /\ NeverResumed /\ CallsOK /\ SingleExecutor /\ OneRunPerRequest

\* What no step takes from a run that others rely on.
Grows ==
  \A r \in Stored :
    /\ runState'[r] # "absent"
    /\ runState[r] \notin Early => runState'[r] \notin Early
    /\ outcome[r] = "accepted" => outcome'[r] = "accepted"
    /\ failure[r] # "none" => failure'[r] # "none"

\* The states this module's calls move runs to are states of a run.
LEMMA StateNames ==
  /\ "absent" \notin States
  /\ {"created", "planning", "ready", "running", "collecting", "evaluating", "completed",
      "failed", "cancelled", "checkpointing", "waiting_for_repair", "waiting_for_review",
      "waiting_for_supervisor", "resuming", "correcting"} \subseteq States
BY DEF States, Lifecycle!States, Lifecycle!Waits, Lifecycle!Terminal

\* Call records stay call records.
LEMMA CallAt ==
  ASSUME NEW k \in Call, NEW pc \in Steps
  PROVE  /\ [k EXCEPT !.pc = pc] \in Call
         /\ [k EXCEPT !.pc = pc].pc = pc
         /\ [k EXCEPT !.pc = pc].run = k.run
BY DEF Call

LEMMA CallLocal ==
  ASSUME NEW pc \in Steps, NEW r \in Runs, NEW state \in States \cup {"absent"}
  PROVE  /\ Local(pc, r, state) \in Call
         /\ Local(pc, r, state).pc = pc
         /\ Local(pc, r, state).run = r
         /\ Local(pc, r, state).seen = state
BY DEF Call, Local

LEMMA CallDone == Done \in Call /\ Done.pc = "done"
BY DEF Done, Local, Call

\* A step of one call keeps the invariant when the records only grow, the new
\* call record is sound, and no call but one on a run nobody executes begins
\* to execute.
LEMMA CallStep ==
  ASSUME IInv,
         NEW c \in Calls, NEW k \in Call,
         call' = [call EXCEPT ![c] = k],
         runState' \in [Runs -> States \cup {"absent"}],
         outcome' \in [Runs -> {"none", "accepted"}],
         failure' \in [Runs -> Codes \cup {"none"}],
         UNCHANGED names,
         Stored' = Stored,
         NeverResumed', Grows, CallOK(k)',
         k.pc = "execute" => Executing(k.run) = {}
  PROVE  IInv'
<1> USE DEF IInv
<1>1. TypeOK'
  BY DEF TypeOK, names
<1>2. ASSUME NEW d \in Calls
      PROVE  CallOK(call[d])'
  <2>1. CASE d = c
    BY <2>1 DEF TypeOK
  <2>2. CASE d # c
    <3>1. call'[d] = call[d] /\ CallOK(call[d])
      BY <2>2 DEF TypeOK, CallsOK
    <3>2. call[d].pc \notin Unbound => call[d].run \in Stored /\ call[d].run \in Stored'
      BY <3>1 DEF CallOK
    <3> QED BY <3>1, <3>2 DEF CallOK, Grows, Unbound
  <2> QED BY <2>1, <2>2
<1>3. SingleExecutor'
  <2> SUFFICES ASSUME NEW r \in Runs, NEW d \in Executing(r)', NEW e \in Executing(r)'
               PROVE  d = e
    BY DEF SingleExecutor
  <2>1. \A x \in Calls : x \in Executing(r)' /\ x # c => x \in Executing(r)
    BY DEF Executing, At, TypeOK
  <2>2. c \in Executing(r)' => k.pc = "execute" /\ k.run = r
    BY DEF Executing, At, TypeOK
  <2>3. d \in Calls /\ e \in Calls
    BY DEF Executing
  <2> QED BY <2>1, <2>2, <2>3 DEF SingleExecutor
<1>4. OneRunPerRequest'
  BY DEF OneRunPerRequest, names
<1> QED BY <1>1, <1>2, <1>3, <1>4 DEF CallsOK

\* A step that only moves the call on, to a step that needs no more of its run.
LEMMA LocalStep ==
  ASSUME IInv,
         NEW c \in Calls, NEW k \in Call,
         call' = [call EXCEPT ![c] = k],
         UNCHANGED <<runState, names, records>>,
         CallOK(k), k.pc # "execute"
  PROVE  IInv'
<1>1. Stored' = Stored /\ Grows /\ NeverResumed'
  BY DEF Stored, Grows, NeverResumed, IInv, records
<1>2. CallOK(k)'
  BY <1>1 DEF CallOK, records
<1>3. /\ runState' \in [Runs -> States \cup {"absent"}]
      /\ outcome' \in [Runs -> {"none", "accepted"}]
      /\ failure' \in [Runs -> Codes \cup {"none"}]
  BY DEF IInv, TypeOK, records
<1> QED BY <1>1, <1>2, <1>3, CallStep

\* A call that returns, by its end or by an error.
LEMMA ReturnStep ==
  ASSUME IInv, NEW c \in Calls, Return(c), UNCHANGED <<runState, names, records>>
  PROVE  IInv'
<1>1. CallOK(Done)
  BY CallDone DEF CallOK, Unbound
<1> QED BY <1>1, CallDone, LocalStep DEF Return

\* A step of a call that has a run and keeps it.
LEMMA GoToStep ==
  ASSUME IInv, NEW c \in Calls, NEW pc \in {"ready", "fault", "gate", "evaluate"},
         call[c].pc \notin Unbound,
         GoTo(c, pc), UNCHANGED <<runState, names, records>>
  PROVE  IInv'
<1>0. pc \in Steps /\ call[c] \in Call
  BY DEF IInv, TypeOK, Steps, StartSteps
<1>1. PICK k \in Call : k = [call[c] EXCEPT !.pc = pc] /\ k.pc = pc /\ k.run = call[c].run
  BY <1>0, CallAt
<1>2. call' = [call EXCEPT ![c] = k]
  BY <1>1 DEF GoTo
<1>3. k.run \in Stored
  BY <1>1 DEF IInv, CallsOK, CallOK
<1>4. CallOK(k)
  BY <1>1, <1>3 DEF CallOK
<1>5. k.pc # "execute"
  BY <1>1
<1> QED BY <1>1, <1>2, <1>4, <1>5, LocalStep

\* A transition of a stored run: it leaves the early states only forward, and
\* only a claim of a ready run begins an execution.
LEMMA MoveStep ==
  ASSUME IInv, NEW c \in Calls,
         NEW from, NEW to \in States \ {"created", "resuming", "correcting"},
         NEW then \in {"done", "prepare", "execute", "collect", "evaluate", "repair"},
         call[c].pc \notin Unbound,
         Transition(c, from, to, then),
         to \in {"planning", "ready"} => from \in Early,
         then = "execute" => from = "ready" /\ to = "running"
  PROVE  IInv'
<1> DEFINE r == call[c].run
<1>1. r \in Stored /\ r \in Runs
  BY DEF IInv, CallsOK, CallOK, Stored
<1>2. runState[r] = from /\ runState' = [runState EXCEPT ![r] = to]
      /\ UNCHANGED <<names, outcome, failure>>
  BY DEF Transition, Succeeds, records
<1>3. PICK k \in Call :
        /\ k = IF then = "done" THEN Done ELSE [call[c] EXCEPT !.pc = then]
        /\ k.pc = then /\ (then # "done" => k.run = r)
  <2>1. then = "done" \/ then \in Steps
    BY DEF Steps, StartSteps
  <2>2. call[c] \in Call
    BY DEF IInv, TypeOK
  <2> QED BY <2>1, <2>2, CallAt, CallDone
<1>4. call' = [call EXCEPT ![c] = k]
  BY <1>3 DEF Transition, Return, GoTo
<1>5. to # "absent"
  BY StateNames
<1>6. \A x \in Runs : runState'[x] = IF x = r THEN to ELSE runState[x]
  BY <1>2 DEF IInv, TypeOK
<1>7. /\ runState' \in [Runs -> States \cup {"absent"}]
      /\ outcome' \in [Runs -> {"none", "accepted"}]
      /\ failure' \in [Runs -> Codes \cup {"none"}]
  BY <1>2 DEF IInv, TypeOK
<1>8. Stored' = Stored
  BY <1>1, <1>5, <1>6 DEF Stored
<1>9. NeverResumed'
  BY <1>6 DEF NeverResumed, IInv
<1>10. Grows
  <2> SUFFICES ASSUME NEW x \in Stored
               PROVE  runState'[x] # "absent" /\ (runState[x] \notin Early => runState'[x] \notin Early)
    BY <1>2 DEF Grows
  <2>1. runState[x] # "absent" /\ x \in Runs
    BY DEF Stored
  <2> QED BY <2>1, <1>2, <1>5, <1>6 DEF Early
<1>11. then = "execute" => runState'[k.run] \notin Early
  BY <1>1, <1>3, <1>6 DEF Early
<1>12. CallOK(k)'
  BY <1>1, <1>3, <1>8, <1>11 DEF CallOK, Unbound
<1>13. k.pc = "execute" => Executing(k.run) = {}
  <2> SUFFICES ASSUME then = "execute", NEW d \in Executing(r) PROVE FALSE
    BY <1>3
  <2>1. CallOK(call[d]) /\ call[d].pc = "execute" /\ call[d].run = r
    BY DEF Executing, At, IInv, CallsOK
  <2> QED BY <2>1, <1>2 DEF CallOK, Early
<1>14. UNCHANGED names
  BY <1>2
<1> QED BY <1>3, <1>4, <1>7, <1>8, <1>9, <1>10, <1>12, <1>13, <1>14, CallStep

\* The same in a call that throws what refuses the transition.
LEMMA MoveOrThrowStep ==
  ASSUME IInv, NEW c \in Calls,
         NEW from, NEW to \in States \ {"created", "resuming", "correcting"},
         NEW then \in {"done", "prepare", "execute", "collect", "evaluate", "repair"},
         call[c].pc \notin Unbound,
         TransitionOrThrow(c, from, to, then),
         to \in {"planning", "ready"} => from \in Early,
         then = "execute" => from = "ready" /\ to = "running"
  PROVE  IInv'
<1>1. CASE Transition(c, from, to, then)
  BY <1>1, MoveStep
<1>2. CASE ~Transition(c, from, to, then)
  BY <1>2, ReturnStep DEF TransitionOrThrow
<1> QED BY <1>1, <1>2

\* updateRun with a failure.
LEMMA FailureStep ==
  ASSUME IInv, NEW c \in Calls, NEW code \in Codes,
         NEW then \in {"giveUp", "attemptFailed", "reject"},
         call[c].pc \notin Unbound,
         RecordFailure(c, code, then)
  PROVE  IInv'
<1> DEFINE r == call[c].run
<1>1. r \in Stored /\ r \in Runs
  BY DEF IInv, CallsOK, CallOK, Stored
<1>2. failure' = [failure EXCEPT ![r] = code] /\ UNCHANGED <<runState, names, outcome>>
  BY DEF RecordFailure
<1>3. PICK k \in Call : k = Local(then, r, runState[r]) /\ k.pc = then /\ k.run = r
  <2>1. then \in Steps
    BY DEF Steps, StartSteps
  <2>2. runState[r] \in States \cup {"absent"}
    BY <1>1 DEF IInv, TypeOK
  <2> QED BY <1>1, <2>1, <2>2, CallLocal
<1>4. call' = [call EXCEPT ![c] = k]
  BY <1>3 DEF RecordFailure
<1>5. code # "none"
  BY DEF Codes
<1>6. \A x \in Runs : failure'[x] = IF x = r THEN code ELSE failure[x]
  BY <1>2 DEF IInv, TypeOK
<1>7. /\ runState' \in [Runs -> States \cup {"absent"}]
      /\ outcome' \in [Runs -> {"none", "accepted"}]
      /\ failure' \in [Runs -> Codes \cup {"none"}]
  BY <1>2 DEF IInv, TypeOK
<1>8. Stored' = Stored /\ NeverResumed'
  BY <1>2 DEF Stored, NeverResumed, IInv
<1>9. Grows
  BY <1>2, <1>5, <1>6 DEF Grows, Stored
<1>10. CallOK(k)'
  BY <1>1, <1>3, <1>5, <1>6, <1>8 DEF CallOK
<1>11. UNCHANGED names /\ k.pc # "execute"
  BY <1>2, <1>3
<1> QED BY <1>3, <1>4, <1>7, <1>8, <1>9, <1>10, <1>11, CallStep

\* A call that begins with what it read of a stored run.
LEMMA ReadRunStep ==
  ASSUME IInv, NEW c \in Calls, NEW r \in Stored,
         NEW pc \in {"claim", "collect", "evaluate", "cancel", "checkpoint"},
         pc = "claim" => runState[r] = "ready",
         ReadRun(c, r, pc)
  PROVE  IInv'
<1>1. r \in Runs /\ runState[r] \in States \cup {"absent"}
  BY DEF Stored, IInv, TypeOK
<1>2. pc \in Steps
  BY DEF Steps, StartSteps
<1>3. PICK k \in Call :
        /\ k = Local(pc, r, runState[r])
        /\ k.pc = pc /\ k.run = r /\ k.seen = runState[r]
  BY <1>1, <1>2, CallLocal
<1>4. call' = [call EXCEPT ![c] = k]
  BY <1>3 DEF ReadRun
<1>5. CallOK(k) /\ k.pc # "execute"
  BY <1>3 DEF CallOK
<1>6. UNCHANGED <<runState, names, records>>
  BY DEF ReadRun
<1> QED BY <1>4, <1>5, <1>6, LocalStep

(***************************************************************************)
(* The invariant is kept by every step.                                    *)
(***************************************************************************)

LEMMA StartKeeps ==
  ASSUME IInv, NEW c \in Calls, Start(c)
  PROVE  IInv'
<1>1. UNCHANGED <<runState, names, records>>
  BY DEF Start
<1>2. CASE Return(c)
  BY <1>1, <1>2, ReturnStep
<1>3. CASE ~Return(c)
  <2>1. PICK q \in Requests \cup {None}, k \in Keys \cup {None}, force \in BOOLEAN :
          call' = [call EXCEPT ![c] =
            [pc |-> "lookup", run |-> None, seen |-> "absent", force |-> force,
             request |-> q, key |-> k]]
    BY <1>3 DEF Start
  <2>2. PICK rec \in Call :
          rec = [pc |-> "lookup", run |-> None, seen |-> "absent", force |-> force,
                 request |-> q, key |-> k]
    BY DEF Call, Steps, StartSteps
  <2>3. call' = [call EXCEPT ![c] = rec]
    BY <2>1, <2>2
  <2>4. CallOK(rec) /\ rec.pc # "execute"
    BY <2>2 DEF CallOK, Unbound
  <2> QED BY <1>1, <2>3, <2>4, LocalStep
<1> QED BY <1>2, <1>3

LEMMA LookupKeeps ==
  ASSUME IInv, NEW c \in Calls, Lookup(c)
  PROVE  IInv'
<1>1. UNCHANGED <<runState, names, records>>
  BY DEF Lookup
<1>2. CASE Return(c)
  BY <1>1, <1>2, ReturnStep
<1>3. CASE ~Return(c)
  <2>1. "create" \in Steps /\ call[c] \in Call
    BY DEF IInv, TypeOK, Steps, StartSteps
  <2>2. PICK k \in Call : k = [call[c] EXCEPT !.pc = "create"] /\ k.pc = "create"
    BY <2>1, CallAt
  <2>3. call' = [call EXCEPT ![c] = k]
    BY <1>3, <2>2 DEF Lookup, GoTo
  <2>4. CallOK(k) /\ k.pc # "execute"
    BY <2>2 DEF CallOK, Unbound
  <2> QED BY <1>1, <2>3, <2>4, LocalStep
<1> QED BY <1>2, <1>3

\* createRun: the one step that stores a run.  Inside its transaction no other
\* run can take the request_id it has not found.
LEMMA CreateKeeps ==
  ASSUME IInv, NEW c \in Calls, Create(c)
  PROVE  IInv'
<1>1. PICK r \in Runs :
        /\ Proceed(c, r)
        /\ \/ r \in Stored /\ UNCHANGED <<runState, names>>
           \/ /\ r \notin Stored
              /\ Carrying(request, call[c].request) = {}
              /\ runState' = [runState EXCEPT ![r] = "created"]
              /\ request' = [request EXCEPT ![r] = call[c].request]
              /\ key' = [key EXCEPT ![r] = call[c].key]
  BY DEF Create, Carrying, Stored
<1>2. UNCHANGED records
  BY DEF Create
<1>3. PICK k \in Call : k = Local("plan", r, "absent") /\ k.pc = "plan" /\ k.run = r
  <2>1. "plan" \in Steps
    BY DEF Steps, StartSteps
  <2> QED BY <2>1, CallLocal
<1>4. call' = [call EXCEPT ![c] = k]
  BY <1>1, <1>3 DEF Proceed
<1>5. CASE r \in Stored /\ UNCHANGED <<runState, names>>
  <2>1. CallOK(k) /\ k.pc # "execute"
    BY <1>3, <1>5 DEF CallOK
  <2> QED BY <1>2, <1>4, <1>5, <2>1, LocalStep
<1>6. CASE /\ r \notin Stored
           /\ Carrying(request, call[c].request) = {}
           /\ runState' = [runState EXCEPT ![r] = "created"]
           /\ request' = [request EXCEPT ![r] = call[c].request]
           /\ key' = [key EXCEPT ![r] = call[c].key]
  <2>1. \A x \in Runs : /\ runState'[x] = IF x = r THEN "created" ELSE runState[x]
                        /\ request'[x] = IF x = r THEN call[c].request ELSE request[x]
    BY <1>6 DEF IInv, TypeOK
  <2>2. Stored' = Stored \cup {r} /\ runState[r] = "absent"
    BY <1>6, <2>1 DEF Stored
  <2>3. TypeOK'
    <3>1. call[c].request \in Requests \cup {None} /\ call[c].key \in Keys \cup {None}
      BY DEF IInv, TypeOK, Call
    <3> QED BY <1>2, <1>4, <1>6, <3>1, StateNames DEF IInv, TypeOK, records
  <2>4. NeverResumed'
    BY <2>1 DEF NeverResumed, IInv
  <2>5. CallsOK'
    <3> SUFFICES ASSUME NEW d \in Calls PROVE CallOK(call[d])'
      BY DEF CallsOK
    <3>1. CASE d = c
      <4>1. call'[d] = k
        BY <1>4, <3>1 DEF IInv, TypeOK
      <4> QED BY <1>3, <2>2, <4>1 DEF CallOK
    <3>2. CASE d # c
      <4>1. call'[d] = call[d] /\ CallOK(call[d])
        BY <1>4, <3>2 DEF IInv, TypeOK, CallsOK
      <4>2. call[d].pc \notin Unbound => call[d].run \in Stored /\ call[d].run # r
        BY <1>6, <4>1 DEF CallOK
      <4>3. call[d].pc = "execute" => runState'[call[d].run] = runState[call[d].run]
        BY <2>1, <4>2 DEF Unbound, Stored
      <4> QED BY <1>2, <2>2, <4>1, <4>2, <4>3 DEF CallOK, records
    <3> QED BY <3>1, <3>2
  <2>6. SingleExecutor'
    <3>1. \A x \in Runs : Executing(x)' \subseteq Executing(x)
      BY <1>3, <1>4 DEF Executing, At, IInv, TypeOK
    <3> QED BY <3>1 DEF IInv, SingleExecutor
  <2>7. OneRunPerRequest'
    <3> SUFFICES ASSUME NEW x \in Stored', NEW y \in Stored',
                        request'[x] = request'[y], request'[x] # None
                 PROVE  x = y
      BY DEF OneRunPerRequest
    <3>1. \A z \in Stored : call[c].request # None => request[z] # call[c].request
      BY <1>6 DEF Carrying
    <3>2. x \in Runs /\ y \in Runs
      BY DEF Stored
    <3> QED BY <2>1, <2>2, <3>1, <3>2 DEF IInv, OneRunPerRequest
  <2> QED BY <2>3, <2>4, <2>5, <2>6, <2>7 DEF IInv
<1> QED BY <1>1, <1>5, <1>6

\* The gates pass: the outcome is recorded, the run is about to complete.
LEMMA GateKeeps ==
  ASSUME IInv, NEW c \in Calls, Gate(c)
  PROVE  IInv'
<1> DEFINE r == call[c].run
<1>1. call[c].pc = "gate" /\ call[c].pc \notin Unbound
  BY DEF Gate, At, Unbound
<1>2. CASE GoTo(c, "evaluate") /\ UNCHANGED <<runState, names, records>>
  BY <1>1, <1>2, GoToStep
<1>3. CASE RecordFailure(c, "gate_failed", "reject")
  BY <1>1, <1>3, FailureStep DEF Codes
<1>4. CASE /\ outcome' = [outcome EXCEPT ![r] = "accepted"]
           /\ GoTo(c, "complete")
           /\ UNCHANGED <<runState, names, failure>>
  <2>1. r \in Stored /\ r \in Runs
    BY <1>1 DEF IInv, CallsOK, CallOK, Stored
  <2>2. "complete" \in Steps /\ call[c] \in Call
    BY DEF IInv, TypeOK, Steps
  <2>3. PICK k \in Call : k = [call[c] EXCEPT !.pc = "complete"] /\ k.pc = "complete" /\ k.run = r
    BY <2>2, CallAt
  <2>4. call' = [call EXCEPT ![c] = k]
    BY <1>4, <2>3 DEF GoTo
  <2>5. \A x \in Runs : outcome'[x] = IF x = r THEN "accepted" ELSE outcome[x]
    BY <1>4 DEF IInv, TypeOK
  <2>6. /\ runState' \in [Runs -> States \cup {"absent"}]
        /\ outcome' \in [Runs -> {"none", "accepted"}]
        /\ failure' \in [Runs -> Codes \cup {"none"}]
    BY <1>4 DEF IInv, TypeOK
  <2>7. Stored' = Stored /\ NeverResumed'
    BY <1>4 DEF Stored, NeverResumed, IInv
  <2>8. Grows
    BY <1>4, <2>5 DEF Grows, Stored
  <2>9. CallOK(k)'
    BY <2>1, <2>3, <2>5, <2>7 DEF CallOK
  <2> QED BY <1>4, <2>3, <2>4, <2>6, <2>7, <2>8, <2>9, CallStep
<1> QED BY <1>2, <1>3, <1>4 DEF Gate

LEMMA StartStepKeeps ==
  ASSUME IInv, NEW c \in Calls, StartStep(c)
  PROVE  IInv'
<1>1. CASE Start(c)
  BY <1>1, StartKeeps
<1>2. CASE Lookup(c)
  BY <1>2, LookupKeeps
<1>3. CASE Create(c)
  BY <1>3, CreateKeeps
<1>4. CASE Plan(c)
  <2>1. call[c].pc \notin Unbound
    BY <1>4 DEF Plan, At, Unbound
  <2>2. CASE Transition(c, "created", "planning", "prepare")
    BY <2>1, <2>2, MoveStep, StateNames DEF Early
  <2>3. CASE GoTo(c, "fault") /\ UNCHANGED <<runState, names, records>>
    BY <2>1, <2>3, GoToStep
  <2> QED BY <1>4, <2>2, <2>3 DEF Plan, TransitionOrFault
<1>5. CASE Prepare(c)
  <2>1. call[c].pc \notin Unbound
    BY <1>5 DEF Prepare, At, Unbound
  <2>2. PICK pc \in {"ready", "fault"} : GoTo(c, pc)
    BY <1>5 DEF Prepare
  <2> QED BY <1>5, <2>1, <2>2, GoToStep DEF Prepare
<1>6. CASE Ready(c)
  <2>1. call[c].pc \notin Unbound
    BY <1>6 DEF Ready, At, Unbound
  <2>2. CASE Transition(c, "planning", "ready", "done")
    BY <2>1, <2>2, MoveStep, StateNames DEF Early
  <2>3. CASE GoTo(c, "fault") /\ UNCHANGED <<runState, names, records>>
    BY <2>1, <2>3, GoToStep
  <2> QED BY <1>6, <2>2, <2>3 DEF Ready, TransitionOrFault
<1>7. CASE Fault(c)
  <2>1. call[c].pc \notin Unbound /\ "startup_failed" \in Codes
    BY <1>7 DEF Fault, At, Unbound, Codes
  <2> QED BY <1>7, <2>1, FailureStep DEF Fault
<1>8. CASE GiveUp(c)
  <2>1. call[c].pc \notin Unbound
    BY <1>8 DEF GiveUp, At, Unbound
  <2> QED BY <1>8, <2>1, MoveOrThrowStep, StateNames DEF GiveUp
<1> QED BY <1>1, <1>2, <1>3, <1>4, <1>5, <1>6, <1>7, <1>8 DEF StartStep

LEMMA AdvanceStepKeeps ==
  ASSUME IInv, NEW c \in Calls, AdvanceStep(c)
  PROVE  IInv'
<1>1. CASE Advance(c)
  <2>1. PICK r \in Stored :
          /\ runState[r] \in {"ready", "running", "resuming", "correcting"}
          /\ Allowed(runState[r], "running")
          /\ ReadRun(c, r, "claim")
    BY <1>1 DEF Advance
  <2>2. runState[r] \notin {"resuming", "correcting"}
    BY DEF IInv, NeverResumed, Stored
  <2>3. ~Allowed("running", "running")
    BY DEF Allowed, Lifecycle!Allowed, Lifecycle!Follow, Lifecycle!States, Lifecycle!Waits,
           Lifecycle!Terminal
  <2>4. runState[r] = "ready"
    BY <2>1, <2>2, <2>3
  <2> QED BY <2>1, <2>4, ReadRunStep
<1>2. CASE Claim(c)
  <2>1. call[c].pc \notin Unbound /\ call[c].seen = "ready"
    BY <1>2 DEF Claim, At, Unbound, IInv, CallsOK, CallOK
  <2> QED BY <1>2, <2>1, MoveOrThrowStep, StateNames DEF Claim
<1>3. CASE Execute(c)
  <2>1. call[c].pc \notin Unbound /\ "attempt_failed" \in Codes
    BY <1>3 DEF Execute, At, Unbound, Codes
  <2>2. CASE TransitionOrThrow(c, "running", "collecting", "collect")
    BY <2>1, <2>2, MoveOrThrowStep, StateNames
  <2>3. CASE TransitionOrThrow(c, "running", "waiting_for_supervisor", "done")
    BY <2>1, <2>3, MoveOrThrowStep, StateNames
  <2>4. CASE RecordFailure(c, "attempt_failed", "attemptFailed")
    BY <2>1, <2>4, FailureStep
  <2> QED BY <1>3, <2>2, <2>3, <2>4 DEF Execute
<1>4. CASE AttemptFailed(c)
  <2>1. call[c].pc \notin Unbound
    BY <1>4 DEF AttemptFailed, At, Unbound
  <2> QED BY <1>4, <2>1, MoveOrThrowStep, StateNames DEF AttemptFailed
<1>5. CASE Collect(c)
  <2>1. call[c].pc \notin Unbound
    BY <1>5 DEF Collect, At, Unbound
  <2> QED BY <1>5, <2>1, MoveOrThrowStep, StateNames DEF Collect
<1> QED BY <1>1, <1>2, <1>3, <1>4, <1>5 DEF AdvanceStep

\* The repair's failure is recorded after the run began to wait for it.
LEMMA RepairKeeps ==
  ASSUME IInv, NEW c \in Calls, Repair(c)
  PROVE  IInv'
<1> DEFINE r == call[c].run
<1>1. r \in Runs
  BY DEF Repair, At, IInv, CallsOK, CallOK, Unbound, Stored
<1>2. call' = [call EXCEPT ![c] = Done] /\ UNCHANGED <<runState, names, outcome>>
  BY DEF Repair, Return
<1>3. \A x \in Runs : failure'[x] = IF x = r THEN "repair_required" ELSE failure[x]
  BY DEF Repair, IInv, TypeOK
<1>4. /\ runState' \in [Runs -> States \cup {"absent"}]
      /\ outcome' \in [Runs -> {"none", "accepted"}]
      /\ failure' \in [Runs -> Codes \cup {"none"}]
  BY <1>2 DEF Repair, IInv, TypeOK, Codes
<1>5. Stored' = Stored /\ NeverResumed'
  BY <1>2 DEF Stored, NeverResumed, IInv
<1>6. Grows
  BY <1>2, <1>3 DEF Grows, Stored
<1>7. CallOK(Done)' /\ Done.pc # "execute"
  BY CallDone DEF CallOK, Unbound
<1> QED BY <1>2, <1>4, <1>5, <1>6, <1>7, CallDone, CallStep

LEMMA EvaluateStepKeeps ==
  ASSUME IInv, NEW c \in Calls, EvaluateStep(c)
  PROVE  IInv'
<1>1. CASE Evaluate(c)
  <2>1. call[c].pc \notin Unbound /\ "rejected" \in Codes
    BY <1>1 DEF Evaluate, At, Unbound, Codes
  <2>2. CASE GoTo(c, "gate") /\ UNCHANGED <<runState, names, records>>
    BY <2>1, <2>2, GoToStep
  <2>3. CASE TransitionOrThrow(c, "evaluating", "waiting_for_repair", "repair")
    BY <2>1, <2>3, MoveOrThrowStep, StateNames
  <2>4. CASE TransitionOrThrow(c, "evaluating", "waiting_for_review", "done")
    BY <2>1, <2>4, MoveOrThrowStep, StateNames
  <2>5. CASE TransitionOrThrow(c, "evaluating", "waiting_for_supervisor", "done")
    BY <2>1, <2>5, MoveOrThrowStep, StateNames
  <2>6. CASE RecordFailure(c, "rejected", "reject")
    BY <2>1, <2>6, FailureStep
  <2> QED BY <1>1, <2>2, <2>3, <2>4, <2>5, <2>6 DEF Evaluate
<1>2. CASE Repair(c)
  BY <1>2, RepairKeeps
<1>3. CASE Gate(c)
  BY <1>3, GateKeeps
<1>4. CASE Reject(c)
  <2>1. call[c].pc \notin Unbound
    BY <1>4 DEF Reject, At, Unbound
  <2> QED BY <1>4, <2>1, MoveOrThrowStep, StateNames DEF Reject
<1>5. CASE Complete(c)
  <2>1. call[c].pc \notin Unbound
    BY <1>5 DEF Complete, At, Unbound
  <2> QED BY <1>5, <2>1, MoveOrThrowStep, StateNames DEF Complete
<1>6. CASE ServiceThrows(c)
  BY <1>6, ReturnStep DEF ServiceThrows
<1> QED BY <1>1, <1>2, <1>3, <1>4, <1>5, <1>6 DEF EvaluateStep

LEMMA ControlStepKeeps ==
  ASSUME IInv, NEW c \in Calls, ControlStep(c)
  PROVE  IInv'
<1>1. CASE EvaluateRun(c)
  BY <1>1, ReadRunStep DEF EvaluateRun
<1>2. CASE Cancel(c)
  BY <1>2, ReadRunStep DEF Cancel
<1>3. CASE Checkpoint(c)
  BY <1>3, ReadRunStep DEF Checkpoint
<1>4. CASE CancelSeen(c)
  <2>1. call[c].pc \notin Unbound
    BY <1>4 DEF CancelSeen, At, Unbound
  <2> QED BY <1>4, <2>1, MoveOrThrowStep, StateNames DEF CancelSeen
<1>5. CASE CheckpointSeen(c)
  <2>1. call[c].pc \notin Unbound
    BY <1>5 DEF CheckpointSeen, At, Unbound
  <2> QED BY <1>5, <2>1, MoveOrThrowStep, StateNames DEF CheckpointSeen
<1> QED BY <1>1, <1>2, <1>3, <1>4, <1>5 DEF ControlStep

\* A crash only takes calls away.
LEMMA CrashKeeps ==
  ASSUME IInv, Crash
  PROVE  IInv'
<1>1. UNCHANGED <<runState, request, key, outcome, failure>>
  BY DEF Crash, names, records
<1>2. \A c \in Calls : call'[c] \in {Idle, Done}
  BY DEF Crash
<1>3. Idle \in Call /\ Idle.pc = "idle"
  BY DEF Idle, Local, Call
<1>4. TypeOK'
  BY <1>1, <1>3, CallDone DEF Crash, IInv, TypeOK
<1>5. NeverResumed' /\ OneRunPerRequest'
  BY <1>1 DEF IInv, NeverResumed, OneRunPerRequest, Stored
<1>6. CallsOK'
  BY <1>2, <1>3, CallDone DEF CallsOK, CallOK, Unbound
<1>7. SingleExecutor'
  BY <1>2, <1>3, CallDone DEF SingleExecutor, Executing, At
<1> QED BY <1>4, <1>5, <1>6, <1>7 DEF IInv

LEMMA Inductive ==
  ASSUME IInv, [Next]_vars
  PROVE  IInv'
<1>1. CASE Crash
  BY <1>1, CrashKeeps
<1>2. ASSUME NEW c \in Calls,
             StartStep(c) \/ AdvanceStep(c) \/ EvaluateStep(c) \/ ControlStep(c)
      PROVE  IInv'
  BY <1>2, StartStepKeeps, AdvanceStepKeeps, EvaluateStepKeeps, ControlStepKeeps
<1>3. CASE UNCHANGED vars
  BY <1>3 DEF vars, IInv, TypeOK, NeverResumed, CallsOK, CallOK, SingleExecutor, Executing, At,
              OneRunPerRequest, Stored
<1> QED BY <1>1, <1>2, <1>3 DEF Next

LEMMA Initial == Init => IInv
<1> SUFFICES ASSUME Init PROVE IInv
  OBVIOUS
<1>1. Idle \in Call /\ Idle.pc = "idle"
  BY DEF Idle, Local, Call
<1>2. Stored = {}
  BY DEF Init, Stored
<1> QED BY <1>1, <1>2 DEF Init, IInv, TypeOK, NeverResumed, CallsOK, CallOK, Unbound,
                          SingleExecutor, Executing, At, OneRunPerRequest

THEOREM Invariance == Spec => []IInv
BY Initial, Inductive, PTL DEF Spec

\* The store and the calls hold values of their types.
THEOREM TypeCorrect == Spec => []TypeOK
<1>1. IInv => TypeOK
  BY DEF IInv
<1> QED BY Invariance, <1>1, PTL

\* No two advanceRun calls execute the same run at the same time.
THEOREM OneExecutor == Spec => []SingleExecutor
<1>1. IInv => SingleExecutor
  BY DEF IInv
<1> QED BY Invariance, <1>1, PTL

\* A request_id names one run.
THEOREM RequestNamesOneRun == Spec => []OneRunPerRequest
<1>1. IInv => OneRunPerRequest
  BY DEF IInv
<1> QED BY Invariance, <1>1, PTL

(***************************************************************************)
(* The refinement: every step of a call is a step of the lifecycle, or     *)
(* changes nothing the lifecycle speaks of.                                *)
(***************************************************************************)

\* A transition moves its run along the table, with the record it needs.
LEMMA MoveMaps ==
  ASSUME IInv, NEW c \in Calls, NEW from, NEW to \in States, NEW then,
         call[c].pc \notin Unbound,
         Transition(c, from, to, then),
         to = "completed" => outcome[call[c].run] = "accepted",
         to = "failed" => failure[call[c].run] # "none"
  PROVE  Lifecycle!Next
<1> DEFINE r == call[c].run
<1>1. r \in Runs
  BY DEF IInv, CallsOK, CallOK, Stored
<1>2. /\ Lifecycle!Allowed(runState[r], to)
      /\ runState' = [runState EXCEPT ![r] = to]
      /\ UNCHANGED <<outcome, failure>>
  BY DEF Transition, Succeeds, Allowed, records
<1>3. Lifecycle!Move(r, to)
  BY <1>1, <1>2 DEF Lifecycle!Move
<1>4. to \in Lifecycle!States
  BY DEF States
<1> QED BY <1>1, <1>3, <1>4 DEF Lifecycle!Next

LEMMA StutterMaps ==
  ASSUME UNCHANGED <<runState, records>>
  PROVE  UNCHANGED Lifecycle!vars
BY DEF records, Lifecycle!vars

LEMMA MoveOrThrowMaps ==
  ASSUME IInv, NEW c \in Calls, NEW from, NEW to \in States, NEW then,
         call[c].pc \notin Unbound,
         TransitionOrThrow(c, from, to, then),
         to = "completed" => outcome[call[c].run] = "accepted",
         to = "failed" => failure[call[c].run] # "none"
  PROVE  [Lifecycle!Next]_(Lifecycle!vars)
<1>1. CASE Transition(c, from, to, then)
  BY <1>1, MoveMaps
<1>2. CASE ~Transition(c, from, to, then)
  BY <1>2, StutterMaps DEF TransitionOrThrow
<1> QED BY <1>1, <1>2

\* updateRun with a failure puts the run among those that have one.
LEMMA FailureMaps ==
  ASSUME IInv, NEW c \in Calls, NEW code \in Codes,
         call[c].pc \notin Unbound,
         failure' = [failure EXCEPT ![call[c].run] = code],
         UNCHANGED <<runState, outcome>>
  PROVE  Lifecycle!Next
<1>0. PICK r \in Stored : r = call[c].run
  BY DEF IInv, CallsOK, CallOK
<1>1. r \in Runs /\ runState[r] # "absent" /\ code # "none"
  BY DEF Stored, Codes
<1>2. \A x \in Runs : failure'[x] = IF x = r THEN code ELSE failure[x]
  BY <1>0 DEF IInv, TypeOK
<1>3. {x \in Runs : failure'[x] # "none"} = {x \in Runs : failure[x] # "none"} \cup {r}
  BY <1>1, <1>2
<1>4. Lifecycle!RecordFailure(r)
  BY <1>1, <1>3 DEF Lifecycle!RecordFailure
<1> QED BY <1>1, <1>4 DEF Lifecycle!Next

LEMMA StartStepMaps ==
  ASSUME IInv, NEW c \in Calls, StartStep(c)
  PROVE  [Lifecycle!Next]_(Lifecycle!vars)
<1>1. CASE Start(c) \/ Lookup(c) \/ Prepare(c)
  BY <1>1, StutterMaps DEF Start, Lookup, Prepare
<1>2. CASE Create(c)
  <2>1. PICK r \in Runs :
          \/ UNCHANGED runState
          \/ r \notin Stored /\ runState' = [runState EXCEPT ![r] = "created"]
    BY <1>2 DEF Create, Carrying, Stored
  <2>2. UNCHANGED records
    BY <1>2 DEF Create
  <2>3. CASE UNCHANGED runState
    BY <2>2, <2>3, StutterMaps
  <2>4. CASE r \notin Stored /\ runState' = [runState EXCEPT ![r] = "created"]
    <3>1. Lifecycle!Create(r)
      BY <2>2, <2>4 DEF Lifecycle!Create, Stored, records
    <3> QED BY <3>1 DEF Lifecycle!Next
  <2> QED BY <2>1, <2>3, <2>4
<1>3. CASE Plan(c)
  <2>1. call[c].pc \notin Unbound
    BY <1>3 DEF Plan, At, Unbound
  <2>2. CASE Transition(c, "created", "planning", "prepare")
    BY <2>1, <2>2, MoveMaps, StateNames
  <2>3. CASE UNCHANGED <<runState, names, records>>
    BY <2>3, StutterMaps
  <2> QED BY <1>3, <2>2, <2>3 DEF Plan, TransitionOrFault
<1>4. CASE Ready(c)
  <2>1. call[c].pc \notin Unbound
    BY <1>4 DEF Ready, At, Unbound
  <2>2. CASE Transition(c, "planning", "ready", "done")
    BY <2>1, <2>2, MoveMaps, StateNames
  <2>3. CASE UNCHANGED <<runState, names, records>>
    BY <2>3, StutterMaps
  <2> QED BY <1>4, <2>2, <2>3 DEF Ready, TransitionOrFault
<1>5. CASE Fault(c)
  BY <1>5, FailureMaps DEF Fault, At, Unbound, Codes, RecordFailure
<1>6. CASE GiveUp(c)
  <2>1. call[c].pc \notin Unbound /\ failure[call[c].run] # "none"
    BY <1>6 DEF GiveUp, At, Unbound, IInv, CallsOK, CallOK
  <2> QED BY <1>6, <2>1, MoveOrThrowMaps, StateNames DEF GiveUp
<1> QED BY <1>1, <1>2, <1>3, <1>4, <1>5, <1>6 DEF StartStep

LEMMA AdvanceStepMaps ==
  ASSUME IInv, NEW c \in Calls, AdvanceStep(c)
  PROVE  [Lifecycle!Next]_(Lifecycle!vars)
<1>1. CASE Advance(c)
  BY <1>1, StutterMaps DEF Advance, ReadRun
<1>2. CASE Claim(c)
  <2>1. call[c].pc \notin Unbound
    BY <1>2 DEF Claim, At, Unbound
  <2> QED BY <1>2, <2>1, MoveOrThrowMaps, StateNames DEF Claim
<1>3. CASE Execute(c)
  <2>1. call[c].pc \notin Unbound /\ "attempt_failed" \in Codes
    BY <1>3 DEF Execute, At, Unbound, Codes
  <2>2. CASE TransitionOrThrow(c, "running", "collecting", "collect")
    BY <2>1, <2>2, MoveOrThrowMaps, StateNames
  <2>3. CASE TransitionOrThrow(c, "running", "waiting_for_supervisor", "done")
    BY <2>1, <2>3, MoveOrThrowMaps, StateNames
  <2>4. CASE RecordFailure(c, "attempt_failed", "attemptFailed")
    BY <2>1, <2>4, FailureMaps DEF RecordFailure
  <2> QED BY <1>3, <2>2, <2>3, <2>4 DEF Execute
<1>4. CASE AttemptFailed(c)
  <2>1. call[c].pc \notin Unbound /\ failure[call[c].run] # "none"
    BY <1>4 DEF AttemptFailed, At, Unbound, IInv, CallsOK, CallOK
  <2> QED BY <1>4, <2>1, MoveOrThrowMaps, StateNames DEF AttemptFailed
<1>5. CASE Collect(c)
  <2>1. call[c].pc \notin Unbound
    BY <1>5 DEF Collect, At, Unbound
  <2> QED BY <1>5, <2>1, MoveOrThrowMaps, StateNames DEF Collect
<1> QED BY <1>1, <1>2, <1>3, <1>4, <1>5 DEF AdvanceStep

LEMMA GateMaps ==
  ASSUME IInv, NEW c \in Calls, Gate(c)
  PROVE  [Lifecycle!Next]_(Lifecycle!vars)
<1>1. call[c].pc \notin Unbound
  BY DEF Gate, At, Unbound
<1>2. CASE UNCHANGED <<runState, names, records>>
  BY <1>2, StutterMaps
<1>3. CASE RecordFailure(c, "gate_failed", "reject")
  BY <1>1, <1>3, FailureMaps DEF RecordFailure, Codes
<1>4. CASE outcome' = [outcome EXCEPT ![call[c].run] = "accepted"] /\ UNCHANGED <<runState, failure>>
  <2>0. PICK r \in Stored : r = call[c].run
    BY <1>1 DEF IInv, CallsOK, CallOK
  <2>1. r \in Runs /\ runState[r] # "absent"
    BY DEF Stored
  <2>2. \A x \in Runs : outcome'[x] = IF x = r THEN "accepted" ELSE outcome[x]
    BY <1>4, <2>0 DEF IInv, TypeOK
  <2>3. {x \in Runs : outcome'[x] = "accepted"} = {x \in Runs : outcome[x] = "accepted"} \cup {r}
    BY <2>1, <2>2
  <2>4. Lifecycle!RecordAcceptance(r)
    BY <1>4, <2>1, <2>3 DEF Lifecycle!RecordAcceptance
  <2> QED BY <2>1, <2>4 DEF Lifecycle!Next
<1> QED BY <1>2, <1>3, <1>4 DEF Gate

LEMMA EvaluateStepMaps ==
  ASSUME IInv, NEW c \in Calls, EvaluateStep(c)
  PROVE  [Lifecycle!Next]_(Lifecycle!vars)
<1>1. CASE Evaluate(c)
  <2>1. call[c].pc \notin Unbound /\ "rejected" \in Codes
    BY <1>1 DEF Evaluate, At, Unbound, Codes
  <2>2. CASE UNCHANGED <<runState, names, records>>
    BY <2>2, StutterMaps
  <2>3. CASE TransitionOrThrow(c, "evaluating", "waiting_for_repair", "repair")
    BY <2>1, <2>3, MoveOrThrowMaps, StateNames
  <2>4. CASE TransitionOrThrow(c, "evaluating", "waiting_for_review", "done")
    BY <2>1, <2>4, MoveOrThrowMaps, StateNames
  <2>5. CASE TransitionOrThrow(c, "evaluating", "waiting_for_supervisor", "done")
    BY <2>1, <2>5, MoveOrThrowMaps, StateNames
  <2>6. CASE RecordFailure(c, "rejected", "reject")
    BY <2>1, <2>6, FailureMaps DEF RecordFailure
  <2> QED BY <1>1, <2>2, <2>3, <2>4, <2>5, <2>6 DEF Evaluate
<1>2. CASE Repair(c)
  <2>1. call[c].pc \notin Unbound /\ "repair_required" \in Codes
    BY <1>2 DEF Repair, At, Unbound, Codes
  <2> QED BY <1>2, <2>1, FailureMaps DEF Repair
<1>3. CASE Gate(c)
  BY <1>3, GateMaps
<1>4. CASE Reject(c)
  <2>1. call[c].pc \notin Unbound /\ failure[call[c].run] # "none"
    BY <1>4 DEF Reject, At, Unbound, IInv, CallsOK, CallOK
  <2> QED BY <1>4, <2>1, MoveOrThrowMaps, StateNames DEF Reject
<1>5. CASE Complete(c)
  <2>1. call[c].pc \notin Unbound /\ outcome[call[c].run] = "accepted"
    BY <1>5 DEF Complete, At, Unbound, IInv, CallsOK, CallOK
  <2> QED BY <1>5, <2>1, MoveOrThrowMaps, StateNames DEF Complete
<1>6. CASE ServiceThrows(c)
  BY <1>6, StutterMaps DEF ServiceThrows
<1> QED BY <1>1, <1>2, <1>3, <1>4, <1>5, <1>6 DEF EvaluateStep

LEMMA ControlStepMaps ==
  ASSUME IInv, NEW c \in Calls, ControlStep(c)
  PROVE  [Lifecycle!Next]_(Lifecycle!vars)
<1>1. CASE EvaluateRun(c) \/ Cancel(c) \/ Checkpoint(c)
  BY <1>1, StutterMaps DEF EvaluateRun, Cancel, Checkpoint, ReadRun
<1>2. CASE CancelSeen(c)
  <2>1. call[c].pc \notin Unbound
    BY <1>2 DEF CancelSeen, At, Unbound
  <2> QED BY <1>2, <2>1, MoveOrThrowMaps, StateNames DEF CancelSeen
<1>3. CASE CheckpointSeen(c)
  <2>1. call[c].pc \notin Unbound
    BY <1>3 DEF CheckpointSeen, At, Unbound
  <2> QED BY <1>3, <2>1, MoveOrThrowMaps, StateNames DEF CheckpointSeen
<1> QED BY <1>1, <1>2, <1>3 DEF ControlStep

\* The service implements the lifecycle: the racing calls move a run along the
\* table only, and complete or fail it only with its record.
THEOREM ImplementsLifecycle == Spec => KeepsLifecycle
<1>1. Init => Lifecycle!Init
  BY DEF Init, Lifecycle!Init
<1>2. ASSUME IInv, [Next]_vars
      PROVE  [Lifecycle!Next]_(Lifecycle!vars)
  <2>1. ASSUME NEW c \in Calls,
               StartStep(c) \/ AdvanceStep(c) \/ EvaluateStep(c) \/ ControlStep(c)
        PROVE  [Lifecycle!Next]_(Lifecycle!vars)
    BY <1>2, <2>1, StartStepMaps, AdvanceStepMaps, EvaluateStepMaps, ControlStepMaps
  <2>2. CASE Crash \/ UNCHANGED vars
    BY <2>2, StutterMaps DEF Crash, vars, names, records
  <2> QED BY <1>2, <2>1, <2>2 DEF Next
<1> QED BY <1>1, <1>2, Invariance, PTL DEF Spec, KeepsLifecycle, Lifecycle!Spec

=============================================================================
