---------------------------- MODULE ExecutionRun ----------------------------
(***************************************************************************)
(* The ExecutionRun service over its store (execution-core): start,        *)
(* advanceRun, evaluateRun, cancel and checkpointRun, called concurrently  *)
(* on the same runs.  A call reads a clone of its run and awaits: between  *)
(* two steps of a call any other call may move the run.  Writes are        *)
(* transactions of the state store: compareAndSetState moves the state     *)
(* when it is still the expected one, updateRun writes whatever the state  *)
(* is by now.                                                              *)
(*                                                                         *)
(* Left out as data no guard reads: the ids a run collects (plan,          *)
(* workspace, context, attempts, evidence, decision, checkpoints), its     *)
(* supervision record, and pending_effects, which no code consumes.  The   *)
(* in-memory index of a key is any run that carries the key.               *)
(***************************************************************************)
CONSTANTS
  Runs,                \* run ids the store can give out (a bound)
  Calls,               \* service calls, each made once (a bound)
  Requests,            \* request_ids
  Keys,                \* idempotency_keys
  None                 \* no request_id, no key, no run

ASSUME NoneAssumption == None \notin Runs \cup Requests \cup Keys

VARIABLES
  runState,            \* run.state, "absent" before createRun
  request,             \* run.request_id
  key,                 \* run.idempotency_key
  outcome,             \* run.outcome: "none" or "accepted"
  failure,             \* run.failure: its code, or "none"
  call                 \* each call: where it is and what it holds locally

vars == <<runState, request, key, outcome, failure, call>>
names == <<request, key>>
records == <<outcome, failure>>

Lifecycle == INSTANCE RunLifecycle WITH
  stage    <- runState,
  accepted <- {r \in Runs : outcome[r] = "accepted"},
  faulted  <- {r \in Runs : failure[r] # "none"}

States == Lifecycle!States

Allowed(from, to) == Lifecycle!Allowed(from, to)

Codes == {"startup_failed", "attempt_failed", "repair_required", "rejected", "gate_failed"}

StartSteps == {"lookup", "create", "plan", "prepare", "ready", "fault", "giveUp"}

Steps == StartSteps \cup
  {"claim", "execute", "attemptFailed", "collect", "evaluate", "repair", "gate",
   "reject", "complete", "cancel", "checkpoint"}

\* run: the run of the call; seen: the state in the call's clone of it.
Call == [pc : Steps \cup {"idle", "done"}, run : Runs \cup {None},
         seen : States \cup {"absent"}, force : BOOLEAN,
         request : Requests \cup {None}, key : Keys \cup {None}]

\* A call at step pc with a run and what it read of the run's state.
Local(pc, r, state) ==
  [pc |-> pc, run |-> r, seen |-> state, force |-> FALSE, request |-> None, key |-> None]

Idle == Local("idle", None, "absent")

Done == Local("done", None, "absent")

Stored == {r \in Runs : runState[r] # "absent"}

-----------------------------------------------------------------------------
Init ==
  /\ runState = [r \in Runs |-> "absent"]
  /\ request = [r \in Runs |-> None]
  /\ key = [r \in Runs |-> None]
  /\ outcome = [r \in Runs |-> "none"]
  /\ failure = [r \in Runs |-> "none"]
  /\ call = [c \in Calls |-> Idle]

At(c, pc) == call[c].pc = pc

GoTo(c, pc) == call' = [call EXCEPT ![c].pc = pc]

Return(c) == call' = [call EXCEPT ![c] = Done]

\* Mutant: the store sets without comparing.
SucceedsUncompared(c, from, to) == Allowed(from, to)

\* transition(run, from, to): the table is asserted first, then the store
\* compares and sets.  On success the call goes on at then; both errors are
\* thrown to where the call catches them.
Succeeds(c, from, to) == Allowed(from, to) /\ runState[call[c].run] = from

Transition(c, from, to, then) ==
  /\ Succeeds(c, from, to)
  /\ runState' = [runState EXCEPT ![call[c].run] = to]
  /\ IF then = "done" THEN Return(c) ELSE GoTo(c, then)
  /\ UNCHANGED <<names, records>>

\* The same in a call that lets the errors through to its caller.
TransitionOrThrow(c, from, to, then) ==
  \/ Transition(c, from, to, then)
  \/ /\ ~Succeeds(c, from, to)
     /\ Return(c)
     /\ UNCHANGED <<runState, names, records>>

\* updateRun with a failure; the clone it returns has the current state.
RecordFailure(c, code, then) ==
  /\ failure' = [failure EXCEPT ![call[c].run] = code]
  /\ call' = [call EXCEPT ![c] = Local(then, @.run, runState[@.run])]
  /\ UNCHANGED <<runState, names, outcome>>

\* A call that reads r and finds it in a state it goes on from.
ReadRun(c, r, pc) ==
  /\ At(c, "idle")
  /\ call' = [call EXCEPT ![c] = Local(pc, r, runState[r])]
  /\ UNCHANGED <<runState, names, records>>

-----------------------------------------------------------------------------
\* start.

Carrying(field, id) == {r \in Stored : id # None /\ field[r] = id}

\* The look-up by idempotency_key, unless a new run is forced.
Start(c) ==
  /\ At(c, "idle")
  /\ \E q \in Requests \cup {None}, k \in Keys \cup {None}, force \in BOOLEAN :
       IF ~force /\ Carrying(key, k) # {}
       THEN Return(c)
       ELSE call' = [call EXCEPT ![c] =
              [pc |-> "lookup", run |-> None, seen |-> "absent", force |-> force,
               request |-> q, key |-> k]]
  /\ UNCHANGED <<runState, names, records>>

\* The look-up by request_id.
Lookup(c) ==
  /\ At(c, "lookup")
  /\ IF ~call[c].force /\ Carrying(request, call[c].request) # {}
     THEN Return(c) ELSE GoTo(c, "create")
  /\ UNCHANGED <<runState, names, records>>

Proceed(c, r) == call' = [call EXCEPT ![c] = Local("plan", r, "absent")]

\* Mutant: createRun trusts the look-ups that start made before.
CreateUnchecked(c) ==
  /\ At(c, "create")
  /\ \E r \in Runs \ Stored :
       /\ runState' = [runState EXCEPT ![r] = "created"]
       /\ request' = [request EXCEPT ![r] = call[c].request]
       /\ key' = [key EXCEPT ![r] = call[c].key]
       /\ Proceed(c, r)
  /\ UNCHANGED records

\* createRun looks the request_id up again inside its transaction, and gives
\* start the run it finds as if it were new.
Create(c) ==
  /\ At(c, "create")
  /\ LET same == Carrying(request, call[c].request)
     IN  \/ \E r \in same :
              /\ Proceed(c, r)
              /\ UNCHANGED <<runState, names>>
         \/ \E r \in Runs \ Stored :
              /\ same = {}
              /\ runState' = [runState EXCEPT ![r] = "created"]
              /\ request' = [request EXCEPT ![r] = call[c].request]
              /\ key' = [key EXCEPT ![r] = call[c].key]
              /\ Proceed(c, r)
  /\ UNCHANGED records

\* A transition of the try block: an error goes to its catch.
TransitionOrFault(c, from, to, then) ==
  \/ Transition(c, from, to, then)
  \/ /\ ~Succeeds(c, from, to)
     /\ GoTo(c, "fault")
     /\ UNCHANGED <<runState, names, records>>

Plan(c) == At(c, "plan") /\ TransitionOrFault(c, "created", "planning", "prepare")

\* planCompiler, workspaceService and contextService; each may throw.
Prepare(c) ==
  /\ At(c, "prepare")
  /\ \E pc \in {"ready", "fault"} : GoTo(c, pc)
  /\ UNCHANGED <<runState, names, records>>

Ready(c) == At(c, "ready") /\ TransitionOrFault(c, "planning", "ready", "done")

\* Mutant: the catch records the error's own code.
FaultUncoded(c) == At(c, "fault") /\ RecordFailure(c, "startup_error", "giveUp")

Fault(c) == At(c, "fault") /\ RecordFailure(c, "startup_failed", "giveUp")

\* The catch fails the run from whatever state it has come to.
GiveUp(c) == At(c, "giveUp") /\ TransitionOrThrow(c, call[c].seen, "failed", "done")

StartStep(c) ==
  Start(c) \/ Lookup(c) \/ Create(c) \/ Plan(c) \/ Prepare(c) \/ Ready(c) \/ Fault(c) \/ GiveUp(c)

-----------------------------------------------------------------------------
\* advanceRun.  A run that is already running is refused by the table.

Advance(c) == \E r \in Stored :
  /\ runState[r] \in {"ready", "running", "resuming", "correcting"}
  /\ Allowed(runState[r], "running")
  /\ ReadRun(c, r, "claim")

\* Mutant: a run already in the target state is returned as it is, before the
\* table is asked.
ClaimRunning(c) ==
  /\ At(c, "claim")
  /\ \/ TransitionOrThrow(c, call[c].seen, "running", "execute")
     \/ /\ runState[call[c].run] = "running"
        /\ GoTo(c, "execute")
        /\ UNCHANGED <<runState, names, records>>

Claim(c) == At(c, "claim") /\ TransitionOrThrow(c, call[c].seen, "running", "execute")

\* The attempt orchestrator's answer: evidence, a need for the supervisor, or
\* a failed attempt.
Execute(c) ==
  /\ At(c, "execute")
  /\ \/ TransitionOrThrow(c, "running", "collecting", "collect")
     \/ TransitionOrThrow(c, "running", "waiting_for_supervisor", "done")
     \/ RecordFailure(c, "attempt_failed", "attemptFailed")

AttemptFailed(c) ==
  At(c, "attemptFailed") /\ TransitionOrThrow(c, call[c].seen, "failed", "done")

Collect(c) == At(c, "collect") /\ TransitionOrThrow(c, "collecting", "evaluating", "evaluate")

\* evaluateRunInternal: the acceptance service's decision.
Evaluate(c) ==
  /\ At(c, "evaluate")
  /\ \/ GoTo(c, "gate") /\ UNCHANGED <<runState, names, records>>
     \/ TransitionOrThrow(c, "evaluating", "waiting_for_repair", "repair")
     \/ TransitionOrThrow(c, "evaluating", "waiting_for_review", "done")
     \/ TransitionOrThrow(c, "evaluating", "waiting_for_supervisor", "done")
     \/ RecordFailure(c, "rejected", "reject")

Repair(c) ==
  /\ At(c, "repair")
  /\ failure' = [failure EXCEPT ![call[c].run] = "repair_required"]
  /\ Return(c)
  /\ UNCHANGED <<runState, names, outcome>>

\* An accepted run still has to pass the canonical decision and the
\* progression effects.  When the canonical decision differs, the acceptance
\* service is asked again.
Gate(c) ==
  /\ At(c, "gate")
  /\ \/ GoTo(c, "evaluate") /\ UNCHANGED <<runState, names, records>>
     \/ RecordFailure(c, "gate_failed", "reject")
     \/ /\ outcome' = [outcome EXCEPT ![call[c].run] = "accepted"]
        /\ GoTo(c, "complete")
        /\ UNCHANGED <<runState, names, failure>>

Reject(c) == At(c, "reject") /\ TransitionOrThrow(c, "evaluating", "failed", "done")

Complete(c) == At(c, "complete") /\ TransitionOrThrow(c, "evaluating", "completed", "done")

\* A provider, the evidence, acceptance or progression service throws, and the
\* call lets it through: the run stays in the state it is in.
ServiceThrows(c) ==
  /\ call[c].pc \in {"execute", "collect", "evaluate", "gate"}
  /\ Return(c)
  /\ UNCHANGED <<runState, names, records>>

AdvanceStep(c) ==
  Advance(c) \/ Claim(c) \/ Execute(c) \/ AttemptFailed(c) \/ Collect(c)

EvaluateStep(c) ==
  Evaluate(c) \/ Repair(c) \/ Gate(c) \/ Reject(c) \/ Complete(c) \/ ServiceThrows(c)

-----------------------------------------------------------------------------
\* evaluateRun takes up a run that was left collecting or evaluating.
EvaluateRun(c) == \E r \in Stored :
  \/ runState[r] = "collecting" /\ ReadRun(c, r, "collect")
  \/ runState[r] = "evaluating" /\ ReadRun(c, r, "evaluate")

Cancel(c) == \E r \in Stored :
  /\ Allowed(runState[r], "cancelled")
  /\ ReadRun(c, r, "cancel")

CancelSeen(c) == At(c, "cancel") /\ TransitionOrThrow(c, call[c].seen, "cancelled", "done")

\* checkpointRun admits four states, of which the table allows one.
Checkpoint(c) == \E r \in Stored :
  /\ runState[r] \in {"running", "evaluating", "waiting_for_repair", "waiting_for_review"}
  /\ Allowed(runState[r], "checkpointing")
  /\ ReadRun(c, r, "checkpoint")

CheckpointSeen(c) ==
  At(c, "checkpoint") /\ TransitionOrThrow(c, call[c].seen, "checkpointing", "done")

ControlStep(c) ==
  EvaluateRun(c) \/ Cancel(c) \/ CancelSeen(c) \/ Checkpoint(c) \/ CheckpointSeen(c)

\* The process ends: calls in flight are lost, the stored runs are not.
Crash ==
  /\ call' = [c \in Calls |-> IF call[c].pc = "idle" THEN Idle ELSE Done]
  /\ UNCHANGED <<runState, names, records>>

Next ==
  \/ \E c \in Calls : StartStep(c) \/ AdvanceStep(c) \/ EvaluateStep(c) \/ ControlStep(c)
  \/ Crash

Spec == Init /\ [][Next]_vars

-----------------------------------------------------------------------------
(***************************************************************************)
(* Properties                                                              *)
(***************************************************************************)

\* The store and the calls hold values of their types.
TypeOK ==
  /\ runState \in [Runs -> States \cup {"absent"}]
  /\ request \in [Runs -> Requests \cup {None}]
  /\ key \in [Runs -> Keys \cup {None}]
  /\ outcome \in [Runs -> {"none", "accepted"}]
  /\ failure \in [Runs -> Codes \cup {"none"}]
  /\ call \in [Calls -> Call]

\* The calls that have a provider working for run r.
Executing(r) == {c \in Calls : At(c, "execute") /\ call[c].run = r}

\* No two advanceRun calls execute the same run at the same time, whatever
\* starts, retries, cancellations, checkpoints and crashes race with them.
SingleExecutor == \A r \in Runs : \A c, d \in Executing(r) : c = d

\* A request_id names one run, however many starts with it race or are forced.
OneRunPerRequest ==
  \A r, s \in Stored : request[r] = request[s] /\ request[r] # None => r = s

\* The racing calls keep what an ExecutionRun promises: moves along the table
\* only, and no completion or failure without its record.
KeepsLifecycle == Lifecycle!Spec
=============================================================================
