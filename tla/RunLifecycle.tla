---------------------------- MODULE RunLifecycle ----------------------------
(***************************************************************************)
(* What an ExecutionRun promises to those who read it: a run is created    *)
(* once, its state moves only along the audited table of transitions, no   *)
(* terminal state is left, it is completed only after its acceptance was   *)
(* recorded and failed only after a failure was.  Nothing is said of who   *)
(* moves it: ExecutionRun implements this with racing service calls.       *)
(***************************************************************************)
CONSTANT Runs          \* run ids

VARIABLES
  stage,               \* each run's state, "absent" before it is created
  accepted,            \* the runs whose acceptance is on record
  faulted              \* the runs that have a failure on record

vars == <<stage, accepted, faulted>>

\* The waits an execution or an evaluation may end in.
Waits == {"waiting_for_repair", "waiting_for_review", "waiting_for_supervisor"}

Terminal == {"completed", "failed", "cancelled"}

\* EXECUTION_RUN_STATES.
States ==
  Waits \cup Terminal \cup
  {"created", "planning", "ready", "running", "collecting", "evaluating",
   "checkpointing", "correcting", "resuming", "waiting_for_supervisor_direct",
   "chatgpt_direct", "waiting_for_integration"}

\* The states a state may be followed by; every one but the terminal ones and
\* "ready" and "created" may fail, and every one that is not terminal may be
\* cancelled.
Follow == [s \in States |->
  CASE s = "created"                       -> {"planning"}
    [] s = "planning"                      -> {"ready", "failed"}
    [] s = "ready"                         -> {"running"}
    [] s = "running"                       -> {"collecting", "evaluating", "checkpointing", "failed"} \cup Waits
    [] s = "collecting"                    -> {"evaluating", "waiting_for_repair", "waiting_for_supervisor", "failed"}
    [] s = "evaluating"                    -> {"completed", "waiting_for_integration", "failed"} \cup Waits
    [] s = "waiting_for_repair"            -> {"ready", "running", "failed"}
    [] s = "checkpointing"                 -> {"ready", "running", "correcting", "resuming", "waiting_for_supervisor", "failed"}
    [] s \in {"correcting", "resuming"}    -> {"running", "collecting", "failed"}
    [] s \in {"waiting_for_review", "waiting_for_integration"}
                                           -> {"ready", "running", "completed", "failed"}
    [] s = "waiting_for_supervisor"        -> {"ready", "running", "chatgpt_direct", "waiting_for_supervisor_direct", "failed"}
    [] s = "waiting_for_supervisor_direct" -> {"chatgpt_direct", "ready", "running", "failed"}
    [] s = "chatgpt_direct"                -> {"running", "ready", "failed"}
    [] s \in Terminal                      -> {}]

\* isAllowedTransition, assertAllowedTransition.
Allowed(from, to) ==
  /\ from \in States \ Terminal
  /\ to \in Follow[from] \cup {"cancelled"}

-----------------------------------------------------------------------------
Init ==
  /\ stage = [r \in Runs |-> "absent"]
  /\ accepted = {}
  /\ faulted = {}

Create(r) ==
  /\ stage[r] = "absent"
  /\ stage' = [stage EXCEPT ![r] = "created"]
  /\ UNCHANGED <<accepted, faulted>>

Move(r, to) ==
  /\ Allowed(stage[r], to)
  /\ to = "completed" => r \in accepted
  /\ to = "failed" => r \in faulted
  /\ stage' = [stage EXCEPT ![r] = to]
  /\ UNCHANGED <<accepted, faulted>>

RecordAcceptance(r) ==
  /\ stage[r] # "absent"
  /\ accepted' = accepted \cup {r}
  /\ UNCHANGED <<stage, faulted>>

RecordFailure(r) ==
  /\ stage[r] # "absent"
  /\ faulted' = faulted \cup {r}
  /\ UNCHANGED <<stage, accepted>>

Next == \E r \in Runs :
  \/ Create(r) \/ RecordAcceptance(r) \/ RecordFailure(r)
  \/ \E to \in States : Move(r, to)

Spec == Init /\ [][Next]_vars
=============================================================================
