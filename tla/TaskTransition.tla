--------------------------- MODULE TaskTransition ---------------------------
(***************************************************************************)
(* The canonical task transition kernel of backend/src/task-state/: the    *)
(* transition matrix, and transitionTask, one store.mutate that checks the *)
(* idempotency key and the expected statuses, resolves the event against   *)
(* the matrix, changes the task and appends one event record.  Its callers *)
(* read a task, build a command from what they read and call later, so a   *)
(* command may be stale; they may also send one again.  The older          *)
(* updateTask of task-lifecycle.mjs writes the same field directly.        *)
(*                                                                         *)
(* Not here: the third writer, mutateFinalTaskState of the finalization    *)
(* (task-finalization-effects.mjs:183), which has no guard against leaving *)
(* a terminal status and writes no event record, and the statuses that     *)
(* only updateTask gives, such as materializing_worktree.  What is said    *)
(* here of a task holds until its finalization writes it.                  *)
(***************************************************************************)
EXTENDS Naturals, Sequences

CONSTANTS
  Tasks,      \* task ids
  Callers,    \* the concurrent callers of transitionTask
  Keys,       \* idempotency keys
  NoCall,     \* a caller that has no command under way
  NoStatus,   \* no canonical_status in the payload
  Canonicals, \* the canonical_status values that callers send
  LegacyTasks, \* the tasks that updateTask is used on beside the kernel
  MaxEvents   \* bound of the check: how many event records are written

TerminalStatuses == {"completed", "failed", "timed_out", "blocked", "cancelled"}

ReviewStates ==
  {"waiting_for_human_review", "waiting_for_missing_evidence_repair",
   "waiting_for_integration_recovery", "waiting_for_result_contract_repair",
   "waiting_for_noop_evidence", "waiting_for_manual_terminal_decision",
   "human_interrupted_for_repair_budget_exhausted", "waiting_for_evidence_missing",
   "waiting_for_policy_uncertain", "waiting_for_integration_uncertain",
   "waiting_for_repair_budget_exhausted", "waiting_for_provider_unavailable",
   "waiting_for_human_required"}

Statuses == TerminalStatuses \cup ReviewStates \cup
  {"draft", "assigned", "queued", "starting", "running", "collecting", "accepting",
   "integrating", "waiting_for_review", "waiting_for_repair", "waiting_for_integration",
   "repairing", "needs_decision", "waiting_for_lock", "waiting_for_supervisor"}

Events ==
  {"execution_claimed", "execution_started", "execution_stop_requested",
   "execution_session_stopped", "execution_evidence_collection_started",
   "execution_evidence_ready", "execution_evidence_failed",
   "canonical_decision_applied", "repair_scheduled", "integration_started",
   "integration_completed", "cancel_requested", "runtime_lost",
   "reconciliation_correction"}

ASSUME TaskTransitionAssumption ==
  /\ NoStatus \notin Statuses
  /\ Canonicals \subseteq Statuses
  /\ LegacyTasks \subseteq Tasks
  /\ MaxEvents \in Nat

-----------------------------------------------------------------------------
(* The transition matrix.                                                  *)

\* Faulty: a stopped session counts as completion; a cancelled task is claimed.
FixedMovesStopCompletes ==
  {[event |-> "execution_started", from |-> {"assigned", "queued", "starting"},
    to |-> "running"],
   [event |-> "execution_session_stopped", from |-> {"running"}, to |-> "completed"]}
FixedMovesReviveCancelled ==
  {[event |-> "cancel_requested", from |-> {"assigned", "queued"}, to |-> "cancelled"],
   [event |-> "execution_claimed", from |-> {"assigned", "queued", "cancelled"},
    to |-> "starting"]}

\* The cells that hold a constant.
FixedMoves ==
  {[event |-> "execution_claimed", from |-> {"assigned", "queued"}, to |-> "starting"],
   [event |-> "execution_started", from |-> {"assigned", "queued", "starting"},
    to |-> "running"],
   [event |-> "execution_session_stopped", from |-> {"running"}, to |-> "collecting"],
   [event |-> "execution_evidence_collection_started", from |-> {"running"},
    to |-> "collecting"],
   [event |-> "execution_evidence_failed", from |-> {"starting"}, to |-> "failed"],
   [event |-> "runtime_lost", from |-> {"starting", "running"},
    to |-> "waiting_for_repair"],
   [event |-> "repair_scheduled", from |-> ReviewStates \cup {"waiting_for_repair"},
    to |-> "assigned"],
   [event |-> "integration_started", from |-> {"waiting_for_integration"},
    to |-> "integrating"],
   [event |-> "cancel_requested",
    from |-> ReviewStates \cup {"draft", "assigned", "queued", "starting", "running",
                                "waiting_for_repair"},
    to |-> "cancelled"]}

\* The cells that take the payload's canonical_status, with their default.
DefaultMoves ==
  {[event |-> "canonical_decision_applied",
    from |-> {"draft", "assigned", "queued", "starting", "running", "collecting",
              "waiting_for_review"},
    to |-> "waiting_for_review"],
   [event |-> "canonical_decision_applied", from |-> {"accepting"}, to |-> "completed"],
   [event |-> "execution_evidence_ready", from |-> {"collecting"},
    to |-> "waiting_for_review"],
   [event |-> "integration_completed", from |-> {"integrating"}, to |-> "completed"]}
  \cup {[event |-> "canonical_decision_applied", from |-> {s}, to |-> s] :
          s \in ReviewStates \cup {"waiting_for_repair", "waiting_for_integration"}}

\* The statuses that have a row.
RowStatuses == ReviewStates \cup
  {"draft", "assigned", "queued", "starting", "running", "collecting", "accepting",
   "integrating", "waiting_for_review", "waiting_for_repair", "waiting_for_integration"}

OrCanonical(p, default) == IF p.canonical = NoStatus THEN default ELSE p.canonical

\* Faulty: a correction always takes the canonical_status, sent or not.
ResolveUnchecked(s, e, p) ==
  IF e = "reconciliation_correction" THEN {p.canonical} ELSE {}

\* resolveTaskTransition: the next status, or none where the event is refused.
Resolve(s, e, p) ==
  IF e = "reconciliation_correction"
    THEN IF p.canonical # NoStatus THEN {p.canonical}
         ELSE {s} \cap (RowStatuses \cup TerminalStatuses)
    ELSE {m.to : m \in {f \in FixedMoves : f.event = e /\ s \in f.from}}
         \cup {OrCanonical(p, m.to) : m \in {d \in DefaultMoves : d.event = e /\ s \in d.from}}
         \cup {t \in {IF p.repairable THEN "waiting_for_repair" ELSE "failed"} :
                 s = "collecting" /\ e = "execution_evidence_failed"}

-----------------------------------------------------------------------------
VARIABLES
  status,  \* the status of each task
  stamps,  \* which of completed_at, failed_at, cancelled_at each task carries
  log,     \* task_transition_events, oldest first
  idem,    \* task_transition_idempotency: the place in log of a key's event, or 0
  call     \* the command each caller has built and not yet been answered

vars == <<status, stamps, log, idem, call>>

\* The payloads a caller sends with an event: only what the event looks at.
Payloads(e) ==
  [canonical : {NoStatus} \cup {s \in Canonicals :
                  e = "reconciliation_correction" \/ \E d \in DefaultMoves : d.event = e},
   repairable : {FALSE} \cup {e = "execution_evidence_failed"},
   audit : {FALSE} \cup {e = "reconciliation_correction"}]
Records == [task : Tasks, event : Events, previous : Statuses, next : Statuses,
            key : Keys, audit : BOOLEAN]
Commands == [task : Tasks, expected : SUBSET Statuses, key : Keys]
Stamped == {"completed", "failed", "cancelled"}

TypeOK ==
  /\ status \in [Tasks -> Statuses]
  /\ stamps \in [Tasks -> SUBSET Stamped]
  /\ log \in Seq(Records)
  /\ idem \in [Keys -> Nat]
  /\ call \in [Callers -> Commands \cup {NoCall}]

\* Tasks are created in one of three statuses.
Init ==
  /\ status \in [Tasks -> {"draft", "assigned", "queued"}]
  /\ stamps = [t \in Tasks |-> {}]
  /\ log = <<>>
  /\ idem = [k \in Keys |-> 0]
  /\ call = [c \in Callers |-> NoCall]

\* A caller loads the task and fixes the command it will send: either it
\* accepts any status, or the one it has read.
Prepare(c, t, k) ==
  /\ call[c] = NoCall
  /\ \E expected \in {{}, {status[t]}} :
       call' = [call EXCEPT ![c] = [task |-> t, expected |-> expected, key |-> k]]
  /\ UNCHANGED <<status, stamps, log, idem>>

\* Faulty: previous_status is read after the assignment.
ApplyLatePrevious(t, e, next, k, audit) ==
  /\ Len(log) < MaxEvents
  /\ status' = [status EXCEPT ![t] = next]
  /\ stamps' = [stamps EXCEPT ![t] = @ \cup ({next} \cap Stamped)]
  /\ log' = Append(log, [task |-> t, event |-> e, previous |-> next,
                         next |-> next, key |-> k, audit |-> audit])
  /\ idem' = [idem EXCEPT ![k] = Len(log) + 1]

\* Faulty: the timestamps of an earlier terminal status are dropped.
ApplyRestamp(t, e, next, k, audit) ==
  /\ Len(log) < MaxEvents
  /\ status' = [status EXCEPT ![t] = next]
  /\ stamps' = [stamps EXCEPT ![t] = {next} \cap Stamped]
  /\ log' = Append(log, [task |-> t, event |-> e, previous |-> status[t],
                         next |-> next, key |-> k, audit |-> audit])
  /\ idem' = [idem EXCEPT ![k] = Len(log) + 1]

\* The transaction's effect on the state, for a next status that was resolved.
Apply(t, e, next, k, audit) ==
  /\ Len(log) < MaxEvents
  /\ status' = [status EXCEPT ![t] = next]
  /\ stamps' = [stamps EXCEPT ![t] = @ \cup ({next} \cap Stamped)]
  /\ log' = Append(log, [task |-> t, event |-> e, previous |-> status[t],
                         next |-> next, key |-> k, audit |-> audit])
  /\ idem' = [idem EXCEPT ![k] = Len(log) + 1]

\* Faulty: no idempotency check.
TransitionUnkeyed(c, e, p) ==
  /\ call[c] # NoCall
  /\ call[c].expected = {} \/ status[call[c].task] \in call[c].expected
  /\ \E next \in Resolve(status[call[c].task], e, p) :
       Apply(call[c].task, e, next, call[c].key, p.audit)
  /\ call' \in {call, [call EXCEPT ![c] = NoCall]}

\* transitionTask applies the command.  The caller is answered, or it never
\* learns the answer and keeps the command to send it again.
Transition(c, e, p) ==
  /\ call[c] # NoCall
  /\ idem[call[c].key] = 0
  /\ call[c].expected = {} \/ status[call[c].task] \in call[c].expected
  /\ \E next \in Resolve(status[call[c].task], e, p) :
       Apply(call[c].task, e, next, call[c].key, p.audit)
  /\ call' \in {call, [call EXCEPT ![c] = NoCall]}

\* It throws, for a stale expected status or an event the matrix refuses, or
\* it replays the event that the key already has.
Answer(c, e, p) ==
  /\ call[c] # NoCall
  /\ \/ idem[call[c].key] # 0
     \/ call[c].expected # {} /\ status[call[c].task] \notin call[c].expected
     \/ Resolve(status[call[c].task], e, p) = {}
  /\ call' = [call EXCEPT ![c] = NoCall]
  /\ UNCHANGED <<status, stamps, log, idem>>

\* Faulty: no guard against terminal regression.
UpdateTaskUnguarded(t, next) ==
  /\ t \in LegacyTasks
  /\ status' = [status EXCEPT ![t] = next]
  /\ UNCHANGED <<stamps, log, idem, call>>

\* updateTask without a transition_command: the updater assigns the status, one
\* of those that the kernel knows too.
UpdateTask(t, next) ==
  /\ t \in LegacyTasks
  /\ ~(status[t] \in TerminalStatuses /\ next \notin TerminalStatuses)
  /\ status' = [status EXCEPT ![t] = next]
  /\ UNCHANGED <<stamps, log, idem, call>>

Next ==
  \/ \E c \in Callers, t \in Tasks, k \in Keys : Prepare(c, t, k)
  \/ \E c \in Callers, e \in Events : \E p \in Payloads(e) : Transition(c, e, p)
  \/ \E c \in Callers, e \in Events : \E p \in Payloads(e) : Answer(c, e, p)
  \/ \E t \in Tasks, s \in Canonicals : UpdateTask(t, s)

Spec == Init /\ [][Next]_vars

-----------------------------------------------------------------------------
(* Properties.                                                             *)

\* The places in the log of a task's events.
EventsOf(t) == {i \in 1 .. Len(log) : log[i].task = t}

\* The event records of a task that only transitionTask writes are its whole
\* history: each begins in the status where the one before it ended, and the
\* task now has the status where the last one ended.  "Every task transition
\* generates exactly one event record" (task-transition-events.mjs).
HistoryIsWhole ==
  \A t \in Tasks \ LegacyTasks : \A i \in EventsOf(t) :
    \/ /\ \A j \in EventsOf(t) : j <= i
       /\ status[t] = log[i].next
    \/ \E j \in EventsOf(t) :
         /\ i < j /\ log[j].previous = log[i].next
         /\ \A k \in EventsOf(t) : ~(i < k /\ k < j)

\* An idempotency key takes effect at most once, however often and by whichever
\* callers it is sent, and every effect can be found by its key.
OneEffectPerKey ==
  /\ \A i \in 1 .. Len(log) : idem[log[i].key] = i
  /\ \A k \in Keys : idem[k] # 0 => idem[k] \in 1 .. Len(log) /\ log[idem[k]].key = k

\* The terminal timestamps of a task say which terminal statuses it was ever
\* given, also when a correction took it out of them again.
StampsTellHistory ==
  \A t \in Tasks : stamps[t] = {log[i].next : i \in EventsOf(t)} \cap Stamped

\* A task that only transitionTask writes leaves a terminal status, be it for
\* another terminal one, only by an event that the log holds as a
\* reconciliation correction of that task.
TerminalIsCorrected ==
  [][\A t \in Tasks \ LegacyTasks :
       status[t] \in TerminalStatuses /\ status'[t] # status[t] =>
         /\ Len(log') = Len(log) + 1
         /\ log'[Len(log')].task = t
         /\ log'[Len(log')].event = "reconciliation_correction"]_vars

\* Also where updateTask writes statuses directly, a task gets out of the
\* terminal statuses only by a correction that the log holds.  (Of the kernel
\* and updateTask only: the finalization's write has no such guard.)
TerminalReopenedByCorrection ==
  [][\A t \in Tasks :
       status[t] \in TerminalStatuses /\ status'[t] \notin TerminalStatuses =>
         /\ Len(log') = Len(log) + 1
         /\ log'[Len(log')].task = t
         /\ log'[Len(log')].event = "reconciliation_correction"]_vars

\* A task can become completed only by the word of a decision, of collected
\* evidence, of an integration or of a correction: not by an execution event.
CompletionIsDecided ==
  \A i \in 1 .. Len(log) :
    log[i].next = "completed" =>
      log[i].event \in {"canonical_decision_applied", "execution_evidence_ready",
                        "integration_completed", "reconciliation_correction"}
=============================================================================
