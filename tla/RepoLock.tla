------------------------------ MODULE RepoLock ------------------------------
(***************************************************************************)
(* The per-repository execution lock of backend/src/repo-lock-*.mjs: one   *)
(* JSON lock file at one path, and the asynchronous calls that create,     *)
(* read, overwrite and rename it.  Every file operation is an await of the *)
(* code, so it is a step of its own here; calls interleave between them.   *)
(*                                                                         *)
(* A record written to the file keeps the fields the calls decide on:      *)
(*   task, status   the fields of those names                              *)
(*   old            last_heartbeat_at is older than STALL_THRESHOLD_MS     *)
(*   child          child_pid is set                                       *)
(*   dead           the process of pid is gone                             *)
(*   restart        restart_state is set                                   *)
(***************************************************************************)
EXTENDS Naturals, FiniteSets

CONSTANTS
  Tasks,        \* the tasks that compete for the repository
  NoTask,       \* the target of a call that is about no task
  Absent,       \* no file at the lock path
  Torn,         \* a file that is opened for writing and still empty
  Ops,          \* the calls that are made: a subset of AllOps
  Faults,       \* what else happens: a subset of AllFaults
  MaxOverlap    \* how many calls may be in flight at a time

AllOps == {"acquire", "update", "release", "keep", "releaseFor", "force", "cancel", "reconcile"}
AllFaults == {"time", "crash", "crashInCall", "throw"}

Record == [task : Tasks, status : {"held", "released", "stale"},
           old : BOOLEAN, child : BOOLEAN, dead : BOOLEAN, restart : BOOLEAN]

ASSUME RepoLockAssumption ==
  /\ NoTask \notin Tasks
  /\ Absent # Torn /\ Absent \notin Record /\ Torn \notin Record
  /\ Ops \subseteq AllOps
  /\ Faults \subseteq AllFaults
  /\ MaxOverlap \in Nat \ {0}

VARIABLES
  lock,      \* what is at the lock path: absent, torn (empty) or a record
  fds,       \* the calls that have the file now at the path open for writing
  call,      \* the call each caller has in flight
  phase,     \* how far the server's start-up has come
  holds,     \* the tasks whose acquireRepoLock returned acquired and that run
  children,  \* the tasks whose Codex child process is alive
  marker,    \* the restart marker of each task
  status,    \* the status of each task, as far as the lock depends on it
  finishing  \* the holders whose final status is written, the lock still theirs

vars == <<lock, fds, call, phase, holds, children, marker, status, finishing>>
world == <<phase, children, marker, status, finishing>>

(***************************************************************************)
(* A task is "open" while the worker may execute it or executes it (queued,*)
(* assigned, running, waiting for repair or for a lock), in "review" while *)
(* it waits for somebody, "ended" in a terminal status.  A marker is       *)
(* active when its status is pending, scheduled or restarted, verified     *)
(* when this start-up has settled it and not yet saved the task's status,  *)
(* final after that.                                                       *)
(***************************************************************************)
Statuses == {"open", "review", "ended"}
Ended == {t \in Tasks : status[t] = "ended"}

Readable == lock \notin {Absent, Torn}
HeldBy(t) == Readable /\ lock.task = t /\ lock.status = "held"

(***************************************************************************)
(* A task calls from its main flow and, not awaited, from the callback     *)
(* that learns the pid of its child; the start-up reconciler and an        *)
(* operator tool call too.                                                 *)
(***************************************************************************)
Reconciler == <<NoTask, "reconciler">>
Admin == <<NoTask, "admin">>
Callers == (Tasks \X {"main", "spawn"}) \cup {Reconciler, Admin}

Attempts == 3
Idle == [op |-> "none", pc |-> "idle", task |-> NoTask, rec |-> Absent, attempt |-> 0]
Calls == [op : AllOps \cup {"none"},
          pc : {"idle", "create", "fill", "read", "archive", "write", "remove", "settle"},
          task : Tasks \cup {NoTask},
          rec : Record \cup {Absent},
          attempt : 0 .. Attempts - 1]

TypeOK ==
  /\ lock \in Record \cup {Absent, Torn}
  /\ fds \subseteq Callers
  /\ call \in [Callers -> Calls]
  /\ phase \in {"release", "markers", "running"}
  /\ holds \subseteq Tasks
  /\ children \subseteq Tasks
  /\ marker \in [Tasks -> {"none", "active", "verified", "final"}]
  /\ status \in [Tasks -> Statuses]
  /\ finishing \subseteq holds

InFlight == {c \in Callers : call[c].pc # "idle"}

Init ==
  /\ lock = Absent
  /\ fds = {}
  /\ call = [c \in Callers |-> Idle]
  /\ phase = "release"
  /\ holds = {}
  /\ children = {}
  /\ marker = [t \in Tasks |-> "none"]
  /\ status = [t \in Tasks |-> "open"]
  /\ finishing = {}

-----------------------------------------------------------------------------
\* Calls begin, move from one file operation to the next, and return.

Begin(c, op, t, pc) ==
  /\ op \in Ops
  /\ call[c].pc = "idle"
  /\ Cardinality(InFlight) < MaxOverlap
  /\ call' = [call EXCEPT ![c] = [op |-> op, pc |-> pc, task |-> t,
                                  rec |-> Absent, attempt |-> 0]]
  /\ UNCHANGED <<lock, fds>>

Moved(c, pc, rec, n) == [op |-> call[c].op, pc |-> pc, task |-> call[c].task,
                         rec |-> rec, attempt |-> n]
GoTo(c, pc, rec) == call' = [call EXCEPT ![c] = Moved(c, pc, rec, call[c].attempt)]
Return(c) == call' = [call EXCEPT ![c] = Idle]

\* Mutant: a new lock gets a status the other calls do not know.
NewLockActive(t) == [task |-> t, status |-> "active", old |-> FALSE,
                     child |-> FALSE, dead |-> FALSE, restart |-> FALSE]

NewLock(t) == [task |-> t, status |-> "held", old |-> FALSE,
               child |-> FALSE, dead |-> FALSE, restart |-> FALSE]

BeginAcquire(t) ==
  /\ phase = "running"
  /\ t \notin holds /\ status[t] = "open"
  /\ Begin(<<t, "main">>, "acquire", t, "create")
  /\ UNCHANGED <<holds, world>>

\* The child is spawned; its pid is recorded without awaiting the call.
BeginUpdate(t) ==
  /\ t \in holds \ (children \cup finishing)
  /\ Begin(<<t, "spawn">>, "update", t, "read")
  /\ children' = children \cup {t}
  /\ UNCHANGED <<phase, holds, marker, status, finishing>>

\* A task under admin restart writes its restart marker.
ScheduleRestart(t) ==
  /\ "keep" \in Ops
  /\ t \in holds /\ marker[t] # "active"
  /\ marker' = [marker EXCEPT ![t] = "active"]
  /\ UNCHANGED <<lock, fds, call, phase, holds, children, status, finishing>>

\* The finalization writes the final status first, over whatever status stands,
\* and comes to the lock later.
FinalWrite(t) ==
  /\ t \in holds \ (children \cup finishing)
  /\ \E s \in Statuses : status' = [status EXCEPT ![t] = s]
  /\ finishing' = finishing \cup {t}
  /\ UNCHANGED <<lock, fds, call, phase, holds, children, marker>>

\* Mutant: the finalization ends without releasing the lock.
BeginFinalReleaseForgotten(t) ==
  /\ t \in finishing
  /\ holds' = holds \ {t}
  /\ finishing' = finishing \ {t}
  /\ UNCHANGED <<lock, fds, call, phase, children, marker, status>>

\* releaseFinalizationRepoLock: the marker as it is now, and not the status,
\* decides whether the lock is kept for the restart or released.
BeginFinalRelease(t) ==
  /\ t \in finishing
  /\ holds' = holds \ {t}
  /\ finishing' = finishing \ {t}
  /\ Begin(<<t, "main">>, IF marker[t] = "active" THEN "keep" ELSE "release", t, "read")
  /\ UNCHANGED <<phase, children, marker, status>>

(***************************************************************************)
(* The other ways out of an execution release the lock without a look at   *)
(* the marker.  A missing provider fails the task and a supervisor         *)
(* checkpoint lets it wait, both before the release; a task parked for a   *)
(* retry or for review gets its status after it (Settle).                  *)
(***************************************************************************)
BeginReleaseForTask(t) ==
  /\ t \in holds \ (children \cup finishing)
  /\ \E s \in {status[t], "ended"} \cup (IF status[t] = "open" THEN {"review"} ELSE {}) :
       status' = [status EXCEPT ![t] = s]
  /\ Begin(<<t, "main">>, "releaseFor", t, "read")
  /\ holds' = holds \ {t}
  /\ UNCHANGED <<phase, children, marker, finishing>>

\* An exception leaves the execution: the task is marked failed, its lock stays.
ExecutionThrows(t) ==
  /\ "throw" \in Faults
  /\ t \in holds \ children
  /\ holds' = holds \ {t}
  /\ finishing' = finishing \ {t}
  /\ status' = [status EXCEPT ![t] = "ended"]
  /\ UNCHANGED <<lock, fds, call, phase, children, marker>>

(***************************************************************************)
(* Start-up, before the first tick of the worker: release the locks of     *)
(* interrupted tasks whose child is gone, whose status is settled with it, *)
(* then those of terminal tasks, whatever their markers say; mark dead     *)
(* locks stale; settle the restart markers.                                *)
(***************************************************************************)
BeginStartupRelease(t) ==
  /\ phase = "release"
  /\ HeldBy(t)
  /\ \/ /\ status[t] = "open" /\ t \notin children /\ marker[t] # "active"
        /\ \E s \in Statuses : status' = [status EXCEPT ![t] = s]
     \/ /\ status[t] = "ended"
        /\ UNCHANGED status
  /\ Begin(Reconciler, "releaseFor", t, "read")
  /\ UNCHANGED <<phase, holds, children, marker, finishing>>

\* Mutant: locks are reconciled while tasks run, and not only at start-up.
BeginReconcileAnytime ==
  /\ phase' = IF phase = "release" THEN "markers" ELSE phase
  /\ Begin(Reconciler, "reconcile", NoTask, "read")
  /\ UNCHANGED <<holds, children, marker, status, finishing>>

BeginReconcile ==
  /\ phase = "release"
  /\ \A t \in Ended : ~HeldBy(t)
  /\ phase' = "markers"
  /\ Begin(Reconciler, "reconcile", NoTask, "read")
  /\ UNCHANGED <<holds, children, marker, status, finishing>>

\* Mutant: the marker is settled and the lock kept for it is not released.
VerifyMarkerOnly(t) ==
  /\ phase = "markers"
  /\ marker[t] = "active"
  /\ call[Reconciler].pc = "idle"
  /\ marker' = [marker EXCEPT ![t] = "verified"]
  /\ UNCHANGED <<lock, fds, call, phase, holds, children, status, finishing>>

\* The marker file is written first; the release of the lock follows.
VerifyMarker(t) ==
  /\ phase = "markers"
  /\ marker[t] = "active"
  /\ marker' = [marker EXCEPT ![t] = "verified"]
  /\ Begin(Reconciler, "releaseFor", t, "read")
  /\ UNCHANGED <<phase, holds, children, status, finishing>>

Saved == [t \in Tasks |-> IF marker[t] = "verified" THEN "final" ELSE marker[t]]

\* The tasks whose markers were settled were completed, sent to review or, for
\* a pending marker, left as they were; store.save after the last marker makes
\* that last.  Then the worker starts to tick.
StartTicks ==
  /\ phase = "markers"
  /\ call[Reconciler].pc = "idle"
  /\ \A t \in Tasks : marker[t] # "active"
  /\ phase' = "running"
  /\ marker' = Saved
  /\ status' \in {s \in [Tasks -> Statuses] :
                   \A t \in Tasks : s[t] \in {status[t]} \cup
                     (IF marker[t] = "verified" THEN {"review", "ended"} ELSE {})}
  /\ UNCHANGED <<lock, fds, call, holds, children, finishing>>

BeginForceRelease ==
  /\ Begin(Admin, "force", NoTask, "read")
  /\ lock # Absent
  /\ UNCHANGED <<holds, world>>

\* An operator cancels a task: its lock file is deleted and its status written,
\* whether or not an execution of it goes on.
BeginCancel(t) ==
  /\ Begin(Admin, "cancel", t, "read")
  /\ UNCHANGED <<holds, world>>

-----------------------------------------------------------------------------
\* The file operations.

\* Mutant: the lock file is opened without the exclusive flag.
CreateShared(c) ==
  /\ call[c].pc = "create"
  /\ lock' = Torn
  /\ fds' = fds \cup {c}
  /\ GoTo(c, "fill", NewLock(call[c].task))
  /\ UNCHANGED <<holds, world>>

\* writeFile with flag wx: the open creates the file or fails with EEXIST.
Create(c) ==
  /\ call[c].pc = "create"
  /\ \/ /\ lock = Absent
        /\ lock' = Torn
        /\ fds' = {c}
        /\ GoTo(c, "fill", NewLock(call[c].task))
     \/ /\ lock # Absent
        /\ GoTo(c, "read", Absent)
        /\ UNCHANGED <<lock, fds>>
  /\ UNCHANGED <<holds, world>>

\* writeFile with flag w: the open truncates the file, or creates it.
Truncate(c) ==
  /\ call[c].pc = "write"
  /\ lock' = Torn
  /\ fds' = fds \cup {c}
  /\ GoTo(c, "fill", call[c].rec)
  /\ UNCHANGED <<holds, world>>

\* releaseLockForTask of a task that is parked: its status is written next.
Finish(c) ==
  IF call[c].op = "releaseFor" /\ c # Reconciler
  THEN GoTo(c, "settle", Absent) ELSE Return(c)

\* The content arrives in the file that was opened, wherever it is by now.
\* Two writers of one file leave one of the contents or an unreadable mix.
Fill(c) ==
  /\ call[c].pc = "fill"
  /\ lock' \in IF c \notin fds THEN {lock}
               ELSE {call[c].rec} \cup (IF lock = Torn THEN {} ELSE {Torn})
  /\ fds' = fds \ {c}
  /\ holds' = IF call[c].op = "acquire" THEN holds \cup {call[c].task} ELSE holds
  /\ Finish(c)
  /\ UNCHANGED world

\* archiveInactiveLock renames whatever is at the path now; the loop of
\* acquireRepoLock gives up after its last attempt.
Archive(c) ==
  /\ call[c].pc = "archive"
  /\ lock' = Absent
  /\ fds' = {}
  /\ IF lock = Absent \/ call[c].attempt + 1 = Attempts THEN Return(c)
     ELSE call' = [call EXCEPT ![c] = Moved(c, "create", Absent, call[c].attempt + 1)]
  /\ UNCHANGED <<holds, world>>

\* Mutant: the owner process is probed, its Codex child is not.
IsStaleNoChild(rec) ==
  /\ rec.status = "held"
  /\ rec.old \/ rec.dead
  /\ ~(rec.restart /\ marker[rec.task] = "active")

\* Mutant: the restart marker is not looked at.
IsStaleNoMarker(rec) ==
  /\ rec.status = "held"
  /\ rec.old \/ (IF rec.child THEN rec.task \notin children ELSE rec.dead)

\* reconcileRepoLocks: is the record it read stale?
IsStale(rec) ==
  /\ rec.status = "held"
  /\ rec.old \/ (IF rec.child THEN rec.task \notin children ELSE rec.dead)
  /\ ~(rec.restart /\ marker[rec.task] = "active")

\* The records each call may write back after reading rec; none: it returns.
Rewrite(op, t, rec) ==
  CASE op = "acquire" /\ rec.task = t /\ rec.status = "held" ->
         {[rec EXCEPT !.old = FALSE]}
    [] op = "update" /\ rec.task = t /\ rec.status # "released" ->
         {[rec EXCEPT !.old = FALSE, !.child = TRUE]}
    [] op = "release" /\ rec.task = t ->
         {[rec EXCEPT !.old = FALSE, !.status = "released"]}
    [] op = "keep" ->
         {[rec EXCEPT !.old = FALSE, !.status = "held", !.restart = TRUE]}
    [] op = "releaseFor" /\ rec.task = t /\ rec.status # "released" ->
         {[rec EXCEPT !.old = FALSE, !.status = "released", !.restart = FALSE]}
    [] op = "force" ->
         {[rec EXCEPT !.old = FALSE, !.status = "released"]}
    [] op = "reconcile" /\ IsStale(rec) ->
         {[rec EXCEPT !.old = FALSE, !.status = "stale", !.restart = FALSE]}
    [] OTHER -> {}

\* readFile and the decision taken on what it returned, up to the next await.
Read(c) ==
  /\ call[c].pc = "read"
  /\ call[c].op # "cancel"
  /\ LET op == call[c].op
         todo == IF Readable THEN Rewrite(op, call[c].task, lock) ELSE {}
     IN  \/ \E rec \in todo : GoTo(c, "write", rec)
         \/ /\ todo = {}
            /\ IF op = "acquire" /\ Readable /\ lock.status # "held"
               THEN GoTo(c, "archive", Absent) ELSE Finish(c)
  /\ UNCHANGED <<lock, fds, holds, world>>

\* deleteTaskLockFiles: a lock file that names the task is removed.
ReadOwn(c) ==
  /\ call[c].pc = "read"
  /\ call[c].op = "cancel"
  /\ GoTo(c, IF Readable /\ lock.task = call[c].task THEN "remove" ELSE "settle", Absent)
  /\ UNCHANGED <<lock, fds, holds, world>>

Remove(c) ==
  /\ call[c].pc = "remove"
  /\ lock' = Absent
  /\ fds' = {}
  /\ GoTo(c, "settle", Absent)
  /\ UNCHANGED <<holds, world>>

\* updateTask(..., "cancelled") after the clean-up, or the status of a task that
\* is parked; updateTask does not take a task out of a terminal status.
Settle(c) ==
  /\ call[c].pc = "settle"
  /\ LET t == call[c].task
     IN  \E s \in CASE call[c].op = "cancel" -> {"ended"}
                   [] status[t] = "open" -> {"open", "review"}
                   [] OTHER -> {status[t]} :
           status' = [status EXCEPT ![t] = s]
  /\ Return(c)
  /\ UNCHANGED <<lock, fds, phase, holds, children, marker, finishing>>

FileStep(c) ==
  \/ Create(c) \/ Truncate(c) \/ Fill(c) \/ Archive(c) \/ Read(c)
  \/ ReadOwn(c) \/ Remove(c) \/ Settle(c)

-----------------------------------------------------------------------------
\* The environment.

ChildExits(t) ==
  /\ t \in children
  /\ children' = children \ {t}
  /\ UNCHANGED <<lock, fds, call, phase, holds, marker, status, finishing>>

\* STALL_THRESHOLD_MS passes; calls take milliseconds, so none is in flight.
TimePasses ==
  /\ "time" \in Faults
  /\ InFlight = {}
  /\ Readable /\ ~lock.old
  /\ lock' = [lock EXCEPT !.old = TRUE]
  /\ UNCHANGED <<fds, call, holds, world>>

\* The server process ends and is started again; children may outlive it.
Crash ==
  /\ "crash" \in Faults
  /\ InFlight = {} \/ "crashInCall" \in Faults
  /\ call' = [c \in Callers |-> Idle]
  /\ fds' = {}
  /\ phase' = "release"
  /\ holds' = {}
  /\ finishing' = {}
  /\ children' \in SUBSET children
  /\ lock' = IF Readable THEN [lock EXCEPT !.dead = TRUE] ELSE lock
  /\ marker' = Saved
  /\ UNCHANGED status

Startup ==
  \/ \E t \in Tasks : BeginStartupRelease(t) \/ VerifyMarker(t)
  \/ BeginReconcile \/ StartTicks

Next ==
  \/ \E t \in Tasks :
       \/ BeginAcquire(t) \/ BeginUpdate(t) \/ ScheduleRestart(t)
       \/ FinalWrite(t) \/ BeginFinalRelease(t) \/ BeginReleaseForTask(t)
       \/ ExecutionThrows(t) \/ ChildExits(t) \/ BeginCancel(t)
  \/ Startup
  \/ BeginForceRelease
  \/ \E c \in Callers : FileStep(c)
  \/ TimePasses \/ Crash

Spec == Init /\ [][Next]_vars

(***************************************************************************)
(* A restart that was scheduled happens, the start-up sequence runs to its *)
(* end when the process lives long enough, every file operation returns.   *)
(***************************************************************************)
Restart == (\E t \in Tasks : marker[t] = "active") /\ Crash

FairSpec ==
  /\ Spec
  /\ SF_vars(Restart)
  /\ SF_vars(BeginReconcile)
  /\ SF_vars(StartTicks)
  /\ SF_vars(\E t \in Tasks : BeginStartupRelease(t))
  /\ SF_vars(\E t \in Tasks : VerifyMarker(t))
  /\ SF_vars(\E c \in Callers : FileStep(c))

-----------------------------------------------------------------------------
(***************************************************************************)
(* Properties                                                              *)
(***************************************************************************)

\* Mutual exclusion: of the tasks whose acquireRepoLock answered "acquired"
\* and that have not released since, there is at most one.
OneHolder == Cardinality(holds) <= 1

\* Between calls the file agrees with the holder's belief: a task that runs
\* under the lock finds a held record of its own, whatever start-up, a
\* crash or another task's calls did in the meantime.
HolderOwnsFile ==
  InFlight = {} => \A t \in holds : HeldBy(t)

\* A running server holds no lock for a task that has ended, between calls: it
\* is the lock of a finalization that is about to come to it, or it is kept on
\* purpose for a restart that is still due.  (An exception that leaves an
\* execution strands the lock until the next start-up: without that fault.)
EndedTaskHoldsNothing ==
  InFlight = {} /\ phase = "running" =>
    \A t \in Ended : HeldBy(t) => t \in finishing \/ marker[t] = "active"

\* A lock kept for an admin restart survives the restart: while its marker is
\* active, no call but one of the task's own takes it, save for the moment of a
\* write that restores it.  This is about tasks that have not ended: start-up
\* releases the locks of ended tasks and does not look at their markers.
RestartKeepsLock ==
  [][\A t \in Tasks \ Ended :
       HeldBy(t) /\ lock.restart /\ marker[t] = "active" /\ call[<<t, "main">>].pc = "idle"
         => \/ HeldBy(t)'
            \/ /\ lock' = Torn
               /\ \A c \in fds' : call'[c].rec.task = t /\ call'[c].rec.status = "held"]_vars

\* No call takes the repository from under a Codex child that is at work, also
\* when the child has outlived its server: once its pid is in the lock file and
\* while the heartbeat is fresh, the file goes on holding the lock for its task.
\* (A task under admin restart gives it up when its marker is verified.)
OrphanKeepsRepo ==
  [][\A t \in children :
       HeldBy(t) /\ lock.child /\ ~lock.old /\ marker[t] = "none"
         => \/ HeldBy(t)'
            \/ /\ lock' = Torn
               /\ \A c \in fds' : call'[c].rec.task = t /\ call'[c].rec.status = "held"]_vars

\* A lock kept for a restart does not block the repository for ever: the
\* restart happens, start-up settles the marker and the lock is freed.
KeptLockIsFreed ==
  \A t \in Tasks :
    (marker[t] = "active" /\ t \notin holds)
      ~> (marker[t] \in {"verified", "final"} /\ ~HeldBy(t))
=============================================================================
