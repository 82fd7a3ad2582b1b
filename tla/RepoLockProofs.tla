--------------------------- MODULE RepoLockProofs ---------------------------
(***************************************************************************)
(* The repository lock for any number of tasks.  Types hold always.  That  *)
(* one task at a time holds the lock, and that the file is true to what    *)
(* the holder believes, is proved for calls that do not overlap and when   *)
(* no operator forces the lock open or cancels a task and no exception     *)
(* leaves an execution: each of these breaks one of the claims.            *)
(***************************************************************************)
EXTENDS RepoLock, FiniteSetTheorems, TLAPS

Serial == MaxOverlap = 1 /\ Ops \cap {"force", "cancel"} = {} /\ "throw" \notin Faults

-----------------------------------------------------------------------------
(* Types.                                                                  *)

\* What a call may write back is a record.
LEMMA RewriteTyped ==
  ASSUME NEW op, NEW t, NEW rec \in Record, NEW new \in Rewrite(op, t, rec)
  PROVE  new \in Record
BY DEF Rewrite, Record

\* These calls are about a task.
Targeted ==
  \A c \in Callers :
    \/ call[c].op \in {"acquire", "cancel", "releaseFor"}
    \/ call[c].pc \in {"create", "archive", "remove", "settle"}
    => call[c].task \in Tasks

TypeInv == TypeOK /\ Targeted

LEMMA CallersAre ==
  /\ \A t \in Tasks : <<t, "main">> \in Callers /\ <<t, "spawn">> \in Callers
  /\ Reconciler \in Callers /\ Admin \in Callers
BY DEF Callers, Reconciler, Admin

LEMMA IdleTyped == Idle \in Calls
BY DEF Idle, Calls, Attempts

\* A call that begins, moves on or returns leaves the callers well typed.
LEMMA CallTyped ==
  ASSUME TypeOK, NEW c \in Callers, NEW new \in Calls,
         call' = [call EXCEPT ![c] = new]
  PROVE  call' \in [Callers -> Calls]
BY DEF TypeOK

LEMMA BeginTyped ==
  ASSUME TypeOK, NEW c \in Callers, NEW op, NEW t \in Tasks \cup {NoTask},
         NEW pc \in {"create", "read"}, Begin(c, op, t, pc)
  PROVE  call' \in [Callers -> Calls] /\ lock' = lock /\ fds' = fds
<1>1. op \in AllOps
  BY RepoLockAssumption DEF Begin
<1>2. [op |-> op, pc |-> pc, task |-> t, rec |-> Absent, attempt |-> 0] \in Calls
  BY <1>1 DEF Calls, Attempts
<1>3. QED
  BY <1>2, CallTyped DEF Begin

LEMMA MovedTyped ==
  ASSUME TypeOK, NEW c \in Callers, NEW pc \in {"create", "fill", "read", "archive", "write", "remove", "settle"},
         NEW rec \in Record \cup {Absent}, NEW n \in 0 .. Attempts - 1
  PROVE  Moved(c, pc, rec, n) \in Calls
BY DEF TypeOK, Moved, Calls

LEMMA StatusTyped ==
  ASSUME TypeOK, NEW t \in Tasks, NEW s \in Statuses
  PROVE  [status EXCEPT ![t] = s] \in [Tasks -> Statuses]
BY DEF TypeOK

LEMMA SavedTyped ==
  ASSUME TypeOK
  PROVE  Saved \in [Tasks -> {"none", "active", "verified", "final"}]
BY DEF TypeOK, Saved

\* A call that returns may have a status to write first.
LEMMA FinishTyped ==
  ASSUME TypeOK, NEW c \in Callers, Finish(c)
  PROVE  call' \in [Callers -> Calls]
<1>1. Moved(c, "settle", Absent, call[c].attempt) \in Calls
  BY MovedTyped DEF TypeOK, Calls
<1>2. QED
  BY <1>1, IdleTyped, CallTyped DEF Finish, GoTo, Return

LEMMA TypeStep == TypeInv /\ [Next]_vars => TypeOK'
<1>. SUFFICES ASSUME TypeOK, Targeted, [Next]_vars PROVE TypeOK'
  BY DEF TypeInv
<1>. USE CallersAre, IdleTyped
<1>1. ASSUME NEW t \in Tasks,
             \/ BeginAcquire(t) \/ BeginUpdate(t) \/ ScheduleRestart(t)
             \/ FinalWrite(t) \/ BeginFinalRelease(t) \/ BeginReleaseForTask(t)
             \/ ExecutionThrows(t) \/ ChildExits(t) \/ BeginCancel(t)
      PROVE  TypeOK'
  <2>1. CASE BeginAcquire(t)
    BY <2>1, BeginTyped DEF BeginAcquire, TypeOK, world
  <2>2. CASE BeginUpdate(t)
    BY <2>2, BeginTyped DEF BeginUpdate, TypeOK
  <2>3. CASE ScheduleRestart(t)
    BY <2>3 DEF ScheduleRestart, TypeOK
  <2>4. CASE FinalWrite(t) \/ ExecutionThrows(t)
    BY <2>4, StatusTyped DEF FinalWrite, ExecutionThrows, TypeOK, Statuses
  <2>5. CASE BeginFinalRelease(t) \/ BeginReleaseForTask(t)
    <3>1. call' \in [Callers -> Calls] /\ UNCHANGED <<lock, fds, phase, children, marker>>
      BY <2>5, BeginTyped DEF BeginFinalRelease, BeginReleaseForTask
    <3>2. status' \in [Tasks -> Statuses]
      <4>1. {status[t], "ended", "review"} \subseteq Statuses
        BY DEF TypeOK, Statuses
      <4>2. QED
        BY <2>5, <4>1, StatusTyped DEF BeginFinalRelease, BeginReleaseForTask, TypeOK
    <3>3. holds' \subseteq Tasks /\ finishing' \subseteq holds'
      BY <2>5 DEF BeginFinalRelease, BeginReleaseForTask, TypeOK
    <3>4. QED
      BY <3>1, <3>2, <3>3 DEF TypeOK
  <2>6. CASE ChildExits(t)
    BY <2>6 DEF ChildExits, TypeOK
  <2>7. CASE BeginCancel(t)
    BY <2>7, BeginTyped DEF BeginCancel, TypeOK, world
  <2>8. QED
    BY <1>1, <2>1, <2>2, <2>3, <2>4, <2>5, <2>6, <2>7
<1>2. CASE Startup
  <2>1. ASSUME NEW t \in Tasks, BeginStartupRelease(t) PROVE TypeOK'
    BY <2>1, BeginTyped, StatusTyped DEF BeginStartupRelease, TypeOK
  <2>2. ASSUME NEW t \in Tasks, VerifyMarker(t) PROVE TypeOK'
    BY <2>2, BeginTyped DEF VerifyMarker, TypeOK
  <2>3. CASE BeginReconcile
    BY <2>3, BeginTyped DEF BeginReconcile, TypeOK
  <2>4. CASE StartTicks
    BY <2>4, SavedTyped DEF StartTicks, TypeOK
  <2>5. QED
    BY <1>2, <2>1, <2>2, <2>3, <2>4 DEF Startup
<1>3. CASE BeginForceRelease
  BY <1>3, BeginTyped DEF BeginForceRelease, TypeOK, world
<1>4. ASSUME NEW c \in Callers, FileStep(c) PROVE TypeOK'
  <2>. /\ call[c] \in Calls
       /\ call[c].rec \in Record \cup {Absent}
       /\ call[c].attempt \in 0 .. Attempts - 1
    BY DEF TypeOK, Calls
  <2>1. CASE Create(c)
    <3>1. NewLock(call[c].task) \in Record
      BY <2>1 DEF Create, Targeted, NewLock, Record
    <3>2. QED
      BY <2>1, <3>1, MovedTyped, CallTyped DEF Create, GoTo, TypeOK, world
  <2>2. CASE Truncate(c)
    BY <2>2, MovedTyped, CallTyped DEF Truncate, GoTo, TypeOK, world
  <2>3. CASE Fill(c)
    <3>1. lock' \in Record \cup {Absent, Torn}
      BY <2>3 DEF Fill, TypeOK
    <3>2. holds' \subseteq Tasks
      BY <2>3 DEF Fill, TypeOK, Targeted
    <3>. finishing' \subseteq holds'
      BY <2>3 DEF Fill, TypeOK, world
    <3>3. QED
      BY <2>3, <3>1, <3>2, FinishTyped DEF Fill, TypeOK, world
  <2>4. CASE Archive(c)
    <3>1. call[c].attempt + 1 # Attempts => call[c].attempt + 1 \in 0 .. Attempts - 1
      BY DEF Attempts
    <3>2. QED
      BY <2>4, <3>1, MovedTyped, CallTyped DEF Archive, Return, TypeOK, world
  <2>5. CASE Read(c)
    <3>1. ASSUME Readable, NEW rec \in Rewrite(call[c].op, call[c].task, lock)
          PROVE  Moved(c, "write", rec, call[c].attempt) \in Calls
      BY <3>1, MovedTyped, RewriteTyped DEF TypeOK, Readable
    <3>2. Moved(c, "archive", Absent, call[c].attempt) \in Calls
      BY MovedTyped
    <3>3. (\E new \in Calls : call' = [call EXCEPT ![c] = new]) \/ Finish(c)
      BY <2>5, <3>1, <3>2 DEF Read, GoTo
    <3>4. QED
      BY <2>5, <3>3, CallTyped, FinishTyped DEF Read, TypeOK, world
  <2>6. CASE ReadOwn(c)
    BY <2>6, MovedTyped, CallTyped DEF ReadOwn, GoTo, TypeOK, world
  <2>7. CASE Remove(c)
    BY <2>7, MovedTyped, CallTyped DEF Remove, GoTo, TypeOK, world
  <2>8. CASE Settle(c)
    <3>1. call[c].task \in Tasks /\ status[call[c].task] \in Statuses
      BY <2>8 DEF Settle, TypeOK, Targeted
    <3>2. status' \in [Tasks -> Statuses]
      <4>1. PICK s \in {"ended", "open", "review", status[call[c].task]} :
              status' = [status EXCEPT ![call[c].task] = s]
        BY <2>8 DEF Settle
      <4>2. QED
        BY <3>1, <4>1, StatusTyped DEF Statuses
    <3>3. QED
      BY <2>8, <3>2, CallTyped DEF Settle, Return, TypeOK
  <2>9. QED
    BY <1>4, <2>1, <2>2, <2>3, <2>4, <2>5, <2>6, <2>7, <2>8 DEF FileStep
<1>5. CASE TimePasses
  BY <1>5 DEF TimePasses, TypeOK, world, Record, Readable
<1>6. CASE Crash
  BY <1>6, SavedTyped DEF Crash, TypeOK, Record, Readable
<1>7. CASE UNCHANGED vars
  BY <1>7 DEF vars, TypeOK
<1>8. QED
  BY <1>1, <1>2, <1>3, <1>4, <1>5, <1>6, <1>7 DEF Next

LEMMA TargetStep == TypeInv /\ [Next]_vars => Targeted'
<1>. SUFFICES ASSUME TypeOK, Targeted, [Next]_vars PROVE Targeted'
  BY DEF TypeInv
<1>1. ASSUME NEW c \in Callers, NEW new \in Calls, call' = [call EXCEPT ![c] = new],
             \/ new.op \in {"acquire", "cancel", "releaseFor"}
             \/ new.pc \in {"create", "archive", "remove", "settle"}
             => new.task \in Tasks
      PROVE  Targeted'
  BY <1>1 DEF Targeted, TypeOK
<1>2. ASSUME call' = call PROVE Targeted'
  BY <1>2 DEF Targeted
<1>3. ASSUME NEW c \in Callers, NEW op, NEW t \in Tasks \cup {NoTask}, NEW pc \in {"create", "read"},
             Begin(c, op, t, pc), op \in {"acquire", "cancel", "releaseFor"} \/ pc = "create" => t \in Tasks
      PROVE  Targeted'
  BY <1>3, TypeOK DEF Begin, Targeted, TypeOK
<1>4. ASSUME NEW t \in Tasks,
             \/ BeginAcquire(t) \/ BeginUpdate(t) \/ ScheduleRestart(t)
             \/ FinalWrite(t) \/ BeginFinalRelease(t) \/ BeginReleaseForTask(t)
             \/ ExecutionThrows(t) \/ ChildExits(t)
             \/ BeginCancel(t) \/ BeginStartupRelease(t) \/ VerifyMarker(t)
      PROVE  Targeted'
  BY <1>2, <1>3, <1>4, CallersAre
     DEF BeginAcquire, BeginUpdate, ScheduleRestart, FinalWrite, BeginFinalRelease,
         BeginReleaseForTask, ExecutionThrows, ChildExits, BeginCancel, BeginStartupRelease,
         VerifyMarker
<1>5. CASE Startup \/ BeginForceRelease
  BY <1>2, <1>3, <1>4, <1>5, CallersAre
     DEF Startup, BeginForceRelease, BeginReconcile, StartTicks
<1>6. ASSUME NEW c \in Callers, FileStep(c) PROVE Targeted'
  <2>1. CASE Create(c) \/ Truncate(c) \/ ReadOwn(c) \/ Remove(c)
    BY <1>6, <2>1 DEF Create, Truncate, ReadOwn, Remove, GoTo, Moved, Targeted, TypeOK
  <2>2. CASE Fill(c) \/ Settle(c)
    BY <1>6, <2>2 DEF Fill, Settle, Finish, GoTo, Moved, Return, Idle, Targeted, TypeOK
  <2>3. CASE Archive(c)
    BY <1>6, <2>3 DEF Archive, Return, Idle, Moved, Targeted, TypeOK
  <2>4. CASE Read(c)
    BY <1>6, <2>4 DEF Read, Finish, GoTo, Return, Idle, Moved, Targeted, TypeOK
  <2>5. QED
    BY <1>6, <2>1, <2>2, <2>3, <2>4 DEF FileStep
<1>7. CASE Crash
  BY <1>7 DEF Crash, Idle, Targeted
<1>8. CASE TimePasses \/ UNCHANGED vars
  BY <1>2, <1>8 DEF TimePasses, vars
<1>9. QED
  BY <1>4, <1>5, <1>6, <1>7, <1>8 DEF Next

\* The record at the lock path, the calls and the world keep their types,
\* whatever calls overlap.
THEOREM TypeTheorem == Spec => []TypeOK
<1>1. Init => TypeInv
  BY RepoLockAssumption, IdleTyped DEF Init, TypeInv, TypeOK, Targeted, Idle, Statuses
<1>2. TypeInv /\ [Next]_vars => TypeInv'
  BY TypeStep, TargetStep DEF TypeInv
<1>3. TypeInv => TypeOK
  BY DEF TypeInv
<1>4. QED
  BY <1>1, <1>2, <1>3, PTL DEF Spec

-----------------------------------------------------------------------------
(* Calls that do not overlap.                                              *)

OneCall == \A c, d \in InFlight : c = d

\* The open file is the one at the path, and it is empty until it is filled.
FileFits ==
  /\ fds = {c \in Callers : call[c].pc = "fill"}
  /\ \A c \in Callers : call[c].pc = "fill" => lock = Torn

\* At most one task holds the lock, and only between start-ups; a holder that
\* has ended is being finished, without a child; no child of an ended task is
\* at work but under admin restart.
WorldFits ==
  /\ \A t, u \in holds : t = u
  /\ phase # "running" => holds = {}
  /\ holds \cap Ended \subseteq finishing
  /\ finishing \cap children = {}
  /\ \A t \in Tasks : marker[t] = "verified" => phase = "markers"
  /\ \A t \in Ended : marker[t] = "none" => t \notin children

\* The tasks that nothing is held for any more.
Freed(t) ==
  /\ status[t] = "ended" \/ marker[t] = "verified"
  /\ t \notin finishing /\ marker[t] # "active"

HoldersHeld == \A t \in holds : HeldBy(t)
EndedFree(but) == phase # "release" => \A t \in Tasks \ but : Freed(t) => ~HeldBy(t)

Between == InFlight = {} => HoldersHeld /\ EndedFree({})

\* Who makes which call, and when.
Role(c) ==
  /\ c = Reconciler =>
       phase # "running" /\ call[c].op \in {"releaseFor", "reconcile"}
  /\ c # Reconciler =>
       phase = "running" /\ call[c].op \in {"acquire", "update", "release", "keep", "releaseFor"}
  /\ call[c].pc \in {"create", "archive"} => call[c].op = "acquire"
  /\ call[c].pc = "settle" => call[c].op = "releaseFor" /\ c # Reconciler
  /\ call[c].pc \in {"create", "read", "archive", "write", "fill", "settle"}

\* A release by c of the lock of t that nobody else relies on: its child is gone,
\* or it is under admin restart, has ended, or gives the lock up itself.
Gives(c, t) ==
  /\ holds = {} /\ t \in Tasks
  /\ marker[t] = "none" => t \notin children
  /\ marker[t] = "active" => t \in Ended \/ c = <<t, "main">>

\* What a call relies on at every step of it.
Relies(c) ==
  LET op == call[c].op
      t == call[c].task
  IN  /\ op = "acquire" => t \notin holds \cup Ended
      /\ op = "update" => t \in holds
      /\ op = "keep" => holds = {} /\ t \in Tasks /\ marker[t] = "active"
      /\ op \in {"release", "releaseFor"} => Gives(c, t)
      /\ op = "reconcile" => holds = {}

Releasing(c) == IF call[c].op \in {"release", "releaseFor"} THEN {call[c].task} ELSE {}

\* The record it will write agrees with the holder, and frees what has ended.
Writes(c) ==
  LET rec == call[c].rec
  IN  /\ rec \in Record
      /\ \A t \in holds : rec.task = t /\ rec.status = "held"
      /\ call[c].op = "acquire" => rec.task = call[c].task /\ rec.status = "held"
      /\ rec.status = "held" => ~Freed(rec.task)

\* Whose held lock it may overwrite: to hold it on, to release it for a task
\* that gives it up, or because it is stale.
Overwrites(c) ==
  LET rec == call[c].rec
  IN  /\ Readable
      /\ \/ rec.status = "held" /\ rec.task = lock.task
         \/ Gives(c, lock.task)
         \/ /\ holds = {}
            /\ ~(lock.restart /\ marker[lock.task] = "active")
            /\ lock.old \/ ~lock.child \/ lock.task \notin children

CallFits(c) ==
  /\ Role(c)
  /\ Relies(c)
  /\ call[c].pc # "fill" => HoldersHeld
  /\ call[c].pc \in {"create", "read", "archive"} => EndedFree(Releasing(c))
  /\ call[c].pc = "settle" => EndedFree({})
  /\ call[c].pc = "read" /\ call[c].op = "keep" => HeldBy(call[c].task)
  /\ call[c].pc = "archive" => Readable /\ lock.status # "held"
  /\ call[c].pc \in {"write", "fill"} => Writes(c)
  /\ call[c].pc = "write" => Overwrites(c)

IInv ==
  /\ TypeInv
  /\ OneCall /\ FileFits /\ WorldFits /\ Between
  /\ \A c \in InFlight : CallFits(c)

\* After a step at most one call is in flight, and what holds of it is enough.
LEMMA OneLeft ==
  ASSUME TypeInv', NEW c \in Callers, \A d \in Callers \ {c} : call'[d].pc = "idle",
         WorldFits',
         call'[c].pc = "fill" => lock' = Torn /\ fds' = {c},
         call'[c].pc # "fill" => fds' = {},
         call'[c].pc = "idle" => HoldersHeld' /\ EndedFree({})',
         call'[c].pc # "idle" => CallFits(c)'
  PROVE  IInv'
<1>1. OneCall'
  BY DEF OneCall, InFlight
<1>2. FileFits'
  BY DEF FileFits
<1>3. Between'
  BY DEF Between, InFlight
<1>4. (\A d \in InFlight : CallFits(d))'
  BY DEF InFlight
<1>5. QED
  BY <1>1, <1>2, <1>3, <1>4 DEF IInv

\* A call begins when there is no other.
LEMMA Alone ==
  ASSUME IInv, Serial, Cardinality(InFlight) < MaxOverlap
  PROVE  HoldersHeld /\ EndedFree({}) /\ fds = {} /\ \A d \in Callers : call[d].pc = "idle"
<1>1. InFlight = {}
  <2>1. SUFFICES ASSUME NEW d \in InFlight PROVE FALSE
    OBVIOUS
  <2>2. InFlight = {d}
    BY DEF IInv, OneCall
  <2>3. Cardinality(InFlight) = 1
    BY <2>2, FS_Singleton
  <2>4. QED
    BY <2>3 DEF Serial
<1>2. \A d \in Callers : call[d].pc = "idle"
  BY <1>1 DEF InFlight
<1>3. QED
  BY <1>1, <1>2 DEF IInv, Between, FileFits

\* A step that begins call op about t of caller c brings what the call relies on.
Suits(c, op, t) ==
  /\ c = Reconciler => phase' # "running" /\ op \in {"releaseFor", "reconcile"}
  /\ c # Reconciler =>
       phase' = "running" /\ op \in {"acquire", "update", "release", "keep", "releaseFor"}
  /\ holds' \subseteq holds
  /\ phase = "release" /\ phase' # "release" => \A u \in Ended : ~HeldBy(u)
  /\ \A u \in Tasks : Freed(u)' => Freed(u) \/ (op \in {"release", "releaseFor"} /\ u = t)
  /\ op = "acquire" => t \notin holds' \cup Ended'
  /\ op = "update" => t \in holds'
  /\ op = "keep" => holds' = {} /\ t \in Tasks /\ marker'[t] = "active" /\ HeldBy(t)
  /\ op \in {"release", "releaseFor"} => Gives(c, t)'
  /\ op = "reconcile" => holds' = {}

LEMMA BeginKeeps ==
  ASSUME IInv, Serial, TypeInv', WorldFits',
         NEW c \in Callers, NEW op \in AllOps, NEW t \in Tasks \cup {NoTask}, NEW pc \in {"create", "read"},
         Begin(c, op, t, pc), pc = "create" => op = "acquire", Suits(c, op, t)
  PROVE  IInv'
<1>1. PICK new : new = [op |-> op, pc |-> pc, task |-> t, rec |-> Absent, attempt |-> 0]
  OBVIOUS
<1>2. /\ HoldersHeld /\ EndedFree({}) /\ fds' = {} /\ lock' = lock /\ call'[c] = new
      /\ \A d \in Callers \ {c} : call'[d].pc = "idle"
  BY <1>1, Alone DEF Begin, IInv, TypeInv, TypeOK
<1>3. HoldersHeld'
  BY <1>2 DEF HoldersHeld, HeldBy, Readable, Suits
<1>4. Role(c)' /\ Relies(c)'
  BY <1>1, <1>2 DEF Role, Relies, Suits
<1>5. EndedFree(Releasing(c))'
  <2>1. ASSUME phase' # "release", NEW u \in Tasks, Freed(u)', u \notin Releasing(c)' PROVE ~HeldBy(u)
    <3>1. Freed(u)
      BY <1>1, <1>2, <2>1 DEF Releasing, Suits
    <3>2. CASE phase # "release"
      BY <1>2, <3>1, <3>2 DEF EndedFree
    <3>3. CASE phase = "release"
      <4>1. u \in Ended
        BY <3>1, <3>3 DEF Freed, Ended, IInv, WorldFits
      <4>2. QED
        BY <2>1, <3>3, <4>1 DEF Suits
    <3>4. QED
      BY <3>2, <3>3
  <2>2. QED
    BY <1>2, <2>1 DEF EndedFree, HeldBy, Readable
<1>6. pc = "read" /\ op = "keep" => HeldBy(t)'
  BY <1>2 DEF HeldBy, Readable, Suits
<1>7. CallFits(c)'
  BY <1>1, <1>2, <1>3, <1>4, <1>5, <1>6 DEF CallFits
<1>8. QED
  BY <1>1, <1>2, <1>7, OneLeft

\* The calls of a task.
LEMMA TaskKeeps ==
  ASSUME IInv, Serial, TypeInv', NEW t \in Tasks,
         \/ BeginAcquire(t) \/ BeginUpdate(t)
         \/ BeginFinalRelease(t) \/ BeginReleaseForTask(t)
  PROVE  IInv'
<1>. USE CallersAre DEF AllOps
<1>. <<t, "main">> # Reconciler /\ <<t, "spawn">> # Reconciler
  BY RepoLockAssumption DEF Reconciler
<1>0. /\ holds \subseteq Tasks /\ finishing \subseteq holds
      /\ phase \in {"release", "markers", "running"} /\ status \in [Tasks -> Statuses]
  BY DEF IInv, TypeInv, TypeOK
<1>1. CASE BeginAcquire(t)
  <2>1. PICK c \in Callers : c = <<t, "main">>
    OBVIOUS
  <2>2. Begin(c, "acquire", t, "create")
    BY <1>1, <2>1 DEF BeginAcquire
  <2>3. UNCHANGED <<holds, phase, children, marker, status, finishing>>
    BY <1>1 DEF BeginAcquire, world
  <2>4. WorldFits' /\ \A u \in Tasks : Freed(u)' = Freed(u)
    BY <2>3 DEF IInv, WorldFits, Freed, Ended
  <2>5. t \notin holds' \cup Ended'
    BY <1>1, <2>3 DEF BeginAcquire, Ended
  <2>6. QED
    BY <1>1, <2>1, <2>2, <2>3, <2>4, <2>5, BeginKeeps DEF BeginAcquire, Suits
<1>2. CASE BeginUpdate(t)
  <2>1. PICK c \in Callers : c = <<t, "spawn">>
    OBVIOUS
  <2>2. Begin(c, "update", t, "read")
    BY <1>2, <2>1 DEF BeginUpdate
  <2>3. /\ UNCHANGED <<holds, phase, marker, status, finishing>> /\ children' = children \cup {t}
        /\ t \in holds \ finishing
    BY <1>2 DEF BeginUpdate
  <2>4. t \notin Ended /\ phase = "running"
    BY <2>3 DEF IInv, WorldFits
  <2>5. WorldFits' /\ \A u \in Tasks : Freed(u)' = Freed(u)
    BY <2>3, <2>4 DEF IInv, WorldFits, Freed, Ended
  <2>6. QED
    BY <2>1, <2>2, <2>3, <2>4, <2>5, BeginKeeps DEF Suits
<1>3. CASE BeginFinalRelease(t) \/ BeginReleaseForTask(t)
  <2>1. PICK c \in Callers : c = <<t, "main">>
    OBVIOUS
  <2>2. PICK op \in {"keep", "release", "releaseFor"} :
          /\ Begin(c, op, t, "read")
          /\ op = "keep" => marker[t] = "active"
    BY <1>3, <2>1 DEF BeginFinalRelease, BeginReleaseForTask
  <2>3. /\ UNCHANGED <<phase, children, marker>> /\ holds' = holds \ {t}
        /\ finishing' = finishing \ {t} /\ t \in holds \ children
        /\ \A u \in Tasks \ {t} : status'[u] = status[u]
    BY <1>0, <1>3
       DEF BeginFinalRelease, BeginReleaseForTask, IInv, WorldFits, TypeInv, TypeOK
  <2>4. HoldersHeld
    BY <2>2, Alone DEF Begin
  <2>5. holds' = {} /\ phase = "running" /\ HeldBy(t)
    BY <2>3, <2>4 DEF IInv, WorldFits, HoldersHeld
  <2>6. WorldFits'
    BY <2>3, <2>5 DEF IInv, WorldFits, Ended
  <2>7. ASSUME NEW u \in Tasks, Freed(u)' PROVE Freed(u) \/ (op \in {"release", "releaseFor"} /\ u = t)
    BY <2>2, <2>3, <2>7 DEF Freed
  <2>8. op \in {"release", "releaseFor"} => Gives(c, t)'
    BY <2>1, <2>3, <2>5 DEF Gives
  <2>9. QED
    BY <2>1, <2>2, <2>3, <2>5, <2>6, <2>7, <2>8, BeginKeeps DEF Suits
<1>4. QED
  BY <1>1, <1>2, <1>3

\* The calls of the start-up.
LEMMA StartupKeeps ==
  ASSUME IInv, Serial, TypeInv',
         \/ \E t \in Tasks : BeginStartupRelease(t) \/ VerifyMarker(t)
         \/ BeginReconcile
  PROVE  IInv'
<1>. USE CallersAre DEF AllOps
<1>0. /\ holds \subseteq Tasks /\ finishing \subseteq holds
      /\ phase \in {"release", "markers", "running"} /\ status \in [Tasks -> Statuses]
      /\ marker \in [Tasks -> {"none", "active", "verified", "final"}]
  BY DEF IInv, TypeInv, TypeOK
<1>1. ASSUME NEW t \in Tasks, BeginStartupRelease(t) PROVE IInv'
  <2>1. Begin(Reconciler, "releaseFor", t, "read") /\ phase = "release"
    BY <1>1 DEF BeginStartupRelease
  <2>2. /\ UNCHANGED <<holds, phase, children, marker, finishing>>
        /\ \A u \in Tasks \ {t} : status'[u] = status[u]
        /\ marker[t] = "active" => status[t] = "ended" /\ status' = status
        /\ t \in children => status[t] = "ended" /\ status' = status
    BY <1>0, <1>1 DEF BeginStartupRelease
  <2>3. WorldFits' /\ holds = {}
    BY <1>0, <2>1, <2>2 DEF IInv, WorldFits, Ended
  <2>4. Gives(Reconciler, t)'
    BY <2>2, <2>3 DEF Gives, IInv, WorldFits, Ended
  <2>5. \A u \in Tasks : Freed(u)' => Freed(u) \/ u = t
    BY <2>2 DEF Freed
  <2>6. QED
    BY <2>1, <2>2, <2>3, <2>4, <2>5, BeginKeeps DEF Suits
<1>2. ASSUME NEW t \in Tasks, VerifyMarker(t) PROVE IInv'
  <2>1. Begin(Reconciler, "releaseFor", t, "read") /\ phase = "markers"
    BY <1>2 DEF VerifyMarker
  <2>2. /\ UNCHANGED <<holds, phase, children, status, finishing>>
        /\ marker' = [marker EXCEPT ![t] = "verified"]
    BY <1>2 DEF VerifyMarker
  <2>3. WorldFits' /\ holds = {} /\ marker'[t] = "verified"
    BY <1>0, <2>1, <2>2 DEF IInv, WorldFits, Ended
  <2>4. Gives(Reconciler, t)'
    BY <2>2, <2>3 DEF Gives
  <2>5. \A u \in Tasks : Freed(u)' => Freed(u) \/ u = t
    BY <1>0, <2>2 DEF Freed
  <2>6. QED
    BY <2>1, <2>2, <2>3, <2>4, <2>5, BeginKeeps DEF Suits
<1>3. CASE BeginReconcile
  <2>1. Begin(Reconciler, "reconcile", NoTask, "read") /\ phase = "release"
    BY <1>3 DEF BeginReconcile
  <2>2. UNCHANGED <<holds, children, marker, status, finishing>> /\ phase' = "markers"
    BY <1>3 DEF BeginReconcile
  <2>3. WorldFits' /\ holds = {} /\ \A u \in Tasks : Freed(u)' = Freed(u)
    BY <2>1, <2>2 DEF IInv, WorldFits, Freed, Ended
  <2>4. \A t \in Ended : ~HeldBy(t)
    BY <1>3 DEF BeginReconcile
  <2>5. QED
    BY <2>1, <2>2, <2>3, <2>4, BeginKeeps DEF Suits
<1>4. QED
  BY <1>1, <1>2, <1>3

\* Steps that leave the file, the calls and the holders alone.
LEMMA AsideKeeps ==
  ASSUME IInv, TypeInv', NEW t \in Tasks, ScheduleRestart(t) \/ FinalWrite(t) \/ ChildExits(t)
  PROVE  IInv'
<1>0. /\ holds \subseteq Tasks /\ finishing \subseteq holds /\ children \subseteq Tasks
      /\ status \in [Tasks -> Statuses] /\ status' \in [Tasks -> Statuses]
      /\ marker \in [Tasks -> {"none", "active", "verified", "final"}]
  BY DEF IInv, TypeInv, TypeOK
<1>1. /\ UNCHANGED <<lock, fds, call, phase, holds>> /\ children' \subseteq children
      /\ finishing \subseteq finishing' /\ finishing' \cap children' = {}
      /\ \A u \in Tasks : marker'[u] = marker[u] \/ (u \in holds /\ marker'[u] = "active")
      /\ \A u \in Tasks : status'[u] = status[u] \/ u \in finishing' \cap holds
  BY <1>0 DEF ScheduleRestart, FinalWrite, ChildExits, IInv, WorldFits
<1>2. InFlight' = InFlight
  BY <1>1 DEF InFlight
<1>3. OneCall' /\ FileFits'
  BY <1>1, <1>2 DEF IInv, OneCall, FileFits
<1>4. WorldFits'
  BY <1>0, <1>1 DEF IInv, WorldFits, Ended
<1>5. \A u \in Tasks : (Freed(u)' => Freed(u)) /\ HeldBy(u)' = HeldBy(u)
  BY <1>1 DEF Freed, HeldBy, Readable
<1>6. HoldersHeld' = HoldersHeld
  BY <1>1 DEF HoldersHeld, HeldBy, Readable
<1>7. ASSUME NEW but, EndedFree(but) PROVE EndedFree(but)'
  BY <1>1, <1>5, <1>7 DEF EndedFree
<1>8. Between'
  BY <1>2, <1>6, <1>7 DEF IInv, Between, EndedFree
<1>9. ASSUME NEW c \in InFlight PROVE CallFits(c)'
  <2>1. CallFits(c)
    BY DEF IInv
  <2>2. Role(c)'
    BY <1>1, <2>1 DEF CallFits, Role
  <2>3. ASSUME NEW u, Gives(c, u) PROVE Gives(c, u)'
    BY <1>1, <2>3 DEF Gives, Ended
  <2>4. Relies(c)'
    BY <1>1, <2>1, <2>3 DEF CallFits, Relies, Ended, IInv, TypeInv, Targeted, InFlight
  <2>5. ASSUME Writes(c) PROVE Writes(c)'
    BY <1>1, <1>5, <2>5 DEF Writes, Record
  <2>6. ASSUME Overwrites(c) PROVE Overwrites(c)'
    <3>1. lock.task \in Tasks
      BY <2>6 DEF Overwrites, Readable, IInv, TypeInv, TypeOK, Record
    <3>2. QED
      BY <1>1, <2>3, <2>6, <3>1 DEF Overwrites, Readable
  <2>7. call[c].pc \in {"create", "read", "archive"} => EndedFree(Releasing(c))'
    <3>1. Releasing(c)' = Releasing(c)
      BY <1>1 DEF Releasing
    <3>2. ASSUME call[c].pc \in {"create", "read", "archive"} PROVE EndedFree(Releasing(c))'
      BY <1>1, <1>5, <2>1, <3>1, <3>2 DEF CallFits, EndedFree
    <3>3. QED
      BY <3>2
  <2>8. call[c].pc = "settle" => EndedFree({})'
    BY <1>1, <1>5, <2>1 DEF CallFits, EndedFree
  <2>9. QED
    BY <1>1, <1>6, <2>1, <2>2, <2>4, <2>5, <2>6, <2>7, <2>8 DEF CallFits, HeldBy, Readable
<1>10. QED
  BY <1>2, <1>3, <1>4, <1>8, <1>9 DEF IInv

LEMMA TimeKeeps ==
  ASSUME IInv, TypeInv', TimePasses
  PROVE  IInv'
<1>1. /\ UNCHANGED <<fds, call, phase, holds, status, finishing, marker, children>>
      /\ Readable' /\ lock'.task = lock.task /\ lock'.status = lock.status /\ Readable
      /\ InFlight = {}
  <2>1. lock \in Record /\ lock' = [lock EXCEPT !.old = TRUE]
    BY DEF TimePasses, Readable, IInv, TypeInv, TypeOK
  <2>2. lock' \in Record /\ lock'.task = lock.task /\ lock'.status = lock.status
    BY <2>1 DEF Record
  <2>3. QED
    BY <2>2, RepoLockAssumption DEF TimePasses, world, Readable
<1>2. InFlight' = {}
  BY <1>1 DEF InFlight
<1>3. \A t \in Tasks : HeldBy(t)' = HeldBy(t) /\ Freed(t)' = Freed(t)
  BY <1>1 DEF HeldBy, Freed
<1>4. holds \subseteq Tasks
  BY DEF IInv, TypeInv, TypeOK
<1>5. HoldersHeld' /\ EndedFree({})'
  BY <1>1, <1>3, <1>4 DEF IInv, Between, HoldersHeld, EndedFree
<1>6. OneCall' /\ FileFits' /\ WorldFits'
  BY <1>1, <1>2 DEF IInv, OneCall, FileFits, WorldFits, InFlight, Ended
<1>7. QED
  BY <1>2, <1>5, <1>6 DEF IInv, Between

LEMMA CrashKeeps ==
  ASSUME IInv, TypeInv', Crash
  PROVE  IInv'
<1>1. /\ \A c \in Callers : call'[c].pc = "idle"
      /\ fds' = {} /\ phase' = "release" /\ holds' = {} /\ children' \subseteq children
      /\ finishing' = {} /\ status' = status
  BY DEF Crash, Idle
<1>2. InFlight' = {}
  BY <1>1 DEF InFlight
<1>3. OneCall' /\ FileFits'
  BY <1>1, <1>2 DEF OneCall, FileFits
<1>4. \A t \in Tasks : marker'[t] # "verified" /\ (marker'[t] = "none" => marker[t] = "none")
  BY DEF Crash, Saved
<1>5. WorldFits'
  BY <1>1, <1>4 DEF IInv, WorldFits, Ended
<1>6. Between'
  BY <1>1 DEF Between, HoldersHeld, EndedFree
<1>7. QED
  BY <1>2, <1>3, <1>5, <1>6 DEF IInv

LEMMA TicksKeep ==
  ASSUME IInv, TypeInv', StartTicks
  PROVE  IInv'
<1>1. /\ UNCHANGED <<lock, fds, call, holds, children, finishing>>
      /\ phase = "markers" /\ phase' = "running" /\ call[Reconciler].pc = "idle"
      /\ \A t \in Tasks : marker[t] # "active"
      /\ \A t \in Tasks : status'[t] = status[t] \/ marker[t] = "verified"
      /\ \A t \in Tasks :
           marker'[t] = IF marker[t] = "verified" THEN "final" ELSE marker[t]
  BY DEF StartTicks, Saved
<1>2. InFlight = {}
  BY <1>1 DEF IInv, InFlight, CallFits, Role
<1>3. InFlight' = {}
  BY <1>1, <1>2 DEF InFlight
<1>4. OneCall' /\ FileFits' /\ HoldersHeld'
  BY <1>1, <1>2, <1>3
     DEF IInv, OneCall, FileFits, Between, HoldersHeld, HeldBy, Readable
<1>5. WorldFits'
  BY <1>1 DEF IInv, WorldFits, Ended
<1>6. \A t \in Tasks : (Freed(t)' => Freed(t)) /\ HeldBy(t)' = HeldBy(t)
  BY <1>1 DEF Freed, HeldBy, Readable
<1>7. EndedFree({})'
  BY <1>1, <1>2, <1>6 DEF IInv, Between, EndedFree
<1>8. QED
  BY <1>3, <1>4, <1>5, <1>7 DEF IInv, Between

-----------------------------------------------------------------------------
(* File operations of the one call in flight.                              *)

\* The call in flight, and what is left when it moves to new.
LEMMA Acting ==
  ASSUME IInv, NEW c \in Callers, call[c].pc # "idle",
         NEW new, call' = [call EXCEPT ![c] = new]
  PROVE  /\ CallFits(c) /\ call'[c] = new /\ \A d \in Callers \ {c} : call'[d].pc = "idle"
         /\ call[c].pc # "fill" => fds = {}
         /\ call[c].pc = "fill" => fds = {c} /\ lock = Torn
<1>1. c \in InFlight /\ InFlight = {c}
  BY DEF IInv, OneCall, InFlight
<1>2. QED
  BY <1>1 DEF IInv, TypeInv, TypeOK, FileFits, InFlight

\* The task of an acquire and the holder are not done with the lock.
LEMMA NotFreed ==
  ASSUME IInv, NEW c \in Callers, CallFits(c)
  PROVE  /\ call[c].op = "acquire" => ~Freed(call[c].task)
         /\ \A t \in holds : ~Freed(t)
<1>1. call[c].op = "acquire" => phase = "running" /\ call[c].task \notin Ended
  BY DEF CallFits, Role, Relies
<1>2. call[c].op = "acquire" => call[c].task \in Tasks
  BY DEF IInv, TypeInv, Targeted
<1>3. holds \subseteq Tasks
  BY DEF IInv, TypeInv, TypeOK
<1>4. QED
  BY <1>1, <1>2, <1>3 DEF IInv, WorldFits, Freed, Ended

LEMMA CreateKeeps ==
  ASSUME IInv, TypeInv', NEW c \in Callers, Create(c)
  PROVE  IInv'
<1>1. call[c].pc = "create" /\ UNCHANGED <<holds, phase, children, marker, status, finishing>>
  BY DEF Create, world
<1>2. WorldFits'
  BY <1>1 DEF IInv, WorldFits, Ended
<1>3. CASE lock = Absent
  <2>1. PICK new : new = Moved(c, "fill", NewLock(call[c].task), call[c].attempt)
    OBVIOUS
  <2>2. call' = [call EXCEPT ![c] = new] /\ lock' = Torn /\ fds' = {c}
    BY <1>3, <2>1 DEF Create, GoTo
  <2>3. /\ CallFits(c) /\ call'[c] = new /\ \A d \in Callers \ {c} : call'[d].pc = "idle"
    BY <1>1, <2>2, Acting
  <2>4. holds = {} /\ call[c].op = "acquire" /\ ~Freed(call[c].task)
    BY <1>1, <1>3, <2>3, NotFreed DEF CallFits, Role, Relies, HoldersHeld, HeldBy, Readable
  <2>5. NewLock(call[c].task) \in Record
    BY <1>1 DEF IInv, TypeInv, Targeted, NewLock, Record
  <2>6. Role(c)' /\ Relies(c)' /\ Writes(c)' /\ call'[c].pc = "fill"
    BY <1>1, <2>1, <2>3, <2>4, <2>5
       DEF CallFits, Role, Relies, Gives, Writes, NewLock, Moved, Freed, Ended
  <2>7. CallFits(c)'
    BY <2>6 DEF CallFits
  <2>8. QED
    BY <1>2, <2>2, <2>3, <2>6, <2>7, OneLeft
<1>4. CASE lock # Absent
  <2>1. PICK new : new = Moved(c, "read", Absent, call[c].attempt)
    OBVIOUS
  <2>2. call' = [call EXCEPT ![c] = new] /\ lock' = lock /\ fds' = fds
    BY <1>4, <2>1 DEF Create, GoTo
  <2>3. /\ CallFits(c) /\ call'[c] = new /\ fds = {}
        /\ \A d \in Callers \ {c} : call'[d].pc = "idle"
    BY <1>1, <2>2, Acting
  <2>4. HoldersHeld' /\ EndedFree(Releasing(c))' /\ call'[c].op = "acquire" /\ call'[c].pc = "read"
    BY <1>1, <2>1, <2>2, <2>3
       DEF CallFits, Role, HoldersHeld, EndedFree, Releasing, HeldBy, Readable, Moved, Freed
  <2>5. Role(c)' /\ Relies(c)'
    BY <1>1, <2>1, <2>3 DEF CallFits, Role, Relies, Gives, Moved, Ended
  <2>6. CallFits(c)'
    BY <2>4, <2>5 DEF CallFits
  <2>7. QED
    BY <1>2, <2>2, <2>3, <2>4, <2>6, OneLeft
<1>5. QED
  BY <1>3, <1>4

LEMMA TruncateKeeps ==
  ASSUME IInv, TypeInv', NEW c \in Callers, Truncate(c)
  PROVE  IInv'
<1>1. call[c].pc = "write" /\ UNCHANGED <<holds, phase, children, marker, status, finishing>> /\ lock' = Torn
  BY DEF Truncate, world
<1>2. PICK new : new = Moved(c, "fill", call[c].rec, call[c].attempt)
  OBVIOUS
<1>3. call' = [call EXCEPT ![c] = new]
  BY <1>2 DEF Truncate, GoTo
<1>4. /\ CallFits(c) /\ call'[c] = new /\ fds = {}
      /\ \A d \in Callers \ {c} : call'[d].pc = "idle"
  BY <1>1, <1>3, Acting
<1>5. fds' = {c} /\ call'[c].pc = "fill"
  BY <1>2, <1>4 DEF Truncate, Moved
<1>6. Role(c)' /\ Relies(c)' /\ Writes(c)'
  BY <1>1, <1>2, <1>4 DEF CallFits, Role, Relies, Gives, Writes, Moved, Freed, Ended
<1>7. CallFits(c)'
  BY <1>5, <1>6 DEF CallFits
<1>8. WorldFits'
  BY <1>1 DEF IInv, WorldFits, Ended
<1>9. QED
  BY <1>1, <1>4, <1>5, <1>7, <1>8, OneLeft

\* The last file operation of a call leaves it at rest or with a status to write.
LEMMA FinishKeeps ==
  ASSUME IInv, TypeInv', NEW c \in Callers, call[c].pc # "idle", Finish(c),
         WorldFits', fds' = {}, HoldersHeld', EndedFree({})', Role(c), Relies(c),
         call[c].op = "releaseFor" => holds' = holds,
         UNCHANGED <<phase, children, marker, status>>
  PROVE  IInv'
<1>1. PICK new : /\ call' = [call EXCEPT ![c] = new]
                 /\ \/ new = Idle
                    \/ /\ call[c].op = "releaseFor" /\ c # Reconciler
                       /\ new = Moved(c, "settle", Absent, call[c].attempt)
  BY DEF Finish, GoTo, Return
<1>2. /\ call'[c] = new /\ \A d \in Callers \ {c} : call'[d].pc = "idle"
  BY <1>1, Acting
<1>3. CASE new = Idle
  BY <1>2, <1>3, OneLeft DEF Idle
<1>4. CASE new # Idle
  <2>1. /\ call'[c].op = "releaseFor" /\ call'[c].task = call[c].task /\ call'[c].pc = "settle"
        /\ call[c].op = "releaseFor" /\ c # Reconciler
    BY <1>1, <1>2, <1>4 DEF Moved
  <2>2. Role(c)' /\ Relies(c)'
    BY <2>1 DEF Role, Relies, Gives, Ended
  <2>3. CallFits(c)'
    BY <2>1, <2>2 DEF CallFits
  <2>4. QED
    BY <1>2, <2>1, <2>3, OneLeft
<1>5. QED
  BY <1>3, <1>4

LEMMA FillKeeps ==
  ASSUME IInv, TypeInv', NEW c \in Callers, Fill(c)
  PROVE  IInv'
<1>1. call[c].pc = "fill" /\ UNCHANGED <<phase, children, marker, status, finishing>> /\ Finish(c)
  BY DEF Fill, world
<1>2. PICK new : call' = [call EXCEPT ![c] = new]
  BY <1>1 DEF Finish, GoTo, Return
<1>3. CallFits(c) /\ fds = {c} /\ lock = Torn
  BY <1>1, <1>2, Acting
<1>4. PICK rec : rec = call[c].rec
  OBVIOUS
<1>5. lock' = rec /\ fds' = {}
  BY <1>3, <1>4 DEF Fill
<1>6. /\ rec \in Record /\ \A t \in holds : rec.task = t /\ rec.status = "held"
      /\ call[c].op = "acquire" => rec.task = call[c].task /\ rec.status = "held"
      /\ rec.status = "held" => ~Freed(rec.task)
  BY <1>1, <1>3, <1>4 DEF CallFits, Writes
<1>7. \A t \in holds' : rec.task = t /\ rec.status = "held"
  BY <1>6 DEF Fill
<1>8. Readable'
  BY <1>5, <1>6, RepoLockAssumption DEF Readable
<1>9. HoldersHeld' /\ EndedFree({})'
  BY <1>1, <1>5, <1>6, <1>7, <1>8 DEF HoldersHeld, EndedFree, HeldBy, Freed
<1>10. WorldFits'
  <2>1. phase # "running" => holds' = {}
    BY <1>3 DEF Fill, CallFits, Role, IInv, WorldFits
  <2>2. holds' \cap Ended \subseteq finishing
    BY <1>3 DEF Fill, CallFits, Relies, IInv, WorldFits
  <2>3. QED
    BY <1>1, <1>7, <2>1, <2>2 DEF IInv, WorldFits, Ended
<1>11. call[c].op = "releaseFor" => holds' = holds
  BY DEF Fill
<1>12. QED
  BY <1>1, <1>3, <1>5, <1>9, <1>10, <1>11, FinishKeeps DEF CallFits

LEMMA SettleKeeps ==
  ASSUME IInv, TypeInv', NEW c \in Callers, Settle(c)
  PROVE  IInv'
<1>1. /\ call[c].pc = "settle" /\ UNCHANGED <<lock, fds, phase, holds, children, marker, finishing>>
      /\ call' = [call EXCEPT ![c] = Idle]
  BY DEF Settle, Return
<1>2. /\ CallFits(c) /\ call'[c] = Idle /\ fds = {}
      /\ \A d \in Callers \ {c} : call'[d].pc = "idle"
  BY <1>1, Acting
<1>3. call[c].op = "releaseFor"
  BY <1>1, <1>2 DEF CallFits, Role
<1>4. \A t \in Tasks : status'[t] = "ended" <=> status[t] = "ended"
  <2>1. PICK s : /\ status' = [status EXCEPT ![call[c].task] = s]
                 /\ s = "ended" <=> status[call[c].task] = "ended"
    BY <1>3 DEF Settle
  <2>2. QED
    BY <2>1 DEF IInv, TypeInv, TypeOK
<1>5. WorldFits'
  BY <1>1, <1>4 DEF IInv, WorldFits, Ended
<1>6. HoldersHeld' /\ EndedFree({})'
  BY <1>1, <1>2, <1>4 DEF CallFits, HoldersHeld, EndedFree, HeldBy, Readable, Freed
<1>7. QED
  BY <1>1, <1>2, <1>5, <1>6, OneLeft DEF Idle

LEMMA ArchiveKeeps ==
  ASSUME IInv, TypeInv', NEW c \in Callers, Archive(c)
  PROVE  IInv'
<1>1. /\ call[c].pc = "archive" /\ UNCHANGED <<holds, phase, children, marker, status, finishing>>
      /\ lock' = Absent /\ fds' = {}
  BY DEF Archive, world
<1>2. PICK new \in {Idle, Moved(c, "create", Absent, call[c].attempt + 1)} :
        call' = [call EXCEPT ![c] = new]
  BY DEF Archive, Return
<1>3. /\ CallFits(c) /\ call'[c] = new
      /\ \A d \in Callers \ {c} : call'[d].pc = "idle"
  BY <1>1, <1>2, Acting
<1>4. WorldFits'
  BY <1>1 DEF IInv, WorldFits, Ended
<1>5. holds = {}
  BY <1>1, <1>3 DEF CallFits, HoldersHeld, HeldBy
<1>6. HoldersHeld' /\ EndedFree({})' /\ EndedFree(Releasing(c))'
  BY <1>1, <1>5 DEF HoldersHeld, EndedFree, HeldBy, Readable
<1>7. CASE new = Idle
  BY <1>1, <1>3, <1>4, <1>6, <1>7, OneLeft DEF Idle
<1>8. CASE new = Moved(c, "create", Absent, call[c].attempt + 1)
  <2>1. Role(c)' /\ Relies(c)' /\ call'[c].pc = "create"
    BY <1>1, <1>3, <1>8 DEF CallFits, Role, Relies, Gives, Moved, Ended
  <2>2. CallFits(c)'
    BY <1>6, <2>1 DEF CallFits
  <2>3. QED
    BY <1>1, <1>3, <1>4, <2>1, <2>2, OneLeft
<1>9. QED
  BY <1>2, <1>7, <1>8

\* What each call makes of the record it has read.
LEMMA RewriteSays ==
  ASSUME NEW op, NEW t, NEW rec \in Record, NEW new \in Rewrite(op, t, rec)
  PROVE  /\ new \in Record /\ new.task = rec.task
         /\ op = "acquire" => rec.task = t /\ new.status = "held"
         /\ op = "update" => rec.task = t /\ new.status = rec.status
         /\ op \in {"release", "releaseFor"} => rec.task = t /\ new.status = "released"
         /\ op = "keep" => new.status = "held"
         /\ op = "reconcile" => new.status = "stale" /\ IsStale(rec)
BY DEF Rewrite, Record

\* A release of a held lock of its task has something to write.
LEMMA ReleaseWrites ==
  ASSUME NEW op \in {"release", "releaseFor"}, NEW t, NEW rec \in Record,
         rec.task = t, rec.status = "held"
  PROVE  Rewrite(op, t, rec) # {}
BY DEF Rewrite

LEMMA ReadKeeps ==
  ASSUME IInv, TypeInv', NEW c \in Callers, Read(c)
  PROVE  IInv'
<1>1. call[c].pc = "read" /\ UNCHANGED <<lock, fds, holds, phase, children, marker, status, finishing>>
  BY DEF Read, world
<1>2. PICK op, t : op = call[c].op /\ t = call[c].task
  OBVIOUS
<1>3. WorldFits'
  BY <1>1 DEF IInv, WorldFits, Ended
<1>4. Readable => lock \in Record
  BY DEF Readable, IInv, TypeInv, TypeOK
<1>5. ASSUME Readable, NEW rec \in Rewrite(op, t, lock), GoTo(c, "write", rec) PROVE IInv'
  <2>1. PICK new : new = Moved(c, "write", rec, call[c].attempt)
    OBVIOUS
  <2>2. call' = [call EXCEPT ![c] = new]
    BY <1>5, <2>1 DEF GoTo
  <2>3. /\ CallFits(c) /\ call'[c] = new /\ fds = {}
        /\ \A d \in Callers \ {c} : call'[d].pc = "idle"
    BY <1>1, <2>2, Acting
  <2>4. /\ new.op = op /\ new.task = t /\ new.rec = rec /\ new.pc = "write"
    BY <1>2, <2>1 DEF Moved
  <2>5. Role(c)' /\ Relies(c)'
    BY <1>1, <1>2, <2>3, <2>4 DEF CallFits, Role, Relies, Gives, Ended
  <2>6. HoldersHeld' /\ Readable'
    BY <1>1, <1>5, <2>3 DEF CallFits, HoldersHeld, HeldBy, Readable
  <2>7. /\ rec \in Record /\ rec.task = lock.task
        /\ op = "acquire" => lock.task = t /\ rec.status = "held"
        /\ op = "update" => lock.task = t /\ rec.status = lock.status
        /\ op \in {"release", "releaseFor"} => lock.task = t /\ rec.status = "released"
        /\ op = "keep" => rec.status = "held"
        /\ op = "reconcile" => rec.status = "stale" /\ IsStale(lock)
    BY <1>4, <1>5, RewriteSays
  <2>8. op \in {"acquire", "update", "release", "keep", "releaseFor", "reconcile"}
    BY <1>2, <2>3 DEF CallFits, Role
  <2>9. /\ HoldersHeld
        /\ op = "acquire" => t \notin holds \cup Ended
        /\ op = "update" => t \in holds
        /\ op = "keep" => holds = {} /\ t \in Tasks /\ marker[t] = "active" /\ HeldBy(t)
        /\ op \in {"release", "releaseFor"} => holds = {} /\ Gives(c, t)
        /\ op = "reconcile" => holds = {}
    BY <1>1, <1>2, <2>3 DEF CallFits, Relies, Gives
  <2>10. /\ \A u \in holds : rec.task = u /\ rec.status = "held"
         /\ rec.status = "held" => ~Freed(rec.task)
    <3>1. \A u \in holds : rec.task = u /\ rec.status = "held"
      BY <2>7, <2>8, <2>9 DEF HoldersHeld, HeldBy
    <3>2. CASE op \in {"acquire", "update"}
      <4>1. ~Freed(t)
        BY <1>2, <2>3, <2>9, <3>2, NotFreed
      <4>2. rec.task = t
        BY <2>7, <3>2
      <4>3. QED
        BY <3>1, <4>1, <4>2
    <3>3. CASE op = "keep"
      BY <2>7, <2>9, <3>1, <3>3 DEF Freed, HeldBy
    <3>4. CASE op \in {"release", "releaseFor", "reconcile"}
      BY <2>7, <3>1, <3>4
    <3>5. QED
      BY <2>8, <3>1, <3>2, <3>3, <3>4
  <2>11. Writes(c)'
    BY <1>1, <2>3, <2>4, <2>7, <2>10 DEF Writes, Freed
  <2>12. Overwrites(c)'
    <3>1. CASE op \in {"acquire", "update", "keep"}
      BY <1>1, <2>3, <2>4, <2>6, <2>7, <2>9, <3>1 DEF Overwrites, HoldersHeld, HeldBy
    <3>2. CASE op \in {"release", "releaseFor"}
      BY <1>1, <2>3, <2>4, <2>6, <2>7, <2>9, <3>2 DEF Overwrites, Gives, Ended
    <3>3. CASE op = "reconcile"
      BY <1>1, <2>3, <2>4, <2>6, <2>7, <2>9, <3>3 DEF Overwrites, IsStale
    <3>4. QED
      BY <2>8, <3>1, <3>2, <3>3
  <2>13. CallFits(c)'
    BY <2>3, <2>4, <2>5, <2>6, <2>11, <2>12 DEF CallFits
  <2>14. QED
    BY <1>1, <1>3, <2>3, <2>4, <2>13, OneLeft
<1>6. ASSUME op = "acquire", Readable, lock.status # "held", GoTo(c, "archive", Absent) PROVE IInv'
  <2>1. PICK new : new = Moved(c, "archive", Absent, call[c].attempt)
    OBVIOUS
  <2>2. call' = [call EXCEPT ![c] = new]
    BY <1>6, <2>1 DEF GoTo
  <2>3. /\ CallFits(c) /\ call'[c] = new /\ fds = {}
        /\ \A d \in Callers \ {c} : call'[d].pc = "idle"
    BY <1>1, <2>2, Acting
  <2>4. Role(c)' /\ Relies(c)' /\ call'[c].pc = "archive"
    <3>1. new.op = "acquire" /\ new.task = t /\ new.pc = "archive"
      BY <1>2, <1>6, <2>1 DEF Moved
    <3>2. Role(c)'
      BY <1>1, <1>2, <1>6, <2>3, <3>1 DEF CallFits, Role
    <3>3. Relies(c)'
      BY <1>1, <1>2, <1>6, <2>3, <3>1 DEF CallFits, Relies, Gives, Ended
    <3>4. QED
      BY <2>3, <3>1, <3>2, <3>3
  <2>5. HoldersHeld' /\ Readable' /\ lock'.status # "held" /\ EndedFree(Releasing(c))'
    BY <1>1, <1>6, <2>3 DEF CallFits, HoldersHeld, HeldBy, Readable, EndedFree, Releasing, Moved, Freed
  <2>6. CallFits(c)'
    BY <2>4, <2>5 DEF CallFits
  <2>7. QED
    BY <1>1, <1>3, <2>3, <2>4, <2>6, OneLeft
<1>7. ASSUME Readable => Rewrite(op, t, lock) = {}, Finish(c) PROVE IInv'
  <2>1. PICK new : call' = [call EXCEPT ![c] = new]
    BY <1>7 DEF Finish, GoTo, Return
  <2>2. CallFits(c) /\ fds = {}
    BY <1>1, <2>1, Acting
  <2>3. HoldersHeld /\ EndedFree(Releasing(c))
    BY <1>1, <2>2 DEF CallFits
  <2>4. op \in {"release", "releaseFor"} => ~HeldBy(t)
    BY <1>4, <1>7, ReleaseWrites DEF HeldBy
  <2>5. EndedFree({})
    BY <1>2, <2>3, <2>4 DEF EndedFree, Releasing
  <2>6. HoldersHeld' /\ EndedFree({})'
    BY <1>1, <2>3, <2>5 DEF HoldersHeld, EndedFree, HeldBy, Readable, Freed
  <2>7. QED
    BY <1>1, <1>3, <1>7, <2>2, <2>6, FinishKeeps DEF CallFits
<1>8. QED
  BY <1>2, <1>5, <1>6, <1>7 DEF Read

LEMMA NextKeeps == Serial /\ IInv /\ [Next]_vars => IInv'
<1>. SUFFICES ASSUME Serial, IInv, [Next]_vars PROVE IInv'
  OBVIOUS
<1>0. TypeInv'
  BY TypeStep, TargetStep DEF IInv, TypeInv
<1>1. ASSUME NEW t \in Tasks,
             \/ BeginAcquire(t) \/ BeginUpdate(t) \/ ScheduleRestart(t)
             \/ FinalWrite(t) \/ BeginFinalRelease(t) \/ BeginReleaseForTask(t) \/ ChildExits(t)
      PROVE  IInv'
  BY <1>0, <1>1, TaskKeeps, AsideKeeps
<1>2. ASSUME NEW t \in Tasks, BeginCancel(t) \/ ExecutionThrows(t) PROVE IInv'
  BY <1>2 DEF BeginCancel, ExecutionThrows, Begin, Serial
<1>3. CASE BeginForceRelease
  BY <1>3 DEF BeginForceRelease, Begin, Serial
<1>4. CASE Startup
  BY <1>0, <1>4, StartupKeeps, TicksKeep DEF Startup
<1>5. ASSUME NEW c \in Callers, FileStep(c) PROVE IInv'
  <2>1. CASE Create(c) \/ Truncate(c) \/ Fill(c) \/ Archive(c) \/ Read(c) \/ Settle(c)
    BY <1>0, <2>1, CreateKeeps, TruncateKeeps, FillKeeps, ArchiveKeeps, ReadKeeps, SettleKeeps
  <2>2. CASE ReadOwn(c) \/ Remove(c)
    <3>1. c \in InFlight
      BY <2>2 DEF ReadOwn, Remove, InFlight
    <3>2. Role(c)
      BY <3>1 DEF IInv, CallFits
    <3>3. QED
      BY <2>2, <3>2 DEF Role, ReadOwn, Remove
  <2>3. QED
    BY <1>5, <2>1, <2>2 DEF FileStep
<1>6. CASE TimePasses
  BY <1>0, <1>6, TimeKeeps
<1>7. CASE Crash
  BY <1>0, <1>7, CrashKeeps
<1>8. CASE UNCHANGED vars
  BY <1>8
     DEF vars, IInv, TypeInv, TypeOK, Targeted, OneCall, FileFits, WorldFits, Between, InFlight,
         CallFits, Role, Relies, Gives, Releasing, HoldersHeld, EndedFree, HeldBy, Readable, Writes,
         Overwrites, Freed, Ended
<1>9. QED
  BY <1>1, <1>2, <1>3, <1>4, <1>5, <1>6, <1>7, <1>8 DEF Next

LEMMA InitFits == Serial /\ Init => IInv
<1>. SUFFICES ASSUME Init PROVE IInv
  OBVIOUS
<1>1. TypeInv
  BY RepoLockAssumption, IdleTyped DEF Init, TypeInv, TypeOK, Targeted, Idle, Statuses
<1>2. InFlight = {}
  BY DEF Init, InFlight, Idle
<1>3. QED
  BY <1>1, <1>2
     DEF Init, IInv, Idle, OneCall, FileFits, WorldFits, Between, HoldersHeld, EndedFree, Ended

LEMMA Invariant == Serial => (Spec => []IInv)
<1>. SUFFICES ASSUME Serial PROVE Spec => []IInv
  OBVIOUS
<1>1. Init => IInv
  BY InitFits
<1>2. IInv /\ [Next]_vars => IInv'
  BY NextKeeps
<1>3. QED
  BY <1>1, <1>2, PTL DEF Spec

-----------------------------------------------------------------------------
(* What serial calls give.                                                 *)

\* At most one task at a time believes that it has the repository.
THEOREM OneHolderTheorem == Serial => (Spec => []OneHolder)
<1>1. IInv => OneHolder
  <2>1. SUFFICES ASSUME \A t, u \in holds : t = u PROVE Cardinality(holds) <= 1
    BY DEF IInv, WorldFits, OneHolder
  <2>2. CASE holds = {}
    BY <2>2, FS_EmptySet
  <2>3. ASSUME NEW t \in holds PROVE Cardinality(holds) <= 1
    <3>1. holds = {t}
      BY <2>1, <2>3
    <3>2. QED
      BY <3>1, FS_Singleton
  <2>4. QED
    BY <2>2, <2>3
<1>2. QED
  BY <1>1, Invariant, PTL

\* Between calls the lock file holds the lock for the task that runs under it,
\* also after crashes and while heartbeats grow old.
THEOREM HolderTheorem == Serial => (Spec => []HolderOwnsFile)
<1>1. IInv => HolderOwnsFile
  BY DEF IInv, Between, HoldersHeld, HolderOwnsFile
<1>2. QED
  BY <1>1, Invariant, PTL

\* Between calls of a running server a lock is held for a task that has ended only
\* until its finalization comes to the lock, or for a restart that is due.
THEOREM EndedTheorem == Serial => (Spec => []EndedTaskHoldsNothing)
<1>1. IInv => EndedTaskHoldsNothing
  BY DEF IInv, Between, EndedFree, EndedTaskHoldsNothing, Freed, Ended
<1>2. QED
  BY <1>1, Invariant, PTL

\* A held lock leaves the path only when a call opens the file to write.
LEMMA HeldUntilWritten ==
  ASSUME Serial, IInv, Next, NEW t \in Tasks, HeldBy(t)
  PROVE  HeldBy(t)' \/ \E c \in InFlight : Truncate(c)
<1>. lock \in Record
  BY DEF HeldBy, Readable, IInv, TypeInv, TypeOK
<1>1. ASSUME lock' = lock PROVE HeldBy(t)'
  BY <1>1 DEF HeldBy, Readable
<1>2. ASSUME NEW u \in Tasks,
             \/ BeginAcquire(u) \/ BeginUpdate(u) \/ ScheduleRestart(u)
             \/ FinalWrite(u) \/ BeginFinalRelease(u) \/ BeginReleaseForTask(u)
             \/ ExecutionThrows(u) \/ ChildExits(u) \/ BeginCancel(u) \/ BeginStartupRelease(u) \/ VerifyMarker(u)
      PROVE  HeldBy(t)'
  BY <1>1, <1>2
     DEF BeginAcquire, BeginUpdate, ScheduleRestart, FinalWrite, BeginFinalRelease,
         BeginReleaseForTask, ExecutionThrows, ChildExits, BeginCancel, BeginStartupRelease,
         VerifyMarker, Begin
<1>3. CASE Startup \/ BeginForceRelease
  BY <1>1, <1>2, <1>3 DEF Startup, BeginForceRelease, BeginReconcile, StartTicks, Begin
<1>4. ASSUME NEW c \in Callers, FileStep(c)
      PROVE  HeldBy(t)' \/ \E d \in InFlight : Truncate(d)
  <2>1. c \in InFlight
    BY <1>4 DEF FileStep, Create, Truncate, Fill, Archive, Read, ReadOwn, Remove, Settle, InFlight
  <2>2. CallFits(c) /\ (call[c].pc = "fill" => lock = Torn)
    BY <2>1 DEF IInv, FileFits
  <2>3. CASE Create(c)
    BY <1>1, <2>3 DEF Create, HeldBy, Readable
  <2>4. ~Fill(c)
    BY <2>2 DEF Fill, HeldBy, Readable
  <2>5. ~Archive(c)
    BY <2>2 DEF Archive, CallFits, HeldBy
  <2>6. CASE Read(c)
    BY <1>1, <2>6 DEF Read
  <2>7. ~ReadOwn(c) /\ ~Remove(c)
    BY <2>2 DEF CallFits, Role, ReadOwn, Remove
  <2>8. CASE Settle(c)
    BY <1>1, <2>8 DEF Settle
  <2>9. QED
    BY <1>4, <2>1, <2>3, <2>4, <2>5, <2>6, <2>7, <2>8 DEF FileStep
<1>5. CASE TimePasses
  BY <1>5, RepoLockAssumption DEF TimePasses, HeldBy, Readable, Record
<1>6. CASE Crash
  BY <1>6, RepoLockAssumption DEF Crash, HeldBy, Readable, Record
<1>7. QED
  BY <1>2, <1>3, <1>4, <1>5, <1>6 DEF Next

\* What the call that opens the file is about to write.
LEMMA OpenedToWrite ==
  ASSUME IInv, NEW c \in InFlight, Truncate(c)
  PROVE  /\ lock' = Torn /\ fds' = {c}
         /\ call'[c].rec = call[c].rec /\ Overwrites(c)
<1>1. c \in Callers /\ call[c].pc = "write" /\ CallFits(c)
  BY DEF Truncate, InFlight, IInv
<1>2. \A d \in Callers : call[d].pc # "idle" => d = c
  BY DEF IInv, OneCall, InFlight
<1>3. fds = {}
  BY <1>1, <1>2 DEF IInv, FileFits
<1>4. call'[c].rec = call[c].rec
  BY <1>1 DEF Truncate, GoTo, Moved, IInv, TypeInv, TypeOK
<1>5. QED
  BY <1>1, <1>3, <1>4 DEF Truncate, CallFits

\* While the restart of a task is due that has not ended, a lock kept for it is
\* overwritten only by a record that keeps it, or by a call of the task itself.
THEOREM RestartTheorem == Serial => (Spec => RestartKeepsLock)
<1>. SUFFICES ASSUME Serial PROVE Spec => RestartKeepsLock
  OBVIOUS
<1>. DEFINE Kept(t) ==
       HeldBy(t) /\ lock.restart /\ marker[t] = "active" /\ call[<<t, "main">>].pc = "idle"
         => \/ HeldBy(t)'
            \/ /\ lock' = Torn
               /\ \A c \in fds' : call'[c].rec.task = t /\ call'[c].rec.status = "held"
<1>1. IInv /\ [Next]_vars => [\A t \in Tasks \ Ended : Kept(t)]_vars
  <2>1. SUFFICES ASSUME IInv, Next, NEW t \in Tasks, t \notin Ended, HeldBy(t), lock.restart,
                        marker[t] = "active", call[<<t, "main">>].pc = "idle", ~HeldBy(t)'
                 PROVE  /\ lock' = Torn
                        /\ \A c \in fds' : call'[c].rec.task = t /\ call'[c].rec.status = "held"
    OBVIOUS
  <2>2. PICK c \in InFlight : Truncate(c)
    BY <2>1, HeldUntilWritten
  <2>3. /\ lock' = Torn /\ fds' = {c}
        /\ call'[c].rec = call[c].rec /\ Overwrites(c)
    BY <2>1, <2>2, OpenedToWrite
  <2>4. call[c].pc = "write"
    BY <2>2 DEF Truncate
  <2>5. ~Gives(c, t)
    BY <2>1, <2>4 DEF Gives
  <2>6. QED
    BY <2>1, <2>3, <2>5 DEF Overwrites, HeldBy
<1>2. QED
  BY <1>1, Invariant, PTL DEF Spec, RestartKeepsLock

\* While the Codex child of a task is at work, known to the lock file and heard
\* of recently, its lock is overwritten only by a record that keeps it.
THEOREM OrphanTheorem == Serial => (Spec => OrphanKeepsRepo)
<1>. SUFFICES ASSUME Serial PROVE Spec => OrphanKeepsRepo
  OBVIOUS
<1>. DEFINE Kept(t) ==
       HeldBy(t) /\ lock.child /\ ~lock.old /\ marker[t] = "none"
         => \/ HeldBy(t)'
            \/ /\ lock' = Torn
               /\ \A c \in fds' : call'[c].rec.task = t /\ call'[c].rec.status = "held"
<1>1. IInv /\ [Next]_vars => [\A t \in children : Kept(t)]_vars
  <2>1. SUFFICES ASSUME IInv, Next, NEW t \in children,
                        HeldBy(t), lock.child, ~lock.old, marker[t] = "none", ~HeldBy(t)'
                 PROVE  /\ lock' = Torn
                        /\ \A c \in fds' : call'[c].rec.task = t /\ call'[c].rec.status = "held"
    OBVIOUS
  <2>2. t \in Tasks
    BY <2>1 DEF IInv, TypeInv, TypeOK
  <2>3. PICK c \in InFlight : Truncate(c)
    BY <2>1, <2>2, HeldUntilWritten
  <2>4. /\ lock' = Torn /\ fds' = {c}
        /\ call'[c].rec = call[c].rec /\ Overwrites(c)
    BY <2>1, <2>3, OpenedToWrite
  <2>5. QED
    BY <2>1, <2>4 DEF Overwrites, Gives, HeldBy
<1>2. QED
  BY <1>1, Invariant, PTL DEF Spec, OrphanKeepsRepo
=============================================================================
