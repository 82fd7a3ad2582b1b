------------------------ MODULE ProgressionCommands ------------------------
(***************************************************************************)
(* The durable progression commands of backend/src/progression/.  The      *)
(* finalization of a task run writes, in the mutation that writes the      *)
(* task's final state, one command per effect of its decision; drains of   *)
(* the command list claim a command under a lease, run its handler and     *)
(* mark it.  Every store.mutate is one step; the awaits between them are   *)
(* where drains, finalizations, expiring leases and crashes interleave.    *)
(*                                                                         *)
(* A command is indexed by its idempotency key.  Its revision and its      *)
(* payload are named by the number of the decision that produced them: a   *)
(* decision's doneAt time is its revision unless it inherits one.          *)
(***************************************************************************)
EXTENDS Naturals, FiniteSets

CONSTANTS
  Tasks,         \* the tasks that are finalized
  Drains,        \* drains that may run at the same time
  OwnerOf,       \* the lease owner each drain gives: one per server process
  DeadOwner,     \* the owner of a lease whose process has ended
  NoOwner,       \* the owner in a command that is not leased
  NoKey,         \* the command of a drain that has none
  EffectSets,    \* the decisions that are taken, by the effects they ask for
  MaxAttempts,   \* max_attempts of every command (the code's default is 3)
  MaxDecisions,  \* bound: decisions in a behaviour
  MaxCrashes,    \* bound: process crashes in a behaviour
  StaleViews,    \* a run may finalize with a task read before its first decision
  Lapses         \* a handler may outlast its lease

Owners == {OwnerOf[d] : d \in Drains}

\* The effects of a decision: each alternative of buildProgressionCommands.
Followups == {"propagate_goal", "advance_queue", "cleanup_worktree"}
AllEffectSets ==
  {{}, {"create_repair_task"}, {"integrate_change"}}
    \cup {{"complete_task"} \cup F : F \in SUBSET Followups}

ASSUME ProgressionAssumption ==
  /\ DeadOwner \notin Owners /\ NoOwner \notin Owners /\ NoOwner # DeadOwner
  /\ EffectSets \subseteq AllEffectSets
  /\ MaxAttempts \in Nat \ {0}
  /\ MaxDecisions \in Nat /\ MaxCrashes \in Nat
  /\ StaleViews \in BOOLEAN /\ Lapses \in BOOLEAN

VARIABLES
  revision,  \* decision_revision of each task, 0 before its first decision
  latest,    \* the commands the task's latest decision asks for
  cmd,       \* the record of each command
  pc, item,  \* the step each drain is at; the command it claimed, its attempt
  started,   \* the attempts in which the handler of each command was started
  clock,     \* how many decisions were made
  crashes    \* how many processes crashed

vars == <<revision, latest, cmd, pc, item, started, clock, crashes>>
drains == <<pc, item>>

Decisions == 1 .. MaxDecisions
Actions == UNION EffectSets
Keys == [task : Tasks, rev : Decisions, action : Actions, payload : Decisions]

ASSUME NoKeyAssumption == NoKey \notin Keys

Command == [status : {"absent", "pending", "claimed", "applied", "failed", "superseded"},
            attempt : 0 .. MaxAttempts,
            owner : Owners \cup {NoOwner, DeadOwner},
            lapsed : BOOLEAN,   \* lease.expires_at is past
            due : BOOLEAN,      \* retry_at is past
            created : 0 .. MaxDecisions]
Absent == [status |-> "absent", attempt |-> 0, owner |-> NoOwner,
           lapsed |-> FALSE, due |-> FALSE, created |-> 0]
Nothing == [key |-> NoKey, attempt |-> 0]
Working == {"check", "run", "apply", "notify", "supersede", "fail"}

TypeOK ==
  /\ revision \in [Tasks -> 0 .. MaxDecisions]
  /\ latest \in [Tasks -> SUBSET Keys]
  /\ cmd \in [Keys -> Command]
  /\ pc \in [Drains -> {"idle", "claim"} \cup Working]
  /\ item \in [Drains -> [key : Keys \cup {NoKey}, attempt : 0 .. MaxAttempts]]
  /\ started \in [Keys -> SUBSET (1 .. MaxAttempts)]
  /\ clock \in 0 .. MaxDecisions
  /\ crashes \in 0 .. MaxCrashes

Init ==
  /\ revision = [t \in Tasks |-> 0]
  /\ latest = [t \in Tasks |-> {}]
  /\ cmd = [k \in Keys |-> Absent]
  /\ pc = [d \in Drains |-> "idle"]
  /\ item = [d \in Drains |-> Nothing]
  /\ started = [k \in Keys |-> {}]
  /\ clock = 0
  /\ crashes = 0

-----------------------------------------------------------------------------
\* Finalization: a decision supersedes and creates commands.

\* The revision of a decision taken with the revision seen on the task.
NextRevision(seen) == IF seen # 0 THEN seen ELSE clock + 1

\* Only the payload of complete_task carries the decision itself; those of the
\* others may be equal to the payload of an earlier decision.
KeysOf(t, rev, effects, payload) ==
  {[task |-> t, rev |-> rev, action |-> a,
    payload |-> IF a = "complete_task" THEN clock + 1 ELSE payload] : a \in effects}

Stale(k, t, rev) ==
  /\ k.task = t /\ k.rev # rev
  /\ cmd[k].status \in {"pending", "failed"}

\* Mutant: a key that was used before gets a new command.
CreateReplaced(c) == [Absent EXCEPT !.status = "pending", !.created = clock + 1]

\* A key that was used before replays its command, whatever became of it.
Create(c) ==
  IF c.status # "absent" THEN c
  ELSE [Absent EXCEPT !.status = "pending", !.created = clock + 1]

Decide(t, effects, payload, seen) ==
  /\ clock < MaxDecisions
  /\ LET rev == NextRevision(seen)
         new == KeysOf(t, rev, effects, payload)
     IN  /\ revision' = [revision EXCEPT ![t] = rev]
         /\ latest' = [latest EXCEPT ![t] = new]
         /\ cmd' = [k \in Keys |->
                      CASE Stale(k, t, rev) -> [cmd[k] EXCEPT !.status = "superseded"]
                        [] k \in new -> Create(cmd[k])
                        [] OTHER -> cmd[k]]
  /\ clock' = clock + 1
  /\ UNCHANGED <<drains, started, crashes>>

Finalize(t) ==
  \E effects \in EffectSets, payload \in 1 .. clock + 1,
     seen \in {revision[t]} \cup (IF StaleViews THEN {0} ELSE {}) :
       Decide(t, effects, payload, seen)

-----------------------------------------------------------------------------
\* A drain: release, claim, check the revision, run, mark, notify; repeat.

\* Mutant: a released command gets its attempts back.
ReleasedFresh(c) ==
  [c EXCEPT !.status = "pending", !.attempt = 0,
            !.owner = NoOwner, !.lapsed = FALSE]

\* Mutant: a released command always waits for another attempt.
ReleasedPending(c) ==
  [c EXCEPT !.status = "pending", !.owner = NoOwner, !.lapsed = FALSE]

Released(c) ==
  [c EXCEPT !.status = IF c.attempt >= MaxAttempts THEN "failed" ELSE "pending",
            !.owner = NoOwner, !.lapsed = FALSE]

\* Mutant: a recovery that takes every lease, as of a worker known to be dead.
ExpiredAny(c) == c.status = "claimed"

Expired(c) == c.status = "claimed" /\ c.lapsed

ReleaseExpired(d) ==
  /\ pc[d] = "idle"
  /\ cmd' = [k \in Keys |-> IF Expired(cmd[k]) THEN Released(cmd[k]) ELSE cmd[k]]
  /\ pc' = [pc EXCEPT ![d] = "claim"]
  /\ UNCHANGED <<revision, latest, item, started, clock, crashes>>

\* Mutant: a failed command is claimed however often it has failed.
ClaimableEver(c) == c.status = "pending" \/ (c.status = "failed" /\ c.due)

\* Mutant: a failed command is not tried again.
ClaimableOnce(c) == c.status = "pending"

Claimable(c) ==
  \/ c.status = "pending"
  \/ c.status = "failed" /\ c.attempt < MaxAttempts /\ c.due

Oldest(k) ==
  /\ Claimable(cmd[k])
  /\ \A j \in Keys : Claimable(cmd[j]) => cmd[k].created <= cmd[j].created

Claim(d, k) ==
  /\ pc[d] = "claim"
  /\ Oldest(k)
  /\ cmd' = [cmd EXCEPT ![k].status = "claimed", ![k].attempt = @ + 1,
                        ![k].owner = OwnerOf[d], ![k].lapsed = FALSE]
  /\ pc' = [pc EXCEPT ![d] = "check"]
  /\ item' = [item EXCEPT ![d] = [key |-> k, attempt |-> cmd[k].attempt + 1]]
  /\ UNCHANGED <<revision, latest, started, clock, crashes>>

Leave(d) ==
  /\ pc' = [pc EXCEPT ![d] = "idle"]
  /\ item' = [item EXCEPT ![d] = Nothing]

NothingToClaim(d) ==
  /\ pc[d] = "claim"
  /\ \A k \in Keys : ~Claimable(cmd[k])
  /\ Leave(d)
  /\ UNCHANGED <<revision, latest, cmd, started, clock, crashes>>

\* getCurrentDecisionRevision: a command of another revision is not run.
Check(d) ==
  LET k == item[d].key IN
  /\ pc[d] = "check"
  /\ \/ /\ revision[k.task] \notin {0, k.rev}
        /\ pc' = [pc EXCEPT ![d] = "supersede"]
        /\ UNCHANGED started
     \/ /\ revision[k.task] \in {0, k.rev}
        /\ pc' = [pc EXCEPT ![d] = "run"]
        /\ started' = [started EXCEPT ![k] = @ \cup {item[d].attempt}]
  /\ UNCHANGED <<revision, latest, cmd, item, clock, crashes>>

\* The handler of the command returns or throws.
Run(d) ==
  /\ pc[d] = "run"
  /\ \E next \in {"apply", "fail"} : pc' = [pc EXCEPT ![d] = next]
  /\ UNCHANGED <<revision, latest, cmd, item, started, clock, crashes>>

\* Mutant: the update asks only that the command is not settled.
OwnedByAnyone(d) == cmd[item[d].key].status \in {"claimed", "pending"}

\* The condition of updateClaimed: the others throw LEASE_CONFLICT.
Owned(d) ==
  /\ cmd[item[d].key].status = "claimed"
  /\ cmd[item[d].key].owner = OwnerOf[d]

Mark(d, status) ==
  cmd' = [cmd EXCEPT ![item[d].key].status = status,
                     ![item[d].key].owner = NoOwner, ![item[d].key].lapsed = FALSE,
                     ![item[d].key].due = FALSE]

Conflict(d) ==
  /\ ~Owned(d)
  /\ pc' = [pc EXCEPT ![d] = "fail"]
  /\ UNCHANGED <<cmd, item>>

Apply(d) ==
  /\ pc[d] = "apply"
  /\ \/ /\ Owned(d)
        /\ Mark(d, "applied")
        /\ pc' = [pc EXCEPT ![d] = "notify"]
        /\ UNCHANGED item
     \/ Conflict(d)
  /\ UNCHANGED <<revision, latest, started, clock, crashes>>

\* onCommandApplied is awaited inside the same try block.
Notify(d) ==
  /\ pc[d] = "notify"
  /\ \/ Leave(d)
     \/ pc' = [pc EXCEPT ![d] = "fail"] /\ UNCHANGED item
  /\ UNCHANGED <<revision, latest, cmd, started, clock, crashes>>

Supersede(d) ==
  /\ pc[d] = "supersede"
  /\ \/ /\ Owned(d)
        /\ Mark(d, "superseded")
        /\ Leave(d)
     \/ Conflict(d)
  /\ UNCHANGED <<revision, latest, started, clock, crashes>>

\* The catch block: its own conflict ends the drain.
Fail(d) ==
  /\ pc[d] = "fail"
  /\ \/ Owned(d) /\ Mark(d, "failed")
     \/ ~Owned(d) /\ UNCHANGED cmd
  /\ Leave(d)
  /\ UNCHANGED <<revision, latest, started, clock, crashes>>

-----------------------------------------------------------------------------
\* Time and crashes.

HandledBy(d, k) == pc[d] \in Working /\ item[d].key = k

LeaseLapses(k) ==
  /\ cmd[k].status = "claimed" /\ ~cmd[k].lapsed
  /\ Lapses \/ \A d \in Drains : ~HandledBy(d, k)
  /\ cmd' = [cmd EXCEPT ![k].lapsed = TRUE]
  /\ UNCHANGED <<revision, latest, drains, started, clock, crashes>>

RetryDue(k) ==
  /\ cmd[k].status = "failed" /\ cmd[k].attempt < MaxAttempts /\ ~cmd[k].due
  /\ cmd' = [cmd EXCEPT ![k].due = TRUE]
  /\ UNCHANGED <<revision, latest, drains, started, clock, crashes>>

\* A server process ends and is started again under another process id.
Crash(o) ==
  /\ crashes < MaxCrashes
  /\ crashes' = crashes + 1
  /\ pc' = [d \in Drains |-> IF OwnerOf[d] = o THEN "idle" ELSE pc[d]]
  /\ item' = [d \in Drains |-> IF OwnerOf[d] = o THEN Nothing ELSE item[d]]
  /\ cmd' = [k \in Keys |-> IF cmd[k].owner = o THEN [cmd[k] EXCEPT !.owner = DeadOwner]
                                               ELSE cmd[k]]
  /\ UNCHANGED <<revision, latest, started, clock>>

DrainStep(d) ==
  \/ ReleaseExpired(d)
  \/ (\E k \in Keys : Claim(d, k)) \/ NothingToClaim(d)
  \/ Check(d) \/ Run(d) \/ Apply(d) \/ Notify(d) \/ Supersede(d) \/ Fail(d)

Next ==
  \/ \E t \in Tasks : Finalize(t)
  \/ \E d \in Drains : DrainStep(d)
  \/ \E k \in Keys : LeaseLapses(k) \/ RetryDue(k)
  \/ \E o \in Owners : Crash(o)

Spec == Init /\ [][Next]_vars

(***************************************************************************)
(* The worker's tick drains again and again, its handlers end (they bound  *)
(* the time of what they run), and time passes.                            *)
(***************************************************************************)
FairSpec ==
  /\ Spec
  /\ \A d \in Drains : WF_vars(DrainStep(d))
  /\ \A k \in Keys : WF_vars(LeaseLapses(k)) /\ WF_vars(RetryDue(k))

-----------------------------------------------------------------------------
\* Properties.

\* Whatever expires, crashes, fails or is decided, no command is attempted more
\* than MaxAttempts times, and one that waits has an attempt left
\* (claimNextCommand, releaseExpiredLeases).
AttemptsBounded ==
  \A k \in Keys :
    /\ cmd[k].attempt <= MaxAttempts
    /\ cmd[k].status = "pending" => cmd[k].attempt < MaxAttempts

\* Each attempt starts the effect of its command at most once: with
\* AttemptsBounded, a bound on how often an effect outside the state runs
\* (claimNextCommand is the only way into runOnce's handler).
OneStartPerAttempt ==
  [][\A d \in Drains :
       (pc[d] = "check" /\ pc'[d] = "run") =>
          item[d].attempt \notin started[item[d].key]]_vars

\* While no handler outlasts its lease, a drain that works on a command still
\* has it claimed, and no other drain works on it: nothing supersedes, releases
\* or claims a command under a running handler (updateClaimed, runOnce).
HandlerHasLease ==
  \A d \in Drains :
    pc[d] \in {"check", "run", "apply", "supersede"} =>
       /\ Owned(d)
       /\ \A e \in Drains \ {d} :
            pc[e] \in {"check", "run", "apply", "supersede"} => item[e].key # item[d].key

\* An applied command stays applied and a superseded one superseded: no late
\* mark, expiry, retry or decision brings an effect back (updateClaimed,
\* supersedeStaleProgressionCommandsInState, createProgressionCommandInState).
SettledStays ==
  [][\A k \in Keys :
       cmd[k].status \in {"applied", "superseded"} => cmd'[k].status = cmd[k].status]_vars

\* A drain that lost its lease cannot mark the attempt of a drain of another
\* process that has the command now: what a mark ends is the attempt of a drain
\* of its own process that is at work on it, itself or, as the owner string is
\* one per process, another one (updateClaimed's owner test; drain's owner in
\* codex-worker-runner.mjs:778).
MarkWithinProcess ==
  [][\A d \in Drains :
       (/\ pc[d] \in {"apply", "supersede", "fail"} /\ pc'[d] # pc[d]
        /\ cmd'[item[d].key].status # cmd[item[d].key].status)
         => \E e \in Drains :
              /\ OwnerOf[e] = OwnerOf[d] /\ pc[e] \in Working
              /\ item[e] = [key |-> item[d].key, attempt |-> cmd[item[d].key].attempt]]_vars

Settled(k) ==
  \/ cmd[k].status \in {"applied", "superseded"}
  \/ cmd[k].status = "failed" /\ cmd[k].attempt = MaxAttempts

\* Every command that was created is settled in the end: crashed drains, expired
\* leases and failing handlers delay it and do not strand it (drain, runOnce).
EveryCommandSettles == \A k \in Keys : (cmd[k].status = "pending") ~> Settled(k)

\* What has become of a command: one that failed and has an attempt left waits.
Stage(c) ==
  CASE c.status \in {"absent", "claimed", "applied", "superseded"} -> c.status
    [] c.status \in {"pending", "failed"} ->
         IF c.attempt < MaxAttempts THEN "waiting" ELSE "exhausted"

Lifecycle == INSTANCE CommandLifecycle WITH
  Commands <- Keys,
  stage <- [k \in Keys |-> Stage(cmd[k])],
  tries <- [k \in Keys |-> cmd[k].attempt],
  begun <- started

\* Overlapping drains, lapsing leases, late marks and crashes keep what the store
\* promises of each command: bounded attempts, an effect before "applied", and
\* nothing after it (runOnce, updateClaimed).
KeepsLifecycle == Lifecycle!Spec

\* An effect starts only if the task's latest decision asks for it: a new
\* decision supersedes what the earlier ones left open.
StartsLatestOnly ==
  [][\A d \in Drains :
       (pc[d] = "check" /\ pc'[d] = "run") =>
          item[d].key \in latest[item[d].key.task]]_vars
=============================================================================
