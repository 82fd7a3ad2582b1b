------------------------- MODULE ProgressionProofs -------------------------
(***************************************************************************)
(* What holds of the progression commands for every number of drains,      *)
(* tasks, decisions, attempts and crashes.                                 *)
(***************************************************************************)
EXTENDS ProgressionCommands, TLAPS

WaitingHasAttempt ==
  \A k \in Keys : /\ cmd[k].status = "pending" => cmd[k].attempt < MaxAttempts
                  /\ cmd[k].status = "absent" => cmd[k].attempt = 0

\* A drain works on one of the attempts its command has had, no two drains on
\* the same one.
ItemsAreAttempts ==
  \A d \in Drains : pc[d] \in Working =>
    /\ item[d].key \in Keys
    /\ item[d].attempt \in 1 .. cmd[item[d].key].attempt

AttemptsDiffer ==
  \A d, e \in Drains :
    (d # e /\ pc[d] \in Working /\ pc[e] \in Working /\ item[d].key = item[e].key)
      => item[d].attempt # item[e].attempt

StartsAreAttempts == \A k \in Keys : started[k] \subseteq 1 .. cmd[k].attempt

CheckIsNew ==
  \A d \in Drains : pc[d] = "check" => item[d].attempt \notin started[item[d].key]

(***************************************************************************)
(* The inductive invariant.  The type invariant alone is not inductive: an *)
(* attempt stays in range because what waits has an attempt left, and a    *)
(* start is one of the attempts because what a drain works on is.          *)
(***************************************************************************)
IInv ==
  /\ TypeOK
  /\ WaitingHasAttempt
  /\ ItemsAreAttempts
  /\ AttemptsDiffer
  /\ StartsAreAttempts
  /\ CheckIsNew

\* Which fields of a command the steps other than a claim can change.
Kept(c, n) ==
  /\ n \in Command
  /\ n.attempt = c.attempt
  /\ n.status = "pending" => (c.status = "pending" \/ n.attempt < MaxAttempts)
  /\ n.status = "absent" => c.status = "absent"

CommandsKept == cmd' \in [Keys -> Command] /\ \A k \in Keys : Kept(cmd[k], cmd'[k])

LEMMA KeptSame == ASSUME TypeOK, UNCHANGED cmd PROVE CommandsKept
  BY DEF TypeOK, CommandsKept, Kept

LEMMA CreateKept ==
  ASSUME NEW c \in Command, c.status = "absent" => c.attempt = 0, clock \in Nat,
         clock < MaxDecisions
  PROVE  Kept(c, Create(c))
<1>1. CASE c.status # "absent"
  BY <1>1 DEF Create, Kept
<1>2. CASE c.status = "absent"
  <2> DEFINE n == [status |-> "pending", attempt |-> 0, owner |-> NoOwner,
                   lapsed |-> FALSE, due |-> FALSE, created |-> clock + 1]
  <2>1. Create(c) = n
    BY <1>2 DEF Create, Absent
  <2>2. n \in Command /\ n.attempt = 0 /\ n.status = "pending"
    BY ProgressionAssumption DEF Command
  <2>3. QED
    BY <1>2, <2>1, <2>2, ProgressionAssumption DEF Kept
<1>3. QED
  BY <1>1, <1>2

LEMMA DecideKept ==
  ASSUME TypeOK, WaitingHasAttempt, NEW t \in Tasks, NEW effects, NEW payload, NEW seen,
         Decide(t, effects, payload, seen)
  PROVE  CommandsKept
<1> DEFINE rev == NextRevision(seen)
           new == KeysOf(t, rev, effects, payload)
<1>1. cmd' = [k \in Keys |->
               CASE Stale(k, t, rev) -> [cmd[k] EXCEPT !.status = "superseded"]
                 [] k \in new -> Create(cmd[k])
                 [] OTHER -> cmd[k]]
  BY DEF Decide
<1>2. ASSUME NEW k \in Keys PROVE Kept(cmd[k], cmd'[k])
  <2>1. cmd[k] \in Command /\ (cmd[k].status = "absent" => cmd[k].attempt = 0)
    BY <1>2 DEF TypeOK, WaitingHasAttempt
  <2>2. CASE Stale(k, t, rev)
    <3>1. cmd'[k] = [cmd[k] EXCEPT !.status = "superseded"]
      <4>1. k \notin new
        BY <2>2 DEF Stale, KeysOf
      <4>2. QED
        BY <1>1, <1>2, <2>2, <4>1
    <3>2. QED
      BY <2>1, <3>1 DEF Kept, Command
  <2>3. CASE ~Stale(k, t, rev) /\ k \in new
    <3>1. cmd'[k] = Create(cmd[k])
      BY <1>1, <2>3
    <3>2. QED
      BY <2>1, <3>1, CreateKept DEF TypeOK, Decide
  <2>4. CASE ~Stale(k, t, rev) /\ k \notin new
    <3>1. cmd'[k] = cmd[k]
      BY <1>1, <2>4
    <3>2. QED
      BY <2>1, <3>1 DEF Kept
  <2>5. QED
    BY <2>2, <2>3, <2>4
<1>3. QED
  BY <1>1, <1>2 DEF CommandsKept, Kept

LEMMA ReleaseKept ==
  ASSUME TypeOK, NEW d \in Drains, ReleaseExpired(d)
  PROVE  CommandsKept
<1>1. ASSUME NEW k \in Keys PROVE Kept(cmd[k], cmd'[k])
  <2>1. cmd[k] \in Command
    BY <1>1 DEF TypeOK
  <2>2. CASE Expired(cmd[k])
    <3>1. cmd'[k] = Released(cmd[k])
      BY <1>1, <2>2 DEF ReleaseExpired
    <3>2. CASE cmd[k].attempt >= MaxAttempts
      BY <2>1, <3>1, <3>2 DEF Released, Kept, Command
    <3>3. CASE ~(cmd[k].attempt >= MaxAttempts)
      <4>1. cmd[k].attempt < MaxAttempts
        BY <2>1, <3>3, ProgressionAssumption DEF Command
      <4>2. QED
        BY <2>1, <3>1, <3>3, <4>1 DEF Released, Kept, Command
    <3>4. QED
      BY <3>2, <3>3
  <2>3. CASE ~Expired(cmd[k])
    BY <1>1, <2>1, <2>3 DEF ReleaseExpired, Kept
  <2>4. QED
    BY <2>2, <2>3
<1>2. QED
  BY <1>1 DEF CommandsKept, Kept, ReleaseExpired

LEMMA MarkKept ==
  ASSUME TypeOK, NEW d \in Drains, item[d].key \in Keys,
         NEW s \in {"applied", "failed", "superseded"}, Mark(d, s)
  PROVE  CommandsKept
<1>1. PICK m \in Keys : m = item[d].key
  OBVIOUS
<1>2. PICK new : new = [cmd[m] EXCEPT !.status = s, !.owner = NoOwner,
                                      !.lapsed = FALSE, !.due = FALSE]
  OBVIOUS
<1>3. cmd' = [cmd EXCEPT ![m] = new]
  BY <1>1, <1>2 DEF Mark, TypeOK
<1>4. cmd[m] \in Command /\ \A k \in Keys : cmd[k] \in Command
  BY DEF TypeOK
<1>5. new \in Command /\ new.attempt = cmd[m].attempt /\ new.status = s
  BY <1>2, <1>4 DEF Command
<1>6. ASSUME NEW k \in Keys PROVE Kept(cmd[k], cmd'[k])
  <2>1. CASE k = m
    BY <1>3, <1>5, <2>1 DEF Kept, TypeOK
  <2>2. CASE k # m
    BY <1>3, <1>4, <2>2 DEF Kept, TypeOK
  <2>3. QED
    BY <2>1, <2>2
<1>7. cmd' \in [Keys -> Command]
  BY <1>3, <1>5 DEF TypeOK
<1>8. QED
  BY <1>6, <1>7 DEF CommandsKept

LEMMA TimeKept ==
  ASSUME TypeOK, NEW k \in Keys, LeaseLapses(k) \/ RetryDue(k)
  PROVE  CommandsKept
<1>1. ASSUME NEW j \in Keys PROVE Kept(cmd[j], cmd'[j])
  <2>1. cmd[j] \in Command
    BY <1>1 DEF TypeOK
  <2>2. cmd'[j] \in {cmd[j], [cmd[j] EXCEPT !.lapsed = TRUE], [cmd[j] EXCEPT !.due = TRUE]}
    BY <1>1 DEF TypeOK, LeaseLapses, RetryDue
  <2>3. QED
    BY <2>1, <2>2 DEF Kept, Command
<1>2. QED
  BY <1>1 DEF CommandsKept, Kept, LeaseLapses, RetryDue, TypeOK

LEMMA CrashKept ==
  ASSUME TypeOK, NEW o \in Owners, Crash(o)
  PROVE  CommandsKept
<1>1. ASSUME NEW k \in Keys PROVE Kept(cmd[k], cmd'[k])
  BY <1>1 DEF Crash, Kept, Command, TypeOK
<1>2. QED
  BY <1>1 DEF CommandsKept, Kept, Crash

(***************************************************************************)
(* A step that keeps the commands, starts nothing and gives no drain an    *)
(* item keeps the invariant.                                               *)
(***************************************************************************)
DrainsKept ==
  /\ pc' \in [Drains -> {"idle", "claim"} \cup Working]
  /\ item' \in [Drains -> [key : Keys \cup {NoKey}, attempt : 0 .. MaxAttempts]]
  /\ \A d \in Drains : pc'[d] \in Working =>
       pc[d] \in Working /\ item'[d] = item[d]
  /\ \A d \in Drains : pc'[d] = "check" => pc[d] = "check"

LEMMA KeptInvariant ==
  ASSUME IInv, CommandsKept, DrainsKept, started' = started,
         revision' \in [Tasks -> 0 .. MaxDecisions],
         latest' \in [Tasks -> SUBSET Keys],
         clock' \in 0 .. MaxDecisions, crashes' \in 0 .. MaxCrashes
  PROVE  IInv'
<1>1. TypeOK'
  BY DEF IInv, TypeOK, CommandsKept, DrainsKept
<1>2. WaitingHasAttempt'
  BY DEF IInv, WaitingHasAttempt, CommandsKept, Kept
<1>3. ItemsAreAttempts'
  BY DEF IInv, ItemsAreAttempts, CommandsKept, Kept, DrainsKept
<1>4. AttemptsDiffer'
  BY DEF IInv, AttemptsDiffer, DrainsKept
<1>5. StartsAreAttempts'
  BY DEF IInv, StartsAreAttempts, CommandsKept, Kept
<1>6. CheckIsNew'
  BY DEF IInv, CheckIsNew, DrainsKept, Working
<1>7. QED
  BY <1>1, <1>2, <1>3, <1>4, <1>5, <1>6 DEF IInv

(***************************************************************************)
(* Each action keeps the invariant.                                        *)
(***************************************************************************)

LEMMA InitInvariant == Init => IInv
<1> SUFFICES ASSUME Init PROVE IInv
  OBVIOUS
<1>1. TypeOK
  BY ProgressionAssumption
     DEF Init, TypeOK, Absent, Command, Nothing, Working
<1>2. QED
  BY <1>1 DEF Init, IInv, WaitingHasAttempt, ItemsAreAttempts, AttemptsDiffer,
              StartsAreAttempts, CheckIsNew, Absent, Working

LEMMA FinalizeInvariant ==
  ASSUME IInv, NEW t \in Tasks, Finalize(t)
  PROVE  IInv'
<1>1. PICK effects \in EffectSets, payload \in 1 .. clock + 1,
           seen \in {revision[t]} \cup (IF StaleViews THEN {0} ELSE {}) :
             Decide(t, effects, payload, seen)
  BY DEF Finalize
<1>2. clock \in Nat /\ clock < MaxDecisions /\ MaxDecisions \in Nat
      /\ seen \in 0 .. MaxDecisions
  BY <1>1, ProgressionAssumption DEF IInv, TypeOK, Decide
<1>3. NextRevision(seen) \in Decisions /\ payload \in Decisions /\ clock + 1 \in Decisions
  BY <1>2 DEF NextRevision, Decisions
<1>4. KeysOf(t, NextRevision(seen), effects, payload) \subseteq Keys
  BY <1>3 DEF KeysOf, Keys, Actions
<1>5. CommandsKept
  BY <1>1, DecideKept DEF IInv
<1>6. /\ revision' \in [Tasks -> 0 .. MaxDecisions]
      /\ latest' \in [Tasks -> SUBSET Keys]
      /\ clock' \in 0 .. MaxDecisions
  BY <1>1, <1>2, <1>3, <1>4 DEF Decide, IInv, TypeOK, Decisions
<1>7. DrainsKept /\ started' = started /\ crashes' = crashes
  BY <1>1 DEF Decide, drains, DrainsKept, IInv, TypeOK
<1>8. QED
  BY <1>5, <1>6, <1>7, KeptInvariant DEF IInv, TypeOK

\* A claim is the one step that gives a command an attempt and a drain an item.
LEMMA ClaimInvariant ==
  ASSUME IInv, NEW d \in Drains, NEW k \in Keys, Claim(d, k)
  PROVE  IInv'
<1>1. /\ cmd[k] \in Command /\ pc[d] = "claim"
      /\ cmd[k].attempt < MaxAttempts /\ cmd[k].attempt \in Nat
      /\ MaxAttempts \in Nat
  BY ProgressionAssumption
     DEF IInv, TypeOK, WaitingHasAttempt, Claim, Oldest, Claimable, Command
<1> DEFINE n == cmd[k].attempt + 1
           c == [status |-> "claimed", attempt |-> n, owner |-> OwnerOf[d],
                 lapsed |-> FALSE, due |-> cmd[k].due, created |-> cmd[k].created]
<1>2. n \in 1 .. MaxAttempts
  BY <1>1
<1>3. c \in Command
  BY <1>1, <1>2 DEF Command, Owners
<1>4. cmd' = [cmd EXCEPT ![k] = c]
  BY <1>1 DEF Claim, Command, IInv, TypeOK
<1>5. item' = [item EXCEPT ![d] = [key |-> k, attempt |-> n]]
      /\ pc' = [pc EXCEPT ![d] = "check"] /\ started' = started
  BY DEF Claim
<1> HIDE DEF c
<1>6. TypeOK'
  <2>1. cmd' \in [Keys -> Command]
    BY <1>3, <1>4 DEF IInv, TypeOK
  <2>2. [key |-> k, attempt |-> n] \in [key : Keys \cup {NoKey}, attempt : 0 .. MaxAttempts]
    BY <1>1, <1>2
  <2>3. item' \in [Drains -> [key : Keys \cup {NoKey}, attempt : 0 .. MaxAttempts]]
    BY <1>5, <2>2 DEF IInv, TypeOK
  <2>4. pc' \in [Drains -> {"idle", "claim"} \cup Working]
    BY <1>5 DEF IInv, TypeOK, Working
  <2>5. QED
    BY <2>1, <2>3, <2>4 DEF IInv, TypeOK, Claim
<1>7. cmd'[k].attempt = n /\ cmd'[k].status = "claimed"
      /\ \A j \in Keys \ {k} : cmd'[j] = cmd[j]
  BY <1>4 DEF IInv, TypeOK, c
<1>8. WaitingHasAttempt'
  BY <1>7 DEF IInv, WaitingHasAttempt
<1>9. \A e \in Drains \ {d} : pc'[e] = pc[e] /\ item'[e] = item[e]
  BY <1>5 DEF IInv, TypeOK
<1>10. pc'[d] = "check" /\ item'[d].key = k /\ item'[d].attempt = n
  BY <1>5 DEF IInv, TypeOK
<1>11. ItemsAreAttempts'
  BY <1>1, <1>2, <1>7, <1>9, <1>10 DEF IInv, ItemsAreAttempts
<1>12. \A e \in Drains \ {d} : (pc[e] \in Working /\ item[e].key = k) => item[e].attempt # n
  BY <1>1 DEF IInv, ItemsAreAttempts
<1>13. AttemptsDiffer'
  BY <1>9, <1>10, <1>12 DEF IInv, AttemptsDiffer
<1>14. StartsAreAttempts'
  BY <1>1, <1>5, <1>7 DEF IInv, StartsAreAttempts
<1>15. CheckIsNew'
  <2>1. n \notin started[k]
    BY <1>1 DEF IInv, StartsAreAttempts
  <2>2. QED
    BY <2>1, <1>5, <1>9, <1>10 DEF IInv, CheckIsNew
<1>16. QED
  BY <1>6, <1>8, <1>11, <1>13, <1>14, <1>15 DEF IInv

LEMMA CheckInvariant ==
  ASSUME IInv, NEW d \in Drains, Check(d)
  PROVE  IInv'
<1>1. /\ item[d].key \in Keys
      /\ item[d].attempt \in 1 .. cmd[item[d].key].attempt
      /\ cmd[item[d].key] \in Command
  BY DEF IInv, TypeOK, ItemsAreAttempts, Check, Working
<1>2. item[d].attempt \in 1 .. MaxAttempts
  BY <1>1, ProgressionAssumption DEF Command
<1>3. CommandsKept /\ cmd' = cmd
  BY KeptSame DEF IInv, Check
<1>4. CASE pc' = [pc EXCEPT ![d] = "supersede"] /\ started' = started
  <2>1. DrainsKept
    BY <1>4 DEF Check, DrainsKept, IInv, TypeOK, Working
  <2>2. QED
    BY <1>3, <1>4, <2>1, KeptInvariant DEF Check, IInv, TypeOK
<1>5. CASE /\ pc' = [pc EXCEPT ![d] = "run"]
           /\ started' = [started EXCEPT ![item[d].key] = @ \cup {item[d].attempt}]
  <2>1. TypeOK'
    BY <1>2, <1>5 DEF Check, IInv, TypeOK, Working
  <2>2. WaitingHasAttempt' /\ ItemsAreAttempts' /\ AttemptsDiffer'
    <3>1. cmd' = cmd /\ item' = item
      BY DEF Check
    <3>2. \A e \in Drains : pc'[e] \in Working => pc[e] \in Working
      BY <1>5 DEF Check, IInv, TypeOK, Working
    <3>3. WaitingHasAttempt'
      BY <3>1 DEF IInv, WaitingHasAttempt
    <3>4. ItemsAreAttempts'
      BY <3>1, <3>2 DEF IInv, ItemsAreAttempts
    <3>5. AttemptsDiffer'
      BY <3>1, <3>2 DEF IInv, AttemptsDiffer
    <3>6. QED
      BY <3>3, <3>4, <3>5
  <2>3. StartsAreAttempts'
    BY <1>1, <1>3, <1>5 DEF IInv, TypeOK, StartsAreAttempts
  <2>4. CheckIsNew'
    <3>1. ASSUME NEW e \in Drains, pc'[e] = "check"
          PROVE  item'[e].attempt \notin started'[item'[e].key]
      <4>1. e # d /\ pc[e] = "check" /\ item' = item
        BY <1>5, <3>1 DEF Check, IInv, TypeOK
      <4>2. item[e].attempt \notin started[item[e].key] /\ item[e].key \in Keys
        BY <4>1 DEF IInv, CheckIsNew, ItemsAreAttempts, Working
      <4>3. item[e].key = item[d].key => item[e].attempt # item[d].attempt
        BY <4>1 DEF IInv, AttemptsDiffer, Check, Working
      <4>4. QED
        BY <1>1, <1>5, <4>1, <4>2, <4>3 DEF IInv, TypeOK
    <3>2. QED
      BY <3>1 DEF CheckIsNew
  <2>5. QED
    BY <2>1, <2>2, <2>3, <2>4 DEF IInv
<1>6. QED
  BY <1>4, <1>5 DEF Check

\* The other steps of a drain keep the commands and start nothing.
LEMMA DrainInvariant ==
  ASSUME IInv, NEW d \in Drains,
         \/ ReleaseExpired(d) \/ NothingToClaim(d) \/ Run(d)
         \/ Apply(d) \/ Notify(d) \/ Supersede(d) \/ Fail(d)
  PROVE  IInv'
<1>1. pc[d] \in Working => item[d].key \in Keys
  BY DEF IInv, ItemsAreAttempts
<1>2. CommandsKept
  <2>1. CASE ReleaseExpired(d)
    BY <2>1, ReleaseKept DEF IInv
  <2>2. CASE NothingToClaim(d) \/ Run(d) \/ Notify(d)
    BY <2>2, KeptSame DEF IInv, NothingToClaim, Run, Notify
  <2>3. CASE Apply(d)
    <3>1. Mark(d, "applied") \/ UNCHANGED cmd
      BY <2>3 DEF Apply, Conflict
    <3>2. QED
      BY <1>1, <2>3, <3>1, MarkKept, KeptSame DEF IInv, Apply, Working
  <2>4. CASE Supersede(d)
    <3>1. Mark(d, "superseded") \/ UNCHANGED cmd
      BY <2>4 DEF Supersede, Conflict
    <3>2. QED
      BY <1>1, <2>4, <3>1, MarkKept, KeptSame DEF IInv, Supersede, Working
  <2>5. CASE Fail(d)
    <3>1. Mark(d, "failed") \/ UNCHANGED cmd
      BY <2>5 DEF Fail
    <3>2. QED
      BY <1>1, <2>5, <3>1, MarkKept, KeptSame DEF IInv, Fail, Working
  <2>6. QED
    BY <2>1, <2>2, <2>3, <2>4, <2>5
<1>3. Nothing \in [key : Keys \cup {NoKey}, attempt : 0 .. MaxAttempts]
  BY ProgressionAssumption DEF Nothing
<1>4. DrainsKept
  <2>1. CASE Leave(d) /\ pc[d] \in Working \cup {"claim"}
    BY <1>3, <2>1 DEF Leave, DrainsKept, IInv, TypeOK, Working
  <2>2. CASE UNCHANGED item /\ pc[d] \in Working
             /\ \E next \in {"apply", "fail", "notify"} : pc' = [pc EXCEPT ![d] = next]
    BY <2>2 DEF DrainsKept, IInv, TypeOK, Working
  <2>3. CASE UNCHANGED item /\ pc' = [pc EXCEPT ![d] = "claim"]
    BY <2>3 DEF DrainsKept, IInv, TypeOK, Working
  <2>4. QED
    BY <2>1, <2>2, <2>3
       DEF ReleaseExpired, NothingToClaim, Run, Apply, Notify, Supersede, Fail, Conflict,
           Working
<1>5. started' = started /\ revision' = revision /\ latest' = latest
      /\ clock' = clock /\ crashes' = crashes
  BY DEF ReleaseExpired, NothingToClaim, Run, Apply, Notify, Supersede, Fail
<1>6. QED
  BY <1>2, <1>4, <1>5, KeptInvariant DEF IInv, TypeOK

LEMMA WorldInvariant ==
  ASSUME IInv, \/ \E k \in Keys : LeaseLapses(k) \/ RetryDue(k)
               \/ \E o \in Owners : Crash(o)
  PROVE  IInv'
<1>1. CASE \E k \in Keys : LeaseLapses(k) \/ RetryDue(k)
  <2>1. CommandsKept
    BY <1>1, TimeKept DEF IInv
  <2>2. UNCHANGED <<revision, latest, pc, item, started, clock, crashes>>
    BY <1>1 DEF LeaseLapses, RetryDue, drains
  <2>3. DrainsKept
    BY <2>2 DEF DrainsKept, IInv, TypeOK
  <2>4. QED
    BY <2>1, <2>2, <2>3, KeptInvariant DEF IInv, TypeOK
<1>2. CASE \E o \in Owners : Crash(o)
  <2>1. PICK o \in Owners : Crash(o)
    BY <1>2
  <2>2. CommandsKept
    BY <2>1, CrashKept DEF IInv
  <2>3. Nothing \in [key : Keys \cup {NoKey}, attempt : 0 .. MaxAttempts]
    BY ProgressionAssumption DEF Nothing
  <2>4. DrainsKept
    BY <2>1, <2>3 DEF Crash, DrainsKept, IInv, TypeOK, Working
  <2>5. crashes' \in 0 .. MaxCrashes
    BY <2>1, ProgressionAssumption DEF Crash, IInv, TypeOK
  <2>6. QED
    BY <2>1, <2>2, <2>4, <2>5, KeptInvariant DEF Crash, IInv, TypeOK
<1>3. QED
  BY <1>1, <1>2

LEMMA StepInvariant == IInv /\ [Next]_vars => IInv'
<1> SUFFICES ASSUME IInv, [Next]_vars PROVE IInv'
  OBVIOUS
<1>1. CASE UNCHANGED vars
  BY <1>1 DEF vars, drains, IInv, TypeOK, WaitingHasAttempt, ItemsAreAttempts,
              AttemptsDiffer, StartsAreAttempts, CheckIsNew
<1>2. CASE \E t \in Tasks : Finalize(t)
  BY <1>2, FinalizeInvariant
<1>3. CASE \E d \in Drains : DrainStep(d)
  BY <1>3, ClaimInvariant, CheckInvariant, DrainInvariant DEF DrainStep
<1>4. CASE \/ \E k \in Keys : LeaseLapses(k) \/ RetryDue(k)
           \/ \E o \in Owners : Crash(o)
  BY <1>4, WorldInvariant
<1>5. QED
  BY <1>1, <1>2, <1>3, <1>4 DEF Next

LEMMA Invariance == Spec => []IInv
<1>1. QED
  BY InitInvariant, StepInvariant, PTL DEF Spec

(***************************************************************************)
(* The theorems.                                                           *)
(***************************************************************************)

\* Type correctness of the command store and its drains.
THEOREM TypeTheorem == Spec => []TypeOK
<1>1. IInv => TypeOK
  BY DEF IInv
<1>2. QED
  BY <1>1, Invariance, PTL

\* No command is attempted more than MaxAttempts times, and one that waits has
\* an attempt left (claimNextCommand, releaseExpiredLeases).
THEOREM AttemptsTheorem == Spec => []AttemptsBounded
<1>1. IInv => AttemptsBounded
  BY DEF IInv, TypeOK, WaitingHasAttempt, AttemptsBounded, Command
<1>2. QED
  BY <1>1, Invariance, PTL

\* However many drains overlap and however many leases lapse under them, an
\* attempt starts its effect at most once (claimNextCommand, runOnce).
THEOREM OneStartTheorem == Spec => OneStartPerAttempt
<1>1. IInv /\ [Next]_vars =>
        [\A d \in Drains : (pc[d] = "check" /\ pc'[d] = "run") =>
            item[d].attempt \notin started[item[d].key]]_vars
  BY DEF IInv, CheckIsNew
<1>2. QED
  BY <1>1, Invariance, PTL DEF Spec, OneStartPerAttempt

\* An applied command stays applied and a superseded one superseded, whatever
\* late marks, expiries, retries and decisions follow (updateClaimed,
\* supersedeStaleProgressionCommandsInState, createProgressionCommandInState).
THEOREM SettledTheorem == Spec => SettledStays
<1> DEFINE Stays(k) ==
      cmd[k].status \in {"applied", "superseded"} => cmd'[k].status = cmd[k].status
<1>1. ASSUME IInv, Next, NEW k \in Keys PROVE Stays(k)
  <2>1. cmd[k] \in Command
    BY <1>1 DEF IInv, TypeOK
  <2>2. CASE UNCHANGED cmd
    BY <2>2
  <2>3. ASSUME NEW d \in Drains, pc[d] \in Working, Owned(d),
               \E s \in {"applied", "failed", "superseded"} : Mark(d, s)
        PROVE  Stays(k)
    BY <1>1, <2>1, <2>3 DEF Owned, Mark, IInv, TypeOK, ItemsAreAttempts
  <2>4. ASSUME NEW d \in Drains, DrainStep(d) PROVE Stays(k)
    <3>1. CASE ReleaseExpired(d)
      BY <2>1, <3>1 DEF ReleaseExpired, Expired
    <3>2. CASE \E j \in Keys : Claim(d, j)
      BY <1>1, <2>1, <3>2 DEF Claim, Oldest, Claimable, IInv, TypeOK
    <3>3. CASE \/ NothingToClaim(d) \/ Check(d) \/ Run(d) \/ Notify(d)
      BY <2>2, <3>3 DEF NothingToClaim, Check, Run, Notify
    <3>4. CASE Apply(d) \/ Supersede(d) \/ Fail(d)
      BY <2>2, <2>3, <3>4 DEF Apply, Supersede, Fail, Conflict, Working
    <3>5. QED
      BY <2>4, <3>1, <3>2, <3>3, <3>4 DEF DrainStep
  <2>5. ASSUME NEW t \in Tasks, Finalize(t) PROVE Stays(k)
    <3>1. PICK effects, payload, seen : Decide(t, effects, payload, seen)
      BY <2>5 DEF Finalize
    <3>2. CASE ~Stale(k, t, NextRevision(seen))
               /\ k \in KeysOf(t, NextRevision(seen), effects, payload)
      <4>1. cmd'[k] = Create(cmd[k])
        BY <3>1, <3>2 DEF Decide
      <4>2. QED
        BY <4>1 DEF Create
    <3>3. CASE ~Stale(k, t, NextRevision(seen))
               /\ k \notin KeysOf(t, NextRevision(seen), effects, payload)
      BY <3>1, <3>3 DEF Decide
    <3>4. CASE Stale(k, t, NextRevision(seen))
      BY <3>4 DEF Stale
    <3>5. QED
      BY <3>2, <3>3, <3>4
  <2>6. ASSUME NEW j \in Keys, LeaseLapses(j) \/ RetryDue(j) PROVE Stays(k)
    BY <1>1, <2>1, <2>6 DEF LeaseLapses, RetryDue, IInv, TypeOK, Command
  <2>7. ASSUME NEW o \in Owners, Crash(o) PROVE Stays(k)
    BY <2>1, <2>7 DEF Crash, Command
  <2>8. QED
    BY <1>1, <2>4, <2>5, <2>6, <2>7 DEF Next
<1>2. IInv /\ [Next]_vars => [\A k \in Keys : Stays(k)]_vars
  BY <1>1
<1>3. QED
  BY <1>2, Invariance, PTL DEF Spec, SettledStays

(***************************************************************************)
(* The lifecycle.  Every step concerns each command in one of the ways     *)
(* CommandLifecycle names; that a command is applied after its effect was  *)
(* started needs the drains' program counters in the invariant.            *)
(***************************************************************************)
EffectWasStarted ==
  \A d \in Drains : pc[d] \in {"run", "apply"} => started[item[d].key] # {}

BInv == IInv /\ EffectWasStarted

\* How a step concerns the command k.
Follows(k) ==
  \/ Lifecycle!Stays(k) \/ Lifecycle!Create(k) \/ Lifecycle!HandOut(k)
  \/ Lifecycle!Begin(k) \/ Lifecycle!TakeBack(k) \/ Lifecycle!Apply(k)
  \/ Lifecycle!Supersede(k)

LEMMA StageOf ==
  ASSUME NEW c \in Command
  PROVE  /\ c.status \in {"absent", "claimed", "applied", "superseded"} => Stage(c) = c.status
         /\ c.status \in {"pending", "failed"} =>
              Stage(c) = IF c.attempt < MaxAttempts THEN "waiting" ELSE "exhausted"
BY DEF Stage

LEMMA MovesBridge ==
  ASSUME NEW k \in Keys, NEW from, Stage(cmd[k]) \in from, NEW to, Stage(cmd'[k]) = to,
         cmd'[k].attempt = cmd[k].attempt, started'[k] = started[k]
  PROVE  Lifecycle!Moves(k, from, to)
BY DEF Lifecycle!Moves

LEMMA SameStage ==
  ASSUME NEW k \in Keys, cmd'[k].status = cmd[k].status,
         cmd'[k].attempt = cmd[k].attempt, started'[k] = started[k]
  PROVE  Follows(k)
<1>1. Stage(cmd'[k]) = Stage(cmd[k])
  BY DEF Stage
<1>2. Lifecycle!Stays(k)
  BY <1>1 DEF Lifecycle!Stays, Lifecycle!Moves
<1>3. QED
  BY <1>2 DEF Follows

LEMMA DecideFollows ==
  ASSUME IInv, NEW t \in Tasks, Finalize(t), NEW k \in Keys
  PROVE  Follows(k)
<1>1. PICK effects, payload, seen : Decide(t, effects, payload, seen)
  BY DEF Finalize
<1> DEFINE rev == NextRevision(seen)
           new == KeysOf(t, rev, effects, payload)
<1>2. /\ cmd'[k] = CASE Stale(k, t, rev) -> [cmd[k] EXCEPT !.status = "superseded"]
                     [] k \in new -> Create(cmd[k])
                     [] OTHER -> cmd[k]
      /\ started' = started
  BY <1>1 DEF Decide
<1>3. /\ cmd[k] \in Command /\ cmd[k].attempt \in Nat
      /\ cmd[k].status = "absent" => cmd[k].attempt = 0
      /\ MaxAttempts \in Nat /\ 0 < MaxAttempts
  BY ProgressionAssumption DEF IInv, TypeOK, WaitingHasAttempt, Command
<1>4. CASE Stale(k, t, rev)
  <2>1. k \notin new
    BY <1>4 DEF Stale, KeysOf
  <2>2. cmd'[k] = [cmd[k] EXCEPT !.status = "superseded"]
    BY <1>2, <1>4, <2>1
  <2>3. cmd'[k].status = "superseded" /\ cmd'[k].attempt = cmd[k].attempt
    BY <1>3, <2>2 DEF Command
  <2>4. Stage(cmd[k]) \in {"waiting", "claimed", "exhausted"}
    BY <1>3, <1>4, StageOf DEF Stale
  <2>5. Stage(cmd'[k]) = "superseded"
    BY <2>3 DEF Stage
  <2>6. Lifecycle!Supersede(k)
    BY <1>2, <2>3, <2>4, <2>5, MovesBridge DEF Lifecycle!Supersede
  <2>7. QED
    BY <2>6 DEF Follows
<1>5. CASE ~Stale(k, t, rev) /\ k \in new /\ cmd[k].status = "absent"
  <2>1. cmd'[k] = [status |-> "pending", attempt |-> 0, owner |-> NoOwner,
                   lapsed |-> FALSE, due |-> FALSE, created |-> clock + 1]
    BY <1>2, <1>5 DEF Create, Absent
  <2>2. Stage(cmd[k]) = "absent" /\ Stage(cmd'[k]) = "waiting"
    BY <1>3, <1>5, <2>1 DEF Stage
  <2>3. Lifecycle!Create(k)
    BY <1>2, <1>3, <1>5, <2>1, <2>2, MovesBridge DEF Lifecycle!Create
  <2>4. QED
    BY <2>3 DEF Follows
<1>6. CASE ~Stale(k, t, rev) /\ (k \notin new \/ cmd[k].status # "absent")
  <2>1. cmd'[k] = cmd[k]
    BY <1>2, <1>6 DEF Create
  <2>2. QED
    BY <1>2, <2>1, SameStage
<1>7. QED
  BY <1>4, <1>5, <1>6

\* A command that is taken back waits again or is out of attempts.
LEMMA TakenBack ==
  ASSUME IInv, NEW k \in Keys, cmd[k].status = "claimed",
         cmd'[k].attempt = cmd[k].attempt, started'[k] = started[k],
         \/ cmd'[k].status = "failed"
         \/ cmd'[k].status = "pending" /\ cmd[k].attempt < MaxAttempts
  PROVE  Follows(k)
<1>1. Stage(cmd[k]) = "claimed"
  BY DEF Stage
<1>2. Stage(cmd'[k]) = IF cmd[k].attempt < MaxAttempts THEN "waiting" ELSE "exhausted"
  BY DEF Stage
<1>3. Lifecycle!TakeBack(k)
  BY <1>1, <1>2 DEF Lifecycle!TakeBack, Lifecycle!Moves
<1>4. QED
  BY <1>3 DEF Follows

LEMMA ReleaseFollows ==
  ASSUME IInv, NEW d \in Drains, ReleaseExpired(d), NEW k \in Keys
  PROVE  Follows(k)
<1>1. /\ cmd[k] \in Command /\ cmd[k].attempt \in Nat /\ MaxAttempts \in Nat
      /\ started' = started
      /\ cmd'[k] = IF Expired(cmd[k]) THEN Released(cmd[k]) ELSE cmd[k]
  BY ProgressionAssumption DEF IInv, TypeOK, Command, ReleaseExpired
<1>2. CASE Expired(cmd[k])
  <2>1. /\ cmd[k].status = "claimed" /\ cmd'[k].attempt = cmd[k].attempt
        /\ cmd'[k].status = IF cmd[k].attempt >= MaxAttempts THEN "failed" ELSE "pending"
    BY <1>1, <1>2 DEF Expired, Released, Command
  <2>2. QED
    BY <1>1, <2>1, TakenBack
<1>3. CASE ~Expired(cmd[k])
  BY <1>1, <1>3, SameStage
<1>4. QED
  BY <1>2, <1>3

LEMMA ClaimFollows ==
  ASSUME IInv, NEW d \in Drains, NEW j \in Keys, Claim(d, j), NEW k \in Keys
  PROVE  Follows(k)
<1>1. /\ cmd[j] \in Command /\ cmd[j].attempt \in Nat /\ MaxAttempts \in Nat
      /\ cmd[j].status \in {"pending", "failed"} /\ cmd[j].attempt < MaxAttempts
      /\ started' = started
  BY ProgressionAssumption
     DEF IInv, TypeOK, WaitingHasAttempt, Claim, Oldest, Claimable, Command
<1>2. CASE k = j
  <2>1. cmd'[k].status = "claimed" /\ cmd'[k].attempt = cmd[k].attempt + 1
    BY <1>1, <1>2 DEF Claim, IInv, TypeOK, Command
  <2>2. Stage(cmd[k]) = "waiting" /\ Stage(cmd'[k]) = "claimed"
    BY <1>1, <1>2, <2>1 DEF Stage
  <2>3. Lifecycle!HandOut(k)
    BY <1>1, <1>2, <2>1, <2>2 DEF Lifecycle!HandOut
  <2>4. QED
    BY <2>3 DEF Follows
<1>3. CASE k # j
  <2>1. cmd'[k] = cmd[k]
    BY <1>3 DEF Claim, IInv, TypeOK
  <2>2. QED
    BY <1>1, <2>1, SameStage
<1>4. QED
  BY <1>2, <1>3

LEMMA CheckFollows ==
  ASSUME IInv, NEW d \in Drains, Check(d), NEW k \in Keys
  PROVE  Follows(k)
<1>1. /\ cmd' = cmd /\ pc[d] = "check"
      /\ item[d].key \in Keys /\ item[d].attempt \in 1 .. cmd[item[d].key].attempt
      /\ item[d].attempt \notin started[item[d].key]
  BY DEF IInv, ItemsAreAttempts, CheckIsNew, Check, Working
<1>2. CASE started'[k] = started[k]
  BY <1>1, <1>2, SameStage
<1>3. CASE k = item[d].key /\ started' = [started EXCEPT ![k] = @ \cup {item[d].attempt}]
  <2>1. started'[k] = started[k] \cup {item[d].attempt}
    BY <1>3 DEF IInv, TypeOK
  <2>2. Lifecycle!Begin(k)
    BY <1>1, <1>3, <2>1 DEF Lifecycle!Begin
  <2>3. QED
    BY <2>2 DEF Follows
<1>4. QED
  BY <1>1, <1>2, <1>3 DEF Check, IInv, TypeOK

LEMMA MarkFollows ==
  ASSUME BInv, NEW d \in Drains, Apply(d) \/ Supersede(d) \/ Fail(d), NEW k \in Keys
  PROVE  Follows(k)
<1>1. /\ item[d].key \in Keys /\ started' = started
      /\ cmd[item[d].key] \in Command /\ cmd[k] \in Command
  BY DEF BInv, IInv, TypeOK, ItemsAreAttempts, Apply, Supersede, Fail, Working
<1>2. CASE cmd'[k] = cmd[k]
  BY <1>1, <1>2, SameStage
<1>3. ASSUME Owned(d), k = item[d].key, NEW s, Mark(d, s)
      PROVE  /\ cmd[k].status = "claimed" /\ cmd'[k].status = s
             /\ cmd'[k].attempt = cmd[k].attempt
  <2>1. cmd'[k] = [cmd[k] EXCEPT !.status = s, !.owner = NoOwner,
                                 !.lapsed = FALSE, !.due = FALSE]
    BY <1>3 DEF Mark, BInv, IInv, TypeOK
  <2>2. QED
    BY <1>1, <1>3, <2>1 DEF Owned, Command
<1>4. ASSUME k # item[d].key, NEW s, Mark(d, s) PROVE cmd'[k] = cmd[k]
  BY <1>4 DEF Mark, BInv, IInv, TypeOK
<1>5. CASE k = item[d].key /\ Owned(d) /\ Apply(d) /\ Mark(d, "applied")
  <2>1. Stage(cmd[k]) = "claimed" /\ Stage(cmd'[k]) = "applied"
    BY <1>3, <1>5 DEF Stage
  <2>2. started[k] # {}
    BY <1>5 DEF BInv, EffectWasStarted, Apply
  <2>3. Lifecycle!Apply(k)
    BY <1>1, <1>3, <1>5, <2>1, <2>2, MovesBridge DEF Lifecycle!Apply
  <2>4. QED
    BY <2>3 DEF Follows
<1>6. CASE k = item[d].key /\ Owned(d) /\ Mark(d, "superseded")
  <2>1. Stage(cmd[k]) = "claimed" /\ Stage(cmd'[k]) = "superseded"
    BY <1>3, <1>6 DEF Stage
  <2>2. Lifecycle!Supersede(k)
    BY <1>1, <1>3, <1>6, <2>1, MovesBridge DEF Lifecycle!Supersede
  <2>3. QED
    BY <2>2 DEF Follows
<1>7. CASE k = item[d].key /\ Owned(d) /\ Mark(d, "failed")
  BY <1>1, <1>3, <1>7, TakenBack DEF BInv
<1>8. QED
  BY <1>2, <1>4, <1>5, <1>6, <1>7 DEF Apply, Supersede, Fail, Conflict

\* The other steps leave status and attempt of every command as they are.
LEMMA OthersFollow ==
  ASSUME IInv, NEW k \in Keys,
         \/ \E d \in Drains : NothingToClaim(d) \/ Run(d) \/ Notify(d)
         \/ \E j \in Keys : LeaseLapses(j) \/ RetryDue(j)
         \/ \E o \in Owners : Crash(o)
  PROVE  Follows(k)
<1>1. started' = started /\ cmd[k] \in Command
  BY DEF NothingToClaim, Run, Notify, LeaseLapses, RetryDue, Crash, IInv, TypeOK
<1>2. cmd'[k] \in {cmd[k], [cmd[k] EXCEPT !.lapsed = TRUE], [cmd[k] EXCEPT !.due = TRUE],
                   [cmd[k] EXCEPT !.owner = DeadOwner]}
  BY DEF NothingToClaim, Run, Notify, LeaseLapses, RetryDue, Crash, IInv, TypeOK
<1>3. cmd'[k].status = cmd[k].status /\ cmd'[k].attempt = cmd[k].attempt
  BY <1>1, <1>2 DEF Command
<1>4. QED
  BY <1>1, <1>3, SameStage

LEMMA NextFollows == ASSUME BInv, Next, NEW k \in Keys PROVE Follows(k)
<1>1. IInv
  BY DEF BInv
<1>2. CASE \E t \in Tasks : Finalize(t)
  BY <1>1, <1>2, DecideFollows
<1>3. ASSUME NEW d \in Drains, DrainStep(d) PROVE Follows(k)
  <2>1. CASE ReleaseExpired(d) \/ (\E j \in Keys : Claim(d, j)) \/ Check(d)
    BY <1>1, <2>1, ReleaseFollows, ClaimFollows, CheckFollows
  <2>2. CASE Apply(d) \/ Supersede(d) \/ Fail(d)
    BY <2>2, MarkFollows
  <2>3. CASE NothingToClaim(d) \/ Run(d) \/ Notify(d)
    BY <1>1, <2>3, OthersFollow
  <2>4. QED
    BY <1>3, <2>1, <2>2, <2>3 DEF DrainStep
<1>4. CASE \/ \E j \in Keys : LeaseLapses(j) \/ RetryDue(j)
           \/ \E o \in Owners : Crash(o)
  BY <1>1, <1>4, OthersFollow
<1>5. QED
  BY <1>2, <1>3, <1>4 DEF Next

\* A drain comes to run from its check, which starts the effect, and to apply
\* from run; what was started stays so.
LEMMA StartedStays ==
  ASSUME BInv, [Next]_vars
  PROVE  EffectWasStarted'
<1> SUFFICES ASSUME NEW d \in Drains, pc'[d] \in {"run", "apply"}
             PROVE  started'[item'[d].key] # {}
  BY DEF EffectWasStarted
<1>1. pc[d] \in Working => item[d].key \in Keys
  BY DEF BInv, IInv, ItemsAreAttempts
<1> DEFINE Held == /\ \A k \in Keys : started[k] \subseteq started'[k]
                   /\ \/ pc[d] \in {"run", "apply"} /\ item'[d] = item[d]
                      \/ pc[d] = "check" /\ Check(d) /\ pc'[d] = "run"
<1>2. ASSUME \/ UNCHANGED vars \/ \E t \in Tasks : Finalize(t)
             \/ \E k \in Keys : LeaseLapses(k) \/ RetryDue(k)
      PROVE  Held
  <2>1. started' = started /\ pc' = pc /\ item' = item
    <3>1. CASE UNCHANGED vars
      BY <3>1 DEF vars
    <3>2. CASE \E t \in Tasks : Finalize(t)
      BY <3>2 DEF drains, Finalize, Decide
    <3>3. CASE \E k \in Keys : LeaseLapses(k) \/ RetryDue(k)
      BY <3>3 DEF drains, LeaseLapses, RetryDue
    <3>4. QED
      BY <1>2, <3>1, <3>2, <3>3
  <2>2. QED
    BY <2>1
<1>3. ASSUME NEW e \in Drains, DrainStep(e) PROVE Held
  <2>1. CASE ReleaseExpired(e)
    BY <2>1 DEF ReleaseExpired, BInv, IInv, TypeOK
  <2>2. CASE (\E k \in Keys : Claim(e, k)) \/ NothingToClaim(e) \/ Notify(e)
    BY <2>2 DEF Claim, NothingToClaim, Notify, Leave, BInv, IInv, TypeOK
  <2>3. CASE Check(e)
    BY <2>3 DEF Check, BInv, IInv, TypeOK
  <2>4. CASE Run(e)
    BY <2>4 DEF Run, BInv, IInv, TypeOK
  <2>5. CASE Apply(e) \/ Supersede(e) \/ Fail(e)
    BY <2>5 DEF Apply, Supersede, Fail, Conflict, Leave, BInv, IInv, TypeOK
  <2>6. QED
    BY <1>3, <2>1, <2>2, <2>3, <2>4, <2>5 DEF DrainStep
<1>4. ASSUME NEW o \in Owners, Crash(o) PROVE Held
  BY <1>4 DEF Crash, BInv, IInv, TypeOK
<1> HIDE DEF Held
<1>5. Held
  BY <1>2, <1>3, <1>4 DEF Next
<1>6. CASE pc[d] \in {"run", "apply"} /\ item'[d] = item[d]
  BY <1>1, <1>5, <1>6 DEF Held, BInv, EffectWasStarted, Working
<1>7. CASE pc[d] = "check" /\ Check(d) /\ pc'[d] = "run"
  BY <1>1, <1>7 DEF Check, BInv, IInv, TypeOK, Working
<1>8. QED
  BY <1>5, <1>6, <1>7 DEF Held

\* The command store, with overlapping drains, lapsing leases, late marks,
\* crashes and further decisions, implements CommandLifecycle: bounded attempts,
\* each starting its effect once, an effect before "applied", and nothing after
\* "applied" or "superseded" (runOnce, updateClaimed, claimNextCommand).
THEOREM LifecycleTheorem == Spec => KeepsLifecycle
<1>1. Init => BInv /\ Lifecycle!Init
  <2> SUFFICES ASSUME Init PROVE BInv /\ Lifecycle!Init
    OBVIOUS
  <2>1. BInv
    BY InitInvariant DEF BInv, EffectWasStarted, Init
  <2>2. Lifecycle!Init
    BY DEF Init, Lifecycle!Init, Absent, Stage
  <2>3. QED
    BY <2>1, <2>2
<1>2. BInv /\ [Next]_vars => BInv'
  BY StepInvariant, StartedStays DEF BInv
<1>3. BInv /\ [Next]_vars => [Lifecycle!Next]_(Lifecycle!vars)
  <2>1. ASSUME BInv, Next PROVE Lifecycle!Next
    BY <2>1, NextFollows DEF Follows, Lifecycle!Next
  <2>2. ASSUME UNCHANGED vars PROVE UNCHANGED Lifecycle!vars
    BY <2>2 DEF vars, Lifecycle!vars
  <2>3. QED
    BY <2>1, <2>2
<1>4. QED
  BY <1>1, <1>2, <1>3, PTL DEF Spec, KeepsLifecycle, Lifecycle!Spec

(***************************************************************************)
(* Leases.  With handlers that end in time, a drain's command is its own   *)
(* alone until it is marked; what follows the mark (a notification, or the *)
(* failure of one) happens to an applied command.                          *)
(***************************************************************************)
Alone(d) == \A e \in Drains \ {d} : pc[e] \in Working => item[e].key # item[d].key

LeaseOf(d) ==
  pc[d] \in Working =>
    \/ pc[d] \in {"notify", "fail"} /\ cmd[item[d].key].status = "applied"
    \/ pc[d] # "notify" /\ Owned(d) /\ ~cmd[item[d].key].lapsed /\ Alone(d)

LeaseInv == \A d \in Drains : LeaseOf(d)

\* No drain is given work by the step.
NoNewWork == \A e \in Drains : pc'[e] \in Working => pc[e] \in Working /\ item'[e] = item[e]

LEMMA LeaseFrame ==
  ASSUME LeaseInv, NoNewWork, NEW d \in Drains, pc'[d] \in Working => pc'[d] = pc[d],
         pc'[d] \in Working /\ cmd[item[d].key].status \in {"applied", "claimed"} =>
           \/ cmd'[item[d].key] = cmd[item[d].key]
           \/ /\ ~(Owned(d) /\ Alone(d))
              /\ cmd[item[d].key].status = "applied" => cmd'[item[d].key].status = "applied"
  PROVE  LeaseOf(d)'
<1> SUFFICES ASSUME pc'[d] \in Working
             PROVE  \/ pc'[d] \in {"notify", "fail"} /\ cmd'[item'[d].key].status = "applied"
                    \/ pc'[d] # "notify" /\ Owned(d)' /\ ~cmd'[item'[d].key].lapsed /\ Alone(d)'
  BY DEF LeaseOf
<1>1. pc[d] = pc'[d] /\ pc[d] \in Working /\ item'[d] = item[d]
  BY DEF NoNewWork
<1>2. Alone(d) => Alone(d)'
  BY <1>1 DEF Alone, NoNewWork
<1>3. LeaseOf(d)
  BY DEF LeaseInv
<1>4. CASE pc[d] \in {"notify", "fail"} /\ cmd[item[d].key].status = "applied"
  BY <1>1, <1>4
<1>5. CASE pc[d] # "notify" /\ Owned(d) /\ ~cmd[item[d].key].lapsed /\ Alone(d)
  <2>1. cmd'[item[d].key] = cmd[item[d].key]
    BY <1>5 DEF Owned
  <2>2. QED
    BY <1>1, <1>2, <1>5, <2>1 DEF Owned
<1>6. QED
  BY <1>1, <1>3, <1>4, <1>5 DEF LeaseOf

LEMMA LeaseClaim ==
  ASSUME IInv, LeaseInv, NEW d \in Drains, NEW k \in Keys, Claim(d, k)
  PROVE  LeaseInv'
<1>1. /\ cmd[k].status \notin {"applied", "claimed"}
      /\ pc' = [pc EXCEPT ![d] = "check"]
      /\ item' = [item EXCEPT ![d] = [key |-> k, attempt |-> cmd[k].attempt + 1]]
      /\ \A j \in Keys \ {k} : cmd'[j] = cmd[j]
      /\ cmd'[k].status = "claimed" /\ cmd'[k].owner = OwnerOf[d] /\ ~cmd'[k].lapsed
  BY DEF Claim, Oldest, Claimable, IInv, TypeOK, Command
<1>2. ASSUME NEW e \in Drains, pc[e] \in Working
      PROVE  item[e].key \in Keys \ {k}
  <2>1. item[e].key \in Keys /\ cmd[item[e].key].status \in {"applied", "claimed"}
    BY <1>2 DEF IInv, ItemsAreAttempts, LeaseInv, LeaseOf, Owned
  <2>2. QED
    BY <1>1, <2>1
<1>3. ASSUME NEW e \in Drains \ {d}
      PROVE  pc'[e] = pc[e] /\ item'[e] = item[e]
  BY <1>1 DEF IInv, TypeOK
<1>4. pc'[d] = "check" /\ item'[d].key = k
  BY <1>1 DEF IInv, TypeOK
<1>5. LeaseOf(d)'
  <2>1. Alone(d)'
    BY <1>2, <1>3, <1>4 DEF Alone
  <2>2. QED
    BY <1>1, <1>4, <2>1 DEF LeaseOf, Owned
<1>6. ASSUME NEW e \in Drains \ {d} PROVE LeaseOf(e)'
  <2>1. LeaseOf(e)
    BY DEF LeaseInv
  <2>2. pc[e] \in Working => cmd'[item[e].key] = cmd[item[e].key]
    BY <1>1, <1>2
  <2>3. pc[e] \in Working => (Alone(e) => Alone(e)')
    BY <1>2, <1>3, <1>4 DEF Alone
  <2>4. QED
    BY <1>3, <2>1, <2>2, <2>3 DEF LeaseOf, Owned
<1>7. QED
  BY <1>5, <1>6 DEF LeaseInv

\* A step that leaves the commands and the drains in their places.
LEMMA LeaseDrain ==
  ASSUME IInv, LeaseInv, NEW d \in Drains,
         \/ ReleaseExpired(d) \/ NothingToClaim(d) \/ Check(d) \/ Run(d)
         \/ Apply(d) \/ Notify(d) \/ Supersede(d) \/ Fail(d)
  PROVE  LeaseInv'
<1> DEFINE k == item[d].key
<1>1. LeaseOf(d) /\ (pc[d] \in Working => k \in Keys)
  BY DEF LeaseInv, IInv, ItemsAreAttempts
<1>2. ASSUME NEW e \in Drains \ {d} PROVE pc'[e] = pc[e] /\ item'[e] = item[e]
  BY DEF ReleaseExpired, NothingToClaim, Check, Run, Apply, Notify, Supersede, Fail,
         Conflict, Leave, IInv, TypeOK
<1>3. NoNewWork
  <2>1. pc'[d] \in Working => pc[d] \in Working /\ item'[d] = item[d]
    BY DEF ReleaseExpired, NothingToClaim, Check, Run, Apply, Notify, Supersede, Fail,
           Conflict, Leave, IInv, TypeOK, Working
  <2>2. QED
    BY <1>2, <2>1 DEF NoNewWork
\* The commands of the other drains.
<1>4. ASSUME NEW e \in Drains \ {d}, pc[e] \in Working
      PROVE  cmd'[item[e].key] = cmd[item[e].key]
  <2>1. /\ item[e].key \in Keys /\ LeaseOf(e)
        /\ cmd[item[e].key].status = "applied" \/ ~cmd[item[e].key].lapsed
    BY <1>4 DEF LeaseInv, LeaseOf, IInv, ItemsAreAttempts
  <2>2. CASE ReleaseExpired(d)
    BY <2>1, <2>2 DEF ReleaseExpired, Expired
  <2>3. CASE UNCHANGED cmd
    BY <2>3
  <2>4. CASE pc[d] \in Working /\ Owned(d) /\ \E s \in {"applied", "failed", "superseded"} : Mark(d, s)
    <3>1. Alone(d)
      BY <1>1, <2>4 DEF LeaseOf, Owned
    <3>2. item[e].key # k
      BY <1>4, <3>1 DEF Alone
    <3>3. QED
      BY <2>1, <2>4, <3>2 DEF Mark, IInv, TypeOK
  <2>5. QED
    BY <2>2, <2>3, <2>4
       DEF NothingToClaim, Check, Run, Apply, Notify, Supersede, Fail, Conflict, Working
<1>5. ASSUME NEW e \in Drains \ {d} PROVE LeaseOf(e)'
  <2>1. pc'[e] = pc[e] /\ (pc[e] \in Working => cmd'[item[e].key] = cmd[item[e].key])
    BY <1>2, <1>4
  <2>2. QED
    BY <1>3, <2>1, LeaseFrame
<1>6. LeaseOf(d)'
  <2>1. Alone(d) /\ item'[d] = item[d] => Alone(d)'
    BY <1>2 DEF Alone
  <2>2. CASE ReleaseExpired(d) \/ NothingToClaim(d) \/ Supersede(d) \/ Fail(d)
    <3>1. pc[d] = "supersede" => Owned(d)
      BY <1>1 DEF LeaseOf, Working
    <3>2. pc'[d] \notin Working
      BY <2>2, <3>1 DEF ReleaseExpired, NothingToClaim, Supersede, Fail, Conflict, Leave,
                        IInv, TypeOK, Working
    <3>3. QED
      BY <3>2 DEF LeaseOf
  <2>3. CASE Check(d) \/ Run(d)
    <3>1. /\ pc[d] \in {"check", "run"} /\ pc'[d] \in {"supersede", "run", "apply", "fail"}
          /\ cmd' = cmd /\ item' = item
      BY <2>3 DEF Check, Run, IInv, TypeOK
    <3>2. QED
      BY <1>1, <2>1, <3>1 DEF LeaseOf, Owned, Working
  <2>4. CASE Apply(d)
    <3>1. pc[d] = "apply" /\ Owned(d)
      BY <1>1, <2>4 DEF Apply, LeaseOf, Working
    <3>2. pc'[d] = "notify" /\ item' = item /\ cmd'[k].status = "applied"
      BY <1>1, <2>4, <3>1 DEF Apply, Conflict, Mark, IInv, TypeOK, Command, Working
    <3>3. QED
      BY <3>2 DEF LeaseOf
  <2>5. CASE Notify(d)
    <3>1. cmd' = cmd /\ (pc'[d] \in Working => pc'[d] = "fail" /\ item' = item)
      BY <2>5 DEF Notify, Leave, IInv, TypeOK, Working
    <3>2. cmd[k].status = "applied"
      BY <1>1, <2>5 DEF LeaseOf, Notify, Working
    <3>3. QED
      BY <3>1, <3>2 DEF LeaseOf
  <2>6. QED
    BY <2>2, <2>3, <2>4, <2>5
<1>7. QED
  BY <1>5, <1>6 DEF LeaseInv

LEMMA LeaseWorld ==
  ASSUME IInv, LeaseInv, Lapses = FALSE,
         \/ \E t \in Tasks : Finalize(t)
         \/ \E k \in Keys : LeaseLapses(k) \/ RetryDue(k)
         \/ \E o \in Owners : Crash(o)
  PROVE  LeaseInv'
<1> SUFFICES ASSUME NEW d \in Drains PROVE LeaseOf(d)'
  BY DEF LeaseInv
<1> DEFINE k == item[d].key
<1>1. pc[d] \in Working => k \in Keys /\ cmd[k] \in Command
  BY DEF IInv, ItemsAreAttempts, TypeOK
<1>2. CASE \E t \in Tasks : Finalize(t)
  <2>1. PICK t, effects, payload, seen : Decide(t, effects, payload, seen)
    BY <1>2 DEF Finalize
  <2>2. pc' = pc /\ item' = item
    BY <2>1 DEF Decide, drains
  <2>3. k \in Keys /\ cmd[k].status \in {"applied", "claimed"} => cmd'[k] = cmd[k]
    BY <2>1 DEF Decide, Stale, Create
  <2>4. NoNewWork
    BY <2>2 DEF NoNewWork
  <2>5. QED
    BY <1>1, <2>2, <2>3, <2>4, LeaseFrame
<1>3. CASE \E j \in Keys : LeaseLapses(j) \/ RetryDue(j)
  <2>1. PICK j \in Keys : LeaseLapses(j) \/ RetryDue(j)
    BY <1>3
  <2>2. pc' = pc /\ item' = item
    BY <2>1 DEF LeaseLapses, RetryDue, drains
  <2>3. pc[d] \in Working /\ cmd[k].status \in {"applied", "claimed"} => k # j
    BY <2>1 DEF LeaseLapses, RetryDue, HandledBy
  <2>4. pc[d] \in Working /\ cmd[k].status \in {"applied", "claimed"} => cmd'[k] = cmd[k]
    BY <1>1, <2>1, <2>3 DEF LeaseLapses, RetryDue, IInv, TypeOK
  <2>5. NoNewWork
    BY <2>2 DEF NoNewWork
  <2>6. QED
    BY <2>2, <2>4, <2>5, LeaseFrame
<1>4. CASE \E o \in Owners : Crash(o)
  <2>1. PICK o \in Owners : Crash(o)
    BY <1>4
  <2>2. NoNewWork
    BY <2>1 DEF Crash, NoNewWork, Working
  <2>3. pc'[d] \in Working => pc'[d] = pc[d] /\ OwnerOf[d] # o
    BY <2>1 DEF Crash, Working
  <2>4. ASSUME pc'[d] \in Working, cmd[k].status \in {"applied", "claimed"}
        PROVE  \/ cmd'[k] = cmd[k]
               \/ /\ ~(Owned(d) /\ Alone(d))
                  /\ cmd[k].status = "applied" => cmd'[k].status = "applied"
    <3>1. k \in Keys /\ cmd[k] \in Command
      BY <1>1, <2>3, <2>4
    <3>2. cmd'[k] = IF cmd[k].owner = o THEN [cmd[k] EXCEPT !.owner = DeadOwner] ELSE cmd[k]
      BY <2>1, <3>1 DEF Crash
    <3>3. cmd'[k].status = cmd[k].status
      BY <3>1, <3>2 DEF Command
    <3>4. Owned(d) => cmd[k].owner # o
      BY <2>3, <2>4 DEF Owned
    <3>5. QED
      BY <3>2, <3>3, <3>4
  <2>5. QED
    BY <2>2, <2>3, <2>4, LeaseFrame
<1>5. QED
  BY <1>2, <1>3, <1>4

\* While handlers end within their leases, a drain at work on a command has it
\* claimed, and has it alone (claimNextCommand, updateClaimed, runOnce).
THEOREM LeaseTheorem ==
  ASSUME Lapses = FALSE
  PROVE  Spec => []HandlerHasLease
<1>1. Init => LeaseInv
  BY DEF Init, LeaseInv, LeaseOf, Working
<1>2. IInv /\ LeaseInv /\ [Next]_vars => LeaseInv'
  <2> SUFFICES ASSUME IInv, LeaseInv, [Next]_vars PROVE LeaseInv'
    OBVIOUS
  <2>1. CASE UNCHANGED vars
    BY <2>1 DEF vars, drains, LeaseInv, LeaseOf, Owned, Alone
  <2>2. CASE \E d \in Drains : DrainStep(d)
    BY <2>2, LeaseClaim, LeaseDrain DEF DrainStep
  <2>3. CASE \/ \E t \in Tasks : Finalize(t)
             \/ \E k \in Keys : LeaseLapses(k) \/ RetryDue(k)
             \/ \E o \in Owners : Crash(o)
    BY <2>3, LeaseWorld
  <2>4. QED
    BY <2>1, <2>2, <2>3 DEF Next
<1>3. LeaseInv => HandlerHasLease
  BY DEF LeaseInv, LeaseOf, Alone, HandlerHasLease, Working
<1>4. QED
  BY <1>1, <1>2, <1>3, Invariance, PTL DEF Spec

(***************************************************************************)
(* Owners.  Drains of one process share an owner, so a lease does not name *)
(* its drain; it is still the lease of an attempt that some drain of that  *)
(* process is at work on.                                                  *)
(***************************************************************************)
\* A drain at work on the attempt that has the lease of command k.
HasLease == {"check", "run", "apply", "supersede", "fail"}
WorksOnLease(e, k) ==
  /\ pc[e] \in HasLease /\ OwnerOf[e] = cmd[k].owner
  /\ item[e] = [key |-> k, attempt |-> cmd[k].attempt]

\* Every lease of a process that has not ended is that of an attempt one of its
\* drains is at work on.
LeasesAreWorked ==
  \A k \in Keys : (cmd[k].status = "claimed" /\ cmd[k].owner \in Owners)
                     => \E e \in Drains : WorksOnLease(e, k)

\* A command that is claimed after a step that claims nothing was claimed before
\* it, by the same owner or one whose process has ended since.
LEMMA LeaseIsOlder ==
  ASSUME IInv, Next, ~ \E d \in Drains, k \in Keys : Claim(d, k),
         NEW k \in Keys, cmd'[k].status = "claimed", cmd'[k].owner \in Owners
  PROVE  /\ cmd[k].status = "claimed" /\ cmd[k].owner = cmd'[k].owner
         /\ cmd'[k].attempt = cmd[k].attempt
<1>1. cmd[k] \in Command
  BY DEF IInv, TypeOK
<1>2. CASE UNCHANGED cmd
  BY <1>2
<1>3. ASSUME NEW d \in Drains, pc[d] \in Working,
             \E s \in {"applied", "failed", "superseded"} : Mark(d, s)
      PROVE  cmd'[k] = cmd[k]
  <2>1. k # item[d].key
    BY <1>1, <1>3 DEF Mark, IInv, TypeOK, Command
  <2>2. QED
    BY <1>3, <2>1 DEF Mark, IInv, TypeOK
<1>4. ASSUME NEW d \in Drains, DrainStep(d) PROVE cmd'[k] = cmd[k]
  <2>1. CASE ReleaseExpired(d)
    BY <1>1, <2>1 DEF ReleaseExpired, Released, Command
  <2>2. CASE NothingToClaim(d) \/ Check(d) \/ Run(d) \/ Notify(d)
    BY <2>2 DEF NothingToClaim, Check, Run, Notify
  <2>3. CASE Apply(d) \/ Supersede(d) \/ Fail(d)
    BY <1>3, <2>3 DEF Apply, Supersede, Fail, Conflict, Working
  <2>4. QED
    BY <1>4, <2>1, <2>2, <2>3 DEF DrainStep
<1>5. CASE \E t \in Tasks : Finalize(t)
  <2>1. PICK t, effects, payload, seen : Decide(t, effects, payload, seen)
    BY <1>5 DEF Finalize
  <2>2. ~Stale(k, t, NextRevision(seen))
    <3>1. ASSUME Stale(k, t, NextRevision(seen)) PROVE FALSE
      <4>1. k \notin KeysOf(t, NextRevision(seen), effects, payload)
        BY <3>1 DEF Stale, KeysOf
      <4>2. cmd'[k] = [cmd[k] EXCEPT !.status = "superseded"]
        BY <2>1, <3>1, <4>1 DEF Decide
      <4>3. QED
        BY <1>1, <4>2 DEF Command
    <3>2. QED
      BY <3>1
  <2>3. cmd'[k] \in {cmd[k], Create(cmd[k])}
    BY <2>1, <2>2 DEF Decide
  <2>4. cmd'[k] = cmd[k]
    BY <2>3 DEF Create, Absent
  <2>5. QED
    BY <2>4
<1>6. CASE \E j \in Keys : LeaseLapses(j) \/ RetryDue(j)
  <2>1. cmd'[k] \in {cmd[k], [cmd[k] EXCEPT !.lapsed = TRUE], [cmd[k] EXCEPT !.due = TRUE]}
    BY <1>6 DEF LeaseLapses, RetryDue, IInv, TypeOK
  <2>2. QED
    BY <1>1, <2>1 DEF Command
<1>7. CASE \E o \in Owners : Crash(o)
  <2>1. PICK o \in Owners : Crash(o)
    BY <1>7
  <2>2. cmd'[k] = IF cmd[k].owner = o THEN [cmd[k] EXCEPT !.owner = DeadOwner] ELSE cmd[k]
    BY <2>1 DEF Crash
  <2>3. cmd'[k].owner # DeadOwner
    BY ProgressionAssumption
  <2>4. cmd'[k] = cmd[k]
    BY <1>1, <2>2, <2>3 DEF Command
  <2>5. QED
    BY <2>4
<1>8. QED
  BY <1>4, <1>5, <1>6, <1>7 DEF Next

LEMMA LeasesStep ==
  ASSUME IInv, LeasesAreWorked, [Next]_vars
  PROVE  LeasesAreWorked'
<1> SUFFICES ASSUME NEW k \in Keys, cmd'[k].status = "claimed", cmd'[k].owner \in Owners
             PROVE  \E e \in Drains : WorksOnLease(e, k)'
  BY DEF LeasesAreWorked
<1>1. CASE UNCHANGED vars
  <2>1. PICK e \in Drains : WorksOnLease(e, k)
    BY <1>1 DEF vars, drains, LeasesAreWorked
  <2>2. QED
    BY <1>1, <2>1 DEF vars, drains, WorksOnLease
<1>2. ASSUME NEW d \in Drains, NEW j \in Keys, Claim(d, j)
      PROVE  \E e \in Drains : WorksOnLease(e, k)'
  <2>1. /\ item' = [item EXCEPT ![d] = [key |-> j, attempt |-> cmd[j].attempt + 1]]
        /\ pc[d] = "claim" /\ pc' = [pc EXCEPT ![d] = "check"]
        /\ cmd'[j].owner = OwnerOf[d] /\ cmd'[j].attempt = cmd[j].attempt + 1
        /\ \A i \in Keys \ {j} : cmd'[i] = cmd[i]
    BY <1>2 DEF Claim, IInv, TypeOK, Command
  <2>2. CASE k = j
    BY <2>1, <2>2 DEF WorksOnLease, HasLease, IInv, TypeOK
  <2>3. CASE k # j
    <3>1. PICK e \in Drains : WorksOnLease(e, k)
      BY <2>1, <2>3 DEF LeasesAreWorked
    <3>2. e # d
      BY <2>1, <3>1 DEF WorksOnLease, HasLease
    <3>3. pc'[e] = pc[e] /\ item'[e] = item[e]
      BY <2>1, <3>2 DEF IInv, TypeOK
    <3>4. QED
      BY <2>1, <2>3, <3>1, <3>3 DEF WorksOnLease
  <2>4. QED
    BY <2>2, <2>3
<1>3. ASSUME Next, ~ \E d \in Drains, j \in Keys : Claim(d, j)
      PROVE  \E e \in Drains : WorksOnLease(e, k)'
  <2>1. /\ cmd[k].status = "claimed" /\ cmd[k].owner = cmd'[k].owner
        /\ cmd'[k].attempt = cmd[k].attempt
    BY <1>3, LeaseIsOlder
  <2>2. PICK e \in Drains : WorksOnLease(e, k)
    BY <2>1 DEF LeasesAreWorked
  <2>3. item[e].key = k /\ Owned(e) /\ pc[e] \in HasLease
    BY <2>1, <2>2 DEF WorksOnLease, Owned
  <2>4. pc'[e] \in HasLease /\ item'[e] = item[e]
    <3>1. ASSUME NEW d \in Drains, DrainStep(d), d # e
          PROVE  pc'[e] \in HasLease /\ item'[e] = item[e]
      BY <1>3, <2>3, <3>1
         DEF DrainStep, ReleaseExpired, NothingToClaim, Check, Run, Apply, Notify, Supersede,
             Fail, Conflict, Leave, IInv, TypeOK
    <3>2. ASSUME DrainStep(e) PROVE pc'[e] \in HasLease /\ item'[e] = item[e]
      <4>1. ASSUME NEW s \in {"applied", "superseded", "failed"}, Mark(e, s) PROVE FALSE
        <5>1. cmd'[k].status = s
          BY <2>3, <4>1 DEF Mark, IInv, TypeOK, Command
        <5>2. QED
          BY <4>1, <5>1
      <4>2. Check(e) \/ Run(e)
        BY <1>3, <2>3, <3>2, <4>1
           DEF DrainStep, HasLease, ReleaseExpired, NothingToClaim, Apply, Notify, Supersede,
               Fail, Conflict
      <4>3. QED
        BY <2>3, <4>2 DEF Check, Run, HasLease, IInv, TypeOK
    <3>3. CASE \E o \in Owners : Crash(o)
      <4>1. PICK o \in Owners : Crash(o)
        BY <3>3
      <4>2. cmd[k].owner # o
        <5>1. ASSUME cmd[k].owner = o PROVE FALSE
          <6>1. cmd'[k] = [cmd[k] EXCEPT !.owner = DeadOwner]
            BY <4>1, <5>1 DEF Crash
          <6>2. cmd'[k].owner = DeadOwner
            BY <6>1 DEF IInv, TypeOK, Command
          <6>3. QED
            BY <6>2, ProgressionAssumption
        <5>2. QED
          BY <5>1
      <4>3. QED
        BY <2>1, <2>3, <4>1, <4>2 DEF Crash, Owned
    <3>4. CASE \/ \E t \in Tasks : Finalize(t)
               \/ \E j \in Keys : LeaseLapses(j) \/ RetryDue(j)
      BY <2>3, <3>4 DEF Finalize, Decide, LeaseLapses, RetryDue, drains
    <3>5. QED
      BY <1>3, <3>1, <3>2, <3>3, <3>4 DEF Next
  <2>5. QED
    BY <2>1, <2>2, <2>4 DEF WorksOnLease
<1>4. QED
  BY <1>1, <1>2, <1>3

\* A mark ends an attempt that a drain of its own process is at work on, however
\* many drains share a process and whatever leases lapse (updateClaimed).
THEOREM MarkTheorem == Spec => MarkWithinProcess
<1> DEFINE Ends(d) == (/\ pc[d] \in {"apply", "supersede", "fail"} /\ pc'[d] # pc[d]
                       /\ cmd'[item[d].key].status # cmd[item[d].key].status)
           ByProcess(d) == \E e \in Drains :
                  /\ OwnerOf[e] = OwnerOf[d] /\ pc[e] \in Working
                  /\ item[e] = [key |-> item[d].key, attempt |-> cmd[item[d].key].attempt]
<1>1. Init => LeasesAreWorked
  BY DEF Init, LeasesAreWorked, Absent
<1>2. IInv /\ LeasesAreWorked /\ [Next]_vars => LeasesAreWorked'
  BY LeasesStep
<1>3. ASSUME IInv, LeasesAreWorked, Next, NEW d \in Drains, Ends(d)
      PROVE  ByProcess(d)
  <2>1. Owned(d)
    <3>1. CASE \E e \in Drains : DrainStep(e)
      <4>1. PICK e \in Drains : DrainStep(e)
        BY <3>1
      <4>2. e = d
        BY <1>3, <4>1
           DEF DrainStep, ReleaseExpired, Claim, NothingToClaim, Check, Run, Apply, Notify,
               Supersede, Fail, Conflict, Leave, IInv, TypeOK
      <4>3. QED
        BY <1>3, <4>1, <4>2
           DEF DrainStep, ReleaseExpired, Claim, NothingToClaim, Check, Run, Apply, Notify,
               Supersede, Fail, Conflict
    <3>2. CASE \E o \in Owners : Crash(o)
      <4>1. item[d].key \in Keys
        BY <1>3 DEF IInv, ItemsAreAttempts, Working
      <4>2. cmd'[item[d].key].status = cmd[item[d].key].status
        BY <1>3, <3>2, <4>1 DEF Crash, IInv, TypeOK, Command
      <4>3. QED
        BY <1>3, <4>2
    <3>3. CASE \/ \E t \in Tasks : Finalize(t)
               \/ \E k \in Keys : LeaseLapses(k) \/ RetryDue(k)
      BY <1>3, <3>3 DEF Finalize, Decide, LeaseLapses, RetryDue, drains
    <3>4. QED
      BY <1>3, <3>1, <3>2, <3>3 DEF Next
  <2>2. item[d].key \in Keys
    BY <1>3 DEF IInv, ItemsAreAttempts, Working
  <2>3. PICK e \in Drains : WorksOnLease(e, item[d].key)
    BY <2>1, <2>2, <1>3 DEF LeasesAreWorked, Owned, Owners
  <2>4. QED
    BY <2>1, <2>3 DEF WorksOnLease, HasLease, Owned, Working
<1>4. IInv /\ LeasesAreWorked /\ [Next]_vars => [\A d \in Drains : Ends(d) => ByProcess(d)]_vars
  BY <1>3
<1>5. QED
  BY <1>1, <1>2, <1>4, Invariance, PTL DEF Spec, MarkWithinProcess
=============================================================================
