-------------------------- MODULE CommandLifecycle --------------------------
(***************************************************************************)
(* What the progression command store promises to those who write commands *)
(* and those who act on them: a command is created once, is handed out at  *)
(* most MaxAttempts times, has its effect started at most once each time,  *)
(* is applied only when it is handed out and its effect was started, and   *)
(* is not moved once it is applied or superseded.  Nothing is said of      *)
(* drains, owners and leases: ProgressionCommands implements this.         *)
(***************************************************************************)
EXTENDS Naturals

CONSTANTS
  Commands,      \* the commands that may be created
  MaxAttempts    \* how often a command may be handed out

VARIABLES
  stage,         \* where each command is
  tries,         \* how often it was handed out
  begun          \* in which of these its effect was started

vars == <<stage, tries, begun>>

Init ==
  /\ stage = [k \in Commands |-> "absent"]
  /\ tries = [k \in Commands |-> 0]
  /\ begun = [k \in Commands |-> {}]

Moves(k, from, to) ==
  /\ stage[k] \in from
  /\ stage'[k] = to /\ tries'[k] = tries[k] /\ begun'[k] = begun[k]

Stays(k) == Moves(k, {stage[k]}, stage[k])

Create(k) == Moves(k, {"absent"}, "waiting")

HandOut(k) ==
  /\ stage[k] = "waiting" /\ tries[k] < MaxAttempts
  /\ stage'[k] = "claimed" /\ tries'[k] = tries[k] + 1 /\ begun'[k] = begun[k]

\* A handler that lost its lease may still start the effect of its own attempt.
Begin(k) ==
  /\ stage'[k] = stage[k] /\ tries'[k] = tries[k]
  /\ \E n \in (1 .. tries[k]) \ begun[k] : begun'[k] = begun[k] \cup {n}

\* A handler fails, or its lease expires.
TakeBack(k) ==
  Moves(k, {"claimed"}, IF tries[k] < MaxAttempts THEN "waiting" ELSE "exhausted")

Apply(k) == begun[k] # {} /\ Moves(k, {"claimed"}, "applied")

Supersede(k) == Moves(k, {"waiting", "claimed", "exhausted"}, "superseded")

\* One write of the state file may concern several commands.
Next == \A k \in Commands :
  \/ Stays(k) \/ Create(k) \/ HandOut(k) \/ Begin(k)
  \/ TakeBack(k) \/ Apply(k) \/ Supersede(k)

Spec == Init /\ [][Next]_vars
=============================================================================
