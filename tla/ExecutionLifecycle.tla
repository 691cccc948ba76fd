------------------------- MODULE ExecutionLifecycle -------------------------
(***************************************************************************)
(* What the execution coordinator promises, without leases, rows, runs or  *)
(* agents: a planned action is attempted a bounded number of times, one    *)
(* attempt after the other; it ends in one disposition, which never        *)
(* changes, is announced only then and counts as published only once it    *)
(* was announced.  States and moves are those of                           *)
(* src/mastermind/domain/machine.ts restricted to the execution.           *)
(***************************************************************************)
EXTENDS Naturals

CONSTANT MaxAttempts

VARIABLES
  phase,       \* where the execution stands
  attempt,     \* the number of the current attempt
  announced,   \* the attempts whose end was told
  published    \* the end of the current attempt was projected

lifecycleVars == <<phase, attempt, announced, published>>

Disposition == {"succeeded", "needs_human", "failed"}
Phase == {"planned", "attempting", "waiting"} \cup Disposition

Init ==
  /\ phase = "planned"
  /\ attempt = 0
  /\ announced = {}
  /\ published = FALSE

\* The first attempt of a planned action, or the next one after a failure.
Begin ==
  /\ phase \in {"planned", "waiting"}
  /\ phase' = "attempting"
  /\ attempt' = attempt + 1
  /\ UNCHANGED <<announced, published>>

\* A retryable failure, unless it was the last attempt allowed.
Postpone ==
  /\ phase = "attempting"
  /\ attempt < MaxAttempts
  /\ phase' = "waiting"
  /\ UNCHANGED <<attempt, announced, published>>

\* The execution ends; one that waits can only be given to a person.
Settle ==
  /\ \/ phase = "attempting" /\ phase' \in Disposition
     \/ phase = "waiting" /\ phase' = "needs_human"
  /\ UNCHANGED <<attempt, announced, published>>

Announce ==
  /\ phase \in Disposition
  /\ announced' = announced \cup {attempt}
  /\ UNCHANGED <<phase, attempt, published>>

Publish ==
  /\ phase \in Disposition
  /\ attempt \in announced
  /\ published' = TRUE
  /\ UNCHANGED <<phase, attempt, announced>>

Next == Begin \/ Postpone \/ Settle \/ Announce \/ Publish

Spec == Init /\ [][Next]_lifecycleVars
=============================================================================
