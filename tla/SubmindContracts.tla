-------------------------- MODULE SubmindContracts --------------------------
(***************************************************************************)
(* What Mastermind and a direct executor agree on                          *)
(* (src/submind/contracts.ts, src/submind/resultManifest.ts): attempt      *)
(* numbers, the statuses an executor reports and the result manifest.      *)
(***************************************************************************)
EXTENDS Naturals

CONSTANT AttemptBound   \* bound of the model: attempts of the work item

ASSUME AttemptBoundAssumption == AttemptBound \in Nat \ {0}

AttemptNumber == 1..AttemptBound

Outcome == {"succeeded", "retryable-failure", "terminal-failure", "needs-human"}

\* ExecutorStatus.state; idle and done are treated alike by every reader of a
\* persisted status and are both "terminal" here.
ObservedStatus == {"working", "terminal", "blocked", "unknown"}

\* The file .weavekit/mastermind-result.json of the worktree.  The worktree is
\* the same for every attempt of a work item, so there is one file, which names
\* the attempt it reports; n = 0 when there is no readable manifest.
Manifest == [n: 0..AttemptBound, outcome: Outcome \cup {"none"}]
NoManifest == [n |-> 0, outcome |-> "none"]

\* validateResultForRequest, for the request of attempt n.
ReportsOn(result, n) == result.n = n
=============================================================================
