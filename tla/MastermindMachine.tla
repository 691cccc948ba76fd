------------------------- MODULE MastermindMachine -------------------------
(***************************************************************************)
(* The deterministic work-item state machine of Mastermind                 *)
(* (src/mastermind/domain): the states, the events each of them accepts    *)
(* and where the event leads.  Every store transition is computed from     *)
(* this table, by the decision loop, by the execution coordinator and by   *)
(* the code-review coordinator.                                            *)
(***************************************************************************)

\* mastermindMachine: for each state, the events it handles and their targets.
On == [
  received            |-> [CLAIM |-> "claimed", FAIL |-> "failed"],
  claimed             |-> [DECIDE |-> "deciding", RETRY |-> "retry_wait",
                           FAIL |-> "failed"],
  deciding            |-> [REVIEW |-> "reviewing", PLAN_ACTION |-> "action_planned",
                           REQUIRE_HUMAN |-> "needs_human", IGNORE |-> "ignored",
                           RETRY |-> "retry_wait", FAIL |-> "failed"],
  reviewing           |-> [REVIEW_GENERATED |-> "applying_review",
                           RETRY |-> "retry_wait", FAIL |-> "failed"],
  applying_review     |-> [REVIEW_APPLIED |-> "deciding",
                           REVIEW_INVALIDATED |-> "reviewing",
                           REQUIRE_HUMAN |-> "needs_human",
                           RETRY |-> "retry_wait", FAIL |-> "failed"],
  retry_wait          |-> [RETRY_READY |-> "claimed",
                           BEGIN_EXECUTION |-> "provisioning",
                           EXECUTION_NEEDS_HUMAN |-> "needs_human",
                           FAIL |-> "failed"],
  action_planned      |-> [BEGIN_EXECUTION |-> "provisioning",
                           REOPEN_REVIEW |-> "reviewing"],
  provisioning        |-> [WORKSPACE_PROVISIONED |-> "preflighting",
                           EXECUTION_NEEDS_HUMAN |-> "needs_human",
                           RETRY |-> "retry_wait", EXECUTION_FAILED |-> "failed"],
  preflighting        |-> [PREFLIGHT_PASSED |-> "launching",
                           EXECUTION_NEEDS_HUMAN |-> "needs_human",
                           RETRY |-> "retry_wait", EXECUTION_FAILED |-> "failed"],
  launching           |-> [EXECUTOR_STARTED |-> "running",
                           CANCELLATION_CONFIRMED |-> "needs_human",
                           EXECUTION_NEEDS_HUMAN |-> "needs_human",
                           RETRY |-> "retry_wait", EXECUTION_FAILED |-> "failed"],
  running             |-> [EXECUTOR_TERMINAL |-> "collecting",
                           CANCELLATION_CONFIRMED |-> "needs_human",
                           EXECUTION_NEEDS_HUMAN |-> "needs_human",
                           RETRY |-> "retry_wait", EXECUTION_FAILED |-> "failed"],
  collecting          |-> [EXECUTION_SUCCEEDED |-> "succeeded",
                           EXECUTION_RETRYABLE |-> "retry_wait",
                           EXECUTION_NEEDS_HUMAN |-> "needs_human",
                           EXECUTION_FAILED |-> "failed"],
  succeeded           |-> [BEGIN_CODE_REVIEW |-> "code_review_pending",
                           REOPEN_REVIEW |-> "reviewing"],
  code_review_pending |-> [CODE_REVIEW_STARTED |-> "code_reviewing",
                           CODE_REVIEW_NEEDS_HUMAN |-> "needs_human"],
  code_reviewing      |-> [CODE_REVIEW_PASSED |-> "awaiting_acceptance",
                           CODE_CHANGES_REQUESTED |-> "changes_requested",
                           CODE_REVIEW_NEEDS_HUMAN |-> "needs_human"],
  awaiting_acceptance |-> [ACCEPT_IMPLEMENTATION |-> "completed",
                           CODE_CHANGES_REQUESTED |-> "changes_requested"],
  changes_requested   |-> [RETRY |-> "retry_wait"],
  completed           |-> << >>,
  needs_human         |-> [REOPEN_REVIEW |-> "reviewing", RETRY |-> "retry_wait"],
  ignored             |-> << >>,
  failed              |-> [REOPEN_REVIEW |-> "reviewing", RETRY |-> "retry_wait"]]

MastermindState == DOMAIN On

\* transitionMastermindState throws when the state does not handle the event.
Accepts(state, event) == event \in DOMAIN On[state]
NextState(state, event) == On[state][event]

\* The states an execution attempt's row takes; the work item shares them.
ActiveExecutionStates ==
  {"provisioning", "preflighting", "launching", "running", "collecting"}
SettledExecutionStates == {"succeeded", "needs_human", "failed"}
ExecutionStates ==
  ActiveExecutionStates \cup SettledExecutionStates \cup {"retry_wait"}

\* Events by which the execution coordinator moves an attempt.
ExecutionEvents ==
  {"WORKSPACE_PROVISIONED", "PREFLIGHT_PASSED", "EXECUTOR_STARTED",
   "EXECUTOR_TERMINAL", "EXECUTION_SUCCEEDED", "EXECUTION_RETRYABLE",
   "EXECUTION_NEEDS_HUMAN", "EXECUTION_FAILED"}
=============================================================================
