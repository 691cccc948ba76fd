-------------------------- MODULE MastermindStore --------------------------
(***************************************************************************)
(* The SQLite rows of one work item (src/mastermind/store/sqlite.ts): the  *)
(* work row with its lease, the execution-attempt rows, and the copies of  *)
(* both that a running process holds.  Every operation is one SQL          *)
(* statement or one IMMEDIATE transaction, hence one step.                 *)
(*                                                                         *)
(* row_version.  The store only ever compares a row's version with the one *)
(* in a process's copy, for equality, and only ever increases it; so a     *)
(* copy is kept with a bit, fresh, instead of a number: it carries the     *)
(* row's version iff no UPDATE has bumped the version since the copy was   *)
(* read.  Statements that leave row_version alone (releaseLease,           *)
(* renewLease, and for the work row saveExecutionProjection and            *)
(* patchExecutionAttempt) leave every fresh bit alone.                     *)
(*                                                                         *)
(* lease_expires_at.  A lease is live or lapsed: live abstracts            *)
(* lease_expires_at > now.  Time only enters the store through this test.  *)
(* renewLease keeps a live lease live and refuses a lapsed one, so it is   *)
(* a stuttering step here.                                                 *)
(***************************************************************************)
EXTENDS MastermindMachine, SubmindContracts

CONSTANTS
  Proc,          \* concurrent runs of a Mastermind entry point
  Instance,      \* values of config.mastermind.instanceId
  OwnerOf,       \* OwnerOf[p]: the instanceId run p writes as lease_owner
  NoOwner        \* lease_owner IS NULL

ASSUME StoreAssumption ==
  /\ OwnerOf \in [Proc -> Instance]
  /\ NoOwner \notin Instance

VARIABLES
  work,          \* the row of mastermind_work_items
  attempts,      \* the rows of mastermind_execution_attempts, by attempt_number
  lastAttempt,   \* MAX(attempt_number), 0 when there is none
  workCopy,      \* workCopy[p]: the MastermindWorkItem p holds
  attemptCopy    \* attemptCopy[p]: the ExecutionAttempt p holds

storeVars == <<work, attempts, lastAttempt, workCopy, attemptCopy>>

\* planned_action: "execute" stands for an action whose executor is configured
\* and allowed by the project's policy, "wait" for one that is not.
PlannedAction == {"none", "execute", "wait"}

Work == [state: MastermindState, planned: PlannedAction,
         current: 0..AttemptBound,       \* current_execution_attempt_id, 0 for NULL
         owner: Instance \cup {NoOwner}, live: BOOLEAN]

\* One attempt row.  workspace, preflight and handle say whether the JSON
\* column is set (for preflight: to an accepted report); status and unknowns
\* are last_status_json; outcome and verified are result_json and
\* verification_json.
Attempt == [state: ExecutionStates \cup {"absent"},
            workspace: BOOLEAN, preflight: BOOLEAN, handle: BOOLEAN,
            status: ObservedStatus \cup {"none"}, unknowns: Nat,
            outcome: Outcome \cup {"none"}, verified: BOOLEAN,
            retryEligible: BOOLEAN,
            projection: {"none", "pending", "applied"}]

AbsentAttempt ==
  [state |-> "absent", workspace |-> FALSE, preflight |-> FALSE,
   handle |-> FALSE, status |-> "none", unknowns |-> 0, outcome |-> "none",
   verified |-> FALSE, retryEligible |-> FALSE, projection |-> "none"]
\* Mutant: the row is inserted in the state the work item had.
NewAttempt_PriorState == [AbsentAttempt EXCEPT !.state = "action_planned"]
NewAttempt == [AbsentAttempt EXCEPT !.state = "provisioning"]

WorkCopy == [fresh: BOOLEAN, state: MastermindState, planned: PlannedAction,
             current: 0..AttemptBound]
AttemptCopy == [fresh: BOOLEAN, n: 0..AttemptBound, row: Attempt]

\* What a run that has read nothing holds.
NoWorkCopy == [fresh |-> FALSE, state |-> "received", planned |-> "none", current |-> 0]
NoAttemptCopy == [fresh |-> FALSE, n |-> 0, row |-> AbsentAttempt]

StoreTypeOK ==
  /\ work \in Work
  /\ attempts \in [AttemptNumber -> Attempt]
  /\ lastAttempt \in 0..AttemptBound
  /\ workCopy \in [Proc -> WorkCopy]
  /\ attemptCopy \in [Proc -> AttemptCopy]

-----------------------------------------------------------------------------
(* Copies *)

CopyOfWork(row) ==
  [fresh |-> TRUE, state |-> row.state, planned |-> row.planned,
   current |-> row.current]

\* row_version + 1 on the work row, which p reads back: p's copy is the only
\* one that carries the new version.
BumpWork(p, row) ==
  workCopy' = [q \in Proc |-> IF q = p THEN CopyOfWork(row)
                              ELSE [workCopy[q] EXCEPT !.fresh = FALSE]]

\* The same for attempt row n.
BumpAttempt(p, n, row) ==
  attemptCopy' =
    [q \in Proc |->
      IF q = p THEN [fresh |-> TRUE, n |-> n, row |-> row]
      ELSE [attemptCopy[q] EXCEPT !.fresh = @ /\ attemptCopy[q].n # n]]

-----------------------------------------------------------------------------
(* Fences *)

\* Mutant: the expiry of a lease is not looked at.
LeaseFree_IgnoresExpiry == work.owner = NoOwner
LeaseFree == work.owner = NoOwner \/ ~work.live

HoldsLease(p) == work.owner = OwnerOf[p] /\ work.live

\* lease_owner = ? AND lease_expires_at > ? AND row_version = ?
WorkFence(p) == HoldsLease(p) /\ workCopy[p].fresh

\* The attempt conditions of saveExecutionProjection: the attempt's own
\* row_version, its being the current attempt, and the work fence.
ProjectionFence(p) ==
  /\ WorkFence(p)
  /\ attemptCopy[p].fresh
  /\ work.current = attemptCopy[p].n

\* Mutant: only the lease and the current attempt are compared.
AttemptFence_LeaseOnly(p) == HoldsLease(p) /\ work.current = attemptCopy[p].n
\* transitionExecutionAttempt and patchExecutionAttempt also compare the state
\* of both rows with the copy's.
AttemptFence(p) ==
  /\ ProjectionFence(p)
  /\ attempts[attemptCopy[p].n].state = attemptCopy[p].row.state
  /\ work.state = attemptCopy[p].row.state

\* requireEligibleExecutionWork and requireEligibleRetry.
CreationFence(p, action) ==
  /\ WorkFence(p)
  /\ work.planned = action
  /\ \/ work.state = "action_planned" /\ work.current = 0
     \/ /\ work.state = "retry_wait"
        /\ work.current # 0
        /\ attempts[work.current].retryEligible
        /\ attempts[work.current].state = "retry_wait"

-----------------------------------------------------------------------------
(* Operations of SqliteMastermindStore *)

\* Mutant: taking the lease does not bump row_version.
AcquireLease_KeepsVersion(p) ==
  /\ LeaseFree
  /\ work' = [work EXCEPT !.owner = OwnerOf[p], !.live = TRUE]
  /\ workCopy' = [workCopy EXCEPT ![p] = CopyOfWork(work')]
  /\ UNCHANGED <<attempts, lastAttempt>>

AcquireLease(p) ==
  /\ LeaseFree
  /\ work' = [work EXCEPT !.owner = OwnerOf[p], !.live = TRUE]
  /\ BumpWork(p, work')
  /\ UNCHANGED <<attempts, lastAttempt>>

\* WHERE id = ? AND lease_owner = ?: neither the version nor the expiry is
\* looked at, so a run whose lease lapsed releases the one of a later run of
\* the same instance.
ReleaseLease(p) ==
  /\ work' = IF work.owner = OwnerOf[p]
             THEN [work EXCEPT !.owner = NoOwner, !.live = FALSE]
             ELSE work
  /\ UNCHANGED <<attempts, lastAttempt>>

\* transition: reopening gives up the current attempt.
Transition(p, type, planned) ==
  /\ WorkFence(p)
  /\ Accepts(work.state, type)
  /\ work' = [work EXCEPT
       !.state = NextState(work.state, type),
       !.planned = planned,
       !.current = IF type = "REOPEN_REVIEW" THEN 0 ELSE @]
  /\ BumpWork(p, work')
  /\ UNCHANGED <<attempts, lastAttempt, attemptCopy>>

\* Mutant: the work item is not pointed at the new attempt.
CreateExecutionAttempt_NotCurrent(p, action) ==
  /\ CreationFence(p, action)
  /\ lastAttempt < AttemptBound
  /\ lastAttempt' = lastAttempt + 1
  /\ attempts' = [attempts EXCEPT ![lastAttempt + 1] = NewAttempt]
  /\ work' = [work EXCEPT !.state = "provisioning"]
  /\ BumpWork(p, work')
  /\ UNCHANGED attemptCopy

\* MAX(attempt_number) + 1, in the transaction that moves the work item.
CreateExecutionAttempt(p, action) ==
  /\ CreationFence(p, action)
  /\ lastAttempt < AttemptBound
  /\ lastAttempt' = lastAttempt + 1
  /\ attempts' = [attempts EXCEPT ![lastAttempt + 1] = NewAttempt]
  /\ work' = [work EXCEPT !.state = "provisioning", !.current = lastAttempt + 1]
  /\ BumpWork(p, work')
  /\ UNCHANGED attemptCopy

\* Mutant: the work item's UPDATE is forgotten.
TransitionExecutionAttempt_AttemptOnly(p, event, row) ==
  LET n == attemptCopy[p].n
      moved == [row EXCEPT !.state = NextState(attemptCopy[p].row.state, event)]
  IN /\ AttemptFence(p)
     /\ Accepts(attemptCopy[p].row.state, event)
     /\ attempts' = [attempts EXCEPT ![n] = moved]
     /\ BumpAttempt(p, n, moved)
     /\ UNCHANGED <<work, lastAttempt, workCopy>>

\* Both rows move together or not at all.  row is p's copy with the patch
\* applied: under the fence it is the stored row with the patch applied.
TransitionExecutionAttempt(p, event, row) ==
  LET n == attemptCopy[p].n
      moved == [row EXCEPT !.state = NextState(attemptCopy[p].row.state, event)]
  IN /\ AttemptFence(p)
     /\ Accepts(attemptCopy[p].row.state, event)
     /\ attempts' = [attempts EXCEPT ![n] = moved]
     /\ work' = [work EXCEPT !.state = moved.state]
     /\ BumpWork(p, work')
     /\ BumpAttempt(p, n, moved)
     /\ UNCHANGED lastAttempt

\* Mutant: no COALESCE, so a patch clears a column it does not name.
PatchExecutionAttempt_Overwrites(p, row) ==
  LET patched == [row EXCEPT !.preflight = FALSE]
  IN /\ AttemptFence(p)
     /\ attempts' = [attempts EXCEPT ![attemptCopy[p].n] = patched]
     /\ BumpAttempt(p, attemptCopy[p].n, patched)
     /\ UNCHANGED <<work, lastAttempt, workCopy>>

PatchExecutionAttempt(p, row) ==
  /\ AttemptFence(p)
  /\ attempts' = [attempts EXCEPT ![attemptCopy[p].n] = row]
  /\ BumpAttempt(p, attemptCopy[p].n, row)
  /\ UNCHANGED <<work, lastAttempt, workCopy>>

SaveExecutionProjection(p, disposition) ==
  LET n == attemptCopy[p].n
      row == [attempts[n] EXCEPT !.projection = disposition]
  IN /\ ProjectionFence(p)
     /\ attempts' = [attempts EXCEPT ![n] = row]
     /\ BumpAttempt(p, n, row)
     /\ UNCHANGED <<work, lastAttempt, workCopy>>

\* getCurrentExecutionAttempt: a join on the row as it is now.
ReadCurrentAttempt(p) ==
  /\ work.current # 0
  /\ attemptCopy' = [attemptCopy EXCEPT
       ![p] = [fresh |-> TRUE, n |-> work.current, row |-> attempts[work.current]]]

\* The run ends, or its process dies: what it read is gone.
ForgetCopies(p) ==
  /\ workCopy' = [workCopy EXCEPT ![p] = NoWorkCopy]
  /\ attemptCopy' = [attemptCopy EXCEPT ![p] = NoAttemptCopy]

-----------------------------------------------------------------------------
(* Listings the service polls *)

\* listLaunchableExecutionWorkIds, but for the lease test.
Launchable ==
  /\ work.state = "action_planned"
  /\ work.planned = "execute"
  /\ work.current = 0

\* Mutant: attempts that wait for their projection are not listed.
Recoverable_ForgetsProjection ==
  /\ work.current # 0
  /\ attempts[work.current].state \in ActiveExecutionStates \cup {"retry_wait"}

\* listRecoverableExecutions, but for the lease test.
Recoverable ==
  /\ work.current # 0
  /\ LET attempt == attempts[work.current]
     IN \/ attempt.state \in ActiveExecutionStates \cup {"retry_wait"}
        \/ attempt.state = "succeeded"
             /\ work.state \in {"succeeded", "code_review_pending", "code_reviewing"}
        \/ attempt.state \in SettledExecutionStates /\ attempt.projection # "applied"
=============================================================================
