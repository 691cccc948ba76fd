------------------------ MODULE MastermindStore_proofs ------------------------
(***************************************************************************)
(* Lemmas about the operations of MastermindStore, for the proofs about    *)
(* the components that use it: what each keeps of the type of the rows and *)
(* of the copies.                                                          *)
(***************************************************************************)
EXTENDS MastermindStore, TLAPS

\* The events of the execution keep an attempt within the execution states.
LEMMA ExecutionMoves ==
  ASSUME NEW s \in ExecutionStates, NEW e \in ExecutionEvents \cup {"none"}, Accepts(s, e)
  PROVE  NextState(s, e) \in ExecutionStates
<1>1. CASE s = "provisioning"
  BY <1>1 DEF Accepts, NextState, On, ExecutionStates, ExecutionEvents,
         ActiveExecutionStates, SettledExecutionStates
<1>2. CASE s = "preflighting"
  BY <1>2 DEF Accepts, NextState, On, ExecutionStates, ExecutionEvents,
         ActiveExecutionStates, SettledExecutionStates
<1>3. CASE s = "launching"
  BY <1>3 DEF Accepts, NextState, On, ExecutionStates, ExecutionEvents,
         ActiveExecutionStates, SettledExecutionStates
<1>4. CASE s = "running"
  BY <1>4 DEF Accepts, NextState, On, ExecutionStates, ExecutionEvents,
         ActiveExecutionStates, SettledExecutionStates
<1>5. CASE s = "collecting"
  BY <1>5 DEF Accepts, NextState, On, ExecutionStates, ExecutionEvents,
         ActiveExecutionStates, SettledExecutionStates
<1>6. CASE s = "succeeded"
  BY <1>6 DEF Accepts, NextState, On, ExecutionStates, ExecutionEvents,
         ActiveExecutionStates, SettledExecutionStates
<1>7. CASE s = "needs_human"
  BY <1>7 DEF Accepts, NextState, On, ExecutionStates, ExecutionEvents,
         ActiveExecutionStates, SettledExecutionStates
<1>8. CASE s = "failed"
  BY <1>8 DEF Accepts, NextState, On, ExecutionStates, ExecutionEvents,
         ActiveExecutionStates, SettledExecutionStates
<1>9. CASE s = "retry_wait"
  BY <1>9 DEF Accepts, NextState, On, ExecutionStates, ExecutionEvents,
         ActiveExecutionStates, SettledExecutionStates
<1> QED BY <1>1, <1>2, <1>3, <1>4, <1>5, <1>6, <1>7, <1>8, <1>9
  DEF ExecutionStates, ActiveExecutionStates, SettledExecutionStates

\* Attempts share the states of the work item.
LEMMA ExecutionStatesAreStates == ExecutionStates \subseteq MastermindState
BY DEF ExecutionStates, ActiveExecutionStates, SettledExecutionStates,
       MastermindState, On

\* An accepted event leads to a state, and only PLAN_ACTION plans.
LEMMA TableMoves ==
  ASSUME NEW s \in MastermindState, NEW e, Accepts(s, e)
  PROVE  /\ NextState(s, e) \in MastermindState
         /\ NextState(s, e) = "action_planned" => e = "PLAN_ACTION"
<1>0. MastermindState =
        {"received", "claimed", "deciding", "reviewing", "applying_review", "retry_wait",
         "action_planned", "provisioning", "preflighting", "launching", "running",
         "collecting", "succeeded", "code_review_pending", "code_reviewing",
         "awaiting_acceptance", "changes_requested", "completed", "needs_human",
         "ignored", "failed"}
  BY DEF MastermindState, On
<1>1. CASE s = "received"
  BY <1>0, <1>1 DEF Accepts, NextState, On
<1>2. CASE s = "claimed"
  BY <1>0, <1>2 DEF Accepts, NextState, On
<1>3. CASE s = "deciding"
  BY <1>0, <1>3 DEF Accepts, NextState, On
<1>4. CASE s = "reviewing"
  BY <1>0, <1>4 DEF Accepts, NextState, On
<1>5. CASE s = "applying_review"
  BY <1>0, <1>5 DEF Accepts, NextState, On
<1>6. CASE s = "retry_wait"
  BY <1>0, <1>6 DEF Accepts, NextState, On
<1>7. CASE s = "action_planned"
  BY <1>0, <1>7 DEF Accepts, NextState, On
<1>8. CASE s = "provisioning"
  BY <1>0, <1>8 DEF Accepts, NextState, On
<1>9. CASE s = "preflighting"
  BY <1>0, <1>9 DEF Accepts, NextState, On
<1>10. CASE s = "launching"
  BY <1>0, <1>10 DEF Accepts, NextState, On
<1>11. CASE s = "running"
  BY <1>0, <1>11 DEF Accepts, NextState, On
<1>12. CASE s = "collecting"
  BY <1>0, <1>12 DEF Accepts, NextState, On
<1>13. CASE s = "succeeded"
  BY <1>0, <1>13 DEF Accepts, NextState, On
<1>14. CASE s = "code_review_pending"
  BY <1>0, <1>14 DEF Accepts, NextState, On
<1>15. CASE s = "code_reviewing"
  BY <1>0, <1>15 DEF Accepts, NextState, On
<1>16. CASE s = "awaiting_acceptance"
  BY <1>0, <1>16 DEF Accepts, NextState, On
<1>17. CASE s = "changes_requested"
  BY <1>0, <1>17 DEF Accepts, NextState, On
<1>18. CASE s = "completed"
  BY <1>0, <1>18 DEF Accepts, NextState, On
<1>19. CASE s = "needs_human"
  BY <1>0, <1>19 DEF Accepts, NextState, On
<1>20. CASE s = "ignored"
  BY <1>0, <1>20 DEF Accepts, NextState, On
<1>21. CASE s = "failed"
  BY <1>0, <1>21 DEF Accepts, NextState, On
<1> QED BY <1>0, <1>1, <1>2, <1>3, <1>4, <1>5, <1>6, <1>7, <1>8, <1>9, <1>10,
           <1>11, <1>12, <1>13, <1>14, <1>15, <1>16, <1>17, <1>18, <1>19, <1>20, <1>21

\* SqliteMastermindStore.transition
LEMMA TransitionType ==
  ASSUME StoreTypeOK, NEW p \in Proc, NEW type, NEW planned \in PlannedAction,
         Transition(p, type, planned)
  PROVE  StoreTypeOK'
<1>1. NextState(work.state, type) \in MastermindState
  BY TableMoves DEF Transition, StoreTypeOK, Work
<1>2. work' \in Work
  <2>1. (IF type = "REOPEN_REVIEW" THEN 0 ELSE work.current) \in 0..AttemptBound
    BY AttemptBoundAssumption DEF StoreTypeOK, Work
  <2>2. work' = [work EXCEPT
          !.state = NextState(work.state, type),
          !.planned = planned,
          !.current = IF type = "REOPEN_REVIEW" THEN 0 ELSE work.current]
    BY DEF Transition, StoreTypeOK, Work
  <2> QED BY <1>1, <2>1, <2>2 DEF StoreTypeOK, Work
<1>3. workCopy' \in [Proc -> WorkCopy]
  <2>1. CopyOfWork(work') \in WorkCopy
    BY <1>2 DEF CopyOfWork, Work, WorkCopy
  <2>2. ASSUME NEW q \in Proc PROVE [workCopy[q] EXCEPT !.fresh = FALSE] \in WorkCopy
    <3>1. workCopy[q] \in WorkCopy
      BY DEF StoreTypeOK
    <3> QED BY <3>1 DEF WorkCopy
  <2> QED BY <2>1, <2>2 DEF Transition, BumpWork
<1> QED BY <1>2, <1>3 DEF Transition, StoreTypeOK

\* acquireLease (attemptCopy is the caller's).
LEMMA AcquireLeaseType ==
  ASSUME StoreTypeOK, NEW p \in Proc, AcquireLease(p), UNCHANGED attemptCopy
  PROVE  StoreTypeOK'
<1>1. work' \in Work
  BY StoreAssumption DEF AcquireLease, StoreTypeOK, Work
<1>2. workCopy' \in [Proc -> WorkCopy]
  BY <1>1 DEF AcquireLease, StoreTypeOK, Work, BumpWork, WorkCopy, CopyOfWork
<1> QED BY <1>1, <1>2 DEF AcquireLease, StoreTypeOK

\* What a run read is gone when it ends.
LEMMA ForgetCopiesType ==
  ASSUME StoreTypeOK, NEW p \in Proc, ForgetCopies(p)
  PROVE  /\ workCopy' \in [Proc -> WorkCopy]
         /\ attemptCopy' \in [Proc -> AttemptCopy]
<1>1. NoWorkCopy \in WorkCopy
  BY AttemptBoundAssumption
  DEF NoWorkCopy, WorkCopy, MastermindState, On, PlannedAction
<1>2. NoAttemptCopy \in AttemptCopy
  BY AttemptBoundAssumption
  DEF NoAttemptCopy, AttemptCopy, Attempt, AbsentAttempt
<1> QED BY <1>1, <1>2 DEF ForgetCopies, StoreTypeOK

\* releaseLease
LEMMA ReleaseLeaseType ==
  ASSUME StoreTypeOK, NEW p \in Proc, ReleaseLease(p), ForgetCopies(p)
  PROVE  StoreTypeOK'
<1>1. work' \in Work
  BY DEF ReleaseLease, StoreTypeOK, Work
<1> QED BY <1>1, ForgetCopiesType DEF ReleaseLease, StoreTypeOK

\* createExecutionAttempt
LEMMA CreateExecutionAttemptType ==
  ASSUME StoreTypeOK, NEW p \in Proc, NEW action, CreateExecutionAttempt(p, action)
  PROVE  StoreTypeOK'
<1>1. lastAttempt + 1 \in AttemptNumber /\ lastAttempt + 1 \in 0..AttemptBound
  BY AttemptBoundAssumption DEF CreateExecutionAttempt, StoreTypeOK, AttemptNumber
<1>2. NewAttempt \in Attempt
  BY DEF NewAttempt, AbsentAttempt, Attempt, ExecutionStates, ActiveExecutionStates
<1>3. work' \in Work
  BY <1>1, ExecutionStatesAreStates
  DEF CreateExecutionAttempt, StoreTypeOK, Work, ExecutionStates, ActiveExecutionStates
<1>4. workCopy' \in [Proc -> WorkCopy]
  BY <1>3 DEF CreateExecutionAttempt, StoreTypeOK, Work, BumpWork, WorkCopy, CopyOfWork
<1> QED BY <1>1, <1>2, <1>3, <1>4 DEF CreateExecutionAttempt, StoreTypeOK

\* The copy of an attempt a process holds after it bumped the row's version.
LEMMA BumpAttemptType ==
  ASSUME StoreTypeOK, NEW p \in Proc, NEW n \in AttemptNumber,
         NEW row \in Attempt, BumpAttempt(p, n, row)
  PROVE  attemptCopy' \in [Proc -> AttemptCopy]
<1>1. n \in 0..AttemptBound
  BY AttemptBoundAssumption DEF AttemptNumber
<1>2. \A q \in Proc : [attemptCopy[q] EXCEPT !.fresh =
                          attemptCopy[q].fresh /\ attemptCopy[q].n # n] \in AttemptCopy
  BY DEF StoreTypeOK, AttemptCopy
<1>3. [fresh |-> TRUE, n |-> n, row |-> row] \in AttemptCopy
  BY <1>1 DEF AttemptCopy
<1> QED BY <1>2, <1>3 DEF BumpAttempt

\* transitionExecutionAttempt
LEMMA TransitionExecutionAttemptType ==
  ASSUME StoreTypeOK, NEW p \in Proc, NEW event \in ExecutionEvents \cup {"none"},
         NEW row \in Attempt, attemptCopy[p].n \in AttemptNumber,
         TransitionExecutionAttempt(p, event, row)
  PROVE  StoreTypeOK'
<1> DEFINE n == attemptCopy[p].n
           s == attemptCopy[p].row.state
           moved == [row EXCEPT !.state = NextState(s, event)]
<1>1. s \in ExecutionStates
  <2>1. s \in MastermindState
    BY DEF TransitionExecutionAttempt, AttemptFence, StoreTypeOK, Work
  <2>2. "absent" \notin MastermindState
    BY DEF MastermindState, On
  <2> QED BY <2>1, <2>2 DEF StoreTypeOK, AttemptCopy, Attempt
<1>2. NextState(s, event) \in ExecutionStates
  BY <1>1, ExecutionMoves DEF TransitionExecutionAttempt
<1>3. moved \in Attempt
  BY <1>2 DEF Attempt
<1>4. work' \in Work
  <2>1. moved.state \in MastermindState
    BY <1>2, ExecutionStatesAreStates DEF Attempt
  <2>2. work' = [work EXCEPT !.state = moved.state]
    BY DEF TransitionExecutionAttempt
  <2> QED BY <2>1, <2>2 DEF StoreTypeOK, Work
<1>5. workCopy' \in [Proc -> WorkCopy]
  BY <1>4 DEF TransitionExecutionAttempt, StoreTypeOK, Work, BumpWork, WorkCopy, CopyOfWork
<1>6. attemptCopy' \in [Proc -> AttemptCopy]
  BY <1>3, BumpAttemptType DEF TransitionExecutionAttempt
<1>7. attempts' \in [AttemptNumber -> Attempt]
  BY <1>3 DEF TransitionExecutionAttempt, StoreTypeOK
<1> QED BY <1>4, <1>5, <1>6, <1>7 DEF TransitionExecutionAttempt, StoreTypeOK

\* patchExecutionAttempt
LEMMA PatchExecutionAttemptType ==
  ASSUME StoreTypeOK, NEW p \in Proc, NEW row \in Attempt,
         attemptCopy[p].n \in AttemptNumber, PatchExecutionAttempt(p, row)
  PROVE  StoreTypeOK'
<1>1. attemptCopy' \in [Proc -> AttemptCopy]
  BY BumpAttemptType DEF PatchExecutionAttempt
<1> QED BY <1>1 DEF PatchExecutionAttempt, StoreTypeOK

\* saveExecutionProjection
LEMMA SaveExecutionProjectionType ==
  ASSUME StoreTypeOK, NEW p \in Proc, NEW disposition \in {"pending", "applied"},
         attemptCopy[p].n \in AttemptNumber, SaveExecutionProjection(p, disposition)
  PROVE  StoreTypeOK'
<1> DEFINE row == [attempts[attemptCopy[p].n] EXCEPT !.projection = disposition]
<1>1. row \in Attempt
  BY DEF StoreTypeOK, Attempt
<1>2. attemptCopy' \in [Proc -> AttemptCopy]
  BY <1>1, BumpAttemptType DEF SaveExecutionProjection
<1> QED BY <1>1, <1>2 DEF SaveExecutionProjection, StoreTypeOK

\* getCurrentExecutionAttempt
LEMMA ReadCurrentAttemptType ==
  ASSUME StoreTypeOK, NEW p \in Proc, ReadCurrentAttempt(p),
         UNCHANGED <<work, attempts, lastAttempt, workCopy>>
  PROVE  /\ work.current \in AttemptNumber
         /\ StoreTypeOK'
<1>1. work.current \in AttemptNumber
  BY AttemptBoundAssumption DEF ReadCurrentAttempt, StoreTypeOK, Work, AttemptNumber
<1>2. [fresh |-> TRUE, n |-> work.current, row |-> attempts[work.current]] \in AttemptCopy
  BY <1>1 DEF StoreTypeOK, Work, AttemptCopy
<1> QED BY <1>1, <1>2 DEF ReadCurrentAttempt, StoreTypeOK
=============================================================================
