----------------------- MODULE ExecutionSafety_proofs -----------------------
(***************************************************************************)
(* What several runs, crashes, lapsed leases and lost answers cannot do,   *)
(* for any number of each: to the rows of a work item, and to the agents   *)
(* they start.  No agent without a committed intent and, as long as no     *)
(* agent's pane is lost, no second prompt of an attempt and no second      *)
(* agent at work.                                                          *)
(***************************************************************************)
EXTENDS ExecutionCoordinator_proofs

-----------------------------------------------------------------------------
(* The inductive invariant *)

\* Only one copy of the work row carries its version, whoever holds the lease.
OneFreshWorkCopy ==
  \A p, q \in Proc : workCopy[p].fresh /\ workCopy[q].fresh => p = q

\* A copy that carries the version of an attempt's row is the row.
FreshCopyIsRow ==
  \A p \in Proc : attemptCopy[p].fresh =>
    Number(p) \in 1..lastAttempt /\ Copy(p) = attempts[Number(p)]

WaitingAllowed ==
  \A n \in AttemptNumber : attempts[n].state = "retry_wait" => n < MaxAttempts

\* The evidence each state of an attempt presupposes.
RowSound(row) ==
  /\ row.state = "absent" => ~row.workspace /\ ~row.preflight /\ ~row.handle
  /\ row.state \in {"preflighting", "launching", "running", "collecting", "succeeded"}
       => row.workspace
  /\ row.state \in {"launching", "running", "collecting", "succeeded"} => row.preflight
  /\ row.state \in {"running", "collecting", "succeeded"} => row.handle
  /\ row.state = "succeeded" =>
       row.status = "terminal" /\ row.outcome = "succeeded" /\ row.verified

RowsSound == \A n \in AttemptNumber : RowSound(attempts[n])

\* What a run is about to write adds to what it read.
Keeps(row, copy) ==
  /\ row.state = copy.state
  /\ copy.workspace => row.workspace
  /\ copy.preflight => row.preflight
  /\ copy.handle => row.handle

\* The event a run is about to commit is backed by the row it commits.
Committable(p) ==
  LET event == intent[p].event
      row == intent[p].row
  IN /\ Keeps(row, Copy(p))
     /\ event = "WORKSPACE_PROVISIONED" => row.workspace
     /\ event = "PREFLIGHT_PASSED" => row.preflight
     /\ event = "EXECUTOR_STARTED" => row.handle
     /\ event = "EXECUTION_SUCCEEDED" =>
          row.status = "terminal" /\ row.outcome = "succeeded" /\ row.verified
     /\ event = "EXECUTION_RETRYABLE" => Number(p) < MaxAttempts

\* What a run holds when it makes its next call.
Prepared(p) ==
  /\ pc[p] = "record_workspace" => Copy(p).state = "provisioning"
  /\ pc[p] = "provision" => Copy(p).workspace
  /\ pc[p] = "record_handle" => Copy(p).state = "launching"
  /\ pc[p] \in {"start", "start_agent", "prompt"} => Copy(p).handle
  /\ pc[p] = "poll" => Copy(p).state = "running"
  /\ pc[p] = "record_status" =>
       Copy(p).state = "running" /\ Keeps(intent[p].row, Copy(p))
  /\ pc[p] = "commit" => Committable(p)

RowsInv == /\ FreshCopyIsRow /\ AttemptAgreement /\ AttemptHistory
           /\ WaitingAllowed /\ RowsSound

SafetyInv == TypeInv /\ RowsInv /\ \A p \in Proc : Prepared(p)

-----------------------------------------------------------------------------
(* The moves of an attempt *)

\* Where each event of the execution takes an attempt, and that none moves a
\* settled one.
Moves(s, e, t) ==
  \/ e = "WORKSPACE_PROVISIONED" /\ s = "provisioning" /\ t = "preflighting"
  \/ e = "PREFLIGHT_PASSED" /\ s = "preflighting" /\ t = "launching"
  \/ e = "EXECUTOR_STARTED" /\ s = "launching" /\ t = "running"
  \/ e = "EXECUTOR_TERMINAL" /\ s = "running" /\ t = "collecting"
  \/ e = "EXECUTION_SUCCEEDED" /\ s = "collecting" /\ t = "succeeded"
  \/ e = "EXECUTION_RETRYABLE" /\ s = "collecting" /\ t = "retry_wait"
  \/ s \in ExecutionStates \ SettledExecutionStates /\ t \in {"needs_human", "failed"}

LEMMA MovesByTable ==
  ASSUME NEW s \in ExecutionStates, NEW e \in ExecutionEvents \cup {"none"}, Accepts(s, e)
  PROVE  Moves(s, e, NextState(s, e))
<1>1. CASE s = "provisioning"
  BY <1>1 DEF Moves, Accepts, NextState, On, ExecutionStates, ExecutionEvents,
         ActiveExecutionStates, SettledExecutionStates
<1>2. CASE s = "preflighting"
  BY <1>2 DEF Moves, Accepts, NextState, On, ExecutionStates, ExecutionEvents,
         ActiveExecutionStates, SettledExecutionStates
<1>3. CASE s = "launching"
  BY <1>3 DEF Moves, Accepts, NextState, On, ExecutionStates, ExecutionEvents,
         ActiveExecutionStates, SettledExecutionStates
<1>4. CASE s = "running"
  BY <1>4 DEF Moves, Accepts, NextState, On, ExecutionStates, ExecutionEvents,
         ActiveExecutionStates, SettledExecutionStates
<1>5. CASE s = "collecting"
  BY <1>5 DEF Moves, Accepts, NextState, On, ExecutionStates, ExecutionEvents,
         ActiveExecutionStates, SettledExecutionStates
<1>6. CASE s = "succeeded"
  BY <1>6 DEF Moves, Accepts, NextState, On, ExecutionStates, ExecutionEvents,
         ActiveExecutionStates, SettledExecutionStates
<1>7. CASE s = "needs_human"
  BY <1>7 DEF Moves, Accepts, NextState, On, ExecutionStates, ExecutionEvents,
         ActiveExecutionStates, SettledExecutionStates
<1>8. CASE s = "failed"
  BY <1>8 DEF Moves, Accepts, NextState, On, ExecutionStates, ExecutionEvents,
         ActiveExecutionStates, SettledExecutionStates
<1>9. CASE s = "retry_wait"
  BY <1>9 DEF Moves, Accepts, NextState, On, ExecutionStates, ExecutionEvents,
         ActiveExecutionStates, SettledExecutionStates
<1> QED BY <1>1, <1>2, <1>3, <1>4, <1>5, <1>6, <1>7, <1>8, <1>9
  DEF ExecutionStates, ActiveExecutionStates, SettledExecutionStates

-----------------------------------------------------------------------------
(* The three ways a step treats the rows *)

\* No row changes; a copy stays, loses its version or is read afresh.
LEMMA RowsUntouched ==
  ASSUME TypeInv, RowsInv,
         UNCHANGED <<attempts, lastAttempt, work.state, work.current>>,
         \A q \in Proc :
           \/ attemptCopy'[q] = attemptCopy[q]
           \/ ~attemptCopy'[q].fresh
           \/ /\ work.current \in AttemptNumber
              /\ attemptCopy'[q].n = work.current
              /\ attemptCopy'[q].row = attempts[work.current]
  PROVE  RowsInv'
<1>1. FreshCopyIsRow'
  <2> SUFFICES ASSUME NEW q \in Proc, attemptCopy'[q].fresh
               PROVE  /\ attemptCopy'[q].n \in 1..lastAttempt
                      /\ attemptCopy'[q].row = attempts[attemptCopy'[q].n]
    BY DEF FreshCopyIsRow, Number, Copy
  <2>1. CASE attemptCopy'[q] = attemptCopy[q]
    BY <2>1 DEF RowsInv, FreshCopyIsRow, Number, Copy
  <2>2. CASE /\ work.current \in AttemptNumber
             /\ attemptCopy'[q].n = work.current
             /\ attemptCopy'[q].row = attempts[work.current]
    BY <2>2 DEF RowsInv, AttemptHistory, AttemptNumber, TypeInv, TypeOK, StoreTypeOK
  <2> QED BY <2>1, <2>2
<1>2. AttemptAgreement' /\ AttemptHistory' /\ WaitingAllowed' /\ RowsSound'
  BY DEF RowsInv, AttemptAgreement, AttemptHistory, WaitingAllowed, RowsSound
<1> QED BY <1>1, <1>2 DEF RowsInv

\* The current attempt's row is written through a copy that passed the fence.
LEMMA RowWritten ==
  ASSUME TypeInv, RowsInv, NEW p \in Proc, ProjectionFence(p),
         NEW row \in Attempt, Number(p) \in AttemptNumber,
         attempts' = [attempts EXCEPT ![Number(p)] = row],
         BumpAttempt(p, Number(p), row),
         UNCHANGED <<lastAttempt, work.current>>,
         row.state = work'.state, row.state # "absent", RowSound(row),
         row.state = "retry_wait" => Number(p) < MaxAttempts
  PROVE  RowsInv'
<1>1. /\ Number(p) = work.current /\ Number(p) = lastAttempt
      /\ Number(p) \in 1..lastAttempt
  BY DEF ProjectionFence, Number, RowsInv, AttemptHistory, AttemptNumber,
         TypeInv, TypeOK, StoreTypeOK
<1>2. \A n \in AttemptNumber : attempts'[n] = IF n = Number(p) THEN row ELSE attempts[n]
  BY DEF TypeInv, TypeOK, StoreTypeOK
<1>3. FreshCopyIsRow'
  <2> SUFFICES ASSUME NEW q \in Proc, attemptCopy'[q].fresh
               PROVE  /\ attemptCopy'[q].n \in 1..lastAttempt
                      /\ attemptCopy'[q].row = attempts'[attemptCopy'[q].n]
    BY DEF FreshCopyIsRow, Number, Copy
  <2>1. CASE q = p
    <3>1. attemptCopy'[q] = [fresh |-> TRUE, n |-> Number(p), row |-> row]
      BY <2>1 DEF BumpAttempt
    <3> QED BY <1>1, <1>2, <3>1
  <2>2. CASE q # p
    <3>1. attemptCopy[q] \in AttemptCopy
      BY DEF TypeInv, TypeOK, StoreTypeOK
    <3>2. /\ attemptCopy'[q].n = attemptCopy[q].n
          /\ attemptCopy'[q].row = attemptCopy[q].row
          /\ attemptCopy'[q].fresh = (attemptCopy[q].fresh /\ attemptCopy[q].n # Number(p))
      BY <2>2, <3>1 DEF BumpAttempt, AttemptCopy
    <3>3. /\ attemptCopy[q].n \in 1..lastAttempt
          /\ attemptCopy[q].row = attempts[attemptCopy[q].n]
      BY <3>2 DEF RowsInv, FreshCopyIsRow, Number, Copy
    <3>4. attemptCopy[q].n \in AttemptNumber
      BY <3>3, AttemptBoundAssumption DEF AttemptNumber, TypeInv, TypeOK, StoreTypeOK
    <3> QED BY <1>2, <3>2, <3>3, <3>4
  <2> QED BY <2>1, <2>2
<1>4. AttemptAgreement'
  <2>1. work'.current # 0
    BY <1>1 DEF AttemptNumber
  <2> QED BY <1>1, <1>2, <2>1 DEF AttemptAgreement
<1>5. AttemptHistory'
  <2>1. \A n \in AttemptNumber : n < lastAttempt => n # Number(p)
    BY <1>1 DEF AttemptNumber
  <2>2. ~(Number(p) > lastAttempt)
    BY <1>1 DEF AttemptNumber
  <2> QED BY <1>1, <1>2, <2>1, <2>2 DEF RowsInv, AttemptHistory
<1>6. WaitingAllowed' /\ RowsSound'
  BY <1>2 DEF RowsInv, WaitingAllowed, RowsSound
<1> QED BY <1>3, <1>4, <1>5, <1>6 DEF RowsInv

\* createExecutionAttempt adds a row that no copy can know.
LEMMA RowAdded ==
  ASSUME TypeInv, RowsInv, NEW p \in Proc, CreateExecutionAttempt(p, "execute")
  PROVE  RowsInv'
<1> DEFINE m == lastAttempt + 1
<1>1. m \in AttemptNumber /\ lastAttempt' = m /\ m # 0 /\ lastAttempt \in Nat
  BY AttemptBoundAssumption
  DEF CreateExecutionAttempt, AttemptNumber, TypeInv, TypeOK, StoreTypeOK
<1>2. \A n \in AttemptNumber : attempts'[n] = IF n = m THEN NewAttempt ELSE attempts[n]
  BY <1>1 DEF CreateExecutionAttempt, TypeInv, TypeOK, StoreTypeOK
<1>3. work'.current = m /\ work'.state = "provisioning"
  BY DEF CreateExecutionAttempt, TypeInv, TypeOK, StoreTypeOK, Work
<1>4. NewAttempt.state = "provisioning"
  BY DEF NewAttempt, AbsentAttempt
<1>5. FreshCopyIsRow'
  <2> SUFFICES ASSUME NEW q \in Proc, attemptCopy'[q].fresh
               PROVE  /\ attemptCopy'[q].n \in 1..m
                      /\ attemptCopy'[q].row = attempts'[attemptCopy'[q].n]
    BY <1>1 DEF FreshCopyIsRow, Number, Copy
  <2>1. attemptCopy' = attemptCopy
    BY DEF CreateExecutionAttempt
  <2>2. /\ attemptCopy[q].n \in 1..lastAttempt
        /\ attemptCopy[q].row = attempts[attemptCopy[q].n]
    BY <2>1 DEF RowsInv, FreshCopyIsRow, Number, Copy
  <2>3. attemptCopy[q].n \in AttemptNumber /\ attemptCopy[q].n # m
    BY <1>1, <2>2, AttemptBoundAssumption DEF AttemptNumber
  <2> QED BY <1>1, <1>2, <2>1, <2>2, <2>3
<1>6. AttemptAgreement'
  BY <1>1, <1>2, <1>3, <1>4 DEF AttemptAgreement
<1>7. m <= MaxAttempts
  <2>1. CASE work.current = 0
    BY <2>1, CoordinatorAssumption DEF RowsInv, AttemptHistory
  <2>2. CASE work.current # 0
    <3>1. work.current \in AttemptNumber
      BY <2>2, AttemptBoundAssumption DEF AttemptNumber, TypeInv, TypeOK, StoreTypeOK, Work
    <3>2. attempts[work.current].state = "retry_wait"
      BY <2>2 DEF CreateExecutionAttempt, CreationFence
    <3>3. lastAttempt < MaxAttempts
      BY <3>1, <3>2 DEF RowsInv, WaitingAllowed, AttemptHistory
    <3> QED BY <1>1, <3>3, CoordinatorAssumption, AttemptBoundAssumption
  <2> QED BY <2>1, <2>2
<1>8. AttemptHistory'
  <2> SUFFICES ASSUME NEW n \in AttemptNumber
               PROVE  /\ attempts'[n].state = "absent" <=> n > m
                      /\ n < m => /\ attempts'[n].state = "retry_wait"
                                  /\ attempts'[n].retryEligible
    BY <1>1, <1>3, <1>7 DEF AttemptHistory
  <2>1. CASE n = m
    BY <1>1, <1>2, <1>4, <2>1
  <2>2. CASE n > m
    <3>1. n > lastAttempt /\ n # m
      BY <1>1, <2>2 DEF AttemptNumber
    <3> QED BY <1>1, <1>2, <2>2, <3>1 DEF RowsInv, AttemptHistory, AttemptNumber
  <2>3. CASE n = lastAttempt
    <3>1. work.current = n /\ work.current # 0 /\ n # m /\ n < m
      BY <1>1, <2>3 DEF RowsInv, AttemptHistory, AttemptNumber
    <3>2. attempts[n].state = "retry_wait" /\ attempts[n].retryEligible
      BY <3>1 DEF CreateExecutionAttempt, CreationFence
    <3> QED BY <1>2, <2>3, <3>1, <3>2, <1>1
  <2>4. CASE n < lastAttempt
    <3>1. n # m /\ n < m /\ ~(n > lastAttempt)
      BY <1>1, <2>4 DEF AttemptNumber
    <3> QED BY <1>1, <1>2, <2>4, <3>1 DEF RowsInv, AttemptHistory, AttemptNumber
  <2> QED BY <1>1, <2>1, <2>2, <2>3, <2>4 DEF AttemptNumber
<1>9. WaitingAllowed' /\ RowsSound'
  BY <1>2, <1>4 DEF RowsInv, WaitingAllowed, RowsSound, RowSound
<1> QED BY <1>5, <1>6, <1>8, <1>9 DEF RowsInv

-----------------------------------------------------------------------------
(* What a run is prepared for *)

LEMMA OthersPrepared ==
  ASSUME NEW q \in Proc, Prepared(q), pc'[q] = pc[q], intent'[q] = intent[q],
         attemptCopy'[q].row = attemptCopy[q].row, attemptCopy'[q].n = attemptCopy[q].n
  PROVE  Prepared(q)'
BY DEF Prepared, Committable, Keeps, Copy, Number

\* Calls that need nothing prepared.
LEMMA PreparedForNothing ==
  ASSUME NEW p \in Proc,
         pc'[p] \notin {"record_workspace", "provision", "record_handle", "start",
                       "start_agent", "prompt", "poll", "record_status", "commit"}
  PROVE  Prepared(p)'
BY DEF Prepared

LEMMA PreparedToCommit ==
  ASSUME TypeInv, NEW p \in Proc, NEW event, NEW row, Intend(p, event, row),
         Keeps(row, attemptCopy'[p].row),
         event = "WORKSPACE_PROVISIONED" => row.workspace,
         event = "PREFLIGHT_PASSED" => row.preflight,
         event = "EXECUTOR_STARTED" => row.handle,
         event = "EXECUTION_SUCCEEDED" =>
           row.status = "terminal" /\ row.outcome = "succeeded" /\ row.verified,
         event = "EXECUTION_RETRYABLE" => attemptCopy'[p].n < MaxAttempts
  PROVE  Prepared(p)'
<1>1. pc'[p] = "commit" /\ intent'[p].event = event /\ intent'[p].row = row
  BY DEF Intend, TypeInv, TypeOK
<1> QED BY <1>1 DEF Prepared, Committable, Copy, Number

LEMMA PreparedToAskHuman ==
  ASSUME TypeInv, NEW p \in Proc, NEW row \in Attempt, IntendNeedsHuman(p, row),
         Keeps(row, attemptCopy'[p].row)
  PROVE  Prepared(p)'
<1> DEFINE asked == [row EXCEPT !.retryEligible = FALSE]
<1>1. Intend(p, "EXECUTION_NEEDS_HUMAN", asked)
  BY DEF IntendNeedsHuman, NeedsHuman
<1>2. Keeps(asked, attemptCopy'[p].row)
  BY DEF Keeps, Attempt
<1> HIDE DEF asked
<1> QED BY <1>1, <1>2, PreparedToCommit

LEMMA KeepsItself == ASSUME NEW row PROVE Keeps(row, row)
BY DEF Keeps

\* Steps of p that leave rows and copies alone.
LEMMA QuietSafe ==
  ASSUME SafetyInv, TypeInv', NEW p \in Proc, UNCHANGED storeVars,
         \A q \in Proc : q # p => pc'[q] = pc[q] /\ intent'[q] = intent[q],
         Prepared(p)'
  PROVE  SafetyInv'
<1>1. RowsInv'
  BY RowsUntouched DEF SafetyInv, storeVars
<1>2. \A q \in Proc : Prepared(q)'
  BY OthersPrepared DEF SafetyInv, storeVars
<1> QED BY <1>1, <1>2 DEF SafetyInv

LEMMA LoadNothingSafe ==
  ASSUME SafetyInv, TypeInv', NEW p \in Proc, LoadNothing(p)
  PROVE  SafetyInv'
<1>1. Prepared(p)'
  BY PreparedForNothing DEF LoadNothing, Goto, EntryOfPlanned, SafetyInv, TypeInv, TypeOK
<1> QED BY <1>1, QuietSafe DEF LoadNothing, Goto, SafetyInv, TypeInv, TypeOK

LEMMA ClearGateLabelsSafe ==
  ASSUME SafetyInv, TypeInv', NEW p \in Proc, ClearGateLabels(p)
  PROVE  SafetyInv'
<1>1. Prepared(p)'
  BY PreparedForNothing DEF ClearGateLabels, Goto, SafetyInv, TypeInv, TypeOK
<1> QED BY <1>1, QuietSafe DEF ClearGateLabels, Goto, SafetyInv, TypeInv, TypeOK

LEMMA ProvisionSafe ==
  ASSUME SafetyInv, TypeInv', NEW p \in Proc, Provision(p)
  PROVE  SafetyInv'
<1>1. Copy(p).workspace /\ attemptCopy' = attemptCopy
  BY DEF Provision, SafetyInv, Prepared, storeVars
<1>2. Prepared(p)'
  BY <1>1, KeepsItself, PreparedToCommit DEF Provision, SafetyInv, Copy
<1> QED BY <1>2, QuietSafe DEF Provision, Intend, SafetyInv, TypeInv, TypeOK

LEMMA PreflightSafe ==
  ASSUME SafetyInv, TypeInv', NEW p \in Proc, Preflight(p)
  PROVE  SafetyInv'
<1>1. Prepared(p)'
  BY PreparedForNothing DEF Preflight, SafetyInv, TypeInv, TypeOK
<1>2. \A q \in Proc : q # p => pc'[q] = pc[q] /\ intent'[q] = intent[q]
  BY DEF Preflight, SafetyInv, TypeInv, TypeOK
<1> QED BY <1>1, <1>2, QuietSafe DEF Preflight

LEMMA StartSafe ==
  ASSUME SafetyInv, TypeInv', NEW p \in Proc, Start(p)
  PROVE  SafetyInv'
<1>1. Copy(p).handle /\ Copy(p) \in Attempt /\ attemptCopy' = attemptCopy
  BY LoadedCopy DEF Start, SafetyInv, Prepared, storeVars
<1>2. Prepared(p)'
  <2>1. CASE Goto(p, "start_agent")
    <3>1. pc'[p] = "start_agent"
      BY <2>1 DEF Goto, SafetyInv, TypeInv, TypeOK
    <3> QED BY <1>1, <3>1 DEF Prepared, Copy
  <2>2. CASE IntendNeedsHuman(p, Copy(p))
    BY <1>1, <2>2, KeepsItself, PreparedToAskHuman DEF SafetyInv, Copy
  <2>3. CASE Intend(p, "EXECUTOR_STARTED", Copy(p))
    BY <1>1, <2>3, KeepsItself, PreparedToCommit DEF SafetyInv, Copy
  <2> QED BY <2>1, <2>2, <2>3 DEF Start
<1> QED BY <1>2, QuietSafe
        DEF Start, Goto, Intend, IntendNeedsHuman, SafetyInv, TypeInv, TypeOK

LEMMA StartNewAgentSafe ==
  ASSUME SafetyInv, TypeInv', NEW p \in Proc, StartNewAgent(p)
  PROVE  SafetyInv'
<1>1. Copy(p).handle /\ Copy(p) \in Attempt /\ attemptCopy' = attemptCopy
  BY LoadedCopy DEF StartNewAgent, SafetyInv, Prepared, storeVars
<1>2. Prepared(p)'
  <2>1. CASE Goto(p, "prompt")
    <3>1. pc'[p] = "prompt"
      BY <2>1 DEF Goto, SafetyInv, TypeInv, TypeOK
    <3> QED BY <1>1, <3>1 DEF Prepared, Copy
  <2>2. CASE IntendNeedsHuman(p, Copy(p))
    BY <1>1, <2>2, KeepsItself, PreparedToAskHuman DEF SafetyInv, Copy
  <2> QED BY <2>1, <2>2 DEF StartNewAgent
<1> QED BY <1>2, QuietSafe
        DEF StartNewAgent, Goto, Intend, IntendNeedsHuman, SafetyInv, TypeInv, TypeOK

LEMMA PromptSafe ==
  ASSUME SafetyInv, TypeInv', NEW p \in Proc, Prompt(p) \/ PromptResponseLost(p)
  PROVE  SafetyInv'
<1>1. Copy(p).handle /\ Copy(p) \in Attempt /\ attemptCopy' = attemptCopy
  BY LoadedCopy DEF Prompt, PromptResponseLost, SafetyInv, Prepared, storeVars
<1>2. Prepared(p)'
  <2>1. CASE Intend(p, "EXECUTOR_STARTED", Copy(p))
    BY <1>1, <2>1, KeepsItself, PreparedToCommit DEF SafetyInv, Copy
  <2>2. CASE IntendNeedsHuman(p, Copy(p))
    BY <1>1, <2>2, KeepsItself, PreparedToAskHuman DEF SafetyInv, Copy
  <2> QED BY <2>1, <2>2 DEF Prompt, PromptResponseLost
<1> QED BY <1>2, QuietSafe
        DEF Prompt, PromptResponseLost, Intend, IntendNeedsHuman, SafetyInv, TypeInv, TypeOK

LEMMA PollSafe ==
  ASSUME SafetyInv, TypeInv', NEW p \in Proc, Poll(p)
  PROVE  SafetyInv'
<1>1. /\ Copy(p).state = "running" /\ Copy(p) \in Attempt
      /\ attemptCopy' = attemptCopy /\ UNCHANGED storeVars
  BY LoadedCopy DEF Poll, SafetyInv, Prepared, storeVars
<1>2. PICK s \in Observable(Number(p)) :
        LET seen == Observe(Copy(p), s)
        IN IF s = "blocked" \/ seen.unknowns >= UnknownThreshold
           THEN IntendNeedsHuman(p, seen)
           ELSE IF s = "terminal" THEN Intend(p, "EXECUTOR_TERMINAL", seen)
           ELSE /\ pc' = [pc EXCEPT ![p] = "record_status"]
                /\ intent' = [intent EXCEPT ![p].row = seen]
  BY DEF Poll
<1> DEFINE seen == Observe(Copy(p), s)
<1>3. s \in ObservedStatus
  <2>1. Number(p) \in AttemptNumber
    BY LoadedCopy DEF Poll, PhasePc, Pc, SafetyInv
  <2> QED BY <2>1 DEF Observable, ObservedStatus, SafetyInv, TypeInv, TypeOK,
                      HerdrTypeOK, AgentState
<1>4. seen \in Attempt
  <2>1. \A r \in Attempt, t \in ObservedStatus, u \in Nat :
          [r EXCEPT !.status = t, !.unknowns = u] \in Attempt
    BY DEF Attempt
  <2>2. (IF s = "unknown" THEN Copy(p).unknowns + 1 ELSE 0) \in Nat
    BY <1>1 DEF Attempt
  <2> QED BY <1>1, <1>3, <2>1, <2>2 DEF Observe
<1>5. Keeps(seen, attemptCopy'[p].row)
  <2>1. \A r \in Attempt : \A t, u : Keeps([r EXCEPT !.status = t, !.unknowns = u], r)
    BY DEF Keeps, Attempt
  <2> QED BY <1>1, <2>1 DEF Observe, Copy
<1> HIDE DEF seen
<1>6. /\ Prepared(p)'
      /\ \A q \in Proc : q # p => pc'[q] = pc[q] /\ intent'[q] = intent[q]
  <2>1. CASE IntendNeedsHuman(p, seen)
    BY <1>4, <1>5, <2>1, PreparedToAskHuman
    DEF IntendNeedsHuman, Intend, SafetyInv, TypeInv, TypeOK
  <2>2. CASE Intend(p, "EXECUTOR_TERMINAL", seen)
    <3>1. Prepared(p)'
      BY <1>5, <2>2, PreparedToCommit DEF SafetyInv
    <3> QED BY <2>2, <3>1 DEF Intend, SafetyInv, TypeInv, TypeOK
  <2>3. CASE /\ pc' = [pc EXCEPT ![p] = "record_status"]
             /\ intent' = [intent EXCEPT ![p].row = seen]
    <3>1. pc'[p] = "record_status" /\ intent'[p].row = seen
      BY <2>3 DEF SafetyInv, TypeInv, TypeOK, Intent
    <3>2. \A q \in Proc : q # p => pc'[q] = pc[q] /\ intent'[q] = intent[q]
      BY <2>3 DEF SafetyInv, TypeInv, TypeOK
    <3> QED BY <1>1, <1>5, <3>1, <3>2 DEF Prepared, Copy
  <2> QED BY <1>2, <2>1, <2>2, <2>3 DEF seen
<1> QED BY <1>1, <1>6, QuietSafe

\* normalizeExecutionOutcome declares a success on three conditions only, and
\* a retry below the limit only.
LEMMA NormalizedEventBacked ==
  ASSUME NEW status, NEW outcome, NEW verified \in BOOLEAN, NEW n
  PROVE  LET event == NormalizedEvent(status, outcome, verified, n)
         IN /\ event = "EXECUTION_SUCCEEDED" =>
                 status = "terminal" /\ outcome = "succeeded" /\ verified
            /\ event = "EXECUTION_RETRYABLE" => n < MaxAttempts
BY DEF NormalizedEvent

LEMMA CollectSafe ==
  ASSUME SafetyInv, TypeInv', NEW p \in Proc, Collect(p)
  PROVE  SafetyInv'
<1>1. Copy(p) \in Attempt /\ attemptCopy' = attemptCopy
  BY LoadedCopy DEF Collect, SafetyInv, storeVars
<1>2. Prepared(p)'
  <2>1. CASE ReportsOn(manifest, Number(p))
    <3>1. PICK verified \in Verdict(manifest.outcome) :
            LET event == NormalizedEvent(Copy(p).status, manifest.outcome,
                                         verified, Number(p))
            IN Intend(p, event, [Copy(p) EXCEPT
                 !.outcome = manifest.outcome, !.verified = verified,
                 !.retryEligible = (event = "EXECUTION_RETRYABLE")])
      BY <2>1 DEF Collect
    <3> DEFINE event == NormalizedEvent(Copy(p).status, manifest.outcome,
                                        verified, Number(p))
               row == [Copy(p) EXCEPT
                        !.outcome = manifest.outcome, !.verified = verified,
                        !.retryEligible = (event = "EXECUTION_RETRYABLE")]
    <3>2. Keeps(row, Copy(p)) /\ row.status = Copy(p).status
          /\ row.outcome = manifest.outcome /\ row.verified = verified
      <4> HIDE DEF event
      <4>1. row.state = Copy(p).state /\ row.workspace = Copy(p).workspace
            /\ row.preflight = Copy(p).preflight /\ row.handle = Copy(p).handle
        BY <1>1 DEF Attempt
      <4>2. row.status = Copy(p).status /\ row.outcome = manifest.outcome
        BY <1>1 DEF Attempt
      <4>3. row.verified = verified
        BY <1>1 DEF Attempt
      <4> HIDE DEF row
      <4> QED BY <4>1, <4>2, <4>3 DEF Keeps
    <3>3. verified \in BOOLEAN
      BY DEF Verdict
    <3>4. event \in {"EXECUTION_SUCCEEDED", "EXECUTION_RETRYABLE", "EXECUTION_FAILED",
                    "EXECUTION_NEEDS_HUMAN"}
      BY DEF NormalizedEvent
    <3>5. /\ event = "EXECUTION_SUCCEEDED" =>
               Copy(p).status = "terminal" /\ manifest.outcome = "succeeded" /\ verified
          /\ event = "EXECUTION_RETRYABLE" => Number(p) < MaxAttempts
      BY <3>3, NormalizedEventBacked
    <3>6. Intend(p, event, row)
      BY <3>1
    <3> HIDE DEF event, row
    <3> QED BY <1>1, <3>2, <3>3, <3>4, <3>5, <3>6, PreparedToCommit
            DEF SafetyInv, Copy, Number
  <2>2. CASE IntendNeedsHuman(p, Copy(p))
    BY <1>1, <2>2, KeepsItself, PreparedToAskHuman DEF SafetyInv, Copy
  <2> QED BY <2>1, <2>2 DEF Collect
<1> QED BY <1>2, QuietSafe
        DEF Collect, Intend, IntendNeedsHuman, SafetyInv, TypeInv, TypeOK

\* Calls of the projection, and runs that end.
LEMMA CommentsSafe ==
  ASSUME SafetyInv, TypeInv', NEW p \in Proc,
         \/ FindComment(p) \/ CreateComment(p) \/ CommentResponseLost(p)
         \/ ApplyLabels(p) \/ FenceRejected(p) \/ Throws(p)
  PROVE  SafetyInv'
<1>1. pc'[p] \in {"labels", "comment", "release", "record_applied"}
  BY DEF FindComment, CreateComment, CommentResponseLost, ApplyLabels,
         FenceRejected, Throws, Goto, SafetyInv, TypeInv, TypeOK
<1>2. \A q \in Proc : q # p => pc'[q] = pc[q] /\ intent'[q] = intent[q]
  BY DEF FindComment, CreateComment, CommentResponseLost, ApplyLabels,
         FenceRejected, Throws, Goto, SafetyInv, TypeInv, TypeOK
<1>3. UNCHANGED storeVars
  BY DEF FindComment, CreateComment, CommentResponseLost, ApplyLabels,
         FenceRejected, Throws
<1> QED BY <1>1, <1>2, <1>3, PreparedForNothing, QuietSafe

LEMMA ThrowsCaughtSafe ==
  ASSUME SafetyInv, TypeInv', NEW p \in Proc, ThrowsCaught(p)
  PROVE  SafetyInv'
<1>1. Copy(p) \in Attempt /\ attemptCopy' = attemptCopy
  BY LoadedCopy DEF ThrowsCaught, SafetyInv, storeVars
<1>2. Prepared(p)'
  BY <1>1, KeepsItself, PreparedToAskHuman DEF ThrowsCaught, SafetyInv, Copy
<1> QED BY <1>2, QuietSafe
        DEF ThrowsCaught, Intend, IntendNeedsHuman, SafetyInv, TypeInv, TypeOK

-----------------------------------------------------------------------------
(* Steps that read the rows or change the lease *)

LEMMA AcquireSafe ==
  ASSUME SafetyInv, TypeInv', NEW p \in Proc, Acquire(p)
  PROVE  SafetyInv'
<1>1. UNCHANGED <<attempts, lastAttempt, work.state, work.current, attemptCopy>>
  BY DEF Acquire, AcquireLease, SafetyInv, TypeInv, TypeOK, StoreTypeOK, Work
<1>2. RowsInv'
  BY <1>1, RowsUntouched DEF SafetyInv
<1>3. pc'[p] = "leased" /\ \A q \in Proc : q # p => pc'[q] = pc[q]
  BY DEF Acquire, Goto, SafetyInv, TypeInv, TypeOK
<1>4. \A q \in Proc : Prepared(q)'
  BY <1>1, <1>3, OthersPrepared, PreparedForNothing DEF SafetyInv, Acquire, Goto
<1> QED BY <1>2, <1>4 DEF SafetyInv

\* A run that ends, or dies, leaves the rows as they are.
LEMMA ForgetSafe ==
  ASSUME SafetyInv, TypeInv', NEW p \in Proc, Release(p) \/ Crash(p)
  PROVE  SafetyInv'
<1>1. UNCHANGED <<attempts, lastAttempt, work.state, work.current>>
  BY DEF Release, ReleaseLease, Crash, SafetyInv, TypeInv, TypeOK, StoreTypeOK, Work
<1>2. /\ attemptCopy'[p].fresh = FALSE
      /\ \A q \in Proc : q # p => attemptCopy'[q] = attemptCopy[q]
  BY DEF Release, Crash, ForgetCopies, NoAttemptCopy, SafetyInv, TypeInv, TypeOK, StoreTypeOK
<1>3. RowsInv'
  <2>1. \A q \in Proc : attemptCopy'[q] = attemptCopy[q] \/ ~attemptCopy'[q].fresh
    BY <1>2
  <2> QED BY <1>1, <2>1, RowsUntouched DEF SafetyInv
<1>4. /\ pc'[p] = "idle"
      /\ \A q \in Proc : q # p => pc'[q] = pc[q] /\ intent'[q] = intent[q]
  BY DEF Release, Crash, Goto, SafetyInv, TypeInv, TypeOK
<1>5. \A q \in Proc : Prepared(q)'
  BY <1>2, <1>4, OthersPrepared, PreparedForNothing DEF SafetyInv
<1> QED BY <1>3, <1>5 DEF SafetyInv

LEMMA EnvironmentSafe ==
  ASSUME SafetyInv, TypeInv',
         UNCHANGED <<attempts, lastAttempt, work.state, work.current, attemptCopy, pc, intent>>
  PROVE  SafetyInv'
<1>1. RowsInv'
  BY RowsUntouched DEF SafetyInv
<1>2. \A q \in Proc : Prepared(q)'
  BY OthersPrepared DEF SafetyInv
<1> QED BY <1>1, <1>2 DEF SafetyInv

\* What the first call of a phase presupposes.
LEMMA PhasePrepared ==
  ASSUME NEW row
  PROVE  /\ PhaseOf(row) = "record_workspace" => row.state = "provisioning"
         /\ PhaseOf(row) = "provision" => row.workspace
         /\ PhaseOf(row) = "record_handle" => row.state = "launching"
         /\ PhaseOf(row) = "start" => row.handle
         /\ PhaseOf(row) = "poll" => row.state = "running"
         /\ PhaseOf(row) \notin {"start_agent", "prompt", "record_status", "commit"}
BY DEF PhaseOf, SettledExecutionStates

\* Both reads of the current attempt.
LEMMA ReadKeepsRows ==
  ASSUME SafetyInv, NEW p \in Proc, ReadCurrentAttempt(p),
         UNCHANGED <<work, attempts, lastAttempt, workCopy>>
  PROVE  /\ RowsInv'
         /\ work.current \in AttemptNumber
         /\ attemptCopy'[p].n = work.current
         /\ attemptCopy'[p].row = attempts[work.current]
         /\ \A q \in Proc : q # p => attemptCopy'[q] = attemptCopy[q]
<1>1. work.current \in AttemptNumber
  BY ReadCurrentAttemptType DEF SafetyInv, TypeInv, TypeOK
<1>2. /\ attemptCopy'[p].n = work.current
      /\ attemptCopy'[p].row = attempts[work.current]
      /\ \A q \in Proc : q # p => attemptCopy'[q] = attemptCopy[q]
  BY DEF ReadCurrentAttempt, SafetyInv, TypeInv, TypeOK, StoreTypeOK
<1>3. RowsInv'
  BY <1>1, <1>2, RowsUntouched DEF SafetyInv
<1> QED BY <1>1, <1>2, <1>3

LEMMA LoadAttemptSafe ==
  ASSUME SafetyInv, TypeInv', NEW p \in Proc, LoadAttempt(p)
  PROVE  SafetyInv'
<1> DEFINE row == attempts[work.current]
<1>1. /\ RowsInv' /\ attemptCopy'[p].row = row /\ row \in Attempt
      /\ \A q \in Proc : q # p => attemptCopy'[q] = attemptCopy[q]
  BY ReadKeepsRows DEF LoadAttempt, SafetyInv, TypeInv, TypeOK, StoreTypeOK
<1>2. Prepared(p)'
  <2>1. CASE Goto(p, EntryOfPlanned(p)) \/ Goto(p, "release")
    BY <2>1, PreparedForNothing DEF Goto, EntryOfPlanned, SafetyInv, TypeInv, TypeOK
  <2>2. CASE IntendNeedsHuman(p, row)
    BY <1>1, <2>2, KeepsItself, PreparedToAskHuman DEF SafetyInv
  <2>3. CASE Goto(p, PhaseOf(row))
    <3>1. pc'[p] = PhaseOf(row)
      BY <2>3 DEF Goto, SafetyInv, TypeInv, TypeOK
    <3> HIDE DEF row
    <3> QED BY <1>1, <3>1, PhasePrepared DEF Prepared, Copy
  <2> QED BY <2>1, <2>2, <2>3 DEF LoadAttempt
<1>3. \A q \in Proc : q # p => pc'[q] = pc[q] /\ intent'[q] = intent[q]
  BY DEF LoadAttempt, Goto, IntendNeedsHuman, Intend, SafetyInv, TypeInv, TypeOK
<1>4. \A q \in Proc : Prepared(q)'
  BY <1>1, <1>2, <1>3, OthersPrepared DEF SafetyInv
<1> QED BY <1>1, <1>4 DEF SafetyInv

LEMMA ReloadSafe ==
  ASSUME SafetyInv, TypeInv', NEW p \in Proc, Reload(p)
  PROVE  SafetyInv'
<1> DEFINE row == attempts[work.current]
           accepted == [row EXCEPT !.preflight = TRUE]
<1>1. /\ RowsInv' /\ attemptCopy'[p].row = row /\ row \in Attempt
      /\ \A q \in Proc : q # p => attemptCopy'[q] = attemptCopy[q]
  BY ReadKeepsRows DEF Reload, SafetyInv, TypeInv, TypeOK, StoreTypeOK
<1>2. Keeps(accepted, row) /\ accepted.preflight
  <2>1. \A r \in Attempt : LET a == [r EXCEPT !.preflight = TRUE]
                           IN Keeps(a, r) /\ a.preflight
    BY DEF Keeps, Attempt
  <2> QED BY <1>1, <2>1
<1>3. Prepared(p)'
  <2>1. CASE pc' = [pc EXCEPT ![p] = "release"]
    BY <2>1, PreparedForNothing DEF SafetyInv, TypeInv, TypeOK
  <2>2. CASE IntendNeedsHuman(p, row)
    BY <1>1, <2>2, KeepsItself, PreparedToAskHuman DEF SafetyInv
  <2>3. CASE Intend(p, "PREFLIGHT_PASSED", accepted)
    <3> HIDE DEF row, accepted
    <3> QED BY <1>1, <1>2, <2>3, PreparedToCommit DEF SafetyInv
  <2> QED BY <2>1, <2>2, <2>3 DEF Reload
<1>4. \A q \in Proc : q # p => pc'[q] = pc[q] /\ intent'[q] = intent[q]
  BY DEF Reload, IntendNeedsHuman, Intend, SafetyInv, TypeInv, TypeOK
<1>5. \A q \in Proc : Prepared(q)'
  BY <1>1, <1>3, <1>4, OthersPrepared DEF SafetyInv
<1> QED BY <1>1, <1>5 DEF SafetyInv

-----------------------------------------------------------------------------
(* Steps that write the rows *)

LEMMA CreateSafe ==
  ASSUME SafetyInv, TypeInv', NEW p \in Proc, Create(p)
  PROVE  SafetyInv'
<1>1. RowsInv'
  BY RowAdded DEF Create, SafetyInv
<1>2. Prepared(p)'
  BY PreparedForNothing DEF Create, Goto, SafetyInv, TypeInv, TypeOK
<1>3. \A q \in Proc : q # p => Prepared(q)'
  BY OthersPrepared DEF Create, CreateExecutionAttempt, Goto, SafetyInv, TypeInv, TypeOK
<1> QED BY <1>1, <1>2, <1>3 DEF SafetyInv

\* A write leaves the number and the row of every other copy as they are.
LEMMA OthersKeepCopies ==
  ASSUME TypeInv, NEW p \in Proc, NEW row, BumpAttempt(p, Number(p), row)
  PROVE  /\ attemptCopy'[p].row = row /\ attemptCopy'[p].n = Number(p)
         /\ \A q \in Proc : q # p => /\ attemptCopy'[q].row = attemptCopy[q].row
                                     /\ attemptCopy'[q].n = attemptCopy[q].n
BY DEF BumpAttempt, TypeInv, TypeOK, StoreTypeOK, AttemptCopy

\* A patch that keeps what the copy has: the columns a phase records.
LEMMA PatchSafe ==
  ASSUME SafetyInv, TypeInv', NEW p \in Proc, NEW row \in Attempt,
         PatchExecutionAttempt(p, row), Number(p) \in AttemptNumber,
         Keeps(row, Copy(p)), Copy(p).state \in ActiveExecutionStates,
         \A q \in Proc : q # p => pc'[q] = pc[q] /\ intent'[q] = intent[q],
         Prepared(p)'
  PROVE  SafetyInv'
<1>1. /\ ProjectionFence(p) /\ Copy(p) = attempts[Number(p)]
      /\ work.state = Copy(p).state /\ UNCHANGED work
  BY DEF PatchExecutionAttempt, AttemptFence, ProjectionFence, SafetyInv, RowsInv,
         FreshCopyIsRow, Number, Copy
<1>2. /\ row.state = work'.state
      /\ row.state \in ActiveExecutionStates
      /\ RowSound(row)
  BY <1>1 DEF Keeps, SafetyInv, RowsInv, RowsSound, RowSound, ActiveExecutionStates
<1>3. RowsInv'
  BY <1>1, <1>2, RowWritten
  DEF PatchExecutionAttempt, SafetyInv, ActiveExecutionStates, Number
<1>4. \A q \in Proc : q # p => Prepared(q)'
  BY OthersKeepCopies, OthersPrepared DEF PatchExecutionAttempt, SafetyInv, Number
<1> QED BY <1>3, <1>4 DEF SafetyInv

LEMMA RecordWorkspaceSafe ==
  ASSUME SafetyInv, TypeInv', NEW p \in Proc, RecordWorkspace(p)
  PROVE  SafetyInv'
<1> DEFINE row == [Copy(p) EXCEPT !.workspace = TRUE]
<1>1. Number(p) \in AttemptNumber /\ Copy(p) \in Attempt
  BY LoadedCopy DEF RecordWorkspace, PhasePc, Pc, SafetyInv
<1>2. row \in Attempt /\ Keeps(row, Copy(p)) /\ row.workspace
  <2>1. \A r \in Attempt : LET a == [r EXCEPT !.workspace = TRUE]
                           IN a \in Attempt /\ Keeps(a, r) /\ a.workspace
    BY DEF Keeps, Attempt
  <2> QED BY <1>1, <2>1
<1>3. Copy(p).state \in ActiveExecutionStates
  BY DEF RecordWorkspace, SafetyInv, Prepared, ActiveExecutionStates
<1>4. /\ pc'[p] = "provision"
      /\ \A q \in Proc : q # p => pc'[q] = pc[q] /\ intent'[q] = intent[q]
  BY DEF RecordWorkspace, Goto, SafetyInv, TypeInv, TypeOK
<1> HIDE DEF row
<1>5. attemptCopy'[p].row = row
  BY OthersKeepCopies DEF RecordWorkspace, PatchExecutionAttempt, SafetyInv, Number, row
<1>6. Prepared(p)'
  BY <1>2, <1>4, <1>5 DEF Prepared, Copy
<1> QED BY <1>1, <1>2, <1>3, <1>4, <1>6, PatchSafe DEF RecordWorkspace, row

LEMMA RecordHandleSafe ==
  ASSUME SafetyInv, TypeInv', NEW p \in Proc, RecordHandle(p)
  PROVE  SafetyInv'
<1> DEFINE row == [Copy(p) EXCEPT !.handle = TRUE]
<1>1. Number(p) \in AttemptNumber /\ Copy(p) \in Attempt
  BY LoadedCopy DEF RecordHandle, PhasePc, Pc, SafetyInv
<1>2. row \in Attempt /\ Keeps(row, Copy(p)) /\ row.handle
  <2>1. \A r \in Attempt : LET a == [r EXCEPT !.handle = TRUE]
                           IN a \in Attempt /\ Keeps(a, r) /\ a.handle
    BY DEF Keeps, Attempt
  <2> QED BY <1>1, <2>1
<1>3. Copy(p).state \in ActiveExecutionStates
  BY DEF RecordHandle, SafetyInv, Prepared, ActiveExecutionStates
<1>4. /\ pc'[p] = "start"
      /\ \A q \in Proc : q # p => pc'[q] = pc[q] /\ intent'[q] = intent[q]
  BY DEF RecordHandle, Goto, SafetyInv, TypeInv, TypeOK
<1> HIDE DEF row
<1>5. attemptCopy'[p].row = row
  BY OthersKeepCopies DEF RecordHandle, PatchExecutionAttempt, SafetyInv, Number, row
<1>6. Prepared(p)'
  BY <1>2, <1>4, <1>5 DEF Prepared, Copy
<1> QED BY <1>1, <1>2, <1>3, <1>4, <1>6, PatchSafe DEF RecordHandle, row

LEMMA RecordStatusSafe ==
  ASSUME SafetyInv, TypeInv', NEW p \in Proc, RecordStatus(p)
  PROVE  SafetyInv'
<1>1. Number(p) \in AttemptNumber
  BY LoadedCopy DEF RecordStatus, PhasePc, Pc, SafetyInv
<1>2. intent[p].row \in Attempt
  BY IntentTyped DEF SafetyInv
<1>3. Keeps(intent[p].row, Copy(p)) /\ Copy(p).state \in ActiveExecutionStates
  BY DEF RecordStatus, SafetyInv, Prepared, ActiveExecutionStates
<1>4. /\ pc'[p] = "release"
      /\ \A q \in Proc : q # p => pc'[q] = pc[q] /\ intent'[q] = intent[q]
  BY DEF RecordStatus, SafetyInv, TypeInv, TypeOK
<1>5. Prepared(p)'
  BY <1>4, PreparedForNothing
<1> QED BY <1>1, <1>2, <1>3, <1>4, <1>5, PatchSafe DEF RecordStatus

LEMMA CommitSafe ==
  ASSUME SafetyInv, TypeInv', NEW p \in Proc, Commit(p)
  PROVE  SafetyInv'
<1> DEFINE event == intent[p].event
           row == intent[p].row
           s == Copy(p).state
           t == NextState(s, event)
           moved == [row EXCEPT !.state = t]
<1>1. Number(p) \in AttemptNumber
  BY LoadedCopy DEF Commit, PhasePc, Pc, SafetyInv
<1>2. row \in Attempt /\ event \in ExecutionEvents \cup {"none"} /\ Committable(p)
  BY IntentTyped DEF Commit, SafetyInv, Prepared
<1>3. /\ ProjectionFence(p) /\ Copy(p) = attempts[Number(p)]
      /\ work.state = s /\ Accepts(s, event)
  BY DEF Commit, TransitionExecutionAttempt, AttemptFence, ProjectionFence, SafetyInv,
         RowsInv, FreshCopyIsRow, Number, Copy
<1>4. s \in ExecutionStates
  <2>1. s \in MastermindState
    BY <1>3 DEF SafetyInv, TypeInv, TypeOK, StoreTypeOK, Work
  <2>2. "absent" \notin MastermindState
    BY DEF MastermindState, On
  <2>3. Copy(p) \in Attempt
    BY LoadedCopy DEF SafetyInv
  <2> QED BY <2>1, <2>2, <2>3 DEF Attempt
<1>5. t \in ExecutionStates /\ Moves(s, event, t)
  BY <1>2, <1>3, <1>4, ExecutionMoves, MovesByTable
<1>6. /\ moved \in Attempt /\ moved.state = t
      /\ moved.workspace = row.workspace /\ moved.preflight = row.preflight
      /\ moved.handle = row.handle /\ moved.status = row.status
      /\ moved.outcome = row.outcome /\ moved.verified = row.verified
  <2>1. \A r \in Attempt, u \in ExecutionStates :
          LET m == [r EXCEPT !.state = u]
          IN /\ m \in Attempt /\ m.state = u
             /\ m.workspace = r.workspace /\ m.preflight = r.preflight
             /\ m.handle = r.handle /\ m.status = r.status
             /\ m.outcome = r.outcome /\ m.verified = r.verified
    BY DEF Attempt
  <2> QED BY <1>2, <1>5, <2>1
<1>7. /\ attempts' = [attempts EXCEPT ![Number(p)] = moved]
      /\ BumpAttempt(p, Number(p), moved)
      /\ UNCHANGED lastAttempt
      /\ work' = [work EXCEPT !.state = moved.state]
  BY DEF Commit, TransitionExecutionAttempt, Number, Copy
<1>8. work'.current = work.current /\ work'.state = moved.state
  BY <1>7 DEF SafetyInv, TypeInv, TypeOK, StoreTypeOK, Work
<1> HIDE DEF moved, t, s
<1>9. RowSound(moved)
  <2>1. /\ s \in {"preflighting", "launching", "running", "collecting"} => row.workspace
        /\ s \in {"launching", "running", "collecting"} => row.preflight
        /\ s \in {"running", "collecting"} => row.handle
    BY <1>1, <1>2, <1>3 DEF SafetyInv, RowsInv, RowsSound, RowSound, Committable, Keeps, s
  <2>2. t # "absent"
    BY <1>5 DEF ExecutionStates, ActiveExecutionStates, SettledExecutionStates
  <2> QED BY <1>2, <1>5, <1>6, <2>1, <2>2 DEF Moves, RowSound, Committable
<1>10. moved.state = "retry_wait" => Number(p) < MaxAttempts
  BY <1>2, <1>5, <1>6 DEF Moves, Committable
<1>11. moved.state # "absent"
  BY <1>5, <1>6 DEF ExecutionStates, ActiveExecutionStates, SettledExecutionStates
<1>12. RowsInv'
  BY <1>1, <1>3, <1>6, <1>7, <1>8, <1>9, <1>10, <1>11, RowWritten DEF SafetyInv
<1>13. /\ pc'[p] = "release"
       /\ \A q \in Proc : q # p => pc'[q] = pc[q] /\ intent'[q] = intent[q]
  BY DEF Commit, SafetyInv, TypeInv, TypeOK
<1>14. \A q \in Proc : Prepared(q)'
  BY <1>7, <1>13, OthersKeepCopies, OthersPrepared, PreparedForNothing DEF SafetyInv
<1> QED BY <1>12, <1>14 DEF SafetyInv

\* The projection's disposition is no evidence.
LEMMA ProjectionSafe ==
  ASSUME SafetyInv, TypeInv', NEW p \in Proc, RecordPending(p) \/ RecordApplied(p)
  PROVE  SafetyInv'
<1>1. Number(p) \in AttemptNumber
  BY LoadedCopy DEF RecordPending, RecordApplied, PhasePc, Pc, SafetyInv
<1>2. PICK disposition \in {"pending", "applied"} : SaveExecutionProjection(p, disposition)
  BY DEF RecordPending, RecordApplied
<1> DEFINE row == [attempts[Number(p)] EXCEPT !.projection = disposition]
<1>3. /\ row \in Attempt /\ row.state = attempts[Number(p)].state
      /\ RowSound(attempts[Number(p)]) => RowSound(row)
  <2>1. \A r \in Attempt, d \in {"pending", "applied"} :
          LET a == [r EXCEPT !.projection = d]
          IN a \in Attempt /\ a.state = r.state /\ (RowSound(r) => RowSound(a))
    BY DEF RowSound, Attempt
  <2> QED BY <1>1, <2>1 DEF SafetyInv, TypeInv, TypeOK, StoreTypeOK
<1>4. /\ ProjectionFence(p) /\ UNCHANGED <<work, lastAttempt>>
      /\ attempts' = [attempts EXCEPT ![Number(p)] = row]
      /\ BumpAttempt(p, Number(p), row)
      /\ work.current = Number(p)
  BY <1>2 DEF SaveExecutionProjection, ProjectionFence, Number
<1>5. /\ row.state = work'.state /\ RowSound(row)
      /\ row.state = "retry_wait" => Number(p) < MaxAttempts
  BY <1>1, <1>3, <1>4
  DEF SafetyInv, RowsInv, RowsSound, WaitingAllowed, AttemptAgreement, AttemptNumber
<1>6. row.state # "absent"
  <2>1. "absent" \notin MastermindState
    BY DEF MastermindState, On
  <2> QED BY <1>5, <2>1 DEF TypeInv, TypeOK, StoreTypeOK, Work
<1> HIDE DEF row
<1>7. RowsInv'
  BY <1>1, <1>3, <1>4, <1>5, <1>6, RowWritten DEF SafetyInv
<1>8. /\ pc'[p] \in {"find", "release"}
      /\ \A q \in Proc : q # p => pc'[q] = pc[q] /\ intent'[q] = intent[q]
  BY DEF RecordPending, RecordApplied, Goto, SafetyInv, TypeInv, TypeOK
<1>9. \A q \in Proc : Prepared(q)'
  BY <1>4, <1>8, OthersKeepCopies, OthersPrepared, PreparedForNothing DEF SafetyInv
<1> QED BY <1>7, <1>9 DEF SafetyInv

-----------------------------------------------------------------------------
(* The invariant holds *)

LEMMA InitSafe == Init => SafetyInv
<1> SUFFICES ASSUME Init PROVE SafetyInv
  OBVIOUS
<1>1. TypeInv
  BY InitType
<1>2. \A n \in AttemptNumber : attempts[n] = AbsentAttempt
  BY DEF Init
<1>3. \A p \in Proc : ~attemptCopy[p].fresh /\ Prepared(p)
  BY DEF Init, NoAttemptCopy, Prepared
<1>4. AttemptAgreement /\ AttemptHistory
  <2>1. work.current = 0 /\ work.state = "action_planned" /\ lastAttempt = 0
    BY DEF Init
  <2>2. \A n \in AttemptNumber : attempts[n].state = "absent" /\ n > 0 /\ ~(n < 0)
    BY <1>2 DEF AbsentAttempt, AttemptNumber
  <2>3. 0 <= MaxAttempts
    BY CoordinatorAssumption, AttemptBoundAssumption
  <2> QED BY <2>1, <2>2, <2>3 DEF AttemptAgreement, AttemptHistory
<1>5. WaitingAllowed /\ RowsSound
  BY <1>2 DEF WaitingAllowed, RowsSound, RowSound, AbsentAttempt
<1>6. FreshCopyIsRow
  BY <1>3 DEF FreshCopyIsRow
<1> QED BY <1>1, <1>3, <1>4, <1>5, <1>6 DEF SafetyInv, RowsInv

LEMMA SafetyStep == SafetyInv /\ [Next]_vars => SafetyInv'
<1> SUFFICES ASSUME SafetyInv, [Next]_vars PROVE SafetyInv'
  OBVIOUS
<1>0. TypeInv'
  BY TypeStep DEF SafetyInv
<1>1. ASSUME NEW p \in Proc, Acquire(p) PROVE SafetyInv'
  BY <1>0, <1>1, AcquireSafe
<1>2. ASSUME NEW p \in Proc, RunStep(p) PROVE SafetyInv'
  BY <1>0, <1>2, LoadNothingSafe, LoadAttemptSafe, ForgetSafe, ClearGateLabelsSafe,
     CreateSafe, RecordWorkspaceSafe, ProvisionSafe, PreflightSafe, ReloadSafe,
     RecordHandleSafe, StartSafe, StartNewAgentSafe, PromptSafe, PollSafe,
     RecordStatusSafe, CollectSafe, CommitSafe, ProjectionSafe, CommentsSafe
  DEF RunStep
<1>3. ASSUME NEW p \in Proc, RunFault(p) PROVE SafetyInv'
  BY <1>0, <1>3, PromptSafe, CommentsSafe, ThrowsCaughtSafe, ForgetSafe DEF RunFault
<1>4. CASE \E n \in AttemptNumber : Agents(n) \/ Vanish(n)
  BY <1>0, <1>4, EnvironmentSafe DEF Agents, Vanish, storeVars
<1>5. CASE Expire \/ Lapse
  BY <1>0, <1>5, EnvironmentSafe
  DEF Expire, Lapse, LeaseLapses, SafetyInv, TypeInv, TypeOK, StoreTypeOK, Work
<1>6. CASE UNCHANGED vars
  BY <1>0, <1>6, EnvironmentSafe DEF vars, storeVars
<1> QED BY <1>1, <1>2, <1>3, <1>4, <1>5, <1>6 DEF Next

\* The inductive invariant holds in every reachable state: fresh copies equal
\* their rows, every row is justified by the evidence it holds, and what a run
\* is about to write was prepared from the row it fences on.
THEOREM SafetyAlways == Spec => []SafetyInv
BY InitSafe, SafetyStep, PTL DEF Spec

-----------------------------------------------------------------------------
(* The properties *)

\* The work item and its current attempt never disagree about the state, so
\* that no reader of either one acts on a phase the other has left.
THEOREM AttemptsAgree == Spec => []AttemptAgreement
<1>1. SafetyInv => AttemptAgreement
  BY DEF SafetyInv, RowsInv
<1> QED BY <1>1, SafetyAlways, PTL

\* However many runs ask for an attempt at once, and whatever happens between,
\* attempts have no gap, never exceed the limit and succeed one another only
\* by way of a retry.
THEOREM AttemptsInOrder == Spec => []AttemptHistory
<1>1. SafetyInv => AttemptHistory
  BY DEF SafetyInv, RowsInv
<1> QED BY <1>1, SafetyAlways, PTL

\* No interleaving of runs, faults and agents makes an attempt succeed without
\* all of its evidence.
THEOREM SuccessHasEvidence == Spec => []EvidencedSuccess
<1>1. SafetyInv => EvidencedSuccess
  BY DEF SafetyInv, RowsInv, RowsSound, RowSound, EvidencedSuccess
<1> QED BY <1>1, SafetyAlways, PTL

-----------------------------------------------------------------------------
(* Fencing *)

LEMMA BumpLeavesOne ==
  ASSUME StoreTypeOK, NEW p \in Proc, NEW row, BumpWork(p, row)
  PROVE  OneFreshWorkCopy'
<1>1. \A q \in Proc : workCopy'[q].fresh => q = p
  BY DEF BumpWork, StoreTypeOK, WorkCopy
<1> QED BY <1>1 DEF OneFreshWorkCopy

LEMMA FewerFresh ==
  ASSUME OneFreshWorkCopy,
         \A q \in Proc : workCopy'[q] = workCopy[q] \/ ~workCopy'[q].fresh
  PROVE  OneFreshWorkCopy'
BY DEF OneFreshWorkCopy

\* How a step treats the copies of the work row.
LEMMA WorkCopyMoves ==
  ASSUME TypeInv, [Next]_vars
  PROVE  \/ \E p \in Proc : BumpWork(p, work')
         \/ \A q \in Proc : workCopy'[q] = workCopy[q] \/ ~workCopy'[q].fresh
<1>1. ASSUME NEW p \in Proc, RunStep(p)
      PROVE  \/ BumpWork(p, work')
             \/ UNCHANGED workCopy
             \/ ForgetCopies(p)
  BY <1>1
  DEF RunStep, LoadNothing, LoadAttempt, Release, ClearGateLabels, Create,
      CreateExecutionAttempt, RecordWorkspace, Provision, Preflight, Reload,
      RecordHandle, PatchExecutionAttempt, Start, StartNewAgent, Prompt, Poll,
      RecordStatus, Collect, Commit, TransitionExecutionAttempt, RecordPending,
      SaveExecutionProjection, FindComment, CreateComment, ApplyLabels,
      RecordApplied, FenceRejected, storeVars
<1>2. ASSUME NEW p \in Proc, RunFault(p)
      PROVE  UNCHANGED workCopy \/ ForgetCopies(p)
  BY <1>2 DEF RunFault, PromptResponseLost, CommentResponseLost, Throws,
              ThrowsCaught, Crash, storeVars
<1>3. ASSUME NEW p \in Proc, Acquire(p) PROVE BumpWork(p, work')
  BY <1>3 DEF Acquire, AcquireLease
<1>4. ASSUME NEW p \in Proc, ForgetCopies(p)
      PROVE  \A q \in Proc : workCopy'[q] = workCopy[q] \/ ~workCopy'[q].fresh
  BY <1>4 DEF ForgetCopies, NoWorkCopy, TypeInv, TypeOK, StoreTypeOK
<1>5. CASE \E n \in AttemptNumber : Agents(n) \/ Vanish(n)
  BY <1>5 DEF Agents, Vanish, storeVars
<1>6. CASE Expire \/ Lapse \/ UNCHANGED vars
  BY <1>6 DEF Expire, Lapse, LeaseLapses, vars, storeVars
<1> QED BY <1>1, <1>2, <1>3, <1>4, <1>5, <1>6 DEF Next

\* acquireLease and every transition leave the new row_version with one run
\* only, so that whatever leases lapse and whoever shares an owner, at most one
\* run can still write.
THEOREM Fencing == Spec => []OneFencedWriter
<1>1. Init => OneFreshWorkCopy
  BY DEF Init, NoWorkCopy, OneFreshWorkCopy
<1>2. TypeInv /\ OneFreshWorkCopy /\ [Next]_vars => OneFreshWorkCopy'
  BY WorkCopyMoves, BumpLeavesOne, FewerFresh DEF TypeInv, TypeOK
<1>3. OneFreshWorkCopy => OneFencedWriter
  BY DEF OneFreshWorkCopy, OneFencedWriter, WorkFence
<1> QED BY <1>1, <1>2, <1>3, InitType, TypeStep, PTL DEF Spec

-----------------------------------------------------------------------------
(* What a step may do to an attempt's row *)

EvidenceGrows(old, new) ==
  /\ old.workspace => new.workspace
  /\ old.preflight => new.preflight
  /\ old.handle => new.handle

OnlyProjected(old, new) == [new EXCEPT !.projection = old.projection] = old

Progress(old, new) ==
  /\ EvidenceGrows(old, new)
  /\ old.state \in SettledExecutionStates => OnlyProjected(old, new)

LEMMA UntouchedProgresses ==
  ASSUME TypeInv, UNCHANGED attempts, NEW n \in AttemptNumber
  PROVE  Progress(attempts[n], attempts'[n])
<1>1. \A r \in Attempt : OnlyProjected(r, r)
  BY DEF OnlyProjected, Attempt
<1>2. attempts[n] \in Attempt
  BY DEF TypeInv, TypeOK, StoreTypeOK
<1> QED BY <1>1, <1>2 DEF Progress, EvidenceGrows

LEMMA OneRowProgresses ==
  ASSUME TypeInv, NEW m \in AttemptNumber, NEW row, NEW n \in AttemptNumber,
         attempts' = [attempts EXCEPT ![m] = row], Progress(attempts[m], row)
  PROVE  Progress(attempts[n], attempts'[n])
<1>1. CASE n = m
  <2>1. attempts'[n] = row
    BY <1>1 DEF TypeInv, TypeOK, StoreTypeOK
  <2> QED BY <1>1, <2>1
<1>2. CASE n # m
  <2>1. attempts'[n] = attempts[n] /\ attempts[n] \in Attempt
    BY <1>2 DEF TypeInv, TypeOK, StoreTypeOK
  <2>2. \A r \in Attempt : OnlyProjected(r, r)
    BY DEF OnlyProjected, Attempt
  <2> QED BY <2>1, <2>2 DEF Progress, EvidenceGrows
<1> QED BY <1>1, <1>2

LEMMA PatchProgresses ==
  ASSUME SafetyInv, NEW p \in Proc, NEW row, PatchExecutionAttempt(p, row),
         Number(p) \in AttemptNumber, Keeps(row, Copy(p)),
         Copy(p).state \in ActiveExecutionStates, NEW n \in AttemptNumber
  PROVE  Progress(attempts[n], attempts'[n])
<1>1. Copy(p) = attempts[Number(p)]
  BY DEF PatchExecutionAttempt, AttemptFence, ProjectionFence, SafetyInv, RowsInv,
         FreshCopyIsRow, Number, Copy
<1>2. Progress(attempts[Number(p)], row)
  BY <1>1 DEF Progress, EvidenceGrows, Keeps, ActiveExecutionStates, SettledExecutionStates
<1> QED BY <1>2, OneRowProgresses DEF PatchExecutionAttempt, SafetyInv, Number

LEMMA RecordsProgress ==
  ASSUME SafetyInv, NEW p \in Proc, NEW n \in AttemptNumber,
         RecordWorkspace(p) \/ RecordHandle(p) \/ RecordStatus(p)
  PROVE  Progress(attempts[n], attempts'[n])
<1>1. Number(p) \in AttemptNumber /\ Copy(p) \in Attempt
  BY LoadedCopy DEF RecordWorkspace, RecordHandle, RecordStatus, PhasePc, Pc, SafetyInv
<1>2. Copy(p).state \in ActiveExecutionStates
  BY DEF RecordWorkspace, RecordHandle, RecordStatus, SafetyInv, Prepared,
         ActiveExecutionStates
<1>3. /\ Keeps([Copy(p) EXCEPT !.workspace = TRUE], Copy(p))
      /\ Keeps([Copy(p) EXCEPT !.handle = TRUE], Copy(p))
  <2>1. \A r \in Attempt : /\ Keeps([r EXCEPT !.workspace = TRUE], r)
                           /\ Keeps([r EXCEPT !.handle = TRUE], r)
    BY DEF Keeps, Attempt
  <2> QED BY <1>1, <2>1
<1>4. RecordStatus(p) => Keeps(intent[p].row, Copy(p))
  BY DEF RecordStatus, SafetyInv, Prepared
<1> QED BY <1>1, <1>2, <1>3, <1>4, PatchProgresses
        DEF RecordWorkspace, RecordHandle, RecordStatus

LEMMA CommitProgresses ==
  ASSUME SafetyInv, NEW p \in Proc, NEW n \in AttemptNumber, Commit(p)
  PROVE  Progress(attempts[n], attempts'[n])
<1> DEFINE event == intent[p].event
           row == intent[p].row
           s == Copy(p).state
           moved == [row EXCEPT !.state = NextState(s, event)]
<1>1. Number(p) \in AttemptNumber
  BY LoadedCopy DEF Commit, PhasePc, Pc, SafetyInv
<1>2. row \in Attempt /\ event \in ExecutionEvents \cup {"none"} /\ Keeps(row, Copy(p))
  BY IntentTyped DEF Commit, SafetyInv, Prepared, Committable
<1>3. /\ Copy(p) = attempts[Number(p)]
      /\ work.state = s /\ Accepts(s, event)
      /\ attempts' = [attempts EXCEPT ![Number(p)] = moved]
  BY DEF Commit, TransitionExecutionAttempt, AttemptFence, ProjectionFence, SafetyInv,
         RowsInv, FreshCopyIsRow, Number, Copy
<1>4. s \in ExecutionStates
  <2>1. s \in MastermindState
    BY <1>3 DEF SafetyInv, TypeInv, TypeOK, StoreTypeOK, Work
  <2>2. "absent" \notin MastermindState
    BY DEF MastermindState, On
  <2>3. Copy(p) \in Attempt
    BY LoadedCopy DEF SafetyInv
  <2> QED BY <2>1, <2>2, <2>3 DEF Attempt
<1>5. s \notin SettledExecutionStates
  BY <1>2, <1>3, <1>4, MovesByTable DEF Moves, SettledExecutionStates
<1>6. /\ moved.workspace = row.workspace /\ moved.preflight = row.preflight
      /\ moved.handle = row.handle
  BY <1>2 DEF Attempt
<1> HIDE DEF moved, row, event
<1>7. Progress(attempts[Number(p)], moved)
  BY <1>2, <1>3, <1>5, <1>6 DEF Progress, EvidenceGrows, Keeps
<1> QED BY <1>1, <1>3, <1>7, OneRowProgresses DEF SafetyInv

LEMMA ProjectionProgresses ==
  ASSUME SafetyInv, NEW p \in Proc, NEW n \in AttemptNumber,
         RecordPending(p) \/ RecordApplied(p)
  PROVE  Progress(attempts[n], attempts'[n])
<1>1. Number(p) \in AttemptNumber
  BY LoadedCopy DEF RecordPending, RecordApplied, PhasePc, Pc, SafetyInv
<1>2. PICK d \in {"pending", "applied"} : SaveExecutionProjection(p, d)
  BY DEF RecordPending, RecordApplied
<1>3. Progress(attempts[Number(p)], [attempts[Number(p)] EXCEPT !.projection = d])
  <2>1. \A r \in Attempt : LET a == [r EXCEPT !.projection = d]
                           IN EvidenceGrows(r, a) /\ OnlyProjected(r, a)
    BY DEF EvidenceGrows, OnlyProjected, Attempt
  <2>2. attempts[Number(p)] \in Attempt
    BY <1>1 DEF SafetyInv, TypeInv, TypeOK, StoreTypeOK
  <2> QED BY <2>1, <2>2 DEF Progress
<1> QED BY <1>1, <1>2, <1>3, OneRowProgresses
        DEF SaveExecutionProjection, SafetyInv, Number

LEMMA CreateProgresses ==
  ASSUME SafetyInv, NEW p \in Proc, NEW n \in AttemptNumber, Create(p)
  PROVE  Progress(attempts[n], attempts'[n])
<1> DEFINE m == lastAttempt + 1
<1>1. m \in AttemptNumber /\ m > lastAttempt
  BY AttemptBoundAssumption
  DEF Create, CreateExecutionAttempt, AttemptNumber, SafetyInv, TypeInv, TypeOK, StoreTypeOK
<1>2. attempts[m].state = "absent"
  BY <1>1 DEF SafetyInv, RowsInv, AttemptHistory
<1>3. Progress(attempts[m], NewAttempt)
  BY <1>1, <1>2 DEF Progress, EvidenceGrows, SettledExecutionStates, SafetyInv, RowsInv,
                    RowsSound, RowSound
<1>4. attempts' = [attempts EXCEPT ![m] = NewAttempt]
  BY DEF Create, CreateExecutionAttempt
<1> HIDE DEF m
<1> QED BY <1>1, <1>3, <1>4, OneRowProgresses DEF SafetyInv

LEMMA RowsProgress ==
  ASSUME SafetyInv, [Next]_vars, NEW n \in AttemptNumber
  PROVE  Progress(attempts[n], attempts'[n])
<1>1. ASSUME NEW p \in Proc, RunStep(p) PROVE Progress(attempts[n], attempts'[n])
  <2>1. CASE RecordWorkspace(p) \/ RecordHandle(p) \/ RecordStatus(p)
    BY <2>1, RecordsProgress
  <2>2. CASE Commit(p)
    BY <2>2, CommitProgresses
  <2>3. CASE RecordPending(p) \/ RecordApplied(p)
    BY <2>3, ProjectionProgresses
  <2>4. CASE Create(p)
    BY <2>4, CreateProgresses
  <2>5. CASE UNCHANGED attempts
    BY <2>5, UntouchedProgresses DEF SafetyInv
  <2> QED BY <1>1, <2>1, <2>2, <2>3, <2>4, <2>5
          DEF RunStep, LoadNothing, LoadAttempt, Release, ReleaseLease, ClearGateLabels,
              Provision, Preflight, Reload, Start, StartNewAgent, Prompt, Poll, Collect,
              FindComment, CreateComment, ApplyLabels, FenceRejected, storeVars
<1>2. ASSUME NEW p \in Proc, RunFault(p) \/ Acquire(p) PROVE UNCHANGED attempts
  BY <1>2 DEF RunFault, PromptResponseLost, CommentResponseLost, Throws,
              ThrowsCaught, Crash, Acquire, AcquireLease, storeVars
<1>3. CASE \E m \in AttemptNumber : Agents(m) \/ Vanish(m)
  BY <1>3, UntouchedProgresses DEF Agents, Vanish, storeVars, SafetyInv
<1>4. CASE Expire \/ Lapse \/ UNCHANGED vars
  BY <1>4, UntouchedProgresses DEF Expire, Lapse, LeaseLapses, vars, storeVars, SafetyInv
<1> QED BY <1>1, <1>2, <1>3, <1>4, UntouchedProgresses DEF Next, SafetyInv

\* No run, however stale, rewrites the state, result or evidence of an attempt
\* that has ended.
THEOREM SettledStays == Spec => SettledIsFinal
<1>1. SafetyInv /\ [Next]_vars =>
        [\A n \in AttemptNumber : attempts[n].state \in SettledExecutionStates =>
           [attempts'[n] EXCEPT !.projection = attempts[n].projection] = attempts[n]]_vars
  BY RowsProgress DEF Progress, OnlyProjected
<1> QED BY <1>1, SafetyAlways, PTL DEF Spec, SettledIsFinal

\* No write of any phase of any run loses a column that an earlier one set.
THEOREM EvidenceStays == Spec => EvidenceIsKept
<1>1. SafetyInv /\ [Next]_vars =>
        [\A n \in AttemptNumber :
           /\ attempts[n].workspace => attempts'[n].workspace
           /\ attempts[n].preflight => attempts'[n].preflight
           /\ attempts[n].handle => attempts'[n].handle]_vars
  BY RowsProgress DEF Progress, EvidenceGrows
<1> QED BY <1>1, SafetyAlways, PTL DEF Spec, EvidenceIsKept

-----------------------------------------------------------------------------
(* Who moves in a step *)

Acts(p) == Acquire(p) \/ RunStep(p) \/ RunFault(p)

\* What p was about to do and for which attempt stays.
Stands(p) ==
  /\ pc'[p] = pc[p] /\ intent'[p] = intent[p]
  /\ attemptCopy'[p].n = attemptCopy[p].n
  /\ attemptCopy'[p].row = attemptCopy[p].row

LEMMA OthersStand ==
  ASSUME SafetyInv, NEW p \in Proc, Acts(p), NEW q \in Proc, q # p
  PROVE  Stands(q)
<1>1. CASE Acquire(p)
  BY <1>1 DEF Acquire, Goto, Stands, SafetyInv, TypeInv, TypeOK
<1>2. CASE LoadAttempt(p) \/ Reload(p)
  BY <1>2 DEF LoadAttempt, Reload, ReadCurrentAttempt, Goto, IntendNeedsHuman, Intend, Stands,
              SafetyInv, TypeInv, TypeOK, StoreTypeOK
<1>3. CASE Release(p) \/ Crash(p)
  BY <1>3 DEF Release, Crash, ForgetCopies, Goto, Stands, SafetyInv, TypeInv, TypeOK, StoreTypeOK
<1>4. CASE RecordWorkspace(p) \/ RecordHandle(p) \/ RecordStatus(p)
  <2>1. PICK row : BumpAttempt(p, Number(p), row)
    BY <1>4 DEF RecordWorkspace, RecordHandle, RecordStatus, PatchExecutionAttempt, Number
  <2>2. attemptCopy'[q].row = attemptCopy[q].row /\ attemptCopy'[q].n = attemptCopy[q].n
    BY <2>1, OthersKeepCopies DEF SafetyInv
  <2> QED BY <1>4, <2>2 DEF RecordWorkspace, RecordHandle, RecordStatus, Goto, Stands,
                            SafetyInv, TypeInv, TypeOK
<1>5. CASE Commit(p) \/ RecordPending(p) \/ RecordApplied(p)
  <2>1. PICK row : BumpAttempt(p, Number(p), row)
    BY <1>5 DEF Commit, TransitionExecutionAttempt, RecordPending, RecordApplied,
                SaveExecutionProjection, Number
  <2>2. attemptCopy'[q].row = attemptCopy[q].row /\ attemptCopy'[q].n = attemptCopy[q].n
    BY <2>1, OthersKeepCopies DEF SafetyInv
  <2> QED BY <1>5, <2>2 DEF Commit, RecordPending, RecordApplied, Goto, Stands,
                            SafetyInv, TypeInv, TypeOK
<1>6. CASE Create(p)
  BY <1>6 DEF Create, CreateExecutionAttempt, Goto, Stands, SafetyInv, TypeInv, TypeOK
<1>7. CASE LoadNothing(p) \/ ClearGateLabels(p) \/ Provision(p) \/ Start(p)
           \/ StartNewAgent(p) \/ Prompt(p) \/ Collect(p) \/ FindComment(p)
           \/ CreateComment(p) \/ ApplyLabels(p) \/ FenceRejected(p)
           \/ PromptResponseLost(p) \/ CommentResponseLost(p) \/ Throws(p) \/ ThrowsCaught(p)
  BY <1>7 DEF LoadNothing, ClearGateLabels, Provision, Start, StartNewAgent, Prompt, Collect,
              FindComment, CreateComment, ApplyLabels, FenceRejected, PromptResponseLost,
              CommentResponseLost, Throws, ThrowsCaught, Goto, Intend, IntendNeedsHuman,
              storeVars, Stands, SafetyInv, TypeInv, TypeOK
<1>8. CASE Preflight(p) \/ Poll(p)
  BY <1>8 DEF Preflight, Poll, Intend, IntendNeedsHuman, storeVars, Stands, SafetyInv,
              TypeInv, TypeOK
<1> QED BY <1>1, <1>2, <1>3, <1>4, <1>5, <1>6, <1>7, <1>8 DEF Acts, RunStep, RunFault

LEMMA ActsOrStands ==
  ASSUME SafetyInv, [Next]_vars, NEW q \in Proc
  PROVE  Acts(q) \/ Stands(q)
<1>1. CASE \E p \in Proc : Acts(p)
  BY <1>1, OthersStand
<1>2. CASE (\E n \in AttemptNumber : Agents(n) \/ Vanish(n)) \/ Expire \/ Lapse \/ UNCHANGED vars
  BY <1>2 DEF Agents, Vanish, Expire, Lapse, LeaseLapses, storeVars, vars, Stands
<1> QED BY <1>1, <1>2 DEF Next, Acts

Verdicts == {"EXECUTION_SUCCEEDED", "EXECUTION_RETRYABLE", "EXECUTION_FAILED",
             "EXECUTION_NEEDS_HUMAN"}

LEMMA NormalizedEventType ==
  \A status, outcome, verified, n : NormalizedEvent(status, outcome, verified, n) \in Verdicts
BY DEF NormalizedEvent, Verdicts

\* The steps of a run that touch no agent and prepare no call to one.
LEMMA FarFromAgents ==
  ASSUME SafetyInv, NEW p \in Proc, Acts(p),
         ~LoadAttempt(p), ~RecordHandle(p), ~Start(p), ~StartNewAgent(p), ~Prompt(p),
         ~PromptResponseLost(p), ~Poll(p)
  PROVE  /\ UNCHANGED herdrVars
         /\ pc'[p] \notin {"start", "start_agent", "prompt", "poll"}
         /\ pc'[p] = "commit" =>
              intent'[p].event \notin {"EXECUTOR_STARTED", "EXECUTOR_TERMINAL"}
<1>1. CASE Acquire(p) \/ LoadNothing(p) \/ Release(p) \/ ClearGateLabels(p) \/ Create(p)
           \/ RecordWorkspace(p) \/ RecordStatus(p) \/ Commit(p) \/ Crash(p)
  BY <1>1 DEF Acquire, LoadNothing, EntryOfPlanned, Release, ClearGateLabels, Create,
              RecordWorkspace, RecordStatus, Commit, Crash, Goto, SafetyInv, TypeInv, TypeOK
<1>2. CASE RecordPending(p) \/ FindComment(p) \/ CreateComment(p) \/ ApplyLabels(p)
           \/ RecordApplied(p) \/ FenceRejected(p) \/ CommentResponseLost(p) \/ Throws(p)
  BY <1>2 DEF RecordPending, FindComment, CreateComment, ApplyLabels, RecordApplied,
              FenceRejected, CommentResponseLost, Throws, Goto, SafetyInv, TypeInv, TypeOK
<1>3. CASE Preflight(p)
  BY <1>3 DEF Preflight, SafetyInv, TypeInv, TypeOK
<1>4. CASE Provision(p) \/ ThrowsCaught(p) \/ Reload(p)
  BY <1>4 DEF Provision, ThrowsCaught, Reload, Intend, IntendNeedsHuman, NeedsHuman,
              SafetyInv, TypeInv, TypeOK
<1>5. CASE Collect(p)
  <2>1. PICK event, row : Intend(p, event, row) /\ event \in Verdicts
    BY <1>5, NormalizedEventType DEF Collect, IntendNeedsHuman, NeedsHuman, Verdicts
  <2> QED BY <1>5, <2>1 DEF Collect, Intend, Verdicts, SafetyInv, TypeInv, TypeOK
<1> QED BY <1>1, <1>2, <1>3, <1>4, <1>5 DEF Acts, RunStep, RunFault
-----------------------------------------------------------------------------
(* No agent without a committed intent *)

\* The calls by which the executor's start may bring an agent about.
Dispatching == {"start", "start_agent", "prompt"}

IntentKept ==
  /\ IntentBeforeAgent
  /\ \A p \in Proc : pc[p] \in Dispatching =>
       attempts[Number(p)].preflight /\ attempts[Number(p)].handle

LEMMA DispatchingNumber ==
  ASSUME SafetyInv, NEW p \in Proc, pc[p] \in Dispatching \cup {"poll", "commit"}
  PROVE  Number(p) \in AttemptNumber
BY LoadedCopy DEF SafetyInv, Dispatching, PhasePc, Pc

\* A run that is about to start an agent has been so already, for the same
\* attempt, or has just read or written the launch intent.
LEMMA BeginsDispatch ==
  ASSUME SafetyInv, [Next]_vars, NEW p \in Proc, pc'[p] \in Dispatching
  PROVE  \/ pc[p] \in Dispatching /\ attemptCopy'[p].n = Number(p)
         \/ LoadAttempt(p) /\ PhaseOf(attempts[work.current]) = "start"
         \/ RecordHandle(p)
<1>1. CASE Stands(p)
  BY <1>1 DEF Stands, Number
<1>2. CASE LoadAttempt(p)
  BY <1>2 DEF LoadAttempt, EntryOfPlanned, PhaseOf, Goto, IntendNeedsHuman, Intend, Dispatching,
              SafetyInv, TypeInv, TypeOK
<1>3. CASE Start(p) \/ StartNewAgent(p)
  BY <1>3 DEF Start, StartNewAgent, Number, storeVars, Dispatching
<1>4. CASE Prompt(p) \/ PromptResponseLost(p)
  BY <1>4 DEF Prompt, PromptResponseLost, Number, storeVars, Dispatching
<1>5. CASE Poll(p)
  BY <1>5 DEF Poll, IntendNeedsHuman, Intend, Dispatching, SafetyInv, TypeInv, TypeOK
<1> QED BY <1>1, <1>2, <1>3, <1>4, <1>5, ActsOrStands, FarFromAgents DEF Dispatching

LEMMA DispatchKept ==
  ASSUME SafetyInv, SafetyInv', IntentKept, [Next]_vars, NEW p \in Proc, pc'[p] \in Dispatching
  PROVE  attempts'[Number(p)'].preflight /\ attempts'[Number(p)'].handle
<1>1. CASE pc[p] \in Dispatching /\ attemptCopy'[p].n = Number(p)
  <2>1. Number(p) \in AttemptNumber
    BY <1>1, DispatchingNumber
  <2> QED BY <1>1, <2>1, RowsProgress DEF IntentKept, Progress, EvidenceGrows, Number
<1>2. CASE LoadAttempt(p) /\ PhaseOf(attempts[work.current]) = "start"
  <2>1. /\ attemptCopy'[p].n = work.current /\ work.current \in AttemptNumber
        /\ UNCHANGED attempts
    BY <1>2, ReadKeepsRows DEF LoadAttempt
  <2>2. attempts[work.current].state = "launching" /\ attempts[work.current].handle
    BY <1>2 DEF PhaseOf, SettledExecutionStates
  <2> QED BY <2>1, <2>2 DEF SafetyInv, RowsInv, RowsSound, RowSound, Number
<1>3. CASE RecordHandle(p)
  <2> DEFINE row == [Copy(p) EXCEPT !.handle = TRUE]
  <2>1. Copy(p).state = "launching" /\ Copy(p) \in Attempt /\ Number(p) \in AttemptNumber
    BY <1>3, LoadedCopy DEF RecordHandle, SafetyInv, Prepared, PhasePc, Pc
  <2>2. /\ attempts' = [attempts EXCEPT ![Number(p)] = row]
        /\ BumpAttempt(p, Number(p), row)
    BY <1>3 DEF RecordHandle, PatchExecutionAttempt, Number
  <2>3. row.handle /\ row.state = "launching"
    BY <2>1 DEF Attempt
  <2> HIDE DEF row
  <2>4. attempts'[Number(p)] = row /\ attemptCopy'[p].n = Number(p)
    BY <2>1, <2>2, OthersKeepCopies DEF SafetyInv, TypeInv, TypeOK, StoreTypeOK
  <2>5. row.preflight
    BY <2>1, <2>3, <2>4 DEF SafetyInv, RowsInv, RowsSound, RowSound
  <2> QED BY <2>3, <2>4, <2>5 DEF Number
<1> QED BY <1>1, <1>2, <1>3, BeginsDispatch

\* Which agent comes to be.
LEMMA NewAgent ==
  ASSUME [Next]_vars, NEW n \in AttemptNumber, agent'[n] # agent[n], SafetyInv,
         agent'[n] # "absent"
  PROVE  agent[n] # "absent" \/ \E p \in Proc : pc[p] \in Dispatching /\ Number(p) = n
<1>1. CASE \E p \in Proc : StartNewAgent(p) \/ Prompt(p) \/ PromptResponseLost(p)
  <2>1. PICK p \in Proc : StartNewAgent(p) \/ Prompt(p) \/ PromptResponseLost(p)
    BY <1>1
  <2>2. pc[p] \in Dispatching
    BY <2>1 DEF StartNewAgent, Prompt, PromptResponseLost, Dispatching
  <2>3. agent'[n] = agent[n] \/ Number(p) = n
    BY <2>1 DEF StartNewAgent, Prompt, PromptResponseLost, StartAgent, SubmitPrompt, herdrVars,
                SafetyInv, TypeInv, TypeOK, HerdrTypeOK
  <2> QED BY <2>2, <2>3
<1>2. CASE \E p \in Proc : Acts(p) /\ UNCHANGED herdrVars
  BY <1>2 DEF herdrVars
<1>3. CASE \E m \in AttemptNumber : Agents(m) \/ Vanish(m)
  BY <1>3 DEF Agents, Vanish, AgentStep, AgentMarks, AgentReports, AgentStops, AgentBlocks,
              AgentResumes, AgentVanishes, SafetyInv, TypeInv, TypeOK, HerdrTypeOK
<1>4. CASE Expire \/ Lapse \/ UNCHANGED vars
  BY <1>4 DEF Expire, Lapse, LeaseLapses, vars, herdrVars
<1>5. ASSUME NEW p \in Proc, Acts(p)
      PROVE  UNCHANGED herdrVars \/ StartNewAgent(p) \/ Prompt(p) \/ PromptResponseLost(p)
  BY <1>5, FarFromAgents DEF LoadAttempt, RecordHandle, Start, Poll
<1> QED BY <1>1, <1>2, <1>3, <1>4, <1>5 DEF Next, Acts

LEMMA IntentStep ==
  ASSUME SafetyInv, SafetyInv', IntentKept, [Next]_vars
  PROVE  IntentKept'
<1>1. ASSUME NEW n \in AttemptNumber, agent'[n] # "absent"
      PROVE  attempts'[n].preflight /\ attempts'[n].handle
  BY <1>1, NewAgent, RowsProgress DEF IntentKept, IntentBeforeAgent, Progress, EvidenceGrows
<1> QED BY <1>1, DispatchKept DEF IntentKept, IntentBeforeAgent

\* launch records the handle before it calls the executor, so whichever agent
\* exists after a crash, a recovering run finds it by the attempt's row.
THEOREM AgentsHaveIntent == Spec => []IntentBeforeAgent
<1>1. Init => IntentKept
  BY DEF Init, HerdrInit, IntentKept, IntentBeforeAgent, Dispatching
<1>2. IntentKept => IntentBeforeAgent
  BY DEF IntentKept
<1> QED BY <1>1, <1>2, IntentStep, InitSafe, SafetyStep, PTL DEF Spec

-----------------------------------------------------------------------------
(* One prompt and one agent at work, as long as no pane is lost *)

Stopped(n) == agent[n] \in {"idle", "done"} /\ prompts[n] > 0

\* Nobody has told the agent anything, and there is nothing of it to be seen.
Untold(n) == agent[n] \in {"absent", "idle"} /\ marker # n /\ manifest.n # n

AgentsSound ==
  \A n \in AttemptNumber :
    /\ prompts[n] <= 1
    /\ prompts[n] = 0 => Untold(n)
    /\ agent[n] = "absent" => prompts[n] = 0

\* An attempt that runs was prompted; one that was left behind has stopped.
RowsKnowAgents ==
  \A n \in AttemptNumber :
    /\ attempts[n].state = "running" => prompts[n] > 0
    /\ attempts[n].state \in {"collecting", "retry_wait"} => Stopped(n)

HandsKnowAgents ==
  \A p \in Proc :
    /\ pc[p] = "prompt" => agent[Number(p)] = "idle" /\ prompts[Number(p)] = 0
    /\ pc[p] = "poll" => prompts[Number(p)] > 0
    /\ pc[p] = "commit" /\ intent[p].event = "EXECUTOR_STARTED" => prompts[Number(p)] > 0
    /\ pc[p] = "commit" /\ intent[p].event = "EXECUTOR_TERMINAL" => Stopped(Number(p))

OnePrompter ==
  \A p, q \in Proc :
    pc[p] = "prompt" /\ pc[q] = "prompt" /\ Number(p) = Number(q) => p = q

AgentsInv == AgentsSound /\ RowsKnowAgents /\ HandsKnowAgents /\ OnePrompter

\* The steps that change an agent or its worktree.
AgentsMove ==
  \/ UNCHANGED herdrVars
  \/ \E p \in Proc : StartNewAgent(p) /\ StartAgent(Number(p))
  \/ \E p \in Proc : (Prompt(p) \/ PromptResponseLost(p)) /\ SubmitPrompt(Number(p))
  \/ \E n \in AttemptNumber : Agents(n)

LEMMA HowAgentsMove ==
  ASSUME "vanish" \notin FaultKinds, SafetyInv, [Next]_vars
  PROVE  AgentsMove
<1>1. ASSUME NEW p \in Proc, Acts(p) PROVE AgentsMove
  <2>1. CASE StartNewAgent(p)
    BY <2>1 DEF StartNewAgent, AgentsMove
  <2>2. CASE Prompt(p) \/ PromptResponseLost(p)
    BY <2>2 DEF Prompt, PromptResponseLost, AgentsMove
  <2>3. CASE LoadAttempt(p) \/ RecordHandle(p) \/ Start(p) \/ Poll(p)
    BY <2>3 DEF LoadAttempt, RecordHandle, Start, Poll, AgentsMove
  <2> QED BY <1>1, <2>1, <2>2, <2>3, FarFromAgents DEF AgentsMove
<1>2. CASE \E n \in AttemptNumber : Agents(n) \/ Vanish(n)
  BY <1>2 DEF Vanish, FaultHappens, AgentsMove
<1>3. CASE Expire \/ Lapse \/ UNCHANGED vars
  BY <1>3 DEF Expire, Lapse, LeaseLapses, vars, AgentsMove
<1> QED BY <1>1, <1>2, <1>3 DEF Next, Acts

\* What a move does to attempt n's agent.
LEMMA OneAgentMoves ==
  ASSUME SafetyInv, SafetyInv', AgentsInv, AgentsMove, NEW n \in AttemptNumber
  PROVE  \/ /\ agent'[n] = agent[n] /\ prompts'[n] = prompts[n]
            /\ marker = n \/ marker' # n
            /\ manifest.n = n \/ manifest'.n # n
         \/ /\ agent[n] = "absent" /\ agent'[n] = "idle" /\ prompts'[n] = prompts[n]
            /\ UNCHANGED <<marker, manifest>>
         \/ /\ agent[n] = "idle" /\ agent'[n] = "working"
            /\ prompts[n] = 0 /\ prompts'[n] = 1
         \/ /\ agent[n] \in {"working", "blocked"} /\ agent'[n] # "absent"
            /\ prompts'[n] = prompts[n]
<1>1. CASE UNCHANGED herdrVars
  BY <1>1 DEF herdrVars
<1>2. CASE \E p \in Proc : StartNewAgent(p) /\ StartAgent(Number(p))
  BY <1>2 DEF StartAgent, SafetyInv, TypeInv, TypeOK, HerdrTypeOK
<1>3. CASE \E p \in Proc : (Prompt(p) \/ PromptResponseLost(p)) /\ SubmitPrompt(Number(p))
  <2>1. PICK p \in Proc : (Prompt(p) \/ PromptResponseLost(p)) /\ SubmitPrompt(Number(p))
    BY <1>3
  <2>2. agent[Number(p)] = "idle" /\ prompts[Number(p)] = 0
    BY <2>1 DEF Prompt, PromptResponseLost, AgentsInv, HandsKnowAgents
  <2> QED BY <2>1, <2>2 DEF SubmitPrompt, SafetyInv, TypeInv, TypeOK, HerdrTypeOK
<1>4. ASSUME NEW m \in AttemptNumber, AgentMarks(m) \/ AgentReports(m)
      PROVE  /\ UNCHANGED <<agent, prompts>>
             /\ m = n => agent[n] = "working"
             /\ m # n => marker' \in {marker, m} /\ manifest'.n \in {manifest.n, m}
  BY <1>4 DEF AgentMarks, AgentReports
<1>5. ASSUME NEW m \in AttemptNumber, AgentStops(m) \/ AgentBlocks(m) \/ AgentResumes(m)
      PROVE  /\ UNCHANGED <<prompts, marker, manifest>>
             /\ \/ agent'[n] = agent[n]
                \/ agent[n] \in {"working", "blocked"} /\ agent'[n] # "absent"
  BY <1>5 DEF AgentStops, AgentBlocks, AgentResumes, SafetyInv, TypeInv, TypeOK, HerdrTypeOK
<1>6. CASE \E m \in AttemptNumber : Agents(m)
  <2>1. agent[n] = "working" => agent[n] # "absent"
    OBVIOUS
  <2> QED BY <1>4, <1>5, <1>6, <2>1 DEF Agents, AgentStep
<1> QED BY <1>1, <1>2, <1>3, <1>6 DEF AgentsMove

LEMMA AgentsSoundStep ==
  ASSUME SafetyInv, SafetyInv', AgentsInv, AgentsMove
  PROVE  AgentsSound'
<1> SUFFICES ASSUME NEW n \in AttemptNumber
             PROVE  /\ prompts'[n] <= 1
                    /\ prompts'[n] = 0 => Untold(n)'
                    /\ agent'[n] = "absent" => prompts'[n] = 0
  BY DEF AgentsSound
<1>1. prompts[n] \in Nat /\ prompts'[n] \in Nat
  BY DEF SafetyInv, TypeInv, TypeOK, HerdrTypeOK
<1> QED BY <1>1, OneAgentMoves DEF AgentsInv, AgentsSound, Untold

LEMMA PromptedStays ==
  ASSUME SafetyInv, SafetyInv', AgentsInv, AgentsMove, NEW n \in AttemptNumber
  PROVE  /\ prompts[n] > 0 => prompts'[n] > 0
         /\ Stopped(n) => Stopped(n)'
<1>1. prompts[n] \in Nat /\ prompts'[n] \in Nat
  BY DEF SafetyInv, TypeInv, TypeOK, HerdrTypeOK
<1> QED BY <1>1, OneAgentMoves DEF Stopped

\* The steps of a run that write an attempt's row are these seven.
LEMMA RowsWrittenBy ==
  ASSUME NEW p \in Proc, Acts(p), ~Commit(p), ~RecordWorkspace(p), ~RecordHandle(p),
         ~RecordStatus(p), ~RecordPending(p), ~RecordApplied(p), ~Create(p)
  PROVE  UNCHANGED attempts
BY DEF Acts, RunStep, RunFault, Acquire, AcquireLease, LoadNothing, LoadAttempt, Release,
    ReleaseLease, ClearGateLabels, Provision, Preflight, Reload, Start, StartNewAgent,
    Prompt, Poll, Collect, FindComment, CreateComment, ApplyLabels, FenceRejected,
    PromptResponseLost, CommentResponseLost, Throws, ThrowsCaught, Crash, storeVars

\* A commit moves the current attempt and the work item by an event that the
\* state they share accepts.
LEMMA CommitMoves ==
  ASSUME SafetyInv, NEW p \in Proc, Commit(p)
  PROVE  LET n == Number(p)
             s == attempts[n].state
             event == intent[p].event
         IN /\ n \in AttemptNumber /\ n = work.current
            /\ s = work.state /\ s \in ExecutionStates
            /\ event \in ExecutionEvents \cup {"none"} /\ Accepts(s, event)
            /\ attempts'[n].state = NextState(s, event)
            /\ work'.state = NextState(s, event)
            /\ Moves(s, event, NextState(s, event))
<1> DEFINE n == Number(p)
           event == intent[p].event
           s == Copy(p).state
<1>1. intent[p].row \in Attempt /\ event \in ExecutionEvents \cup {"none"} /\ n \in AttemptNumber
  BY IntentTyped, DispatchingNumber DEF Commit, SafetyInv
<1>2. Copy(p) = attempts[n] /\ work.current = n /\ work.state = s /\ Accepts(s, event)
  BY DEF Commit, TransitionExecutionAttempt, AttemptFence, ProjectionFence, SafetyInv,
         RowsInv, FreshCopyIsRow, Number, Copy
<1>3. s \in ExecutionStates
  <2>1. s \in MastermindState
    BY <1>2 DEF SafetyInv, TypeInv, TypeOK, StoreTypeOK, Work
  <2>2. "absent" \notin MastermindState
    BY DEF MastermindState, On
  <2> QED BY <2>1, <2>2, LoadedCopy DEF SafetyInv, Attempt
<1>4. attempts'[n].state = NextState(s, event) /\ work'.state = NextState(s, event)
  <2> DEFINE moved == [intent[p].row EXCEPT !.state = NextState(s, event)]
  <2>1. attempts' = [attempts EXCEPT ![n] = moved] /\ work' = [work EXCEPT !.state = moved.state]
    BY DEF Commit, TransitionExecutionAttempt, Number, Copy
  <2>2. moved.state = NextState(s, event)
    BY <1>1 DEF Attempt
  <2> HIDE DEF moved
  <2> QED BY <1>1, <2>1, <2>2 DEF SafetyInv, TypeInv, TypeOK, StoreTypeOK, Work
<1>5. Moves(s, event, NextState(s, event))
  BY <1>1, <1>2, <1>3, MovesByTable
<1> QED BY <1>1, <1>2, <1>3, <1>4, <1>5

\* Attempts change their state when they are created and by a commit, which
\* fences on the state it moves.
LEMMA StateMoves ==
  ASSUME SafetyInv, [Next]_vars, NEW n \in AttemptNumber
  PROVE  \/ attempts'[n].state = attempts[n].state
         \/ attempts'[n].state = "provisioning"
         \/ \E p \in Proc :
              /\ Commit(p) /\ Number(p) = n
              /\ Moves(attempts[n].state, intent[p].event, attempts'[n].state)
<1>1. ASSUME NEW p \in Proc, Commit(p), Number(p) # n PROVE attempts'[n] = attempts[n]
  BY <1>1 DEF Commit, TransitionExecutionAttempt, Number, SafetyInv, TypeInv, TypeOK, StoreTypeOK
<1>2. ASSUME NEW p \in Proc, Commit(p), Number(p) = n
      PROVE  Moves(attempts[n].state, intent[p].event, attempts'[n].state)
  BY <1>2, CommitMoves DEF Number
<1>3. ASSUME NEW p \in Proc, RecordWorkspace(p) \/ RecordHandle(p) \/ RecordStatus(p)
      PROVE  attempts'[n].state = attempts[n].state
  <2>1. PICK row : PatchExecutionAttempt(p, row) /\ row.state = Copy(p).state
    <3>1. Copy(p) \in Attempt
      BY LoadedCopy DEF SafetyInv
    <3>2. RecordStatus(p) => intent[p].row.state = Copy(p).state
      BY DEF RecordStatus, SafetyInv, Prepared, Keeps
    <3> QED BY <1>3, <3>1, <3>2 DEF RecordWorkspace, RecordHandle, RecordStatus, Attempt
  <2>2. attempts' = [attempts EXCEPT ![Number(p)] = row] /\ Copy(p) = attempts[Number(p)]
    BY <2>1 DEF PatchExecutionAttempt, AttemptFence, ProjectionFence, SafetyInv, RowsInv,
                FreshCopyIsRow, Number, Copy
  <2> QED BY <2>1, <2>2 DEF SafetyInv, TypeInv, TypeOK, StoreTypeOK
<1>4. ASSUME NEW p \in Proc, RecordPending(p) \/ RecordApplied(p)
      PROVE  attempts'[n].state = attempts[n].state
  <2>1. PICK d : attempts' = [attempts EXCEPT ![Number(p)] =
                               [attempts[Number(p)] EXCEPT !.projection = d]]
    BY <1>4 DEF RecordPending, RecordApplied, SaveExecutionProjection, Number
  <2>2. attempts[n] \in Attempt
    BY DEF SafetyInv, TypeInv, TypeOK, StoreTypeOK
  <2> QED BY <2>1, <2>2 DEF Attempt, SafetyInv, TypeInv, TypeOK, StoreTypeOK
<1>5. ASSUME NEW p \in Proc, Create(p)
      PROVE  attempts'[n].state \in {attempts[n].state, "provisioning"}
  BY <1>5 DEF Create, CreateExecutionAttempt, NewAttempt, AbsentAttempt, SafetyInv, TypeInv,
              TypeOK, StoreTypeOK
<1>6. ASSUME NEW p \in Proc, Acts(p), ~Commit(p), ~RecordWorkspace(p), ~RecordHandle(p),
             ~RecordStatus(p), ~RecordPending(p), ~RecordApplied(p), ~Create(p)
      PROVE  UNCHANGED attempts
  BY <1>6, RowsWrittenBy
<1>7. CASE (\E m \in AttemptNumber : Agents(m) \/ Vanish(m)) \/ Expire \/ Lapse \/ UNCHANGED vars
  BY <1>7 DEF Agents, Vanish, Expire, Lapse, LeaseLapses, vars, storeVars
<1> QED BY <1>1, <1>2, <1>3, <1>4, <1>5, <1>6, <1>7 DEF Next, Acts

LEMMA RowsKnowAgentsStep ==
  ASSUME SafetyInv, SafetyInv', AgentsInv, AgentsMove, [Next]_vars
  PROVE  RowsKnowAgents'
<1> SUFFICES ASSUME NEW n \in AttemptNumber
             PROVE  /\ attempts'[n].state = "running" => prompts'[n] > 0
                    /\ attempts'[n].state \in {"collecting", "retry_wait"} => Stopped(n)'
  BY DEF RowsKnowAgents
<1>1. CASE attempts'[n].state = attempts[n].state
  BY <1>1, PromptedStays DEF AgentsInv, RowsKnowAgents
<1>2. CASE attempts'[n].state = "provisioning"
  BY <1>2
<1>3. ASSUME NEW p \in Proc, Commit(p), Number(p) = n,
             Moves(attempts[n].state, intent[p].event, attempts'[n].state)
      PROVE  /\ attempts'[n].state = "running" => prompts[n] > 0
             /\ attempts'[n].state \in {"collecting", "retry_wait"} => Stopped(n)
  <2>1. /\ intent[p].event = "EXECUTOR_STARTED" => prompts[n] > 0
        /\ intent[p].event = "EXECUTOR_TERMINAL" => Stopped(n)
    BY <1>3 DEF Commit, AgentsInv, HandsKnowAgents
  <2>2. attempts[n].state = "collecting" => Stopped(n)
    BY DEF AgentsInv, RowsKnowAgents
  <2> QED BY <1>3, <2>1, <2>2 DEF Moves
<1> QED BY <1>1, <1>2, <1>3, StateMoves, PromptedStays

LEMMA OnePrompterStep ==
  ASSUME SafetyInv, SafetyInv', AgentsInv, [Next]_vars
  PROVE  OnePrompter'
<1>1. ASSUME NEW p \in Proc, pc'[p] = "prompt"
      PROVE  \/ pc[p] = "prompt" /\ attemptCopy'[p].n = Number(p)
             \/ StartNewAgent(p) /\ agent[Number(p)] = "absent" /\ attemptCopy'[p].n = Number(p)
  <2>1. CASE Stands(p)
    BY <1>1, <2>1 DEF Stands, Number
  <2>2. CASE StartNewAgent(p)
    BY <1>1, <2>2 DEF StartNewAgent, IntendNeedsHuman, Intend, Number, storeVars,
                      SafetyInv, TypeInv, TypeOK
  <2>3. ~Start(p) /\ ~Prompt(p) /\ ~PromptResponseLost(p) /\ ~RecordHandle(p)
    BY <1>1 DEF Start, Prompt, PromptResponseLost, RecordHandle, Goto, Intend, IntendNeedsHuman,
                SafetyInv, TypeInv, TypeOK
  <2>4. ~Poll(p)
    BY <1>1 DEF Poll, Intend, IntendNeedsHuman, SafetyInv, TypeInv, TypeOK
  <2>5. ~LoadAttempt(p)
    BY <1>1 DEF LoadAttempt, EntryOfPlanned, PhaseOf, Goto, Intend, IntendNeedsHuman,
                SafetyInv, TypeInv, TypeOK
  <2> QED BY <1>1, <2>1, <2>2, <2>3, <2>4, <2>5, ActsOrStands, FarFromAgents
<1> SUFFICES ASSUME NEW p \in Proc, NEW q \in Proc, pc'[p] = "prompt", pc'[q] = "prompt",
                    attemptCopy'[p].n = attemptCopy'[q].n, p # q
             PROVE  FALSE
  BY DEF OnePrompter, Number
<1>2. Number(p) = Number(q)
  BY <1>1
<1>3. ~(StartNewAgent(p) /\ StartNewAgent(q))
  <2> SUFFICES ASSUME StartNewAgent(p), StartNewAgent(q) PROVE FALSE
    OBVIOUS
  <2>1. pc'[q] = pc[q]
    BY OthersStand DEF Acts, RunStep, Stands
  <2> QED BY <2>1 DEF StartNewAgent
<1>4. CASE pc[p] = "prompt" /\ pc[q] = "prompt"
  BY <1>2, <1>4 DEF AgentsInv, OnePrompter
<1>5. CASE (pc[p] = "prompt" /\ agent[Number(q)] = "absent")
           \/ (pc[q] = "prompt" /\ agent[Number(p)] = "absent")
  BY <1>2, <1>5 DEF AgentsInv, HandsKnowAgents
<1> QED BY <1>1, <1>3, <1>4, <1>5

\* What a run holds of its attempt's agent when it makes its next call.
HandSound(p) ==
  /\ pc[p] = "prompt" => agent[Number(p)] = "idle" /\ prompts[Number(p)] = 0
  /\ pc[p] = "poll" => prompts[Number(p)] > 0
  /\ pc[p] = "commit" /\ intent[p].event = "EXECUTOR_STARTED" => prompts[Number(p)] > 0
  /\ pc[p] = "commit" /\ intent[p].event = "EXECUTOR_TERMINAL" => Stopped(Number(p))

\* No other run prompts the agent that a run is about to prompt.
LEMMA PromptAwaited ==
  ASSUME SafetyInv, SafetyInv', AgentsInv, AgentsMove, NEW p \in Proc, Stands(p),
         pc[p] = "prompt"
  PROVE  agent'[Number(p)] = "idle" /\ prompts'[Number(p)] = 0
<1> DEFINE n == Number(p)
<1>1. n \in AttemptNumber /\ agent[n] = "idle" /\ prompts[n] = 0
  BY DispatchingNumber DEF Dispatching, AgentsInv, HandsKnowAgents
<1>2. CASE UNCHANGED herdrVars
  BY <1>1, <1>2 DEF herdrVars
<1>3. CASE \E q \in Proc : StartNewAgent(q) /\ StartAgent(Number(q))
  BY <1>1, <1>3 DEF StartAgent, SafetyInv, TypeInv, TypeOK, HerdrTypeOK
<1>4. CASE \E q \in Proc : (Prompt(q) \/ PromptResponseLost(q)) /\ SubmitPrompt(Number(q))
  <2>1. PICK q \in Proc : (Prompt(q) \/ PromptResponseLost(q)) /\ SubmitPrompt(Number(q))
    BY <1>4
  <2>2. pc[q] = "prompt" /\ pc'[q] # "prompt"
    BY <2>1 DEF Prompt, PromptResponseLost, IntendNeedsHuman, Intend, SafetyInv, TypeInv, TypeOK
  <2>3. Number(q) # n
    BY <2>2 DEF Stands, AgentsInv, OnePrompter
  <2> QED BY <1>1, <2>1, <2>3 DEF SubmitPrompt, SafetyInv, TypeInv, TypeOK, HerdrTypeOK
<1>5. CASE \E m \in AttemptNumber : Agents(m)
  BY <1>1, <1>5 DEF Agents, AgentStep, AgentMarks, AgentReports, AgentStops, AgentBlocks,
                    AgentResumes, SafetyInv, TypeInv, TypeOK, HerdrTypeOK
<1> QED BY <1>2, <1>3, <1>4, <1>5 DEF AgentsMove

LEMMA StandingHand ==
  ASSUME SafetyInv, SafetyInv', AgentsInv, AgentsMove, NEW p \in Proc, Stands(p)
  PROVE  HandSound(p)'
<1>1. Number(p)' = Number(p)
  BY DEF Stands, Number
<1>2. HandSound(p)
  BY DEF AgentsInv, HandsKnowAgents, HandSound
<1>3. CASE pc[p] \in {"poll", "commit"}
  <2>1. Number(p) \in AttemptNumber
    BY <1>3, DispatchingNumber
  <2>2. /\ prompts[Number(p)] > 0 => prompts'[Number(p)] > 0
        /\ Stopped(Number(p)) => agent'[Number(p)] \in {"idle", "done"} /\ prompts'[Number(p)] > 0
    BY <2>1, PromptedStays DEF Stopped
  <2> QED BY <1>1, <1>2, <1>3, <2>2 DEF Stands, HandSound, Stopped
<1>4. CASE pc[p] = "prompt"
  BY <1>1, <1>4, PromptAwaited DEF Stands, HandSound
<1> QED BY <1>3, <1>4 DEF Stands, HandSound

\* start adopts only an agent that shows that it was prompted.
LEMMA StartHand ==
  ASSUME SafetyInv, SafetyInv', AgentsInv, NEW p \in Proc, Start(p)
  PROVE  HandSound(p)'
<1> DEFINE n == Number(p)
<1>1. n \in AttemptNumber /\ attemptCopy' = attemptCopy /\ UNCHANGED herdrVars
  BY DispatchingNumber DEF Start, Dispatching, storeVars
<1>2. agent[n] # "absent" /\ ~Ambiguous(n) => prompts[n] > 0
  <2>1. prompts[n] \in Nat
    BY <1>1 DEF SafetyInv, TypeInv, TypeOK, HerdrTypeOK
  <2>2. prompts[n] = 0 => Untold(n)
    BY <1>1 DEF AgentsInv, AgentsSound
  <2> QED BY <2>1, <2>2 DEF Untold, Ambiguous, DispatchEvidence, ReportsOn
<1>3. \/ pc'[p] = "start_agent"
      \/ pc'[p] = "commit" /\ intent'[p].event = "EXECUTION_NEEDS_HUMAN"
      \/ /\ agent[n] # "absent" /\ ~Ambiguous(n)
         /\ pc'[p] = "commit" /\ intent'[p].event = "EXECUTOR_STARTED"
  BY DEF Start, Goto, IntendNeedsHuman, NeedsHuman, Intend, SafetyInv, TypeInv, TypeOK
<1> QED BY <1>1, <1>2, <1>3 DEF HandSound, Number, herdrVars

LEMMA StartNewAgentHand ==
  ASSUME SafetyInv, SafetyInv', AgentsInv, NEW p \in Proc, StartNewAgent(p)
  PROVE  HandSound(p)'
<1> DEFINE n == Number(p)
<1>1. n \in AttemptNumber /\ attemptCopy' = attemptCopy
  BY DispatchingNumber DEF StartNewAgent, Dispatching, storeVars
<1>2. CASE agent[n] = "absent"
  <2>1. /\ pc'[p] = "prompt" /\ agent'[n] = "idle" /\ prompts'[n] = prompts[n]
    BY <1>1, <1>2 DEF StartNewAgent, StartAgent, Goto, SafetyInv, TypeInv, TypeOK, HerdrTypeOK
  <2>2. prompts[n] = 0
    BY <1>1, <1>2 DEF AgentsInv, AgentsSound
  <2> QED BY <1>1, <2>1, <2>2 DEF HandSound, Number
<1>3. CASE agent[n] # "absent"
  <2>1. pc'[p] = "commit" /\ intent'[p].event = "EXECUTION_NEEDS_HUMAN"
    BY <1>3 DEF StartNewAgent, IntendNeedsHuman, NeedsHuman, Intend, SafetyInv, TypeInv, TypeOK
  <2> QED BY <2>1 DEF HandSound
<1> QED BY <1>2, <1>3

LEMMA PromptHand ==
  ASSUME SafetyInv, SafetyInv', AgentsInv, NEW p \in Proc, Prompt(p) \/ PromptResponseLost(p)
  PROVE  HandSound(p)'
<1> DEFINE n == Number(p)
<1>1. n \in AttemptNumber /\ attemptCopy' = attemptCopy
  BY DispatchingNumber DEF Prompt, PromptResponseLost, Dispatching, storeVars
<1>2. \/ pc'[p] = "commit" /\ intent'[p].event = "EXECUTION_NEEDS_HUMAN"
      \/ pc'[p] = "commit" /\ intent'[p].event = "EXECUTOR_STARTED" /\ SubmitPrompt(n)
  BY DEF Prompt, PromptResponseLost, IntendNeedsHuman, NeedsHuman, Intend,
         SafetyInv, TypeInv, TypeOK
<1>3. SubmitPrompt(n) => prompts'[n] > 0
  BY <1>1 DEF SubmitPrompt, SafetyInv, TypeInv, TypeOK, HerdrTypeOK
<1> QED BY <1>1, <1>2, <1>3 DEF HandSound, Number

LEMMA PollHand ==
  ASSUME SafetyInv, SafetyInv', AgentsInv, NEW p \in Proc, Poll(p)
  PROVE  HandSound(p)'
<1> DEFINE n == Number(p)
<1>1. n \in AttemptNumber /\ attemptCopy' = attemptCopy /\ UNCHANGED herdrVars
  BY DispatchingNumber DEF Poll, storeVars
<1>2. prompts[n] > 0
  BY DEF Poll, AgentsInv, HandsKnowAgents
<1>3. "terminal" \in Observable(n) => agent[n] \in {"idle", "done"}
  <2>1. agent[n] \in AgentState
    BY <1>1 DEF SafetyInv, TypeInv, TypeOK, HerdrTypeOK
  <2> QED BY <2>1 DEF Observable, AgentState
<1>4. \/ pc'[p] = "record_status"
      \/ pc'[p] = "commit" /\ intent'[p].event = "EXECUTION_NEEDS_HUMAN"
      \/ /\ pc'[p] = "commit" /\ intent'[p].event = "EXECUTOR_TERMINAL"
         /\ "terminal" \in Observable(n)
  BY DEF Poll, IntendNeedsHuman, NeedsHuman, Intend, SafetyInv, TypeInv, TypeOK
<1> QED BY <1>1, <1>2, <1>3, <1>4 DEF HandSound, Stopped, Number, herdrVars

LEMMA LoadAttemptHand ==
  ASSUME SafetyInv, SafetyInv', AgentsInv, NEW p \in Proc, LoadAttempt(p)
  PROVE  HandSound(p)'
<1> DEFINE row == attempts[work.current]
<1>1. /\ work.current \in AttemptNumber /\ attemptCopy'[p].n = work.current
      /\ UNCHANGED herdrVars
  BY ReadKeepsRows DEF LoadAttempt
<1>2. \/ pc'[p] \in {"begin", "release"} \/ pc'[p] = PhaseOf(row)
      \/ pc'[p] = "commit" /\ intent'[p].event = "EXECUTION_NEEDS_HUMAN"
  BY DEF LoadAttempt, EntryOfPlanned, Goto, IntendNeedsHuman, NeedsHuman, Intend,
         SafetyInv, TypeInv, TypeOK
<1>3. /\ PhaseOf(row) \notin {"prompt", "commit"}
      /\ PhaseOf(row) = "poll" => row.state = "running"
  BY PhasePrepared
<1>4. row.state = "running" => prompts[work.current] > 0
  BY <1>1 DEF AgentsInv, RowsKnowAgents
<1> HIDE DEF row
<1> QED BY <1>1, <1>2, <1>3, <1>4 DEF HandSound, Number, herdrVars

LEMMA HandsKnowAgentsStep ==
  ASSUME SafetyInv, SafetyInv', AgentsInv, AgentsMove, [Next]_vars
  PROVE  HandsKnowAgents'
<1> SUFFICES ASSUME NEW p \in Proc PROVE HandSound(p)'
  BY DEF HandsKnowAgents, HandSound
<1>1. CASE RecordHandle(p)
  BY <1>1 DEF RecordHandle, Goto, HandSound, SafetyInv, TypeInv, TypeOK
<1>2. CASE Acts(p) /\ pc'[p] \notin {"prompt", "poll"}
           /\ (pc'[p] = "commit" =>
                 intent'[p].event \notin {"EXECUTOR_STARTED", "EXECUTOR_TERMINAL"})
  BY <1>2 DEF HandSound
<1> QED BY <1>1, <1>2, ActsOrStands, FarFromAgents, StandingHand, StartHand, StartNewAgentHand,
           PromptHand, PollHand, LoadAttemptHand

LEMMA AgentsStep ==
  ASSUME "vanish" \notin FaultKinds, SafetyInv, SafetyInv', AgentsInv, [Next]_vars
  PROVE  AgentsInv'
BY HowAgentsMove, AgentsSoundStep, RowsKnowAgentsStep, HandsKnowAgentsStep, OnePrompterStep
DEF AgentsInv

LEMMA AgentsInit == Init => AgentsInv
<1> SUFFICES ASSUME Init PROVE AgentsInv
  OBVIOUS
<1>1. AgentsSound /\ RowsKnowAgents
  BY DEF Init, HerdrInit, AgentsSound, RowsKnowAgents, Untold, NoManifest, AbsentAttempt,
         AttemptNumber
<1>2. HandsKnowAgents /\ OnePrompter
  BY DEF Init, HandsKnowAgents, OnePrompter
<1> QED BY <1>1, <1>2 DEF AgentsInv

\* While no pane is lost, however many runs crash, lose their lease or their
\* answers: an attempt's prompt is submitted once, since whoever finds the agent
\* of an earlier run adopts it or gives the work to a person.
THEOREM PromptedOnce ==
  ASSUME "vanish" \notin FaultKinds PROVE Spec => []PromptAtMostOnce
<1>1. AgentsInv => PromptAtMostOnce
  BY DEF AgentsInv, AgentsSound, PromptAtMostOnce
<1>2. SafetyInv /\ SafetyInv' /\ AgentsInv /\ [Next]_vars => AgentsInv'
  BY AgentsStep
<1> QED BY <1>1, <1>2, AgentsInit, InitSafe, SafetyStep, PTL DEF Spec

\* An attempt is left behind for the next one only after its agent was seen to
\* have stopped, and a stopped agent is not set to work again, so the agents of
\* two attempts are never at work in the one worktree.
THEOREM OneAtWork ==
  ASSUME "vanish" \notin FaultKinds PROVE Spec => []OneAgentAtWork
<1>1. SafetyInv /\ IntentKept /\ AgentsInv => OneAgentAtWork
  <2> SUFFICES ASSUME SafetyInv, IntentKept, AgentsInv,
                      NEW m \in AttemptNumber, NEW n \in AttemptNumber, m < n,
                      agent[m] \in {"working", "blocked"}, agent[n] \in {"working", "blocked"}
               PROVE  FALSE
    BY DEF OneAgentAtWork, AttemptNumber
  <2>1. attempts[n].preflight
    BY DEF IntentKept, IntentBeforeAgent
  <2>2. attempts[n].state # "absent"
    BY <2>1 DEF SafetyInv, RowsInv, RowsSound, RowSound
  <2>3. m < lastAttempt
    BY <2>2 DEF SafetyInv, RowsInv, AttemptHistory, AttemptNumber, TypeInv, TypeOK, StoreTypeOK
  <2>4. Stopped(m)
    BY <2>3 DEF SafetyInv, RowsInv, AttemptHistory, AgentsInv, RowsKnowAgents
  <2> QED BY <2>4 DEF Stopped
<1>2. SafetyInv /\ SafetyInv' /\ AgentsInv /\ [Next]_vars => AgentsInv'
  BY AgentsStep
<1>3. Init => IntentKept
  BY DEF Init, HerdrInit, IntentKept, IntentBeforeAgent, Dispatching
<1> QED BY <1>1, <1>2, <1>3, IntentStep, AgentsInit, InitSafe, SafetyStep, PTL DEF Spec
=============================================================================
