--------------------- MODULE ExecutionProjection_proofs ---------------------
(***************************************************************************)
(* How an execution's end is told in Linear: only once it is settled and   *)
(* before it counts as told, whatever the faults; once and with the right  *)
(* label, as long as no lease lapses under a run.  And the refinement of   *)
(* ExecutionLifecycle, which promises the first of these.                  *)
(***************************************************************************)
EXTENDS ExecutionSafety_proofs

-----------------------------------------------------------------------------
(* The end is told *)

\* The calls of project.
Projecting == {"record_pending", "find", "comment", "labels", "record_applied"}

\* What a run that projects, or is about to write an attempt, knows.
TellerSound(p) ==
  /\ pc[p] \in Projecting => attempts[Number(p)].state \in SettledExecutionStates
  /\ pc[p] = "record_pending" => Copy(p).projection = "none"
  /\ pc[p] \in {"labels", "record_applied"} => comments[Number(p)] > 0
  /\ pc[p] \in {"record_status", "commit"} => intent[p].row.projection = Copy(p).projection

ProjectionInv == CommentTellsTheEnd /\ \A p \in Proc : TellerSound(p)

LEMMA ProjectingNumber ==
  ASSUME SafetyInv, NEW p \in Proc,
         pc[p] \in Projecting \cup {"record_workspace", "record_handle", "record_status", "commit"}
  PROVE  Number(p) \in AttemptNumber
BY LoadedCopy DEF SafetyInv, Projecting, PhasePc, Pc

LEMMA CommentsTyped ==
  ASSUME SafetyInv, NEW n \in AttemptNumber
  PROVE  comments[n] \in Nat
BY DEF SafetyInv, TypeInv, TypeOK

\* Settled attempts stay settled.
LEMMA SettledRemains ==
  ASSUME SafetyInv, [Next]_vars, NEW n \in AttemptNumber,
         attempts[n].state \in SettledExecutionStates
  PROVE  attempts'[n].state = attempts[n].state
<1>1. \A r, t \in Attempt : OnlyProjected(r, t) => t.state = r.state
  <2> SUFFICES ASSUME NEW r \in Attempt, NEW t \in Attempt, OnlyProjected(r, t)
               PROVE  t.state = r.state
    OBVIOUS
  <2>1. [t EXCEPT !.projection = r.projection].state = t.state
    BY DEF Attempt
  <2> QED BY <2>1 DEF OnlyProjected
<1>2. SafetyInv'
  BY SafetyStep
<1>3. attempts[n] \in Attempt /\ attempts'[n] \in Attempt
  BY <1>2 DEF SafetyInv, TypeInv, TypeOK, StoreTypeOK
<1> QED BY <1>1, <1>3, RowsProgress DEF Progress

\* Who writes a comment: a run that has read a settled attempt.
LEMMA CommentsMove ==
  ASSUME SafetyInv, [Next]_vars
  PROVE  \/ comments' = comments
         \/ \E p \in Proc :
              /\ CreateComment(p) \/ CommentResponseLost(p)
              /\ Number(p) \in AttemptNumber
              /\ comments' = [comments EXCEPT ![Number(p)] = @ + 1]
<1>1. ASSUME NEW p \in Proc, Acts(p), ~CreateComment(p), ~CommentResponseLost(p)
      PROVE  comments' = comments
  BY <1>1 DEF Acts, RunStep, RunFault, Acquire, LoadNothing, LoadAttempt, Release,
              ClearGateLabels, Create, RecordWorkspace, Provision, Preflight, Reload,
              RecordHandle, Start, StartNewAgent, Prompt, Poll, RecordStatus, Collect, Commit,
              RecordPending, FindComment, ApplyLabels, RecordApplied, FenceRejected,
              PromptResponseLost, Throws, ThrowsCaught, Crash, linearVars
<1>2. ASSUME NEW p \in Proc, CreateComment(p) \/ CommentResponseLost(p)
      PROVE  /\ Number(p) \in AttemptNumber
             /\ comments' = [comments EXCEPT ![Number(p)] = @ + 1]
  BY <1>2, ProjectingNumber DEF CreateComment, CommentResponseLost, Projecting
<1>3. CASE (\E n \in AttemptNumber : Agents(n) \/ Vanish(n)) \/ Expire \/ Lapse \/ UNCHANGED vars
  BY <1>3 DEF Agents, Vanish, Expire, Lapse, LeaseLapses, vars, linearVars
<1> QED BY <1>1, <1>2, <1>3 DEF Next, Acts

LEMMA CommentsStay ==
  ASSUME SafetyInv, [Next]_vars, NEW n \in AttemptNumber, comments[n] > 0
  PROVE  comments'[n] > 0
BY CommentsMove, CommentsTyped DEF SafetyInv, TypeInv, TypeOK

\* What each step does to the projection of attempt n.
LEMMA ProjectionMoves ==
  ASSUME SafetyInv, ProjectionInv, [Next]_vars, NEW n \in AttemptNumber
  PROVE  \/ attempts'[n].projection = attempts[n].projection
         \/ \E p \in Proc : /\ Create(p) /\ n = lastAttempt + 1
                            /\ attempts[n].state = "absent" /\ attempts'[n].projection = "none"
         \/ \E p \in Proc : /\ RecordPending(p) /\ n = Number(p)
                            /\ attempts[n].projection = "none"
                            /\ attempts'[n].projection = "pending"
         \/ \E p \in Proc : /\ RecordApplied(p) /\ n = Number(p)
                            /\ attempts'[n].projection = "applied"
<1>0. \A m \in AttemptNumber : attempts[m] \in Attempt
  BY DEF SafetyInv, TypeInv, TypeOK, StoreTypeOK
<1>1. ASSUME NEW p \in Proc, RecordWorkspace(p) \/ RecordHandle(p) \/ RecordStatus(p)
      PROVE  attempts'[n].projection = attempts[n].projection
  <2>1. PICK row : PatchExecutionAttempt(p, row) /\ row.projection = Copy(p).projection
    <3>1. Copy(p) \in Attempt
      BY LoadedCopy DEF SafetyInv
    <3>2. RecordStatus(p) => intent[p].row.projection = Copy(p).projection
      BY DEF RecordStatus, ProjectionInv, TellerSound
    <3> QED BY <1>1, <3>1, <3>2 DEF RecordWorkspace, RecordHandle, RecordStatus, Attempt
  <2>2. attempts' = [attempts EXCEPT ![Number(p)] = row] /\ Copy(p) = attempts[Number(p)]
    BY <2>1 DEF PatchExecutionAttempt, AttemptFence, ProjectionFence, SafetyInv, RowsInv,
                FreshCopyIsRow, Number, Copy
  <2> QED BY <2>1, <2>2 DEF SafetyInv, TypeInv, TypeOK, StoreTypeOK
<1>2. ASSUME NEW p \in Proc, Commit(p)
      PROVE  attempts'[n].projection = attempts[n].projection
  <2> DEFINE moved == [intent[p].row EXCEPT !.state = NextState(Copy(p).state, intent[p].event)]
  <2>1. attempts' = [attempts EXCEPT ![Number(p)] = moved] /\ Copy(p) = attempts[Number(p)]
    BY <1>2 DEF Commit, TransitionExecutionAttempt, AttemptFence, ProjectionFence, SafetyInv,
                RowsInv, FreshCopyIsRow, Number, Copy
  <2>2. moved.projection = Copy(p).projection
    <3>1. intent[p].row.projection = Copy(p).projection
      BY <1>2 DEF Commit, ProjectionInv, TellerSound
    <3>2. intent[p].row \in Attempt
      BY IntentTyped DEF SafetyInv
    <3>3. \A r \in Attempt : \A t : [r EXCEPT !.state = t].projection = r.projection
      BY DEF Attempt
    <3> QED BY <3>1, <3>2, <3>3
  <2> HIDE DEF moved
  <2> QED BY <2>1, <2>2 DEF SafetyInv, TypeInv, TypeOK, StoreTypeOK
<1>3. ASSUME NEW p \in Proc, RecordPending(p) \/ RecordApplied(p), n # Number(p)
      PROVE  attempts'[n].projection = attempts[n].projection
  BY <1>3 DEF RecordPending, RecordApplied, SaveExecutionProjection, Number, SafetyInv, TypeInv,
              TypeOK, StoreTypeOK
<1>4. ASSUME NEW p \in Proc, RecordPending(p), n = Number(p)
      PROVE  attempts[n].projection = "none" /\ attempts'[n].projection = "pending"
  <2>1. Copy(p) = attempts[n] /\ Copy(p).projection = "none"
    BY <1>4 DEF RecordPending, SaveExecutionProjection, ProjectionFence, SafetyInv, RowsInv,
                FreshCopyIsRow, Number, Copy, ProjectionInv, TellerSound
  <2>2. attempts'[n] = [attempts[n] EXCEPT !.projection = "pending"]
    BY <1>4 DEF RecordPending, SaveExecutionProjection, Number, SafetyInv, TypeInv, TypeOK,
                StoreTypeOK
  <2> QED BY <1>0, <2>1, <2>2 DEF Attempt
<1>5. ASSUME NEW p \in Proc, RecordApplied(p), n = Number(p)
      PROVE  attempts'[n].projection = "applied"
  <2>1. attempts'[n] = [attempts[n] EXCEPT !.projection = "applied"]
    BY <1>5 DEF RecordApplied, SaveExecutionProjection, Number, SafetyInv, TypeInv, TypeOK,
                StoreTypeOK
  <2> QED BY <1>0, <2>1 DEF Attempt
<1>6. ASSUME NEW p \in Proc, Create(p), n # lastAttempt + 1
      PROVE  attempts'[n] = attempts[n]
  BY <1>6 DEF Create, CreateExecutionAttempt, SafetyInv, TypeInv, TypeOK, StoreTypeOK
<1>7. ASSUME NEW p \in Proc, Create(p), n = lastAttempt + 1
      PROVE  attempts[n].state = "absent" /\ attempts'[n].projection = "none"
  <2>1. attempts'[n] = NewAttempt
    BY <1>7 DEF Create, CreateExecutionAttempt, SafetyInv, TypeInv, TypeOK, StoreTypeOK
  <2>2. attempts[n].state = "absent"
    BY <1>7 DEF SafetyInv, RowsInv, AttemptHistory, TypeInv, TypeOK, StoreTypeOK, AttemptNumber
  <2> QED BY <2>1, <2>2 DEF NewAttempt, AbsentAttempt
<1>8. ASSUME NEW p \in Proc, Acts(p), ~Commit(p), ~RecordWorkspace(p), ~RecordHandle(p),
             ~RecordStatus(p), ~RecordPending(p), ~RecordApplied(p), ~Create(p)
      PROVE  UNCHANGED attempts
  BY <1>8, RowsWrittenBy
<1>9. CASE (\E m \in AttemptNumber : Agents(m) \/ Vanish(m)) \/ Expire \/ Lapse \/ UNCHANGED vars
  BY <1>9 DEF Agents, Vanish, Expire, Lapse, LeaseLapses, vars, storeVars
<1> QED BY <1>1, <1>2, <1>3, <1>4, <1>5, <1>6, <1>7, <1>8, <1>9 DEF Next, Acts

LEMMA CommentTellsTheEndStep ==
  ASSUME SafetyInv, ProjectionInv, [Next]_vars
  PROVE  CommentTellsTheEnd'
<1> SUFFICES ASSUME NEW n \in AttemptNumber
             PROVE  /\ comments'[n] > 0 => attempts'[n].state \in SettledExecutionStates
                    /\ attempts'[n].projection = "applied" => comments'[n] > 0
  BY DEF CommentTellsTheEnd
<1>1. comments'[n] > 0 => attempts'[n].state \in SettledExecutionStates
  <2> SUFFICES ASSUME comments'[n] > 0 PROVE attempts[n].state \in SettledExecutionStates
    BY SettledRemains
  <2>1. CASE comments'[n] = comments[n]
    BY <2>1 DEF ProjectionInv, CommentTellsTheEnd
  <2>2. CASE \E p \in Proc : (CreateComment(p) \/ CommentResponseLost(p)) /\ Number(p) = n
    BY <2>2 DEF CreateComment, CommentResponseLost, ProjectionInv, TellerSound, Projecting
  <2> QED BY <2>1, <2>2, CommentsMove DEF SafetyInv, TypeInv, TypeOK
<1>2. attempts'[n].projection = "applied" => comments'[n] > 0
  <2> SUFFICES ASSUME attempts'[n].projection = "applied" PROVE comments[n] > 0
    BY CommentsStay
  <2>1. CASE attempts'[n].projection = attempts[n].projection
    BY <2>1 DEF ProjectionInv, CommentTellsTheEnd
  <2>2. CASE \E p \in Proc : RecordApplied(p) /\ n = Number(p)
    BY <2>2 DEF RecordApplied, ProjectionInv, TellerSound
  <2> QED BY <2>1, <2>2, ProjectionMoves
<1> QED BY <1>1, <1>2

\* What a run prepares to write has the projection of the copy it read.
KeepsProjection(p) ==
  pc[p] \in {"record_status", "commit"} => intent[p].row.projection = Copy(p).projection

LEMMA IntendsProjection ==
  ASSUME SafetyInv, NEW p \in Proc, NEW event, NEW row, Intend(p, event, row),
         row.projection = attemptCopy'[p].row.projection
  PROVE  KeepsProjection(p)'
BY DEF Intend, KeepsProjection, Copy, SafetyInv, TypeInv, TypeOK

LEMMA AskingKeepsProjection ==
  ASSUME SafetyInv, NEW p \in Proc, NEW row \in Attempt, IntendNeedsHuman(p, row),
         row.projection = attemptCopy'[p].row.projection
  PROVE  KeepsProjection(p)'
<1>1. [row EXCEPT !.retryEligible = FALSE].projection = row.projection
  BY DEF Attempt
<1> QED BY <1>1, IntendsProjection DEF IntendNeedsHuman, NeedsHuman

LEMMA ProjectionKept ==
  ASSUME SafetyInv, NEW p \in Proc, Acts(p)
  PROVE  KeepsProjection(p)'
<1>1. Copy(p) \in Attempt
  BY LoadedCopy DEF SafetyInv
<1>2. CASE LoadAttempt(p)
  <2> DEFINE row == attempts[work.current]
  <2>1. row \in Attempt /\ attemptCopy'[p].row = row
    BY <1>2, ReadKeepsRows DEF LoadAttempt, SafetyInv, TypeInv, TypeOK, StoreTypeOK
  <2>2. CASE IntendNeedsHuman(p, row)
    BY <2>1, <2>2, AskingKeepsProjection
  <2>3. PhaseOf(row) \notin {"record_status", "commit"}
    BY PhasePrepared
  <2> HIDE DEF row
  <2>4. CASE Goto(p, EntryOfPlanned(p)) \/ Goto(p, "release") \/ Goto(p, PhaseOf(row))
    BY <2>3, <2>4 DEF Goto, EntryOfPlanned, KeepsProjection, SafetyInv, TypeInv, TypeOK
  <2> QED BY <1>2, <2>2, <2>4 DEF LoadAttempt, row
<1>3. CASE Reload(p)
  <2> DEFINE row == attempts[work.current]
  <2>1. row \in Attempt /\ attemptCopy'[p].row = row
    BY <1>3, ReadKeepsRows DEF Reload, SafetyInv, TypeInv, TypeOK, StoreTypeOK
  <2>2. [row EXCEPT !.preflight = TRUE].projection = row.projection
    BY <2>1 DEF Attempt
  <2>3. CASE pc' = [pc EXCEPT ![p] = "release"]
    BY <2>3 DEF KeepsProjection, SafetyInv, TypeInv, TypeOK
  <2> QED BY <1>3, <2>1, <2>2, <2>3, IntendsProjection, AskingKeepsProjection DEF Reload
<1>4. CASE Provision(p) \/ Start(p) \/ StartNewAgent(p) \/ Prompt(p) \/ PromptResponseLost(p)
           \/ ThrowsCaught(p)
  <2>1. attemptCopy' = attemptCopy
    BY <1>4 DEF Provision, Start, StartNewAgent, Prompt, PromptResponseLost, ThrowsCaught,
                storeVars
  <2>2. CASE Goto(p, "start_agent") \/ Goto(p, "prompt")
    BY <2>2 DEF Goto, KeepsProjection, SafetyInv, TypeInv, TypeOK
  <2>3. CASE \E event : Intend(p, event, Copy(p))
    BY <2>1, <2>3, IntendsProjection DEF Copy
  <2>4. CASE IntendNeedsHuman(p, Copy(p))
    BY <1>1, <2>1, <2>4, AskingKeepsProjection DEF Copy
  <2> QED BY <1>4, <2>2, <2>3, <2>4
          DEF Provision, Start, StartNewAgent, Prompt, PromptResponseLost, ThrowsCaught
<1>5. CASE Poll(p)
  <2>1. PICK s : LET seen == Observe(Copy(p), s)
                 IN \/ IntendNeedsHuman(p, seen) \/ Intend(p, "EXECUTOR_TERMINAL", seen)
                    \/ /\ pc' = [pc EXCEPT ![p] = "record_status"]
                       /\ intent' = [intent EXCEPT ![p].row = seen]
    BY <1>5 DEF Poll
  <2>2. Observe(Copy(p), s).projection = Copy(p).projection /\ attemptCopy' = attemptCopy
    BY <1>1, <1>5 DEF Observe, Attempt, Poll, storeVars
  <2>3. [Observe(Copy(p), s) EXCEPT !.retryEligible = FALSE].projection = Copy(p).projection
    BY <1>1 DEF Observe, Attempt
  <2> DEFINE seen == Observe(Copy(p), s)
  <2>4. seen.projection = Copy(p).projection
        /\ [seen EXCEPT !.retryEligible = FALSE].projection = Copy(p).projection
    BY <2>2, <2>3
  <2> HIDE DEF seen
  <2>5. CASE IntendNeedsHuman(p, seen) \/ Intend(p, "EXECUTOR_TERMINAL", seen)
    BY <2>2, <2>4, <2>5, IntendsProjection DEF IntendNeedsHuman, NeedsHuman, Copy
  <2>6. CASE /\ pc' = [pc EXCEPT ![p] = "record_status"]
             /\ intent' = [intent EXCEPT ![p].row = seen]
    BY <2>2, <2>4, <2>6 DEF KeepsProjection, Copy, SafetyInv, TypeInv, TypeOK, Intent
  <2> QED BY <2>1, <2>5, <2>6 DEF seen
<1>6. CASE Collect(p)
  <2>1. attemptCopy' = attemptCopy
    BY <1>6 DEF Collect, storeVars
  <2>2. \A r \in Attempt : \A o, v, e :
          [r EXCEPT !.outcome = o, !.verified = v, !.retryEligible = e].projection = r.projection
    BY DEF Attempt
  <2>3. CASE \E event, o, v, e : Intend(p, event, [Copy(p) EXCEPT
                 !.outcome = o, !.verified = v, !.retryEligible = e])
    <3>1. PICK event, o, v, e : Intend(p, event, [Copy(p) EXCEPT
                 !.outcome = o, !.verified = v, !.retryEligible = e])
      BY <2>3
    <3> DEFINE row == [Copy(p) EXCEPT !.outcome = o, !.verified = v, !.retryEligible = e]
    <3>2. row.projection = Copy(p).projection
      BY <1>1, <2>2
    <3> HIDE DEF row
    <3>3. Intend(p, event, row)
      BY <3>1 DEF row
    <3> QED BY <2>1, <3>2, <3>3, IntendsProjection DEF Copy
  <2>4. CASE IntendNeedsHuman(p, Copy(p))
    BY <1>1, <2>1, <2>4, AskingKeepsProjection DEF Copy
  <2> QED BY <1>6, <2>3, <2>4 DEF Collect
<1>7. CASE pc'[p] \notin {"record_status", "commit"}
  BY <1>7 DEF KeepsProjection
<1> QED BY <1>2, <1>3, <1>4, <1>5, <1>6, <1>7
        DEF Acts, RunStep, RunFault, Acquire, LoadNothing, EntryOfPlanned, Release,
            ClearGateLabels, Create, RecordWorkspace, Preflight, RecordHandle, RecordStatus,
            Commit, RecordPending, FindComment, CreateComment, ApplyLabels, RecordApplied,
            FenceRejected, CommentResponseLost, Throws, Crash, Goto, SafetyInv, TypeInv, TypeOK

\* A run projects the attempt it has loaded, one call after the other.
LEMMA BeginsProjection ==
  ASSUME SafetyInv, NEW p \in Proc, Acts(p), pc'[p] \in Projecting
  PROVE  \/ /\ LoadAttempt(p)
            /\ pc'[p] = PhaseOf(attempts[work.current]) /\ pc'[p] \in {"record_pending", "find"}
         \/ RecordPending(p) /\ pc'[p] = "find"
         \/ FindComment(p) /\ pc'[p] = "comment"
         \/ FindComment(p) /\ pc'[p] = "labels" /\ comments[Number(p)] > 0
         \/ CreateComment(p) /\ pc'[p] = "labels"
         \/ ApplyLabels(p) /\ pc'[p] = "record_applied"
<1>1. CASE LoadAttempt(p)
  <2>1. pc'[p] \in {EntryOfPlanned(p), "release", "commit", PhaseOf(attempts[work.current])}
    BY <1>1 DEF LoadAttempt, Goto, IntendNeedsHuman, Intend, SafetyInv, TypeInv, TypeOK
  <2>2. EntryOfPlanned(p) \notin Projecting
    BY DEF EntryOfPlanned, Projecting
  <2>3. \A row : PhaseOf(row) \in Projecting => PhaseOf(row) \in {"record_pending", "find"}
    BY DEF PhaseOf, Projecting
  <2> QED BY <1>1, <2>1, <2>2, <2>3 DEF Projecting
<1>2. CASE RecordPending(p) \/ FindComment(p) \/ CreateComment(p) \/ ApplyLabels(p)
  BY <1>2 DEF RecordPending, FindComment, CreateComment, ApplyLabels, Goto, Projecting,
              SafetyInv, TypeInv, TypeOK
<1>3. ~Poll(p)
  BY DEF Poll, Intend, IntendNeedsHuman, Projecting, SafetyInv, TypeInv, TypeOK
<1>4. ~Collect(p) /\ ~Preflight(p)
  BY DEF Collect, Preflight, Intend, IntendNeedsHuman, Projecting, SafetyInv, TypeInv, TypeOK
<1>5. ~LoadNothing(p) /\ ~Acquire(p) /\ ~Release(p) /\ ~ClearGateLabels(p) /\ ~Create(p)
      /\ ~RecordWorkspace(p) /\ ~Provision(p) /\ ~Reload(p) /\ ~RecordHandle(p)
  BY DEF LoadNothing, EntryOfPlanned, Acquire, Release, ClearGateLabels, Create, RecordWorkspace,
         Provision, Reload, RecordHandle, Goto, Intend, IntendNeedsHuman, Projecting,
         SafetyInv, TypeInv, TypeOK
<1>6. ~Start(p) /\ ~StartNewAgent(p) /\ ~Prompt(p) /\ ~RecordStatus(p) /\ ~Commit(p)
      /\ ~RecordApplied(p) /\ ~FenceRejected(p)
  BY DEF Start, StartNewAgent, Prompt, RecordStatus, Commit, RecordApplied, FenceRejected, Goto,
         Intend, IntendNeedsHuman, Projecting, SafetyInv, TypeInv, TypeOK
<1>7. ~RunFault(p)
  BY DEF RunFault, PromptResponseLost, CommentResponseLost, Throws, ThrowsCaught, Crash, Goto,
         Intend, IntendNeedsHuman, Projecting, SafetyInv, TypeInv, TypeOK
<1> QED BY <1>1, <1>2, <1>3, <1>4, <1>5, <1>6, <1>7 DEF Acts, RunStep

LEMMA TellerActs ==
  ASSUME SafetyInv, SafetyInv', ProjectionInv, [Next]_vars, NEW p \in Proc, Acts(p)
  PROVE  TellerSound(p)'
<1> DEFINE n == Number(p)
<1>1. KeepsProjection(p)'
  BY ProjectionKept
<1>2. CASE /\ LoadAttempt(p)
           /\ pc'[p] = PhaseOf(attempts[work.current]) /\ pc'[p] \in {"record_pending", "find"}
  <2> DEFINE row == attempts[work.current]
  <2>1. /\ UNCHANGED attempts
        /\ attemptCopy'[p].n = work.current /\ attemptCopy'[p].row = row
    BY <1>2, ReadKeepsRows DEF LoadAttempt
  <2>2. /\ row.state \in SettledExecutionStates
        /\ pc'[p] = "record_pending" => row.projection = "none"
    BY <1>2 DEF PhaseOf, SettledExecutionStates
  <2> HIDE DEF row
  <2>3. attempts'[work.current] = row
    BY <2>1 DEF row
  <2> QED BY <1>1, <1>2, <2>1, <2>2, <2>3 DEF TellerSound, KeepsProjection, Number, Copy
<1>3. CASE pc[p] \in Projecting /\ attemptCopy'[p].n = n /\ pc'[p] # "record_pending"
           /\ (pc'[p] \in {"labels", "record_applied"} => comments'[n] > 0)
  <2>1. attempts'[n].state \in SettledExecutionStates
    BY <1>3, ProjectingNumber, SettledRemains DEF ProjectionInv, TellerSound
  <2> QED BY <1>1, <1>3, <2>1 DEF TellerSound, KeepsProjection, Number
<1>4. ASSUME RecordPending(p), pc'[p] = "find"
      PROVE  pc[p] \in Projecting /\ attemptCopy'[p].n = n
  <2>1. PICK row : BumpAttempt(p, n, row)
    BY <1>4 DEF RecordPending, SaveExecutionProjection, Number
  <2> QED BY <1>4, <2>1, OthersKeepCopies DEF RecordPending, Projecting, SafetyInv
<1>5. ASSUME FindComment(p) \/ CreateComment(p) \/ ApplyLabels(p)
      PROVE  pc[p] \in Projecting /\ attemptCopy'[p].n = n
  BY <1>5 DEF FindComment, CreateComment, ApplyLabels, Projecting, storeVars, Number
<1>6. CreateComment(p) => comments'[n] > 0
  BY ProjectingNumber, CommentsTyped DEF CreateComment, Projecting, SafetyInv, TypeInv, TypeOK
<1>7. ApplyLabels(p) => comments'[n] > 0
  BY DEF ApplyLabels, ProjectionInv, TellerSound
<1>8. FindComment(p) => comments' = comments
  BY DEF FindComment, linearVars
<1>9. CASE pc'[p] \notin Projecting
  BY <1>1, <1>9 DEF TellerSound, KeepsProjection, Projecting
<1>10. CASE pc'[p] \in Projecting
  BY <1>2, <1>3, <1>4, <1>5, <1>6, <1>7, <1>8, <1>10, BeginsProjection
<1> QED BY <1>9, <1>10

LEMMA TellerStands ==
  ASSUME SafetyInv, ProjectionInv, [Next]_vars, NEW p \in Proc, Stands(p)
  PROVE  TellerSound(p)'
<1>1. pc[p] \in Projecting => Number(p) \in AttemptNumber
  BY ProjectingNumber
<1>2. pc[p] \in Projecting => attempts'[Number(p)].state \in SettledExecutionStates
  BY <1>1, SettledRemains DEF ProjectionInv, TellerSound
<1>3. pc[p] \in {"labels", "record_applied"} => comments'[Number(p)] > 0
  BY <1>1, CommentsStay DEF ProjectionInv, TellerSound, Projecting
<1> QED BY <1>2, <1>3 DEF Stands, ProjectionInv, TellerSound, Number, Copy

LEMMA ProjectionStep == SafetyInv /\ SafetyInv' /\ ProjectionInv /\ [Next]_vars => ProjectionInv'
BY CommentTellsTheEndStep, ActsOrStands, TellerActs, TellerStands DEF ProjectionInv

LEMMA ProjectionInit == Init => ProjectionInv
BY DEF Init, AbsentAttempt, CommentTellsTheEnd, ProjectionInv, TellerSound, Projecting

\* A run comments on an attempt only once it is settled, and records the
\* projection as applied only once the comment is there: a run that dies in
\* between leaves the attempt to be projected again.
THEOREM EndIsTold == Spec => []CommentTellsTheEnd
<1>1. ProjectionInv => CommentTellsTheEnd
  BY DEF ProjectionInv
<1> QED BY <1>1, ProjectionInit, ProjectionStep, InitSafe, SafetyStep, PTL DEF Spec

-----------------------------------------------------------------------------
(* The refinement *)

\* Only a creation and a commit move the work item.
LEMMA WorkMoves ==
  ASSUME SafetyInv, [Next]_vars
  PROVE  \/ UNCHANGED <<work.state, work.current, lastAttempt>>
         \/ \E p \in Proc : Create(p) \/ Commit(p)
<1>1. ASSUME NEW p \in Proc, Acts(p), ~Create(p), ~Commit(p)
      PROVE  UNCHANGED <<work.state, work.current, lastAttempt>>
  BY <1>1 DEF Acts, RunStep, RunFault, Acquire, AcquireLease, LoadNothing, LoadAttempt, Release,
              ReleaseLease, ClearGateLabels, RecordWorkspace, Provision, Preflight, Reload,
              RecordHandle, Start, StartNewAgent, Prompt, Poll, RecordStatus, Collect,
              RecordPending, FindComment, CreateComment, ApplyLabels, RecordApplied,
              FenceRejected, PromptResponseLost, CommentResponseLost, Throws, ThrowsCaught,
              Crash, PatchExecutionAttempt, SaveExecutionProjection, storeVars,
              SafetyInv, TypeInv, TypeOK, StoreTypeOK, Work
<1>2. CASE (\E n \in AttemptNumber : Agents(n) \/ Vanish(n)) \/ Expire \/ Lapse \/ UNCHANGED vars
  BY <1>2 DEF Agents, Vanish, Expire, Lapse, LeaseLapses, vars, storeVars, SafetyInv, TypeInv,
              TypeOK, StoreTypeOK, Work
<1> QED BY <1>1, <1>2 DEF Next, Acts

\* The current attempt is the last one and has the state of the work item.
LEMMA CurrentAttempt ==
  ASSUME SafetyInv
  PROVE  /\ work.current = lastAttempt /\ lastAttempt \in 0..AttemptBound
         /\ work.current = 0 => work.state = "action_planned"
         /\ work.current # 0 => /\ work.current \in AttemptNumber
                                /\ attempts[work.current].state = work.state
                                /\ work.state \in ExecutionStates
<1>1. work.current = lastAttempt /\ lastAttempt \in 0..AttemptBound
  BY DEF SafetyInv, RowsInv, AttemptHistory, TypeInv, TypeOK, StoreTypeOK
<1>2. CASE work.current # 0
  <2>1. work.current \in AttemptNumber
    BY <1>1, <1>2, AttemptBoundAssumption DEF AttemptNumber
  <2>2. attempts[work.current].state = work.state /\ attempts[work.current] \in Attempt
    BY <1>2, <2>1 DEF SafetyInv, RowsInv, AttemptAgreement, TypeInv, TypeOK, StoreTypeOK
  <2>3. work.state # "absent"
    BY DEF SafetyInv, TypeInv, TypeOK, StoreTypeOK, Work, MastermindState, On
  <2> QED BY <1>1, <1>2, <2>1, <2>2, <2>3 DEF Attempt
<1> QED BY <1>1, <1>2 DEF SafetyInv, RowsInv, AttemptAgreement

LEMMA UntoldIsUnpublished ==
  SafetyInv /\ ProjectionInv /\ work.state \notin SettledExecutionStates => ~Published
BY CurrentAttempt DEF Published, ProjectionInv, CommentTellsTheEnd, CommentsTyped

LEMMA CreateUnpublished ==
  ASSUME SafetyInv, SafetyInv', ProjectionInv, ProjectionInv', NEW p \in Proc, Create(p)
  PROVE  ~Published /\ ~Published'
<1>1. work.state \in {"action_planned", "retry_wait"} /\ work'.state = "provisioning"
  BY DEF Create, CreateExecutionAttempt, CreationFence, SafetyInv, TypeInv, TypeOK,
         StoreTypeOK, Work
<1>2. ~Published
  BY <1>1, UntoldIsUnpublished DEF SettledExecutionStates
<1>3. ~Published'
  <2>1. (work.state \notin SettledExecutionStates)'
    BY <1>1 DEF SettledExecutionStates
  <2> QED BY <2>1, UntoldIsUnpublished, PTL
<1> QED BY <1>2, <1>3

LEMMA CreateBegins ==
  ASSUME SafetyInv, SafetyInv', ProjectionInv, ProjectionInv', NEW p \in Proc, Create(p)
  PROVE  Lifecycle!Begin
<1>1. /\ work.state \in {"action_planned", "retry_wait"} /\ work'.state = "provisioning"
      /\ lastAttempt' = lastAttempt + 1
      /\ comments' = comments
  BY DEF Create, CreateExecutionAttempt, CreationFence, linearVars, SafetyInv, TypeInv, TypeOK,
         StoreTypeOK, Work
<1>3. ~Published /\ ~Published'
  BY CreateUnpublished
<1>4. PhaseOfWork \in {"planned", "waiting"} /\ PhaseOfWork' = "attempting"
  BY <1>1 DEF PhaseOfWork, ActiveExecutionStates
<1>5. Announced' = Announced
  BY <1>1 DEF Announced
<1>6. Published' = Published
  BY <1>3 DEF Published
<1> QED BY <1>1, <1>4, <1>5, <1>6 DEF Lifecycle!Begin

\* Nothing but a person can end an execution that waits for a retry.
LEMMA WaitingIsGivenUp ==
  ASSUME NEW e \in ExecutionEvents \cup {"none"}, Accepts("retry_wait", e)
  PROVE  NextState("retry_wait", e) = "needs_human"
BY DEF Accepts, NextState, On, ExecutionEvents

LEMMA RetryBelowLimit ==
  ASSUME SafetyInv, NEW p \in Proc, Commit(p), intent[p].event = "EXECUTION_RETRYABLE"
  PROVE  lastAttempt < MaxAttempts
<1>1. Number(p) = work.current
  BY CommitMoves
<1>2. Number(p) < MaxAttempts
  BY DEF Commit, SafetyInv, Prepared, Committable
<1> QED BY <1>1, <1>2, CurrentAttempt

LEMMA CommitUnpublished ==
  ASSUME SafetyInv, ProjectionInv, ProjectionInv', NEW p \in Proc, Commit(p)
  PROVE  ~Published /\ ~Published'
<1> DEFINE n == Number(p)
<1>1. /\ n \in AttemptNumber /\ n = work.current
      /\ attempts[n].state = work.state /\ work.state \notin SettledExecutionStates
  BY CommitMoves DEF Moves, SettledExecutionStates
<1>2. comments' = comments /\ work'.current = work.current
  BY DEF Commit, TransitionExecutionAttempt, linearVars, SafetyInv, TypeInv, TypeOK,
         StoreTypeOK, Work
<1>3. ~Published
  BY <1>1, UntoldIsUnpublished
<1>4. ~Published'
  BY <1>1, <1>2 DEF Published, ProjectionInv, CommentTellsTheEnd
<1> QED BY <1>3, <1>4

LEMMA CommitSettles ==
  ASSUME SafetyInv, ProjectionInv, ProjectionInv', NEW p \in Proc, Commit(p)
  PROVE  Lifecycle!Postpone \/ Lifecycle!Settle \/ UNCHANGED Lifecycle!lifecycleVars
<1> DEFINE n == Number(p)
           s == attempts[n].state
           e == intent[p].event
           t == NextState(s, e)
<1>1. /\ n \in AttemptNumber /\ n = work.current /\ s = work.state /\ s \in ExecutionStates
      /\ e \in ExecutionEvents \cup {"none"} /\ Accepts(s, e)
      /\ work'.state = t /\ Moves(s, e, t)
  BY CommitMoves
<1>2. comments' = comments /\ lastAttempt' = lastAttempt /\ work'.current = work.current
  BY DEF Commit, TransitionExecutionAttempt, linearVars, SafetyInv, TypeInv, TypeOK,
         StoreTypeOK, Work
<1>3. s \notin SettledExecutionStates
  BY <1>1 DEF Moves, SettledExecutionStates
<1>4. UNCHANGED <<lastAttempt, Announced, Published>>
  <2>1. ~Published /\ ~Published'
    BY CommitUnpublished
  <2> QED BY <1>2, <2>1 DEF Announced, Published
<1> HIDE DEF s, e, t, n
<1>5. CASE s \in ActiveExecutionStates /\ t \in ActiveExecutionStates
  BY <1>1, <1>4, <1>5 DEF PhaseOfWork, ActiveExecutionStates, Lifecycle!lifecycleVars
<1>6. CASE e = "EXECUTION_RETRYABLE" /\ s = "collecting" /\ t = "retry_wait"
  <2>1. lastAttempt < MaxAttempts
    BY <1>6, RetryBelowLimit DEF e
  <2>2. PhaseOfWork = "attempting" /\ PhaseOfWork' = "waiting"
    BY <1>1, <1>6 DEF PhaseOfWork, ActiveExecutionStates
  <2> QED BY <1>4, <2>1, <2>2 DEF Lifecycle!Postpone
<1>7. CASE s \in ActiveExecutionStates /\ t \in SettledExecutionStates
  <2>1. PhaseOfWork = "attempting"
    BY <1>1, <1>7 DEF PhaseOfWork, ActiveExecutionStates
  <2>2. PhaseOfWork' \in SettledExecutionStates
    BY <1>1, <1>7 DEF PhaseOfWork, ActiveExecutionStates, SettledExecutionStates
  <2> QED BY <1>4, <2>1, <2>2 DEF Lifecycle!Settle, Lifecycle!Disposition, SettledExecutionStates
<1>8. CASE s = "retry_wait"
  <2>1. t = "needs_human"
    BY <1>1, <1>8, WaitingIsGivenUp DEF t
  <2>2. PhaseOfWork = "waiting" /\ PhaseOfWork' = "needs_human"
    BY <1>1, <1>8, <2>1 DEF PhaseOfWork, ActiveExecutionStates
  <2> QED BY <1>4, <2>2 DEF Lifecycle!Settle
<1> QED BY <1>1, <1>3, <1>5, <1>6, <1>7, <1>8
        DEF Moves, ExecutionStates, ActiveExecutionStates, SettledExecutionStates

\* A comment is about the current attempt, as all earlier ones wait for ever.
LEMMA CommentAnnounces ==
  ASSUME SafetyInv, ProjectionInv, NEW p \in Proc, CreateComment(p) \/ CommentResponseLost(p)
  PROVE  Lifecycle!Announce
<1> DEFINE n == Number(p)
<1>1. /\ n \in AttemptNumber /\ comments' = [comments EXCEPT ![n] = @ + 1]
      /\ UNCHANGED <<work, attempts, lastAttempt>>
  BY ProjectingNumber DEF CreateComment, CommentResponseLost, Projecting, storeVars
<1>2. attempts[n].state \in SettledExecutionStates
  BY DEF CreateComment, CommentResponseLost, ProjectionInv, TellerSound, Projecting
<1>3. n = lastAttempt /\ work.state \in SettledExecutionStates
  <2>1. ~(n > lastAttempt) /\ ~(n < lastAttempt)
    BY <1>1, <1>2 DEF SafetyInv, RowsInv, AttemptHistory, SettledExecutionStates
  <2>2. n = lastAttempt /\ lastAttempt # 0
    BY <1>1, <2>1, CurrentAttempt, AttemptBoundAssumption DEF AttemptNumber
  <2> QED BY <1>2, <2>2, CurrentAttempt
<1>4. Announced' = Announced \cup {lastAttempt}
  <2>1. \A m \in AttemptNumber : comments'[m] > 0 <=> (comments[m] > 0 \/ m = n)
    BY <1>1, CommentsTyped DEF SafetyInv, TypeInv, TypeOK
  <2> QED BY <1>1, <1>3, <2>1 DEF Announced
<1>5. PhaseOfWork \in SettledExecutionStates
  BY <1>3 DEF PhaseOfWork, ActiveExecutionStates, SettledExecutionStates
<1>6. UNCHANGED <<PhaseOfWork, lastAttempt, Published>>
  BY <1>1 DEF PhaseOfWork, Published
<1> QED BY <1>4, <1>5, <1>6 DEF Lifecycle!Announce, Lifecycle!Disposition, SettledExecutionStates

LEMMA RecordAppliedPublishes ==
  ASSUME SafetyInv, ProjectionInv, NEW p \in Proc, RecordApplied(p)
  PROVE  Lifecycle!Publish
<1> DEFINE n == Number(p)
<1>1. /\ n \in AttemptNumber /\ n = work.current /\ UNCHANGED <<work, lastAttempt, comments>>
      /\ attempts' = [attempts EXCEPT ![n] = [attempts[n] EXCEPT !.projection = "applied"]]
  BY ProjectingNumber DEF RecordApplied, SaveExecutionProjection, ProjectionFence, Projecting,
                          Number, linearVars
<1>2. attempts[n].state \in SettledExecutionStates /\ comments[n] > 0
  BY DEF RecordApplied, ProjectionInv, TellerSound, Projecting
<1>3. Published'
  <2>1. attempts'[n].projection = "applied"
    BY <1>1 DEF SafetyInv, TypeInv, TypeOK, StoreTypeOK, Attempt
  <2> QED BY <1>1, <2>1 DEF Published, AttemptNumber
<1>4. lastAttempt \in Announced /\ work.state \in SettledExecutionStates
  BY <1>1, <1>2, CurrentAttempt DEF Announced, AttemptNumber
<1>5. PhaseOfWork \in SettledExecutionStates
  BY <1>4 DEF PhaseOfWork, ActiveExecutionStates, SettledExecutionStates
<1>6. UNCHANGED <<PhaseOfWork, lastAttempt, Announced>>
  BY <1>1 DEF PhaseOfWork, Announced
<1> QED BY <1>3, <1>4, <1>5, <1>6
        DEF Lifecycle!Publish, Lifecycle!Disposition, SettledExecutionStates, Published

LEMMA PublishedStays ==
  ASSUME SafetyInv, ProjectionInv, [Next]_vars, UNCHANGED work.current,
         \A p \in Proc : ~Create(p) /\ ~RecordApplied(p)
  PROVE  Published' = Published
<1>1. CASE work.current = 0
  BY <1>1 DEF Published
<1>2. CASE work.current # 0
  <2>1. work.current \in AttemptNumber
    BY <1>2, CurrentAttempt
  <2>2. attempts'[work.current].projection = "applied"
          <=> attempts[work.current].projection = "applied"
    BY <2>1, ProjectionMoves
  <2> QED BY <2>2 DEF Published
<1> QED BY <1>1, <1>2

LEMMA OthersStutter ==
  ASSUME SafetyInv, ProjectionInv, [Next]_vars,
         UNCHANGED <<work.state, work.current, lastAttempt>>, comments' = comments,
         \A p \in Proc : ~Create(p) /\ ~RecordApplied(p)
  PROVE  UNCHANGED Lifecycle!lifecycleVars
<1>1. Published' = Published
  BY PublishedStays
<1>2. PhaseOfWork' = PhaseOfWork /\ Announced' = Announced
  BY DEF PhaseOfWork, Announced
<1> QED BY <1>1, <1>2 DEF Lifecycle!lifecycleVars

LEMMA LifecycleStep ==
  SafetyInv /\ SafetyInv' /\ ProjectionInv /\ ProjectionInv' /\ [Next]_vars
    => [Lifecycle!Next]_(Lifecycle!lifecycleVars)
<1> SUFFICES ASSUME SafetyInv, SafetyInv', ProjectionInv, ProjectionInv', [Next]_vars
             PROVE  Lifecycle!Next \/ UNCHANGED Lifecycle!lifecycleVars
  OBVIOUS
<1>1. CASE \E p \in Proc : Create(p)
  BY <1>1, CreateBegins DEF Lifecycle!Next
<1>2. CASE \E p \in Proc : Commit(p)
  BY <1>2, CommitSettles DEF Lifecycle!Next
<1>3. CASE \E p \in Proc : CreateComment(p) \/ CommentResponseLost(p)
  BY <1>3, CommentAnnounces DEF Lifecycle!Next
<1>4. CASE \E p \in Proc : RecordApplied(p)
  BY <1>4, RecordAppliedPublishes DEF Lifecycle!Next
<1> QED BY <1>1, <1>2, <1>3, <1>4, WorkMoves, CommentsMove, OthersStutter

LEMMA LifecycleInit == Init => Lifecycle!Init
<1> SUFFICES ASSUME Init PROVE Lifecycle!Init
  OBVIOUS
<1>1. work.state = "action_planned" /\ work.current = 0 /\ lastAttempt = 0
  BY DEF Init
<1>2. PhaseOfWork = "planned"
  BY <1>1 DEF PhaseOfWork, ActiveExecutionStates
<1>3. Announced = {}
  BY DEF Init, Announced
<1>4. Published = FALSE
  BY <1>1 DEF Published
<1> QED BY <1>1, <1>2, <1>3, <1>4 DEF Lifecycle!Init

\* Whatever the runs, leases, faults and agents do to rows and comments, to the
\* outside it is one attempt after the other up to the limit, one disposition,
\* and an end that is told before it counts as told.
THEOREM ImplementsLifecycle == Spec => RefinesLifecycle
BY LifecycleInit, LifecycleStep, ProjectionInit, ProjectionStep, InitSafe, SafetyStep, PTL
DEF Spec, RefinesLifecycle, Lifecycle!Spec

-----------------------------------------------------------------------------
(* The end is told once and with its label, as long as no live lease lapses *)

\* The lease keeps runs apart.
Alone ==
  /\ \A p \in Proc : pc[p] # "idle" => HoldsLease(p)
  /\ \A p, q \in Proc : pc[p] # "idle" /\ pc[q] # "idle" => p = q

\* What the run that is alone knows.
LoneSound(p) ==
  /\ pc[p] = "leased" => workCopy[p] = CopyOfWork(work)
  /\ pc[p] \in {"begin", "retry"} => work.state \in {"action_planned", "retry_wait"}
  /\ pc[p] \in Projecting => Copy(p).state = work.state
  /\ pc[p] = "comment" => comments[Number(p)] = 0
  /\ pc[p] = "record_applied" => gate = LabelOf(Copy(p).state)

AloneInv ==
  /\ Alone /\ OneTerminalComment /\ GateLabelMatches
  /\ \A p \in Proc : LoneSound(p)

LEMMA ActiveIsAwake ==
  ASSUME NEW p \in Proc, RunStep(p) \/ RunFault(p)
  PROVE  pc[p] # "idle"
BY DEF RunStep, RunFault, LoadNothing, LoadAttempt, Release, ClearGateLabels, Create,
       RecordWorkspace, Provision, Preflight, Reload, RecordHandle, Start, StartNewAgent, Prompt,
       Poll, RecordStatus, Collect, Commit, RecordPending, FindComment, CreateComment,
       ApplyLabels, RecordApplied, FenceRejected, PromptResponseLost, CommentResponseLost,
       Throws, ThrowsCaught, Crash

LEMMA LeaseMoves ==
  ASSUME SafetyInv, NEW p \in Proc, RunStep(p) \/ RunFault(p), ~Release(p)
  PROVE  work'.owner = work.owner /\ work'.live = work.live
BY DEF RunStep, RunFault, LoadNothing, LoadAttempt, ClearGateLabels, Create,
       RecordWorkspace, Provision, Preflight, Reload, RecordHandle, Start, StartNewAgent, Prompt,
       Poll, RecordStatus, Collect, Commit, RecordPending, FindComment, CreateComment,
       ApplyLabels, RecordApplied, FenceRejected, PromptResponseLost, CommentResponseLost,
       Throws, ThrowsCaught, Crash, CreateExecutionAttempt, PatchExecutionAttempt,
       TransitionExecutionAttempt, SaveExecutionProjection, storeVars,
       SafetyInv, TypeInv, TypeOK, StoreTypeOK, Work

\* A run that acts finds all others idle and leaves them so.
LEMMA OthersSleep ==
  ASSUME SafetyInv, Alone, NEW p \in Proc, Acts(p), NEW q \in Proc, q # p
  PROVE  pc[q] = "idle" /\ pc'[q] = "idle"
<1>1. pc[q] = "idle"
  <2>1. CASE Acquire(p)
    BY <2>1, StoreAssumption DEF Acquire, AcquireLease, LeaseFree, HoldsLease, Alone
  <2>2. CASE RunStep(p) \/ RunFault(p)
    BY <2>2, ActiveIsAwake DEF Alone
  <2> QED BY <2>1, <2>2 DEF Acts
<1> QED BY <1>1, OthersStand DEF Stands

\* The steps that are not a run's, when leases do not lapse.
Around ==
  /\ UNCHANGED <<work.state, work.planned, work.current, attempts, workCopy, attemptCopy, pc,
                 intent, linearVars>>
  /\ \A p \in Proc : pc[p] # "idle" /\ HoldsLease(p) => HoldsLease(p)'

LEMMA WhoMoves ==
  ASSUME "lapse" \notin FaultKinds, SafetyInv, [Next]_vars
  PROVE  (\E p \in Proc : Acts(p)) \/ Around
<1>1. CASE \E n \in AttemptNumber : Agents(n) \/ Vanish(n)
  BY <1>1 DEF Agents, Vanish, storeVars, Around, HoldsLease
<1>2. CASE Expire
  BY <1>2 DEF Expire, Renewed, LeaseLapses, Around, SafetyInv, TypeInv, TypeOK, StoreTypeOK, Work
<1>3. ~Lapse
  BY DEF Lapse, FaultHappens
<1>4. CASE UNCHANGED vars
  BY <1>4 DEF vars, storeVars, Around, HoldsLease
<1> QED BY <1>1, <1>2, <1>3, <1>4 DEF Next, Acts

LEMMA AloneStep ==
  ASSUME "lapse" \notin FaultKinds, SafetyInv, Alone, [Next]_vars
  PROVE  Alone'
<1>1. ASSUME NEW p \in Proc, Acts(p) PROVE Alone'
  <2>1. \A q \in Proc : q # p => pc'[q] = "idle"
    BY <1>1, OthersSleep
  <2>2. pc'[p] # "idle" => HoldsLease(p)'
    <3>1. CASE Acquire(p)
      BY <3>1 DEF Acquire, AcquireLease, HoldsLease, SafetyInv, TypeInv, TypeOK, StoreTypeOK, Work
    <3>2. CASE Release(p)
      BY <3>2 DEF Release, Goto, SafetyInv, TypeInv, TypeOK
    <3>3. CASE (RunStep(p) \/ RunFault(p)) /\ ~Release(p)
      BY <3>3, ActiveIsAwake, LeaseMoves DEF Alone, HoldsLease
    <3> QED BY <1>1, <3>1, <3>2, <3>3 DEF Acts
  <2> QED BY <2>1, <2>2 DEF Alone
<1>2. CASE Around
  BY <1>2 DEF Around, Alone
<1> QED BY <1>1, <1>2, WhoMoves

\* Who comes to the calls before the creation of an attempt.
LEMMA BeginsCreation ==
  ASSUME SafetyInv, NEW p \in Proc, Acts(p), pc'[p] \in {"leased", "begin", "retry"}
  PROVE  \/ Acquire(p) /\ pc'[p] = "leased"
         \/ LoadNothing(p) /\ pc'[p] = "begin"
         \/ LoadAttempt(p) /\ workCopy[p].state = "action_planned" /\ pc'[p] = "begin"
         \/ LoadAttempt(p) /\ attempts[work.current].state = "retry_wait" /\ pc'[p] = "retry"
<1>1. CASE Acquire(p) \/ LoadNothing(p)
  BY <1>1 DEF Acquire, LoadNothing, EntryOfPlanned, Goto, SafetyInv, TypeInv, TypeOK
<1>2. CASE LoadAttempt(p)
  <2> DEFINE row == attempts[work.current]
  <2>1. \/ workCopy[p].state = "action_planned" /\ pc'[p] = EntryOfPlanned(p)
        \/ pc'[p] \in {"release", "commit", PhaseOf(row)}
    BY <1>2 DEF LoadAttempt, Goto, IntendNeedsHuman, Intend, SafetyInv, TypeInv, TypeOK
  <2>2. EntryOfPlanned(p) \in {"begin", "release"}
    BY DEF EntryOfPlanned
  <2>3. /\ PhaseOf(row) \notin {"leased", "begin"}
        /\ PhaseOf(row) = "retry" => row.state = "retry_wait"
    BY DEF PhaseOf
  <2> QED BY <1>2, <2>1, <2>2, <2>3
<1>3. ~Poll(p) /\ ~Collect(p) /\ ~Preflight(p)
  BY DEF Poll, Collect, Preflight, Intend, IntendNeedsHuman, SafetyInv, TypeInv, TypeOK
<1>4. ~Release(p) /\ ~ClearGateLabels(p) /\ ~Create(p) /\ ~RecordWorkspace(p) /\ ~Provision(p)
      /\ ~Reload(p) /\ ~RecordHandle(p)
  BY DEF Release, ClearGateLabels, Create, RecordWorkspace, Provision, Reload, RecordHandle, Goto,
         Intend, IntendNeedsHuman, SafetyInv, TypeInv, TypeOK
<1>5. ~Start(p) /\ ~StartNewAgent(p) /\ ~Prompt(p) /\ ~RecordStatus(p) /\ ~Commit(p)
      /\ ~RecordPending(p) /\ ~FindComment(p) /\ ~CreateComment(p) /\ ~ApplyLabels(p)
      /\ ~RecordApplied(p) /\ ~FenceRejected(p)
  BY DEF Start, StartNewAgent, Prompt, RecordStatus, Commit, RecordPending, FindComment,
         CreateComment, ApplyLabels, RecordApplied, FenceRejected, Goto, Intend,
         IntendNeedsHuman, SafetyInv, TypeInv, TypeOK
<1>6. ~RunFault(p)
  BY DEF RunFault, PromptResponseLost, CommentResponseLost, Throws, ThrowsCaught, Crash, Goto,
         Intend, IntendNeedsHuman, SafetyInv, TypeInv, TypeOK
<1> QED BY <1>1, <1>2, <1>3, <1>4, <1>5, <1>6 DEF Acts, RunStep

\* A run that prepares an attempt or its projection still sees the work item.
LEMMA LoneBegins ==
  ASSUME SafetyInv, NEW p \in Proc, LoneSound(p), Acts(p)
  PROVE  /\ pc'[p] = "leased" => workCopy'[p] = CopyOfWork(work')
         /\ pc'[p] \in {"begin", "retry"} => work'.state \in {"action_planned", "retry_wait"}
<1>1. CASE Acquire(p) /\ pc'[p] = "leased"
  BY <1>1 DEF Acquire, AcquireLease, BumpWork
<1>2. CASE LoadNothing(p) /\ pc'[p] = "begin"
  BY <1>2, CurrentAttempt DEF LoadNothing, storeVars
<1>3. CASE LoadAttempt(p) /\ workCopy[p].state = "action_planned" /\ pc'[p] = "begin"
  BY <1>3 DEF LoadAttempt, LoneSound, CopyOfWork
<1>4. CASE LoadAttempt(p) /\ attempts[work.current].state = "retry_wait" /\ pc'[p] = "retry"
  BY <1>4, CurrentAttempt DEF LoadAttempt, ReadCurrentAttempt
<1> QED BY <1>1, <1>2, <1>3, <1>4, BeginsCreation

LEMMA LoneProjects ==
  ASSUME SafetyInv, NEW p \in Proc, LoneSound(p), Acts(p), pc'[p] \in Projecting
  PROVE  (Copy(p).state = work.state)'
<1>1. CASE LoadAttempt(p) /\ pc'[p] = PhaseOf(attempts[work.current])
  BY <1>1, CurrentAttempt, ReadKeepsRows DEF LoadAttempt, ReadCurrentAttempt, Copy
<1>2. CASE RecordPending(p)
  <2> DEFINE row == [attempts[Number(p)] EXCEPT !.projection = "pending"]
  <2>1. work' = work /\ BumpAttempt(p, Number(p), row) /\ Number(p) = work.current
    BY <1>2 DEF RecordPending, SaveExecutionProjection, ProjectionFence, Number
  <2>2. attempts[Number(p)] \in Attempt /\ attempts[Number(p)].state = work.state
    BY <1>2, <2>1, CurrentAttempt, ProjectingNumber, AttemptBoundAssumption
    DEF RecordPending, Projecting, SafetyInv, TypeInv, TypeOK, StoreTypeOK, AttemptNumber
  <2>3. row.state = work.state
    BY <2>2 DEF Attempt
  <2> QED BY <2>1, <2>3 DEF BumpAttempt, Copy
<1>3. CASE FindComment(p) \/ CreateComment(p) \/ ApplyLabels(p)
  BY <1>3 DEF FindComment, CreateComment, ApplyLabels, storeVars, Copy, LoneSound, Projecting
<1> QED BY <1>1, <1>2, <1>3, BeginsProjection

LEMMA LoneActs ==
  ASSUME SafetyInv, NEW p \in Proc, LoneSound(p), Acts(p)
  PROVE  LoneSound(p)'
<1>1. pc'[p] = "comment" => comments'[Number(p)'] = 0
  <2> SUFFICES ASSUME pc'[p] = "comment" PROVE comments'[Number(p)'] = 0
    OBVIOUS
  <2>1. FindComment(p)
    BY BeginsProjection DEF Projecting
  <2>2. /\ comments' = comments /\ Number(p)' = Number(p) /\ ~(comments[Number(p)] > 0)
        /\ Number(p) \in AttemptNumber
    BY <2>1, ProjectingNumber
    DEF FindComment, Goto, linearVars, storeVars, Number, Projecting, SafetyInv, TypeInv, TypeOK
  <2> QED BY <2>2, CommentsTyped
<1>2. pc'[p] = "record_applied" => gate' = LabelOf(Copy(p)'.state)
  BY BeginsProjection DEF Projecting, ApplyLabels, storeVars, Copy
<1>3. pc'[p] \in Projecting => Copy(p)'.state = work'.state
  BY LoneProjects
<1> QED BY <1>1, <1>2, <1>3, LoneBegins DEF LoneSound

LEMMA LoneSoundStep ==
  ASSUME "lapse" \notin FaultKinds, SafetyInv, Alone, \A p \in Proc : LoneSound(p), [Next]_vars
  PROVE  \A p \in Proc : LoneSound(p)'
<1>1. ASSUME NEW p \in Proc, Acts(p), NEW q \in Proc PROVE LoneSound(q)'
  <2>1. CASE q = p
    BY <1>1, <2>1, LoneActs
  <2>2. CASE q # p
    BY <1>1, <2>2, OthersSleep DEF LoneSound, Projecting
  <2> QED BY <2>1, <2>2
<1>2. ASSUME Around, NEW q \in Proc PROVE LoneSound(q)'
  BY <1>2 DEF Around, LoneSound, CopyOfWork, Copy, Number, linearVars
<1> QED BY <1>1, <1>2, WhoMoves

LEMMA OneCommentStep ==
  ASSUME SafetyInv, OneTerminalComment, \A p \in Proc : LoneSound(p), [Next]_vars
  PROVE  OneTerminalComment'
<1>1. ASSUME NEW p \in Proc, CreateComment(p) \/ CommentResponseLost(p)
      PROVE  comments[Number(p)] = 0
  BY <1>1 DEF CreateComment, CommentResponseLost, LoneSound
<1> QED BY <1>1, CommentsMove, CommentsTyped DEF OneTerminalComment, SafetyInv, TypeInv, TypeOK

LEMMA GateMoves ==
  ASSUME [Next]_vars
  PROVE  gate' = gate \/ \E p \in Proc : ClearGateLabels(p) \/ ApplyLabels(p)
<1>1. ASSUME NEW p \in Proc, Acts(p), ~ClearGateLabels(p), ~ApplyLabels(p)
      PROVE  gate' = gate
  BY <1>1 DEF Acts, RunStep, RunFault, Acquire, LoadNothing, LoadAttempt, Release, Create,
              RecordWorkspace, Provision, Preflight, Reload, RecordHandle, Start, StartNewAgent,
              Prompt, Poll, RecordStatus, Collect, Commit, RecordPending, FindComment,
              CreateComment, RecordApplied, FenceRejected, PromptResponseLost,
              CommentResponseLost, Throws, ThrowsCaught, Crash, linearVars
<1>2. CASE (\E n \in AttemptNumber : Agents(n) \/ Vanish(n)) \/ Expire \/ Lapse \/ UNCHANGED vars
  BY <1>2 DEF Agents, Vanish, Expire, Lapse, LeaseLapses, vars, linearVars
<1> QED BY <1>1, <1>2 DEF Next, Acts

LEMMA GateLabelStep ==
  ASSUME SafetyInv, SafetyInv', ProjectionInv, ProjectionInv', GateLabelMatches,
         \A p \in Proc : LoneSound(p), [Next]_vars
  PROVE  GateLabelMatches'
<1> SUFFICES ASSUME Published' PROVE gate' = LabelOf(work'.state)
  BY DEF GateLabelMatches, Published
<1>1. ASSUME NEW p \in Proc PROVE ~Create(p) /\ ~Commit(p)
  BY CreateUnpublished, CommitUnpublished
<1>2. ASSUME NEW p \in Proc PROVE ~ClearGateLabels(p)
  <2> SUFFICES ASSUME ClearGateLabels(p) PROVE FALSE
    OBVIOUS
  <2>1. ~Published
    BY UntoldIsUnpublished DEF ClearGateLabels, LoneSound, SettledExecutionStates
  <2> QED BY <2>1 DEF ClearGateLabels, storeVars, Published
<1>3. CASE \E p \in Proc : ApplyLabels(p)
  BY <1>3 DEF ApplyLabels, storeVars, LoneSound, Projecting
<1>4. CASE \E p \in Proc : RecordApplied(p)
  BY <1>4 DEF RecordApplied, SaveExecutionProjection, linearVars, LoneSound, Projecting
<1>5. CASE \A p \in Proc : ~ApplyLabels(p) /\ ~RecordApplied(p)
  <2>1. gate' = gate /\ UNCHANGED <<work.state, work.current>>
    BY <1>1, <1>2, <1>5, GateMoves, WorkMoves
  <2>2. Published
    BY <1>1, <1>5, <2>1, PublishedStays
  <2> QED BY <2>1, <2>2 DEF GateLabelMatches, Published
<1> QED BY <1>3, <1>4, <1>5

LEMMA AloneInvStep ==
  "lapse" \notin FaultKinds /\ SafetyInv /\ SafetyInv' /\ ProjectionInv /\ ProjectionInv'
    /\ AloneInv /\ [Next]_vars => AloneInv'
BY AloneStep, LoneSoundStep, OneCommentStep, GateLabelStep DEF AloneInv

LEMMA AloneInit == Init => AloneInv
BY DEF Init, AbsentAttempt, AloneInv, Alone, OneTerminalComment, GateLabelMatches, LoneSound,
       Projecting

LEMMA AloneAlways ==
  ASSUME "lapse" \notin FaultKinds
  PROVE  Spec => []AloneInv
BY AloneInit, AloneInvStep, ProjectionInit, ProjectionStep, InitSafe, SafetyStep, PTL DEF Spec

\* However runs crash, calls throw after they took effect, and processes race
\* for the lease: the terminal comment of an attempt is not written twice as
\* long as no lease lapses under a live run between the search for the marker
\* and the creation of the comment.
THEOREM ToldOnce ==
  ASSUME "lapse" \notin FaultKinds
  PROVE  Spec => []OneTerminalComment
<1>1. AloneInv => OneTerminalComment
  BY DEF AloneInv
<1> QED BY <1>1, AloneAlways, PTL

\* Under the same assumption the label that is left in Linear once the
\* projection counts as applied is the one of the disposition: no later
\* clearing of the gate labels and no older projection writes over it.
THEOREM LabelIsOfEnd ==
  ASSUME "lapse" \notin FaultKinds
  PROVE  Spec => []GateLabelMatches
<1>1. AloneInv => GateLabelMatches
  BY DEF AloneInv
<1> QED BY <1>1, AloneAlways, PTL
=============================================================================
