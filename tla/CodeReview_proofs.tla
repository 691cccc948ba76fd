--------------------------- MODULE CodeReview_proofs ---------------------------
(***************************************************************************)
(* The code review, for any number of runs, commits, faults and attempts   *)
(* at accepting: what Linear shows is the verdict of the review, and Done  *)
(* is told as it should be.                                                *)
(***************************************************************************)
EXTENDS CodeReview, MastermindStore_proofs

\* Where only a run of the coordinator, and only a person's run, can be.
ReviewPc == {"leased", "in_review", "label", "current", "identify", "start", "assess",
             "save", "find", "publish", "comment", "labels", "applied"}
AcceptPc == {"done", "unlabel", "find_acceptance", "acceptance"}

Accepting(p) == job[p].event = "ACCEPT_IMPLEMENTATION"

\* What a run has in hand, whatever the others did.
Local(p) ==
  /\ pc[p] = "idle" => ~Accepting(p)
  /\ pc[p] \in ReviewPc => ~Accepting(p)
  /\ pc[p] \in AcceptPc => Accepting(p)
  /\ pc[p] = "save" => job[p].verdict # "none"
  /\ pc[p] \in {"find", "publish", "comment", "labels", "applied"} /\ ~Failed(p)
       => held[p].row.verdict # "none"
  /\ held[p].fresh => held[p].of \in Subject /\ newest \in Subject

\* Rows exist once one was created.
SomeNewest == \A s \in Subject : reviews[s].status # "absent" => newest \in Subject

TypeInv == TypeOK /\ SomeNewest /\ \A p \in Proc : Local(p)

-----------------------------------------------------------------------------
(* The lease *)

\* A run with the lease knows the work item.
Known(p) == pc[p] # "idle" /\ HoldsLease(p) => workCopy[p] = CopyOfWork(work)

\* A run of the coordinator has the lease as long as none has lapsed.
Leased(p) == pc[p] # "idle" /\ ~Accepting(p) => HoldsLease(p)

LeaseInv == \A p \in Proc : Known(p) /\ (lapsed \/ Leased(p))

-----------------------------------------------------------------------------
(* The story of a review *)

RowSound(s) ==
  LET row == reviews[s]
  IN /\ row.status \notin Concluded
          => row.verdict = "none" /\ ~row.applied /\ comments[s] = << >>
     /\ row.status \in Concluded
          => row.status = IF row.verdict = "none" THEN "needs_human" ELSE StatusOf[row.verdict]
     /\ comments[s] \in {<< >>, <<IF row.verdict = "none" THEN "failure" ELSE row.verdict>>}

\* HEAD is at the newest review or at a commit without one.
HeadIsNew ==
  /\ newest \in Subject => reviews[newest].status # "absent"
  /\ reviews[head].status # "absent" => newest = head
  /\ moves = 0 => \A s \in Subject \ {head} : reviews[s].status = "absent"

\* Linear shows the verdict in the row.
Shown(s) ==
  /\ comments[s] = <<reviews[s].verdict>>
  /\ labels = {LabelOf(reviews[s].status)}

AppliedIsShown ==
  /\ newest \in Subject /\ work.state = "code_reviewing"
  /\ reviews[newest].applied /\ reviews[newest].verdict # "none"
  => Shown(newest)

Accepted == {"awaiting_acceptance", "completed"}

Stage ==
  /\ work.state \in {"succeeded", "code_review_pending", "code_reviewing",
                     "changes_requested", "needs_human"} \cup Accepted
  /\ work.state \in {"succeeded", "code_review_pending"}
       => \A s \in Subject : reviews[s].status \notin Concluded
  /\ issue = "done" => work.state \in Accepted
  /\ work.state \in Accepted => labels \subseteq {"passed"}

\* The newest review is in hand.
InHand(p) ==
  /\ newest \in Subject
  /\ held[p] = [of |-> newest, fresh |-> TRUE, row |-> reviews[newest]]

\* What a run is about to commit.
Ready(p) ==
  CASE job[p].event = "BEGIN_CODE_REVIEW" -> work.state = "succeeded"
    [] job[p].event = "CODE_REVIEW_STARTED" -> work.state = "code_review_pending"
    [] Accepting(p) -> acceptances > 0 /\ issue = "done" /\ labels = {} /\ work.state \in Accepted
    [] OTHER ->
         /\ work.state = "code_reviewing"
         /\ newest \in Subject
         /\ reviews[newest].status \in Concluded
         /\ job[p].event = EventOf[reviews[newest].status]
         /\ reviews[newest].verdict # "none" => Shown(newest)

Telling == {"find", "publish", "comment", "labels", "applied"}

Prepared(p) ==
  /\ pc[p] \in {"in_review", "label"} => work.state = "succeeded"
  /\ pc[p] \in {"current", "identify"} => work.state \in {"code_review_pending", "code_reviewing"}
  /\ pc[p] = "identify" => held[p].of = NoSubject \/ InHand(p)
  /\ pc[p] = "start" => work.state = "code_review_pending" /\ InHand(p)
  /\ pc[p] \in {"assess", "save"} =>
       work.state = "code_reviewing" /\ InHand(p) /\ reviews[newest].status = "running"
  /\ pc[p] \in Telling =>
       /\ work.state = "code_reviewing"
       /\ InHand(p)
       /\ reviews[newest].status \in Concluded
       /\ job[p].marker = newest
       /\ job[p].event = EventOf[reviews[newest].status]
       /\ Failed(p) <=> reviews[newest].verdict = "none"
  /\ pc[p] \in {"publish", "comment"} => comments[newest] = << >>
  /\ pc[p] \in {"labels", "applied"} => comments[newest] # << >>
  /\ pc[p] = "applied" /\ ~Failed(p) => labels = {LabelOf(reviews[newest].status)}
  /\ pc[p] = "commit" => Ready(p)
  /\ pc[p] \in AcceptPc => work.state \in Accepted
  /\ pc[p] = "unlabel" => issue = "done"
  /\ pc[p] \in {"find_acceptance", "acceptance"} => issue = "done" /\ labels = {}

Records ==
  /\ \A s \in Subject : RowSound(s)
  /\ HeadIsNew
  /\ AppliedIsShown
  /\ Stage
  /\ VerdictIsShown /\ AcceptanceIsShown

Story == Records /\ \A p \in Proc : Prepared(p)

StoryInv == lapsed \/ moves > 1 \/ Story

-----------------------------------------------------------------------------
(* Types *)

\* The events of a concluded review.
Outcomes == {"CODE_REVIEW_PASSED", "CODE_CHANGES_REQUESTED", "CODE_REVIEW_NEEDS_HUMAN"}

LEMMA RowTypes ==
  /\ NoRow \in Row /\ NewRow \in Row
  /\ NotHeld \in HeldRow /\ NoJob \in Job
  /\ \A row \in Row :
       /\ \A s \in {"running"} \cup Concluded : [row EXCEPT !.status = s] \in Row
       /\ \A s \in Concluded, v \in Verdict :
            [row EXCEPT !.status = s, !.verdict = v] \in Row
       /\ \A b \in BOOLEAN : [row EXCEPT !.eli5 = b] \in Row
       /\ \A b \in BOOLEAN : [row EXCEPT !.applied = TRUE, !.eli5 = b] \in Row
  /\ \A v \in Verdict : StatusOf[v] \in Concluded
  /\ Concluded = {"passed", "changes_requested", "needs_human"}
  /\ \A s \in Concluded : EventOf[s] \in Outcomes
<1>1. Concluded = {"passed", "changes_requested", "needs_human"}
  BY DEF Concluded, EventOf
<1>2. NoRow \in Row /\ NewRow \in Row
  BY <1>1 DEF NoRow, NewRow, Row
<1>3. NotHeld \in HeldRow /\ NoJob \in Job
  BY <1>2 DEF NotHeld, HeldRow, NoJob, Job
<1>4. ASSUME NEW row \in Row
      PROVE  /\ \A s \in {"running"} \cup Concluded : [row EXCEPT !.status = s] \in Row
             /\ \A s \in Concluded, v \in Verdict :
                  [row EXCEPT !.status = s, !.verdict = v] \in Row
             /\ \A b \in BOOLEAN : [row EXCEPT !.eli5 = b] \in Row
             /\ \A b \in BOOLEAN : [row EXCEPT !.applied = TRUE, !.eli5 = b] \in Row
  BY DEF Row
<1>5. \A v \in Verdict : StatusOf[v] \in Concluded
  BY <1>1 DEF Verdict, StatusOf
<1>6. \A s \in Concluded : EventOf[s] \in Outcomes
  <2>1. /\ EventOf["passed"] \in Outcomes /\ EventOf["changes_requested"] \in Outcomes
        /\ EventOf["needs_human"] \in Outcomes
    BY DEF EventOf, Outcomes
  <2> QED BY <1>1, <2>1
<1> QED BY <1>1, <1>2, <1>3, <1>4, <1>5, <1>6

\* The first attempt, which has succeeded.
LEMMA InitType == Init => TypeInv
<1> SUFFICES ASSUME Init PROVE TypeInv
  OBVIOUS
<1>1. StoreTypeOK
  <2>1. 1 \in 0..AttemptBound /\ 1 \in AttemptNumber
    BY AttemptBoundAssumption DEF AttemptNumber
  <2>2. work \in Work
    BY <2>1 DEF Init, Work, PlannedAction, MastermindState, On
  <2>3. AbsentAttempt \in Attempt
    BY DEF AbsentAttempt, Attempt
  <2>4. [state |-> "succeeded", workspace |-> TRUE, preflight |-> TRUE,
         handle |-> TRUE, status |-> "terminal", unknowns |-> 0,
         outcome |-> "succeeded", verified |-> TRUE,
         retryEligible |-> FALSE, projection |-> "applied"] \in Attempt
    BY DEF Attempt, ExecutionStates, SettledExecutionStates, ObservedStatus, Outcome
  <2>5. NoWorkCopy \in WorkCopy /\ NoAttemptCopy \in AttemptCopy
    BY <2>3, AttemptBoundAssumption
    DEF NoWorkCopy, WorkCopy, MastermindState, On, PlannedAction, NoAttemptCopy, AttemptCopy
  <2> QED BY <2>1, <2>2, <2>3, <2>4, <2>5 DEF Init, StoreTypeOK
<1>2. head \in Subject
  BY ReviewAssumption DEF Init
<1>3. /\ 0 \in 0..MoveBound /\ 0 \in 0..AcceptBound /\ 0 \in 0..FaultBound
  BY ReviewAssumption
<1>4. TypeOK
  <2>1. comments \in [Subject -> Seq(Verdict \cup {"failure"})]
    BY DEF Init
  <2>2. pc \in [Proc -> Pc] /\ held \in [Proc -> HeldRow] /\ job \in [Proc -> Job]
    BY RowTypes DEF Init, Pc
  <2>3. reviews \in [Subject -> Row] /\ newest \in Subject \cup {NoSubject}
    BY RowTypes DEF Init
  <2> QED BY <1>1, <1>2, <1>3, <2>1, <2>2, <2>3 DEF Init, TypeOK
<1> QED BY <1>4 DEF Init, TypeInv, SomeNewest, Local, NoRow, NotHeld, NoJob, Accepting,
                    ReviewPc, AcceptPc

LEMMA StoreKept ==
  ASSUME StoreTypeOK, UNCHANGED storeVars
  PROVE  StoreTypeOK'
BY DEF StoreTypeOK, storeVars

\* saveCodeReview: what it writes, and what the others still hold.
LEMMA SaveType ==
  ASSUME TypeInv, NEW p \in Proc, NEW row \in Row, SaveCodeReview(p, row)
  PROVE  /\ held[p].of \in Subject /\ newest \in Subject /\ newest' = newest
         /\ reviews' = [reviews EXCEPT ![held[p].of] = row]
         /\ reviews' \in [Subject -> Row]
         /\ held' \in [Proc -> HeldRow]
         /\ held'[p] = [of |-> newest, fresh |-> TRUE, row |-> reviews'[newest]]
         /\ \A q \in Proc \ {p} : /\ held'[q].of = held[q].of /\ held'[q].row = held[q].row
                                  /\ held'[q].fresh => held[q].fresh
<1>1. held[p].of \in Subject /\ newest \in Subject /\ newest' = newest
  BY DEF SaveCodeReview, RowFence, TypeInv, Local
<1>2. reviews' = [reviews EXCEPT ![held[p].of] = row] /\ reviews' \in [Subject -> Row]
  BY <1>1 DEF SaveCodeReview, TypeInv, TypeOK
<1>3. [of |-> newest, fresh |-> TRUE, row |-> reviews'[newest]] \in HeldRow
  BY <1>1, <1>2 DEF HeldRow
<1>4. ASSUME NEW q \in Proc
      PROVE  LET h == [held[q] EXCEPT !.fresh = held[q].fresh /\ held[q].of # held[p].of]
             IN h \in HeldRow /\ h.of = held[q].of /\ h.row = held[q].row
                /\ (h.fresh => held[q].fresh)
  <2>1. held[q] \in HeldRow
    BY DEF TypeInv, TypeOK
  <2> QED BY <2>1 DEF HeldRow
<1>5. held' = [q \in Proc |->
        IF q = p THEN [of |-> newest, fresh |-> TRUE, row |-> reviews'[newest]]
        ELSE [held[q] EXCEPT !.fresh = held[q].fresh /\ held[q].of # held[p].of]]
  BY DEF SaveCodeReview, Returned
<1> QED BY <1>1, <1>2, <1>3, <1>4, <1>5

\* What the bounds, and the commands that count against them, keep.
LEMMA FaultType ==
  ASSUME TypeOK, NEW kind, FaultHappens(kind)
  PROVE  moves' \in 0..MoveBound /\ accepts' \in 0..AcceptBound /\ faults' \in 0..FaultBound
BY ReviewAssumption DEF FaultHappens, TypeOK

\* Every action of a run keeps the types.
LEMMA RunTypeOK ==
  ASSUME TypeInv, NEW p \in Proc, Acquire(p) \/ Accept(p) \/ RunStep(p) \/ RunFault(p)
  PROVE  TypeOK'
<1> USE DEF Goto, Intend, Throw, linearVars, reviewVars, localVars, counters
<1>0. TypeOK
  BY DEF TypeInv
<1>a. \A label \in Pc : [pc EXCEPT ![p] = label] \in [Proc -> Pc]
  BY <1>0 DEF TypeOK
<1>1. CASE Acquire(p)
  BY <1>0, <1>1, AcquireLeaseType DEF Acquire, TypeOK, Pc
<1>2. CASE Enter(p)
  <2>1. EntryOf(workCopy[p].state) \in Pc
    BY DEF EntryOf, Pc
  <2> QED BY <1>0, <1>2, <2>1, StoreKept DEF Enter, TypeOK
<1>3. CASE Commit(p)
  <2>1. StoreTypeOK'
    BY <1>0, <1>3, TransitionType DEF Commit, TypeOK, StoreTypeOK, Work
  <2> QED BY <1>0, <1>3, <2>1 DEF Commit, TypeOK, Pc
<1>4. CASE Rejected(p)
  BY <1>0, <1>4, StoreKept DEF Rejected, TypeOK, Pc
<1>5. CASE Release(p)
  <2>1. StoreTypeOK'
    BY <1>0, <1>5, ReleaseLeaseType DEF Release, TypeOK
  <2> QED BY <1>0, <1>5, <2>1, RowTypes DEF Release, TypeOK, Pc
<1>6. CASE SetInReview(p)
  BY <1>0, <1>6, StoreKept DEF SetInReview, TypeOK, Pc
<1>7. CASE LabelCodeReview(p)
  <2>1. job' \in [Proc -> Job]
    BY <1>0, <1>7 DEF LabelCodeReview, TypeOK, Job
  <2> QED BY <1>0, <1>7, <2>1, StoreKept DEF LabelCodeReview, TypeOK, Pc, Label
<1>8. CASE ReadCurrent(p)
  <2>1. held' \in [Proc -> HeldRow]
    <3>1. newest # NoSubject => [of |-> newest, fresh |-> TRUE, row |-> reviews[newest]] \in HeldRow
      BY <1>0 DEF TypeOK, HeldRow
    <3> QED BY <1>0, <1>8, <3>1, RowTypes DEF ReadCurrent, TypeOK
  <2> QED BY <1>0, <1>8, <2>1, StoreKept DEF ReadCurrent, TypeOK, Pc
<1>9. CASE Identify(p)
  <2>1. reviews' \in [Subject -> Row] /\ newest' \in Subject \cup {NoSubject}
    BY <1>0, <1>9, RowTypes DEF Identify, CreateCodeReview, TypeOK
  <2>2. held' \in [Proc -> HeldRow]
    <3>1. head \in Subject
      BY <1>0 DEF TypeOK
    <3>2. [of |-> head, fresh |-> TRUE, row |-> reviews'[head]] \in HeldRow
      BY <2>1, <3>1 DEF HeldRow
    <3> QED BY <1>0, <1>9, <3>2 DEF Identify, TypeOK
  <2>3. held'[p].row.verdict \in Verdict \cup {"none"}
    BY <2>2 DEF HeldRow, Row
  <2>4. job' \in [Proc -> Job] /\ pc' \in [Proc -> Pc]
    <3>1. CASE workCopy[p].state = "code_reviewing" /\ HasEnded(held'[p].row)
      <4>1. EventOf[held'[p].row.status] \in Outcomes /\ held'[p].row.status # "running"
        BY <3>1, RowTypes DEF HasEnded
      <4>2. [event |-> EventOf[held'[p].row.status], verdict |-> held'[p].row.verdict,
             marker |-> head] \in Job
        BY <1>0, <2>3, <4>1 DEF Job, TypeOK, Outcomes
      <4> QED BY <1>0, <1>9, <3>1, <4>1, <4>2 DEF Identify, Continue, TypeOK, Pc
    <3>2. CASE ~(workCopy[p].state = "code_reviewing" /\ HasEnded(held'[p].row))
      <4>1. /\ UNCHANGED job
            /\ \E label \in {"start", "assess", "release"} : pc' = [pc EXCEPT ![p] = label]
        BY <1>9, <3>2 DEF Identify, Continue
      <4> QED BY <1>0, <4>1 DEF TypeOK, Pc
    <3> QED BY <3>1, <3>2
  <2> QED BY <1>0, <1>9, <2>1, <2>2, <2>4, StoreKept DEF Identify, TypeOK
<1>10. CASE SaveRunning(p)
  <2>1. [held[p].row EXCEPT !.status = "running"] \in Row
    BY <1>0, RowTypes DEF TypeOK, HeldRow
  <2>2. reviews' \in [Subject -> Row] /\ held' \in [Proc -> HeldRow] /\ newest' = newest
    BY <1>10, <2>1, SaveType DEF SaveRunning
  <2>3. job' \in [Proc -> Job]
    BY <1>0, <1>10 DEF SaveRunning, TypeOK, Job
  <2> QED BY <1>0, <1>10, <2>2, <2>3, StoreKept DEF SaveRunning, TypeOK, Pc
<1>11. CASE Assess(p)
  <2>1. job' \in [Proc -> Job]
    <3>1. PICK v \in Verdict \cup {"failure"} : job' = [job EXCEPT ![p].verdict = v]
      BY <1>11 DEF Assess
    <3>2. [job[p] EXCEPT !.verdict = v] \in Job
      BY <1>0 DEF TypeOK, Job
    <3> QED BY <1>0, <3>1, <3>2 DEF TypeOK
  <2> QED BY <1>0, <1>11, <2>1, StoreKept DEF Assess, TypeOK, Pc
<1>12. CASE SaveVerdict(p)
  <2>1. job[p].verdict \in Verdict
    BY <1>0, <1>12 DEF SaveVerdict, TypeInv, Local, TypeOK, Job
  <2>2. [held[p].row EXCEPT !.status = StatusOf[job[p].verdict],
                            !.verdict = job[p].verdict] \in Row
    BY <1>0, <2>1, RowTypes DEF TypeOK, HeldRow
  <2>3. /\ reviews' \in [Subject -> Row] /\ held' \in [Proc -> HeldRow]
        /\ newest' = newest /\ held'[p].of \in Subject
    BY <1>12, <2>2, SaveType DEF SaveVerdict
  <2>4. EventOf[StatusOf[job[p].verdict]] \in Outcomes
    BY <2>1, RowTypes
  <2>5. job' \in [Proc -> Job]
    <3>1. job' = [job EXCEPT ![p].event = EventOf[StatusOf[job[p].verdict]],
                             ![p].marker = held'[p].of]
      BY <1>12 DEF SaveVerdict
    <3>2. [job[p] EXCEPT !.event = EventOf[StatusOf[job[p].verdict]],
                         !.marker = held'[p].of] \in Job
      BY <1>0, <2>3, <2>4 DEF TypeOK, Job, Outcomes
    <3> QED BY <1>0, <3>1, <3>2 DEF TypeOK
  <2> QED BY <1>0, <1>12, <2>3, <2>5, StoreKept DEF SaveVerdict, TypeOK, Pc
<1>13. CASE SaveFailure(p)
  <2>1. [held[p].row EXCEPT !.status = "needs_human"] \in Row
    BY <1>0, RowTypes DEF TypeOK, HeldRow
  <2>2. /\ reviews' \in [Subject -> Row] /\ held' \in [Proc -> HeldRow]
        /\ newest' = newest /\ held'[p].of \in Subject
    BY <1>13, <2>1, SaveType DEF SaveFailure
  <2>3. job' \in [Proc -> Job]
    BY <1>0, <1>13, <2>2 DEF SaveFailure, TypeOK, Job
  <2> QED BY <1>0, <1>13, <2>2, <2>3, StoreKept DEF SaveFailure, TypeOK, Pc
<1>14. CASE FindComment(p)
  BY <1>0, <1>14, StoreKept DEF FindComment, TypeOK, Pc
<1>15. CASE Publish(p)
  <2>1. [held[p].row EXCEPT !.eli5 = TRUE] \in Row
    BY <1>0, RowTypes DEF TypeOK, HeldRow
  <2>2. reviews' \in [Subject -> Row] /\ held' \in [Proc -> HeldRow] /\ newest' = newest
    BY <1>15, <2>1, SaveType DEF Publish
  <2> QED BY <1>0, <1>15, <2>2, StoreKept DEF Publish, TypeOK, Pc
<1>16. ASSUME NEW label \in Pc, WriteComment(p, label), pc[p] = "comment",
              faults' \in 0..FaultBound, UNCHANGED <<moves, accepts, lapsed>>
       PROVE  TypeOK'
  <2> DEFINE said == IF Failed(p) THEN "failure" ELSE held[p].row.verdict
  <2>1. said \in Verdict \cup {"failure"}
    BY <1>0, <1>16 DEF TypeInv, Local, TypeOK, HeldRow, Row
  <2>2. \A s \in Subject : Append(comments[s], said) \in Seq(Verdict \cup {"failure"})
    BY <1>0, <2>1 DEF TypeOK
  <2>3. comments' \in [Subject -> Seq(Verdict \cup {"failure"})]
    BY <1>0, <1>16, <2>2 DEF WriteComment, TypeOK
  <2> QED BY <1>0, <1>16, <2>3, StoreKept DEF WriteComment, TypeOK
<1>17. ASSUME NEW label \in Pc, WriteLabels(p, label),
              faults' \in 0..FaultBound, UNCHANGED <<moves, accepts, lapsed>>
       PROVE  TypeOK'
  <2>1. LabelsAfter(p) \subseteq Label
    BY <1>0, <1>17 DEF WriteLabels, HasLabel, Concluded, EventOf, LabelsAfter, LabelOf, Label,
                       VerdictLabels, TypeOK
  <2> QED BY <1>0, <1>17, <2>1, StoreKept DEF WriteLabels, TypeOK
<1>18. CASE CreateComment(p)
  <2>1. faults' \in 0..FaultBound
    BY <1>0, <1>18 DEF CreateComment, TypeOK
  <2> QED BY <1>16, <1>18, <2>1 DEF CreateComment, Pc
<1>19. CASE ApplyLabels(p)
  <2>1. faults' \in 0..FaultBound
    BY <1>0, <1>19 DEF ApplyLabels, TypeOK
  <2> QED BY <1>17, <1>19, <2>1 DEF ApplyLabels, Pc
<1>20. CASE RecordApplied(p)
  <2>1. [held[p].row EXCEPT !.applied = TRUE, !.eli5 = held[p].row.eli5 /\ ~Failed(p)] \in Row
    BY <1>0, RowTypes DEF TypeOK, HeldRow
  <2>2. reviews' \in [Subject -> Row] /\ held' \in [Proc -> HeldRow] /\ newest' = newest
    BY <1>20, <2>1, SaveType DEF RecordApplied
  <2> QED BY <1>0, <1>20, <2>2, StoreKept DEF RecordApplied, TypeOK, Pc
<1>21. CASE Accept(p)
  <2>1. StoreTypeOK'
    BY <1>0, <1>21, AcquireLeaseType DEF Accept, TypeOK
  <2>2. job' \in [Proc -> Job]
    BY <1>0, <1>21 DEF Accept, TypeOK, Job
  <2>3. accepts' \in 0..AcceptBound
    BY <1>0, <1>21, ReviewAssumption DEF Accept, TypeOK
  <2>4. pc' \in [Proc -> Pc]
    BY <1>0, <1>21 DEF Accept, TypeOK, Pc
  <2> QED BY <1>0, <1>21, <2>1, <2>2, <2>3, <2>4 DEF Accept, TypeOK
<1>22. CASE SetDone(p)
  BY <1>0, <1>22, StoreKept DEF SetDone, TypeOK, Pc
<1>23. CASE RemoveLabels(p)
  BY <1>0, <1>23, StoreKept DEF RemoveLabels, TypeOK, Pc
<1>24. CASE FindAcceptance(p)
  BY <1>0, <1>24, StoreKept DEF FindAcceptance, AfterAcceptance, TypeOK, Pc
<1>25. CASE CreateAcceptance(p)
  BY <1>0, <1>25, StoreKept DEF CreateAcceptance, AfterAcceptance, TypeOK, Pc
<1>26. CASE Throws(p)
  BY <1>0, <1>26, FaultType, StoreKept DEF Throws, TypeOK, Pc
<1>27. CASE ResponseLost(p)
  <2>1. faults' \in 0..FaultBound /\ UNCHANGED <<moves, accepts, lapsed>>
    BY <1>0, <1>27, FaultType DEF ResponseLost, FaultHappens
  <2> QED BY <1>16, <1>17, <1>27, <2>1 DEF ResponseLost, Pc
<1>28. CASE Crash(p)
  <2>1. StoreTypeOK'
    BY <1>0, <1>28, ForgetCopiesType DEF Crash, TypeOK, StoreTypeOK
  <2> QED BY <1>0, <1>28, <2>1, FaultType, RowTypes DEF Crash, TypeOK, Pc
<1> QED BY <1>1, <1>2, <1>3, <1>4, <1>5, <1>6, <1>7, <1>8, <1>9, <1>10, <1>11, <1>12,
           <1>13, <1>14, <1>15, <1>18, <1>19, <1>20, <1>21, <1>22, <1>23, <1>24, <1>25,
           <1>26, <1>27, <1>28 DEF RunStep, RunFault

\* The clock and the worktree keep the types.
LEMMA OutsideTypeOK ==
  ASSUME TypeOK, Expire \/ Lapse \/ MoveHead
  PROVE  TypeOK'
<1> USE DEF LeaseLapses, linearVars, reviewVars, localVars, counters
<1>1. [work EXCEPT !.live = FALSE] \in Work
  BY DEF TypeOK, StoreTypeOK, Work
<1>2. CASE Expire
  BY <1>1, <1>2 DEF Expire, TypeOK, StoreTypeOK
<1>3. CASE Lapse
  BY <1>1, <1>3, FaultType DEF Lapse, TypeOK, StoreTypeOK
<1>4. CASE MoveHead
  BY <1>4, StoreKept, ReviewAssumption DEF MoveHead, TypeOK
<1> QED BY <1>2, <1>3, <1>4

-----------------------------------------------------------------------------
(* What a run has in hand *)

\* A run's step leaves the hands of the others, but for their fresh bits.
LEMMA OtherHands ==
  ASSUME TypeInv, NEW p \in Proc, Acquire(p) \/ Accept(p) \/ RunStep(p) \/ RunFault(p),
         NEW q \in Proc \ {p}
  PROVE  /\ pc'[q] = pc[q] /\ job'[q] = job[q]
         /\ held'[q].of = held[q].of /\ held'[q].row = held[q].row
         /\ held'[q].fresh => held[q].fresh
<1> USE DEF Goto, Intend, Throw, localVars
<1>0. /\ pc \in [Proc -> Pc] /\ job \in [Proc -> Job] /\ held \in [Proc -> HeldRow]
  BY DEF TypeInv, TypeOK
<1>1. \A row : SaveCodeReview(p, row) =>
        /\ held'[q].of = held[q].of /\ held'[q].row = held[q].row
        /\ held'[q].fresh => held[q].fresh
  <2> SUFFICES ASSUME NEW row, SaveCodeReview(p, row)
               PROVE  /\ held'[q].of = held[q].of /\ held'[q].row = held[q].row
                      /\ held'[q].fresh => held[q].fresh
    OBVIOUS
  <2>1. held'[q] = [held[q] EXCEPT !.fresh = held[q].fresh /\ held[q].of # held[p].of]
    BY DEF SaveCodeReview
  <2>2. held[q] \in HeldRow
    BY <1>0
  <2> QED BY <2>1, <2>2 DEF HeldRow
<1>2. CASE Acquire(p)
  BY <1>0, <1>2 DEF Acquire
<1>3. CASE Accept(p)
  BY <1>0, <1>3 DEF Accept
<1>4. CASE Enter(p) \/ Commit(p) \/ Rejected(p) \/ Release(p)
  BY <1>0, <1>4 DEF Enter, Commit, Rejected, Release
<1>5. CASE SetInReview(p) \/ LabelCodeReview(p) \/ ReadCurrent(p) \/ Assess(p)
  BY <1>0, <1>5 DEF SetInReview, LabelCodeReview, ReadCurrent, Assess
<1>6. CASE Identify(p)
  <2>1. pc'[q] = pc[q] /\ job'[q] = job[q]
    BY <1>0, <1>6 DEF Identify, Continue
  <2>2. held'[q] = held[q]
    BY <1>0, <1>6 DEF Identify
  <2> QED BY <2>1, <2>2
<1>7. CASE SaveRunning(p) \/ SaveVerdict(p) \/ SaveFailure(p) \/ Publish(p) \/ RecordApplied(p)
  <2>1. pc'[q] = pc[q] /\ job'[q] = job[q]
    BY <1>0, <1>7 DEF SaveRunning, SaveVerdict, SaveFailure, Publish, RecordApplied
  <2>2. \E row : SaveCodeReview(p, row)
    BY <1>7 DEF SaveRunning, SaveVerdict, SaveFailure, Publish, RecordApplied
  <2> QED BY <1>1, <2>1, <2>2
<1>8. CASE FindComment(p) \/ CreateComment(p) \/ ApplyLabels(p)
  BY <1>0, <1>8 DEF FindComment, CreateComment, ApplyLabels, WriteComment, WriteLabels
<1>9. CASE SetDone(p) \/ RemoveLabels(p) \/ FindAcceptance(p) \/ CreateAcceptance(p)
  BY <1>0, <1>9 DEF SetDone, RemoveLabels, FindAcceptance, CreateAcceptance
<1>10. CASE RunFault(p)
  BY <1>0, <1>10 DEF RunFault, Throws, ResponseLost, Crash, WriteComment, WriteLabels
<1> QED BY <1>2, <1>3, <1>4, <1>5, <1>6, <1>7, <1>8, <1>9, <1>10 DEF RunStep

\* There stays a newest row once there is one.
LEMMA NewestStays ==
  ASSUME TypeInv, NEW p \in Proc, Acquire(p) \/ Accept(p) \/ RunStep(p) \/ RunFault(p)
  PROVE  /\ newest \in Subject => newest' \in Subject
         /\ SomeNewest'
<1> USE DEF linearVars, reviewVars, localVars
<1>0. head \in Subject /\ reviews \in [Subject -> Row] /\ SomeNewest
  BY DEF TypeInv, TypeOK
<1>1. CASE UNCHANGED reviewVars
  BY <1>0, <1>1 DEF SomeNewest
<1>2. CASE Identify(p) /\ CreateCodeReview(head)
  <2>1. CASE reviews[head].status = "absent"
    BY <1>0, <1>2, <2>1 DEF CreateCodeReview, SomeNewest
  <2>2. CASE reviews[head].status # "absent"
    BY <1>0, <1>2, <2>2 DEF CreateCodeReview, SomeNewest
  <2> QED BY <2>1, <2>2
<1>3. CASE SaveRunning(p) \/ SaveVerdict(p) \/ SaveFailure(p) \/ Publish(p) \/ RecordApplied(p)
  <2>1. RowFence(p) /\ newest' = newest
    BY <1>3 DEF SaveRunning, SaveVerdict, SaveFailure, Publish, RecordApplied, SaveCodeReview
  <2>2. newest \in Subject
    BY <2>1 DEF TypeInv, Local, RowFence
  <2> QED BY <2>1, <2>2 DEF SomeNewest
<1> QED
  <2>1. Acquire(p) \/ Accept(p) \/ RunFault(p) => UNCHANGED reviewVars
    BY DEF Acquire, Accept, RunFault, Throws, ResponseLost, Crash, WriteComment, WriteLabels
  <2>2. \/ Enter(p) \/ Commit(p) \/ Rejected(p) \/ Release(p)
        \/ SetInReview(p) \/ LabelCodeReview(p) \/ ReadCurrent(p) \/ Assess(p)
        \/ FindComment(p) \/ CreateComment(p) \/ ApplyLabels(p)
        \/ SetDone(p) \/ RemoveLabels(p) \/ FindAcceptance(p) \/ CreateAcceptance(p)
        => UNCHANGED reviewVars
    BY DEF Enter, Commit, Rejected, Release, SetInReview, LabelCodeReview, ReadCurrent,
           Assess, FindComment, CreateComment, ApplyLabels, WriteComment, WriteLabels,
           SetDone, RemoveLabels, FindAcceptance, CreateAcceptance
  <2>3. Identify(p) => UNCHANGED reviewVars \/ CreateCodeReview(head)
    BY DEF Identify
  <2> QED BY <1>1, <1>2, <1>3, <2>1, <2>2, <2>3 DEF RunStep

\* A run's own hand.
LEMMA OwnLocal ==
  ASSUME TypeInv, NEW p \in Proc, Acquire(p) \/ Accept(p) \/ RunStep(p) \/ RunFault(p)
  PROVE  Local(p)'
<1> USE DEF Goto, Intend, Throw, localVars, ReviewPc, AcceptPc, Accepting, Failed
<1>0. /\ pc \in [Proc -> Pc] /\ job \in [Proc -> Job] /\ held \in [Proc -> HeldRow]
      /\ reviews \in [Subject -> Row] /\ head \in Subject
      /\ newest \in Subject \cup {NoSubject}
  BY DEF TypeInv, TypeOK
<1>a. Local(p)
  BY DEF TypeInv
<1>b. newest \in Subject => newest' \in Subject
  BY NewestStays
<1>c. job[p] \in Job /\ held[p] \in HeldRow
  BY <1>0
<1>d. \A e : /\ [job[p] EXCEPT !.event = e].event = e
             /\ [job[p] EXCEPT !.event = e].verdict = job[p].verdict
  BY <1>c DEF Job
<1>e. NoJob.event = "none" /\ NotHeld.fresh = FALSE
  BY DEF NoJob, NotHeld
<1>1. CASE Acquire(p)
  BY <1>0, <1>a, <1>b, <1>1 DEF Acquire, Local
<1>2. CASE Accept(p)
  <2>1. pc'[p] \in {"done", "find_acceptance", "release"} /\ Accepting(p)'
    BY <1>0, <1>2 DEF Accept
  <2> QED BY <1>a, <1>b, <1>2, <2>1 DEF Accept, Local
<1>3. CASE Enter(p)
  <2>1. pc'[p] \in {"in_review", "current", "release"} /\ pc[p] = "leased"
    BY <1>0, <1>3 DEF Enter, EntryOf
  <2> QED BY <1>a, <1>b, <1>3, <2>1 DEF Enter, Local
<1>4. CASE Commit(p) \/ Rejected(p)
  <2>1. pc'[p] = "release" /\ UNCHANGED localVars
    BY <1>0, <1>4 DEF Commit, Rejected
  <2> QED BY <1>a, <1>b, <2>1 DEF Local
<1>5. CASE Release(p)
  BY <1>0, <1>e, <1>5 DEF Release, Local
<1>6. CASE SetInReview(p)
  BY <1>0, <1>a, <1>b, <1>6 DEF SetInReview, Local
<1>7. CASE LabelCodeReview(p)
  BY <1>0, <1>a, <1>b, <1>d, <1>7 DEF LabelCodeReview, Local
<1>8. CASE ReadCurrent(p)
  <2>1. held'[p].fresh => held'[p].of = newest /\ newest \in Subject
    BY <1>0, <1>e, <1>8 DEF ReadCurrent
  <2> QED BY <1>0, <1>a, <1>b, <1>8, <2>1 DEF ReadCurrent, Local
<1>9. CASE Identify(p)
  <2>1. held'[p].fresh => held'[p].of \in Subject /\ newest' \in Subject
    <3>1. CASE held[p].of = head
      BY <1>9, <1>a, <1>b, <3>1 DEF Identify, Local
    <3>2. CASE held[p].of # head
      <4>1. held'[p] = [of |-> head, fresh |-> TRUE, row |-> reviews'[head]]
        BY <1>0, <1>9, <3>2 DEF Identify
      <4>2. newest' \in Subject
        BY <1>0, <1>9, <3>2 DEF Identify, CreateCodeReview, TypeInv, SomeNewest, reviewVars
      <4> QED BY <1>0, <4>1, <4>2
    <3> QED BY <3>1, <3>2
  <2>2. CASE pc'[p] \in {"start", "assess", "release"} /\ UNCHANGED job
    BY <1>a, <1>9, <2>1, <2>2 DEF Identify, Local
  <2>3. CASE /\ pc'[p] = IF Untold(held'[p].row) THEN "find" ELSE "commit"
             /\ HasEnded(held'[p].row)
             /\ job'[p] = [event |-> EventOf[held'[p].row.status],
                           verdict |-> held'[p].row.verdict, marker |-> head]
    <3>1. ~Accepting(p)'
      <4>1. EventOf[held'[p].row.status] \in Outcomes
        BY <2>3, RowTypes DEF HasEnded
      <4> QED BY <2>3, <4>1 DEF Outcomes
    <3> QED BY <2>1, <2>3, <3>1 DEF Local, Untold
  <2>4. HasEnded(held'[p].row) => held'[p].row.status # "running"
    BY RowTypes DEF HasEnded
  <2> QED BY <1>0, <1>9, <2>2, <2>3, <2>4 DEF Identify, Continue
<1>10. CASE SaveRunning(p)
  <2>1. [held[p].row EXCEPT !.status = "running"] \in Row
    BY <1>c, RowTypes DEF HeldRow
  <2>2. held'[p].of \in Subject /\ newest' \in Subject
    BY <1>10, <2>1, SaveType DEF SaveRunning
  <2> QED BY <1>0, <1>d, <1>10, <2>2 DEF SaveRunning, Local
<1>11. CASE Assess(p)
  <2>1. PICK v \in Verdict \cup {"failure"} : job' = [job EXCEPT ![p].verdict = v]
    BY <1>11 DEF Assess
  <2>2. job'[p].verdict # "none" /\ job'[p].event = job[p].event
    BY <1>0, <1>c, <2>1 DEF Job, Verdict
  <2> QED BY <1>0, <1>a, <1>b, <1>11, <2>2 DEF Assess, Local
<1>12. CASE SaveVerdict(p)
  <2>1. job[p].verdict \in Verdict
    BY <1>a, <1>c, <1>12 DEF SaveVerdict, Local, Job
  <2>2. [held[p].row EXCEPT !.status = StatusOf[job[p].verdict],
                            !.verdict = job[p].verdict] \in Row
    BY <1>c, <2>1, RowTypes DEF HeldRow
  <2>3. held'[p].of \in Subject /\ newest' \in Subject
    BY <1>12, <2>2, SaveType DEF SaveVerdict
  <2>4. job'[p].event \in Outcomes
    <3>1. job' = [job EXCEPT ![p].event = EventOf[StatusOf[job[p].verdict]],
                             ![p].marker = held'[p].of]
      BY <1>12 DEF SaveVerdict
    <3>2. job'[p].event = EventOf[StatusOf[job[p].verdict]]
      BY <1>0, <1>c, <3>1 DEF Job
    <3> QED BY <2>1, <3>2, RowTypes
  <2>5. pc'[p] = IF Untold(held'[p].row) THEN "find" ELSE "commit"
    BY <1>0, <1>12 DEF SaveVerdict
  <2> QED BY <2>3, <2>4, <2>5 DEF Local, Untold, Outcomes
<1>13. CASE SaveFailure(p)
  <2>1. [held[p].row EXCEPT !.status = "needs_human"] \in Row
    BY <1>c, RowTypes DEF HeldRow
  <2>2. held'[p].of \in Subject /\ newest' \in Subject
    BY <1>13, <2>1, SaveType DEF SaveFailure
  <2>3. job'[p].event = "CODE_REVIEW_NEEDS_HUMAN" /\ job'[p].verdict = "failure"
    BY <1>0, <1>c, <1>13 DEF SaveFailure, Job
  <2> QED BY <1>0, <1>13, <2>2, <2>3 DEF SaveFailure, Local
<1>14. CASE FindComment(p)
  <2>1. pc'[p] \in {"labels", "publish", "comment"}
    BY <1>0, <1>14 DEF FindComment
  <2> QED BY <1>a, <1>b, <1>14, <2>1 DEF FindComment, Local
<1>15. CASE Publish(p)
  <2>1. [held[p].row EXCEPT !.eli5 = TRUE] \in Row
    BY <1>c, RowTypes DEF HeldRow
  <2>2. held'[p].of \in Subject /\ newest' \in Subject
    BY <1>15, <2>1, SaveType DEF Publish
  <2>3. pc'[p] = IF held'[p].row.verdict = "none" THEN "release" ELSE "comment"
    BY <1>0, <1>15 DEF Publish
  <2> QED BY <1>a, <1>15, <2>2, <2>3 DEF Publish, Local
<1>16. CASE CreateComment(p) \/ ApplyLabels(p)
  <2>1. /\ pc'[p] \in {"labels", "applied"} /\ pc[p] \in {"comment", "labels"}
        /\ UNCHANGED localVars
    BY <1>0, <1>16 DEF CreateComment, ApplyLabels, WriteComment, WriteLabels
  <2> QED BY <1>a, <1>b, <2>1 DEF Local
<1>17. CASE RecordApplied(p)
  <2>1. [held[p].row EXCEPT !.applied = TRUE, !.eli5 = held[p].row.eli5 /\ ~Failed(p)] \in Row
    BY <1>c, RowTypes DEF HeldRow
  <2>2. held'[p].of \in Subject /\ newest' \in Subject
    BY <1>17, <2>1, SaveType DEF RecordApplied
  <2>3. pc'[p] = "commit"
    BY <1>0, <1>17 DEF RecordApplied
  <2> QED BY <1>a, <1>17, <2>2, <2>3 DEF RecordApplied, Local
<1>18. CASE SetDone(p) \/ RemoveLabels(p) \/ FindAcceptance(p) \/ CreateAcceptance(p)
  <2>1. /\ pc'[p] \in {"unlabel", "find_acceptance", "acceptance", "release", "commit"}
        /\ pc[p] \in AcceptPc
        /\ UNCHANGED localVars
    BY <1>0, <1>18 DEF SetDone, RemoveLabels, FindAcceptance, CreateAcceptance, AfterAcceptance
  <2> QED BY <1>a, <1>b, <2>1 DEF Local
<1>19. CASE Throws(p) \/ ResponseLost(p)
  <2>1. pc'[p] = "release" /\ UNCHANGED localVars
    BY <1>0, <1>19 DEF Throws, ResponseLost, WriteComment, WriteLabels
  <2> QED BY <1>a, <1>b, <2>1 DEF Local
<1>20. CASE Crash(p)
  BY <1>0, <1>e, <1>20 DEF Crash, Local
<1> QED BY <1>1, <1>2, <1>3, <1>4, <1>5, <1>6, <1>7, <1>8, <1>9, <1>10, <1>11, <1>12,
           <1>13, <1>14, <1>15, <1>16, <1>17, <1>18, <1>19, <1>20 DEF RunStep, RunFault

LEMMA TypeStep == TypeInv /\ [Next]_vars => TypeInv'
<1> SUFFICES ASSUME TypeInv, [Next]_vars PROVE TypeInv'
  OBVIOUS
<1>1. ASSUME NEW p \in Proc, Acquire(p) \/ Accept(p) \/ RunStep(p) \/ RunFault(p)
      PROVE  TypeInv'
  <2>1. TypeOK' /\ SomeNewest' /\ (newest \in Subject => newest' \in Subject)
    BY <1>1, RunTypeOK, NewestStays
  <2>2. ASSUME NEW q \in Proc \ {p} PROVE Local(q)'
    BY <1>1, <2>1, OtherHands DEF TypeInv, Local, Accepting, Failed
  <2>3. Local(p)'
    BY <1>1, OwnLocal
  <2> QED BY <2>1, <2>2, <2>3 DEF TypeInv
<1>2. CASE Expire \/ Lapse \/ MoveHead
  <2>1. UNCHANGED <<reviewVars, localVars, pc>>
    BY <1>2 DEF Expire, Lapse, MoveHead, LeaseLapses
  <2> QED BY <1>2, <2>1, OutsideTypeOK
          DEF TypeInv, SomeNewest, Local, Accepting, Failed, reviewVars, localVars
<1>3. CASE UNCHANGED vars
  BY <1>3, StoreKept DEF TypeInv, TypeOK, SomeNewest, Local, Accepting, Failed, vars,
     linearVars, reviewVars, localVars, counters
<1> QED BY <1>1, <1>2, <1>3 DEF Next

LEMMA TypeAlways == Spec => []TypeInv
BY InitType, TypeStep, PTL DEF Spec

\* TypeOK: the rows, the issue and every run hold values of their kinds,
\* whatever fails, lapses or moves.
THEOREM ReviewTypeCorrect == Spec => []TypeOK
<1>1. TypeInv => TypeOK
  BY DEF TypeInv
<1> QED BY <1>1, TypeAlways, PTL

-----------------------------------------------------------------------------
(* Who has the lease *)

LEMMA OneHolder ==
  ASSUME NEW p \in Proc, NEW q \in Proc, HoldsLease(p), HoldsLease(q)
  PROVE  p = q
BY ReviewAssumption DEF HoldsLease

\* Only some steps touch the work item or a copy of it, and a run stays what it
\* is until it ends.
LEMMA RunKind ==
  ASSUME TypeInv, NEW p \in Proc, RunStep(p) \/ RunFault(p)
  PROVE  /\ pc[p] # "idle"
         /\ pc'[p] # "idle" /\ Accepting(p) => Accepting(p)'
         /\ UNCHANGED <<work, workCopy>> \/ Commit(p) \/ Release(p) \/ Crash(p)
<1> USE DEF Goto, Intend, Throw, localVars, storeVars, ReviewPc, AcceptPc, Accepting
<1>0. /\ pc \in [Proc -> Pc] /\ job \in [Proc -> Job] /\ Local(p)
  BY DEF TypeInv, TypeOK
<1>1. CASE Enter(p) \/ Commit(p) \/ Rejected(p)
  BY <1>0, <1>1 DEF Enter, Commit, Rejected
<1>2. CASE Release(p)
  BY <1>0, <1>2 DEF Release
<1>3. CASE SetInReview(p) \/ LabelCodeReview(p) \/ ReadCurrent(p) \/ Assess(p)
  BY <1>0, <1>3 DEF SetInReview, LabelCodeReview, ReadCurrent, Assess, Local
<1>4. CASE Identify(p)
  BY <1>0, <1>4 DEF Identify, Local
<1>5. CASE SaveRunning(p) \/ SaveVerdict(p) \/ SaveFailure(p) \/ Publish(p) \/ RecordApplied(p)
  BY <1>0, <1>5 DEF SaveRunning, SaveVerdict, SaveFailure, Publish, RecordApplied, Local
<1>6. CASE FindComment(p) \/ CreateComment(p) \/ ApplyLabels(p)
  BY <1>0, <1>6 DEF FindComment, CreateComment, ApplyLabels, WriteComment, WriteLabels
<1>7. CASE SetDone(p) \/ RemoveLabels(p) \/ FindAcceptance(p) \/ CreateAcceptance(p)
  BY <1>0, <1>7 DEF SetDone, RemoveLabels, FindAcceptance, CreateAcceptance
<1>8. CASE Throws(p) \/ ResponseLost(p)
  BY <1>0, <1>8 DEF Throws, ResponseLost, WriteComment, WriteLabels, Calls
<1>9. CASE Crash(p)
  BY <1>0, <1>9 DEF Crash
<1> QED BY <1>1, <1>2, <1>3, <1>4, <1>5, <1>6, <1>7, <1>8, <1>9 DEF RunStep, RunFault

\* Nothing a run does makes a lease lapse.
LEMMA RunHistory ==
  ASSUME NEW p \in Proc, Acquire(p) \/ Accept(p) \/ RunStep(p) \/ RunFault(p)
  PROVE  UNCHANGED <<moves, lapsed>>
<1> USE DEF counters
<1>1. Acquire(p) \/ Accept(p) => UNCHANGED <<moves, lapsed>>
  BY DEF Acquire, Accept
<1>2. RunFault(p) => UNCHANGED <<moves, lapsed>>
  BY DEF RunFault, Throws, ResponseLost, Crash, FaultHappens
<1>3. RunStep(p) => UNCHANGED counters
  BY DEF RunStep, Enter, Commit, Rejected, Release, SetInReview, LabelCodeReview, ReadCurrent,
         Identify, SaveRunning, Assess, SaveVerdict, SaveFailure, FindComment, Publish,
         CreateComment, ApplyLabels, RecordApplied, SetDone, RemoveLabels, FindAcceptance,
         CreateAcceptance
<1> QED BY <1>1, <1>2, <1>3

LEMMA LeaseRun ==
  ASSUME TypeInv, LeaseInv, NEW p \in Proc,
         Acquire(p) \/ Accept(p) \/ RunStep(p) \/ RunFault(p)
  PROVE  LeaseInv'
<1>0. /\ pc \in [Proc -> Pc] /\ work \in Work /\ workCopy \in [Proc -> WorkCopy]
      /\ lapsed' = lapsed
  BY RunHistory DEF TypeInv, TypeOK, StoreTypeOK
<1>1. \A q \in Proc \ {p} : pc'[q] = pc[q] /\ (Accepting(q)' <=> Accepting(q))
  BY OtherHands DEF Accepting
<1>2. CASE Acquire(p) \/ Accept(p)
  <2>1. AcquireLease(p)
    BY <1>2 DEF Acquire, Accept
  <2>2. HoldsLease(p)' /\ workCopy'[p] = CopyOfWork(work')
    BY <1>0, <2>1 DEF AcquireLease, BumpWork, HoldsLease, Work
  <2>3. ASSUME NEW q \in Proc \ {p} PROVE ~HoldsLease(q)'
    BY <2>2, <2>3, ReviewAssumption DEF HoldsLease
  <2>4. ASSUME NEW q \in Proc PROVE ~HoldsLease(q)
    BY <1>0, <2>1, StoreAssumption DEF AcquireLease, LeaseFree, HoldsLease
  <2> QED BY <1>0, <1>1, <2>2, <2>3, <2>4 DEF LeaseInv, Known, Leased
<1>3. CASE RunStep(p) \/ RunFault(p)
  <2>1. /\ pc[p] # "idle"
        /\ pc'[p] # "idle" /\ ~Accepting(p)' => ~Accepting(p)
    BY <1>3, RunKind
  <2>2. CASE UNCHANGED <<work, workCopy>>
    BY <1>0, <1>1, <2>1, <2>2 DEF LeaseInv, Known, Leased, HoldsLease
  <2>3. CASE Commit(p)
    <3>1. /\ work'.owner = work.owner /\ work'.live = work.live /\ HoldsLease(p)
          /\ workCopy'[p] = CopyOfWork(work')
      BY <1>0, <2>3 DEF Commit, Transition, WorkFence, BumpWork, Work
    <3>2. \A q \in Proc \ {p} : ~HoldsLease(q)'
      BY <3>1, ReviewAssumption DEF HoldsLease
    <3>3. HoldsLease(p)'
      BY <3>1 DEF HoldsLease
    <3>4. \A q \in Proc \ {p} : ~HoldsLease(q)
      BY <3>1, OneHolder
    <3> QED BY <1>0, <1>1, <2>1, <3>1, <3>2, <3>3, <3>4 DEF LeaseInv, Known, Leased
  <2>4. CASE Release(p)
    <3>1. pc'[p] = "idle" /\ \A q \in Proc \ {p} : workCopy'[q] = workCopy[q]
      BY <1>0, <2>4 DEF Release, Goto, ForgetCopies
    <3>2. ReleaseLease(p)
      BY <2>4 DEF Release
    <3>3. CASE work.owner = OwnerOf[p]
      <4>1. \A q \in Proc \ {p} : ~HoldsLease(q)
        BY <3>3, ReviewAssumption DEF HoldsLease
      <4>2. work'.live = FALSE
        BY <1>0, <3>2, <3>3 DEF ReleaseLease, Work
      <4>3. \A q \in Proc : ~HoldsLease(q)'
        BY <4>2 DEF HoldsLease
      <4> QED BY <1>0, <1>1, <3>1, <4>1, <4>3 DEF LeaseInv, Known, Leased
    <3>4. CASE work.owner # OwnerOf[p]
      <4>1. work' = work
        BY <3>2, <3>4 DEF ReleaseLease
      <4> QED BY <1>0, <1>1, <3>1, <4>1 DEF LeaseInv, Known, Leased, HoldsLease
    <3> QED BY <3>3, <3>4
  <2>5. CASE Crash(p)
    <3>1. /\ pc'[p] = "idle" /\ work' = work
          /\ \A q \in Proc \ {p} : workCopy'[q] = workCopy[q]
      BY <1>0, <2>5 DEF Crash, Goto, ForgetCopies
    <3> QED BY <1>0, <1>1, <3>1 DEF LeaseInv, Known, Leased, HoldsLease
  <2> QED BY <1>3, <2>2, <2>3, <2>4, <2>5, RunKind
<1> QED BY <1>2, <1>3

LEMMA LeaseOutside ==
  ASSUME TypeInv, LeaseInv, Expire \/ Lapse \/ MoveHead
  PROVE  LeaseInv'
<1>0. work \in Work
  BY DEF TypeInv, TypeOK, StoreTypeOK
<1>1. CASE Expire
  <2>1. /\ work'.live = FALSE /\ UNCHANGED <<pc, job, lapsed>>
        /\ \A q \in Proc : ~(HoldsLease(q) /\ pc[q] # "idle" /\ ~Accepting(q))
    BY <1>0, <1>1 DEF Expire, LeaseLapses, Renewed, localVars, counters, Work, Accepting
  <2> QED BY <2>1 DEF LeaseInv, Known, Leased, HoldsLease, Accepting
<1>2. CASE Lapse
  <2>1. work'.live = FALSE /\ lapsed'
    BY <1>0, <1>2 DEF Lapse, LeaseLapses, Work
  <2> QED BY <2>1 DEF LeaseInv, Known, HoldsLease
<1>3. CASE MoveHead
  BY <1>3 DEF MoveHead, LeaseInv, Known, Leased, HoldsLease, storeVars, localVars, Accepting
<1> QED BY <1>1, <1>2, <1>3

LEMMA LeaseStep == TypeInv /\ LeaseInv /\ [Next]_vars => LeaseInv'
<1> SUFFICES ASSUME TypeInv, LeaseInv, [Next]_vars PROVE LeaseInv'
  OBVIOUS
<1>1. CASE UNCHANGED vars
  BY <1>1 DEF vars, storeVars, localVars, counters, LeaseInv, Known, Leased, HoldsLease,
     Accepting
<1> QED BY <1>1, LeaseRun, LeaseOutside DEF Next

\* While no lease has lapsed, a run that reviews knows the work item, and all
\* other runs accept.
LEMMA Alone ==
  ASSUME TypeInv, LeaseInv, ~lapsed, NEW p \in Proc, pc[p] # "idle", ~Accepting(p)
  PROVE  /\ HoldsLease(p)
         /\ workCopy[p] = CopyOfWork(work) /\ workCopy[p].state = work.state
         /\ WorkFence(p)
         /\ \A q \in Proc \ {p} : pc[q] = "idle" \/ Accepting(q)
<1>1. HoldsLease(p) /\ workCopy[p] = CopyOfWork(work)
  BY DEF LeaseInv, Leased, Known
<1>2. workCopy[p].state = work.state /\ workCopy[p].fresh
  BY <1>1 DEF CopyOfWork
<1>3. \A q \in Proc \ {p} : pc[q] = "idle" \/ Accepting(q)
  BY <1>1, OneHolder DEF LeaseInv, Leased
<1> QED BY <1>1, <1>2, <1>3 DEF WorkFence

-----------------------------------------------------------------------------
(* Steps that leave the records alone *)

recordVars == <<head, reviews, newest, comments, labels, issue, acceptances, moves>>

\* Nothing needs to be prepared for a run that begins or ends.
LEMMA Unprepared ==
  ASSUME NEW p \in Proc, pc'[p] \in {"idle", "leased", "release"}
  PROVE  Prepared(p)'
BY DEF Prepared, Telling, AcceptPc

\* While the execution's review goes on, a run of the coordinator is alone: all
\* other runs are about to end.
LEMMA OthersEnd ==
  ASSUME TypeInv, LeaseInv, ~lapsed, Story, NEW p \in Proc, pc[p] # "idle", ~Accepting(p),
         work.state \notin Accepted, NEW q \in Proc \ {p}
  PROVE  pc[q] \in {"idle", "release"}
<1>1. pc[q] = "idle" \/ Accepting(q)
  BY Alone
<1>2. pc[q] \in Pc /\ Local(q) /\ Prepared(q)
  BY DEF TypeInv, TypeOK, Story
<1>3. CASE Accepting(q) /\ pc[q] # "idle"
  <2>1. pc[q] \notin ReviewPc
    BY <1>2, <1>3 DEF Local
  <2>2. pc[q] \notin AcceptPc
    BY <1>2 DEF Prepared
  <2>3. pc[q] # "commit"
    BY <1>2, <1>3 DEF Prepared, Ready, Accepting
  <2> QED BY <1>2, <2>1, <2>2, <2>3 DEF Pc, ReviewPc, AcceptPc
<1> QED BY <1>1, <1>3

\* What is prepared stays so while nothing it is about changes.
LEMMA StaysPrepared ==
  ASSUME NEW q \in Proc, Prepared(q), UNCHANGED recordVars, work'.state = work.state,
         pc'[q] = pc[q], job'[q] = job[q], held'[q] = held[q]
  PROVE  Prepared(q)'
BY DEF Prepared, Ready, InHand, Shown, Failed, Accepting, recordVars

LEMMA RecordsStay ==
  ASSUME Records, UNCHANGED recordVars, work'.state = work.state
  PROVE  Records'
BY DEF Records, RowSound, HeadIsNew, AppliedIsShown, Shown, Stage, VerdictIsShown,
       AcceptanceIsShown, recordVars

\* A step of run p by which it reads, decides or ends.
LEMMA Quiet ==
  ASSUME Story, NEW p \in Proc, UNCHANGED recordVars, work'.state = work.state,
         \A q \in Proc \ {p} : pc'[q] = pc[q] /\ job'[q] = job[q] /\ held'[q] = held[q],
         Prepared(p)'
  PROVE  Story'
<1>1. \A q \in Proc \ {p} : Prepared(q)'
  BY StaysPrepared DEF Story
<1> QED BY <1>1, RecordsStay DEF Story

LEMMA QuietStory ==
  ASSUME TypeInv, LeaseInv, Story, ~lapsed, NEW p \in Proc,
         \/ Acquire(p) \/ Accept(p) \/ Enter(p) \/ Rejected(p) \/ Release(p)
         \/ ReadCurrent(p) \/ Assess(p) \/ FindComment(p) \/ FindAcceptance(p)
         \/ Throws(p) \/ Crash(p)
  PROVE  Story'
<1> USE DEF Goto, Throw, localVars, storeVars, linearVars, reviewVars, counters
<1>0. /\ pc \in [Proc -> Pc] /\ job \in [Proc -> Job] /\ held \in [Proc -> HeldRow]
      /\ work \in Work /\ acceptances \in Nat
      /\ Local(p) /\ Prepared(p) /\ Records
  BY DEF TypeInv, TypeOK, StoreTypeOK, Story
<1>1. moves' = moves
  BY RunHistory DEF RunStep, RunFault
<1>2. ASSUME AcquireLease(p)
      PROVE  work'.state = work.state
  BY <1>0, <1>2 DEF AcquireLease, Work
<1>3. CASE Acquire(p)
  <2>1. pc'[p] = "leased"
    BY <1>0, <1>3 DEF Acquire
  <2>2. UNCHANGED recordVars /\ work'.state = work.state
    BY <1>0, <1>1, <1>2, <1>3 DEF Acquire, recordVars
  <2>3. \A q \in Proc \ {p} : pc'[q] = pc[q] /\ job'[q] = job[q] /\ held'[q] = held[q]
    BY <1>0, <1>3 DEF Acquire
  <2> QED BY <2>1, <2>2, <2>3, Quiet, Unprepared
<1>4. CASE Accept(p)
  <2>1. work'.state = work.state /\ job'[p].event = "ACCEPT_IMPLEMENTATION"
    BY <1>0, <1>2, <1>4 DEF Accept, Job
  <2>2. \/ pc'[p] = "done" /\ work.state = "awaiting_acceptance"
        \/ pc'[p] = "find_acceptance" /\ work.state = "completed"
        \/ pc'[p] = "release"
    BY <1>0, <1>4 DEF Accept
  <2>3. work.state = "completed" => issue = "done" /\ labels = {}
    BY <1>0 DEF Records, AcceptanceIsShown
  <2>4. UNCHANGED recordVars
    BY <1>1, <1>4 DEF Accept, recordVars
  <2>5. Prepared(p)'
    BY <2>1, <2>2, <2>3, <2>4 DEF Prepared, Telling, AcceptPc, Accepted, recordVars
  <2>6. \A q \in Proc \ {p} : pc'[q] = pc[q] /\ job'[q] = job[q] /\ held'[q] = held[q]
    BY <1>0, <1>4 DEF Accept
  <2> QED BY <2>1, <2>4, <2>5, <2>6, Quiet
<1>5. CASE Enter(p)
  <2>1. workCopy[p].state = work.state
    BY <1>0, <1>5, Alone DEF Enter, Local, ReviewPc
  <2>2. \/ pc'[p] = "in_review" /\ work.state = "succeeded"
        \/ pc'[p] = "current" /\ work.state \in {"code_review_pending", "code_reviewing"}
        \/ pc'[p] = "release"
    BY <1>0, <1>5, <2>1 DEF Enter, EntryOf
  <2>3. Prepared(p)'
    BY <1>5, <2>2 DEF Enter, Prepared, Telling, AcceptPc
  <2> QED BY <1>0, <1>1, <1>5, <2>3, Quiet DEF Enter, recordVars
<1>6. CASE Rejected(p) \/ Throws(p)
  <2>1. pc'[p] = "release"
    BY <1>0, <1>6 DEF Rejected, Throws
  <2>2. UNCHANGED recordVars /\ work'.state = work.state
    BY <1>0, <1>1, <1>6, <2>1 DEF Rejected, Throws, recordVars
  <2>3. \A q \in Proc \ {p} : pc'[q] = pc[q] /\ job'[q] = job[q] /\ held'[q] = held[q]
    BY <1>0, <1>6 DEF Rejected, Throws
  <2> QED BY <2>1, <2>2, <2>3, Quiet, Unprepared
<1>7. CASE Release(p)
  <2>1. pc'[p] = "idle" /\ work'.state = work.state
    BY <1>0, <1>7 DEF Release, ReleaseLease, Work
  <2>2. UNCHANGED recordVars /\ work'.state = work.state
    BY <1>0, <1>1, <1>7, <2>1 DEF Release, recordVars
  <2>3. \A q \in Proc \ {p} : pc'[q] = pc[q] /\ job'[q] = job[q] /\ held'[q] = held[q]
    BY <1>0, <1>7 DEF Release
  <2> QED BY <2>1, <2>2, <2>3, Quiet, Unprepared
<1>8. CASE Crash(p)
  <2>1. pc'[p] = "idle"
    BY <1>0, <1>8 DEF Crash
  <2>2. UNCHANGED recordVars /\ work'.state = work.state
    BY <1>0, <1>1, <1>8, <2>1 DEF Crash, recordVars
  <2>3. \A q \in Proc \ {p} : pc'[q] = pc[q] /\ job'[q] = job[q] /\ held'[q] = held[q]
    BY <1>0, <1>8 DEF Crash
  <2> QED BY <2>1, <2>2, <2>3, Quiet, Unprepared
<1>9. CASE ReadCurrent(p)
  <2>1. UNCHANGED <<recordVars, work>> /\ pc'[p] = "identify"
    BY <1>0, <1>1, <1>9 DEF ReadCurrent, recordVars
  <2>2. work.state \in {"code_review_pending", "code_reviewing"}
    BY <1>0, <1>9 DEF ReadCurrent, Prepared
  <2>3. held'[p].of = NoSubject \/ InHand(p)'
    BY <1>0, <1>9 DEF ReadCurrent, InHand, NotHeld, TypeInv, TypeOK
  <2>4. Prepared(p)'
    BY <2>1, <2>2, <2>3 DEF Prepared, Telling, AcceptPc
  <2> QED BY <1>0, <1>9, <2>1, <2>4, Quiet DEF ReadCurrent
<1>10. CASE Assess(p)
  <2>1. UNCHANGED <<recordVars, work, held>> /\ pc'[p] = "save" /\ pc[p] = "assess"
    BY <1>0, <1>1, <1>10 DEF Assess, recordVars
  <2>2. Prepared(p)'
    BY <1>0, <2>1 DEF Prepared, InHand, Telling, AcceptPc, recordVars
  <2> QED BY <1>0, <1>10, <2>1, <2>2, Quiet DEF Assess
<1>11. CASE FindComment(p)
  <2>1. /\ UNCHANGED <<recordVars, work, held, job>> /\ pc[p] = "find"
        /\ \/ pc'[p] = "labels" /\ comments[job[p].marker] # << >>
           \/ pc'[p] \in {"publish", "comment"} /\ comments[job[p].marker] = << >>
    BY <1>0, <1>1, <1>11 DEF FindComment, recordVars
  <2>2. Prepared(p)'
    BY <1>0, <2>1 DEF Prepared, InHand, Failed, Telling, AcceptPc, recordVars
  <2> QED BY <1>0, <1>11, <2>1, <2>2, Quiet DEF FindComment
<1>12. CASE FindAcceptance(p)
  <2>1. /\ UNCHANGED <<recordVars, work, held, job>> /\ pc[p] = "find_acceptance"
        /\ \/ pc'[p] = "acceptance"
           \/ pc'[p] = "commit" /\ acceptances # 0
           \/ pc'[p] = "release"
    BY <1>0, <1>1, <1>12 DEF FindAcceptance, AfterAcceptance, recordVars
  <2>2. Accepting(p)
    BY <1>0, <2>1 DEF Local, AcceptPc
  <2>3. Prepared(p)'
    BY <1>0, <2>1, <2>2
    DEF Prepared, Ready, Accepting, Telling, AcceptPc, recordVars
  <2> QED BY <1>0, <1>12, <2>1, <2>3, Quiet DEF FindAcceptance
<1> QED BY <1>3, <1>4, <1>5, <1>6, <1>7, <1>8, <1>9, <1>10, <1>11, <1>12

-----------------------------------------------------------------------------
(* Steps that write *)

\* A run at work on the review: it is alone, so its own hand is all there is to
\* show.
LEMMA Working ==
  ASSUME TypeInv, LeaseInv, Story, ~lapsed, NEW p \in Proc,
         pc[p] \in ReviewPc \ {"leased"} \/ (pc[p] = "commit" /\ ~Accepting(p))
  PROVE  /\ work.state \notin Accepted
         /\ WorkFence(p) /\ workCopy[p].state = work.state
         /\ \A q \in Proc \ {p} : pc[q] \in {"idle", "release"}
<1>1. Local(p) /\ Prepared(p)
  BY DEF TypeInv, Story
<1>2. pc[p] # "idle" /\ ~Accepting(p)
  BY <1>1 DEF Local, ReviewPc
<1>3. work.state \notin Accepted
  BY <1>1, <1>2 DEF Prepared, Ready, Accepting, Telling, ReviewPc, Accepted
<1> QED BY <1>2, <1>3, Alone, OthersEnd

LEMMA WorkingStory ==
  ASSUME TypeInv, LeaseInv, Story, ~lapsed, NEW p \in Proc, RunStep(p) \/ RunFault(p),
         pc[p] \in ReviewPc \ {"leased"} \/ (pc[p] = "commit" /\ ~Accepting(p)),
         Records', Prepared(p)'
  PROVE  Story'
<1>1. \A q \in Proc \ {p} : pc'[q] \in {"idle", "release"}
  BY Working, OtherHands
<1> QED BY <1>1, Unprepared DEF Story

\* Work that is under review shows no verdict and is not accepted.
LEMMA UnderReviewShowsNothing ==
  ASSUME work'.state \in {"succeeded", "code_review_pending", "code_reviewing"}
  PROVE  VerdictIsShown' /\ AcceptanceIsShown'
BY DEF VerdictIsShown, AcceptanceIsShown

\* beginReview
LEMMA BeginStory ==
  ASSUME TypeInv, LeaseInv, Story, ~lapsed, NEW p \in Proc,
         SetInReview(p) \/ LabelCodeReview(p)
  PROVE  Story'
<1> USE DEF Goto, Intend, localVars, storeVars, reviewVars, counters
<1>0. /\ pc \in [Proc -> Pc] /\ job \in [Proc -> Job] /\ work.state = "succeeded"
      /\ pc[p] \in {"in_review", "label"}
  BY DEF TypeInv, TypeOK, Story, Prepared, SetInReview, LabelCodeReview
<1>1. UNCHANGED <<work, head, reviews, newest, comments, moves>> /\ issue' # "done"
  BY <1>0 DEF SetInReview, LabelCodeReview, Story, Records, Stage, Accepted
<1>2. Records'
  <2>1. VerdictIsShown' /\ AcceptanceIsShown'
    BY <1>0, <1>1, UnderReviewShowsNothing
  <2>2. (\A s \in Subject : RowSound(s))' /\ HeadIsNew'
    BY <1>1 DEF Story, Records, RowSound, HeadIsNew
  <2>3. AppliedIsShown' /\ Stage'
    BY <1>0, <1>1 DEF Story, Records, AppliedIsShown, Stage, Accepted
  <2> QED BY <2>1, <2>2, <2>3 DEF Records
<1>3. Prepared(p)'
  <2>1. CASE SetInReview(p)
    <3>1. pc'[p] = "label"
      BY <1>0, <2>1 DEF SetInReview
    <3> QED BY <1>0, <1>1, <3>1 DEF Prepared, Telling, AcceptPc
  <2>2. CASE LabelCodeReview(p)
    <3>1. pc'[p] = "commit" /\ job'[p].event = "BEGIN_CODE_REVIEW"
      BY <1>0, <2>2 DEF LabelCodeReview, Job
    <3> QED BY <1>0, <1>1, <3>1 DEF Prepared, Ready, Telling, AcceptPc, Accepting
  <2> QED BY <2>1, <2>2
<1> QED BY <1>0, <1>2, <1>3, WorkingStory DEF RunStep, ReviewPc

\* ensureReview: whatever run p found, it has the newest review in hand.
LEMMA IdentifiedRow ==
  ASSUME TypeInv, Story, NEW p \in Proc, Identify(p)
  PROVE  /\ InHand(p)' /\ newest' = head /\ head \in Subject
         /\ \/ reviews' = reviews /\ newest = head
            \/ reviews[head].status = "absent" /\ reviews' = [reviews EXCEPT ![head] = NewRow]
<1>0. /\ head \in Subject /\ head # NoSubject /\ held \in [Proc -> HeldRow]
      /\ reviews \in [Subject -> Row] /\ HeadIsNew /\ Prepared(p)
  BY ReviewAssumption DEF TypeInv, TypeOK, Story, Records
<1>1. CASE held[p].of = head
  <2>1. InHand(p)
    BY <1>0, <1>1 DEF Identify, Prepared
  <2>2. newest = head
    BY <1>1, <2>1 DEF InHand
  <2> QED BY <1>0, <1>1, <2>1, <2>2 DEF Identify, InHand, reviewVars
<1>2. CASE held[p].of # head
  <2>1. held'[p] = [of |-> head, fresh |-> TRUE, row |-> reviews'[head]]
    BY <1>0, <1>2 DEF Identify
  <2>2. CASE reviews[head].status = "absent"
    BY <1>0, <1>2, <2>1, <2>2 DEF Identify, CreateCodeReview, InHand
  <2>3. CASE reviews[head].status # "absent"
    BY <1>0, <1>2, <2>1, <2>3 DEF Identify, CreateCodeReview, InHand, HeadIsNew, reviewVars
  <2> QED BY <2>2, <2>3
<1> QED BY <1>1, <1>2

LEMMA IdentifyStory ==
  ASSUME TypeInv, LeaseInv, Story, ~lapsed, NEW p \in Proc, Identify(p)
  PROVE  Story'
<1> USE DEF Goto, Throw, localVars, storeVars, linearVars, counters
<1>0. /\ pc \in [Proc -> Pc] /\ job \in [Proc -> Job] /\ held \in [Proc -> HeldRow]
      /\ reviews \in [Subject -> Row] /\ reviews' \in [Subject -> Row]
      /\ Prepared(p) /\ Records
  BY RunTypeOK DEF TypeInv, TypeOK, Story, RunStep
<1>1. /\ UNCHANGED <<work, head, comments, labels, issue, acceptances, moves>>
      /\ pc[p] = "identify"
  BY DEF Identify
<1>2. /\ InHand(p)' /\ newest' = head /\ head \in Subject
      /\ \/ reviews' = reviews /\ newest = head
         \/ reviews[head].status = "absent" /\ reviews' = [reviews EXCEPT ![head] = NewRow]
  BY IdentifiedRow
<1>3. work.state \in {"code_review_pending", "code_reviewing"} /\ workCopy[p].state = work.state
  BY <1>0, <1>1, Working DEF Prepared, ReviewPc
<1>4. /\ NewRow.status = "pending" /\ NewRow.status \notin Concluded
      /\ NewRow.verdict = "none" /\ NewRow.applied = FALSE
  BY RowTypes DEF NewRow, NoRow
<1>a. "absent" \notin Concluded /\ "running" \notin Concluded
  BY RowTypes
<1>5. Records'
  <2>1. VerdictIsShown' /\ AcceptanceIsShown'
    BY <1>1, <1>3, UnderReviewShowsNothing
  <2>2. (\A s \in Subject : RowSound(s))'
    BY <1>0, <1>1, <1>2, <1>4, <1>a DEF Records, RowSound
  <2>3. HeadIsNew'
    BY <1>0, <1>1, <1>2, <1>4 DEF Records, HeadIsNew
  <2>4. AppliedIsShown'
    <3>1. CASE reviews' = reviews /\ newest = head
      BY <1>0, <1>1, <1>2, <3>1 DEF Records, AppliedIsShown, Shown
    <3>2. CASE reviews' = [reviews EXCEPT ![head] = NewRow]
      BY <1>0, <1>2, <1>4, <3>2 DEF AppliedIsShown
    <3> QED BY <1>2, <3>1, <3>2
  <2>5. Stage'
    BY <1>0, <1>1, <1>2, <1>4 DEF Records, Stage
  <2> QED BY <2>1, <2>2, <2>3, <2>4, <2>5 DEF Records
<1>6. held'[p].row = reviews'[newest']
  BY <1>2 DEF InHand
<1>7. Prepared(p)'
  <2>1. CASE work.state = "code_review_pending"
    <3>1. pc'[p] = "start"
      BY <1>0, <1>3, <2>1 DEF Identify, Continue
    <3> QED BY <1>1, <1>2, <2>1, <3>1 DEF Prepared, Telling, AcceptPc
  <2>2. CASE work.state = "code_reviewing" /\ held'[p].row.status = "running"
    <3>1. pc'[p] = "assess"
      BY <1>0, <1>3, <1>a, <2>2 DEF Identify, Continue, HasEnded
    <3> QED BY <1>1, <1>2, <1>6, <2>2, <3>1 DEF Prepared, Telling, AcceptPc
  <2>3. CASE work.state = "code_reviewing" /\ HasEnded(held'[p].row)
    <3>1. /\ pc'[p] = IF Untold(held'[p].row) THEN "find" ELSE "commit"
          /\ job'[p] = [event |-> EventOf[held'[p].row.status],
                        verdict |-> held'[p].row.verdict, marker |-> head]
      BY <1>0, <1>3, <1>a, <2>3 DEF Identify, Continue, HasEnded
    <3>2. reviews'[newest'] \in Row
      BY <1>0, <1>2
    <3>3. reviews'[newest'].verdict # "failure" /\ reviews'[newest'].status \in Concluded
      BY <1>6, <2>3, <3>2 DEF Row, Verdict, HasEnded
    <3>4. CASE Untold(held'[p].row)
      BY <1>1, <1>2, <1>6, <2>3, <3>1, <3>3, <3>4
      DEF Prepared, Failed, Untold, Telling, AcceptPc
    <3>5. CASE ~Untold(held'[p].row)
      <4>1. reviews'[newest'].verdict # "none" => Shown(newest)'
        BY <1>1, <1>2, <1>5, <1>6, <2>3, <3>5 DEF Records, AppliedIsShown, Untold
      <4>2. EventOf[reviews'[newest'].status] \in Outcomes
        BY <3>3, RowTypes
      <4>3. Ready(p)'
        BY <1>1, <1>2, <1>6, <2>3, <3>1, <3>3, <4>1, <4>2 DEF Ready, Accepting, Outcomes
      <4> QED BY <3>1, <3>5, <4>3 DEF Prepared, Telling, AcceptPc
    <3> QED BY <3>4, <3>5
  <2>4. CASE /\ work.state = "code_reviewing" /\ held'[p].row.status # "running"
             /\ ~HasEnded(held'[p].row)
    <3>1. pc'[p] = "release"
      BY <1>0, <1>3, <2>4 DEF Identify, Continue
    <3> QED BY <3>1, Unprepared
  <2> QED BY <1>3, <2>1, <2>2, <2>3, <2>4
<1> QED BY <1>1, <1>5, <1>7, WorkingStory DEF RunStep, ReviewPc

\* saveCodeReview with the newest review in hand: its row is written and read back.
LEMMA SavedInHand ==
  ASSUME TypeInv, Records, NEW p \in Proc, InHand(p), NEW row \in Row, row.status # "absent",
         SaveCodeReview(p, row), UNCHANGED <<head, moves>>
  PROVE  /\ reviews' = [reviews EXCEPT ![newest] = row] /\ newest' = newest
         /\ reviews'[newest'] = row /\ held'[p].row = row /\ held'[p].of = newest
         /\ InHand(p)'
         /\ HeadIsNew'
<1>0. newest \in Subject /\ held[p].of = newest /\ reviews \in [Subject -> Row]
  BY DEF InHand, TypeInv, TypeOK
<1>1. /\ reviews' = [reviews EXCEPT ![newest] = row] /\ newest' = newest
      /\ held'[p] = [of |-> newest, fresh |-> TRUE, row |-> reviews'[newest]]
  BY <1>0, SaveType
<1>2. reviews'[newest'] = row
  BY <1>0, <1>1
<1>3. HeadIsNew'
  BY <1>0, <1>1 DEF Records, HeadIsNew
<1> QED BY <1>0, <1>1, <1>2, <1>3 DEF InHand

\* A row that is saved in the course of a review keeps the records.
LEMMA SavedRecords ==
  ASSUME TypeInv, Records, newest \in Subject, NEW row \in Row,
         reviews' = [reviews EXCEPT ![newest] = row], newest' = newest, HeadIsNew',
         UNCHANGED <<work, comments, labels, issue>>,
         work.state \in {"code_review_pending", "code_reviewing"},
         RowSound(newest)',
         row.applied /\ row.verdict # "none" => Shown(newest)',
         work.state = "code_review_pending" => row.status \notin Concluded
  PROVE  Records'
<1>0. reviews \in [Subject -> Row]
  BY DEF TypeInv, TypeOK
<1>1. VerdictIsShown' /\ AcceptanceIsShown'
  BY UnderReviewShowsNothing
<1>2. (\A s \in Subject : RowSound(s))'
  <2>1. ASSUME NEW s \in Subject \ {newest} PROVE RowSound(s)'
    BY <1>0 DEF Records, RowSound
  <2> QED BY <2>1
<1>3. AppliedIsShown'
  BY <1>0 DEF AppliedIsShown
<1>4. Stage'
  BY <1>0 DEF Records, Stage, Accepted
<1> QED BY <1>1, <1>2, <1>3, <1>4 DEF Records

\* What a save of the row names, and what it leaves.
LEMMA RowEdits ==
  ASSUME NEW row \in Row, NEW s, NEW v, NEW b
  PROVE  /\ LET new == [row EXCEPT !.status = s]
            IN new.status = s /\ new.verdict = row.verdict /\ new.applied = row.applied
         /\ LET new == [row EXCEPT !.status = s, !.verdict = v]
            IN new.status = s /\ new.verdict = v /\ new.applied = row.applied
         /\ LET new == [row EXCEPT !.eli5 = b]
            IN /\ new.status = row.status /\ new.verdict = row.verdict
               /\ new.applied = row.applied
         /\ LET new == [row EXCEPT !.applied = TRUE, !.eli5 = b]
            IN new.status = row.status /\ new.verdict = row.verdict /\ new.applied = TRUE
BY DEF Row

LEMMA SaveRunningStory ==
  ASSUME TypeInv, LeaseInv, Story, ~lapsed, NEW p \in Proc, SaveRunning(p)
  PROVE  Story'
<1> USE DEF Goto, Intend, localVars, storeVars, linearVars, counters
<1> DEFINE row == [held[p].row EXCEPT !.status = "running"]
<1>0. /\ pc \in [Proc -> Pc] /\ job \in [Proc -> Job] /\ held \in [Proc -> HeldRow]
      /\ reviews \in [Subject -> Row] /\ pc[p] = "start"
      /\ Prepared(p) /\ Records
  BY DEF TypeInv, TypeOK, Story, SaveRunning
<1>1. InHand(p) /\ work.state = "code_review_pending"
  BY <1>0 DEF Prepared
<1>2. /\ newest \in Subject /\ held[p].row = reviews[newest] /\ reviews[newest] \in Row
  BY <1>0, <1>1 DEF InHand
<1>3. /\ row \in Row /\ row.status = "running" /\ row.verdict = reviews[newest].verdict
      /\ row.applied = reviews[newest].applied
  <2>1. row \in Row
    BY <1>2, RowTypes
  <2> QED BY <1>2, <2>1, RowEdits
<1>4. /\ reviews' = [reviews EXCEPT ![newest] = row] /\ newest' = newest
      /\ reviews'[newest'] = row /\ HeadIsNew'
  BY <1>0, <1>1, <1>3, SavedInHand DEF SaveRunning
<1>5. /\ reviews[newest].status \notin Concluded /\ "running" \notin Concluded
      /\ RowSound(newest)
  BY <1>0, <1>1, <1>2, RowTypes DEF Records, Stage
<1>6. RowSound(newest)'
  BY <1>3, <1>4, <1>5 DEF RowSound, SaveRunning
<1>7. Records'
  BY <1>0, <1>1, <1>2, <1>3, <1>4, <1>5, <1>6, SavedRecords DEF SaveRunning, RowSound
<1>8. Prepared(p)'
  <2>1. pc'[p] = "commit" /\ job'[p].event = "CODE_REVIEW_STARTED" /\ work' = work
    BY <1>0 DEF SaveRunning, Job
  <2> QED BY <1>1, <2>1 DEF Prepared, Ready, Accepting, Telling, AcceptPc
<1> QED BY <1>0, <1>7, <1>8, WorkingStory DEF RunStep, ReviewPc

\* The assessment's end is stored, and then told.
LEMMA SaveVerdictStory ==
  ASSUME TypeInv, LeaseInv, Story, ~lapsed, NEW p \in Proc, SaveVerdict(p)
  PROVE  Story'
<1> USE DEF Goto, localVars, storeVars, linearVars, counters
<1> DEFINE v == job[p].verdict
           row == [held[p].row EXCEPT !.status = StatusOf[v], !.verdict = v]
<1>0. /\ pc \in [Proc -> Pc] /\ job \in [Proc -> Job] /\ held \in [Proc -> HeldRow]
      /\ reviews \in [Subject -> Row] /\ pc[p] = "save" /\ v # "failure"
      /\ Prepared(p) /\ Records /\ Local(p)
  BY DEF TypeInv, TypeOK, Story, SaveVerdict
<1>1. /\ InHand(p) /\ work.state = "code_reviewing"
      /\ reviews[newest].status = "running"
  BY <1>0 DEF Prepared
<1>2. /\ newest \in Subject /\ held[p].row = reviews[newest] /\ reviews[newest] \in Row
  BY <1>0, <1>1 DEF InHand
<1>3. v \in Verdict /\ StatusOf[v] \in Concluded /\ v # "none"
  BY <1>0, RowTypes DEF Local, Job, Verdict
<1>4. /\ row \in Row /\ row.status = StatusOf[v] /\ row.verdict = v
      /\ row.applied = reviews[newest].applied /\ row.status # "absent"
  <2>1. row \in Row /\ StatusOf[v] # "absent"
    BY <1>2, <1>3, RowTypes
  <2> QED BY <1>2, <2>1, RowEdits
<1>5. /\ reviews' = [reviews EXCEPT ![newest] = row] /\ newest' = newest
      /\ reviews'[newest'] = row /\ held'[p].row = row /\ held'[p].of = newest
      /\ InHand(p)' /\ HeadIsNew'
  BY <1>0, <1>1, <1>4, SavedInHand DEF SaveVerdict
<1>6. ~reviews[newest].applied /\ comments[newest] = << >>
  <2>1. RowSound(newest) /\ "running" \notin Concluded
    BY <1>0, <1>2, RowTypes DEF Records
  <2> QED BY <1>1, <2>1 DEF RowSound
<1>7. RowSound(newest)'
  BY <1>3, <1>4, <1>5, <1>6 DEF RowSound, SaveVerdict
<1>8. Records'
  BY <1>0, <1>1, <1>2, <1>4, <1>5, <1>6, <1>7, SavedRecords DEF SaveVerdict
<1>9. Prepared(p)'
  <2>1. pc'[p] = "find"
    BY <1>0, <1>3, <1>4, <1>5, <1>6 DEF SaveVerdict, Untold
  <2>2. job' = [job EXCEPT ![p].event = EventOf[StatusOf[v]], ![p].marker = held'[p].of]
    BY DEF SaveVerdict
  <2>3. /\ job'[p].event = EventOf[StatusOf[v]] /\ job'[p].marker = newest
        /\ job'[p].verdict = v
    BY <1>0, <1>5, <2>2 DEF Job
  <2>4. work' = work
    BY DEF SaveVerdict
  <2> QED BY <1>0, <1>1, <1>3, <1>4, <1>5, <2>1, <2>3, <2>4
          DEF Prepared, Failed, Telling, AcceptPc
<1> QED BY <1>0, <1>8, <1>9, WorkingStory DEF RunStep, ReviewPc

LEMMA SaveFailureStory ==
  ASSUME TypeInv, LeaseInv, Story, ~lapsed, NEW p \in Proc, SaveFailure(p)
  PROVE  Story'
<1> USE DEF Goto, localVars, storeVars, linearVars, counters
<1> DEFINE row == [held[p].row EXCEPT !.status = "needs_human"]
<1>0. /\ pc \in [Proc -> Pc] /\ job \in [Proc -> Job] /\ held \in [Proc -> HeldRow]
      /\ reviews \in [Subject -> Row] /\ pc[p] = "save" /\ job[p].verdict = "failure"
      /\ Prepared(p) /\ Records
  BY DEF TypeInv, TypeOK, Story, SaveFailure
<1>1. /\ InHand(p) /\ work.state = "code_reviewing"
      /\ reviews[newest].status = "running"
  BY <1>0 DEF Prepared
<1>2. /\ newest \in Subject /\ held[p].row = reviews[newest] /\ reviews[newest] \in Row
  BY <1>0, <1>1 DEF InHand
<1>3. /\ ~reviews[newest].applied /\ comments[newest] = << >>
      /\ reviews[newest].verdict = "none"
  <2>1. RowSound(newest) /\ "running" \notin Concluded
    BY <1>0, <1>2, RowTypes DEF Records
  <2> QED BY <1>1, <2>1 DEF RowSound
<1>4. /\ row \in Row /\ row.status = "needs_human" /\ row.verdict = "none"
      /\ row.applied = reviews[newest].applied /\ "needs_human" \in Concluded
  <2>1. row \in Row /\ "needs_human" \in Concluded
    BY <1>2, RowTypes
  <2> QED BY <1>2, <1>3, <2>1, RowEdits
<1>5. /\ reviews' = [reviews EXCEPT ![newest] = row] /\ newest' = newest
      /\ reviews'[newest'] = row /\ held'[p].row = row /\ held'[p].of = newest
      /\ InHand(p)' /\ HeadIsNew'
  BY <1>0, <1>1, <1>4, SavedInHand DEF SaveFailure
<1>6. RowSound(newest)'
  BY <1>3, <1>4, <1>5 DEF RowSound, SaveFailure
<1>7. Records'
  BY <1>0, <1>1, <1>2, <1>4, <1>5, <1>6, SavedRecords DEF SaveFailure
<1>8. Prepared(p)'
  <2>1. pc'[p] = "find"
    BY <1>0 DEF SaveFailure
  <2>2. job' = [job EXCEPT ![p].event = "CODE_REVIEW_NEEDS_HUMAN", ![p].marker = held'[p].of]
    BY DEF SaveFailure
  <2>3. /\ job'[p].event = EventOf["needs_human"] /\ job'[p].marker = newest
        /\ job'[p].verdict = "failure"
    BY <1>0, <1>5, <2>2 DEF Job, EventOf
  <2>4. work' = work
    BY DEF SaveFailure
  <2> QED BY <1>0, <1>1, <1>4, <1>5, <2>1, <2>3, <2>4
          DEF Prepared, Failed, Telling, AcceptPc
<1> QED BY <1>0, <1>7, <1>8, WorkingStory DEF RunStep, ReviewPc

-----------------------------------------------------------------------------
(* Telling the end of a review *)

\* What a run that tells the end of a review can rely on.
LEMMA ToldRow ==
  ASSUME TypeInv, Story, NEW p \in Proc, pc[p] \in Telling
  PROVE  /\ newest \in Subject /\ InHand(p) /\ work.state = "code_reviewing"
         /\ held[p].row = reviews[newest] /\ reviews[newest] \in Row
         /\ reviews[newest].status \in Concluded /\ RowSound(newest)
         /\ reviews[newest].status # "absent"
         /\ job[p].marker = newest
         /\ job[p].event = EventOf[reviews[newest].status]
         /\ job[p].event \in Outcomes /\ ~Accepting(p)
         /\ Failed(p) <=> reviews[newest].verdict = "none"
<1>1. Prepared(p) /\ Records
  BY DEF Story
<1>2. /\ InHand(p) /\ reviews[newest].status \in Concluded
      /\ job[p].event = EventOf[reviews[newest].status]
  BY <1>1 DEF Prepared
<1>3. newest \in Subject /\ held[p].row = reviews[newest] /\ reviews[newest] \in Row
  BY <1>2 DEF InHand, TypeInv, TypeOK
<1>4. job[p].event \in Outcomes /\ reviews[newest].status # "absent"
  BY <1>2, RowTypes
<1> QED BY <1>1, <1>2, <1>3, <1>4 DEF Prepared, Records, Outcomes, Accepting

\* ensureEli5Publication
LEMMA PublishStory ==
  ASSUME TypeInv, LeaseInv, Story, ~lapsed, NEW p \in Proc, Publish(p)
  PROVE  Story'
<1> USE DEF Goto, localVars, storeVars, linearVars, counters
<1> DEFINE row == [held[p].row EXCEPT !.eli5 = TRUE]
<1>0. /\ pc \in [Proc -> Pc] /\ reviews \in [Subject -> Row] /\ pc[p] = "publish"
      /\ pc[p] \in Telling /\ Prepared(p) /\ Records /\ Local(p)
  BY DEF TypeInv, TypeOK, Story, Publish, Telling
<1>1. /\ newest \in Subject /\ InHand(p) /\ work.state = "code_reviewing"
      /\ held[p].row = reviews[newest] /\ reviews[newest] \in Row
      /\ reviews[newest].status \in Concluded /\ RowSound(newest)
      /\ reviews[newest].status # "absent"
  BY <1>0, ToldRow
<1>2. /\ row \in Row /\ row.status = reviews[newest].status
      /\ row.verdict = reviews[newest].verdict /\ row.applied = reviews[newest].applied
  <2>1. row \in Row
    BY <1>1, RowTypes
  <2> QED BY <1>1, <2>1, RowEdits
<1>3. /\ reviews' = [reviews EXCEPT ![newest] = row] /\ newest' = newest
      /\ reviews'[newest'] = row /\ held'[p].row = row /\ held'[p].of = newest
      /\ InHand(p)' /\ HeadIsNew'
  BY <1>0, <1>1, <1>2, SavedInHand DEF Publish
<1>4. UNCHANGED <<work, comments, labels, issue, job, moves, head>>
  BY DEF Publish
<1>5. RowSound(newest)'
  BY <1>1, <1>2, <1>3, <1>4 DEF RowSound
<1>6. row.applied /\ row.verdict # "none" => Shown(newest)'
  BY <1>0, <1>1, <1>2, <1>3, <1>4 DEF Records, AppliedIsShown, Shown
<1>7. Records'
  BY <1>0, <1>1, <1>2, <1>3, <1>4, <1>5, <1>6, SavedRecords
<1>8. Prepared(p)'
  <2>1. pc'[p] \in {"comment", "release"}
    BY <1>0 DEF Publish
  <2>2. comments[newest] = << >>
    BY <1>0 DEF Prepared
  <2>3. CASE pc'[p] = "comment"
    BY <1>0, <1>1, <1>2, <1>3, <1>4, <2>2, <2>3 DEF Prepared, Failed, Telling, AcceptPc
  <2> QED BY <2>1, <2>3, Unprepared
<1> QED BY <1>0, <1>7, <1>8, WorkingStory DEF RunStep, ReviewPc

\* The comment is written, whether its author hears of it or not.
LEMMA WriteCommentStory ==
  ASSUME TypeInv, LeaseInv, Story, ~lapsed, NEW p \in Proc, pc[p] = "comment",
         NEW label \in {"labels", "release"}, WriteComment(p, label), UNCHANGED moves,
         RunStep(p) \/ RunFault(p)
  PROVE  Story'
<1> USE DEF Goto, localVars, storeVars, reviewVars
<1> DEFINE said == IF reviews[newest].verdict = "none" THEN "failure"
                   ELSE reviews[newest].verdict
<1>0. /\ pc \in [Proc -> Pc] /\ comments \in [Subject -> Seq(Verdict \cup {"failure"})]
      /\ pc[p] \in Telling /\ Prepared(p) /\ Records
  BY DEF TypeInv, TypeOK, Story, Telling
<1>1. /\ newest \in Subject /\ InHand(p) /\ work.state = "code_reviewing"
      /\ held[p].row = reviews[newest]
      /\ reviews[newest].status \in Concluded /\ RowSound(newest)
      /\ job[p].marker = newest
      /\ Failed(p) <=> reviews[newest].verdict = "none"
  BY <1>0, ToldRow
<1>2. comments[newest] = << >>
  BY <1>0 DEF Prepared
<1>3. comments' = [comments EXCEPT ![newest] = <<said>>]
  <2>1. comments' = [comments EXCEPT ![newest] = Append(<< >>, said)]
    BY <1>0, <1>1, <1>2 DEF WriteComment
  <2> QED BY <2>1
<1>4. UNCHANGED <<work, head, reviews, newest, labels, issue, acceptances, held, job, moves>>
  BY DEF WriteComment
<1>5. comments'[newest] = <<said>> /\ comments'[newest] # << >>
  BY <1>0, <1>1, <1>3
<1>6. Records'
  <2>1. VerdictIsShown' /\ AcceptanceIsShown'
    BY <1>1, <1>4, UnderReviewShowsNothing
  <2>2. (\A s \in Subject : RowSound(s))'
    BY <1>0, <1>1, <1>3, <1>4, <1>5 DEF Records, RowSound
  <2>3. HeadIsNew' /\ Stage'
    BY <1>0, <1>4 DEF Records, HeadIsNew, Stage
  <2>4. AppliedIsShown'
    BY <1>0, <1>1, <1>2, <1>4, <1>5 DEF Records, AppliedIsShown, Shown
  <2> QED BY <2>1, <2>2, <2>3, <2>4 DEF Records
<1>7. Prepared(p)'
  <2>1. pc'[p] = label
    BY <1>0 DEF WriteComment
  <2>2. CASE label = "labels"
    BY <1>0, <1>1, <1>4, <1>5, <2>1, <2>2 DEF Prepared, InHand, Failed, Telling, AcceptPc
  <2> QED BY <2>1, <2>2, Unprepared
<1> QED BY <1>6, <1>7, WorkingStory DEF ReviewPc

\* projectReviewLabels, and the labels of a failure.
LEMMA WriteLabelsStory ==
  ASSUME TypeInv, LeaseInv, Story, ~lapsed, NEW p \in Proc, pc[p] = "labels",
         NEW label \in {"applied", "release"}, WriteLabels(p, label), UNCHANGED moves,
         RunStep(p) \/ RunFault(p)
  PROVE  Story'
<1> USE DEF Goto, localVars, storeVars, reviewVars
<1>0. pc \in [Proc -> Pc] /\ pc[p] \in Telling /\ Prepared(p) /\ Records
  BY DEF TypeInv, TypeOK, Story, Telling
<1>1. /\ newest \in Subject /\ InHand(p) /\ work.state = "code_reviewing"
      /\ held[p].row = reviews[newest]
      /\ Failed(p) <=> reviews[newest].verdict = "none"
  BY <1>0, ToldRow
<1>2. /\ UNCHANGED <<work, head, reviews, newest, comments, issue, acceptances, held, job,
                     moves>>
      /\ reviews[newest].verdict # "none" => labels' = {LabelOf(reviews[newest].status)}
  BY <1>1 DEF WriteLabels, LabelsAfter
<1>3. Records'
  <2>1. VerdictIsShown' /\ AcceptanceIsShown'
    BY <1>1, <1>2, UnderReviewShowsNothing
  <2>2. (\A s \in Subject : RowSound(s))' /\ HeadIsNew'
    BY <1>0, <1>2 DEF Records, RowSound, HeadIsNew
  <2>3. AppliedIsShown' /\ Stage'
    BY <1>0, <1>1, <1>2 DEF Records, AppliedIsShown, Shown, Stage, Accepted
  <2> QED BY <2>1, <2>2, <2>3 DEF Records
<1>4. Prepared(p)'
  <2>1. pc'[p] = label
    BY <1>0 DEF WriteLabels
  <2>2. CASE label = "applied"
    BY <1>0, <1>1, <1>2, <2>1, <2>2 DEF Prepared, InHand, Failed, Telling, AcceptPc
  <2> QED BY <2>1, <2>2, Unprepared
<1> QED BY <1>3, <1>4, WorkingStory DEF ReviewPc

\* The end of project and of projectFailure: the row says that it has been told.
LEMMA RecordAppliedStory ==
  ASSUME TypeInv, LeaseInv, Story, ~lapsed, NEW p \in Proc, RecordApplied(p)
  PROVE  Story'
<1> USE DEF Goto, localVars, storeVars, linearVars, counters
<1> DEFINE b == held[p].row.eli5 /\ ~Failed(p)
           row == [held[p].row EXCEPT !.applied = TRUE, !.eli5 = b]
<1>0. /\ pc \in [Proc -> Pc] /\ reviews \in [Subject -> Row] /\ pc[p] = "applied"
      /\ pc[p] \in Telling /\ Prepared(p) /\ Records
  BY DEF TypeInv, TypeOK, Story, RecordApplied, Telling
<1>1. /\ newest \in Subject /\ InHand(p) /\ work.state = "code_reviewing"
      /\ held[p].row = reviews[newest] /\ reviews[newest] \in Row
      /\ reviews[newest].status \in Concluded /\ RowSound(newest)
      /\ reviews[newest].status # "absent"
      /\ job[p].event = EventOf[reviews[newest].status]
      /\ job[p].event \in Outcomes /\ ~Accepting(p)
      /\ Failed(p) <=> reviews[newest].verdict = "none"
  BY <1>0, ToldRow
<1>2. /\ row \in Row /\ row.status = reviews[newest].status
      /\ row.verdict = reviews[newest].verdict /\ row.applied = TRUE
  <2>1. b \in BOOLEAN
    BY <1>1 DEF Row
  <2>2. row \in Row
    BY <1>1, <2>1, RowTypes
  <2> QED BY <1>1, <2>2, RowEdits
<1>3. /\ reviews' = [reviews EXCEPT ![newest] = row] /\ newest' = newest
      /\ reviews'[newest'] = row /\ HeadIsNew'
  BY <1>0, <1>1, <1>2, SavedInHand DEF RecordApplied
<1>4. UNCHANGED <<work, comments, labels, issue, job, moves, head>>
  BY DEF RecordApplied
<1>5. RowSound(newest)'
  BY <1>1, <1>2, <1>3, <1>4 DEF RowSound
<1>6. row.verdict # "none" => Shown(newest)'
  <2>1. comments[newest] # << >>
    BY <1>0 DEF Prepared
  <2>2. reviews[newest].verdict # "none" => labels = {LabelOf(reviews[newest].status)}
    BY <1>0, <1>1 DEF Prepared
  <2>3. reviews[newest].verdict # "none" => comments[newest] = <<reviews[newest].verdict>>
    BY <1>1, <2>1 DEF RowSound
  <2> QED BY <1>2, <1>3, <1>4, <2>2, <2>3 DEF Shown
<1>7. Records'
  BY <1>0, <1>1, <1>2, <1>3, <1>4, <1>5, <1>6, SavedRecords
<1>8. Prepared(p)'
  <2>1. pc'[p] = "commit"
    BY <1>0 DEF RecordApplied
  <2>2. Ready(p)'
    BY <1>1, <1>2, <1>3, <1>4, <1>6 DEF Ready, Accepting, Outcomes
  <2> QED BY <2>1, <2>2 DEF Prepared, Telling, AcceptPc
<1> QED BY <1>0, <1>7, <1>8, WorkingStory DEF RunStep, ReviewPc

-----------------------------------------------------------------------------
(* The work item moves *)

\* Where the events of a review lead.
LEMMA ReviewMoves ==
  /\ NextState("succeeded", "BEGIN_CODE_REVIEW") = "code_review_pending"
  /\ NextState("code_review_pending", "CODE_REVIEW_STARTED") = "code_reviewing"
  /\ NextState("code_reviewing", EventOf["passed"]) = "awaiting_acceptance"
  /\ NextState("code_reviewing", EventOf["changes_requested"]) = "changes_requested"
  /\ NextState("code_reviewing", EventOf["needs_human"]) = "needs_human"
  /\ ~Accepts("completed", "ACCEPT_IMPLEMENTATION")
  /\ NextState("awaiting_acceptance", "ACCEPT_IMPLEMENTATION") = "completed"
BY DEF NextState, Accepts, On, EventOf

\* beginReview and startReview end.
LEMMA CommitStartStory ==
  ASSUME TypeInv, LeaseInv, Story, ~lapsed, NEW p \in Proc, Commit(p),
         job[p].event \in {"BEGIN_CODE_REVIEW", "CODE_REVIEW_STARTED"}
  PROVE  Story'
<1> USE DEF Goto, linearVars, reviewVars, localVars, counters
<1>0. /\ pc \in [Proc -> Pc] /\ pc[p] = "commit" /\ ~Accepting(p) /\ work \in Work
      /\ Prepared(p) /\ Records /\ Ready(p)
  BY DEF TypeInv, TypeOK, StoreTypeOK, Story, Commit, Prepared, Accepting
<1>1. /\ work'.state = NextState(work.state, job[p].event)
      /\ UNCHANGED recordVars /\ pc'[p] = "release"
  BY <1>0 DEF Commit, Transition, recordVars, Work
<1>2. \/ work.state = "succeeded" /\ work'.state = "code_review_pending"
      \/ work.state = "code_review_pending" /\ work'.state = "code_reviewing"
  BY <1>0, <1>1, ReviewMoves DEF Ready
<1>3. Records'
  <2>1. VerdictIsShown' /\ AcceptanceIsShown'
    BY <1>2, UnderReviewShowsNothing
  <2>2. (\A s \in Subject : RowSound(s))' /\ HeadIsNew'
    BY <1>0, <1>1 DEF Records, RowSound, HeadIsNew, recordVars
  <2>3. AppliedIsShown'
    BY <1>0, <1>1, <1>2 DEF Records, AppliedIsShown, Stage, RowSound, recordVars
  <2>4. Stage'
    BY <1>0, <1>1, <1>2 DEF Records, Stage, Accepted, recordVars
  <2> QED BY <2>1, <2>2, <2>3, <2>4 DEF Records
<1>4. Prepared(p)'
  BY <1>1, Unprepared
<1> QED BY <1>0, <1>3, <1>4, WorkingStory DEF RunStep

\* The outcome moves the work item, and is shown.
LEMMA CommitOutcomeStory ==
  ASSUME TypeInv, LeaseInv, Story, ~lapsed, NEW p \in Proc, Commit(p), ~Accepting(p),
         job[p].event \notin {"BEGIN_CODE_REVIEW", "CODE_REVIEW_STARTED"}
  PROVE  Story'
<1> USE DEF Goto, linearVars, reviewVars, localVars, counters
<1> DEFINE row == reviews[newest]
           to == NextState("code_reviewing", EventOf[row.status])
<1>0. /\ pc \in [Proc -> Pc] /\ pc[p] = "commit" /\ work \in Work
      /\ Prepared(p) /\ Records /\ Ready(p)
  BY DEF TypeInv, TypeOK, StoreTypeOK, Story, Commit, Prepared
<1>1. /\ work.state = "code_reviewing" /\ newest \in Subject /\ row.status \in Concluded
      /\ job[p].event = EventOf[row.status]
      /\ row.verdict # "none" => Shown(newest)
  BY <1>0 DEF Ready
<1>2. /\ work'.state = to /\ UNCHANGED recordVars /\ pc'[p] = "release"
  BY <1>0, <1>1 DEF Commit, Transition, recordVars, Work
<1>3. /\ row.verdict = "none" => row.status = "needs_human"
      /\ row.verdict # "none" => row.status = StatusOf[row.verdict]
  BY <1>0, <1>1 DEF Records, RowSound
<1>4. \/ row.status = "passed" /\ to = "awaiting_acceptance"
      \/ row.status = "changes_requested" /\ to = "changes_requested"
      \/ row.status = "needs_human" /\ to = "needs_human"
  BY <1>1, RowTypes, ReviewMoves
<1>5. issue # "done"
  BY <1>0, <1>1 DEF Records, Stage, Accepted
<1>6. Records'
  <2>1. VerdictIsShown'
    <3>1. row.verdict = "none" => work'.state = "needs_human"
      BY <1>2, <1>3, <1>4
    <3>2. row.verdict # "none" =>
            /\ work'.state = NextState("code_reviewing", EventOf[StatusOf[row.verdict]])
            /\ comments[newest] = <<row.verdict>> /\ labels = {LabelOf(row.status)}
      BY <1>1, <1>2, <1>3 DEF Shown
    <3> QED BY <1>2, <3>1, <3>2 DEF VerdictIsShown, recordVars
  <2>2. AcceptanceIsShown' /\ AppliedIsShown'
    BY <1>2, <1>4 DEF AcceptanceIsShown, AppliedIsShown
  <2>3. (\A s \in Subject : RowSound(s))' /\ HeadIsNew'
    BY <1>0, <1>2 DEF Records, RowSound, HeadIsNew, recordVars
  <2>4. Stage'
    <3>1. row.status = "passed" => row.verdict # "none" /\ labels = {"passed"}
      BY <1>1, <1>3 DEF Shown, LabelOf
    <3> QED BY <1>2, <1>4, <1>5, <3>1 DEF Stage, Accepted, recordVars
  <2> QED BY <2>1, <2>2, <2>3, <2>4 DEF Records
<1>7. Prepared(p)'
  BY <1>2, Unprepared
<1> QED BY <1>0, <1>6, <1>7, WorkingStory DEF RunStep

-----------------------------------------------------------------------------
(* Acceptance *)

\* Once the work may be accepted, only people's runs have something prepared,
\* and the way to acceptance does not lead back.
LEMMA AcceptedStays ==
  ASSUME TypeInv, NEW q \in Proc, Prepared(q), work.state \in Accepted,
         work'.state \in Accepted,
         issue = "done" => issue' = "done", labels = {} => labels' = {},
         acceptances > 0 => acceptances' > 0,
         pc'[q] = pc[q], job'[q] = job[q]
  PROVE  Prepared(q)'
<1>1. pc[q] \in Pc /\ Local(q)
  BY DEF TypeInv, TypeOK
<1>2. \/ pc[q] \in {"idle", "leased", "release"}
      \/ pc[q] \in AcceptPc
      \/ pc[q] = "commit" /\ Accepting(q)
  BY <1>1 DEF Pc, Prepared, Ready, Accepting, Accepted, Telling, AcceptPc
<1>3. CASE pc[q] \in {"idle", "leased", "release"}
  BY <1>3, Unprepared
<1>4. CASE pc[q] \in AcceptPc
  BY <1>4 DEF Prepared, AcceptPc, Telling
<1>5. CASE pc[q] = "commit" /\ Accepting(q)
  BY <1>5 DEF Prepared, Ready, Accepting, AcceptPc, Telling
<1> QED BY <1>2, <1>3, <1>4, <1>5

LEMMA AcceptedRecords ==
  ASSUME Records, work.state \in Accepted, work'.state \in Accepted,
         UNCHANGED <<head, reviews, newest, comments, moves>>,
         issue' = "done", labels' \subseteq {"passed"},
         work'.state = "completed" => labels' = {} /\ acceptances' > 0
  PROVE  Records'
<1>1. VerdictIsShown' /\ AcceptanceIsShown'
  BY DEF VerdictIsShown, AcceptanceIsShown
<1>2. (\A s \in Subject : RowSound(s))' /\ HeadIsNew'
  BY DEF Records, RowSound, HeadIsNew
<1>3. AppliedIsShown' /\ Stage'
  BY DEF AppliedIsShown, Stage, Accepted
<1> QED BY <1>1, <1>2, <1>3 DEF Records

\* acceptMastermindWork tells Linear first.
LEMMA AcceptStory ==
  ASSUME TypeInv, Story, NEW p \in Proc,
         SetDone(p) \/ RemoveLabels(p) \/ CreateAcceptance(p)
  PROVE  Story'
<1> USE DEF Goto, storeVars, reviewVars, localVars, counters
<1>0. /\ pc \in [Proc -> Pc] /\ acceptances \in Nat /\ Prepared(p) /\ Records /\ Local(p)
  BY DEF TypeInv, TypeOK, Story
<1>1. /\ UNCHANGED <<work, head, reviews, newest, comments, moves, job>>
      /\ \A q \in Proc \ {p} : pc'[q] = pc[q]
  BY <1>0 DEF SetDone, RemoveLabels, CreateAcceptance
<1>2. pc[p] \in AcceptPc
  BY DEF SetDone, RemoveLabels, CreateAcceptance, AcceptPc
<1>3. Accepting(p) /\ work.state \in Accepted /\ labels \subseteq {"passed"}
  BY <1>0, <1>2 DEF Prepared, Local, Records, Stage
<1>4. work.state = "completed" => labels = {} /\ acceptances > 0
  BY <1>0 DEF Records, AcceptanceIsShown
<1>5. issue' = "done" /\ (pc[p] # "done" => issue = "done")
  BY <1>0 DEF SetDone, RemoveLabels, CreateAcceptance, Prepared
<1>6. /\ labels' \subseteq {"passed"} /\ (labels = {} => labels' = {})
      /\ acceptances > 0 => acceptances' > 0
  <2>1. labels' \subseteq labels
    BY DEF SetDone, RemoveLabels, CreateAcceptance
  <2>2. acceptances' = acceptances \/ acceptances' = acceptances + 1
    BY DEF SetDone, RemoveLabels, CreateAcceptance
  <2>3. acceptances > 0 => acceptances' > 0
    BY <1>0, <2>2
  <2> QED BY <1>3, <2>1, <2>3
<1>7. Records'
  BY <1>0, <1>1, <1>3, <1>4, <1>5, <1>6, AcceptedRecords
<1>8. \A q \in Proc \ {p} : Prepared(q)'
  BY <1>1, <1>3, <1>5, <1>6, AcceptedStays DEF Story
<1>9. Prepared(p)'
  <2>1. CASE SetDone(p)
    <3>1. pc'[p] = "unlabel"
      BY <1>0, <2>1 DEF SetDone
    <3> QED BY <1>1, <1>3, <1>5, <3>1 DEF Prepared, Telling, AcceptPc
  <2>2. CASE RemoveLabels(p)
    <3>1. pc'[p] = "find_acceptance" /\ labels' = {}
      BY <1>0, <1>3, <2>2 DEF RemoveLabels
    <3> QED BY <1>1, <1>3, <1>5, <3>1 DEF Prepared, Telling, AcceptPc
  <2>3. CASE CreateAcceptance(p)
    <3>1. pc'[p] \in {"commit", "release"}
      BY <1>0, <2>3 DEF CreateAcceptance, AfterAcceptance
    <3>2. labels' = {} /\ acceptances' > 0
      BY <1>0, <2>3 DEF CreateAcceptance, Prepared
    <3>3. pc'[p] = "commit" => Prepared(p)'
      BY <1>1, <1>3, <1>5, <3>2 DEF Prepared, Ready, Accepting, Telling, AcceptPc
    <3> QED BY <3>1, <3>3, Unprepared
  <2> QED BY <2>1, <2>2, <2>3
<1> QED BY <1>7, <1>8, <1>9 DEF Story

\* Acceptance is committed when all of it has been told.
LEMMA CommitAcceptanceStory ==
  ASSUME TypeInv, Story, NEW p \in Proc, Commit(p), Accepting(p)
  PROVE  Story'
<1> USE DEF Goto, linearVars, reviewVars, localVars, counters
<1>0. /\ pc \in [Proc -> Pc] /\ pc[p] = "commit" /\ work \in Work
      /\ Prepared(p) /\ Records /\ Ready(p)
  BY DEF TypeInv, TypeOK, StoreTypeOK, Story, Commit, Prepared
<1>1. /\ acceptances > 0 /\ issue = "done" /\ labels = {} /\ work.state \in Accepted
      /\ job[p].event = "ACCEPT_IMPLEMENTATION"
  BY <1>0 DEF Ready, Accepting
<1>2. /\ UNCHANGED <<recordVars, job>> /\ pc'[p] = "release"
      /\ \A q \in Proc \ {p} : pc'[q] = pc[q]
      /\ Accepts(work.state, job[p].event)
      /\ work'.state = NextState(work.state, job[p].event)
  BY <1>0 DEF Commit, Transition, recordVars, Work
<1>3. work'.state = "completed"
  BY <1>1, <1>2, ReviewMoves DEF Accepted
<1>4. Records'
  BY <1>0, <1>1, <1>2, <1>3, AcceptedRecords DEF recordVars, Accepted
<1>5. ASSUME NEW q \in Proc \ {p} PROVE Prepared(q)'
  BY <1>1, <1>2, <1>3, AcceptedStays DEF Story, recordVars, Accepted
<1>6. Prepared(p)'
  BY <1>2, Unprepared
<1> QED BY <1>4, <1>5, <1>6 DEF Story

-----------------------------------------------------------------------------
(* Together *)

LEMMA RunStory ==
  ASSUME TypeInv, LeaseInv, Story, ~lapsed, NEW p \in Proc,
         Acquire(p) \/ Accept(p) \/ RunStep(p) \/ RunFault(p)
  PROVE  Story'
<1>1. CASE CreateComment(p) \/ ApplyLabels(p) \/ ResponseLost(p)
  <2>1. RunStep(p) \/ RunFault(p)
    BY <1>1 DEF RunStep, RunFault
  <2>2. UNCHANGED moves
    BY <2>1, RunHistory
  <2>3. \/ pc[p] = "comment" /\ \E label \in {"labels", "release"} : WriteComment(p, label)
        \/ pc[p] = "labels" /\ \E label \in {"applied", "release"} : WriteLabels(p, label)
    BY <1>1 DEF CreateComment, ApplyLabels, ResponseLost
  <2> QED BY <2>1, <2>2, <2>3, WriteCommentStory, WriteLabelsStory
<1>2. CASE Commit(p)
  BY <1>2, CommitStartStory, CommitOutcomeStory, CommitAcceptanceStory
<1>3. CASE ~(CreateComment(p) \/ ApplyLabels(p) \/ ResponseLost(p) \/ Commit(p))
  BY <1>3, QuietStory, BeginStory, IdentifyStory, SaveRunningStory, SaveVerdictStory,
     SaveFailureStory, PublishStory, RecordAppliedStory, AcceptStory
  DEF RunStep, RunFault
<1> QED BY <1>1, <1>2, <1>3

\* HEAD moves away from the newest review for the first time: to a commit that
\* has none.
LEMMA MoveHeadStory ==
  ASSUME TypeInv, Story, moves = 0, MoveHead
  PROVE  Story'
<1>0. /\ head' \in Subject \ {head} /\ moves' = 1
      /\ UNCHANGED <<work, reviews, newest, comments, labels, issue, acceptances, pc, held, job>>
      /\ Records
  BY DEF MoveHead, storeVars, reviewVars, linearVars, localVars, Story
<1>1. HeadIsNew'
  BY <1>0 DEF Records, HeadIsNew
<1>2. Records'
  BY <1>0, <1>1 DEF Records, RowSound, AppliedIsShown, Shown, Stage, VerdictIsShown,
                    AcceptanceIsShown
<1>3. ASSUME NEW q \in Proc PROVE Prepared(q)'
  BY <1>0 DEF Story, Prepared, Ready, InHand, Shown, Failed, Accepting
<1> QED BY <1>2, <1>3 DEF Story

LEMMA StoryStep == TypeInv /\ LeaseInv /\ StoryInv /\ [Next]_vars => StoryInv'
<1> SUFFICES ASSUME TypeInv, LeaseInv, StoryInv, [Next]_vars PROVE StoryInv'
  OBVIOUS
<1>0. moves \in Nat /\ work \in Work
  BY ReviewAssumption DEF TypeInv, TypeOK, StoreTypeOK
<1>1. ASSUME NEW p \in Proc, Acquire(p) \/ Accept(p) \/ RunStep(p) \/ RunFault(p)
      PROVE  StoryInv'
  BY <1>1, RunHistory, RunStory DEF StoryInv
<1>2. CASE Expire
  <2>1. /\ UNCHANGED <<recordVars, lapsed, pc, job, held>> /\ work'.state = work.state
    BY <1>0, <1>2 DEF Expire, LeaseLapses, recordVars, reviewVars, linearVars, localVars,
                      counters, Work
  <2>2. Story => \A q \in Proc : Prepared(q)'
    BY <2>1, StaysPrepared DEF Story
  <2> QED BY <2>1, <2>2, RecordsStay DEF StoryInv, Story, recordVars
<1>3. CASE Lapse
  BY <1>3 DEF Lapse, StoryInv
<1>4. CASE MoveHead
  <2>1. moves' = moves + 1 /\ lapsed' = lapsed
    BY <1>4 DEF MoveHead
  <2>2. CASE moves = 0
    BY <1>4, <2>1, <2>2, MoveHeadStory DEF StoryInv
  <2>3. CASE moves # 0
    BY <1>0, <2>1, <2>3 DEF StoryInv
  <2> QED BY <2>2, <2>3
<1>5. CASE UNCHANGED vars
  <2>1. UNCHANGED <<recordVars, lapsed, pc, job, held, work>>
    BY <1>5 DEF vars, recordVars, storeVars, reviewVars, linearVars, localVars, counters
  <2>2. Story => \A q \in Proc : Prepared(q)'
    BY <2>1, StaysPrepared DEF Story
  <2> QED BY <2>1, <2>2, RecordsStay DEF StoryInv, Story, recordVars
<1> QED BY <1>1, <1>2, <1>3, <1>4, <1>5 DEF Next

LEMMA StoryInit == Init => LeaseInv /\ StoryInv
<1> SUFFICES ASSUME Init PROVE LeaseInv /\ StoryInv
  OBVIOUS
<1>1. /\ work.state = "succeeded" /\ newest = NoSubject /\ labels = {} /\ issue = "in_progress"
      /\ \A s \in Subject : reviews[s] = NoRow /\ comments[s] = << >>
      /\ \A p \in Proc : pc[p] = "idle"
  BY DEF Init
<1>2. /\ NoRow.status = "absent" /\ NoRow.verdict = "none" /\ NoRow.applied = FALSE
      /\ "absent" \notin Concluded /\ head \in Subject
  BY RowTypes, InitType DEF NoRow, TypeInv, TypeOK
<1>3. LeaseInv
  BY <1>1 DEF LeaseInv, Known, Leased
<1>4. \A s \in Subject : RowSound(s)
  BY <1>1, <1>2 DEF RowSound
<1>5. HeadIsNew /\ AppliedIsShown /\ VerdictIsShown /\ AcceptanceIsShown
  BY <1>1, <1>2, ReviewAssumption
  DEF HeadIsNew, AppliedIsShown, VerdictIsShown, AcceptanceIsShown
<1>6. Stage
  BY <1>1, <1>2 DEF Stage, Accepted
<1>7. \A p \in Proc : Prepared(p)
  BY <1>1 DEF Prepared, Telling, AcceptPc
<1> QED BY <1>3, <1>4, <1>5, <1>6, <1>7 DEF StoryInv, Story, Records

\* ReviewIsTold: whatever fails and whoever dies, as long as no lease lapses
\* under a live run of the coordinator and HEAD does not come back to a commit
\* it left, the comment and the label of the issue are the verdict that moved
\* the work item, and accepted work is Done in Linear, without review labels.
THEOREM VerdictsAreTold == Spec => []ReviewIsTold
<1>1. StoryInv => ReviewIsTold
  BY DEF StoryInv, Story, Records, ReviewIsTold
<1> QED BY <1>1, StoryInit, LeaseStep, StoryStep, TypeAlways, PTL DEF Spec

\* A run of the coordinator that has begun and not ended.
Reviewing(p) == pc[p] # "idle" /\ ~Accepting(p)

ReviewedByOne ==
  lapsed \/ \A p, q \in Proc : Reviewing(p) => HoldsLease(p) /\ (Reviewing(q) => p = q)

\* HoldsLease: two runs never work on a review at the same time.  While no lease
\* has lapsed under a live run, one run of the coordinator at most has begun and
\* not ended, and it has the lease.
THEOREM OneReviewer == Spec => []ReviewedByOne
<1>1. LeaseInv => ReviewedByOne
  BY OneHolder DEF LeaseInv, Leased, Reviewing, ReviewedByOne
<1> QED BY <1>1, StoryInit, LeaseStep, TypeAlways, PTL DEF Spec

-----------------------------------------------------------------------------
(* What was concluded stands *)

\* The end of a review, once stored, and its comment, once written.
Stands(s) ==
  /\ reviews[s].status \in Concluded =>
       reviews'[s].status = reviews[s].status /\ reviews'[s].verdict = reviews[s].verdict
  /\ comments[s] # << >> => comments'[s] = comments[s]

AllStands == \A s \in Subject : Stands(s)

VerdictsStand == ~lapsed' /\ moves' <= 1 => AllStands

\* A save of the row in hand leaves the others, and what was concluded.
LEMMA SavedStands ==
  ASSUME TypeInv, Records, NEW p \in Proc, InHand(p), NEW row \in Row, row.status # "absent",
         SaveCodeReview(p, row), UNCHANGED <<head, moves, comments>>,
         reviews[newest].status \in Concluded =>
           row.status = reviews[newest].status /\ row.verdict = reviews[newest].verdict
  PROVE  AllStands
<1>1. reviews' = [reviews EXCEPT ![newest] = row] /\ reviews \in [Subject -> Row]
  BY SavedInHand DEF TypeInv, TypeOK
<1> QED BY <1>1 DEF AllStands, Stands

LEMMA WritesStand ==
  ASSUME TypeInv, Story, NEW p \in Proc,
         \/ SaveRunning(p) \/ SaveVerdict(p) \/ SaveFailure(p) \/ Publish(p)
         \/ RecordApplied(p)
  PROVE  AllStands
<1> USE DEF linearVars, counters
<1>0. /\ held \in [Proc -> HeldRow] /\ Prepared(p) /\ Records /\ Local(p)
      /\ reviews \in [Subject -> Row] /\ job[p] \in Job
  BY DEF TypeInv, TypeOK, Story
<1>1. InHand(p)
  BY <1>0 DEF SaveRunning, SaveVerdict, SaveFailure, Publish, RecordApplied, Prepared, Telling
<1>2. /\ newest \in Subject /\ held[p].row = reviews[newest] /\ reviews[newest] \in Row
      /\ UNCHANGED <<head, moves, comments>>
  BY <1>0, <1>1 DEF InHand, SaveRunning, SaveVerdict, SaveFailure, Publish, RecordApplied
<1>3. "running" \notin Concluded /\ "absent" \notin Concluded /\ "needs_human" \in Concluded
  BY RowTypes
<1>4. CASE SaveRunning(p)
  <2>1. reviews[newest].status \notin Concluded
    BY <1>0, <1>2, <1>4 DEF SaveRunning, Prepared, Records, Stage
  <2>2. [reviews[newest] EXCEPT !.status = "running"] \in Row
    BY <1>2, RowTypes
  <2>3. [reviews[newest] EXCEPT !.status = "running"].status = "running"
    BY <1>2, RowEdits
  <2> QED BY <1>0, <1>1, <1>2, <1>4, <2>1, <2>2, <2>3, SavedStands DEF SaveRunning
<1>5. CASE SaveVerdict(p)
  <2> DEFINE v == job[p].verdict
             row == [reviews[newest] EXCEPT !.status = StatusOf[v], !.verdict = v]
  <2>1. reviews[newest].status \notin Concluded
    BY <1>0, <1>3, <1>5 DEF SaveVerdict, Prepared
  <2>2. v \in Verdict
    BY <1>0, <1>5 DEF SaveVerdict, Local, Job
  <2>3. row \in Row /\ StatusOf[v] # "absent"
    BY <1>2, <1>3, <2>2, RowTypes
  <2>4. row.status = StatusOf[v]
    BY <1>2, RowEdits
  <2> QED BY <1>0, <1>1, <1>2, <1>5, <2>1, <2>3, <2>4, SavedStands DEF SaveVerdict
<1>6. CASE SaveFailure(p)
  <2>1. reviews[newest].status \notin Concluded
    BY <1>0, <1>3, <1>6 DEF SaveFailure, Prepared
  <2>2. [reviews[newest] EXCEPT !.status = "needs_human"] \in Row
    BY <1>2, <1>3, RowTypes
  <2>3. [reviews[newest] EXCEPT !.status = "needs_human"].status = "needs_human"
    BY <1>2, RowEdits
  <2> QED BY <1>0, <1>1, <1>2, <1>6, <2>1, <2>2, <2>3, SavedStands DEF SaveFailure
<1>7. CASE Publish(p)
  <2> DEFINE row == [reviews[newest] EXCEPT !.eli5 = TRUE]
  <2>1. reviews[newest].status # "absent"
    BY <1>0, <1>7, ToldRow DEF Publish, Telling
  <2>2. row \in Row
    BY <1>2, RowTypes
  <2>3. row.status = reviews[newest].status /\ row.verdict = reviews[newest].verdict
    BY <1>2, RowEdits
  <2> QED BY <1>0, <1>1, <1>2, <1>7, <2>1, <2>2, <2>3, SavedStands DEF Publish
<1>8. CASE RecordApplied(p)
  <2> DEFINE b == reviews[newest].eli5 /\ ~Failed(p)
             row == [reviews[newest] EXCEPT !.applied = TRUE, !.eli5 = b]
  <2>1. reviews[newest].status # "absent"
    BY <1>0, <1>8, ToldRow DEF RecordApplied, Telling
  <2>2. b \in BOOLEAN
    BY <1>2 DEF Row
  <2>3. row \in Row
    BY <1>2, <2>2, RowTypes
  <2>4. row.status = reviews[newest].status /\ row.verdict = reviews[newest].verdict
    BY <1>2, RowEdits
  <2> QED BY <1>0, <1>1, <1>2, <1>8, <2>1, <2>3, <2>4, SavedStands DEF RecordApplied
<1> QED BY <1>4, <1>5, <1>6, <1>7, <1>8

LEMMA CommentsStand ==
  ASSUME TypeInv, Story, NEW p \in Proc, CreateComment(p) \/ ApplyLabels(p) \/ ResponseLost(p)
  PROVE  AllStands
<1>1. CASE UNCHANGED <<reviews, comments>>
  BY <1>1 DEF AllStands, Stands
<1>2. CASE pc[p] = "comment" /\ \E label \in {"labels", "release"} : WriteComment(p, label)
  <2>1. comments[newest] = << >> /\ job[p].marker = newest
    BY <1>2, ToldRow DEF Story, Prepared, Telling
  <2>2. UNCHANGED reviews /\ \A s \in Subject \ {newest} : comments'[s] = comments[s]
    BY <1>2, <2>1 DEF WriteComment, reviewVars, TypeInv, TypeOK
  <2> QED BY <2>1, <2>2 DEF AllStands, Stands
<1> QED BY <1>1, <1>2
        DEF CreateComment, ApplyLabels, ResponseLost, WriteLabels, reviewVars

\* The other steps of a run write no row but a new one, and no comment.
LEMMA RunStands ==
  ASSUME TypeInv, Story, NEW p \in Proc, Acquire(p) \/ Accept(p) \/ RunStep(p) \/ RunFault(p)
  PROVE  AllStands
<1> USE DEF reviewVars, linearVars
<1>1. CASE UNCHANGED <<reviews, comments>>
  BY <1>1 DEF AllStands, Stands
<1>2. CASE Identify(p)
  <2>1. UNCHANGED comments /\ "absent" \notin Concluded
    BY <1>2, RowTypes DEF Identify
  <2>2. \A s \in Subject : reviews'[s] = reviews[s] \/ reviews[s].status = "absent"
    BY <1>2, IdentifiedRow DEF TypeInv, TypeOK
  <2> QED BY <2>1, <2>2 DEF AllStands, Stands
<1>3. Acquire(p) \/ Accept(p) => UNCHANGED <<reviews, comments>>
  BY DEF Acquire, Accept
<1>4. RunFault(p) => UNCHANGED <<reviews, comments>> \/ ResponseLost(p)
  BY DEF RunFault, Throws, Crash
<1>5. RunStep(p) =>
        \/ UNCHANGED <<reviews, comments>> \/ Identify(p)
        \/ SaveRunning(p) \/ SaveVerdict(p) \/ SaveFailure(p) \/ Publish(p)
        \/ RecordApplied(p) \/ CreateComment(p) \/ ApplyLabels(p)
  BY DEF RunStep, Enter, Commit, Rejected, Release, SetInReview, LabelCodeReview, ReadCurrent,
         Assess, FindComment, SetDone, RemoveLabels, FindAcceptance, CreateAcceptance
<1> QED BY <1>1, <1>2, <1>3, <1>4, <1>5, WritesStand, CommentsStand

\* VerdictsStand: a review that has ended keeps its end, and Linear keeps the one
\* comment that tells it, whoever takes the work item up again after a crash or a
\* call that failed.
THEOREM EndedReviewsStand == Spec => [][VerdictsStand]_vars
<1>1. TypeInv /\ LeaseInv /\ StoryInv /\ [Next]_vars => [VerdictsStand]_vars
  <2> SUFFICES ASSUME TypeInv, LeaseInv, StoryInv, Next, ~lapsed', moves' <= 1
               PROVE  AllStands
    BY DEF VerdictsStand
  <2>0. moves \in Nat
    BY ReviewAssumption DEF TypeInv, TypeOK
  <2>1. CASE \E p \in Proc : Acquire(p) \/ Accept(p) \/ RunStep(p) \/ RunFault(p)
    <3>1. PICK p \in Proc : Acquire(p) \/ Accept(p) \/ RunStep(p) \/ RunFault(p)
      BY <2>1
    <3>2. moves' = moves /\ lapsed' = lapsed
      BY <3>1, RunHistory
    <3>3. Story
      BY <2>0, <3>2 DEF StoryInv
    <3> QED BY <3>1, <3>3, RunStands
  <2>2. CASE Expire \/ Lapse \/ MoveHead
    BY <2>2 DEF Expire, Lapse, MoveHead, LeaseLapses, reviewVars, linearVars, AllStands, Stands
  <2> QED BY <2>1, <2>2 DEF Next
<1> QED BY <1>1, StoryInit, LeaseStep, StoryStep, TypeAlways, PTL DEF Spec
=============================================================================
