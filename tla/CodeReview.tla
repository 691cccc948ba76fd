----------------------------- MODULE CodeReview -----------------------------
(***************************************************************************)
(* PostImplementationReviewCoordinator (src/mastermind/codeReview) and     *)
(* acceptMastermindWork: what happens to a work item whose execution has   *)
(* succeeded and been told.  Runs of the execution coordinator begin a     *)
(* review of the commit in the worktree, have it assessed, store the       *)
(* verdict, tell it in Linear and move the work item; a person accepts.    *)
(* Meanwhile the worktree's HEAD may move, processes die, calls fail and   *)
(* leases lapse.                                                           *)
(*                                                                         *)
(* What is reviewed is identified by attempt, commit, result and ticket.   *)
(* Attempt, result and ticket stay what they are here, so a subject is a   *)
(* commit, and there is one row at most for each: the table's UNIQUE.      *)
(* updated_at, which saveCodeReview compares and always increases, is the  *)
(* fresh bit of a copy, as row_version is in MastermindStore.              *)
(*                                                                         *)
(* A step is one call to Linear, git or the reviewer, or one statement of  *)
(* the store.  The upload of the ELI5 picture, whose failure is recorded   *)
(* and otherwise ignored, is part of the write that records it.            *)
(***************************************************************************)
EXTENDS MastermindStore, Sequences

CONSTANTS
  Subject,       \* commits the worktree may be at
  NoSubject,
  UsesRlm,       \* the attempt's executor is the RLM: its reviews carry an ELI5
  FaultKinds,    \* the faults that may happen
  FaultBound,    \* bound of the model: how many of them
  MoveBound,     \* bound of the model: moves of the worktree's HEAD
  AcceptBound    \* bound of the model: how often a person tries to accept

ASSUME ReviewAssumption ==
  /\ Subject # {} /\ NoSubject \notin Subject
  /\ UsesRlm \in BOOLEAN
  /\ FaultKinds \subseteq {"crash", "error", "lapse"}
  /\ {FaultBound, MoveBound, AcceptBound} \subseteq Nat
  /\ \A p, q \in Proc : OwnerOf[p] = OwnerOf[q] => p = q

VARIABLES
  head,         \* the commit the worktree is at
  reviews,      \* the rows of mastermind_code_reviews, by subject
  newest,       \* the subject of the row created last
  comments,     \* comments[s]: what the comments with the marker of s's row say
  labels,       \* the review labels of the issue
  issue,        \* its workflow state
  acceptances,  \* comments with the acceptance marker
  pc,           \* pc[p]: the call run p makes next
  held,         \* held[p]: the review row run p works on
  job,          \* job[p]: what run p is about to tell and commit
  moves, accepts, faults,   \* what has happened so far, against the bounds
  lapsed        \* a lease lapsed under a live run

linearVars == <<comments, labels, issue, acceptances>>
reviewVars == <<reviews, newest>>
localVars == <<held, job>>
counters == <<moves, accepts, faults, lapsed>>
vars == <<storeVars, head, reviewVars, linearVars, pc, localVars, counters>>

Verdict == {"PASS", "CHANGES_REQUIRED", "NEEDS_HUMAN"}

\* outcomeForVerdict
StatusOf == [PASS |-> "passed", CHANGES_REQUIRED |-> "changes_requested",
             NEEDS_HUMAN |-> "needs_human"]

\* eventForReviewStatus, for the statuses that conclude a review.
EventOf == [passed |-> "CODE_REVIEW_PASSED",
            changes_requested |-> "CODE_CHANGES_REQUESTED",
            needs_human |-> "CODE_REVIEW_NEEDS_HUMAN"]
Concluded == DOMAIN EventOf

\* Mutant: the label is called what the status is called.
LabelOf_Status(status) == status

\* labelForReviewStatus, which throws for a status that concludes no review.
LabelOf(status) ==
  CASE status = "passed" -> "passed"
    [] status = "changes_requested" -> "changes_requested"
    [] status = "needs_human" -> "needs_input"

VerdictLabels == {"passed", "changes_requested", "needs_input"}
Label == {"code_review"} \cup VerdictLabels

\* A row; eli5 and applied are its projection_json.
Row == [status: {"absent", "pending", "running"} \cup Concluded,
        verdict: Verdict \cup {"none"}, eli5: BOOLEAN, applied: BOOLEAN]
NoRow == [status |-> "absent", verdict |-> "none", eli5 |-> FALSE, applied |-> FALSE]
NewRow == [NoRow EXCEPT !.status = "pending"]

HeldRow == [of: Subject \cup {NoSubject}, fresh: BOOLEAN, row: Row]
NotHeld == [of |-> NoSubject, fresh |-> FALSE, row |-> NoRow]

\* verdict is "failure" when the assessment failed; marker names the row whose
\* id is in the comment's marker.
Job == [event: {"BEGIN_CODE_REVIEW", "CODE_REVIEW_STARTED", "CODE_REVIEW_PASSED",
                "CODE_CHANGES_REQUESTED", "CODE_REVIEW_NEEDS_HUMAN",
                "ACCEPT_IMPLEMENTATION", "none"},
        verdict: Verdict \cup {"failure", "none"},
        marker: Subject \cup {NoSubject}]
NoJob == [event |-> "none", verdict |-> "none", marker |-> NoSubject]

Pc == {"idle", "leased", "in_review", "label", "current", "identify", "start",
       "assess", "save", "find", "publish", "comment", "labels", "applied",
       "commit", "release", "done", "unlabel", "find_acceptance", "acceptance"}

TypeOK ==
  /\ StoreTypeOK
  /\ head \in Subject
  /\ reviews \in [Subject -> Row]
  /\ newest \in Subject \cup {NoSubject}
  /\ comments \in [Subject -> Seq(Verdict \cup {"failure"})]
  /\ labels \subseteq Label
  /\ issue \in {"in_progress", "in_review", "done"}
  /\ acceptances \in Nat
  /\ pc \in [Proc -> Pc]
  /\ held \in [Proc -> HeldRow]
  /\ job \in [Proc -> Job]
  /\ moves \in 0..MoveBound /\ accepts \in 0..AcceptBound /\ faults \in 0..FaultBound
  /\ lapsed \in BOOLEAN

\* The first attempt has succeeded and its projection has been applied.  Commits
\* are interchangeable, so it is some one of them.
Init ==
  /\ work = [state |-> "succeeded", planned |-> "execute", current |-> 1,
             owner |-> NoOwner, live |-> FALSE]
  /\ attempts = [n \in AttemptNumber |->
       IF n > 1 THEN AbsentAttempt
       ELSE [state |-> "succeeded", workspace |-> TRUE, preflight |-> TRUE,
             handle |-> TRUE, status |-> "terminal", unknowns |-> 0,
             outcome |-> "succeeded", verified |-> TRUE,
             retryEligible |-> FALSE, projection |-> "applied"]]
  /\ lastAttempt = 1
  /\ workCopy = [p \in Proc |-> NoWorkCopy]
  /\ attemptCopy = [p \in Proc |-> NoAttemptCopy]
  /\ head = CHOOSE commit \in Subject : TRUE
  /\ reviews = [s \in Subject |-> NoRow]
  /\ newest = NoSubject
  /\ comments = [s \in Subject |-> << >>]
  /\ labels = {}
  /\ issue = "in_progress"
  /\ acceptances = 0
  /\ pc = [p \in Proc |-> "idle"]
  /\ held = [p \in Proc |-> NotHeld]
  /\ job = [p \in Proc |-> NoJob]
  /\ moves = 0 /\ accepts = 0 /\ faults = 0
  /\ lapsed = FALSE

-----------------------------------------------------------------------------
(* Moves of a run *)

Goto(p, label) == pc' = [pc EXCEPT ![p] = label]

\* Go on to commit the event.
Intend(p, type) == Goto(p, "commit") /\ job' = [job EXCEPT ![p].event = type]

\* A run that throws releases its lease.
Throw(p) == Goto(p, "release") /\ UNCHANGED job

RowFence(p) == held[p].fresh

\* saveCodeReview returns the work item's newest row, not the one it saved.
Returned(p) == newest

\* saveCodeReview.  The columns a caller does not name keep their value: under
\* the fence the copy has it.
SaveCodeReview(p, row) ==
  /\ RowFence(p)
  /\ reviews' = [reviews EXCEPT ![held[p].of] = row]
  /\ held' = [q \in Proc |->
       IF q = p THEN [of |-> Returned(p), fresh |-> TRUE, row |-> reviews'[Returned(p)]]
       ELSE [held[q] EXCEPT !.fresh = @ /\ held[q].of # held[p].of]]
  /\ UNCHANGED newest

-----------------------------------------------------------------------------
(* The execution coordinator's process, and process *)

Acquire(p) ==
  /\ pc[p] = "idle"
  /\ AcquireLease(p)
  /\ Goto(p, "leased")
  /\ UNCHANGED <<attemptCopy, head, reviewVars, linearVars, localVars, counters>>

\* process: the attempt has succeeded and its projection is applied.
EntryOf(state) ==
  CASE state = "succeeded" -> "in_review"
    [] state \in {"code_review_pending", "code_reviewing"} -> "current"
    [] OTHER -> "release"

Enter(p) ==
  /\ pc[p] = "leased"
  /\ Goto(p, EntryOf(workCopy[p].state))
  /\ UNCHANGED <<storeVars, head, reviewVars, linearVars, localVars, counters>>

\* transition, and the end of the run.
Commit(p) ==
  /\ pc[p] = "commit"
  /\ Transition(p, job[p].event, work.planned)
  /\ Goto(p, "release")
  /\ UNCHANGED <<head, reviewVars, linearVars, localVars, counters>>

Failed(p) == job[p].verdict = "failure"

\* There is a label for what is told: the row may be the newest one of another
\* commit, whose review has not ended.
HasLabel(p) == Failed(p) \/ held[p].row.status \in Concluded

\* A fence that does not match throws, and so does labelForReviewStatus.
Rejected(p) ==
  /\ \/ pc[p] = "commit" /\ ~WorkFence(p)
     \/ pc[p] \in {"start", "save", "publish", "applied"} /\ ~RowFence(p)
     \/ pc[p] = "labels" /\ ~HasLabel(p)
  /\ Throw(p)
  /\ UNCHANGED <<storeVars, head, reviewVars, linearVars, held, counters>>

Release(p) ==
  /\ pc[p] = "release"
  /\ ReleaseLease(p)
  /\ ForgetCopies(p)
  /\ Goto(p, "idle")
  /\ held' = [held EXCEPT ![p] = NotHeld]
  /\ job' = [job EXCEPT ![p] = NoJob]
  /\ UNCHANGED <<head, reviewVars, linearVars, counters>>

-----------------------------------------------------------------------------
(* beginReview *)

SetInReview(p) ==
  /\ pc[p] = "in_review"
  /\ issue' = "in_review"
  /\ Goto(p, "label")
  /\ UNCHANGED <<storeVars, head, reviewVars, comments, labels, acceptances, localVars,
                 counters>>

LabelCodeReview(p) ==
  /\ pc[p] = "label"
  /\ labels' = labels \cup {"code_review"}
  /\ Intend(p, "BEGIN_CODE_REVIEW")
  /\ UNCHANGED <<storeVars, head, reviewVars, comments, issue, acceptances, held, counters>>

-----------------------------------------------------------------------------
(* ensureReview, startReview and continueReview *)

\* getCurrentCodeReview
ReadCurrent(p) ==
  /\ pc[p] = "current"
  /\ held' = [held EXCEPT ![p] =
       IF newest = NoSubject THEN NotHeld
       ELSE [of |-> newest, fresh |-> TRUE, row |-> reviews[newest]]]
  /\ Goto(p, "identify")
  /\ UNCHANGED <<storeVars, head, reviewVars, linearVars, job, counters>>

\* createCodeReview: a row of that identity is left as it is.
CreateCodeReview(s) ==
  IF reviews[s].status = "absent"
  THEN reviews' = [reviews EXCEPT ![s] = NewRow] /\ newest' = s
  ELSE UNCHANGED reviewVars

\* A verdict that has not been projected.
Untold(row) == row.verdict # "none" /\ ~row.applied

\* Mutant: a review that ended without a verdict is not taken up again.
HasEnded_WithVerdict(row) == row.status \in Concluded /\ row.verdict # "none"
\* eventForReviewStatus knows an event.
HasEnded(row) == row.status \in Concluded

\* What a run does with the review of the commit it found: start it, have it
\* assessed, tell a verdict it finds stored, or commit what has been told.
Continue(p, s, row) ==
  CASE workCopy[p].state = "code_review_pending" -> Goto(p, "start") /\ UNCHANGED job
    [] workCopy[p].state = "code_reviewing" /\ row.status = "running" ->
         Goto(p, "assess") /\ UNCHANGED job
    [] workCopy[p].state = "code_reviewing" /\ HasEnded(row) ->
         /\ Goto(p, IF Untold(row) THEN "find" ELSE "commit")
         /\ job' = [job EXCEPT ![p] = [event |-> EventOf[row.status],
                                      verdict |-> row.verdict, marker |-> s]]
    [] OTHER -> Throw(p)

\* identity, the comparison with the newest row, and createCodeReview.
Identify(p) ==
  LET found == held[p].of = head
  IN /\ pc[p] = "identify"
     /\ IF found THEN UNCHANGED <<reviewVars, held>>
        ELSE /\ CreateCodeReview(head)
             /\ held' = [held EXCEPT ![p] =
                  [of |-> head, fresh |-> TRUE, row |-> reviews'[head]]]
     /\ Continue(p, head, held'[p].row)
     /\ UNCHANGED <<storeVars, head, linearVars, counters>>

SaveRunning(p) ==
  /\ pc[p] = "start"
  /\ SaveCodeReview(p, [held[p].row EXCEPT !.status = "running"])
  /\ Intend(p, "CODE_REVIEW_STARTED")
  /\ UNCHANGED <<storeVars, head, linearVars, counters>>

-----------------------------------------------------------------------------
(* runReview *)

\* The harness reads the worktree and the model gives its verdict; either may
\* throw.
Assess(p) ==
  /\ pc[p] = "assess"
  /\ \E verdict \in Verdict \cup {"failure"} : job' = [job EXCEPT ![p].verdict = verdict]
  /\ Goto(p, "save")
  /\ UNCHANGED <<storeVars, head, reviewVars, linearVars, held, counters>>

\* The verdict is stored and then told; project returns at once when the row it
\* is given has none.
SaveVerdict(p) ==
  LET verdict == job[p].verdict
      status == StatusOf[verdict]
  IN /\ pc[p] = "save" /\ verdict # "failure"
     /\ SaveCodeReview(p, [held[p].row EXCEPT !.status = status, !.verdict = verdict])
     /\ Goto(p, IF Untold(held'[p].row) THEN "find" ELSE "commit")
     /\ job' = [job EXCEPT ![p].event = EventOf[status], ![p].marker = held'[p].of]
     /\ UNCHANGED <<storeVars, head, linearVars, counters>>

\* A failed assessment is a person's, and its error is told (projectFailure).
SaveFailure(p) ==
  /\ pc[p] = "save" /\ job[p].verdict = "failure"
  /\ SaveCodeReview(p, [held[p].row EXCEPT !.status = "needs_human"])
  /\ Goto(p, "find")
  /\ job' = [job EXCEPT ![p].event = "CODE_REVIEW_NEEDS_HUMAN", ![p].marker = held'[p].of]
  /\ UNCHANGED <<storeVars, head, linearVars, counters>>

-----------------------------------------------------------------------------
(* project and projectFailure *)

\* Mutant: the comment is created without looking for it.
FindComment_Skipped(p) ==
  /\ pc[p] = "find"
  /\ Goto(p, "comment")
  /\ UNCHANGED <<storeVars, head, reviewVars, linearVars, localVars, counters>>

FindComment(p) ==
  /\ pc[p] = "find"
  /\ Goto(p, IF comments[job[p].marker] # << >> THEN "labels"
             ELSE IF UsesRlm /\ ~Failed(p) /\ ~held[p].row.eli5 THEN "publish"
             ELSE "comment")
  /\ UNCHANGED <<storeVars, head, reviewVars, linearVars, localVars, counters>>

\* ensureEli5Publication; without a verdict in the row it returns, the comment
\* cannot be rendered.
Publish(p) ==
  /\ pc[p] = "publish"
  /\ SaveCodeReview(p, [held[p].row EXCEPT !.eli5 = TRUE])
  /\ Goto(p, IF held'[p].row.verdict = "none" THEN "release" ELSE "comment")
  /\ UNCHANGED <<storeVars, head, linearVars, job, counters>>

WriteComment(p, label) ==
  /\ comments' = [comments EXCEPT ![job[p].marker] =
       Append(@, IF Failed(p) THEN "failure" ELSE held[p].row.verdict)]
  /\ Goto(p, label)
  /\ UNCHANGED <<storeVars, head, reviewVars, labels, issue, acceptances, localVars>>

CreateComment(p) ==
  /\ pc[p] = "comment"
  /\ WriteComment(p, "labels")
  /\ UNCHANGED counters

\* What projectReviewLabels, or projectFailure, leaves.
LabelsAfter(p) ==
  IF Failed(p) THEN (labels \ {"code_review"}) \cup {"needs_input"}
  ELSE {LabelOf(held[p].row.status)}

WriteLabels(p, label) ==
  /\ HasLabel(p)
  /\ labels' = LabelsAfter(p)
  /\ Goto(p, label)
  /\ UNCHANGED <<storeVars, head, reviewVars, comments, issue, acceptances, localVars>>

ApplyLabels(p) ==
  /\ pc[p] = "labels"
  /\ WriteLabels(p, "applied")
  /\ UNCHANGED counters

\* A failure's projection is written anew, without the publication.
RecordApplied(p) ==
  /\ pc[p] = "applied"
  /\ SaveCodeReview(p, [held[p].row EXCEPT !.applied = TRUE, !.eli5 = @ /\ ~Failed(p)])
  /\ Goto(p, "commit")
  /\ UNCHANGED <<storeVars, head, linearVars, job, counters>>

-----------------------------------------------------------------------------
(* acceptMastermindWork *)

\* A person accepts.  This run has no heartbeat.
Accept(p) ==
  /\ pc[p] = "idle"
  /\ accepts < AcceptBound /\ accepts' = accepts + 1
  /\ AcquireLease(p)
  /\ Goto(p, CASE work.state = "awaiting_acceptance" -> "done"
               [] work.state = "completed" -> "find_acceptance"
               [] OTHER -> "release")
  /\ job' = [job EXCEPT ![p].event = "ACCEPT_IMPLEMENTATION"]
  /\ UNCHANGED <<attemptCopy, head, reviewVars, linearVars, held, moves, faults, lapsed>>

SetDone(p) ==
  /\ pc[p] = "done"
  /\ issue' = "done"
  /\ Goto(p, "unlabel")
  /\ UNCHANGED <<storeVars, head, reviewVars, comments, labels, acceptances, localVars,
                 counters>>

RemoveLabels(p) ==
  /\ pc[p] = "unlabel"
  /\ labels' = labels \ {"code_review", "passed", "changes_requested"}
  /\ Goto(p, "find_acceptance")
  /\ UNCHANGED <<storeVars, head, reviewVars, comments, issue, acceptances, localVars,
                 counters>>

\* Work that was accepted before only has its comment refreshed.
AfterAcceptance(p) == IF workCopy[p].state = "completed" THEN "release" ELSE "commit"

\* upsertAcceptanceComment: an existing comment is updated.
FindAcceptance(p) ==
  /\ pc[p] = "find_acceptance"
  /\ Goto(p, IF acceptances = 0 THEN "acceptance" ELSE AfterAcceptance(p))
  /\ UNCHANGED <<storeVars, head, reviewVars, linearVars, localVars, counters>>

CreateAcceptance(p) ==
  /\ pc[p] = "acceptance"
  /\ acceptances' = acceptances + 1
  /\ Goto(p, AfterAcceptance(p))
  /\ UNCHANGED <<storeVars, head, reviewVars, comments, labels, issue, localVars, counters>>

-----------------------------------------------------------------------------
(* Faults, the clock, the worktree *)

FaultHappens(kind) ==
  /\ kind \in FaultKinds
  /\ faults < FaultBound
  /\ faults' = faults + 1
  /\ UNCHANGED <<moves, accepts>>

Calls == {"in_review", "label", "identify", "find", "comment", "labels",
          "done", "unlabel", "find_acceptance", "acceptance"}

\* A call to Linear or git throws before it takes effect, and the run ends.
Throws(p) ==
  /\ pc[p] \in Calls
  /\ FaultHappens("error")
  /\ Throw(p)
  /\ UNCHANGED <<storeVars, head, reviewVars, linearVars, held, lapsed>>

\* The comment or the labels were written, and the response is lost.
ResponseLost(p) ==
  /\ FaultHappens("error")
  /\ \/ pc[p] = "comment" /\ WriteComment(p, "release")
     \/ pc[p] = "labels" /\ WriteLabels(p, "release")
  /\ UNCHANGED lapsed

\* The process dies.  Its lease stays.
Crash(p) ==
  /\ pc[p] # "idle"
  /\ FaultHappens("crash")
  /\ ForgetCopies(p)
  /\ Goto(p, "idle")
  /\ held' = [held EXCEPT ![p] = NotHeld]
  /\ job' = [job EXCEPT ![p] = NoJob]
  /\ UNCHANGED <<work, attempts, lastAttempt, head, reviewVars, linearVars, lapsed>>

LeaseLapses ==
  /\ work' = [work EXCEPT !.live = FALSE]
  /\ UNCHANGED <<attempts, lastAttempt, workCopy, attemptCopy, head, reviewVars,
                 linearVars, pc, localVars>>

\* The heartbeat of a live run of the coordinator.
Renewed ==
  \E p \in Proc : HoldsLease(p) /\ pc[p] # "idle" /\ job[p].event # "ACCEPT_IMPLEMENTATION"

\* The lease of a run that died, or that accepts, lapses by itself.
Expire == work.live /\ ~Renewed /\ LeaseLapses /\ UNCHANGED counters

\* The lease of a run lapses although it lives: one failed renewal stops its
\* heartbeat.
Lapse == work.live /\ Renewed /\ FaultHappens("lapse") /\ LeaseLapses /\ lapsed' = TRUE

\* The agent, still in its pane, or a person commits or resets in the worktree.
MoveHead ==
  /\ moves < MoveBound /\ moves' = moves + 1
  /\ head' \in Subject \ {head}
  /\ UNCHANGED <<storeVars, reviewVars, linearVars, pc, localVars, accepts, faults, lapsed>>

-----------------------------------------------------------------------------

\* What run p does next, left to itself.
RunStep(p) ==
  \/ Enter(p) \/ Commit(p) \/ Rejected(p) \/ Release(p)
  \/ SetInReview(p) \/ LabelCodeReview(p)
  \/ ReadCurrent(p) \/ Identify(p) \/ SaveRunning(p)
  \/ Assess(p) \/ SaveVerdict(p) \/ SaveFailure(p)
  \/ FindComment(p) \/ Publish(p) \/ CreateComment(p) \/ ApplyLabels(p) \/ RecordApplied(p)
  \/ SetDone(p) \/ RemoveLabels(p) \/ FindAcceptance(p) \/ CreateAcceptance(p)

RunFault(p) == Throws(p) \/ ResponseLost(p) \/ Crash(p)

Next ==
  \/ \E p \in Proc : Acquire(p) \/ Accept(p) \/ RunStep(p) \/ RunFault(p)
  \/ Expire \/ Lapse \/ MoveHead

Spec == Init /\ [][Next]_vars

\* The service's timer runs process for what listRecoverableExecutions lists; a
\* run goes on until it ends; the clock advances.  Nobody has to accept.
Dispatch == Recoverable /\ \E p \in Proc : Acquire(p)

Fairness ==
  /\ WF_vars(Dispatch)
  /\ \A p \in Proc : WF_vars(RunStep(p))
  /\ WF_vars(Expire)

FairSpec == Spec /\ Fairness

-----------------------------------------------------------------------------
(* Properties *)

\* The verdict that moved the work item is shown: the only comment with the
\* marker of its review states it and the label is its own, whatever failed on
\* the way, until the issue is done.  (A person may also be needed because the
\* assessment failed; that is not a verdict.)
VerdictIsShown ==
  LET review == reviews[newest]
  IN /\ \/ work.state \in {"awaiting_acceptance", "changes_requested"}
        \/ work.state = "needs_human" /\ review.verdict # "none"
     /\ issue # "done"
     => /\ review.verdict # "none"
        /\ work.state = NextState("code_reviewing", EventOf[StatusOf[review.verdict]])
        /\ comments[newest] = <<review.verdict>>
        /\ labels = {LabelOf(review.status)}

\* Accepted work is done in Linear, without review labels and with the comment
\* that tells where it is.
AcceptanceIsShown ==
  work.state = "completed" => issue = "done" /\ labels = {} /\ acceptances > 0

\* README: labels and comments represent the outcome of the review, and only
\* acceptance moves the ticket to Done.  As long as no lease lapsed under a live
\* run of the coordinator and HEAD did not go to another commit and back, they do.
ReviewIsTold == lapsed \/ moves > 1 \/ (VerdictIsShown /\ AcceptanceIsShown)

UnderReview == work.state \in {"succeeded", "code_review_pending", "code_reviewing"}

\* The commit in the worktree is not the one whose review is running: every run
\* opens or finds a pending row and throws.
Drifted ==
  work.state = "code_reviewing" /\ reviews[head].status \in {"absent", "pending"}

\* Work under review leaves it, in spite of crashes, failing calls and lapses,
\* unless its worktree stays at a commit nobody has begun to review.
ReviewSettles == UnderReview ~> (~UnderReview \/ Drifted)
=============================================================================
