---------------------------- MODULE DecisionLoop ----------------------------
(***************************************************************************)
(* MastermindDecisionLoop (src/mastermind/decision/loop.ts) with the       *)
(* review action (src/mastermind/actions/reviewTicket.ts): runs of         *)
(* process(workId) take one work item from a webhook to a planned action,  *)
(* to a person, or to a failure.  On the way a review of the ticket is     *)
(* generated, written to Linear and labelled, while people edit the        *)
(* ticket, processes die and leases lapse.                                 *)
(*                                                                         *)
(* A step is one call to Linear or to a model, or store operations between *)
(* two such calls; what a read of Linear returns is acted upon in the same *)
(* step.  A write to Linear is a step of its own: its run may die before   *)
(* it stores what it did, and a lease asserted before it may be gone.      *)
(*                                                                         *)
(* A ticket is its text (title, description, labels of others) and the     *)
(* four labels of Mastermind; where the code lists its comments right      *)
(* after it, both are read in one step, but for the last look before an    *)
(* action is planned. The project policy is resolved, stored reviews are   *)
(* of this version, blocked reviews wait for others only, and the          *)
(* clarification comment and the bound on steps (beside the one on         *)
(* decisions) are left out. Runs that overlap belong to different          *)
(* instances.                                                              *)
(***************************************************************************)
EXTENDS MastermindStore

CONSTANTS
  MaxDecisionIterations,   \* mastermind.maxDecisionIterations
  Verdicts,                \* what the policy may say of a review
  Recommended,             \* what the model may recommend for a ready review
  ExecutionEnds,           \* how an execution of the planned action may end
  ReviewBound,             \* bound of the model: reviews of the work item
  EditBound,               \* bound of the model: changes people make
  NoticeBound,             \* bound of the model: webhooks and scans of settled work
  FaultKinds,              \* the faults that may happen
  FaultBound,              \* bound of the model: how many of them
  DisturbanceBound         \* bound of the model: changes, webhooks and faults together

\* rejected: by policy.  human: accepted, but needs a person's approval.
\* blocked: accepted, and waits for others only.  ready: accepted.
Verdict == {"rejected", "human", "blocked", "ready"}
Accepted(verdict) == verdict \in Verdict \ {"rejected"}
Label == {"reviewed", "ready", "needs_input", "failed"}

ASSUME LoopAssumption ==
  /\ MaxDecisionIterations \in Nat \ {0}
  /\ Verdicts \subseteq Verdict
  /\ Recommended \subseteq {"execute", "wait", "human", "ignore", "review"}
  /\ ExecutionEnds \subseteq SettledExecutionStates \cup {"retry_wait"}
  /\ {ReviewBound, EditBound, NoticeBound, FaultBound, DisturbanceBound} \subseteq Nat
  /\ FaultKinds \subseteq {"crash", "error", "lapse"}
  /\ \A p, q \in Proc : OwnerOf[p] = OwnerOf[q] => p = q

VARIABLES
  ticket,      \* the issue in Linear
  replies,     \* comments of people on it
  reviews,     \* the rows of mastermind_reviews
  lastReview,  \* how many there are
  observed,    \* the latest row of mastermind_ticket_snapshots
  pc,          \* pc[p]: the call run p makes next
  held,        \* held[p]: the review run p has read
  event,       \* event[p]: the event run p is about to commit
  rounds,      \* rounds[p]: its decisions so far
  edits, notices, faults,   \* what has happened so far, against the bounds
  confirmed,   \* nobody changed the issue since a run saw it carry its result
  overtaken,   \* a person edited the text while a run was about to replace it
  missed,      \* the runs that have read for the last time what has changed since
  asked        \* a decision, not the outcome of a review, called for a person

linearVars == <<ticket, replies>>
reviewVars == <<reviews, lastReview, observed>>
localVars == <<held, event, rounds>>
history == <<confirmed, overtaken, missed, asked>>
counters == <<edits, notices, faults>>
vars == <<storeVars, linearVars, reviewVars, pc, localVars, counters, history>>

Review == 1..ReviewBound

\* The text review r proposes; people's texts are numbered from 0.
Proposal(r) == EditBound + r

Ticket == [text: 0..EditBound + ReviewBound, labels: SUBSET Label]

\* verdict is what policy says of the row's own patch; validation is the column.
\* applied has a value once content or label is set.
ReviewRow == [original: Ticket, replies: 0..EditBound, verdict: Verdict,
              validation: Verdict \cup {"none"}, content: BOOLEAN,
              label: BOOLEAN, applied: Ticket, valid: BOOLEAN]

Blank == [text |-> 0, labels |-> {}]
NoReview == [original |-> Blank, replies |-> 0, verdict |-> "rejected",
             validation |-> "none", content |-> FALSE, label |-> FALSE,
             applied |-> Blank, valid |-> FALSE]
NotHeld == [n |-> 0, row |-> NoReview]

LoopEvents == {"REOPEN_REVIEW", "REVIEW", "REVIEW_GENERATED", "REVIEW_APPLIED",
               "REVIEW_INVALIDATED", "REQUIRE_HUMAN", "FAIL", "none"}

Pc == {"idle", "entry", "freshness", "clear", "commit", "generate", "model",
       "validate", "mark_failed", "save_failure", "apply", "check", "content",
       "update", "confirm", "labels", "relabel", "confirm_labels", "decide",
       "decided", "comments", "plan", "release"}

TypeOK ==
  /\ StoreTypeOK
  /\ ticket \in Ticket /\ replies \in 0..EditBound
  /\ reviews \in [Review -> ReviewRow] /\ lastReview \in 0..ReviewBound
  /\ observed \in Ticket
  /\ pc \in [Proc -> Pc]
  /\ held \in [Proc -> [n: 0..ReviewBound, row: ReviewRow]]
  /\ event \in [Proc -> LoopEvents]
  /\ rounds \in [Proc -> 0..MaxDecisionIterations]
  /\ edits \in 0..EditBound /\ notices \in 0..NoticeBound /\ faults \in 0..FaultBound
  /\ confirmed \in BOOLEAN /\ overtaken \in BOOLEAN
  /\ missed \subseteq Proc /\ asked \in BOOLEAN

\* A webhook of a new issue was ingested.
Init ==
  /\ work = [state |-> "received", planned |-> "none", current |-> 0,
             owner |-> NoOwner, live |-> FALSE]
  /\ attempts = [n \in AttemptNumber |-> AbsentAttempt]
  /\ lastAttempt = 0
  /\ workCopy = [p \in Proc |-> NoWorkCopy]
  /\ attemptCopy = [p \in Proc |-> NoAttemptCopy]
  /\ ticket = Blank /\ replies = 0
  /\ reviews = [r \in Review |-> NoReview] /\ lastReview = 0
  /\ observed = Blank
  /\ pc = [p \in Proc |-> "idle"]
  /\ held = [p \in Proc |-> NotHeld]
  /\ event = [p \in Proc |-> "none"]
  /\ rounds = [p \in Proc |-> 0]
  /\ edits = 0 /\ notices = 0 /\ faults = 0
  /\ confirmed = FALSE /\ overtaken = FALSE /\ missed = {} /\ asked = FALSE

\* Something may still come from outside.
Disturbed == edits + notices + faults < DisturbanceBound

-----------------------------------------------------------------------------
(* The stored review against the ticket *)

\* getLatestReview: the newest row that is not invalidated, 0 if there is none.
Latest ==
  LET valid == {r \in 1..lastReview : reviews[r].valid}
  IN IF valid = {} THEN 0 ELSE CHOOSE r \in valid : \A s \in valid : s <= r

\* The labels by which a review's result is shown.
ExpectedLabels(verdict) ==
  CASE verdict = "ready" -> {"reviewed", "ready"}
    [] verdict = "blocked" -> {"reviewed"}
    [] verdict = "human" -> {"needs_input"}
    [] OTHER -> {"failed"}

\* Mutant: a text nobody reviewed is overwritten.
ContentState_NeverStale(now, r, row) ==
  IF now = [row.original EXCEPT !.text = Proposal(r)] THEN "applied" ELSE "pending"

\* getContentApplicationState
ContentState(now, r, row) ==
  IF now = row.original THEN "pending"
  ELSE IF now = [row.original EXCEPT !.text = Proposal(r)] THEN "applied"
  ELSE "stale"

\* Mutant: the text is not compared.
LabelState_LabelsOnly(now, baseline, expected) ==
  IF now.labels = expected THEN "applied"
  ELSE IF now.labels = baseline.labels THEN "pending"
  ELSE "stale"

\* getLabelApplicationState
LabelState(now, baseline, expected) ==
  IF now.text # baseline.text THEN "stale"
  ELSE IF now.labels = expected THEN "applied"
  ELSE IF now.labels = baseline.labels THEN "pending"
  ELSE "stale"

\* appliedReviewMatchesTicket
AppliedReviewMatches(row) ==
  /\ row.content \/ row.label
  /\ \/ ticket = row.applied
     \/ /\ row.label
        /\ ticket.text = row.applied.text
        /\ ticket.labels = ExpectedLabels(row.validation)

\* findReviewedHumanCommentChange
Replied(row) == row.replies # replies

-----------------------------------------------------------------------------
(* Moves of a run *)

Goto(p, label) == pc' = [pc EXCEPT ![p] = label]
Intend(p, label, type) == Goto(p, label) /\ event' = [event EXCEPT ![p] = type]
Hold(p, r, row) == held' = [held EXCEPT ![p] = [n |-> r, row |-> row]]

\* The loop goes on with the step of the work item's state, or ends.
StepOf(state) ==
  CASE state = "reviewing" -> "generate"
    [] state = "applying_review" -> "apply"
    [] state = "deciding" -> "decide"
    [] OTHER -> "release"

\* lease.assertActive(): what follows happens only with the lease.
Asserting(p, label) == Goto(p, IF HoldsLease(p) THEN label ELSE "release")

\* Mutant: the row is kept valid.
Discard_Kept(p, r, label, type) ==
  /\ UNCHANGED reviews
  /\ IF HoldsLease(p) THEN Intend(p, label, type)
     ELSE Goto(p, "release") /\ UNCHANGED event

\* invalidateReview under an asserted lease, and on to the event; 0: no review.
Discard(p, r, label, type) ==
  IF HoldsLease(p)
  THEN /\ reviews' = IF r = 0 THEN reviews ELSE [reviews EXCEPT ![r].valid = FALSE]
       /\ Intend(p, label, type)
  ELSE Goto(p, "release") /\ UNCHANGED <<reviews, event>>

\* The review is stale: it is invalidated and a new one generated.
Stale(p) == Discard(p, held[p].n, "commit", "REVIEW_INVALIDATED")

-----------------------------------------------------------------------------
(* processWithinTrace *)

\* listRecoverableWorkIds, but for the lease test.
NeedsDecision ==
  /\ work.state \in {"received", "claimed", "deciding", "reviewing", "applying_review",
                     "retry_wait"}
  /\ ~(work.state = "retry_wait" /\ work.current # 0)

\* A run for recoverable work, or for any other by a webhook or a scan.
Acquire(p) ==
  /\ pc[p] = "idle"
  /\ \/ NeedsDecision /\ UNCHANGED notices
     \/ /\ ~NeedsDecision
        /\ Disturbed /\ notices < NoticeBound /\ notices' = notices + 1
  /\ AcquireLease(p)
  /\ Goto(p, "entry")
  /\ UNCHANGED <<attemptCopy, linearVars, reviewVars, localVars, edits, faults, history>>

EntryEvent == [received |-> "CLAIM", retry_wait |-> "RETRY_READY", claimed |-> "DECIDE"]

\* normalizeEntryState, one transition at a time.
NormalizeEntryState(p) ==
  /\ pc[p] = "entry"
  /\ workCopy[p].state \in DOMAIN EntryEvent
  /\ Transition(p, EntryEvent[workCopy[p].state], work.planned)
  /\ UNCHANGED <<pc, linearVars, reviewVars, localVars, counters, history>>

\* Settled work is compared with the ticket first; work with a current attempt
\* is left to the execution coordinator.
Enter(p) ==
  /\ pc[p] = "entry"
  /\ workCopy[p].state \notin DOMAIN EntryEvent
  /\ Goto(p, IF workCopy[p].state \in {"action_planned", "needs_human", "failed"}
             THEN "freshness"
             ELSE IF work.current # 0 THEN "release" ELSE StepOf(workCopy[p].state))
  /\ UNCHANGED <<storeVars, linearVars, reviewVars, localVars, counters, history>>

\* Mutant: whatever was reviewed shows the same label.
StateLabel_Same(state) == IF state = "failed" THEN "failed" ELSE "reviewed"

\* The label a settled state is expected to show.
StateLabel(state) ==
  CASE state = "action_planned" -> "reviewed"
    [] state = "needs_human" -> "needs_input"
    [] OTHER -> "failed"

\* reopenReviewIfStale, up to the first write to Linear.
CheckFreshness(p) ==
  LET state == workCopy[p].state
      r == Latest
      shown == StateLabel(state) \in ticket.labels
      current == IF r = 0 THEN state = "failed" /\ shown /\ ticket = observed
                 ELSE /\ shown
                      /\ AppliedReviewMatches(reviews[r])
                      /\ state # "failed" => ~Replied(reviews[r])
  IN /\ pc[p] = "freshness"
     /\ IF current
        THEN Goto(p, "release") /\ UNCHANGED <<reviews, event>>
        ELSE Discard(p, r, "clear", "REOPEN_REVIEW")
     /\ UNCHANGED <<storeVars, linearVars, lastReview, observed, held, rounds,
                    counters, history>>

\* What the write of Linear that run p makes next leaves: clearMastermindLabels,
\* the label of a failed generation, updateIssueContent, and the labels of a
\* review (of a rejected or human one in place of all others).
TicketAfter(p) ==
  LET r == held[p].n
      verdict == held[p].row.validation
  IN CASE pc[p] = "clear" -> [ticket EXCEPT !.labels = {}]
       [] pc[p] = "mark_failed" -> [ticket EXCEPT
            !.labels = (@ \ {"reviewed", "ready", "needs_input"}) \cup {"failed"}]
       [] pc[p] = "update" -> [ticket EXCEPT !.text = Proposal(r)]
       [] pc[p] = "relabel" -> [ticket EXCEPT
            !.labels = (IF Accepted(verdict) /\ verdict # "human"
                        THEN @ \ {"ready", "needs_input", "failed"} ELSE {})
                       \cup ExpectedLabels(verdict)]

\* The runs that do not look at the ticket again before they plan
Settling == {p \in Proc : pc[p] \in {"comments", "plan"}}

\* A run whose lease is gone changes the ticket behind the others' backs.
WriteTicket(p, label) ==
  /\ ticket' = TicketAfter(p)
  /\ confirmed' = (confirmed /\ HoldsLease(p))
  /\ missed' = missed \cup Settling
  /\ Goto(p, label)
  /\ UNCHANGED <<storeVars, replies, reviewVars, localVars, overtaken, asked>>

ClearLabels(p) ==
  /\ pc[p] = "clear"
  /\ WriteTicket(p, "commit")
  /\ UNCHANGED counters

\* applyTransition
Commit(p) ==
  /\ pc[p] = "commit"
  /\ Transition(p, event[p], work.planned)
  /\ Goto(p, StepOf(work'.state))
  /\ event' = [event EXCEPT ![p] = "none"]
  /\ held' = [held EXCEPT ![p] = NotHeld]
  /\ asked' = (work.state = "deciding" /\ event[p] = "REQUIRE_HUMAN")
  /\ UNCHANGED <<linearVars, reviewVars, rounds, counters, confirmed, overtaken, missed>>

\* A transition whose fence does not match throws, and the run ends.
Rejected(p) ==
  /\ \/ pc[p] = "entry" /\ workCopy[p].state \in DOMAIN EntryEvent
     \/ pc[p] \in {"commit", "save_failure", "plan"}
  /\ ~WorkFence(p)
  /\ Goto(p, "release")
  /\ UNCHANGED <<storeVars, linearVars, reviewVars, localVars, counters, history>>

Release(p) ==
  /\ pc[p] = "release"
  /\ ReleaseLease(p)
  /\ ForgetCopies(p)
  /\ Goto(p, "idle")
  /\ held' = [held EXCEPT ![p] = NotHeld]
  /\ event' = [event EXCEPT ![p] = "none"]
  /\ rounds' = [rounds EXCEPT ![p] = 0]
  /\ UNCHANGED <<linearVars, reviewVars, counters, history>>

-----------------------------------------------------------------------------
(* generateReview *)

\* The row is read back with the validation of this run.
Validated(r) == [reviews[r] EXCEPT !.validation = reviews[r].verdict]

\* reusePendingReview, or on to the models with the ticket as it is now.
Generate(p) ==
  LET r == Latest
      pending == r # 0 /\ ~reviews[r].label
      saved == pending /\ reviews[r].validation # reviews[r].verdict
  IN /\ pc[p] = "generate"
     /\ IF saved /\ ~HoldsLease(p) THEN Goto(p, "release") /\ UNCHANGED event
        ELSE IF pending THEN Intend(p, "commit", "REVIEW_GENERATED")
        ELSE Goto(p, "model") /\ UNCHANGED event
     /\ reviews' = IF saved /\ HoldsLease(p)
                   THEN [reviews EXCEPT ![r] = Validated(r)] ELSE reviews
     /\ IF pending THEN UNCHANGED held
        ELSE Hold(p, 0, [NoReview EXCEPT !.original = ticket, !.replies = replies])
     /\ UNCHANGED <<storeVars, linearVars, lastReview, observed, rounds, counters,
                    history>>

\* The models propose a patch, and saveReviewProposal inserts it.
Propose(p) ==
  /\ pc[p] = "model"
  /\ lastReview < ReviewBound
  /\ \E verdict \in Verdicts :
       LET r == lastReview + 1
           row == [held[p].row EXCEPT !.verdict = verdict, !.valid = TRUE]
       IN IF HoldsLease(p)
          THEN /\ lastReview' = r
               /\ reviews' = [reviews EXCEPT ![r] = row]
               /\ Hold(p, r, row)
          ELSE UNCHANGED <<reviews, lastReview, held>>
  /\ Asserting(p, "validate")
  /\ UNCHANGED <<storeVars, linearVars, observed, event, rounds, counters, history>>

\* saveReviewValidation
Validate(p) ==
  /\ pc[p] = "validate"
  /\ IF HoldsLease(p)
     THEN /\ reviews' = [reviews EXCEPT ![held[p].n] = Validated(held[p].n)]
          /\ Intend(p, "commit", "REVIEW_GENERATED")
     ELSE Goto(p, "release") /\ UNCHANGED <<reviews, event>>
  /\ UNCHANGED <<storeVars, linearVars, lastReview, observed, held, rounds, counters,
                 history>>

MarkFailed(p) ==
  /\ pc[p] = "mark_failed"
  /\ WriteTicket(p, "save_failure")
  /\ UNCHANGED counters

\* The ticket with its label is read back, saved, and the work item fails.
SaveFailure(p) ==
  /\ pc[p] = "save_failure"
  /\ observed' = ticket
  /\ Transition(p, "FAIL", work.planned)
  /\ Goto(p, StepOf("failed"))
  /\ held' = [held EXCEPT ![p] = NotHeld]
  /\ confirmed' = (Latest = 0 /\ "failed" \in ticket.labels)
  /\ UNCHANGED <<linearVars, reviews, lastReview, event, rounds, counters, overtaken,
                 missed, asked>>

-----------------------------------------------------------------------------
(* applyReview *)

\* The event that a review whose label is in place leads to.
OutcomeEvent(verdict) ==
  CASE ~Accepted(verdict) -> "FAIL"
    [] verdict = "human" -> "REQUIRE_HUMAN"
    [] OTHER -> "REVIEW_APPLIED"

\* Mutant: the text of a review that needs a person's approval is written too.
WritesContent_HumanToo(row) == Accepted(row.validation) /\ ~row.content

\* Only an accepted review that needs no approval replaces the text.
WritesContent(row) ==
  Accepted(row.validation) /\ row.validation # "human" /\ ~row.content

\* Stale, or go on without a write to the store.
Proceed(p, stale, label) ==
  IF stale THEN Stale(p) ELSE Goto(p, label) /\ UNCHANGED <<reviews, event>>

\* The latest review is read, and then the comments.
Apply(p) ==
  LET r == Latest
      row == reviews[r]
  IN /\ pc[p] = "apply"
     /\ \/ /\ r = 0
           /\ Intend(p, "commit", "REVIEW_INVALIDATED")
           /\ UNCHANGED <<reviews, held>>
        \/ /\ r # 0 /\ Replied(row)
           /\ Discard(p, r, "commit", "REVIEW_INVALIDATED")
           /\ UNCHANGED held
        \/ /\ r # 0 /\ ~Replied(row)
           /\ Goto(p, IF row.label THEN "check"
                      ELSE IF WritesContent(row) THEN "content" ELSE "labels")
           /\ Hold(p, r, row)
           /\ UNCHANGED <<reviews, event>>
     /\ UNCHANGED <<storeVars, linearVars, lastReview, observed, rounds, counters,
                    history>>

\* appliedReviewIsFresh: the labels were applied by an earlier run.
CheckApplied(p) ==
  LET row == held[p].row
      fresh == LabelState(ticket, row.applied, ExpectedLabels(row.validation)) = "applied"
  IN /\ pc[p] = "check"
     /\ IF fresh THEN Intend(p, "commit", OutcomeEvent(row.validation)) /\ UNCHANGED reviews
        ELSE Stale(p)
     /\ confirmed' = (confirmed \/ (fresh /\ HoldsLease(p) /\ ~Replied(row)))
     /\ UNCHANGED <<storeVars, linearVars, lastReview, observed, held, rounds, counters,
                    overtaken, missed, asked>>

\* applyReviewContent, up to its write
CheckContent(p) ==
  LET state == ContentState(ticket, held[p].n, held[p].row)
  IN /\ pc[p] = "content"
     /\ Proceed(p, state = "stale",
                IF state = "applied" THEN "confirm"
                ELSE IF HoldsLease(p) THEN "update" ELSE "release")
     /\ UNCHANGED <<storeVars, linearVars, lastReview, observed, held, rounds, counters,
                    history>>

Update(p) ==
  /\ pc[p] = "update"
  /\ WriteTicket(p, "confirm")
  /\ UNCHANGED counters

\* The rest of applyReviewContent: markReviewContentApplied
ConfirmContent(p) ==
  LET r == held[p].n
      row == [held[p].row EXCEPT !.content = TRUE, !.applied = ticket]
  IN /\ pc[p] = "confirm"
     /\ \/ /\ ContentState(ticket, r, held[p].row) # "applied"
           /\ Stale(p) /\ UNCHANGED held
        \/ /\ ContentState(ticket, r, held[p].row) = "applied"
           /\ Asserting(p, "labels")
           /\ reviews' = IF HoldsLease(p) THEN [reviews EXCEPT ![r] = row] ELSE reviews
           /\ Hold(p, r, row)
           /\ UNCHANGED event
     /\ UNCHANGED <<storeVars, linearVars, lastReview, observed, rounds, counters,
                    history>>

\* The ticket without the result's labels.
Baseline(row) == IF row.content THEN row.applied ELSE row.original

\* applyReviewLabels and applyTerminalReviewLabel, up to their write
CheckLabels(p) ==
  LET row == held[p].row
      state == LabelState(ticket, Baseline(row), ExpectedLabels(row.validation))
  IN /\ pc[p] = "labels"
     /\ Proceed(p, state = "stale",
                IF state = "applied" THEN "confirm_labels"
                ELSE IF HoldsLease(p) THEN "relabel" ELSE "release")
     /\ UNCHANGED <<storeVars, linearVars, lastReview, observed, held, rounds, counters,
                    history>>

Relabel(p) ==
  /\ pc[p] = "relabel"
  /\ WriteTicket(p, "confirm_labels")
  /\ UNCHANGED counters

\* persistAppliedLabels
ConfirmLabels(p) ==
  LET r == held[p].n
      row == held[p].row
      applied == LabelState(ticket, Baseline(row), ExpectedLabels(row.validation)) = "applied"
  IN /\ pc[p] = "confirm_labels"
     /\ IF applied /\ HoldsLease(p)
        THEN /\ reviews' = [reviews EXCEPT ![r].label = TRUE, ![r].applied = ticket]
             /\ Intend(p, "commit", OutcomeEvent(row.validation))
        ELSE Stale(p)
     /\ confirmed' = (confirmed \/ (applied /\ HoldsLease(p) /\ ~Replied(row)))
     /\ UNCHANGED <<storeVars, linearVars, lastReview, observed, held, rounds, counters,
                    overtaken, missed, asked>>

-----------------------------------------------------------------------------
(* decide *)

\* reopenChangedReviewBeforeDecision
Changed(row) == row.label /\ (~AppliedReviewMatches(row) \/ Replied(row))

\* Mutant: the limit on decisions is not looked at.
Exhausted_Never(p) == FALSE
Exhausted(p) == rounds[p] >= MaxDecisionIterations

\* The ticket is read, and the review it claims to have by its label.
Decide(p) ==
  LET r == IF "reviewed" \in ticket.labels THEN Latest ELSE 0
  IN /\ pc[p] = "decide"
     /\ \/ /\ Exhausted(p)
           /\ Intend(p, "commit", "REQUIRE_HUMAN")
           /\ UNCHANGED <<reviews, observed, held, rounds>>
        \/ /\ ~Exhausted(p)
           /\ rounds' = [rounds EXCEPT ![p] = @ + 1]
           /\ observed' = ticket
           /\ IF r # 0 /\ Changed(reviews[r])
              THEN Discard(p, r, "clear", "REVIEW") /\ UNCHANGED held
              ELSE /\ Goto(p, "decided")
                   /\ held' = [held EXCEPT ![p] =
                        IF r = 0 THEN NotHeld ELSE [n |-> r, row |-> reviews[r]]]
                   /\ UNCHANGED <<reviews, event>>
     /\ UNCHANGED <<storeVars, linearVars, lastReview, counters, history>>

Routed(type, planned) == [type |-> type, planned |-> planned]

\* buildReviewDecisionInput, validateRecommendedAction, eventForRecommendedAction:
\* a review that is not accepted and applied is generated again, a person's
\* review is not overruled, and only a ready one is left to the model.
Routes(row) ==
  IF ~Accepted(row.validation) \/ ~row.label THEN {Routed("REVIEW", "none")}
  ELSE IF row.validation = "human" THEN {Routed("REQUIRE_HUMAN", "none")}
  ELSE IF row.validation = "blocked" THEN {Routed("PLAN_ACTION", "wait")}
  ELSE {CASE action = "execute" -> Routed("PLAN_ACTION", "execute")
          [] action = "ignore" -> Routed("IGNORE", "none")
          [] action = "review" -> Routed("REVIEW", "none")
          [] OTHER -> Routed("REQUIRE_HUMAN", "none") : action \in Recommended}

\* Mutant: the ticket is not compared after the model has answered.
TicketMatches_Unread(row) == TRUE
TicketMatches(row) == AppliedReviewMatches(row)

\* The model has answered, and the ticket is read again if the decision is about
\* an applied review; what it says is acted upon after the comments.
Decided(p) ==
  LET row == held[p].row
  IN /\ pc[p] = "decided"
     /\ IF row.label
        THEN /\ Intend(p, "comments", IF TicketMatches(row) THEN "none" ELSE "REVIEW")
             /\ missed' = missed \ {p}
        ELSE Goto(p, "plan") /\ UNCHANGED <<event, missed>>
     /\ UNCHANGED <<storeVars, linearVars, reviewVars, held, rounds, counters, confirmed,
                    overtaken, asked>>

\* The rest of reopenChangedReviewBeforeDecision
CheckComments(p) ==
  LET row == held[p].row
      changed == event[p] = "REVIEW" \/ Replied(row)
  IN /\ pc[p] = "comments"
     /\ IF changed THEN Discard(p, held[p].n, "clear", "REVIEW")
        ELSE Goto(p, "plan") /\ UNCHANGED <<reviews, event>>
     /\ confirmed' = (confirmed \/ (~changed /\ HoldsLease(p) /\ AppliedReviewMatches(row)))
     /\ UNCHANGED <<storeVars, linearVars, lastReview, observed, held, rounds, counters,
                    overtaken, missed, asked>>

\* saveDecision and the transition, for whatever has been read by now.
Plan(p) ==
  /\ pc[p] = "plan"
  /\ \E route \in Routes(held[p].row) :
       /\ Transition(p, route.type,
            IF route.planned = "none" THEN work.planned ELSE route.planned)
       /\ Goto(p, StepOf(work'.state))
       /\ asked' = (route.type = "REQUIRE_HUMAN")
  /\ held' = [held EXCEPT ![p] = NotHeld]
  /\ UNCHANGED <<linearVars, reviewVars, event, rounds, counters, confirmed, overtaken,
                 missed>>

-----------------------------------------------------------------------------
(* Faults *)

FaultHappens(kind) ==
  /\ kind \in FaultKinds
  /\ Disturbed /\ faults < FaultBound
  /\ faults' = faults + 1
  /\ UNCHANGED <<edits, notices>>

Writing == {"clear", "mark_failed", "update", "relabel"}
Reading == {"freshness", "save_failure", "generate", "apply", "check", "content", "confirm",
            "labels", "confirm_labels", "decide", "decided", "comments"}

\* A call to Linear throws before it takes effect, and the run ends.
Throws(p) ==
  /\ pc[p] \in Writing \cup Reading
  /\ FaultHappens("error")
  /\ Goto(p, "release")
  /\ UNCHANGED <<storeVars, linearVars, reviewVars, localVars, history>>

\* A write to Linear took effect, and its response is lost.
ResponseLost(p) ==
  /\ pc[p] \in Writing
  /\ FaultHappens("error")
  /\ WriteTicket(p, "release")

\* The harness or a model throws: generateReview catches it.
ModelFails(p) ==
  /\ pc[p] = "model"
  /\ FaultHappens("error")
  /\ Asserting(p, "mark_failed")
  /\ UNCHANGED <<storeVars, linearVars, reviewVars, localVars, history>>

\* The process dies.  Its lease stays.
Crash(p) ==
  /\ pc[p] # "idle"
  /\ FaultHappens("crash")
  /\ ForgetCopies(p)
  /\ Goto(p, "idle")
  /\ held' = [held EXCEPT ![p] = NotHeld]
  /\ event' = [event EXCEPT ![p] = "none"]
  /\ rounds' = [rounds EXCEPT ![p] = 0]
  /\ UNCHANGED <<work, attempts, lastAttempt, linearVars, reviewVars, history>>

LeaseLapses ==
  /\ work' = [work EXCEPT !.live = FALSE]
  /\ UNCHANGED <<attempts, lastAttempt, workCopy, attemptCopy, linearVars, reviewVars,
                 pc, localVars, history>>

Renewed == \E p \in Proc : HoldsLease(p) /\ pc[p] # "idle"

\* The lease of a run that died lapses by itself.
Expire == work.live /\ ~Renewed /\ LeaseLapses /\ UNCHANGED counters

\* The lease of a live run lapses: one failed renewal stops its heartbeat.
Lapse == work.live /\ Renewed /\ FaultHappens("lapse") /\ LeaseLapses

-----------------------------------------------------------------------------
(* People, and the execution coordinator *)

Edited ==
  /\ Disturbed /\ edits < EditBound
  /\ edits' = edits + 1
  /\ confirmed' = FALSE
  /\ UNCHANGED <<storeVars, reviewVars, pc, localVars, notices, faults, asked>>

EditText ==
  /\ Edited
  /\ ticket' = [ticket EXCEPT !.text = edits + 1]
  /\ overtaken' = (overtaken \/ \E p \in Proc : pc[p] = "update")
  /\ missed' = missed \cup Settling
  /\ UNCHANGED replies

RemoveLabel ==
  /\ Edited
  /\ \E label \in ticket.labels : ticket' = [ticket EXCEPT !.labels = @ \ {label}]
  /\ missed' = missed \cup Settling
  /\ UNCHANGED <<replies, overtaken>>

Reply ==
  /\ Edited
  /\ replies' = replies + 1
  /\ missed' = missed \cup {p \in Proc : pc[p] = "plan"}
  /\ UNCHANGED <<ticket, overtaken>>

\* ExecutionCoordinator, from the planned action to the end of its attempt.
Execute ==
  /\ Launchable /\ LeaseFree /\ lastAttempt < AttemptBound
  /\ \E state \in ExecutionEnds :
       /\ attempts' = [attempts EXCEPT ![lastAttempt + 1] = [NewAttempt EXCEPT !.state = state]]
       /\ work' = [work EXCEPT !.state = state, !.current = lastAttempt + 1,
                               !.owner = NoOwner, !.live = FALSE]
  /\ lastAttempt' = lastAttempt + 1
  /\ workCopy' = [p \in Proc |-> [workCopy[p] EXCEPT !.fresh = FALSE]]
  /\ UNCHANGED <<attemptCopy, linearVars, reviewVars, pc, localVars, counters, history>>

\* Its projection: the gate labels of Linear follow the attempt.
Project ==
  /\ work.current # 0 /\ LeaseFree
  /\ LET n == work.current
         state == attempts[n].state
     IN /\ state \in SettledExecutionStates
        /\ attempts[n].projection # "applied"
        /\ attempts' = [attempts EXCEPT ![n].projection = "applied"]
        /\ ticket' = [ticket EXCEPT !.labels =
             (@ \ {"ready", "needs_input", "failed"})
             \cup (IF state = "succeeded" THEN {} ELSE {StateLabel(state)})]
  /\ work' = [work EXCEPT !.owner = NoOwner, !.live = FALSE]
  /\ workCopy' = [p \in Proc |-> [workCopy[p] EXCEPT !.fresh = FALSE]]
  /\ confirmed' = FALSE
  /\ missed' = missed \cup Settling
  /\ UNCHANGED <<lastAttempt, attemptCopy, replies, reviewVars, pc, localVars, counters,
                 overtaken, asked>>

-----------------------------------------------------------------------------

\* What run p does next, left to itself.
RunStep(p) ==
  \/ NormalizeEntryState(p) \/ Enter(p) \/ CheckFreshness(p) \/ ClearLabels(p)
  \/ Commit(p) \/ Rejected(p) \/ Release(p)
  \/ Generate(p) \/ Propose(p) \/ Validate(p) \/ MarkFailed(p) \/ SaveFailure(p)
  \/ Apply(p) \/ CheckApplied(p) \/ CheckContent(p) \/ Update(p) \/ ConfirmContent(p)
  \/ CheckLabels(p) \/ Relabel(p) \/ ConfirmLabels(p)
  \/ Decide(p) \/ Decided(p) \/ CheckComments(p) \/ Plan(p)

RunFault(p) == Throws(p) \/ ResponseLost(p) \/ ModelFails(p) \/ Crash(p)

People == EditText \/ RemoveLabel \/ Reply

Next ==
  \/ \E p \in Proc : Acquire(p) \/ RunStep(p) \/ RunFault(p)
  \/ Expire \/ Lapse
  \/ People \/ Execute \/ Project

Spec == Init /\ [][Next]_vars

\* The service's timer runs process for what listRecoverableWorkIds lists; a run
\* goes on until it ends; the clock advances.
Dispatch == NeedsDecision /\ \E p \in Proc : Acquire(p)

Fairness ==
  /\ WF_vars(Dispatch)
  /\ \A p \in Proc : WF_vars(RunStep(p))
  /\ WF_vars(Expire)

FairSpec == Spec /\ Fairness

-----------------------------------------------------------------------------
(* Properties *)

Reopenable == {"action_planned", "needs_human", "failed"}

\* What Linear shows is what the store says: as long as nobody changed the ticket
\* since a run saw its result there, a work item that a review brought to rest
\* carries the label of its state, and a planned one the text its review proposed.
\* (One that a decision sent to a person keeps the labels of its review.)
LabelsTellState ==
  confirmed /\ work.state \in Reopenable /\ work.current = 0 /\ ~asked =>
    /\ StateLabel(work.state) \in ticket.labels
    /\ work.state = "action_planned" =>
         Latest # 0 /\ ticket.text = Proposal(Latest)

\* A proposal reaches the ticket only if policy accepted it without a person's
\* approval, whichever runs proposed, validated and wrote it.
OnlyAcceptedIsWritten ==
  \A r \in Review : ticket.text = Proposal(r) =>
    r <= lastReview /\ reviews[r].verdict \in {"blocked", "ready"}
    /\ reviews[r].validation = reviews[r].verdict

\* An execution is planned only under the newest review, accepted, ready and
\* labelled, and of the ticket as it is: its text, its labels and its comments,
\* unless these changed after the run had read them for the last time.
PlanIsOfReviewedTicket ==
  [][work'.planned = "execute" /\ work'.state = "action_planned" /\ work.state = "deciding"
     => LET r == Latest
        IN /\ r # 0
           /\ reviews[r].validation = "ready" /\ reviews[r].label
           /\ \E p \in Proc :
                /\ pc[p] = "plan" /\ pc'[p] # "plan"
                /\ \/ p \in missed
                   \/ /\ ticket.text = Proposal(r)
                      /\ ticket.labels = {"reviewed", "ready"}
                      /\ replies = reviews[r].replies]_vars

\* The text a proposal replaces is the one the review was made from.
ReplacesReviewedText ==
  \A r \in Review :
    ticket'.text = Proposal(r) /\ ticket.text # Proposal(r) /\ ticket.text <= EditBound
      => ticket.text = reviews[r].original.text

\* A person's text is replaced only after a review has read it, unless it is
\* written in the moment between the last read and the replacement.
EditsAreReviewed == [][ReplacesReviewedText \/ overtaken]_vars

\* README: a human edit made while a review runs invalidates its proposal.
EditsAreNeverOverwritten == [][ReplacesReviewedText]_vars

\* A work item that a review brought to rest, and that has no execution, is
\* reviewed again only if somebody changed the issue since: a webhook or a scan
\* alone does not do it.
ReopenedOnlyAfterChange ==
  [][work.state \in Reopenable /\ work.current = 0 /\ work'.state = "reviewing"
     => ~confirmed \/ asked]_vars

\* loop.ts on work that waits for a person: only an edit of the ticket or the removal
\* of its label leads to another review.
KeptUnlessChanged ==
  [][work.state = "needs_human" /\ work.current = 0 /\ work'.state = "reviewing"
     => ~confirmed]_vars

\* Work that the timer lists comes to rest: planned, with a person, ignored or
\* failed, in spite of edits, crashes, failing calls and lapses.
EventuallyDecided == NeedsDecision ~> ~NeedsDecision
=============================================================================
