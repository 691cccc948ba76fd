-------------------------- MODULE DecisionLoop_proofs --------------------------
(***************************************************************************)
(* The decision loop, for any number of runs, reviews, edits and faults:   *)
(* what is planned was reviewed, what is written was accepted, what it     *)
(* replaces was read, the labels tell how the newest review ended, and     *)
(* only a change of the ticket reopens it.                                 *)
(***************************************************************************)
EXTENDS DecisionLoop, MastermindStore_proofs, WellFoundedInduction

\* A stored review: its validation repeats its verdict; once its text or its
\* labels were applied, the ticket it was left with is stored in the row.
RowSound(r) ==
  LET row == reviews[r]
  IN /\ row.validation \in {"none", row.verdict}
     /\ row.content => row.applied.text = Proposal(r)
     /\ row.label =>
          /\ row.applied.labels = ExpectedLabels(row.validation)
          /\ row.validation \in {"ready", "blocked"} => row.applied.text = Proposal(r)

RowsSound == \A r \in Review : RowSound(r)

\* The review in hand of a run that holds the lease is the stored one.
HandSound(p) ==
  LET r == held[p].n
      row == held[p].row
  IN /\ pc[p] = "model" => ~row.content /\ ~row.label /\ row.validation = "none"
     /\ pc[p] = "validate" => r \in Review /\ ~reviews[r].label
     /\ pc[p] \in {"content", "update", "confirm", "labels", "relabel", "confirm_labels"}
          => r \in Review /\ reviews[r] = row /\ ~row.label
     /\ pc[p] \in {"labels", "relabel", "confirm_labels"} => ~WritesContent(row)
     /\ pc[p] \in {"decided", "comments", "plan"} =>
          \/ r = 0 /\ ~row.label
          \/ r \in Review /\ r = Latest /\ reviews[r] = row

HandsSound == \A p \in Proc : HoldsLease(p) => HandSound(p)

\* A run about to replace the text, with the lease or without, does so for an
\* accepted review, and the text was the reviewed one when it looked.
AboutToWrite(p) ==
  LET r == held[p].n
  IN /\ pc[p] \in {"content", "update"} =>
          /\ r \in 1..lastReview
          /\ reviews[r].validation = reviews[r].verdict
          /\ reviews[r].verdict \in {"blocked", "ready"}
          /\ reviews[r].original = held[p].row.original
     /\ pc[p] = "update" =>
          \/ overtaken
          \/ ticket.text = held[p].row.original.text
          \/ ticket.text > EditBound

WritesSound == \A p \in Proc : AboutToWrite(p)

\* A run that has looked at the ticket, and then at the comments, for the last time
\* found them as the review left them, and so they are unless it has missed a change.
Looked(p) ==
  LET row == held[p].row
  IN p \notin missed =>
       /\ pc[p] = "comments" /\ event[p] # "REVIEW" => AppliedReviewMatches(row)
       /\ pc[p] = "plan" /\ row.label => AppliedReviewMatches(row) /\ ~Replied(row)

LooksSound == \A p \in Proc : Looked(p)

LoopInv == TypeOK /\ RowsSound /\ HandsSound /\ WritesSound /\ LooksSound
             /\ OnlyAcceptedIsWritten

-----------------------------------------------------------------------------
(* Types *)

\* A non-empty set of numbers up to n has a greatest one.
LEMMA Greatest ==
  ASSUME NEW n \in Nat, NEW S \in SUBSET (1..n), S # {}
  PROVE  \E r \in S : \A s \in S : s <= r
<1> DEFINE D == {n - s : s \in S}
<1>1. D \subseteq Nat /\ D # {}
  <2>1. \A s \in S : n - s \in Nat
    OBVIOUS
  <2>2. PICK s \in S : TRUE
    OBVIOUS
  <2>3. n - s \in D
    OBVIOUS
  <2> QED BY <2>1, <2>3
<1>2. PICK d \in D : \A e \in D : <<e, d>> \notin OpToRel(<, Nat)
  BY <1>1, WFMin, NatLessThanWellFounded, Zenon
<1>3. \A e \in D : ~(e < d)
  BY <1>1, <1>2, Zenon DEF OpToRel
<1>4. PICK r \in S : d = n - r
  OBVIOUS
<1>5. \A s \in S : n - s \in D
  OBVIOUS
<1>6. \A s \in S : ~(n - s < n - r)
  BY <1>3, <1>4, <1>5
<1> QED BY <1>6

\* The newest valid row is one of the rows.
LEMMA LatestType ==
  ASSUME TypeOK
  PROVE  Latest \in 0..lastReview /\ lastReview \in Nat
<1> DEFINE valid == {r \in 1..lastReview : reviews[r].valid}
<1>1. lastReview \in Nat
  BY LoopAssumption DEF TypeOK
<1>2. CASE valid = {}
  BY <1>1, <1>2 DEF Latest
<1>3. CASE valid # {}
  <2>1. \E r \in valid : \A s \in valid : s <= r
    BY <1>1, <1>3, Greatest
  <2>2. Latest = CHOOSE r \in valid : \A s \in valid : s <= r
    BY <1>3 DEF Latest
  <2>3. Latest \in valid
    BY <2>1, <2>2, Zenon
  <2> QED BY <1>1, <2>3
<1> QED BY <1>1, <1>2, <1>3
LEMMA InitType == Init => TypeOK
<1> SUFFICES ASSUME Init PROVE TypeOK
  OBVIOUS
<1>1. StoreTypeOK
  <2>1. work \in Work
    BY AttemptBoundAssumption DEF Init, Work, PlannedAction, MastermindState, On
  <2>2. AbsentAttempt \in Attempt
    BY DEF AbsentAttempt, Attempt
  <2>3. NoWorkCopy \in WorkCopy /\ NoAttemptCopy \in AttemptCopy
    BY <2>2, AttemptBoundAssumption
    DEF NoWorkCopy, WorkCopy, MastermindState, On, PlannedAction, NoAttemptCopy,
        AttemptCopy
  <2> QED BY <2>1, <2>2, <2>3, AttemptBoundAssumption DEF Init, StoreTypeOK
<1>2. Blank \in Ticket
  BY LoopAssumption DEF Blank, Ticket
<1>3. NoReview \in ReviewRow
  BY <1>2, LoopAssumption DEF NoReview, ReviewRow, Verdict
<1>4. NotHeld \in [n: 0..ReviewBound, row: ReviewRow]
  BY <1>3, LoopAssumption DEF NotHeld
<1>5. /\ {0} \subseteq 0..ReviewBound /\ {0} \subseteq 0..EditBound
      /\ {0} \subseteq 0..NoticeBound /\ {0} \subseteq 0..FaultBound
      /\ {0} \subseteq 0..MaxDecisionIterations
  BY LoopAssumption
<1>6. pc \in [Proc -> Pc] /\ event \in [Proc -> LoopEvents]
  BY DEF Init, Pc, LoopEvents
<1> QED
  BY <1>1, <1>2, <1>3, <1>4, <1>5, <1>6 DEF Init, TypeOK

\* Types of what the steps assign.
LEMMA LocalTypes ==
  ASSUME TypeOK
  PROVE  /\ NoReview \in ReviewRow
         /\ NotHeld \in [n: 0..ReviewBound, row: ReviewRow]
         /\ \A r \in 0..lastReview : r \in 0..ReviewBound
         /\ \A r \in 0..lastReview : r # 0 => r \in Review
         /\ \A state : StepOf(state) \in Pc
         /\ \A verdict : ExpectedLabels(verdict) \in SUBSET Label
         /\ \A verdict : OutcomeEvent(verdict) \in LoopEvents
<1>1. Blank \in Ticket
  BY LoopAssumption DEF Blank, Ticket
<1>2. NoReview \in ReviewRow
  BY <1>1, LoopAssumption DEF NoReview, ReviewRow, Verdict
<1>3. NotHeld \in [n: 0..ReviewBound, row: ReviewRow]
  BY <1>2, LoopAssumption DEF NotHeld
<1>4. lastReview \in 0..ReviewBound /\ ReviewBound \in Nat /\ EditBound \in Nat
  BY LoopAssumption DEF TypeOK
<1>5. \A state : StepOf(state) \in Pc
  BY DEF StepOf, Pc
<1>6. \A verdict : ExpectedLabels(verdict) \in SUBSET Label
  BY DEF ExpectedLabels, Label
<1>7. \A verdict : OutcomeEvent(verdict) \in LoopEvents
  BY DEF OutcomeEvent, LoopEvents
<1> QED BY <1>2, <1>3, <1>4, <1>5, <1>6, <1>7 DEF Review
LEMMA StoreKept ==
  ASSUME StoreTypeOK, UNCHANGED storeVars
  PROVE  StoreTypeOK'
BY DEF StoreTypeOK, storeVars

\* The updates of a review row.
LEMMA RowUpdates ==
  ASSUME NEW row \in ReviewRow
  PROVE  /\ [row EXCEPT !.valid = FALSE] \in ReviewRow
         /\ \A v \in Verdict : [row EXCEPT !.validation = v] \in ReviewRow
         /\ \A v \in Verdict : [row EXCEPT !.verdict = v, !.valid = TRUE] \in ReviewRow
         /\ \A t \in Ticket, n \in 0..EditBound :
              [row EXCEPT !.original = t, !.replies = n] \in ReviewRow
         /\ \A t \in Ticket : [row EXCEPT !.content = TRUE, !.applied = t] \in ReviewRow
         /\ \A t \in Ticket : [row EXCEPT !.label = TRUE, !.applied = t] \in ReviewRow
<1>1. [row EXCEPT !.valid = FALSE] \in ReviewRow
  BY DEF ReviewRow
<1>2. ASSUME NEW v \in Verdict
      PROVE  /\ [row EXCEPT !.validation = v] \in ReviewRow
             /\ [row EXCEPT !.verdict = v, !.valid = TRUE] \in ReviewRow
  BY DEF ReviewRow
<1>3. ASSUME NEW t \in Ticket
      PROVE  /\ [row EXCEPT !.content = TRUE, !.applied = t] \in ReviewRow
             /\ [row EXCEPT !.label = TRUE, !.applied = t] \in ReviewRow
  BY DEF ReviewRow
<1>4. ASSUME NEW t \in Ticket, NEW n \in 0..EditBound
      PROVE  [row EXCEPT !.original = t, !.replies = n] \in ReviewRow
  BY DEF ReviewRow
<1> QED BY <1>1, <1>2, <1>3, <1>4

\* invalidateReview
LEMMA DiscardType ==
  ASSUME TypeOK, NEW p \in Proc, NEW r \in 0..ReviewBound, NEW label \in Pc,
         NEW type \in LoopEvents, Discard(p, r, label, type)
  PROVE  /\ reviews' \in [Review -> ReviewRow]
         /\ pc' \in [Proc -> Pc]
         /\ event' \in [Proc -> LoopEvents]
<1>1. reviews' \in [Review -> ReviewRow]
  <2>1. \A s \in Review : [reviews[s] EXCEPT !.valid = FALSE] \in ReviewRow
    BY RowUpdates DEF TypeOK
  <2>2. r # 0 => r \in Review
    BY LoopAssumption DEF Review
  <2> QED BY <2>1, <2>2 DEF Discard, TypeOK
<1>2. pc' \in [Proc -> Pc] /\ event' \in [Proc -> LoopEvents]
  BY DEF Discard, Intend, Goto, Pc, TypeOK
<1> QED BY <1>1, <1>2

LEMMA StaleType ==
  ASSUME TypeOK, NEW p \in Proc, Stale(p)
  PROVE  /\ reviews' \in [Review -> ReviewRow]
         /\ pc' \in [Proc -> Pc]
         /\ event' \in [Proc -> LoopEvents]
<1>1. "commit" \in Pc /\ "REVIEW_INVALIDATED" \in LoopEvents
  BY DEF Pc, LoopEvents
<1>2. held[p].n \in 0..ReviewBound
  BY DEF TypeOK
<1> QED BY <1>1, <1>2, DiscardType DEF Stale

\* A write to Linear
LEMMA WriteTicketType ==
  ASSUME TypeOK, NEW p \in Proc, NEW label \in Pc, WriteTicket(p, label),
         pc[p] \in Writing, UNCHANGED <<edits, notices>>,
         faults' \in 0..FaultBound
  PROVE  TypeOK'
<1>1. TicketAfter(p) \in Ticket
  <2>1. CASE pc[p] = "update"
    <3>1. Proposal(held[p].n) \in 0..EditBound + ReviewBound
      BY LoopAssumption DEF TypeOK, Proposal
    <3> QED BY <2>1, <3>1 DEF TicketAfter, TypeOK, Ticket
  <2>2. CASE pc[p] = "clear"
    BY <2>2 DEF TicketAfter, TypeOK, Ticket
  <2>3. CASE pc[p] = "mark_failed"
    BY <2>3 DEF TicketAfter, TypeOK, Ticket, Label
  <2>4. CASE pc[p] = "relabel"
    <3> DEFINE L == (IF Accepted(held[p].row.validation) /\ held[p].row.validation # "human"
                     THEN ticket.labels \ {"ready", "needs_input", "failed"} ELSE {})
                    \cup ExpectedLabels(held[p].row.validation)
    <3>1. L \in SUBSET Label
      BY LocalTypes DEF TypeOK, Ticket
    <3>2. TicketAfter(p) = [ticket EXCEPT !.labels = L]
      BY <2>4 DEF TicketAfter, TypeOK, Ticket
    <3> QED BY <3>1, <3>2 DEF TypeOK, Ticket
  <2> QED BY <2>1, <2>2, <2>3, <2>4 DEF Writing
<1>2. StoreTypeOK'
  BY StoreKept DEF WriteTicket, TypeOK
<1>3. missed' \subseteq Proc
  BY DEF WriteTicket, Settling, TypeOK
<1> QED BY <1>1, <1>2, <1>3 DEF WriteTicket, TypeOK, Goto, reviewVars, localVars
\* Every action of a run keeps the types.
LEMMA RunType ==
  ASSUME TypeOK, NEW p \in Proc, Acquire(p) \/ RunStep(p) \/ RunFault(p)
  PROVE  TypeOK'
<1> USE DEF Goto, Intend, Hold, linearVars, reviewVars, localVars, history, counters
<1>0. /\ Latest \in 0..lastReview
      /\ Latest \in 0..ReviewBound
      /\ Latest # 0 => Latest \in Review
  BY LatestType, LocalTypes
<1>1. CASE Acquire(p)
  <2>1. StoreTypeOK'
    BY <1>1, AcquireLeaseType DEF Acquire, TypeOK
  <2>2. notices' \in 0..NoticeBound
    BY <1>1, LoopAssumption DEF Acquire, TypeOK
  <2> QED BY <1>1, <2>1, <2>2 DEF Acquire, TypeOK, Pc
<1>2. CASE NormalizeEntryState(p)
  <2>1. work.planned \in PlannedAction
    BY DEF TypeOK, StoreTypeOK, Work
  <2>2. StoreTypeOK'
    BY <1>2, <2>1, TransitionType DEF NormalizeEntryState, TypeOK
  <2> QED BY <1>2, <2>2 DEF NormalizeEntryState, TypeOK
<1>3. CASE Enter(p) \/ Rejected(p) \/ Throws(p) \/ ModelFails(p)
  <2>1. StoreTypeOK'
    BY <1>3, StoreKept DEF Enter, Rejected, Throws, ModelFails, TypeOK
  <2>2. faults' \in 0..FaultBound /\ UNCHANGED <<edits, notices>>
    BY <1>3, LoopAssumption DEF Enter, Rejected, Throws, ModelFails, FaultHappens, TypeOK
  <2>3. pc' \in [Proc -> Pc]
    BY <1>3, LocalTypes DEF Enter, Rejected, Throws, ModelFails, Asserting, TypeOK, Pc
  <2> QED BY <1>3, <2>1, <2>2, <2>3 DEF Enter, Rejected, Throws, ModelFails, TypeOK
<1>4. CASE CheckFreshness(p)
  <2>1. StoreTypeOK'
    BY <1>4, StoreKept DEF CheckFreshness, TypeOK
  <2>2. /\ reviews' \in [Review -> ReviewRow]
        /\ pc' \in [Proc -> Pc]
        /\ event' \in [Proc -> LoopEvents]
    <3>1. CASE Discard(p, Latest, "clear", "REOPEN_REVIEW")
      <4>1. "clear" \in Pc /\ "REOPEN_REVIEW" \in LoopEvents
        BY DEF Pc, LoopEvents
      <4> QED BY <1>0, <3>1, <4>1, DiscardType
    <3>2. CASE Goto(p, "release") /\ UNCHANGED <<reviews, event>>
      BY <3>2 DEF TypeOK, Pc
    <3> QED BY <1>4, <3>1, <3>2 DEF CheckFreshness
  <2> QED BY <1>4, <2>1, <2>2 DEF CheckFreshness, TypeOK
<1>5. CASE ClearLabels(p) \/ MarkFailed(p) \/ Update(p) \/ Relabel(p) \/ ResponseLost(p)
  <2>1. /\ pc[p] \in Writing
        /\ \E label \in Pc : WriteTicket(p, label)
        /\ UNCHANGED <<edits, notices>>
    BY <1>5 DEF ClearLabels, MarkFailed, Update, Relabel, ResponseLost, Writing, Pc,
                FaultHappens
  <2>2. faults' \in 0..FaultBound
    BY <1>5, LoopAssumption
    DEF ClearLabels, MarkFailed, Update, Relabel, ResponseLost, FaultHappens, TypeOK
  <2> QED BY <2>1, <2>2, WriteTicketType
<1>6. CASE Commit(p) \/ SaveFailure(p)
  <2>1. work.planned \in PlannedAction
    BY DEF TypeOK, StoreTypeOK, Work
  <2>2. StoreTypeOK'
    BY <1>6, <2>1, TransitionType DEF Commit, SaveFailure, TypeOK
  <2>3. pc' \in [Proc -> Pc]
    BY <1>6, LocalTypes DEF Commit, SaveFailure, TypeOK
  <2>4. event' \in [Proc -> LoopEvents]
    BY <1>6 DEF Commit, SaveFailure, TypeOK, LoopEvents
  <2>5. held' \in [Proc -> [n: 0..ReviewBound, row: ReviewRow]]
    BY <1>6, LocalTypes DEF Commit, SaveFailure, TypeOK
  <2>6. observed' \in Ticket /\ confirmed' \in BOOLEAN /\ asked' \in BOOLEAN
    BY <1>6 DEF Commit, SaveFailure, TypeOK
  <2> QED BY <1>6, <2>2, <2>3, <2>4, <2>5, <2>6 DEF Commit, SaveFailure, TypeOK
<1>7. CASE Release(p)
  <2>1. StoreTypeOK'
    BY <1>7, ReleaseLeaseType DEF Release, TypeOK
  <2>2. 0 \in 0..MaxDecisionIterations
    BY LoopAssumption
  <2> QED BY <1>7, <2>1, <2>2, LocalTypes DEF Release, TypeOK, Pc, LoopEvents
<1>8. CASE Crash(p)
  <2>1. StoreTypeOK'
    BY <1>8, ForgetCopiesType DEF Crash, TypeOK, StoreTypeOK
  <2>2. 0 \in 0..MaxDecisionIterations
    BY LoopAssumption
  <2>3. faults' \in 0..FaultBound
    BY <1>8, LoopAssumption DEF Crash, FaultHappens, TypeOK
  <2> QED BY <1>8, <2>1, <2>2, <2>3, LocalTypes
          DEF Crash, FaultHappens, TypeOK, Pc, LoopEvents
<1>9. CASE Generate(p)
  <2>1. StoreTypeOK'
    BY <1>9, StoreKept DEF Generate, TypeOK
  <2>2. reviews' \in [Review -> ReviewRow]
    <3>1. CASE reviews' = reviews
      BY <3>1 DEF TypeOK
    <3>2. CASE Latest # 0 /\ reviews' = [reviews EXCEPT ![Latest] = Validated(Latest)]
      <4>1. reviews[Latest].verdict \in Verdict
        BY <1>0, <3>2 DEF TypeOK, ReviewRow
      <4>2. Validated(Latest) \in ReviewRow
        BY <1>0, <3>2, <4>1, RowUpdates DEF Validated, TypeOK
      <4> QED BY <3>2, <4>2 DEF TypeOK
    <3> QED BY <1>9, <3>1, <3>2 DEF Generate
  <2>3. [NoReview EXCEPT !.original = ticket, !.replies = replies] \in ReviewRow
    BY LocalTypes, RowUpdates DEF TypeOK
  <2>4. held' \in [Proc -> [n: 0..ReviewBound, row: ReviewRow]]
    BY <1>9, <2>3, LoopAssumption DEF Generate, TypeOK
  <2>5. pc' \in [Proc -> Pc] /\ event' \in [Proc -> LoopEvents]
    BY <1>9 DEF Generate, TypeOK, Pc, LoopEvents
  <2> QED BY <1>9, <2>1, <2>2, <2>4, <2>5 DEF Generate, TypeOK
<1>10. CASE Propose(p)
  <2>1. StoreTypeOK'
    BY <1>10, StoreKept DEF Propose, TypeOK
  <2>2. lastReview + 1 \in Review /\ lastReview + 1 \in 0..ReviewBound
    <3>1. lastReview < ReviewBound
      BY <1>10 DEF Propose
    <3>2. lastReview \in 0..ReviewBound
      BY DEF TypeOK
    <3> QED BY <3>1, <3>2, LoopAssumption DEF Review
  <2>3. ASSUME NEW verdict \in Verdicts
        PROVE  [held[p].row EXCEPT !.verdict = verdict, !.valid = TRUE] \in ReviewRow
    BY RowUpdates, LoopAssumption DEF TypeOK
  <2>4. /\ lastReview' \in 0..ReviewBound
        /\ reviews' \in [Review -> ReviewRow]
        /\ held' \in [Proc -> [n: 0..ReviewBound, row: ReviewRow]]
    <3>1. CASE HoldsLease(p)
      <4>1. PICK verdict \in Verdicts :
              LET row == [held[p].row EXCEPT !.verdict = verdict, !.valid = TRUE]
              IN /\ lastReview' = lastReview + 1
                 /\ reviews' = [reviews EXCEPT ![lastReview + 1] = row]
                 /\ held' = [held EXCEPT ![p] = [n |-> lastReview + 1, row |-> row]]
        BY <1>10, <3>1 DEF Propose
      <4> QED BY <2>2, <2>3, <4>1 DEF TypeOK
    <3>2. CASE ~HoldsLease(p)
      BY <1>10, <3>2 DEF Propose, TypeOK
    <3> QED BY <3>1, <3>2
  <2>5. pc' \in [Proc -> Pc]
    BY <1>10 DEF Propose, Asserting, TypeOK, Pc
  <2> QED BY <1>10, <2>1, <2>4, <2>5 DEF Propose, TypeOK
<1>11. CASE Validate(p)
  <2>1. StoreTypeOK'
    BY <1>11, StoreKept DEF Validate, TypeOK
  <2>2. ASSUME NEW r \in Review PROVE Validated(r) \in ReviewRow
    <3>1. reviews[r] \in ReviewRow /\ reviews[r].verdict \in Verdict
      BY DEF TypeOK, ReviewRow
    <3> QED BY <3>1, RowUpdates DEF Validated
  <2>3. reviews' \in [Review -> ReviewRow]
    BY <1>11, <2>2 DEF Validate, TypeOK
  <2>4. pc' \in [Proc -> Pc] /\ event' \in [Proc -> LoopEvents]
    BY <1>11 DEF Validate, TypeOK, Pc, LoopEvents
  <2> QED BY <1>11, <2>1, <2>3, <2>4 DEF Validate, TypeOK
<1>12. CASE Apply(p)
  <2>1. StoreTypeOK'
    BY <1>12, StoreKept DEF Apply, TypeOK
  <2>2. "commit" \in Pc /\ "REVIEW_INVALIDATED" \in LoopEvents
    BY DEF Pc, LoopEvents
  <2>3. CASE Latest = 0
    BY <1>12, <2>1, <2>2, <2>3 DEF Apply, TypeOK
  <2>4. CASE Latest # 0 /\ Replied(reviews[Latest])
    <3>1. Discard(p, Latest, "commit", "REVIEW_INVALIDATED")
      BY <1>12, <2>4 DEF Apply
    <3>2. /\ reviews' \in [Review -> ReviewRow]
          /\ pc' \in [Proc -> Pc]
          /\ event' \in [Proc -> LoopEvents]
      BY <1>0, <2>2, <3>1, DiscardType
    <3> QED BY <1>12, <2>1, <2>4, <3>2 DEF Apply, TypeOK
  <2>5. CASE Latest # 0 /\ ~Replied(reviews[Latest])
    <3>1. /\ UNCHANGED <<reviews, event>>
          /\ held' = [held EXCEPT ![p] = [n |-> Latest, row |-> reviews[Latest]]]
      BY <1>12, <2>5 DEF Apply
    <3>2. pc' \in [Proc -> Pc]
      BY <1>12, <2>5 DEF Apply, TypeOK, Pc
    <3>3. held' \in [Proc -> [n: 0..ReviewBound, row: ReviewRow]]
      BY <1>0, <2>5, <3>1 DEF TypeOK
    <3> QED BY <1>12, <2>1, <3>1, <3>2, <3>3 DEF Apply, TypeOK
  <2> QED BY <2>3, <2>4, <2>5
<1>13. CASE CheckApplied(p) \/ CheckContent(p) \/ CheckLabels(p)
  <2>1. StoreTypeOK'
    BY <1>13, StoreKept DEF CheckApplied, CheckContent, CheckLabels, TypeOK
  <2>2. CASE Stale(p)
    BY <1>13, <2>1, <2>2, StaleType DEF CheckApplied, CheckContent, CheckLabels, TypeOK
  <2>3. CASE ~Stale(p)
    <3>1. reviews' = reviews /\ pc' \in [Proc -> Pc] /\ event' \in [Proc -> LoopEvents]
      <4>1. CASE CheckApplied(p)
        <5>1. /\ Intend(p, "commit", OutcomeEvent(held[p].row.validation))
              /\ UNCHANGED reviews
          BY <2>3, <4>1 DEF CheckApplied
        <5> QED BY <5>1, LocalTypes DEF TypeOK, Pc
      <4>2. CASE CheckContent(p)
        BY <2>3, <4>2 DEF CheckContent, Proceed, TypeOK, Pc
      <4>3. CASE CheckLabels(p)
        BY <2>3, <4>3 DEF CheckLabels, Proceed, TypeOK, Pc
      <4> QED BY <1>13, <4>1, <4>2, <4>3
    <3>2. confirmed' \in BOOLEAN
      BY <1>13 DEF CheckApplied, CheckContent, CheckLabels, TypeOK
    <3> QED BY <1>13, <2>1, <3>1, <3>2 DEF CheckApplied, CheckContent, CheckLabels, TypeOK
  <2> QED BY <2>2, <2>3
<1>14. CASE ConfirmContent(p)
  <2>1. StoreTypeOK'
    BY <1>14, StoreKept DEF ConfirmContent, TypeOK
  <2>2. CASE Stale(p) /\ UNCHANGED held
    BY <1>14, <2>1, <2>2, StaleType DEF ConfirmContent, TypeOK
  <2>3. CASE ~(Stale(p) /\ UNCHANGED held)
    <3>1. [held[p].row EXCEPT !.content = TRUE, !.applied = ticket] \in ReviewRow
      BY RowUpdates DEF TypeOK
    <3>2. reviews' \in [Review -> ReviewRow]
      BY <1>14, <2>3, <3>1 DEF ConfirmContent, TypeOK
    <3>3. held' \in [Proc -> [n: 0..ReviewBound, row: ReviewRow]]
      BY <1>14, <2>3, <3>1 DEF ConfirmContent, TypeOK
    <3>4. pc' \in [Proc -> Pc]
      BY <1>14, <2>3 DEF ConfirmContent, Asserting, TypeOK, Pc
    <3> QED BY <1>14, <2>1, <2>3, <3>2, <3>3, <3>4 DEF ConfirmContent, TypeOK
  <2> QED BY <2>2, <2>3
<1>15. CASE ConfirmLabels(p)
  <2>1. StoreTypeOK'
    BY <1>15, StoreKept DEF ConfirmLabels, TypeOK
  <2>2. CASE Stale(p)
    BY <1>15, <2>1, <2>2, StaleType DEF ConfirmLabels, TypeOK
  <2>3. CASE ~Stale(p)
    <3>1. \A r \in Review :
            [reviews[r] EXCEPT !.label = TRUE, !.applied = ticket] \in ReviewRow
      BY RowUpdates DEF TypeOK
    <3>2. reviews' = [reviews EXCEPT ![held[p].n] =
                        [reviews[held[p].n] EXCEPT !.label = TRUE, !.applied = ticket]]
      BY <1>15, <2>3 DEF ConfirmLabels, TypeOK
    <3>3. reviews' \in [Review -> ReviewRow]
      BY <3>1, <3>2 DEF TypeOK
    <3>4. Intend(p, "commit", OutcomeEvent(held[p].row.validation))
      BY <1>15, <2>3 DEF ConfirmLabels
    <3>5. pc' \in [Proc -> Pc] /\ event' \in [Proc -> LoopEvents]
      BY <3>4, LocalTypes DEF TypeOK, Pc
    <3> QED BY <1>15, <2>1, <2>3, <3>3, <3>5 DEF ConfirmLabels, TypeOK
  <2> QED BY <2>2, <2>3
<1>16. CASE Decide(p)
  <2>1. StoreTypeOK'
    BY <1>16, StoreKept DEF Decide, TypeOK
  <2> DEFINE r == IF "reviewed" \in ticket.labels THEN Latest ELSE 0
  <2>2. /\ "commit" \in Pc /\ "clear" \in Pc /\ "decided" \in Pc
        /\ "REQUIRE_HUMAN" \in LoopEvents /\ "REVIEW" \in LoopEvents
    BY DEF Pc, LoopEvents
  <2>3. CASE Exhausted(p)
    BY <1>16, <2>1, <2>2, <2>3 DEF Decide, TypeOK
  <2>4. CASE ~Exhausted(p)
    <3>1. rounds' \in [Proc -> 0..MaxDecisionIterations]
      BY <1>16, <2>4, LoopAssumption DEF Decide, Exhausted, TypeOK
    <3>2. CASE Discard(p, r, "clear", "REVIEW") /\ UNCHANGED held
      <4>1. r \in 0..ReviewBound
        BY <1>0, LoopAssumption
      <4>2. /\ reviews' \in [Review -> ReviewRow]
            /\ pc' \in [Proc -> Pc]
            /\ event' \in [Proc -> LoopEvents]
        BY <2>2, <3>2, <4>1, DiscardType
      <4> QED BY <1>16, <2>1, <2>4, <3>1, <3>2, <4>2 DEF Decide, TypeOK
    <3>3. CASE ~(Discard(p, r, "clear", "REVIEW") /\ UNCHANGED held)
      <4>1. (IF r = 0 THEN NotHeld ELSE [n |-> r, row |-> reviews[r]])
              \in [n: 0..ReviewBound, row: ReviewRow]
        BY <1>0, LocalTypes DEF TypeOK
      <4>2. held' \in [Proc -> [n: 0..ReviewBound, row: ReviewRow]]
        BY <1>16, <2>4, <3>3, <4>1 DEF Decide, TypeOK
      <4> QED BY <1>16, <2>1, <2>2, <2>4, <3>1, <3>3, <4>2 DEF Decide, TypeOK
    <3> QED BY <3>2, <3>3
  <2> QED BY <2>3, <2>4
<1>17. CASE Decided(p)
  <2>1. StoreTypeOK'
    BY <1>17, StoreKept DEF Decided, TypeOK
  <2>2. pc' \in [Proc -> Pc] /\ event' \in [Proc -> LoopEvents] /\ missed' \subseteq Proc
    BY <1>17 DEF Decided, TypeOK, Pc, LoopEvents
  <2> QED BY <1>17, <2>1, <2>2 DEF Decided, TypeOK
<1>18. CASE CheckComments(p)
  <2>1. StoreTypeOK'
    BY <1>18, StoreKept DEF CheckComments, TypeOK
  <2>2. /\ reviews' \in [Review -> ReviewRow]
        /\ pc' \in [Proc -> Pc]
        /\ event' \in [Proc -> LoopEvents]
    <3>1. CASE Discard(p, held[p].n, "clear", "REVIEW")
      <4>1. "clear" \in Pc /\ "REVIEW" \in LoopEvents /\ held[p].n \in 0..ReviewBound
        BY DEF Pc, LoopEvents, TypeOK
      <4> QED BY <3>1, <4>1, DiscardType
    <3>2. CASE Goto(p, "plan") /\ UNCHANGED <<reviews, event>>
      BY <3>2 DEF TypeOK, Pc
    <3> QED BY <1>18, <3>1, <3>2 DEF CheckComments
  <2>3. confirmed' \in BOOLEAN
    BY <1>18 DEF CheckComments, TypeOK
  <2> QED BY <1>18, <2>1, <2>2, <2>3 DEF CheckComments, TypeOK
<1>19. CASE Plan(p)
  <2>1. PICK route \in Routes(held[p].row) :
          /\ Transition(p, route.type,
               IF route.planned = "none" THEN work.planned ELSE route.planned)
          /\ Goto(p, StepOf(work'.state))
          /\ asked' = (route.type = "REQUIRE_HUMAN")
    BY <1>19 DEF Plan
  <2>2. route.planned \in PlannedAction
    BY DEF Routes, Routed, PlannedAction
  <2>3. (IF route.planned = "none" THEN work.planned ELSE route.planned) \in PlannedAction
    BY <2>2 DEF TypeOK, StoreTypeOK, Work
  <2>4. StoreTypeOK'
    BY <2>1, <2>3, TransitionType DEF TypeOK
  <2>5. pc' \in [Proc -> Pc] /\ asked' \in BOOLEAN
    BY <2>1, LocalTypes DEF TypeOK
  <2>6. held' \in [Proc -> [n: 0..ReviewBound, row: ReviewRow]]
    BY <1>19, LocalTypes DEF Plan, TypeOK
  <2> QED BY <1>19, <2>4, <2>5, <2>6 DEF Plan, TypeOK
<1> QED
  BY <1>1, <1>2, <1>3, <1>4, <1>5, <1>6, <1>7, <1>8, <1>9, <1>10, <1>11, <1>12, <1>13,
     <1>14, <1>15, <1>16, <1>17, <1>18, <1>19
  DEF RunStep, RunFault
\* The bound on replies is the one on edits.
RepliesAreEdits == replies <= edits

\* All copies of the work row have been outdated.
LEMMA Outdated ==
  ASSUME TypeOK, workCopy' = [p \in Proc |-> [workCopy[p] EXCEPT !.fresh = FALSE]]
  PROVE  workCopy' \in [Proc -> WorkCopy]
<1>1. ASSUME NEW p \in Proc PROVE [workCopy[p] EXCEPT !.fresh = FALSE] \in WorkCopy
  <2>1. workCopy[p] \in WorkCopy
    BY DEF TypeOK, StoreTypeOK
  <2> QED BY <2>1 DEF WorkCopy
<1> QED BY <1>1

\* Time, people and the execution coordinator keep the types.
LEMMA OutsideType ==
  ASSUME TypeOK, RepliesAreEdits, Expire \/ Lapse \/ People \/ Execute \/ Project
  PROVE  TypeOK' /\ RepliesAreEdits'
<1> USE DEF linearVars, reviewVars, localVars, history, counters
<1>1. CASE Expire \/ Lapse
  <2>1. StoreTypeOK'
    BY <1>1 DEF Expire, Lapse, LeaseLapses, TypeOK, StoreTypeOK, Work
  <2>2. faults' \in 0..FaultBound /\ UNCHANGED <<edits, notices>>
    BY <1>1, LoopAssumption DEF Expire, Lapse, FaultHappens, TypeOK
  <2> QED BY <1>1, <2>1, <2>2 DEF Expire, Lapse, LeaseLapses, TypeOK, RepliesAreEdits
<1>2. CASE People
  <2>1. Edited
    BY <1>2 DEF People, EditText, RemoveLabel, Reply
  <2>2. StoreTypeOK'
    BY <2>1, StoreKept DEF Edited, TypeOK
  <2>3. edits' \in 0..EditBound /\ edits + 1 \in 0..EditBound + ReviewBound
    BY <2>1, LoopAssumption DEF Edited, TypeOK
  <2>4. RepliesAreEdits'
    BY <1>2, <2>1, LoopAssumption
    DEF People, EditText, RemoveLabel, Reply, Edited, TypeOK, RepliesAreEdits
  <2>8. missed' \subseteq Proc
    BY <1>2 DEF People, EditText, RemoveLabel, Reply, Settling, TypeOK
  <2>5. CASE EditText
    BY <2>1, <2>2, <2>3, <2>4, <2>5, <2>8 DEF EditText, Edited, TypeOK, Ticket
  <2>6. CASE RemoveLabel
    BY <2>1, <2>2, <2>3, <2>4, <2>6, <2>8 DEF RemoveLabel, Edited, TypeOK, Ticket
  <2>7. CASE Reply
    <3>1. replies' \in 0..EditBound
      BY <2>1, <2>7, LoopAssumption DEF Reply, Edited, TypeOK, RepliesAreEdits
    <3> QED BY <2>1, <2>2, <2>3, <2>4, <2>7, <2>8, <3>1 DEF Reply, Edited, TypeOK
  <2> QED BY <1>2, <2>5, <2>6, <2>7 DEF People
<1>3. CASE Execute
  <2>1. lastAttempt + 1 \in AttemptNumber /\ lastAttempt + 1 \in 0..AttemptBound
    <3>1. lastAttempt < AttemptBound /\ lastAttempt \in 0..AttemptBound
      BY <1>3 DEF Execute, TypeOK, StoreTypeOK
    <3> QED BY <3>1, AttemptBoundAssumption DEF AttemptNumber
  <2>2. PICK state \in ExecutionEnds :
          /\ attempts' = [attempts EXCEPT
               ![lastAttempt + 1] = [NewAttempt EXCEPT !.state = state]]
          /\ work' = [work EXCEPT !.state = state, !.current = lastAttempt + 1,
                                  !.owner = NoOwner, !.live = FALSE]
    BY <1>3 DEF Execute
  <2>3. state \in ExecutionStates
    BY LoopAssumption DEF ExecutionStates
  <2>4. [NewAttempt EXCEPT !.state = state] \in Attempt
    BY <2>3 DEF NewAttempt, AbsentAttempt, Attempt
  <2>5. work' \in Work
    BY <2>1, <2>2, <2>3, ExecutionStatesAreStates DEF TypeOK, StoreTypeOK, Work
  <2>6. workCopy' \in [Proc -> WorkCopy]
    <3>1. workCopy' = [p \in Proc |-> [workCopy[p] EXCEPT !.fresh = FALSE]]
      BY <1>3 DEF Execute
    <3> QED BY <3>1, Outdated
  <2>7. StoreTypeOK'
    BY <1>3, <2>1, <2>2, <2>4, <2>5, <2>6 DEF Execute, TypeOK, StoreTypeOK
  <2> QED BY <1>3, <2>7 DEF Execute, TypeOK, RepliesAreEdits
<1>4. CASE Project
  <2>1. work.current \in AttemptNumber
    BY <1>4, AttemptBoundAssumption DEF Project, TypeOK, StoreTypeOK, Work, AttemptNumber
  <2>2. [attempts[work.current] EXCEPT !.projection = "applied"] \in Attempt
    <3>1. attempts[work.current] \in Attempt
      BY <2>1 DEF TypeOK, StoreTypeOK
    <3> QED BY <3>1 DEF Attempt
  <2>3. work' \in Work
    BY <1>4 DEF Project, TypeOK, StoreTypeOK, Work
  <2>6. workCopy' \in [Proc -> WorkCopy]
    <3>1. workCopy' = [p \in Proc |-> [workCopy[p] EXCEPT !.fresh = FALSE]]
      BY <1>4 DEF Project
    <3> QED BY <3>1, Outdated
  <2>4. StoreTypeOK'
    BY <1>4, <2>1, <2>2, <2>3, <2>6 DEF Project, TypeOK, StoreTypeOK
  <2>5. ticket' \in Ticket
    BY <1>4 DEF Project, TypeOK, Ticket, StateLabel, Label
  <2>7. missed' \subseteq Proc
    BY <1>4 DEF Project, Settling, TypeOK
  <2> QED BY <1>4, <2>4, <2>5, <2>7 DEF Project, TypeOK, RepliesAreEdits
<1> QED BY <1>1, <1>2, <1>3, <1>4

\* No step of a run writes a comment of a person, or counts as one.
LEMMA RunKeepsEdits ==
  ASSUME NEW p \in Proc, Acquire(p) \/ RunStep(p) \/ RunFault(p)
  PROVE  UNCHANGED <<replies, edits>>
BY DEF RunStep, RunFault, Acquire, NormalizeEntryState, Enter, CheckFreshness, ClearLabels,
       Commit, Rejected, Release, Generate, Propose, Validate, MarkFailed, SaveFailure,
       Apply, CheckApplied, CheckContent, Update, ConfirmContent, CheckLabels, Relabel,
       ConfirmLabels, Decide, Decided, CheckComments, Plan, Throws, ResponseLost,
       ModelFails, Crash, WriteTicket, FaultHappens, linearVars, counters

LEMMA TypeStep == TypeOK /\ RepliesAreEdits /\ [Next]_vars => TypeOK' /\ RepliesAreEdits'
<1> SUFFICES ASSUME TypeOK, RepliesAreEdits, [Next]_vars
             PROVE  TypeOK' /\ RepliesAreEdits'
  OBVIOUS
<1>1. CASE UNCHANGED vars
  <2>1. StoreTypeOK'
    BY <1>1, StoreKept DEF vars, TypeOK
  <2> QED BY <1>1, <2>1 DEF vars, linearVars, reviewVars, localVars, history, counters,
                            TypeOK, RepliesAreEdits
<1>2. ASSUME NEW p \in Proc, Acquire(p) \/ RunStep(p) \/ RunFault(p)
      PROVE  TypeOK' /\ RepliesAreEdits'
  BY <1>2, RunType, RunKeepsEdits DEF RepliesAreEdits
<1>3. CASE Expire \/ Lapse \/ People \/ Execute \/ Project
  BY <1>3, OutsideType
<1> QED BY <1>1, <1>2, <1>3 DEF Next

LEMMA TypeAlways == Spec => [](TypeOK /\ RepliesAreEdits)
<1>1. Init => RepliesAreEdits
  BY DEF Init, RepliesAreEdits
<1> QED BY <1>1, InitType, TypeStep, PTL DEF Spec

\* Every variable of the decision loop keeps its type.
THEOREM DecisionsTypeCorrect == Spec => []TypeOK
BY TypeAlways, PTL
-----------------------------------------------------------------------------
(* Who may change what *)

\* Runs have owners of their own, so one of them holds the lease.
LEMMA OneHolder ==
  ASSUME NEW p \in Proc, NEW q \in Proc, HoldsLease(p), HoldsLease(q)
  PROVE  p = q
BY LoopAssumption DEF HoldsLease

\* The lease comes to a run only by its own acquireLease.
LEMMA RunLease ==
  ASSUME TypeOK, NEW p \in Proc, RunStep(p) \/ RunFault(p), NEW q \in Proc, HoldsLease(q)'
  PROVE  HoldsLease(q)
<1>1. CASE UNCHANGED work
  BY <1>1 DEF HoldsLease
<1>2. CASE \E type, planned : Transition(p, type, planned)
  BY <1>2 DEF Transition, HoldsLease, TypeOK, StoreTypeOK, Work
<1>3. CASE ReleaseLease(p)
  BY <1>3, StoreAssumption DEF ReleaseLease, HoldsLease, TypeOK, StoreTypeOK, Work
<1>4. CASE NormalizeEntryState(p) \/ Commit(p) \/ SaveFailure(p)
  BY <1>2, <1>4 DEF NormalizeEntryState, Commit, SaveFailure
<1>5. CASE Plan(p)
  BY <1>2, <1>5 DEF Plan
<1>6. CASE Release(p)
  BY <1>3, <1>6 DEF Release
<1>7. CASE RunFault(p)
  BY <1>1, <1>7 DEF RunFault, Throws, ResponseLost, ModelFails, Crash, WriteTicket, storeVars
<1>8. CASE Enter(p) \/ CheckFreshness(p) \/ ClearLabels(p) \/ Rejected(p) \/ Generate(p)
           \/ Propose(p) \/ Validate(p) \/ MarkFailed(p)
  BY <1>1, <1>8
  DEF Enter, CheckFreshness, ClearLabels, Rejected, Generate, Propose, Validate, MarkFailed,
      WriteTicket, storeVars
<1>9. CASE Apply(p) \/ CheckApplied(p) \/ CheckContent(p) \/ Update(p) \/ ConfirmContent(p)
           \/ CheckLabels(p) \/ Relabel(p) \/ ConfirmLabels(p) \/ Decide(p) \/ Decided(p)
           \/ CheckComments(p)
  BY <1>1, <1>9
  DEF Apply, CheckApplied, CheckContent, Update, ConfirmContent, CheckLabels, Relabel,
      ConfirmLabels, Decide, Decided, CheckComments, WriteTicket, storeVars
<1> QED BY <1>4, <1>5, <1>6, <1>7, <1>8, <1>9 DEF RunStep

LEMMA AcquireIsOwn ==
  ASSUME TypeOK, NEW p \in Proc, Acquire(p), NEW q \in Proc, HoldsLease(q)'
  PROVE  q = p
BY LoopAssumption DEF Acquire, AcquireLease, HoldsLease, TypeOK, StoreTypeOK, Work

LEMMA OutsideLease ==
  ASSUME TypeOK, Expire \/ Lapse \/ People \/ Execute \/ Project, NEW q \in Proc,
         HoldsLease(q)'
  PROVE  HoldsLease(q)
<1>1. CASE UNCHANGED work
  BY <1>1 DEF HoldsLease
<1>2. CASE ~work'.live
  BY <1>2 DEF HoldsLease
<1>3. CASE Expire \/ Lapse \/ Execute \/ Project
  <2>1. ~work'.live
    BY <1>3 DEF Expire, Lapse, LeaseLapses, Execute, Project, TypeOK, StoreTypeOK, Work
  <2> QED BY <1>2, <2>1
<1>4. CASE People
  BY <1>1, <1>4 DEF People, EditText, RemoveLabel, Reply, Edited, storeVars
<1> QED BY <1>3, <1>4

\* A run leaves what others hold alone.
LEMMA Footprint ==
  ASSUME TypeOK, NEW p \in Proc, Acquire(p) \/ RunStep(p) \/ RunFault(p),
         NEW q \in Proc, q # p
  PROVE  pc'[q] = pc[q] /\ held'[q] = held[q] /\ event'[q] = event[q]
<1> USE DEF Goto, Intend, Hold, TypeOK, localVars
<1>1. CASE Acquire(p) \/ NormalizeEntryState(p) \/ Enter(p) \/ ClearLabels(p) \/ Commit(p)
           \/ Rejected(p) \/ Release(p)
  BY <1>1 DEF Acquire, NormalizeEntryState, Enter, ClearLabels, Commit, Rejected, Release,
              WriteTicket
<1>2. CASE CheckFreshness(p) \/ Apply(p) \/ CheckApplied(p) \/ CheckContent(p)
           \/ CheckLabels(p)
  BY <1>2 DEF CheckFreshness, Apply, CheckApplied, CheckContent, CheckLabels, Proceed,
              Stale, Discard
<1>3. CASE Generate(p) \/ Propose(p) \/ Validate(p) \/ MarkFailed(p) \/ SaveFailure(p)
  BY <1>3 DEF Generate, Propose, Asserting, Validate, MarkFailed, SaveFailure, WriteTicket
<1>4. CASE Update(p) \/ ConfirmContent(p) \/ Relabel(p) \/ ConfirmLabels(p)
  BY <1>4 DEF Update, ConfirmContent, Asserting, Relabel, ConfirmLabels, Stale, Discard,
              WriteTicket
<1>5. CASE Decide(p) \/ Decided(p) \/ CheckComments(p) \/ Plan(p)
  BY <1>5 DEF Decide, Decided, CheckComments, Plan, Discard
<1>6. CASE RunFault(p)
  BY <1>6 DEF RunFault, Throws, ResponseLost, ModelFails, Asserting, Crash, WriteTicket
<1> QED BY <1>1, <1>2, <1>3, <1>4, <1>5, <1>6 DEF RunStep

\* Rows are written under the lease only.
LEMMA RowsAreFenced ==
  ASSUME NEW p \in Proc, Acquire(p) \/ RunStep(p) \/ RunFault(p), ~HoldsLease(p)
  PROVE  UNCHANGED <<reviews, lastReview>>
<1> USE DEF reviewVars
<1>1. CASE Acquire(p) \/ NormalizeEntryState(p) \/ Enter(p) \/ ClearLabels(p) \/ Commit(p)
           \/ Rejected(p) \/ Release(p)
  BY <1>1 DEF Acquire, NormalizeEntryState, Enter, ClearLabels, Commit, Rejected, Release,
              WriteTicket
<1>2. CASE CheckFreshness(p) \/ Apply(p) \/ CheckApplied(p) \/ CheckContent(p)
           \/ CheckLabels(p)
  BY <1>2 DEF CheckFreshness, Apply, CheckApplied, CheckContent, CheckLabels, Proceed,
              Stale, Discard
<1>3. CASE Generate(p) \/ Propose(p) \/ Validate(p) \/ MarkFailed(p) \/ SaveFailure(p)
  BY <1>3 DEF Generate, Propose, Validate, MarkFailed, SaveFailure, WriteTicket
<1>4. CASE Update(p) \/ ConfirmContent(p) \/ Relabel(p) \/ ConfirmLabels(p)
  BY <1>4 DEF Update, ConfirmContent, Relabel, ConfirmLabels, Stale, Discard, WriteTicket
<1>5. CASE Decide(p) \/ Decided(p) \/ CheckComments(p) \/ Plan(p)
  BY <1>5 DEF Decide, Decided, CheckComments, Plan, Discard
<1>6. CASE RunFault(p)
  BY <1>6 DEF RunFault, Throws, ResponseLost, ModelFails, Crash, WriteTicket
<1> QED BY <1>1, <1>2, <1>3, <1>4, <1>5, <1>6 DEF RunStep

\* A run changes the text of the ticket only by the update of its review, and
\* leaves it to people to have been overtaken.
LEMMA RunText ==
  ASSUME TypeOK, NEW p \in Proc, Acquire(p) \/ RunStep(p) \/ RunFault(p)
  PROVE  /\ overtaken' = overtaken
         /\ \/ ticket'.text = ticket.text
            \/ pc[p] = "update" /\ ticket'.text = Proposal(held[p].n)
<1> USE DEF linearVars, history
<1>1. CASE ClearLabels(p) \/ MarkFailed(p) \/ Update(p) \/ Relabel(p) \/ ResponseLost(p)
  <2>1. /\ pc[p] \in Writing
        /\ ticket' = TicketAfter(p) /\ overtaken' = overtaken
    BY <1>1 DEF ClearLabels, MarkFailed, Update, Relabel, ResponseLost, WriteTicket, Writing
  <2>2. CASE pc[p] = "update"
    BY <2>1, <2>2 DEF TicketAfter, TypeOK, Ticket
  <2>3. CASE pc[p] = "clear"
    BY <2>1, <2>3 DEF TicketAfter, TypeOK, Ticket
  <2>4. CASE pc[p] = "mark_failed"
    BY <2>1, <2>4 DEF TicketAfter, TypeOK, Ticket
  <2>5. CASE pc[p] = "relabel"
    BY <2>1, <2>5 DEF TicketAfter, TypeOK, Ticket
  <2> QED BY <2>1, <2>2, <2>3, <2>4, <2>5 DEF Writing
<1>2. CASE Acquire(p) \/ NormalizeEntryState(p) \/ Enter(p) \/ CheckFreshness(p) \/ Commit(p)
           \/ Rejected(p) \/ Release(p) \/ Generate(p) \/ Propose(p) \/ Validate(p)
           \/ SaveFailure(p)
  BY <1>2 DEF Acquire, NormalizeEntryState, Enter, CheckFreshness, Commit, Rejected, Release,
              Generate, Propose, Validate, SaveFailure
<1>3. CASE Apply(p) \/ CheckApplied(p) \/ CheckContent(p) \/ ConfirmContent(p)
           \/ CheckLabels(p) \/ ConfirmLabels(p) \/ Decide(p) \/ Decided(p)
           \/ CheckComments(p) \/ Plan(p) \/ Throws(p) \/ ModelFails(p) \/ Crash(p)
  BY <1>3 DEF Apply, CheckApplied, CheckContent, ConfirmContent, CheckLabels, ConfirmLabels,
              Decide, Decided, CheckComments, Plan, Throws, ModelFails, Crash
<1> QED BY <1>1, <1>2, <1>3 DEF RunStep, RunFault
-----------------------------------------------------------------------------
(* The rows *)

\* What no step undoes: a review's verdict, the ticket it was made from, and
\* its validation once it repeats the verdict.
RowsKept ==
  /\ lastReview' >= lastReview
  /\ \A r \in 1..lastReview :
       /\ reviews'[r].verdict = reviews[r].verdict
       /\ reviews'[r].original = reviews[r].original
       /\ reviews[r].validation = reviews[r].verdict
            => reviews'[r].validation = reviews'[r].verdict

LEMMA UnchangedRows ==
  ASSUME TypeOK, RowsSound, UNCHANGED <<reviews, lastReview>>
  PROVE  RowsSound' /\ RowsKept
<1>1. lastReview \in Nat
  BY LoopAssumption DEF TypeOK
<1> QED BY <1>1 DEF RowsSound, RowSound, RowsKept, Proposal

\* invalidateReview
LEMMA DiscardRows ==
  ASSUME TypeOK, RowsSound, NEW p, NEW r, NEW label, NEW type, Discard(p, r, label, type),
         UNCHANGED lastReview
  PROVE  RowsSound' /\ RowsKept
<1>1. lastReview \in Nat /\ \A s \in 1..lastReview : s \in Review
  BY LoopAssumption DEF TypeOK, Review
<1>2. \A s \in Review : \/ reviews'[s] = reviews[s]
                        \/ reviews'[s] = [reviews[s] EXCEPT !.valid = FALSE]
  BY DEF Discard, TypeOK
<1>3. \A s \in Review : /\ reviews'[s].verdict = reviews[s].verdict
                        /\ reviews'[s].original = reviews[s].original
                        /\ reviews'[s].validation = reviews[s].validation
                        /\ reviews'[s].content = reviews[s].content
                        /\ reviews'[s].label = reviews[s].label
                        /\ reviews'[s].applied = reviews[s].applied
  <2> TAKE s \in Review
  <2>1. reviews[s] \in ReviewRow
    BY DEF TypeOK
  <2> QED BY <1>2, <2>1 DEF ReviewRow
<1> QED BY <1>1, <1>3 DEF RowsSound, RowSound, RowsKept

\* saveReviewValidation, of a review whose labels were not applied
LEMMA ValidatedRows ==
  ASSUME TypeOK, RowsSound, NEW r \in Review, ~reviews[r].label,
         reviews' = [reviews EXCEPT ![r] = Validated(r)], UNCHANGED lastReview
  PROVE  RowsSound' /\ RowsKept
<1>1. lastReview \in Nat /\ \A s \in 1..lastReview : s \in Review
  BY LoopAssumption DEF TypeOK, Review
<1>2. \A s \in Review : s # r => reviews'[s] = reviews[s]
  BY DEF TypeOK
<1>3. /\ reviews'[r].verdict = reviews[r].verdict
      /\ reviews'[r].original = reviews[r].original
      /\ reviews'[r].validation = reviews[r].verdict
      /\ reviews'[r].content = reviews[r].content
      /\ reviews'[r].label = reviews[r].label
      /\ reviews'[r].applied = reviews[r].applied
  BY DEF Validated, TypeOK, ReviewRow
<1> QED BY <1>1, <1>2, <1>3 DEF RowsSound, RowSound, RowsKept

\* saveReviewProposal
LEMMA ProposeRows ==
  ASSUME TypeOK, RowsSound, HandsSound, NEW p \in Proc, Propose(p), HoldsLease(p)
  PROVE  RowsSound' /\ RowsKept
<1>1. PICK verdict \in Verdicts :
        LET row == [held[p].row EXCEPT !.verdict = verdict, !.valid = TRUE]
        IN /\ lastReview' = lastReview + 1
           /\ reviews' = [reviews EXCEPT ![lastReview + 1] = row]
  BY DEF Propose
<1>2. lastReview \in Nat /\ lastReview + 1 \in Review
      /\ \A s \in 1..lastReview : s \in Review /\ s # lastReview + 1
  BY LoopAssumption DEF Propose, TypeOK, Review
<1>3. /\ ~held[p].row.content /\ ~held[p].row.label /\ held[p].row.validation = "none"
  BY DEF Propose, HandsSound, HandSound
<1>4. /\ reviews'[lastReview + 1].validation = "none"
      /\ ~reviews'[lastReview + 1].content /\ ~reviews'[lastReview + 1].label
  BY <1>1, <1>2, <1>3 DEF TypeOK, ReviewRow
<1>5. \A s \in Review : s # lastReview + 1 => reviews'[s] = reviews[s]
  BY <1>1 DEF TypeOK
<1> QED BY <1>1, <1>2, <1>4, <1>5 DEF RowsSound, RowSound, RowsKept

LEMMA AppliedContent ==
  ASSUME NEW now, NEW r, NEW row, row \in ReviewRow, ContentState(now, r, row) = "applied"
  PROVE  now.text = Proposal(r)
BY DEF ContentState, ReviewRow, Ticket

\* markReviewContentApplied
LEMMA ConfirmContentRows ==
  ASSUME TypeOK, RowsSound, HandsSound, NEW p \in Proc, ConfirmContent(p), HoldsLease(p)
  PROVE  RowsSound' /\ RowsKept
<1> DEFINE r == held[p].n
           row == held[p].row
<1>1. CASE Stale(p)
  BY <1>1, DiscardRows DEF Stale, ConfirmContent
<1>2. CASE /\ ContentState(ticket, r, row) = "applied"
           /\ reviews' = [reviews EXCEPT ![r] =
                           [row EXCEPT !.content = TRUE, !.applied = ticket]]
  <2>1. r \in Review /\ reviews[r] = row /\ ~row.label /\ row \in ReviewRow
    BY DEF ConfirmContent, HandsSound, HandSound, TypeOK
  <2>2. ticket.text = Proposal(r)
    BY <1>2, <2>1, AppliedContent
  <2>3. lastReview' = lastReview /\ lastReview \in Nat
        /\ \A s \in 1..lastReview : s \in Review
    BY LoopAssumption DEF ConfirmContent, TypeOK, Review
  <2>4. \A s \in Review : s # r => reviews'[s] = reviews[s]
    BY <1>2 DEF TypeOK
  <2>5. /\ reviews'[r].verdict = reviews[r].verdict
        /\ reviews'[r].original = reviews[r].original
        /\ reviews'[r].validation = reviews[r].validation
        /\ reviews'[r].label = reviews[r].label
        /\ reviews'[r].applied = ticket
    BY <1>2, <2>1 DEF TypeOK, ReviewRow
  <2> QED BY <2>1, <2>2, <2>3, <2>4, <2>5 DEF RowsSound, RowSound, RowsKept
<1> QED BY <1>1, <1>2 DEF ConfirmContent

LEMMA AppliedLabels ==
  ASSUME NEW now, NEW baseline, NEW expected, LabelState(now, baseline, expected) = "applied"
  PROVE  now.text = baseline.text /\ now.labels = expected
BY DEF LabelState

\* markReviewLabelApplied
LEMMA ConfirmLabelsRows ==
  ASSUME TypeOK, RowsSound, HandsSound, NEW p \in Proc, ConfirmLabels(p), HoldsLease(p)
  PROVE  RowsSound' /\ RowsKept
<1> DEFINE r == held[p].n
           row == held[p].row
<1>1. CASE Stale(p)
  BY <1>1, DiscardRows DEF Stale, ConfirmLabels
<1>2. CASE /\ LabelState(ticket, Baseline(row), ExpectedLabels(row.validation)) = "applied"
           /\ reviews' = [reviews EXCEPT ![r].label = TRUE, ![r].applied = ticket]
  <2>1. r \in Review /\ reviews[r] = row /\ ~WritesContent(row) /\ row \in ReviewRow
    BY DEF ConfirmLabels, HandsSound, HandSound, TypeOK
  <2>2. ticket.text = Baseline(row).text /\ ticket.labels = ExpectedLabels(row.validation)
    BY <1>2, AppliedLabels
  <2>3. row.content => ticket.text = Proposal(r)
    BY <2>1, <2>2 DEF Baseline, RowsSound, RowSound
  <2>4. row.validation \in {"ready", "blocked"} => ticket.text = Proposal(r)
    BY <2>1, <2>3 DEF WritesContent, Accepted, Verdict
  <2>5. lastReview' = lastReview /\ lastReview \in Nat
        /\ \A s \in 1..lastReview : s \in Review
    BY LoopAssumption DEF ConfirmLabels, TypeOK, Review
  <2>6. \A s \in Review : s # r => reviews'[s] = reviews[s]
    BY <1>2 DEF TypeOK
  <2>7. /\ reviews'[r].verdict = reviews[r].verdict
        /\ reviews'[r].original = reviews[r].original
        /\ reviews'[r].validation = reviews[r].validation
        /\ reviews'[r].content = reviews[r].content
        /\ reviews'[r].applied = ticket
    BY <1>2, <2>1 DEF TypeOK, ReviewRow
  <2>8. ASSUME NEW s \in Review, s = r PROVE RowSound(s)'
    <3>1. RowSound(s)
      BY DEF RowsSound
    <3>2. /\ reviews'[s].validation \in {"none", reviews'[s].verdict}
          /\ reviews'[s].content => reviews'[s].applied.text = Proposal(s)
      BY <2>1, <2>3, <2>7, <2>8, <3>1 DEF RowSound
    <3>3. /\ reviews'[s].applied.labels = ExpectedLabels(reviews'[s].validation)
          /\ reviews'[s].validation \in {"ready", "blocked"}
               => reviews'[s].applied.text = Proposal(s)
      BY <2>1, <2>2, <2>4, <2>7, <2>8
    <3> QED BY <3>2, <3>3 DEF RowSound, Proposal, ExpectedLabels
  <2>9. ASSUME NEW s \in Review, s # r PROVE RowSound(s)'
    BY <2>6, <2>9 DEF RowsSound, RowSound, Proposal
  <2>10. RowsKept
    BY <2>5, <2>6, <2>7 DEF RowsKept
  <2> QED BY <2>8, <2>9, <2>10 DEF RowsSound
<1> QED BY <1>1, <1>2 DEF ConfirmLabels

\* Every step of a run keeps the rows sound.
LEMMA RunRows ==
  ASSUME TypeOK, RowsSound, HandsSound, NEW p \in Proc,
         Acquire(p) \/ RunStep(p) \/ RunFault(p)
  PROVE  RowsSound' /\ RowsKept
<1>1. CASE UNCHANGED <<reviews, lastReview>>
  BY <1>1, UnchangedRows
<1>2. CASE ~HoldsLease(p)
  BY <1>1, <1>2, RowsAreFenced
<1>3. CASE HoldsLease(p)
  <2> USE <1>3 DEF reviewVars
  <2>1. CASE Propose(p)
    BY <2>1, ProposeRows
  <2>2. CASE ConfirmContent(p)
    BY <2>2, ConfirmContentRows
  <2>3. CASE ConfirmLabels(p)
    BY <2>3, ConfirmLabelsRows
  <2>4. CASE CheckFreshness(p) \/ CheckApplied(p) \/ CheckContent(p) \/ CheckLabels(p)
    BY <1>1, <2>4, DiscardRows
    DEF CheckFreshness, CheckApplied, CheckContent, CheckLabels, Proceed, Stale
  <2>5. CASE Apply(p) \/ Decide(p) \/ CheckComments(p)
    BY <1>1, <2>5, DiscardRows DEF Apply, Decide, CheckComments
  <2>6. CASE Generate(p)
    <3>1. CASE Latest # 0 /\ ~reviews[Latest].label
               /\ reviews' = [reviews EXCEPT ![Latest] = Validated(Latest)]
      <4>1. Latest \in Review
        BY <3>1, LatestType, LocalTypes
      <4> QED BY <2>6, <3>1, <4>1, ValidatedRows DEF Generate
    <3> QED BY <1>1, <2>6, <3>1 DEF Generate
  <2>7. CASE Validate(p)
    <3>1. held[p].n \in Review /\ ~reviews[held[p].n].label
      BY <2>7 DEF Validate, HandsSound, HandSound
    <3> QED BY <2>7, <3>1, ValidatedRows DEF Validate
  <2>8. CASE Acquire(p) \/ NormalizeEntryState(p) \/ Enter(p) \/ ClearLabels(p)
             \/ Commit(p) \/ Rejected(p) \/ Release(p) \/ MarkFailed(p) \/ SaveFailure(p)
             \/ Update(p) \/ Relabel(p) \/ Decided(p) \/ Plan(p)
    BY <1>1, <2>8
    DEF Acquire, NormalizeEntryState, Enter, ClearLabels, Commit, Rejected, Release,
        MarkFailed, SaveFailure, Update, Relabel, Decided, Plan, WriteTicket
  <2>9. CASE RunFault(p)
    BY <1>1, <2>9 DEF RunFault, Throws, ResponseLost, ModelFails, Crash, WriteTicket
  <2> QED BY <2>1, <2>2, <2>3, <2>4, <2>5, <2>6, <2>7, <2>8, <2>9 DEF RunStep
<1> QED BY <1>2, <1>3
-----------------------------------------------------------------------------
(* What a run holds *)

Holding == {"model", "validate", "content", "update", "confirm", "labels", "relabel",
            "confirm_labels", "decided", "comments", "plan"}

LEMMA NothingHeld ==
  ASSUME NEW p \in Proc, pc'[p] \notin Holding
  PROVE  HandSound(p)'
BY DEF HandSound, Holding

\* A run that holds the lease keeps the review it has in hand to itself.
LEMMA OtherHands ==
  ASSUME TypeOK, HandsSound, NEW p \in Proc, Acquire(p) \/ RunStep(p) \/ RunFault(p),
         NEW q \in Proc, q # p, HoldsLease(q)'
  PROVE  HandSound(q)'
<1>1. HoldsLease(q)
  BY RunLease, AcquireIsOwn
<1>2. ~HoldsLease(p)
  BY <1>1, OneHolder
<1>3. UNCHANGED <<reviews, lastReview>>
  BY <1>2, RowsAreFenced
<1>4. pc'[q] = pc[q] /\ held'[q] = held[q]
  BY Footprint
<1>5. Latest' = Latest
  BY <1>3 DEF Latest
<1>6. HandSound(q)
  BY <1>1 DEF HandsSound
<1> QED BY <1>3, <1>4, <1>5, <1>6 DEF HandSound, WritesContent

LEMMA OwnHand ==
  ASSUME TypeOK, RowsSound, HandsSound, NEW p \in Proc,
         Acquire(p) \/ RunStep(p) \/ RunFault(p), HoldsLease(p)'
  PROVE  HandSound(p)'
<1> USE DEF Goto, Intend, Hold
<1>0. /\ Latest \in 0..lastReview /\ lastReview \in Nat
      /\ Latest # 0 => Latest \in Review
      /\ pc \in [Proc -> Pc]
      /\ held \in [Proc -> [n: 0..ReviewBound, row: ReviewRow]]
  BY LatestType, LocalTypes DEF TypeOK
<1>1. CASE Acquire(p)
  BY <1>0, <1>1, NothingHeld DEF Acquire, Holding
<1>2. (HoldsLease(p) /\ HandSound(p)) \/ Acquire(p)
  BY RunLease DEF HandsSound
<1>3. CASE NormalizeEntryState(p)
  BY <1>0, <1>3, NothingHeld DEF NormalizeEntryState, Holding
<1>4. CASE Enter(p) \/ CheckFreshness(p) \/ ClearLabels(p) \/ Rejected(p) \/ Release(p)
           \/ MarkFailed(p)
  <2>1. pc'[p] \notin Holding
    BY <1>0, <1>4
    DEF Enter, CheckFreshness, ClearLabels, Rejected, Release, MarkFailed, WriteTicket,
        Discard, StepOf, Holding
  <2> QED BY <2>1, NothingHeld
<1>5. CASE Commit(p) \/ SaveFailure(p)
  <2>1. pc'[p] \notin Holding
    BY <1>0, <1>5 DEF Commit, SaveFailure, StepOf, Holding
  <2> QED BY <2>1, NothingHeld
<1>6. CASE RunFault(p)
  <2>1. pc'[p] \notin Holding
    BY <1>0, <1>6 DEF RunFault, Throws, ResponseLost, ModelFails, Asserting, Crash,
                      WriteTicket, Holding
  <2> QED BY <2>1, NothingHeld
<1>7. CASE Generate(p)
  <2>1. CASE pc'[p] \notin Holding
    BY <2>1, NothingHeld
  <2>2. CASE pc'[p] \in Holding
    <3>1. /\ pc'[p] = "model"
          /\ held'[p].row = [NoReview EXCEPT !.original = ticket, !.replies = replies]
      BY <1>0, <1>7, <2>2 DEF Generate, Holding
    <3> QED BY <3>1 DEF HandSound, NoReview
  <2> QED BY <2>1, <2>2
<1>8. CASE Propose(p)
  <2>1. HoldsLease(p) /\ HandSound(p)
    BY <1>2, <1>8 DEF Propose, Acquire
  <2>2. PICK verdict \in Verdicts :
          LET row == [held[p].row EXCEPT !.verdict = verdict, !.valid = TRUE]
          IN /\ reviews' = [reviews EXCEPT ![lastReview + 1] = row]
             /\ held' = [held EXCEPT ![p] = [n |-> lastReview + 1, row |-> row]]
    BY <1>8, <2>1 DEF Propose
  <2>3. lastReview + 1 \in Review
    BY <1>0, <1>8, LoopAssumption DEF Propose, Review
  <2>4. pc[p] = "model" /\ pc'[p] = "validate"
    BY <1>0, <1>8, <2>1 DEF Propose, Asserting
  <2>5. ~held[p].row.label
    BY <2>1, <2>4 DEF HandSound
  <2>6. held'[p].n = lastReview + 1 /\ ~reviews'[lastReview + 1].label
    BY <1>0, <2>2, <2>3, <2>5 DEF TypeOK, ReviewRow
  <2> QED BY <2>3, <2>4, <2>6 DEF HandSound
<1>9. CASE Validate(p)
  BY <1>0, <1>9, NothingHeld DEF Validate, Holding
<1>10. CASE Apply(p)
  <2>1. CASE pc'[p] \notin Holding
    BY <2>1, NothingHeld
  <2>2. CASE pc'[p] \in Holding
    <3>1. /\ Latest # 0 /\ UNCHANGED reviews
          /\ ~reviews[Latest].label
          /\ held'[p] = [n |-> Latest, row |-> reviews[Latest]]
          /\ pc'[p] = IF WritesContent(reviews[Latest]) THEN "content" ELSE "labels"
      BY <1>0, <1>10, <2>2 DEF Apply, Discard, Holding
    <3> QED BY <1>0, <3>1 DEF HandSound, WritesContent
  <2> QED BY <2>1, <2>2
<1>11. CASE CheckApplied(p) \/ ConfirmLabels(p)
  <2>1. pc'[p] \notin Holding
    BY <1>0, <1>11 DEF CheckApplied, ConfirmLabels, Stale, Discard, Holding
  <2> QED BY <2>1, NothingHeld
<1>12. CASE CheckContent(p) \/ CheckLabels(p)
  <2>1. CASE pc'[p] \notin Holding
    BY <2>1, NothingHeld
  <2>2. CASE pc'[p] \in Holding
    <3>1. /\ UNCHANGED <<reviews, held>>
          /\ \/ pc[p] = "content" /\ pc'[p] \in {"update", "confirm"}
             \/ pc[p] = "labels" /\ pc'[p] \in {"relabel", "confirm_labels"}
      BY <1>0, <1>12, <2>2 DEF CheckContent, CheckLabels, Proceed, Stale, Discard, Holding
    <3>2. HandSound(p)
      BY <1>2, <3>1 DEF Acquire
    <3> QED BY <3>1, <3>2 DEF HandSound, WritesContent
  <2> QED BY <2>1, <2>2
<1>13. CASE Update(p) \/ Relabel(p)
  <2>1. /\ UNCHANGED <<reviews, held>>
        /\ \/ pc[p] = "update" /\ pc'[p] = "confirm"
           \/ pc[p] = "relabel" /\ pc'[p] = "confirm_labels"
    BY <1>0, <1>13 DEF Update, Relabel, WriteTicket, reviewVars, localVars
  <2>2. HandSound(p)
    BY <1>2, <2>1 DEF Acquire
  <2> QED BY <2>1, <2>2 DEF HandSound, WritesContent
<1>14. CASE ConfirmContent(p)
  <2>1. CASE pc'[p] \notin Holding
    BY <2>1, NothingHeld
  <2>2. CASE pc'[p] \in Holding
    <3> DEFINE row == [held[p].row EXCEPT !.content = TRUE, !.applied = ticket]
    <3>1. pc[p] = "confirm" /\ HoldsLease(p) /\ HandSound(p)
      BY <1>2, <1>14 DEF ConfirmContent, Acquire
    <3>2. /\ pc'[p] = "labels"
          /\ reviews' = [reviews EXCEPT ![held[p].n] = row]
          /\ held' = [held EXCEPT ![p] = [n |-> held[p].n, row |-> row]]
      BY <1>0, <1>14, <2>2, <3>1
      DEF ConfirmContent, Asserting, Stale, Discard, Holding
    <3>3. held[p].n \in Review /\ ~held[p].row.label /\ held[p].row \in ReviewRow
      BY <1>0, <3>1 DEF HandSound
    <3>4. /\ held'[p].n = held[p].n
          /\ held'[p].row = row /\ reviews'[held[p].n] = row
      BY <1>0, <3>2, <3>3 DEF TypeOK
    <3>5. row.content /\ ~row.label
      BY <3>3 DEF ReviewRow
    <3> QED BY <3>2, <3>3, <3>4, <3>5 DEF HandSound, WritesContent
  <2> QED BY <2>1, <2>2
<1>15. CASE Decide(p)
  <2>1. CASE pc'[p] \notin Holding
    BY <2>1, NothingHeld
  <2>2. CASE pc'[p] \in Holding
    <3>1. PICK r \in {0, Latest} :
            /\ pc'[p] = "decided"
            /\ held' = [held EXCEPT ![p] =
                           IF r = 0 THEN NotHeld ELSE [n |-> r, row |-> reviews[r]]]
            /\ UNCHANGED <<reviews, lastReview>>
      BY <1>0, <1>15, <2>2 DEF Decide, Discard, Holding
    <3>2. Latest' = Latest
      BY <3>1 DEF Latest
    <3> QED BY <1>0, <3>1, <3>2 DEF HandSound, NotHeld, NoReview
  <2> QED BY <2>1, <2>2
<1>16. CASE Decided(p) \/ CheckComments(p)
  <2>1. CASE pc'[p] \notin Holding
    BY <2>1, NothingHeld
  <2>2. CASE pc'[p] \in Holding
    <3>1. /\ pc[p] \in {"decided", "comments"} /\ pc'[p] \in {"comments", "plan"}
          /\ UNCHANGED <<reviews, lastReview, held>>
      BY <1>0, <1>16, <2>2 DEF Decided, CheckComments, Discard, Holding, reviewVars
    <3>2. HandSound(p) /\ Latest' = Latest
      BY <1>2, <3>1 DEF Acquire, Latest
    <3> QED BY <3>1, <3>2 DEF HandSound
  <2> QED BY <2>1, <2>2
<1>17. CASE Plan(p)
  <2>1. pc'[p] \notin Holding
    BY <1>0, <1>17 DEF Plan, StepOf, Holding
  <2> QED BY <2>1, NothingHeld
<1> QED
  BY <1>1, <1>3, <1>4, <1>5, <1>6, <1>7, <1>8, <1>9, <1>10, <1>11, <1>12, <1>13, <1>14,
     <1>15, <1>16, <1>17
  DEF RunStep

LEMMA RunHands ==
  ASSUME TypeOK, RowsSound, HandsSound, NEW p \in Proc,
         Acquire(p) \/ RunStep(p) \/ RunFault(p)
  PROVE  HandsSound'
<1> SUFFICES ASSUME NEW q \in Proc, HoldsLease(q)' PROVE HandSound(q)'
  BY DEF HandsSound
<1> QED BY OwnHand, OtherHands
-----------------------------------------------------------------------------
(* What is written to the ticket *)

\* A run reaches the replacement of the text only by a review that was accepted
\* and whose ticket it has just read.
LEMMA OwnWrite ==
  ASSUME TypeOK, RowsSound, WritesSound, RowsKept, NEW p \in Proc,
         Acquire(p) \/ RunStep(p) \/ RunFault(p)
  PROVE  AboutToWrite(p)'
<1> USE DEF Goto, Intend, Hold
<1>0. /\ Latest \in 0..lastReview /\ lastReview \in Nat
      /\ Latest # 0 => Latest \in Review
      /\ pc \in [Proc -> Pc]
      /\ held \in [Proc -> [n: 0..ReviewBound, row: ReviewRow]]
  BY LatestType, LocalTypes DEF TypeOK
<1>1. CASE pc'[p] \notin {"content", "update"}
  BY <1>1 DEF AboutToWrite
<1>2. CASE pc'[p] = "content"
  <2>1. Apply(p)
    <3>1. ~(Acquire(p) \/ NormalizeEntryState(p) \/ Enter(p) \/ CheckFreshness(p)
            \/ ClearLabels(p) \/ Commit(p) \/ Rejected(p) \/ Release(p))
      BY <1>0, <1>2
      DEF Acquire, NormalizeEntryState, Enter, CheckFreshness, ClearLabels, Commit, Rejected,
          Release, WriteTicket, Discard, StepOf, EntryEvent
    <3>2. ~(Generate(p) \/ Propose(p) \/ Validate(p) \/ MarkFailed(p) \/ SaveFailure(p))
      BY <1>0, <1>2
      DEF Generate, Propose, Asserting, Validate, MarkFailed, SaveFailure, WriteTicket, StepOf
    <3>3. ~(CheckApplied(p) \/ CheckContent(p) \/ Update(p) \/ ConfirmContent(p)
            \/ CheckLabels(p) \/ Relabel(p) \/ ConfirmLabels(p))
      BY <1>0, <1>2
      DEF CheckApplied, CheckContent, Update, ConfirmContent, CheckLabels, Relabel,
          ConfirmLabels, Proceed, Stale, Discard, Asserting, WriteTicket
    <3>4. ~(Decide(p) \/ Decided(p) \/ CheckComments(p) \/ Plan(p) \/ RunFault(p))
      BY <1>0, <1>2
      DEF Decide, Decided, CheckComments, Plan, Discard, StepOf, RunFault, Throws,
          ResponseLost, ModelFails, Asserting, Crash, WriteTicket
    <3> QED BY <3>1, <3>2, <3>3, <3>4 DEF RunStep
  <2>2. /\ Latest # 0 /\ WritesContent(reviews[Latest])
        /\ held'[p] = [n |-> Latest, row |-> reviews[Latest]]
        /\ UNCHANGED <<reviews, lastReview>>
    BY <1>0, <1>2, <2>1 DEF Apply, Discard, reviewVars
  <2>3. RowSound(Latest)
    BY <1>0, <2>2 DEF RowsSound
  <2>4. /\ reviews[Latest].validation = reviews[Latest].verdict
        /\ reviews[Latest].verdict \in {"blocked", "ready"}
    BY <2>2, <2>3 DEF RowSound, WritesContent, Accepted, Verdict
  <2> QED BY <1>0, <1>2, <2>2, <2>4 DEF AboutToWrite
<1>3. CASE pc'[p] = "update"
  <2>1. CheckContent(p)
    <3>1. ~(Acquire(p) \/ NormalizeEntryState(p) \/ Enter(p) \/ CheckFreshness(p)
            \/ ClearLabels(p) \/ Commit(p) \/ Rejected(p) \/ Release(p))
      BY <1>0, <1>3
      DEF Acquire, NormalizeEntryState, Enter, CheckFreshness, ClearLabels, Commit, Rejected,
          Release, WriteTicket, Discard, StepOf, EntryEvent
    <3>2. ~(Generate(p) \/ Propose(p) \/ Validate(p) \/ MarkFailed(p) \/ SaveFailure(p))
      BY <1>0, <1>3
      DEF Generate, Propose, Asserting, Validate, MarkFailed, SaveFailure, WriteTicket, StepOf
    <3>3. ~(Apply(p) \/ CheckApplied(p) \/ Update(p) \/ ConfirmContent(p)
            \/ CheckLabels(p) \/ Relabel(p) \/ ConfirmLabels(p))
      BY <1>0, <1>3
      DEF Apply, CheckApplied, Update, ConfirmContent, CheckLabels, Relabel,
          ConfirmLabels, Proceed, Stale, Discard, Asserting, WriteTicket
    <3>4. ~(Decide(p) \/ Decided(p) \/ CheckComments(p) \/ Plan(p) \/ RunFault(p))
      BY <1>0, <1>3
      DEF Decide, Decided, CheckComments, Plan, Discard, StepOf, RunFault, Throws,
          ResponseLost, ModelFails, Asserting, Crash, WriteTicket
    <3> QED BY <3>1, <3>2, <3>3, <3>4 DEF RunStep
  <2>2. /\ pc[p] = "content" /\ ticket = held[p].row.original
        /\ UNCHANGED <<reviews, lastReview, held, ticket>>
    BY <1>0, <1>3, <2>1
    DEF CheckContent, ContentState, Proceed, Stale, Discard, linearVars
  <2>3. AboutToWrite(p)
    BY DEF WritesSound
  <2> QED BY <1>3, <2>2, <2>3 DEF AboutToWrite
<1> QED BY <1>1, <1>2, <1>3

\* The text of a proposal is none that a person wrote.
LEMMA Texts ==
  ASSUME NEW r \in Review
  PROVE  /\ Proposal(r) > EditBound
         /\ \A s \in Review : Proposal(s) = Proposal(r) => s = r
BY LoopAssumption DEF Proposal, Review

LEMMA RunWrites ==
  ASSUME TypeOK, RowsSound, WritesSound, OnlyAcceptedIsWritten, RowsKept, NEW p \in Proc,
         Acquire(p) \/ RunStep(p) \/ RunFault(p)
  PROVE  WritesSound' /\ OnlyAcceptedIsWritten'
<1>0. lastReview \in Nat /\ lastReview' \in Nat /\ \A r \in 1..lastReview : r \in Review
  <2>1. lastReview \in 0..ReviewBound
    BY DEF TypeOK
  <2>2. lastReview' \in 0..ReviewBound
    BY RunType DEF TypeOK
  <2> QED BY <2>1, <2>2, LoopAssumption DEF Review
<1>1. /\ overtaken' = overtaken
      /\ \/ ticket'.text = ticket.text
         \/ pc[p] = "update" /\ ticket'.text = Proposal(held[p].n)
  BY RunText
<1>2. AboutToWrite(p)
  BY DEF WritesSound
<1>3. ASSUME NEW q \in Proc, q # p PROVE AboutToWrite(q)'
  <2>1. pc'[q] = pc[q] /\ held'[q] = held[q]
    BY <1>3, Footprint
  <2>2. AboutToWrite(q)
    BY DEF WritesSound
  <2>3. ticket'.text = ticket.text \/ ticket'.text > EditBound
    BY <1>0, <1>1, <1>2, Texts DEF AboutToWrite
  <2> QED BY <1>0, <1>1, <2>1, <2>2, <2>3 DEF AboutToWrite, RowsKept
<1>4. ASSUME NEW r \in Review, ticket'.text = Proposal(r)
      PROVE  /\ r <= lastReview' /\ reviews'[r].verdict \in {"blocked", "ready"}
             /\ reviews'[r].validation = reviews'[r].verdict
  <2>1. /\ r \in 1..lastReview /\ reviews[r].verdict \in {"blocked", "ready"}
        /\ reviews[r].validation = reviews[r].verdict
    <3>1. CASE ticket.text = Proposal(r)
      BY <1>0, <3>1 DEF OnlyAcceptedIsWritten, Review
    <3>2. CASE pc[p] = "update" /\ ticket'.text = Proposal(held[p].n)
      <4>1. held[p].n \in Review /\ held[p].n \in 1..lastReview
        BY <1>0, <1>2, <3>2 DEF AboutToWrite
      <4>2. held[p].n = r
        BY <1>4, <3>2, <4>1, Texts
      <4> QED BY <1>2, <3>2, <4>1, <4>2 DEF AboutToWrite
    <3> QED BY <1>1, <1>4, <3>1, <3>2
  <2> QED BY <1>0, <2>1 DEF RowsKept
<1>5. OnlyAcceptedIsWritten'
  BY <1>4 DEF OnlyAcceptedIsWritten, Proposal
<1>6. WritesSound'
  BY <1>3, OwnWrite DEF WritesSound
<1> QED BY <1>5, <1>6

\* People's texts are none of a proposal.
LEMMA OutsideText ==
  ASSUME TypeOK, Expire \/ Lapse \/ People \/ Execute \/ Project
  PROVE  \/ ticket'.text = ticket.text /\ overtaken' = overtaken
         \/ /\ ticket'.text \in 1..EditBound
            /\ overtaken' = (overtaken \/ \E p \in Proc : pc[p] = "update")
<1> USE DEF linearVars, history
<1>1. CASE EditText
  BY <1>1, LoopAssumption DEF EditText, Edited, TypeOK, Ticket
<1>2. CASE RemoveLabel \/ Reply
  BY <1>2 DEF RemoveLabel, Reply, TypeOK, Ticket
<1>3. CASE Project
  BY <1>3 DEF Project, TypeOK, Ticket
<1>4. CASE Expire \/ Lapse \/ Execute
  BY <1>4 DEF Expire, Lapse, LeaseLapses, Execute
<1> QED BY <1>1, <1>2, <1>3, <1>4 DEF People

\* Time, people and the execution coordinator do not touch reviews or runs.
LEMMA OutsideKeeps ==
  ASSUME LoopInv, Expire \/ Lapse \/ People \/ Execute \/ Project
  PROVE  RowsSound' /\ HandsSound' /\ WritesSound' /\ OnlyAcceptedIsWritten'
<1> USE DEF linearVars, reviewVars, localVars, history
<1>1. UNCHANGED <<reviews, lastReview, pc, held>>
  BY DEF Expire, Lapse, LeaseLapses, People, EditText, RemoveLabel, Reply, Edited, Execute,
         Project
<1>2. RowsSound'
  BY <1>1, UnchangedRows DEF LoopInv
<1>3. HandsSound'
  <2>1. Latest' = Latest
    BY <1>1 DEF Latest
  <2> SUFFICES ASSUME NEW q \in Proc, HoldsLease(q)' PROVE HandSound(q)'
    BY DEF HandsSound
  <2>2. HoldsLease(q)
    BY OutsideLease DEF LoopInv
  <2>3. HandSound(q)
    BY <2>2 DEF LoopInv, HandsSound
  <2> QED BY <1>1, <2>1, <2>3 DEF HandSound, WritesContent
<1>4. \/ ticket'.text = ticket.text /\ overtaken' = overtaken
      \/ /\ ticket'.text \in 1..EditBound
         /\ overtaken' = (overtaken \/ \E p \in Proc : pc[p] = "update")
  BY OutsideText DEF LoopInv
<1>5. WritesSound'
  <2> SUFFICES ASSUME NEW q \in Proc PROVE AboutToWrite(q)'
    BY DEF WritesSound
  <2>1. AboutToWrite(q)
    BY DEF LoopInv, WritesSound
  <2> QED BY <1>1, <1>4, <2>1 DEF AboutToWrite
<1>6. OnlyAcceptedIsWritten'
  <2> SUFFICES ASSUME NEW r \in Review, ticket'.text = Proposal(r)
               PROVE  /\ r <= lastReview' /\ reviews'[r].verdict \in {"blocked", "ready"}
                      /\ reviews'[r].validation = reviews'[r].verdict
    BY DEF OnlyAcceptedIsWritten, Proposal
  <2>1. ticket'.text = ticket.text
    BY <1>4, Texts, LoopAssumption
  <2> QED BY <1>1, <2>1 DEF LoopInv, OnlyAcceptedIsWritten
<1> QED BY <1>2, <1>3, <1>5, <1>6

-----------------------------------------------------------------------------
(* The last look before an action is planned *)

\* A run that changes the ticket is missed by those that look no more, and only a
\* look at the ticket makes up for what was missed.
LEMMA Noticed ==
  ASSUME NEW p \in Proc, Acquire(p) \/ RunStep(p) \/ RunFault(p)
  PROVE  /\ ticket' = ticket \/ Settling \subseteq missed'
         /\ missed \subseteq missed' \/ (Decided(p) /\ missed \ {p} \subseteq missed')
<1> USE DEF linearVars, history
<1>1. CASE ClearLabels(p) \/ MarkFailed(p) \/ Update(p) \/ Relabel(p) \/ ResponseLost(p)
  BY <1>1 DEF ClearLabels, MarkFailed, Update, Relabel, ResponseLost, WriteTicket
<1>2. CASE Acquire(p) \/ NormalizeEntryState(p) \/ Enter(p) \/ CheckFreshness(p) \/ Commit(p)
           \/ Rejected(p) \/ Release(p) \/ Generate(p) \/ Propose(p) \/ Validate(p)
           \/ SaveFailure(p)
  BY <1>2 DEF Acquire, NormalizeEntryState, Enter, CheckFreshness, Commit, Rejected, Release,
              Generate, Propose, Validate, SaveFailure
<1>3. CASE Apply(p) \/ CheckApplied(p) \/ CheckContent(p) \/ ConfirmContent(p)
           \/ CheckLabels(p) \/ ConfirmLabels(p) \/ Decide(p) \/ CheckComments(p)
           \/ Plan(p) \/ Throws(p) \/ ModelFails(p) \/ Crash(p)
  BY <1>3 DEF Apply, CheckApplied, CheckContent, ConfirmContent, CheckLabels, ConfirmLabels,
              Decide, CheckComments, Plan, Throws, ModelFails, Crash
<1>4. CASE Decided(p)
  BY <1>4 DEF Decided
<1> QED BY <1>1, <1>2, <1>3, <1>4 DEF RunStep, RunFault

LEMMA OwnLook ==
  ASSUME TypeOK, LooksSound, NEW p \in Proc, Acquire(p) \/ RunStep(p) \/ RunFault(p)
  PROVE  Looked(p)'
<1> USE DEF Goto, Intend, Hold, linearVars
<1>0. pc \in [Proc -> Pc] /\ event \in [Proc -> LoopEvents]
  BY DEF TypeOK
<1>1. CASE Decided(p)
  <2>1. /\ UNCHANGED <<ticket, replies, held>>
        /\ IF held[p].row.label
           THEN /\ pc'[p] = "comments"
                /\ event'[p] # "REVIEW" => AppliedReviewMatches(held[p].row)
           ELSE pc'[p] = "plan"
    BY <1>0, <1>1 DEF Decided, TicketMatches
  <2> QED BY <2>1 DEF Looked, AppliedReviewMatches
<1>2. CASE CheckComments(p)
  <2>1. /\ pc[p] = "comments" /\ UNCHANGED <<ticket, replies, held, missed>>
        /\ \/ pc'[p] \in {"clear", "release"}
           \/ pc'[p] = "plan" /\ event[p] # "REVIEW" /\ ~Replied(held[p].row)
    BY <1>0, <1>2 DEF CheckComments, Discard
  <2>2. Looked(p)
    BY DEF LooksSound
  <2> QED BY <2>1, <2>2 DEF Looked, AppliedReviewMatches, Replied
<1>3. CASE ~Decided(p) /\ ~CheckComments(p)
  <2>1. pc'[p] \notin {"comments", "plan"}
    <3>1. CASE Acquire(p) \/ NormalizeEntryState(p) \/ Enter(p) \/ CheckFreshness(p)
               \/ ClearLabels(p) \/ Commit(p) \/ Rejected(p) \/ Release(p)
      BY <1>0, <3>1
      DEF Acquire, NormalizeEntryState, Enter, CheckFreshness, ClearLabels, Commit, Rejected,
          Release, WriteTicket, Discard, StepOf, EntryEvent
    <3>2. CASE Generate(p) \/ Propose(p) \/ Validate(p) \/ MarkFailed(p) \/ SaveFailure(p)
      BY <1>0, <3>2
      DEF Generate, Propose, Asserting, Validate, MarkFailed, SaveFailure, WriteTicket, StepOf
    <3>3. CASE Apply(p) \/ CheckApplied(p) \/ CheckContent(p) \/ Update(p)
               \/ ConfirmContent(p) \/ CheckLabels(p) \/ Relabel(p) \/ ConfirmLabels(p)
      BY <1>0, <3>3
      DEF Apply, CheckApplied, CheckContent, Update, ConfirmContent, CheckLabels, Relabel,
          ConfirmLabels, Proceed, Stale, Discard, Asserting, WriteTicket
    <3>4. CASE Decide(p) \/ Plan(p) \/ RunFault(p)
      BY <1>0, <3>4
      DEF Decide, Plan, Discard, StepOf, RunFault, Throws, ResponseLost, ModelFails,
          Asserting, Crash, WriteTicket
    <3> QED BY <1>3, <3>1, <3>2, <3>3, <3>4 DEF RunStep
  <2> QED BY <2>1 DEF Looked
<1> QED BY <1>1, <1>2, <1>3

LEMMA RunLooks ==
  ASSUME TypeOK, LooksSound, NEW p \in Proc, Acquire(p) \/ RunStep(p) \/ RunFault(p)
  PROVE  LooksSound'
<1> SUFFICES ASSUME NEW q \in Proc, q # p PROVE Looked(q)'
  BY OwnLook DEF LooksSound
<1>1. pc'[q] = pc[q] /\ held'[q] = held[q] /\ event'[q] = event[q] /\ replies' = replies
  BY Footprint, RunKeepsEdits
<1>2. /\ ticket' = ticket \/ Settling \subseteq missed'
      /\ q \in missed => q \in missed'
  BY Noticed
<1>3. Looked(q)
  BY DEF LooksSound
<1> QED BY <1>1, <1>2, <1>3 DEF Looked, Settling, AppliedReviewMatches, Replied

LEMMA OutsideLooks ==
  ASSUME TypeOK, LooksSound, Expire \/ Lapse \/ People \/ Execute \/ Project
  PROVE  LooksSound'
<1> USE DEF linearVars, localVars, history
<1>1. UNCHANGED <<pc, held, event>> /\ missed \subseteq missed'
  BY DEF Expire, Lapse, LeaseLapses, People, EditText, RemoveLabel, Reply, Edited, Execute,
         Project
<1>2. ticket' = ticket \/ Settling \subseteq missed'
  BY DEF Expire, Lapse, LeaseLapses, People, EditText, RemoveLabel, Reply, Edited, Execute,
         Project
<1>3. replies' = replies \/ \A p \in Proc : pc[p] = "plan" => p \in missed'
  BY DEF Expire, Lapse, LeaseLapses, People, EditText, RemoveLabel, Reply, Edited, Execute,
         Project
<1> SUFFICES ASSUME NEW q \in Proc PROVE Looked(q)'
  BY DEF LooksSound
<1>4. Looked(q)
  BY DEF LooksSound
<1> QED BY <1>1, <1>2, <1>3, <1>4 DEF Looked, Settling, AppliedReviewMatches, Replied

-----------------------------------------------------------------------------
(* The theorems *)

LEMMA LoopInit == Init => LoopInv
<1> SUFFICES ASSUME Init PROVE LoopInv
  OBVIOUS
<1>1. RowsSound
  BY DEF Init, RowsSound, RowSound, NoReview
<1>2. HandsSound /\ WritesSound
  BY DEF Init, HandsSound, HandSound, WritesSound, AboutToWrite
<1>3. OnlyAcceptedIsWritten
  BY Texts, LoopAssumption DEF Init, OnlyAcceptedIsWritten, Blank
<1>4. LooksSound
  BY DEF Init, LooksSound, Looked
<1> QED BY <1>1, <1>2, <1>3, <1>4, InitType DEF LoopInv

LEMMA LoopStep == LoopInv /\ RepliesAreEdits /\ [Next]_vars => LoopInv'
<1> SUFFICES ASSUME LoopInv, RepliesAreEdits, [Next]_vars PROVE LoopInv'
  OBVIOUS
<1>0. TypeOK'
  BY TypeStep DEF LoopInv
<1>1. CASE UNCHANGED vars
  BY <1>0, <1>1
  DEF vars, storeVars, linearVars, reviewVars, localVars, history, LoopInv, RowsSound,
      RowSound, HandsSound, HandSound, HoldsLease, Latest, WritesContent, WritesSound,
      AboutToWrite, OnlyAcceptedIsWritten, Proposal, LooksSound, Looked,
      AppliedReviewMatches, Replied
<1>2. ASSUME NEW p \in Proc, Acquire(p) \/ RunStep(p) \/ RunFault(p) PROVE LoopInv'
  <2>1. RowsSound' /\ RowsKept
    BY <1>2, RunRows DEF LoopInv
  <2>2. HandsSound'
    BY <1>2, RunHands DEF LoopInv
  <2>3. WritesSound' /\ OnlyAcceptedIsWritten'
    BY <1>2, <2>1, RunWrites DEF LoopInv
  <2>4. LooksSound'
    BY <1>2, RunLooks DEF LoopInv
  <2> QED BY <1>0, <2>1, <2>2, <2>3, <2>4 DEF LoopInv
<1>3. CASE Expire \/ Lapse \/ People \/ Execute \/ Project
  BY <1>0, <1>3, OutsideKeeps, OutsideLooks DEF LoopInv
<1> QED BY <1>1, <1>2, <1>3 DEF Next

LEMMA LoopAlways == Spec => []LoopInv
<1>1. Spec => [](TypeOK /\ RepliesAreEdits)
  BY TypeAlways
<1> QED BY <1>1, LoopInit, LoopStep, PTL DEF Spec

\* A proposal reaches the ticket only if policy accepted it without a person's
\* approval, for any number of runs, reviews, edits and faults.
THEOREM WrittenIsAccepted == Spec => []OnlyAcceptedIsWritten
<1>1. LoopInv => OnlyAcceptedIsWritten
  BY DEF LoopInv
<1> QED BY <1>1, LoopAlways, PTL
LEMMA EditsStep == LoopInv /\ [Next]_vars => [ReplacesReviewedText \/ overtaken]_vars
<1> SUFFICES ASSUME LoopInv, Next, NEW r \in Review, ticket'.text = Proposal(r),
                    ticket.text # Proposal(r), ticket.text <= EditBound
             PROVE  ticket.text = reviews[r].original.text \/ overtaken
  BY DEF ReplacesReviewedText
<1>1. ASSUME NEW p \in Proc, Acquire(p) \/ RunStep(p) \/ RunFault(p)
      PROVE  ticket.text = reviews[r].original.text \/ overtaken
  <2>1. pc[p] = "update" /\ Proposal(held[p].n) = Proposal(r)
    BY <1>1, RunText DEF LoopInv
  <2>2. AboutToWrite(p)
    BY DEF LoopInv, WritesSound
  <2>3. held[p].n \in Review
    BY <2>1, <2>2, LoopAssumption DEF AboutToWrite, LoopInv, TypeOK, Review
  <2>4. held[p].n = r
    BY <2>1, <2>3, Texts
  <2>5. ticket.text \in Nat
    BY LoopAssumption DEF LoopInv, TypeOK, Ticket
  <2> QED BY <2>1, <2>2, <2>4, <2>5, LoopAssumption DEF AboutToWrite
<1>2. CASE Expire \/ Lapse \/ People \/ Execute \/ Project
  BY <1>2, OutsideText, Texts, LoopAssumption DEF LoopInv
<1> QED BY <1>1, <1>2 DEF Next

\* A person's text is replaced only after a review has read it, or in the moment
\* between the last read and the replacement.
THEOREM EditsReviewed == Spec => EditsAreReviewed
BY LoopAlways, EditsStep, PTL DEF Spec, EditsAreReviewed

\* The plan of an execution
PlanStep ==
  work'.planned = "execute" /\ work'.state = "action_planned" /\ work.state = "deciding"
    => LET r == Latest
       IN /\ r # 0
          /\ reviews[r].validation = "ready" /\ reviews[r].label
          /\ \E p \in Proc :
               /\ pc[p] = "plan" /\ pc'[p] # "plan"
               /\ \/ p \in missed
                  \/ /\ ticket.text = Proposal(r)
                     /\ ticket.labels = {"reviewed", "ready"}
                     /\ replies = reviews[r].replies

\* The state of the work item changes only by the transitions of a run, or when
\* its execution ends.
LEMMA WhoMoves ==
  ASSUME TypeOK, Next, work'.state # work.state
  PROVE  \/ Execute
         \/ \E p \in Proc :
              NormalizeEntryState(p) \/ Commit(p) \/ SaveFailure(p) \/ Plan(p)
<1>1. ASSUME NEW p \in Proc, Acquire(p) \/ Release(p) PROVE FALSE
  BY <1>1 DEF Acquire, AcquireLease, Release, ReleaseLease, TypeOK, StoreTypeOK, Work
<1>2. ASSUME NEW p \in Proc, RunFault(p) PROVE FALSE
  BY <1>2 DEF RunFault, Throws, ResponseLost, ModelFails, Crash, WriteTicket, storeVars
<1>3. ASSUME NEW p \in Proc,
             Enter(p) \/ CheckFreshness(p) \/ ClearLabels(p) \/ Rejected(p) \/ Generate(p)
             \/ Propose(p) \/ Validate(p) \/ MarkFailed(p)
      PROVE  FALSE
  BY <1>3
  DEF Enter, CheckFreshness, ClearLabels, Rejected, Generate, Propose, Validate, MarkFailed,
      WriteTicket, storeVars
<1>4. ASSUME NEW p \in Proc,
             Apply(p) \/ CheckApplied(p) \/ CheckContent(p) \/ Update(p) \/ ConfirmContent(p)
             \/ CheckLabels(p) \/ Relabel(p) \/ ConfirmLabels(p) \/ Decide(p)
             \/ Decided(p) \/ CheckComments(p)
      PROVE  FALSE
  BY <1>4
  DEF Apply, CheckApplied, CheckContent, Update, ConfirmContent, CheckLabels, Relabel,
      ConfirmLabels, Decide, Decided, CheckComments, WriteTicket, storeVars
<1>5. CASE Expire \/ Lapse \/ People \/ Execute \/ Project
  BY <1>5
  DEF Expire, Lapse, LeaseLapses, People, EditText, RemoveLabel, Reply, Edited, Project,
      TypeOK, StoreTypeOK, Work, storeVars
<1> QED BY <1>1, <1>2, <1>3, <1>4, <1>5 DEF Next, RunStep

\* Only the transition of a decision plans.
LEMMA OnlyPlanPlans ==
  ASSUME TypeOK, Next, work.state = "deciding", work'.state = "action_planned"
  PROVE  \E p \in Proc : Plan(p)
<1>1. ASSUME NEW p, NEW type, NEW planned, Transition(p, type, planned)
      PROVE  type = "PLAN_ACTION"
  BY <1>1, TableMoves DEF Transition, TypeOK, StoreTypeOK, Work
<1>2. work.state # work'.state
  OBVIOUS
<1>3. ASSUME NEW p \in Proc, NormalizeEntryState(p) PROVE FALSE
  <2>1. EntryEvent[workCopy[p].state] = "PLAN_ACTION" /\ workCopy[p].state \in DOMAIN EntryEvent
    BY <1>1, <1>3 DEF NormalizeEntryState
  <2> QED BY <2>1 DEF EntryEvent
<1>4. ASSUME NEW p \in Proc, Commit(p) PROVE FALSE
  BY <1>1, <1>4 DEF Commit, TypeOK, LoopEvents
<1>5. ASSUME NEW p \in Proc, SaveFailure(p) PROVE FALSE
  BY <1>1, <1>5 DEF SaveFailure
<1>6. CASE Execute
  BY <1>6 DEF Execute, Launchable
<1> QED BY <1>2, <1>3, <1>4, <1>5, <1>6, WhoMoves

LEMMA PlanningStep == LoopInv /\ [Next]_vars => [PlanStep]_vars
<1> SUFFICES ASSUME LoopInv, Next, work'.planned = "execute",
                    work'.state = "action_planned", work.state = "deciding"
             PROVE  PlanStep
  BY DEF PlanStep
<1>1. PICK p \in Proc : Plan(p)
  BY OnlyPlanPlans DEF LoopInv
<1> DEFINE r == held[p].n
           row == held[p].row
<1>2. PICK route \in Routes(row) :
        /\ Transition(p, route.type,
             IF route.planned = "none" THEN work.planned ELSE route.planned)
        /\ Goto(p, StepOf(work'.state))
  BY <1>1 DEF Plan
<1>3. route.type = "PLAN_ACTION"
  BY <1>2, TableMoves DEF Transition, LoopInv, TypeOK, StoreTypeOK, Work
<1>4. route.planned # "none"
  BY <1>3 DEF Routes, Routed
<1>5. route.planned = "execute"
  BY <1>2, <1>4 DEF Transition, LoopInv, TypeOK, StoreTypeOK, Work
<1>6. row.label /\ row.validation = "ready"
  <2>1. Accepted(row.validation) /\ row.label
    BY <1>3 DEF Routes, Routed
  <2>2. row.validation # "human" /\ row.validation # "blocked"
    BY <1>3, <1>5 DEF Routes, Routed
  <2> QED BY <2>1, <2>2 DEF Accepted, Verdict
<1>7. pc[p] = "plan" /\ HandSound(p)
  BY <1>1, <1>2 DEF Plan, Transition, WorkFence, LoopInv, HandsSound
<1>8. pc'[p] # "plan"
  BY <1>2 DEF Goto, StepOf, LoopInv, TypeOK
<1>9. r \in Review /\ r = Latest /\ reviews[r] = row
  BY <1>6, <1>7 DEF HandSound
<1>10. row.applied.text = Proposal(r) /\ row.applied.labels = {"reviewed", "ready"}
  BY <1>6, <1>9 DEF LoopInv, RowsSound, RowSound, ExpectedLabels
<1>11. p \in missed \/ (AppliedReviewMatches(row) /\ ~Replied(row))
  BY <1>6, <1>7 DEF LoopInv, LooksSound, Looked
<1>12. AppliedReviewMatches(row)
         => ticket.text = Proposal(r) /\ ticket.labels = {"reviewed", "ready"}
  BY <1>6, <1>10 DEF AppliedReviewMatches, ExpectedLabels
<1> QED BY <1>6, <1>7, <1>8, <1>9, <1>11, <1>12 DEF PlanStep, Replied, Review

\* An execution is planned only under the newest review, accepted, ready and labelled,
\* and of the ticket as it is, unless that changed after the run's last look at it.
THEOREM PlannedFromReview == Spec => PlanIsOfReviewedTicket
<1>1. Spec => [][PlanStep]_vars
  BY LoopAlways, PlanningStep, PTL DEF Spec
<1> QED BY <1>1 DEF PlanIsOfReviewedTicket, PlanStep

-----------------------------------------------------------------------------
(* What the labels tell *)

\* The calls of applyReview behind its read of the latest review
Applying == {"check", "content", "update", "confirm", "labels", "relabel", "confirm_labels"}

\* The state of the work item in which an event is decided on
StatesOf(type) ==
  CASE type = "REOPEN_REVIEW" -> Reopenable
    [] type = "REVIEW" -> {"deciding"}
    [] type = "REVIEW_GENERATED" -> {"reviewing"}
    [] type = "REQUIRE_HUMAN" -> {"applying_review", "deciding"}
    [] type \in {"REVIEW_APPLIED", "REVIEW_INVALIDATED", "FAIL"} -> {"applying_review"}
    [] OTHER -> {}

\* Where a run is says what state the work item is in, and while it applies a
\* review it has the newest one in hand.
Placed(p) ==
  /\ pc[p] \in {"generate", "model", "validate", "mark_failed", "save_failure"}
       => work.state = "reviewing"
  /\ pc[p] \in Applying \cup {"apply"} => work.state = "applying_review"
  /\ pc[p] \in {"decide", "decided", "comments", "plan"} => work.state = "deciding"
  /\ pc[p] = "freshness" => work.state \in Reopenable
  /\ pc[p] \in {"clear", "commit"} => work.state \in StatesOf(event[p])
  /\ pc[p] = "clear" => event[p] \in {"REOPEN_REVIEW", "REVIEW"}
  /\ pc[p] \in Applying => Latest # 0 /\ held[p] = [n |-> Latest, row |-> reviews[Latest]]
  /\ pc[p] = "check" => held[p].row.label

Known(p) == pc[p] # "idle" => workCopy[p] = CopyOfWork(work)

\* Both hold for the run that has the lease.
HoldersKnow == \A p \in Proc : HoldsLease(p) => Known(p) /\ Placed(p)

\* The ticket shows review r and nobody has replied to it.
Shown(r) ==
  /\ r # 0 /\ reviews[r].label
  /\ ticket.text = reviews[r].applied.text
  /\ ticket.labels = ExpectedLabels(reviews[r].validation)
  /\ ~Replied(reviews[r])

\* What the run with the lease relies on as long as nobody changes the ticket: it
\* does not reopen work that a review brought to rest, and before it lets work come
\* to rest it has seen the result of the newest review on the ticket.
StillShown(p) ==
  /\ pc[p] \in Applying => ~Replied(held[p].row)
  /\ pc[p] \in {"clear", "commit"} /\ event[p] = "REOPEN_REVIEW"
       => work.current # 0 \/ asked
  /\ pc[p] = "commit" /\ work.state = "applying_review"
       /\ event[p] \in {"REVIEW_APPLIED", "REQUIRE_HUMAN", "FAIL"}
       => Shown(Latest) /\ event[p] = OutcomeEvent(reviews[Latest].validation)
  /\ pc[p] = "comments" /\ event[p] # "REVIEW" => AppliedReviewMatches(held[p].row)
  /\ pc[p] = "plan" /\ held[p].row.label
       => AppliedReviewMatches(held[p].row) /\ ~Replied(held[p].row)

\* Work that a review brought to rest shows its newest review, or that none could be
\* generated.
RestShown ==
  work.state \in Reopenable /\ work.current = 0 /\ ~asked =>
    \/ /\ Latest = 0 /\ work.state = "failed"
       /\ "failed" \in ticket.labels /\ ticket = observed
    \/ /\ Shown(Latest)
       /\ StateLabel(work.state) \in ticket.labels
       /\ work.state = "action_planned" => reviews[Latest].validation \in {"ready", "blocked"}

ShownInv == confirmed => RestShown /\ \A p \in Proc : HoldsLease(p) => StillShown(p)

\* The moves of the state machine that the loop makes.
LEMMA LoopMoves ==
  /\ \A s \in Reopenable : NextState(s, "REOPEN_REVIEW") = "reviewing"
  /\ NextState("deciding", "REVIEW") = "reviewing"
  /\ NextState("deciding", "REQUIRE_HUMAN") = "needs_human"
  /\ NextState("deciding", "PLAN_ACTION") = "action_planned"
  /\ NextState("deciding", "IGNORE") = "ignored"
  /\ NextState("reviewing", "REVIEW_GENERATED") = "applying_review"
  /\ NextState("reviewing", "FAIL") = "failed"
  /\ NextState("applying_review", "REVIEW_APPLIED") = "deciding"
  /\ NextState("applying_review", "REVIEW_INVALIDATED") = "reviewing"
  /\ NextState("applying_review", "REQUIRE_HUMAN") = "needs_human"
  /\ NextState("applying_review", "FAIL") = "failed"
  /\ NextState("received", "CLAIM") = "claimed"
  /\ NextState("retry_wait", "RETRY_READY") = "claimed"
  /\ NextState("claimed", "DECIDE") = "deciding"
<1>1. \A s \in Reopenable : NextState(s, "REOPEN_REVIEW") = "reviewing"
  <2>1. /\ NextState("action_planned", "REOPEN_REVIEW") = "reviewing"
        /\ NextState("needs_human", "REOPEN_REVIEW") = "reviewing"
        /\ NextState("failed", "REOPEN_REVIEW") = "reviewing"
    BY DEF NextState, On
  <2> QED BY <2>1 DEF Reopenable
<1>2. /\ NextState("deciding", "REVIEW") = "reviewing"
      /\ NextState("deciding", "REQUIRE_HUMAN") = "needs_human"
      /\ NextState("deciding", "PLAN_ACTION") = "action_planned"
      /\ NextState("deciding", "IGNORE") = "ignored"
  BY DEF NextState, On
<1>3. /\ NextState("reviewing", "REVIEW_GENERATED") = "applying_review"
      /\ NextState("reviewing", "FAIL") = "failed"
  BY DEF NextState, On
<1>4. /\ NextState("applying_review", "REVIEW_APPLIED") = "deciding"
      /\ NextState("applying_review", "REVIEW_INVALIDATED") = "reviewing"
      /\ NextState("applying_review", "REQUIRE_HUMAN") = "needs_human"
      /\ NextState("applying_review", "FAIL") = "failed"
  BY DEF NextState, On
<1>5. /\ NextState("received", "CLAIM") = "claimed"
      /\ NextState("retry_wait", "RETRY_READY") = "claimed"
      /\ NextState("claimed", "DECIDE") = "deciding"
  BY DEF NextState, On
<1> QED BY <1>1, <1>2, <1>3, <1>4, <1>5

\* A transition moves the work item under the lease, and its run reads it back.
LEMMA Moved ==
  ASSUME TypeOK, NEW p \in Proc, NEW type, NEW planned, Transition(p, type, planned)
  PROVE  /\ HoldsLease(p)
         /\ work'.state = NextState(work.state, type)
         /\ work'.current = IF type = "REOPEN_REVIEW" THEN 0 ELSE work.current
         /\ workCopy'[p] = CopyOfWork(work')
BY DEF Transition, WorkFence, BumpWork, TypeOK, StoreTypeOK, Work

\* A run without the lease leaves the work item, the rows and what the others
\* know alone, and if it changes the ticket that is not confirmed any more.
LEMMA Bystander ==
  ASSUME TypeOK, NEW p \in Proc, RunStep(p) \/ RunFault(p), ~HoldsLease(p)
  PROVE  /\ work'.state = work.state /\ work'.current = work.current
         /\ work.owner # OwnerOf[p] => work' = work
         /\ \A q \in Proc \ {p} : workCopy'[q] = workCopy[q] /\ event'[q] = event[q]
         /\ confirmed' => confirmed /\ ticket' = ticket
         /\ asked' = asked
         /\ observed' \in {observed, ticket}
<1> USE DEF TypeOK, StoreTypeOK, Goto, Intend, Hold, storeVars, linearVars, reviewVars,
            localVars, history, Transition, WorkFence
<1>1. CASE NormalizeEntryState(p) \/ Enter(p) \/ Rejected(p) \/ CheckFreshness(p)
  BY <1>1 DEF NormalizeEntryState, Enter, Rejected, CheckFreshness, Discard
<1>2. CASE ClearLabels(p) \/ MarkFailed(p) \/ Update(p) \/ Relabel(p) \/ ResponseLost(p)
  BY <1>2 DEF ClearLabels, MarkFailed, Update, Relabel, ResponseLost, WriteTicket
<1>3. CASE Commit(p) \/ SaveFailure(p) \/ Plan(p)
  BY <1>3 DEF Commit, SaveFailure, Plan
<1>4. CASE Release(p)
  BY <1>4 DEF Release, ReleaseLease, ForgetCopies, Work
<1>5. CASE Generate(p) \/ Propose(p) \/ Validate(p)
  BY <1>5 DEF Generate, Propose, Asserting, Validate
<1>6. CASE Apply(p) \/ CheckApplied(p) \/ CheckContent(p) \/ CheckLabels(p)
  BY <1>6 DEF Apply, CheckApplied, CheckContent, CheckLabels, Proceed, Stale, Discard
<1>7. CASE ConfirmContent(p) \/ ConfirmLabels(p)
  BY <1>7 DEF ConfirmContent, Asserting, ConfirmLabels, Stale, Discard
<1>8. CASE Decide(p)
  BY <1>8 DEF Decide, Discard
<1>10. CASE Decided(p) \/ CheckComments(p)
  BY <1>10 DEF Decided, CheckComments, Discard
<1>9. CASE Throws(p) \/ ModelFails(p) \/ Crash(p)
  BY <1>9 DEF Throws, ModelFails, Asserting, Crash, ForgetCopies
<1> QED BY <1>1, <1>2, <1>3, <1>4, <1>5, <1>6, <1>7, <1>8, <1>9, <1>10 DEF RunStep, RunFault

\* Whoever holds the lease is not disturbed by the steps of other runs.
LEMMA Undisturbed ==
  ASSUME TypeOK, NEW p \in Proc, Acquire(p) \/ RunStep(p) \/ RunFault(p),
         NEW q \in Proc, q # p, HoldsLease(q)'
  PROVE  /\ HoldsLease(q) /\ ~HoldsLease(p) /\ ~Acquire(p)
         /\ work' = work /\ workCopy'[q] = workCopy[q]
         /\ pc'[q] = pc[q] /\ held'[q] = held[q] /\ event'[q] = event[q]
         /\ UNCHANGED <<reviews, lastReview, asked>> /\ Latest' = Latest
<1>1. ~Acquire(p)
  BY AcquireIsOwn
<1>2. HoldsLease(q)
  BY <1>1, RunLease
<1>3. ~HoldsLease(p)
  BY <1>2, OneHolder
<1>4. work.owner # OwnerOf[p]
  BY <1>2, LoopAssumption DEF HoldsLease
<1>5. UNCHANGED <<reviews, lastReview>>
  BY <1>3, RowsAreFenced
<1>6. Latest' = Latest
  BY <1>5 DEF Latest
<1> QED BY <1>1, <1>2, <1>3, <1>4, <1>5, <1>6, Bystander, Footprint

\* The newest valid review changes only with what is valid.
LEMMA SameLatest ==
  ASSUME lastReview' = lastReview, \A r \in 1..lastReview : reviews'[r].valid = reviews[r].valid
  PROVE  Latest' = Latest
<1> DEFINE Newest(S) == IF S = {} THEN 0 ELSE CHOOSE r \in S : \A s \in S : s <= r
           valid == {r \in 1..lastReview : reviews[r].valid}
<1>1. Latest = Newest(valid) /\ Latest' = Newest(valid')
  BY DEF Latest
<1>2. valid' = valid
  OBVIOUS
<1> HIDE DEF Newest, valid
<1> QED BY <1>1, <1>2

\* markReviewContentApplied under the lease
LEMMA ContentConfirmed ==
  ASSUME TypeOK, NEW p \in Proc, ConfirmContent(p), HoldsLease(p), Placed(p),
         ~Stale(p)
  PROVE  /\ pc'[p] = "labels" /\ Latest' = Latest /\ Latest # 0
         /\ held'[p] = [n |-> Latest, row |-> reviews'[Latest]]
         /\ held'[p].row.replies = held[p].row.replies
<1> DEFINE r == held[p].n
           row == [held[p].row EXCEPT !.content = TRUE, !.applied = ticket]
<1>1. /\ Latest # 0 /\ Latest \in Review /\ lastReview \in Nat
      /\ r = Latest /\ held[p].row = reviews[Latest] /\ reviews[Latest] \in ReviewRow
  BY LatestType, LocalTypes DEF ConfirmContent, Placed, Applying, TypeOK
<1>2. /\ pc' = [pc EXCEPT ![p] = "labels"]
      /\ reviews' = [reviews EXCEPT ![Latest] = row]
      /\ held' = [held EXCEPT ![p] = [n |-> Latest, row |-> row]]
      /\ lastReview' = lastReview
  BY <1>1 DEF ConfirmContent, Asserting, Goto, Hold
<1>3. /\ pc'[p] = "labels" /\ reviews'[Latest] = row
      /\ held'[p] = [n |-> Latest, row |-> row] /\ held'[p].row = row
  BY <1>1, <1>2 DEF TypeOK
<1>4. row.valid = reviews[Latest].valid /\ row.replies = held[p].row.replies
  BY <1>1 DEF ReviewRow
<1>5. \A s \in 1..lastReview : s \in Review
  BY LoopAssumption DEF TypeOK, Review
<1>6. \A s \in 1..lastReview : reviews'[s].valid = reviews[s].valid
  BY <1>1, <1>2, <1>4, <1>5 DEF TypeOK
<1>7. Latest' = Latest
  BY <1>2, <1>6, SameLatest
<1> HIDE DEF row
<1> QED BY <1>1, <1>3, <1>4, <1>7

LEMMA OwnKnown ==
  ASSUME TypeOK, HoldersKnow, NEW p \in Proc, Acquire(p) \/ RunStep(p) \/ RunFault(p),
         HoldsLease(p)'
  PROVE  Known(p)'
<1> USE DEF TypeOK, Goto, storeVars
<1>1. CASE Acquire(p)
  BY <1>1 DEF Acquire, AcquireLease, BumpWork, Known, StoreTypeOK
<1>2. ASSUME NEW type, NEW planned, Transition(p, type, planned) PROVE Known(p)'
  BY <1>2, Moved DEF Known
<1>3. CASE NormalizeEntryState(p) \/ Commit(p) \/ SaveFailure(p)
  BY <1>2, <1>3 DEF NormalizeEntryState, Commit, SaveFailure
<1>4. CASE Release(p) \/ Crash(p)
  BY <1>4 DEF Release, Crash, Known
<1>5. CASE /\ UNCHANGED <<work, workCopy>>
           /\ pc[p] # "idle"
  <2>1. HoldsLease(p)
    BY <1>5 DEF HoldsLease
  <2> QED BY <1>5, <2>1 DEF HoldersKnow, Known
<1>6. CASE Plan(p)
  BY <1>2, <1>6 DEF Plan
<1>8. CASE Enter(p) \/ CheckFreshness(p) \/ ClearLabels(p) \/ Rejected(p) \/ Generate(p)
           \/ Propose(p) \/ Validate(p) \/ MarkFailed(p)
  BY <1>5, <1>8
  DEF Enter, CheckFreshness, ClearLabels, Rejected, Generate, Propose, Validate, MarkFailed,
      WriteTicket
<1>9. CASE Apply(p) \/ CheckApplied(p) \/ CheckContent(p) \/ Update(p) \/ ConfirmContent(p)
           \/ CheckLabels(p) \/ Relabel(p) \/ ConfirmLabels(p) \/ Decide(p) \/ Decided(p)
           \/ CheckComments(p)
  BY <1>5, <1>9
  DEF Apply, CheckApplied, CheckContent, Update, ConfirmContent, CheckLabels, Relabel,
      ConfirmLabels, Decide, Decided, CheckComments, WriteTicket
<1>10. CASE Throws(p) \/ ResponseLost(p) \/ ModelFails(p)
  BY <1>5, <1>10 DEF Throws, ResponseLost, ModelFails, WriteTicket, Writing, Reading
<1> QED BY <1>1, <1>3, <1>4, <1>6, <1>8, <1>9, <1>10 DEF RunStep, RunFault

\* Where nothing is said of a run
Quiet == {"idle", "entry", "release"}

LEMMA QuietPlaced ==
  ASSUME NEW p \in Proc, pc'[p] \in Quiet
  PROVE  Placed(p)' /\ StillShown(p)'
BY DEF Placed, StillShown, Applying, Quiet

LEMMA OwnPlaced ==
  ASSUME TypeOK, HoldersKnow, NEW p \in Proc, Acquire(p) \/ RunStep(p) \/ RunFault(p),
         HoldsLease(p)'
  PROVE  Placed(p)'
<1> USE DEF Goto, Intend, Hold, Quiet
<1>0. /\ Latest \in 0..lastReview /\ lastReview \in Nat
      /\ Latest # 0 => Latest \in Review
      /\ pc \in [Proc -> Pc] /\ event \in [Proc -> LoopEvents]
      /\ held \in [Proc -> [n: 0..ReviewBound, row: ReviewRow]]
  BY LatestType, LocalTypes DEF TypeOK
<1>1. CASE Acquire(p)
  BY <1>0, <1>1, QuietPlaced DEF Acquire
<1> SUFFICES ASSUME ~Acquire(p) PROVE Placed(p)'
  BY <1>1
<1>2. HoldsLease(p) /\ Known(p) /\ Placed(p)
  BY RunLease DEF HoldersKnow
<1>3. CASE pc'[p] \in Quiet
  BY <1>3, QuietPlaced
<1> SUFFICES ASSUME pc'[p] \notin Quiet PROVE Placed(p)'
  BY <1>3
<1>5. ~NormalizeEntryState(p) /\ ~Rejected(p) /\ ~Release(p) /\ ~SaveFailure(p)
  BY <1>0 DEF NormalizeEntryState, Rejected, Release, SaveFailure, StepOf
<1>6. ASSUME pc'[p] = StepOf(work'.state) PROVE Placed(p)'
  <2>1. \/ pc'[p] = "generate" /\ work'.state = "reviewing"
        \/ pc'[p] = "apply" /\ work'.state = "applying_review"
        \/ pc'[p] = "decide" /\ work'.state = "deciding"
    BY <1>6 DEF StepOf
  <2> QED BY <2>1 DEF Placed, Applying
<1>7. CASE Enter(p)
  <2>1. workCopy[p].state = work.state /\ work' = work
    BY <1>2, <1>7 DEF Enter, Known, CopyOfWork, storeVars
  <2>2. CASE work.state \in Reopenable
    <3>1. pc'[p] = "freshness"
      BY <1>0, <1>7, <2>1, <2>2 DEF Enter, Reopenable
    <3> QED BY <2>1, <2>2, <3>1 DEF Placed, Applying
  <2>3. CASE work.state \notin Reopenable
    BY <1>0, <1>6, <1>7, <2>1, <2>3 DEF Enter, Reopenable
  <2> QED BY <2>2, <2>3
<1>8. CASE CheckFreshness(p)
  <2>1. /\ pc'[p] = "clear" /\ event'[p] = "REOPEN_REVIEW" /\ work' = work
        /\ work.state \in Reopenable
    BY <1>0, <1>2, <1>8 DEF CheckFreshness, Discard, Placed, storeVars
  <2> QED BY <2>1 DEF Placed, Applying, StatesOf
<1>9. CASE ClearLabels(p)
  <2>1. /\ pc[p] = "clear" /\ pc'[p] = "commit" /\ UNCHANGED <<event, work>>
    BY <1>0, <1>9 DEF ClearLabels, WriteTicket, storeVars, localVars
  <2> QED BY <1>2, <2>1 DEF Placed, Applying, StatesOf
<1>10. CASE Commit(p)
  BY <1>0, <1>6, <1>10 DEF Commit
<1>11. CASE Generate(p) \/ Propose(p) \/ Validate(p) \/ MarkFailed(p)
  <2>1. /\ work' = work /\ work.state = "reviewing"
        /\ \/ pc'[p] \in {"model", "validate", "save_failure"}
           \/ pc'[p] = "commit" /\ event'[p] = "REVIEW_GENERATED"
    BY <1>0, <1>2, <1>11
    DEF Generate, Propose, Asserting, Validate, MarkFailed, WriteTicket, Placed, storeVars
  <2> QED BY <2>1 DEF Placed, Applying, StatesOf
<1>12. CASE Apply(p)
  <2>1. work' = work /\ work.state = "applying_review"
    BY <1>2, <1>12 DEF Apply, Placed, storeVars
  <2>2. CASE pc'[p] = "commit"
    <3>1. event'[p] = "REVIEW_INVALIDATED"
      BY <1>0, <1>12, <2>2 DEF Apply, Discard
    <3> QED BY <2>1, <2>2, <3>1 DEF Placed, Applying, StatesOf
  <2>3. CASE pc'[p] # "commit"
    <3>1. /\ Latest # 0 /\ UNCHANGED <<reviews, lastReview>>
          /\ held'[p] = [n |-> Latest, row |-> reviews[Latest]]
          /\ pc'[p] = IF reviews[Latest].label THEN "check"
                      ELSE IF WritesContent(reviews[Latest]) THEN "content" ELSE "labels"
      BY <1>0, <1>12, <2>3 DEF Apply, Discard
    <3>2. Latest' = Latest
      BY <3>1 DEF Latest
    <3> QED BY <2>1, <3>1, <3>2 DEF Placed, Applying
  <2> QED BY <2>2, <2>3
<1>13. CASE CheckApplied(p) \/ ConfirmLabels(p)
  <2>1. work' = work /\ work.state = "applying_review"
    BY <1>2, <1>13 DEF CheckApplied, ConfirmLabels, Placed, Applying, storeVars
  <2>2. /\ pc'[p] = "commit"
        /\ event'[p] \in {"REVIEW_INVALIDATED", "FAIL", "REQUIRE_HUMAN", "REVIEW_APPLIED"}
    BY <1>0, <1>2, <1>13 DEF CheckApplied, ConfirmLabels, Stale, Discard, OutcomeEvent
  <2> QED BY <2>1, <2>2 DEF Placed, Applying, StatesOf
<1>14. CASE CheckContent(p) \/ CheckLabels(p) \/ Update(p) \/ Relabel(p)
  <2>1. work' = work /\ work.state = "applying_review" /\ pc[p] \in Applying
    BY <1>2, <1>14
    DEF CheckContent, CheckLabels, Update, Relabel, WriteTicket, Placed, Applying, storeVars
  <2>2. CASE pc'[p] = "commit"
    <3>1. event'[p] = "REVIEW_INVALIDATED"
      BY <1>0, <1>2, <1>14, <2>2
      DEF CheckContent, CheckLabels, Proceed, Stale, Discard, Update, Relabel, WriteTicket
    <3> QED BY <2>1, <2>2, <3>1 DEF Placed, Applying, StatesOf
  <2>3. CASE pc'[p] # "commit"
    <3>1. /\ pc'[p] \in {"confirm", "update", "confirm_labels", "relabel"}
          /\ UNCHANGED <<reviews, lastReview, held>>
      BY <1>0, <1>2, <1>14, <2>3
      DEF CheckContent, CheckLabels, Proceed, Stale, Discard, Update, Relabel, WriteTicket,
          reviewVars, localVars
    <3>2. Latest' = Latest
      BY <3>1 DEF Latest
    <3> QED BY <1>2, <2>1, <3>1, <3>2 DEF Placed, Applying
  <2> QED BY <2>2, <2>3
<1>15. CASE ConfirmContent(p)
  <2>1. work' = work /\ work.state = "applying_review"
    BY <1>2, <1>15 DEF ConfirmContent, Placed, Applying, storeVars
  <2>2. CASE Stale(p)
    <3>1. pc'[p] = "commit" /\ event'[p] = "REVIEW_INVALIDATED"
      BY <1>0, <1>2, <2>2 DEF Stale, Discard
    <3> QED BY <2>1, <3>1 DEF Placed, Applying, StatesOf
  <2>3. CASE ~Stale(p)
    BY <1>2, <1>15, <2>1, <2>3, ContentConfirmed DEF Placed, Applying
  <2> QED BY <2>2, <2>3
<1>16. CASE Decide(p)
  <2>1. /\ work' = work /\ work.state = "deciding"
        /\ \/ pc'[p] = "commit" /\ event'[p] = "REQUIRE_HUMAN"
           \/ pc'[p] = "clear" /\ event'[p] = "REVIEW"
           \/ pc'[p] = "decided"
    BY <1>0, <1>2, <1>16 DEF Decide, Discard, Placed, storeVars
  <2> QED BY <2>1 DEF Placed, Applying, StatesOf
<1>17. CASE Decided(p) \/ CheckComments(p)
  <2>1. /\ work' = work /\ work.state = "deciding"
        /\ \/ pc'[p] = "clear" /\ event'[p] = "REVIEW"
           \/ pc'[p] \in {"comments", "plan"}
    BY <1>0, <1>2, <1>17 DEF Decided, CheckComments, Discard, Placed, storeVars
  <2> QED BY <2>1 DEF Placed, Applying, StatesOf
<1>19. CASE Plan(p)
  BY <1>0, <1>6, <1>19 DEF Plan
<1>18. CASE RunFault(p)
  <2>1. pc[p] = "model" /\ pc'[p] = "mark_failed" /\ work' = work
    BY <1>0, <1>2, <1>18
    DEF RunFault, Throws, ResponseLost, ModelFails, Asserting, Crash, WriteTicket, storeVars
  <2> QED BY <1>2, <2>1 DEF Placed, Applying
<1> QED
  BY <1>5, <1>7, <1>8, <1>9, <1>10, <1>11, <1>12, <1>13, <1>14, <1>15, <1>16, <1>17,
     <1>18, <1>19
  DEF RunStep

\* The lease never outlives the steps of time and of the execution coordinator,
\* and people have none.
LEMMA OutsideKnow ==
  ASSUME TypeOK, HoldersKnow, Expire \/ Lapse \/ People \/ Execute \/ Project
  PROVE  HoldersKnow'
<1>1. CASE Expire \/ Lapse \/ Execute \/ Project
  <2>1. ~work'.live
    BY <1>1 DEF Expire, Lapse, LeaseLapses, Execute, Project, TypeOK, StoreTypeOK, Work
  <2> QED BY <2>1 DEF HoldersKnow, HoldsLease
<1>2. CASE People
  <2>1. UNCHANGED <<work, workCopy, reviews, lastReview, pc, held, event>>
    BY <1>2 DEF People, EditText, RemoveLabel, Reply, Edited, storeVars, reviewVars, localVars
  <2>2. Latest' = Latest
    BY <2>1 DEF Latest
  <2> QED BY <2>1, <2>2 DEF HoldersKnow, HoldsLease, Known, Placed, CopyOfWork
<1> QED BY <1>1, <1>2

LEMMA KnowStep == TypeOK /\ HoldersKnow /\ [Next]_vars => HoldersKnow'
<1> SUFFICES ASSUME TypeOK, HoldersKnow, [Next]_vars PROVE HoldersKnow'
  OBVIOUS
<1>1. CASE UNCHANGED vars
  <2>1. UNCHANGED <<work, workCopy, reviews, lastReview, pc, held, event>>
    BY <1>1 DEF vars, storeVars, reviewVars, localVars
  <2>2. Latest' = Latest
    BY <2>1 DEF Latest
  <2> QED BY <2>1, <2>2 DEF HoldersKnow, HoldsLease, Known, Placed, CopyOfWork
<1>2. ASSUME NEW p \in Proc, Acquire(p) \/ RunStep(p) \/ RunFault(p),
             NEW q \in Proc, HoldsLease(q)'
      PROVE  Known(q)' /\ Placed(q)'
  <2>1. CASE q = p
    BY <1>2, <2>1, OwnKnown, OwnPlaced
  <2>2. CASE q # p
    <3>1. /\ HoldsLease(q) /\ work' = work /\ workCopy'[q] = workCopy[q]
          /\ pc'[q] = pc[q] /\ held'[q] = held[q] /\ event'[q] = event[q]
          /\ UNCHANGED <<reviews, lastReview>> /\ Latest' = Latest
      BY <1>2, <2>2, Undisturbed
    <3> QED BY <3>1 DEF HoldersKnow, Known, Placed, CopyOfWork
  <2> QED BY <2>1, <2>2
<1>3. CASE Expire \/ Lapse \/ People \/ Execute \/ Project
  BY <1>3, OutsideKnow
<1> QED BY <1>1, <1>2, <1>3 DEF Next, HoldersKnow

\* As long as ticket, reviews and work item stay as they are, work at rest goes on
\* showing its review; a snapshot taken meanwhile is one of the ticket.
LEMMA RestStays ==
  ASSUME RestShown, UNCHANGED <<ticket, replies, reviews, lastReview, asked>>,
         work'.state = work.state, work'.current = work.current,
         observed' \in {observed, ticket}
  PROVE  RestShown'
<1>1. Latest' = Latest
  BY DEF Latest
<1>2. StateLabel(work'.state) = StateLabel(work.state)
  OBVIOUS
<1> QED BY <1>1, <1>2 DEF RestShown, Shown, Replied

\* Where a run shows nothing yet
LEMMA NothingToShow ==
  ASSUME NEW p \in Proc, pc'[p] \notin Applying \cup {"clear", "commit", "comments", "plan"}
  PROVE  StillShown(p)'
BY DEF StillShown

LEMMA NotAtRest ==
  ASSUME work'.state \notin Reopenable \/ work'.current # 0 \/ asked'
  PROVE  RestShown'
BY DEF RestShown

\* What the outcome of a review is shown by: the label of the state it leads to.
LEMMA OutcomeIsShown ==
  /\ \A v : OutcomeEvent(v) = "FAIL" => ExpectedLabels(v) = {"failed"}
  /\ \A v : OutcomeEvent(v) = "REQUIRE_HUMAN" => ExpectedLabels(v) = {"needs_input"}
  /\ \A v \in {"ready", "blocked"} : "reviewed" \in ExpectedLabels(v)
  /\ StateLabel("failed") = "failed" /\ StateLabel("needs_human") = "needs_input"
  /\ StateLabel("action_planned") = "reviewed"
BY DEF OutcomeEvent, ExpectedLabels, Accepted, Verdict, StateLabel

\* reopenReviewIfStale finds work that a review brought to rest, and whose ticket
\* nobody changed, to be as it was left.
LEMMA FoundAsLeft ==
  ASSUME LoopInv, HoldersKnow, RestShown, NEW p \in Proc, CheckFreshness(p),
         HoldsLease(p), work.current = 0, ~asked
  PROVE  pc'[p] = "release" /\ UNCHANGED <<reviews, event>>
<1>1. workCopy[p].state = work.state /\ work.state \in Reopenable
  BY DEF HoldersKnow, Known, Placed, CopyOfWork, CheckFreshness
<1>2. StateLabel(work.state) \in ticket.labels
  BY <1>1, OutcomeIsShown DEF RestShown
<1>3. CASE Latest = 0
  <2>1. work.state = "failed" /\ ticket = observed
    BY <1>1, <1>3 DEF RestShown, Shown
  <2> QED BY <1>1, <1>2, <1>3, <2>1 DEF CheckFreshness, Goto, LoopInv, TypeOK
<1>4. CASE Latest # 0
  <2>1. AppliedReviewMatches(reviews[Latest]) /\ ~Replied(reviews[Latest])
    BY <1>1, <1>4 DEF RestShown, Shown, AppliedReviewMatches
  <2> QED BY <1>1, <1>2, <1>4, <2>1 DEF CheckFreshness, Goto, LoopInv, TypeOK
<1> QED BY <1>3, <1>4

\* A run with the lease comes upon the ticket as it was left, or leaves it so.
LEMMA HolderShows ==
  ASSUME LoopInv, HoldersKnow, ShownInv, NEW p \in Proc, RunStep(p) \/ RunFault(p),
         HoldsLease(p), confirmed'
  PROVE  RestShown' /\ StillShown(p)'
<1> USE DEF Goto, Intend, Hold
<1>0. /\ Latest \in 0..lastReview /\ lastReview \in Nat
      /\ Latest # 0 => Latest \in Review
      /\ pc \in [Proc -> Pc] /\ event \in [Proc -> LoopEvents]
      /\ held \in [Proc -> [n: 0..ReviewBound, row: ReviewRow]]
  BY LatestType, LocalTypes DEF LoopInv, TypeOK
<1>1. TypeOK /\ Known(p) /\ Placed(p)
  BY DEF HoldersKnow, LoopInv
<1>2. confirmed => RestShown /\ StillShown(p)
  BY DEF ShownInv
<1>3. ASSUME UNCHANGED <<ticket, replies, reviews, lastReview, asked>>, confirmed' = confirmed,
             work'.state = work.state, work'.current = work.current,
             observed' \in {observed, ticket}
      PROVE  RestShown'
  BY <1>2, <1>3, RestStays
<1>4. replies' = replies
  BY RunKeepsEdits
<1>5. CASE NormalizeEntryState(p)
  <2>1. workCopy[p].state = work.state /\ work.state \in DOMAIN EntryEvent
    BY <1>1, <1>5 DEF NormalizeEntryState, Known, CopyOfWork
  <2>2. work'.state \in {"claimed", "deciding"}
    BY <1>1, <1>5, <2>1, Moved, LoopMoves DEF NormalizeEntryState, EntryEvent
  <2>3. pc'[p] = "entry"
    BY <1>5 DEF NormalizeEntryState
  <2> QED BY <2>2, <2>3, NotAtRest, NothingToShow DEF Reopenable, Applying
<1>6. CASE Enter(p) \/ Rejected(p) \/ Throws(p) \/ ModelFails(p)
  <2>1. RestShown'
    BY <1>3, <1>6
    DEF Enter, Rejected, Throws, ModelFails, storeVars, linearVars, reviewVars, history
  <2>2. pc'[p] \notin Applying \cup {"clear", "commit", "comments", "plan"}
    BY <1>0, <1>6 DEF Enter, Rejected, Throws, ModelFails, Asserting, StepOf, Applying
  <2> QED BY <2>1, <2>2, NothingToShow
<1>7. CASE Release(p) \/ Crash(p)
  <2>1. RestShown'
    BY <1>1, <1>3, <1>7
    DEF Release, ReleaseLease, Crash, linearVars, reviewVars, history, TypeOK,
        StoreTypeOK, Work
  <2>2. pc'[p] = "idle"
    BY <1>0, <1>7 DEF Release, Crash
  <2> QED BY <2>1, <2>2, NothingToShow DEF Applying
<1>8. CASE CheckFreshness(p)
  <2>1. /\ UNCHANGED <<work, ticket, lastReview, observed, asked>> /\ confirmed' = confirmed
    BY <1>8 DEF CheckFreshness, storeVars, linearVars, history
  <2>2. CASE work.current = 0 /\ ~asked
    <3>1. pc'[p] = "release" /\ UNCHANGED reviews
      BY <1>2, <1>8, <2>1, <2>2, FoundAsLeft
    <3>2. RestShown'
      BY <1>3, <1>4, <2>1, <3>1
    <3> QED BY <3>1, <3>2, NothingToShow DEF Applying
  <2>3. CASE work.current # 0 \/ asked
    <3>1. pc'[p] \in {"release", "clear"}
      BY <1>0, <1>8 DEF CheckFreshness, Discard
    <3> QED BY <2>1, <2>3, <3>1, NotAtRest DEF StillShown, Applying
  <2> QED BY <2>2, <2>3
<1>9. CASE ClearLabels(p) \/ MarkFailed(p) \/ Update(p) \/ Relabel(p) \/ ResponseLost(p)
  <2>1. /\ pc[p] \in Writing /\ confirmed
        /\ UNCHANGED <<work, reviews, lastReview, held, event, asked>>
    BY <1>9 DEF ClearLabels, MarkFailed, Update, Relabel, ResponseLost, WriteTicket, Writing,
                storeVars, reviewVars, localVars
  <2>2. RestShown'
    <3>1. CASE pc[p] = "clear"
      <4>1. \/ event[p] = "REOPEN_REVIEW" /\ (work.current # 0 \/ asked)
            \/ work.state = "deciding"
        BY <1>1, <1>2, <2>1, <3>1 DEF Placed, StatesOf, StillShown
      <4> QED BY <2>1, <4>1, NotAtRest DEF Reopenable
    <3>2. CASE pc[p] # "clear"
      <4>1. work.state \in {"reviewing", "applying_review"}
        BY <1>1, <2>1, <3>2 DEF Placed, Writing, Applying
      <4> QED BY <2>1, <4>1, NotAtRest DEF Reopenable
    <3> QED BY <3>1, <3>2
  <2>3. CASE ClearLabels(p)
    <3>1. /\ pc[p] = "clear" /\ pc'[p] = "commit"
          /\ work.state \in StatesOf(event[p]) /\ event[p] \in {"REOPEN_REVIEW", "REVIEW"}
      BY <1>0, <1>1, <2>3 DEF ClearLabels, WriteTicket, Placed
    <3>2. work.state # "applying_review"
      BY <3>1 DEF StatesOf, Reopenable
    <3> QED BY <1>2, <2>1, <2>2, <3>1, <3>2 DEF StillShown, Applying
  <2>4. CASE Update(p) \/ Relabel(p)
    <3>1. pc[p] \in Applying /\ pc'[p] \in {"confirm", "confirm_labels"}
      BY <1>0, <2>4 DEF Update, Relabel, WriteTicket, Applying
    <3> QED BY <1>2, <1>4, <2>1, <2>2, <3>1 DEF StillShown, Replied
  <2>5. CASE MarkFailed(p) \/ ResponseLost(p)
    <3>1. pc'[p] \in {"save_failure", "release"}
      BY <1>0, <2>5 DEF MarkFailed, ResponseLost, WriteTicket
    <3> QED BY <2>2, <3>1, NothingToShow DEF Applying
  <2> QED BY <1>9, <2>3, <2>4, <2>5
<1>10. CASE Commit(p)
  <2>1. pc'[p] \notin Applying \cup {"clear", "commit", "comments", "plan"}
    BY <1>0, <1>10 DEF Commit, StepOf, Applying
  <2>2. /\ pc[p] = "commit" /\ confirmed /\ work.state \in StatesOf(event[p])
        /\ asked' = (work.state = "deciding" /\ event[p] = "REQUIRE_HUMAN")
        /\ work'.state = NextState(work.state, event[p])
        /\ UNCHANGED <<ticket, reviews, lastReview>>
    BY <1>1, <1>10, Moved DEF Commit, Placed, linearVars, reviewVars
  <2>3. CASE work'.state \notin Reopenable \/ asked'
    BY <2>1, <2>3, NothingToShow, NotAtRest
  <2>4. CASE work'.state \in Reopenable /\ ~asked'
    <3>1. /\ work.state = "applying_review"
          /\ \/ event[p] = "FAIL" /\ work'.state = "failed"
             \/ event[p] = "REQUIRE_HUMAN" /\ work'.state = "needs_human"
      BY <2>2, <2>4, LoopMoves DEF StatesOf, Reopenable
    <3>2. Shown(Latest) /\ event[p] = OutcomeEvent(reviews[Latest].validation)
      BY <1>2, <2>2, <3>1 DEF StillShown
    <3>3. StateLabel(work'.state) \in ticket.labels
      BY <3>1, <3>2, OutcomeIsShown DEF Shown
    <3>4. Latest' = Latest
      BY <2>2 DEF Latest
    <3>5. RestShown'
      BY <1>4, <2>2, <3>1, <3>2, <3>3, <3>4 DEF RestShown, Shown, Replied
    <3> QED BY <2>1, <3>5, NothingToShow
  <2> QED BY <2>3, <2>4
<1>11. CASE Generate(p) \/ Propose(p) \/ Validate(p)
  <2>1. /\ work' = work /\ work.state = "reviewing"
        /\ \/ pc'[p] \in {"model", "validate", "release"}
           \/ pc'[p] = "commit" /\ event'[p] = "REVIEW_GENERATED"
    BY <1>0, <1>1, <1>11 DEF Generate, Propose, Asserting, Validate, Placed, storeVars
  <2> QED BY <2>1, NotAtRest DEF Reopenable, StillShown, Applying
<1>12. CASE SaveFailure(p)
  <2>1. /\ pc'[p] = "release" /\ work'.state = "failed"
        /\ Latest = 0 /\ "failed" \in ticket.labels /\ observed' = ticket
        /\ UNCHANGED <<ticket, reviews, lastReview>>
    BY <1>0, <1>1, <1>12, Moved, LoopMoves DEF SaveFailure, StepOf, Placed, linearVars
  <2>2. Latest' = Latest
    BY <2>1 DEF Latest
  <2> QED BY <2>1, <2>2, NothingToShow DEF RestShown, Applying
<1>13. CASE Apply(p)
  <2>1. work' = work /\ work.state = "applying_review"
    BY <1>1, <1>13 DEF Apply, Placed, storeVars
  <2>2. \/ pc'[p] = "commit" /\ event'[p] = "REVIEW_INVALIDATED"
        \/ pc'[p] \in Applying /\ ~Replied(held'[p].row)
    BY <1>0, <1>13 DEF Apply, Discard, Applying
  <2> QED BY <1>4, <2>1, <2>2, NotAtRest DEF Reopenable, StillShown, Replied, Applying
<1>14. CASE CheckApplied(p) \/ ConfirmLabels(p)
  <2>1. work' = work /\ work.state = "applying_review" /\ pc[p] \in Applying
    BY <1>1, <1>14 DEF CheckApplied, ConfirmLabels, Placed, Applying, storeVars
  <2>2. RestShown'
    BY <2>1, NotAtRest DEF Reopenable
  <2>3. CASE Stale(p)
    <3>1. pc'[p] = "commit" /\ event'[p] = "REVIEW_INVALIDATED"
      BY <1>0, <2>3 DEF Stale, Discard
    <3> QED BY <2>2, <3>1 DEF StillShown, Applying
  <2>4. CASE ~Stale(p)
    <3> DEFINE row == held[p].row
    <3>1. /\ Latest # 0 /\ Latest \in Review /\ held[p].n = Latest /\ row = reviews[Latest]
          /\ row \in ReviewRow
      BY <1>0, <1>1, <2>1 DEF Placed, TypeOK
    <3>2. /\ pc'[p] = "commit" /\ event'[p] = OutcomeEvent(row.validation)
          /\ UNCHANGED <<ticket, lastReview>>
          /\ confirmed => ~Replied(row)
          /\ confirmed \/ ~Replied(row)
      BY <1>0, <1>2, <1>14, <2>1, <2>4
      DEF CheckApplied, ConfirmLabels, linearVars, StillShown
    <3>3. ASSUME CheckApplied(p)
          PROVE  Shown(Latest)' /\ reviews'[Latest'].validation = row.validation
      <4>1. LabelState(ticket, row.applied, ExpectedLabels(row.validation)) = "applied"
            /\ UNCHANGED reviews /\ row.label
        BY <1>1, <2>4, <3>3 DEF CheckApplied, Placed
      <4>2. Latest' = Latest
        BY <3>2, <4>1 DEF Latest
      <4>3. ticket.text = row.applied.text /\ ticket.labels = ExpectedLabels(row.validation)
        BY <4>1, AppliedLabels
      <4> QED BY <1>4, <3>1, <3>2, <4>1, <4>2, <4>3 DEF Shown, Replied
    <3>4. ASSUME ConfirmLabels(p)
          PROVE  Shown(Latest)' /\ reviews'[Latest'].validation = row.validation
      <4>1. /\ LabelState(ticket, Baseline(row), ExpectedLabels(row.validation)) = "applied"
            /\ reviews' = [reviews EXCEPT ![Latest].label = TRUE, ![Latest].applied = ticket]
        BY <2>4, <3>1, <3>4 DEF ConfirmLabels
      <4>2. /\ reviews'[Latest].label /\ reviews'[Latest].applied = ticket
            /\ reviews'[Latest].validation = row.validation
            /\ reviews'[Latest].replies = row.replies
            /\ reviews'[Latest].valid = row.valid
        BY <1>1, <3>1, <4>1 DEF TypeOK, ReviewRow
      <4>3. \A s \in 1..lastReview : s \in Review
        BY <1>1, LoopAssumption DEF TypeOK, Review
      <4>4. \A s \in 1..lastReview : reviews'[s].valid = reviews[s].valid
        BY <1>1, <3>1, <4>1, <4>2, <4>3 DEF TypeOK
      <4>5. Latest' = Latest
        BY <3>2, <4>4, SameLatest
      <4>6. ticket.labels = ExpectedLabels(row.validation)
        BY <4>1, AppliedLabels
      <4> QED BY <1>4, <3>1, <3>2, <4>2, <4>5, <4>6 DEF Shown, Replied
    <3>5. Shown(Latest)' /\ event'[p] = OutcomeEvent(reviews'[Latest'].validation)
      BY <1>14, <3>2, <3>3, <3>4
    <3>6. /\ pc'[p] = "commit" /\ event'[p] # "REOPEN_REVIEW"
          /\ pc'[p] \notin Applying \cup {"clear", "comments", "plan"}
      BY <3>2 DEF Applying, OutcomeEvent
    <3>7. StillShown(p)'
      BY <3>5, <3>6 DEF StillShown, OutcomeEvent
    <3> QED BY <2>2, <3>7
  <2> QED BY <2>3, <2>4
<1>15. CASE CheckContent(p) \/ CheckLabels(p)
  <2>1. /\ work' = work /\ work.state = "applying_review" /\ pc[p] \in Applying
        /\ held' = held /\ confirmed
    BY <1>1, <1>15 DEF CheckContent, CheckLabels, Placed, Applying, storeVars, history
  <2>2. \/ pc'[p] = "commit" /\ event'[p] = "REVIEW_INVALIDATED"
        \/ pc'[p] \in {"confirm", "update", "confirm_labels", "relabel"}
    BY <1>0, <1>15 DEF CheckContent, CheckLabels, Proceed, Stale, Discard
  <2>3. RestShown'
    BY <2>1, NotAtRest DEF Reopenable
  <2>4. pc'[p] \in Applying => ~Replied(held[p].row)'
    BY <1>2, <1>4, <2>1 DEF StillShown, Replied
  <2> QED BY <2>1, <2>2, <2>3, <2>4 DEF StillShown, Applying
<1>16. CASE ConfirmContent(p)
  <2>1. /\ work' = work /\ work.state = "applying_review" /\ pc[p] \in Applying /\ confirmed
    BY <1>1, <1>16 DEF ConfirmContent, Placed, Applying, storeVars, history
  <2>2. RestShown'
    BY <2>1, NotAtRest DEF Reopenable
  <2>3. CASE Stale(p)
    <3>1. pc'[p] = "commit" /\ event'[p] = "REVIEW_INVALIDATED"
      BY <1>0, <2>3 DEF Stale, Discard
    <3> QED BY <2>2, <3>1 DEF StillShown, Applying
  <2>4. CASE ~Stale(p)
    <3>1. pc'[p] = "labels" /\ held'[p].row.replies = held[p].row.replies
      BY <1>1, <1>16, <2>4, ContentConfirmed
    <3> QED BY <1>2, <1>4, <2>1, <2>2, <3>1 DEF StillShown, Replied, Applying
  <2> QED BY <2>3, <2>4
<1>17. CASE Decide(p)
  <2>1. /\ work' = work /\ work.state = "deciding"
        /\ \/ pc'[p] = "commit"  /\ event'[p] = "REQUIRE_HUMAN"
           \/ pc'[p] = "clear" /\ event'[p] = "REVIEW"
           \/ pc'[p] \in {"decided", "release"}
    BY <1>0, <1>1, <1>17 DEF Decide, Discard, Placed, storeVars
  <2> QED BY <2>1, NotAtRest DEF Reopenable, StillShown, Applying
<1>18. CASE Decided(p)
  <2>1. /\ work' = work /\ work.state = "deciding" /\ held' = held /\ ticket' = ticket
        /\ \/ pc'[p] = "plan" /\ ~held[p].row.label
           \/ /\ pc'[p] = "comments"
              /\ event'[p] # "REVIEW" => AppliedReviewMatches(held[p].row)
    BY <1>0, <1>1, <1>18 DEF Decided, TicketMatches, Placed, storeVars, linearVars
  <2> QED BY <2>1, NotAtRest DEF Reopenable, StillShown, Applying, AppliedReviewMatches
<1>19. CASE CheckComments(p)
  <2> DEFINE row == held[p].row
  <2>1. /\ work' = work /\ work.state = "deciding" /\ held' = held /\ ticket' = ticket
        /\ \/ pc'[p] = "release"
           \/ pc'[p] = "clear" /\ event'[p] = "REVIEW"
           \/ /\ pc'[p] = "plan" /\ ~Replied(row)
              /\ confirmed => AppliedReviewMatches(row)
              /\ confirmed \/ AppliedReviewMatches(row)
    BY <1>0, <1>1, <1>2, <1>19
    DEF CheckComments, Discard, Placed, StillShown, storeVars, linearVars
  <2> QED BY <1>4, <2>1, NotAtRest
          DEF Reopenable, StillShown, Applying, AppliedReviewMatches, Replied
<1>20. CASE Plan(p)
  <2> DEFINE row == held[p].row
  <2>1. PICK route \in Routes(row) :
          /\ Transition(p, route.type,
               IF route.planned = "none" THEN work.planned ELSE route.planned)
          /\ Goto(p, StepOf(work'.state))
          /\ asked' = (route.type = "REQUIRE_HUMAN")
    BY <1>20 DEF Plan
  <2>2. /\ pc[p] = "plan" /\ work.state = "deciding" /\ confirmed
        /\ UNCHANGED <<ticket, reviews, lastReview>>
    BY <1>1, <1>20 DEF Plan, Placed, linearVars, reviewVars
  <2>3. pc'[p] \notin Applying \cup {"clear", "commit", "comments", "plan"}
    BY <1>0, <2>1 DEF StepOf, Applying
  <2>4. work'.state = NextState("deciding", route.type)
    BY <1>1, <2>1, <2>2, Moved
  <2>5. CASE route.type # "PLAN_ACTION"
    <3>1. route.type \in {"REVIEW", "REQUIRE_HUMAN", "IGNORE"}
      BY <2>5 DEF Routes, Routed
    <3>2. work'.state \notin Reopenable \/ asked'
      BY <2>1, <2>4, <3>1, LoopMoves DEF Reopenable
    <3> QED BY <2>3, <3>2, NothingToShow, NotAtRest
  <2>6. CASE route.type = "PLAN_ACTION"
    <3>1. row.label /\ row.validation \in {"ready", "blocked"}
      <4>1. Accepted(row.validation) /\ row.label
        BY <2>6 DEF Routes, Routed
      <4>2. row.validation # "human"
        BY <2>6, <4>1 DEF Routes, Routed
      <4> QED BY <4>1, <4>2 DEF Accepted, Verdict
    <3>2. Latest # 0 /\ Latest \in Review /\ row = reviews[Latest]
      BY <1>0, <2>2, <3>1 DEF LoopInv, HandsSound, HandSound, Review
    <3>3. AppliedReviewMatches(row) /\ ~Replied(row)
      BY <1>2, <2>2, <3>1 DEF StillShown
    <3>4. row.applied.labels = ExpectedLabels(row.validation)
      BY <3>1, <3>2 DEF LoopInv, RowsSound, RowSound
    <3>5. Shown(Latest)
      BY <3>1, <3>2, <3>3, <3>4 DEF Shown, AppliedReviewMatches
    <3>6. work'.state = "action_planned"
      BY <2>4, <2>6, LoopMoves
    <3>7. StateLabel(work'.state) \in ticket.labels
      BY <3>1, <3>2, <3>5, <3>6, OutcomeIsShown DEF Shown
    <3>8. Latest' = Latest
      BY <2>2 DEF Latest
    <3> QED BY <1>4, <2>2, <2>3, <3>1, <3>2, <3>5, <3>6, <3>7, <3>8, NothingToShow
            DEF RestShown, Shown, Replied
  <2> QED BY <2>5, <2>6
<1> QED
  BY <1>5, <1>6, <1>7, <1>8, <1>9, <1>10, <1>11, <1>12, <1>13, <1>14, <1>15, <1>16, <1>17,
     <1>18, <1>19, <1>20
  DEF RunStep, RunFault

LEMMA ShownRun ==
  ASSUME LoopInv, HoldersKnow, ShownInv, NEW p \in Proc,
         Acquire(p) \/ RunStep(p) \/ RunFault(p), confirmed'
  PROVE  RestShown' /\ \A q \in Proc : HoldsLease(q)' => StillShown(q)'
<1>1. TypeOK
  BY DEF LoopInv
<1>2. replies' = replies
  BY RunKeepsEdits
<1>3. CASE Acquire(p)
  <2>1. /\ UNCHANGED <<ticket, replies, reviews, lastReview, observed, asked>>
        /\ work'.state = work.state /\ work'.current = work.current /\ confirmed
        /\ pc'[p] = "entry"
    BY <1>1, <1>3
    DEF Acquire, AcquireLease, Goto, linearVars, reviewVars, history, TypeOK, StoreTypeOK, Work
  <2>2. RestShown'
    BY <2>1, RestStays DEF ShownInv
  <2>3. ASSUME NEW q \in Proc, HoldsLease(q)' PROVE StillShown(q)'
    <3>1. q = p
      BY <1>1, <1>3, <2>3, AcquireIsOwn
    <3> QED BY <2>1, <3>1, NothingToShow DEF Applying
  <2> QED BY <2>2, <2>3
<1>4. CASE ~Acquire(p) /\ HoldsLease(p)
  <2>1. RestShown' /\ StillShown(p)'
    BY <1>4, HolderShows
  <2>2. \A q \in Proc : HoldsLease(q)' => q = p
    BY <1>1, <1>4, Undisturbed
  <2> QED BY <2>1, <2>2
<1>5. CASE ~Acquire(p) /\ ~HoldsLease(p)
  <2>1. /\ work'.state = work.state /\ work'.current = work.current
        /\ confirmed /\ ticket' = ticket /\ observed' \in {observed, ticket}
        /\ UNCHANGED <<reviews, lastReview, asked>>
    BY <1>1, <1>5, Bystander, RowsAreFenced
  <2>2. RestShown'
    BY <1>2, <2>1, RestStays DEF ShownInv
  <2>3. ASSUME NEW q \in Proc, HoldsLease(q)' PROVE StillShown(q)'
    <3>1. q # p
      BY <1>1, <1>5, <2>3, RunLease
    <3>2. /\ HoldsLease(q) /\ work' = work /\ Latest' = Latest
          /\ pc'[q] = pc[q] /\ held'[q] = held[q] /\ event'[q] = event[q]
      BY <1>1, <2>3, <3>1, Undisturbed
    <3>3. StillShown(q)
      BY <2>1, <3>2 DEF ShownInv
    <3> QED BY <1>2, <2>1, <3>2, <3>3
            DEF StillShown, Shown, Replied, OutcomeEvent, AppliedReviewMatches
  <2> QED BY <2>2, <2>3
<1> QED BY <1>3, <1>4, <1>5

LEMMA ShownStep == LoopInv /\ HoldersKnow /\ ShownInv /\ [Next]_vars => ShownInv'
<1> SUFFICES ASSUME LoopInv, HoldersKnow, ShownInv, [Next]_vars, confirmed'
             PROVE  RestShown' /\ \A q \in Proc : HoldsLease(q)' => StillShown(q)'
  BY DEF ShownInv
<1>1. CASE UNCHANGED vars
  <2>1. UNCHANGED <<work, ticket, replies, reviews, lastReview, observed, pc, held, event,
                    confirmed, asked>>
    BY <1>1 DEF vars, storeVars, linearVars, reviewVars, localVars, history
  <2>2. Latest' = Latest
    BY <2>1 DEF Latest
  <2> QED BY <2>1, <2>2, RestStays
          DEF ShownInv, HoldsLease, StillShown, Shown, Replied, OutcomeEvent,
              AppliedReviewMatches
<1>2. ASSUME NEW p \in Proc, Acquire(p) \/ RunStep(p) \/ RunFault(p)
      PROVE  RestShown' /\ \A q \in Proc : HoldsLease(q)' => StillShown(q)'
  BY <1>2, ShownRun
<1>3. CASE Expire \/ Lapse \/ Execute \/ Project
  <2>1. ~work'.live
    BY <1>3
    DEF Expire, Lapse, LeaseLapses, Execute, Project, LoopInv, TypeOK, StoreTypeOK, Work
  <2>2. ~Project
    BY DEF Project
  <2>3. CASE Expire \/ Lapse
    <3>1. /\ UNCHANGED <<ticket, replies, reviews, lastReview, observed, asked>> /\ confirmed
          /\ work'.state = work.state /\ work'.current = work.current
      BY <2>3 DEF Expire, Lapse, LeaseLapses, linearVars, reviewVars, history, LoopInv, TypeOK,
                  StoreTypeOK, Work
    <3> QED BY <2>1, <3>1, RestStays DEF ShownInv, HoldsLease
  <2>4. CASE Execute
    <3>1. work'.current # 0
      BY <2>4, AttemptBoundAssumption DEF Execute, LoopInv, TypeOK, StoreTypeOK, Work
    <3> QED BY <2>1, <3>1, NotAtRest DEF HoldsLease
  <2> QED BY <1>3, <2>2, <2>3, <2>4
<1>4. ~People
  BY DEF People, EditText, RemoveLabel, Reply, Edited
<1> QED BY <1>1, <1>2, <1>3, <1>4 DEF Next

LEMMA ShownInit == Init => HoldersKnow /\ ShownInv
<1> SUFFICES ASSUME Init PROVE HoldersKnow /\ ShownInv
  OBVIOUS
<1>1. ASSUME NEW p \in Proc PROVE ~HoldsLease(p)
  BY DEF Init, HoldsLease
<1> QED BY <1>1 DEF Init, HoldersKnow, ShownInv

LEMMA ShownAlways == Spec => [](LoopInv /\ HoldersKnow /\ ShownInv)
<1>1. LoopInv => TypeOK
  BY DEF LoopInv
<1> QED BY <1>1, LoopAlways, ShownInit, KnowStep, ShownStep, PTL DEF Spec

\* As long as nobody changed the ticket since a run saw its result there, work that a
\* review brought to rest carries the label of its state, and planned work the text
\* of its review.
THEOREM LabelsTell == Spec => []LabelsTellState
<1>1. LoopInv /\ ShownInv => LabelsTellState
  <2> SUFFICES ASSUME LoopInv, ShownInv, confirmed, work.state \in Reopenable,
                      work.current = 0, ~asked
               PROVE  /\ StateLabel(work.state) \in ticket.labels
                      /\ work.state = "action_planned" =>
                           Latest # 0 /\ ticket.text = Proposal(Latest)
    BY DEF LabelsTellState
  <2>1. RestShown
    BY DEF ShownInv
  <2>2. StateLabel(work.state) \in ticket.labels
    BY <2>1, OutcomeIsShown DEF RestShown
  <2>3. ASSUME work.state = "action_planned"
        PROVE  Latest # 0 /\ ticket.text = Proposal(Latest)
    <3>1. /\ Shown(Latest) /\ reviews[Latest].validation \in {"ready", "blocked"}
      BY <2>1, <2>3 DEF RestShown
    <3>2. Latest \in Review
      BY <3>1, LatestType, LocalTypes DEF LoopInv, Shown
    <3> QED BY <3>1, <3>2 DEF Shown, LoopInv, RowsSound, RowSound
  <2> QED BY <2>2, <2>3
<1> QED BY <1>1, ShownAlways, PTL

\* Work that a review brought to rest, and that has no execution, is reviewed again
\* only if somebody changed the issue: what reopenReviewIfStale compares is what the
\* last run left.
THEOREM ReopenedWithCause == Spec => ReopenedOnlyAfterChange
<1> DEFINE Step == work.state \in Reopenable /\ work.current = 0 /\ work'.state = "reviewing"
                     => ~confirmed \/ asked
<1>1. LoopInv /\ HoldersKnow /\ ShownInv /\ [Next]_vars => [Step]_vars
  <2> SUFFICES ASSUME LoopInv, HoldersKnow, ShownInv, Next, work.state \in Reopenable,
                      work.current = 0, work'.state = "reviewing", confirmed, ~asked
               PROVE  FALSE
    OBVIOUS
  <2>0. TypeOK /\ work.state # work'.state
    BY DEF Reopenable, LoopInv
  <2>1. ~Execute
    BY LoopAssumption
    DEF Execute, SettledExecutionStates, LoopInv, TypeOK, StoreTypeOK, Work
  <2>2. PICK p \in Proc :
          NormalizeEntryState(p) \/ Commit(p) \/ SaveFailure(p) \/ Plan(p)
    BY <2>0, <2>1, WhoMoves
  <2>3. PICK type, planned : Transition(p, type, planned)
    BY <2>0, <2>2 DEF NormalizeEntryState, Commit, SaveFailure, Plan
  <2>4. HoldsLease(p) /\ Known(p) /\ Placed(p) /\ StillShown(p)
    BY <2>0, <2>3, Moved DEF HoldersKnow, ShownInv
  <2>5. ~SaveFailure(p) /\ ~Plan(p)
    BY <2>4 DEF Placed, SaveFailure, Plan, Reopenable
  <2>6. ~NormalizeEntryState(p)
    BY <2>4 DEF NormalizeEntryState, Known, CopyOfWork, EntryEvent, Reopenable
  <2>7. pc[p] = "commit" /\ work.state \in StatesOf(event[p])
    BY <2>2, <2>4, <2>5, <2>6 DEF Commit, Placed
  <2>8. event[p] = "REOPEN_REVIEW"
    BY <2>7 DEF StatesOf, Reopenable
  <2> QED BY <2>4, <2>7, <2>8 DEF StillShown
<1>2. Spec => [][Step]_vars
  BY <1>1, ShownAlways, PTL DEF Spec
<1> QED BY <1>2 DEF ReopenedOnlyAfterChange
================================================================================
