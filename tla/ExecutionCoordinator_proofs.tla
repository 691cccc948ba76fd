-------------------- MODULE ExecutionCoordinator_proofs --------------------
(***************************************************************************)
(* Safety of the execution coordinator for any number of runs, instances,  *)
(* attempts and faults.                                                    *)
(***************************************************************************)
EXTENDS ExecutionCoordinator, MastermindStore_proofs

-----------------------------------------------------------------------------
(* Type correctness *)

\* The calls a run makes about an attempt it has loaded.
PhasePc == Pc \ {"idle", "leased", "begin", "create", "release"}

\* TypeOK alone is not inductive: a write goes to the row its copy names, and
\* only a loaded copy names one.
Loaded == \A p \in Proc : pc[p] \in PhasePc => attemptCopy[p].n \in AttemptNumber

TypeInv == TypeOK /\ Loaded

LEMMA InitType == Init => TypeInv
<1> SUFFICES ASSUME Init PROVE TypeInv
  OBVIOUS
<1>1. AbsentAttempt \in Attempt /\ NoWorkCopy \in WorkCopy /\ NoAttemptCopy \in AttemptCopy
  BY AttemptBoundAssumption
  DEF AbsentAttempt, Attempt, NoWorkCopy, WorkCopy, NoAttemptCopy, AttemptCopy,
      MastermindState, On, PlannedAction
<1>2. StoreTypeOK
  <2>1. work \in Work
    BY AttemptBoundAssumption DEF Init, Work, MastermindState, On, PlannedAction
  <2> QED BY <1>1, <2>1, AttemptBoundAssumption DEF Init, StoreTypeOK
<1>3. HerdrTypeOK
  BY AttemptBoundAssumption DEF Init, HerdrInit, HerdrTypeOK, AgentState, NoManifest, Manifest
<1>4. NoIntent \in Intent
  BY <1>1 DEF NoIntent, Intent
<1> QED
  BY <1>2, <1>3, <1>4, CoordinatorAssumption
  DEF Init, TypeInv, TypeOK, Loaded, Pc, PhasePc, GateLabel

\* Moving on without an intent, and going on to commit one.
LEMMA GotoType ==
  ASSUME TypeInv, NEW p \in Proc, NEW label \in Pc, Goto(p, label)
  PROVE  pc' \in [Proc -> Pc] /\ intent' \in [Proc -> Intent]
BY DEF TypeInv, TypeOK, Goto

LEMMA IntendType ==
  ASSUME TypeInv, NEW p \in Proc, NEW event \in ExecutionEvents,
         NEW row \in Attempt, Intend(p, event, row)
  PROVE  pc' \in [Proc -> Pc] /\ intent' \in [Proc -> Intent]
BY DEF TypeInv, TypeOK, Intend, Intent, Pc

LEMMA IntendNeedsHumanType ==
  ASSUME TypeInv, NEW p \in Proc, NEW row \in Attempt, IntendNeedsHuman(p, row)
  PROVE  pc' \in [Proc -> Pc] /\ intent' \in [Proc -> Intent]
<1>1. NeedsHuman(row).event \in ExecutionEvents
  BY DEF NeedsHuman, ExecutionEvents
<1>2. NeedsHuman(row).row \in Attempt
  BY DEF NeedsHuman, Attempt
<1> QED BY <1>1, <1>2, IntendType DEF IntendNeedsHuman

LEMMA AcquireTyped ==
  ASSUME TypeInv, NEW p \in Proc, Acquire(p)
  PROVE  TypeInv'
<1>1. StoreTypeOK'
  BY AcquireLeaseType DEF TypeInv, TypeOK, Acquire
<1>2. pc' \in [Proc -> Pc] /\ intent' \in [Proc -> Intent]
  BY GotoType DEF Acquire, Pc
<1>3. Loaded'
  BY DEF TypeInv, TypeOK, Loaded, Acquire, Goto, PhasePc
<1> QED BY <1>1, <1>2, <1>3 DEF TypeInv, TypeOK, Acquire, herdrVars, linearVars, HerdrTypeOK

\* Steps that leave the rows, the copies, the agents and Linear alone and only
\* move within the phase, possibly forming an intent.
LEMMA QuietTyped ==
  ASSUME TypeInv, NEW p \in Proc,
         pc' \in [Proc -> Pc], intent' \in [Proc -> Intent],
         \A q \in Proc : q # p => pc'[q] = pc[q],
         pc[p] \in PhasePc \/ pc'[p] \notin PhasePc,
         UNCHANGED storeVars, HerdrTypeOK',
         comments' \in [AttemptNumber -> Nat], gate' \in GateLabel,
         faults' \in 0..FaultBound
  PROVE  TypeInv'
<1>1. StoreTypeOK'
  BY DEF TypeInv, TypeOK, storeVars, StoreTypeOK
<1>2. Loaded'
  BY DEF TypeInv, Loaded, storeVars
<1> QED BY <1>1, <1>2 DEF TypeInv, TypeOK

LEMMA HerdrUnchanged == HerdrTypeOK /\ UNCHANGED herdrVars => HerdrTypeOK'
BY DEF HerdrTypeOK, herdrVars

LEMMA LinearUnchanged ==
  ASSUME TypeInv, UNCHANGED linearVars
  PROVE  comments' \in [AttemptNumber -> Nat] /\ gate' \in GateLabel
BY DEF TypeInv, TypeOK, linearVars

LEMMA LoadedCopy ==
  ASSUME TypeInv, NEW p \in Proc
  PROVE  /\ Copy(p) \in Attempt
         /\ Number(p) \in 0..AttemptBound
         /\ pc[p] \in PhasePc => Number(p) \in AttemptNumber
BY DEF TypeInv, TypeOK, StoreTypeOK, AttemptCopy, Copy, Number, Loaded

LEMMA FaultTyped ==
  ASSUME TypeInv, NEW kind, FaultHappens(kind)
  PROVE  faults' \in 0..FaultBound
BY CoordinatorAssumption DEF TypeInv, TypeOK, FaultHappens

LEMMA LoadNothingTyped ==
  ASSUME TypeInv, NEW p \in Proc, LoadNothing(p)
  PROVE  TypeInv'
<1> DEFINE label == IF workCopy[p].state = "action_planned"
                    THEN EntryOfPlanned(p) ELSE "release"
<1>1. label \in Pc \ PhasePc
  BY DEF EntryOfPlanned, Pc, PhasePc
<1>2. pc' \in [Proc -> Pc] /\ intent' \in [Proc -> Intent]
  BY <1>1, GotoType DEF LoadNothing
<1> QED BY <1>1, <1>2, QuietTyped, HerdrUnchanged, LinearUnchanged
        DEF LoadNothing, Goto, TypeInv, TypeOK

LEMMA PhaseOfType == \A row : PhaseOf(row) \in Pc
BY DEF PhaseOf, Pc

LEMMA LoadAttemptTyped ==
  ASSUME TypeInv, NEW p \in Proc, LoadAttempt(p)
  PROVE  TypeInv'
<1> DEFINE row == attempts[work.current]
<1>1. work.current \in AttemptNumber /\ StoreTypeOK'
  BY ReadCurrentAttemptType DEF LoadAttempt, TypeInv, TypeOK
<1>2. row \in Attempt
  BY <1>1 DEF TypeInv, TypeOK, StoreTypeOK
<1>3. pc' \in [Proc -> Pc] /\ intent' \in [Proc -> Intent]
  <2>1. EntryOfPlanned(p) \in Pc /\ "release" \in Pc
    BY DEF EntryOfPlanned, Pc
  <2>2. PhaseOf(row) \in Pc
    BY <1>2, PhaseOfType
  <2> QED BY <1>2, <2>1, <2>2, GotoType, IntendNeedsHumanType DEF LoadAttempt
<1>4. Loaded'
  <2> SUFFICES ASSUME NEW q \in Proc, pc'[q] \in PhasePc
               PROVE  attemptCopy'[q].n \in AttemptNumber
    BY DEF Loaded
  <2>1. CASE q = p
    BY <1>1, <2>1 DEF LoadAttempt, ReadCurrentAttempt, TypeInv, TypeOK, StoreTypeOK
  <2>2. CASE q # p
    <3>1. pc'[q] = pc[q]
      BY <2>2 DEF LoadAttempt, Goto, IntendNeedsHuman, Intend, TypeInv, TypeOK
    <3>2. attemptCopy'[q] = attemptCopy[q]
      BY <2>2 DEF LoadAttempt, ReadCurrentAttempt, TypeInv, TypeOK, StoreTypeOK
    <3> QED BY <3>1, <3>2 DEF TypeInv, Loaded
  <2> QED BY <2>1, <2>2
<1> QED BY <1>1, <1>3, <1>4, HerdrUnchanged, LinearUnchanged
        DEF LoadAttempt, TypeInv, TypeOK

LEMMA ReleaseTyped ==
  ASSUME TypeInv, NEW p \in Proc, Release(p)
  PROVE  TypeInv'
<1>1. StoreTypeOK'
  BY ReleaseLeaseType DEF Release, TypeInv, TypeOK
<1>2. pc' \in [Proc -> Pc] /\ intent' \in [Proc -> Intent]
  BY GotoType DEF Release, Pc
<1>3. Loaded'
  BY DEF Release, Goto, ForgetCopies, TypeInv, TypeOK, StoreTypeOK, Loaded, PhasePc
<1> QED BY <1>1, <1>2, <1>3, HerdrUnchanged, LinearUnchanged
        DEF Release, TypeInv, TypeOK

LEMMA ClearGateLabelsTyped ==
  ASSUME TypeInv, NEW p \in Proc, ClearGateLabels(p)
  PROVE  TypeInv'
<1>1. pc' \in [Proc -> Pc] /\ intent' \in [Proc -> Intent]
  BY GotoType DEF ClearGateLabels, Pc
<1> QED BY <1>1, QuietTyped, HerdrUnchanged
        DEF ClearGateLabels, Goto, TypeInv, TypeOK, PhasePc, GateLabel

LEMMA CreateTyped ==
  ASSUME TypeInv, NEW p \in Proc, Create(p)
  PROVE  TypeInv'
<1>1. StoreTypeOK'
  BY CreateExecutionAttemptType DEF Create, TypeInv, TypeOK
<1>2. pc' \in [Proc -> Pc] /\ intent' \in [Proc -> Intent]
  BY GotoType DEF Create, Pc
<1>3. Loaded'
  BY DEF Create, CreateExecutionAttempt, Goto, TypeInv, TypeOK, Loaded, PhasePc
<1> QED BY <1>1, <1>2, <1>3, HerdrUnchanged, LinearUnchanged
        DEF Create, TypeInv, TypeOK

\* Writes through a loaded copy: Number and the fresh copy stay as they are
\* but for the version.
LEMMA BumpKeepsLoaded ==
  ASSUME TypeInv, NEW p \in Proc, pc[p] \in PhasePc, NEW row,
         BumpAttempt(p, Number(p), row),
         \A q \in Proc : q # p => pc'[q] = pc[q]
  PROVE  Loaded'
<1> SUFFICES ASSUME NEW q \in Proc, pc'[q] \in PhasePc
             PROVE  attemptCopy'[q].n \in AttemptNumber
  BY DEF Loaded
<1>1. attemptCopy'[q].n = attemptCopy[q].n
  BY DEF BumpAttempt, Number, TypeInv, TypeOK, StoreTypeOK, AttemptCopy
<1> QED BY <1>1 DEF TypeInv, Loaded

LEMMA RecordWorkspaceTyped ==
  ASSUME TypeInv, NEW p \in Proc, RecordWorkspace(p)
  PROVE  TypeInv'
<1> DEFINE row == [Copy(p) EXCEPT !.workspace = TRUE]
<1>1. pc[p] \in PhasePc /\ row \in Attempt /\ Number(p) \in AttemptNumber
  BY LoadedCopy DEF RecordWorkspace, PhasePc, Pc, Attempt
<1>2. StoreTypeOK'
  BY <1>1, PatchExecutionAttemptType DEF RecordWorkspace, TypeInv, TypeOK, Number
<1>3. pc' \in [Proc -> Pc] /\ intent' \in [Proc -> Intent]
  BY GotoType DEF RecordWorkspace, Pc
<1>4. Loaded'
  BY <1>1, BumpKeepsLoaded
  DEF RecordWorkspace, PatchExecutionAttempt, Goto, Number, TypeInv, TypeOK
<1> QED BY <1>2, <1>3, <1>4, HerdrUnchanged, LinearUnchanged
        DEF RecordWorkspace, TypeInv, TypeOK

LEMMA RecordHandleTyped ==
  ASSUME TypeInv, NEW p \in Proc, RecordHandle(p)
  PROVE  TypeInv'
<1> DEFINE row == [Copy(p) EXCEPT !.handle = TRUE]
<1>1. pc[p] \in PhasePc /\ row \in Attempt /\ Number(p) \in AttemptNumber
  BY LoadedCopy DEF RecordHandle, PhasePc, Pc, Attempt
<1>2. StoreTypeOK'
  BY <1>1, PatchExecutionAttemptType DEF RecordHandle, TypeInv, TypeOK, Number
<1>3. pc' \in [Proc -> Pc] /\ intent' \in [Proc -> Intent]
  BY GotoType DEF RecordHandle, Pc
<1>4. Loaded'
  BY <1>1, BumpKeepsLoaded
  DEF RecordHandle, PatchExecutionAttempt, Goto, Number, TypeInv, TypeOK
<1> QED BY <1>2, <1>3, <1>4, HerdrUnchanged, LinearUnchanged
        DEF RecordHandle, TypeInv, TypeOK

LEMMA IntentTyped ==
  ASSUME TypeInv, NEW p \in Proc
  PROVE  /\ intent[p].row \in Attempt
         /\ intent[p].event \in ExecutionEvents \cup {"none"}
BY DEF TypeInv, TypeOK, Intent

LEMMA NoIntentTyped == NoIntent \in Intent
BY DEF NoIntent, Intent, AbsentAttempt, Attempt

LEMMA RecordStatusTyped ==
  ASSUME TypeInv, NEW p \in Proc, RecordStatus(p)
  PROVE  TypeInv'
<1>1. pc[p] \in PhasePc /\ Number(p) \in AttemptNumber
  BY LoadedCopy DEF RecordStatus, PhasePc, Pc
<1>2. StoreTypeOK'
  BY <1>1, IntentTyped, PatchExecutionAttemptType DEF RecordStatus, TypeInv, TypeOK, Number
<1>3. pc' \in [Proc -> Pc] /\ intent' \in [Proc -> Intent]
  BY NoIntentTyped DEF RecordStatus, Pc, TypeInv, TypeOK
<1>4. Loaded'
  BY <1>1, BumpKeepsLoaded
  DEF RecordStatus, PatchExecutionAttempt, Number, TypeInv, TypeOK
<1> QED BY <1>2, <1>3, <1>4, HerdrUnchanged, LinearUnchanged
        DEF RecordStatus, TypeInv, TypeOK

LEMMA CommitTyped ==
  ASSUME TypeInv, NEW p \in Proc, Commit(p)
  PROVE  TypeInv'
<1>1. pc[p] \in PhasePc /\ Number(p) \in AttemptNumber
  BY LoadedCopy DEF Commit, PhasePc, Pc
<1>2. StoreTypeOK'
  BY <1>1, IntentTyped, TransitionExecutionAttemptType DEF Commit, TypeInv, TypeOK, Number
<1>3. pc' \in [Proc -> Pc] /\ intent' \in [Proc -> Intent]
  BY NoIntentTyped DEF Commit, Pc, TypeInv, TypeOK
<1>4. Loaded'
  BY <1>1, BumpKeepsLoaded
  DEF Commit, TransitionExecutionAttempt, Number, TypeInv, TypeOK
<1> QED BY <1>2, <1>3, <1>4, HerdrUnchanged, LinearUnchanged
        DEF Commit, TypeInv, TypeOK

LEMMA RecordPendingTyped ==
  ASSUME TypeInv, NEW p \in Proc, RecordPending(p)
  PROVE  TypeInv'
<1>1. pc[p] \in PhasePc /\ Number(p) \in AttemptNumber
  BY LoadedCopy DEF RecordPending, PhasePc, Pc
<1>2. StoreTypeOK'
  BY <1>1, SaveExecutionProjectionType DEF RecordPending, TypeInv, TypeOK, Number
<1>3. pc' \in [Proc -> Pc] /\ intent' \in [Proc -> Intent]
  BY GotoType DEF RecordPending, Pc
<1>4. Loaded'
  BY <1>1, BumpKeepsLoaded
  DEF RecordPending, SaveExecutionProjection, Goto, Number, TypeInv, TypeOK
<1> QED BY <1>2, <1>3, <1>4, HerdrUnchanged, LinearUnchanged
        DEF RecordPending, TypeInv, TypeOK

LEMMA RecordAppliedTyped ==
  ASSUME TypeInv, NEW p \in Proc, RecordApplied(p)
  PROVE  TypeInv'
<1>1. pc[p] \in PhasePc /\ Number(p) \in AttemptNumber
  BY LoadedCopy DEF RecordApplied, PhasePc, Pc
<1>2. StoreTypeOK'
  BY <1>1, SaveExecutionProjectionType DEF RecordApplied, TypeInv, TypeOK, Number
<1>3. pc' \in [Proc -> Pc] /\ intent' \in [Proc -> Intent]
  BY GotoType DEF RecordApplied, Pc
<1>4. Loaded'
  BY <1>1, BumpKeepsLoaded
  DEF RecordApplied, SaveExecutionProjection, Goto, Number, TypeInv, TypeOK
<1> QED BY <1>2, <1>3, <1>4, HerdrUnchanged, LinearUnchanged
        DEF RecordApplied, TypeInv, TypeOK

LEMMA ProvisionTyped ==
  ASSUME TypeInv, NEW p \in Proc, Provision(p)
  PROVE  TypeInv'
<1>1. pc[p] \in PhasePc /\ Copy(p) \in Attempt
  BY LoadedCopy DEF Provision, PhasePc, Pc
<1>2. pc' \in [Proc -> Pc] /\ intent' \in [Proc -> Intent]
  BY <1>1, IntendType DEF Provision, ExecutionEvents
<1> QED BY <1>1, <1>2, QuietTyped, HerdrUnchanged, LinearUnchanged
        DEF Provision, Intend, TypeInv, TypeOK

LEMMA PreflightTyped ==
  ASSUME TypeInv, NEW p \in Proc, Preflight(p)
  PROVE  TypeInv'
<1>1. pc[p] \in PhasePc /\ Copy(p) \in Attempt
  BY LoadedCopy DEF Preflight, PhasePc, Pc
<1>2. /\ [event |-> "PREFLIGHT_PASSED", row |-> [Copy(p) EXCEPT !.preflight = TRUE]] \in Intent
      /\ NeedsHuman(Copy(p)) \in Intent
  BY <1>1 DEF Intent, NeedsHuman, ExecutionEvents, Attempt
<1>3. pc' \in [Proc -> Pc] /\ intent' \in [Proc -> Intent]
  BY <1>2 DEF Preflight, Pc, TypeInv, TypeOK
<1> QED BY <1>1, <1>3, QuietTyped, HerdrUnchanged, LinearUnchanged
        DEF Preflight, TypeInv, TypeOK

LEMMA ReloadTyped ==
  ASSUME TypeInv, NEW p \in Proc, Reload(p)
  PROVE  TypeInv'
<1> DEFINE row == attempts[work.current]
<1>1. work.current \in AttemptNumber /\ StoreTypeOK'
  BY ReadCurrentAttemptType DEF Reload, TypeInv, TypeOK
<1>2. row \in Attempt /\ [row EXCEPT !.preflight = TRUE] \in Attempt
  <2>1. row \in Attempt
    BY <1>1 DEF TypeInv, TypeOK, StoreTypeOK
  <2>2. \A r \in Attempt : [r EXCEPT !.preflight = TRUE] \in Attempt
    BY DEF Attempt
  <2> QED BY <2>1, <2>2
<1>3. pc' \in [Proc -> Pc] /\ intent' \in [Proc -> Intent]
  <2>1. "PREFLIGHT_PASSED" \in ExecutionEvents /\ "release" \in Pc
    BY DEF ExecutionEvents, Pc
  <2>2. CASE Number(p) # work.current
    BY <2>1, <2>2, NoIntentTyped DEF Reload, TypeInv, TypeOK
  <2>3. CASE Number(p) = work.current
    BY <1>2, <2>1, <2>3, IntendType, IntendNeedsHumanType DEF Reload
  <2> QED BY <2>2, <2>3
<1>4. Loaded'
  <2> SUFFICES ASSUME NEW q \in Proc, pc'[q] \in PhasePc
               PROVE  attemptCopy'[q].n \in AttemptNumber
    BY DEF Loaded
  <2>1. CASE q = p
    BY <1>1, <2>1 DEF Reload, ReadCurrentAttempt, TypeInv, TypeOK, StoreTypeOK
  <2>2. CASE q # p
    <3>1. pc'[q] = pc[q]
      BY <2>2 DEF Reload, IntendNeedsHuman, Intend, TypeInv, TypeOK
    <3>2. attemptCopy'[q] = attemptCopy[q]
      BY <2>2 DEF Reload, ReadCurrentAttempt, TypeInv, TypeOK, StoreTypeOK
    <3> QED BY <3>1, <3>2 DEF TypeInv, Loaded
  <2> QED BY <2>1, <2>2
<1> QED BY <1>1, <1>3, <1>4, HerdrUnchanged, LinearUnchanged
        DEF Reload, TypeInv, TypeOK

LEMMA HerdrKept ==
  ASSUME HerdrTypeOK, NEW n \in AttemptNumber,
         AgentStep(n) \/ StartAgent(n) \/ SubmitPrompt(n) \/ AgentVanishes(n)
  PROVE  HerdrTypeOK'
<1>1. CASE StartAgent(n)
  BY <1>1 DEF HerdrTypeOK, StartAgent, AgentState
<1>2. CASE SubmitPrompt(n)
  BY <1>2 DEF HerdrTypeOK, SubmitPrompt, AgentState
<1>3. CASE AgentVanishes(n)
  BY <1>3 DEF HerdrTypeOK, AgentVanishes, AgentState
<1>4. CASE AgentMarks(n)
  BY <1>4 DEF HerdrTypeOK, AgentMarks, AttemptNumber
<1>5. CASE AgentReports(n)
  BY <1>5 DEF HerdrTypeOK, AgentReports, AttemptNumber, Manifest
<1>6. CASE AgentStops(n)
  BY <1>6 DEF HerdrTypeOK, AgentStops, AgentState
<1>7. CASE AgentBlocks(n)
  BY <1>7 DEF HerdrTypeOK, AgentBlocks, AgentState
<1>8. CASE AgentResumes(n)
  BY <1>8 DEF HerdrTypeOK, AgentResumes, AgentState
<1> QED BY <1>1, <1>2, <1>3, <1>4, <1>5, <1>6, <1>7, <1>8 DEF AgentStep

LEMMA StartTyped ==
  ASSUME TypeInv, NEW p \in Proc, Start(p)
  PROVE  TypeInv'
<1>1. pc[p] \in PhasePc /\ Copy(p) \in Attempt
  BY LoadedCopy DEF Start, PhasePc, Pc
<1>2. "EXECUTOR_STARTED" \in ExecutionEvents /\ "start_agent" \in Pc
  BY DEF ExecutionEvents, Pc
<1>3. pc' \in [Proc -> Pc] /\ intent' \in [Proc -> Intent]
  BY <1>1, <1>2, GotoType, IntendType, IntendNeedsHumanType DEF Start
<1> QED BY <1>1, <1>3, QuietTyped, HerdrUnchanged, LinearUnchanged
        DEF Start, Goto, Intend, IntendNeedsHuman, TypeInv, TypeOK

LEMMA StartNewAgentTyped ==
  ASSUME TypeInv, NEW p \in Proc, StartNewAgent(p)
  PROVE  TypeInv'
<1>1. pc[p] \in PhasePc /\ Copy(p) \in Attempt /\ Number(p) \in AttemptNumber
  BY LoadedCopy DEF StartNewAgent, PhasePc, Pc
<1>2. pc' \in [Proc -> Pc] /\ intent' \in [Proc -> Intent]
  <2>1. "prompt" \in Pc
    BY DEF Pc
  <2> QED BY <1>1, <2>1, GotoType, IntendNeedsHumanType DEF StartNewAgent
<1>3. HerdrTypeOK'
  BY <1>1, HerdrKept, HerdrUnchanged DEF StartNewAgent, TypeInv, TypeOK
<1> QED BY <1>1, <1>2, <1>3, QuietTyped, LinearUnchanged
        DEF StartNewAgent, Goto, Intend, IntendNeedsHuman, TypeInv, TypeOK

LEMMA PromptTyped ==
  ASSUME TypeInv, NEW p \in Proc, Prompt(p)
  PROVE  TypeInv'
<1>1. pc[p] \in PhasePc /\ Copy(p) \in Attempt /\ Number(p) \in AttemptNumber
  BY LoadedCopy DEF Prompt, PhasePc, Pc
<1>2. pc' \in [Proc -> Pc] /\ intent' \in [Proc -> Intent]
  <2>1. "EXECUTOR_STARTED" \in ExecutionEvents
    BY DEF ExecutionEvents
  <2> QED BY <1>1, <2>1, IntendType, IntendNeedsHumanType DEF Prompt
<1>3. HerdrTypeOK'
  BY <1>1, HerdrKept, HerdrUnchanged DEF Prompt, TypeInv, TypeOK
<1> QED BY <1>1, <1>2, <1>3, QuietTyped, LinearUnchanged
        DEF Prompt, Intend, IntendNeedsHuman, TypeInv, TypeOK

LEMMA PromptResponseLostTyped ==
  ASSUME TypeInv, NEW p \in Proc, PromptResponseLost(p)
  PROVE  TypeInv'
<1>1. pc[p] \in PhasePc /\ Copy(p) \in Attempt /\ Number(p) \in AttemptNumber
  BY LoadedCopy DEF PromptResponseLost, PhasePc, Pc
<1>2. pc' \in [Proc -> Pc] /\ intent' \in [Proc -> Intent]
  BY <1>1, IntendNeedsHumanType DEF PromptResponseLost
<1>3. HerdrTypeOK' /\ faults' \in 0..FaultBound
  BY <1>1, HerdrKept, FaultTyped DEF PromptResponseLost, TypeInv, TypeOK
<1> QED BY <1>1, <1>2, <1>3, QuietTyped, LinearUnchanged
        DEF PromptResponseLost, Intend, IntendNeedsHuman, TypeInv, TypeOK

LEMMA PollTyped ==
  ASSUME TypeInv, NEW p \in Proc, Poll(p)
  PROVE  TypeInv'
<1>1. pc[p] \in PhasePc /\ Copy(p) \in Attempt /\ Number(p) \in AttemptNumber
  BY LoadedCopy DEF Poll, PhasePc, Pc
<1>2. PICK s \in Observable(Number(p)) :
        LET seen == Observe(Copy(p), s)
        IN IF s = "blocked" \/ seen.unknowns >= UnknownThreshold
           THEN IntendNeedsHuman(p, seen)
           ELSE IF s = "terminal" THEN Intend(p, "EXECUTOR_TERMINAL", seen)
           ELSE /\ pc' = [pc EXCEPT ![p] = "record_status"]
                /\ intent' = [intent EXCEPT ![p].row = seen]
  BY DEF Poll
<1> DEFINE seen == Observe(Copy(p), s)
<1>3. s \in ObservedStatus
  BY <1>1 DEF Observable, ObservedStatus, TypeInv, TypeOK, HerdrTypeOK, AgentState
<1>4. seen \in Attempt
  <2>1. \A r \in Attempt, t \in ObservedStatus, u \in Nat :
          [r EXCEPT !.status = t, !.unknowns = u] \in Attempt
    BY DEF Attempt
  <2>2. (IF s = "unknown" THEN Copy(p).unknowns + 1 ELSE 0) \in Nat
    BY <1>1 DEF Attempt
  <2> QED BY <1>1, <1>3, <2>1, <2>2 DEF Observe
<1>5. "EXECUTOR_TERMINAL" \in ExecutionEvents
  BY DEF ExecutionEvents
<1> HIDE DEF seen
<1>6. /\ pc' \in [Proc -> Pc] /\ intent' \in [Proc -> Intent]
      /\ \A q \in Proc : q # p => pc'[q] = pc[q]
  <2>1. CASE IntendNeedsHuman(p, seen)
    BY <1>4, <2>1, IntendNeedsHumanType DEF IntendNeedsHuman, Intend, TypeInv, TypeOK
  <2>2. CASE Intend(p, "EXECUTOR_TERMINAL", seen)
    BY <1>4, <1>5, <2>2, IntendType DEF Intend, TypeInv, TypeOK
  <2>3. CASE /\ pc' = [pc EXCEPT ![p] = "record_status"]
             /\ intent' = [intent EXCEPT ![p].row = seen]
    <3>1. [intent[p] EXCEPT !.row = seen] \in Intent
      BY <1>4 DEF Intent, TypeInv, TypeOK
    <3>2. intent' = [intent EXCEPT ![p] = [intent[p] EXCEPT !.row = seen]]
      BY <2>3 DEF TypeInv, TypeOK
    <3> QED BY <2>3, <3>1, <3>2 DEF Pc, TypeInv, TypeOK
  <2> QED BY <1>2, <2>1, <2>2, <2>3 DEF seen
<1> QED BY <1>1, <1>6, QuietTyped, HerdrUnchanged, LinearUnchanged
        DEF Poll, TypeInv, TypeOK

LEMMA CollectTyped ==
  ASSUME TypeInv, NEW p \in Proc, Collect(p)
  PROVE  TypeInv'
<1>1. pc[p] \in PhasePc /\ Copy(p) \in Attempt
  BY LoadedCopy DEF Collect, PhasePc, Pc
<1>2. pc' \in [Proc -> Pc] /\ intent' \in [Proc -> Intent]
  <2>1. CASE ReportsOn(manifest, Number(p))
    <3>1. PICK verified \in Verdict(manifest.outcome) :
            LET event == NormalizedEvent(Copy(p).status, manifest.outcome,
                                         verified, Number(p))
            IN Intend(p, event, [Copy(p) EXCEPT
                 !.outcome = manifest.outcome, !.verified = verified,
                 !.retryEligible = (event = "EXECUTION_RETRYABLE")])
      BY <2>1 DEF Collect
    <3> DEFINE event == NormalizedEvent(Copy(p).status, manifest.outcome,
                                        verified, Number(p))
    <3>2. event \in ExecutionEvents
      BY DEF NormalizedEvent, ExecutionEvents
    <3>3. verified \in BOOLEAN /\ manifest.outcome \in Outcome \cup {"none"}
      BY DEF Verdict, TypeInv, TypeOK, HerdrTypeOK, Manifest
    <3> HIDE DEF event
    <3>4. (event = "EXECUTION_RETRYABLE") \in BOOLEAN
      OBVIOUS
    <3>5. \A r \in Attempt, o \in Outcome \cup {"none"}, v \in BOOLEAN, e \in BOOLEAN :
            [r EXCEPT !.outcome = o, !.verified = v, !.retryEligible = e] \in Attempt
      BY DEF Attempt
    <3>6. [Copy(p) EXCEPT !.outcome = manifest.outcome, !.verified = verified,
             !.retryEligible = (event = "EXECUTION_RETRYABLE")] \in Attempt
      BY <1>1, <3>3, <3>4, <3>5
    <3> QED BY <3>1, <3>2, <3>6, IntendType DEF event
  <2>2. CASE ~ReportsOn(manifest, Number(p))
    BY <1>1, <2>2, IntendNeedsHumanType DEF Collect
  <2> QED BY <2>1, <2>2
<1> QED BY <1>1, <1>2, QuietTyped, HerdrUnchanged, LinearUnchanged
        DEF Collect, Intend, IntendNeedsHuman, TypeInv, TypeOK

LEMMA FindCommentTyped ==
  ASSUME TypeInv, NEW p \in Proc, FindComment(p)
  PROVE  TypeInv'
<1>1. pc' \in [Proc -> Pc] /\ intent' \in [Proc -> Intent]
  <2>1. "labels" \in Pc /\ "comment" \in Pc
    BY DEF Pc
  <2> QED BY <2>1, GotoType DEF FindComment
<1> QED BY <1>1, QuietTyped, HerdrUnchanged, LinearUnchanged
        DEF FindComment, Goto, PhasePc, Pc, TypeInv, TypeOK

\* The two ways a comment comes to be.
LEMMA OneMoreComment ==
  ASSUME TypeInv, NEW p \in Proc, Number(p) \in AttemptNumber,
         comments' = [comments EXCEPT ![Number(p)] = @ + 1]
  PROVE  comments' \in [AttemptNumber -> Nat]
BY DEF TypeInv, TypeOK

LEMMA CreateCommentTyped ==
  ASSUME TypeInv, NEW p \in Proc, CreateComment(p)
  PROVE  TypeInv'
<1>1. pc[p] \in PhasePc /\ Number(p) \in AttemptNumber
  BY LoadedCopy DEF CreateComment, PhasePc, Pc
<1>2. pc' \in [Proc -> Pc] /\ intent' \in [Proc -> Intent]
  BY GotoType DEF CreateComment, Pc
<1> QED BY <1>1, <1>2, OneMoreComment, QuietTyped, HerdrUnchanged
        DEF CreateComment, Goto, TypeInv, TypeOK

LEMMA CommentResponseLostTyped ==
  ASSUME TypeInv, NEW p \in Proc, CommentResponseLost(p)
  PROVE  TypeInv'
<1>1. pc[p] \in PhasePc /\ Number(p) \in AttemptNumber
  BY LoadedCopy DEF CommentResponseLost, PhasePc, Pc
<1>2. pc' \in [Proc -> Pc] /\ intent' \in [Proc -> Intent]
  BY GotoType DEF CommentResponseLost, Pc
<1>3. faults' \in 0..FaultBound
  BY FaultTyped DEF CommentResponseLost
<1> QED BY <1>1, <1>2, <1>3, OneMoreComment, QuietTyped, HerdrUnchanged
        DEF CommentResponseLost, Goto, TypeInv, TypeOK

LEMMA ApplyLabelsTyped ==
  ASSUME TypeInv, NEW p \in Proc, ApplyLabels(p)
  PROVE  TypeInv'
<1>1. pc[p] \in PhasePc /\ LabelOf(Copy(p).state) \in GateLabel
  BY DEF ApplyLabels, PhasePc, Pc, LabelOf, GateLabel
<1>2. pc' \in [Proc -> Pc] /\ intent' \in [Proc -> Intent]
  BY GotoType DEF ApplyLabels, Pc
<1> QED BY <1>1, <1>2, QuietTyped, HerdrUnchanged
        DEF ApplyLabels, Goto, TypeInv, TypeOK

LEMMA FenceRejectedTyped ==
  ASSUME TypeInv, NEW p \in Proc, FenceRejected(p)
  PROVE  TypeInv'
<1>1. pc' \in [Proc -> Pc] /\ intent' \in [Proc -> Intent]
  BY NoIntentTyped DEF FenceRejected, Pc, TypeInv, TypeOK
<1>2. pc'[p] \notin PhasePc /\ \A q \in Proc : q # p => pc'[q] = pc[q]
  BY DEF FenceRejected, PhasePc, TypeInv, TypeOK
<1> QED BY <1>1, <1>2, QuietTyped, HerdrUnchanged, LinearUnchanged
        DEF FenceRejected, TypeInv, TypeOK

LEMMA ThrowsTyped ==
  ASSUME TypeInv, NEW p \in Proc, Throws(p)
  PROVE  TypeInv'
<1>1. pc' \in [Proc -> Pc] /\ intent' \in [Proc -> Intent]
  BY GotoType DEF Throws, Pc
<1>2. pc'[p] \notin PhasePc /\ \A q \in Proc : q # p => pc'[q] = pc[q]
  BY DEF Throws, Goto, PhasePc, TypeInv, TypeOK
<1>3. faults' \in 0..FaultBound
  BY FaultTyped DEF Throws
<1> QED BY <1>1, <1>2, <1>3, QuietTyped, HerdrUnchanged, LinearUnchanged
        DEF Throws, TypeInv, TypeOK

LEMMA ThrowsCaughtTyped ==
  ASSUME TypeInv, NEW p \in Proc, ThrowsCaught(p)
  PROVE  TypeInv'
<1>1. pc[p] \in PhasePc /\ Copy(p) \in Attempt
  BY LoadedCopy DEF ThrowsCaught, PhasePc, Pc
<1>2. pc' \in [Proc -> Pc] /\ intent' \in [Proc -> Intent]
  BY <1>1, IntendNeedsHumanType DEF ThrowsCaught
<1>3. faults' \in 0..FaultBound
  BY FaultTyped DEF ThrowsCaught
<1> QED BY <1>1, <1>2, <1>3, QuietTyped, HerdrUnchanged, LinearUnchanged
        DEF ThrowsCaught, Intend, IntendNeedsHuman, TypeInv, TypeOK

LEMMA CrashTyped ==
  ASSUME TypeInv, NEW p \in Proc, Crash(p)
  PROVE  TypeInv'
<1>1. StoreTypeOK'
  BY ForgetCopiesType DEF Crash, TypeInv, TypeOK, StoreTypeOK
<1>2. pc' \in [Proc -> Pc] /\ intent' \in [Proc -> Intent]
  BY NoIntentTyped DEF Crash, Pc, TypeInv, TypeOK
<1>3. Loaded'
  BY DEF Crash, ForgetCopies, TypeInv, TypeOK, StoreTypeOK, Loaded, PhasePc
<1>4. faults' \in 0..FaultBound
  BY FaultTyped DEF Crash
<1> QED BY <1>1, <1>2, <1>3, <1>4, HerdrUnchanged, LinearUnchanged
        DEF Crash, TypeInv, TypeOK

LEMMA LeaseLapsesTyped ==
  ASSUME TypeInv, LeaseLapses, faults' \in 0..FaultBound
  PROVE  TypeInv'
<1>1. work' \in Work
  BY DEF LeaseLapses, Work, TypeInv, TypeOK, StoreTypeOK
<1> QED BY <1>1, HerdrUnchanged, LinearUnchanged
        DEF LeaseLapses, TypeInv, TypeOK, StoreTypeOK, Loaded

LEMMA AgentsTyped ==
  ASSUME TypeInv, NEW n \in AttemptNumber, Agents(n) \/ Vanish(n)
  PROVE  TypeInv'
<1>1. HerdrTypeOK'
  BY HerdrKept DEF Agents, Vanish, TypeInv, TypeOK
<1>2. faults' \in 0..FaultBound
  BY FaultTyped DEF Agents, Vanish, TypeInv, TypeOK
<1>3. StoreTypeOK' /\ Loaded'
  BY DEF Agents, Vanish, storeVars, TypeInv, TypeOK, StoreTypeOK, Loaded
<1> QED BY <1>1, <1>2, <1>3, LinearUnchanged DEF Agents, Vanish, TypeInv, TypeOK

LEMMA RunStepTyped ==
  ASSUME TypeInv, NEW p \in Proc, RunStep(p)
  PROVE  TypeInv'
BY LoadNothingTyped, LoadAttemptTyped, ReleaseTyped, ClearGateLabelsTyped,
   CreateTyped, RecordWorkspaceTyped, ProvisionTyped, PreflightTyped, ReloadTyped,
   RecordHandleTyped, StartTyped, StartNewAgentTyped, PromptTyped, PollTyped,
   RecordStatusTyped, CollectTyped, CommitTyped, RecordPendingTyped,
   FindCommentTyped, CreateCommentTyped, ApplyLabelsTyped, RecordAppliedTyped,
   FenceRejectedTyped
DEF RunStep

LEMMA RunFaultTyped ==
  ASSUME TypeInv, NEW p \in Proc, RunFault(p)
  PROVE  TypeInv'
BY PromptResponseLostTyped, CommentResponseLostTyped, ThrowsTyped,
   ThrowsCaughtTyped, CrashTyped
DEF RunFault

LEMMA TypeStep == TypeInv /\ [Next]_vars => TypeInv'
<1> SUFFICES ASSUME TypeInv, [Next]_vars PROVE TypeInv'
  OBVIOUS
<1>1. CASE \E p \in Proc : Acquire(p) \/ RunStep(p) \/ RunFault(p)
  BY <1>1, AcquireTyped, RunStepTyped, RunFaultTyped
<1>2. CASE \E n \in AttemptNumber : Agents(n) \/ Vanish(n)
  BY <1>2, AgentsTyped
<1>3. CASE Expire \/ Lapse
  <2>1. faults' \in 0..FaultBound /\ LeaseLapses
    BY <1>3, FaultTyped DEF Expire, Lapse, TypeInv, TypeOK
  <2> QED BY <2>1, LeaseLapsesTyped
<1>4. CASE UNCHANGED vars
  BY <1>4 DEF vars, storeVars, herdrVars, linearVars, TypeInv, TypeOK, Loaded,
              StoreTypeOK, HerdrTypeOK
<1> QED BY <1>1, <1>2, <1>3, <1>4 DEF Next

\* Every variable keeps its type, whatever the runs, the agents, the clock and
\* the faults do; and a run that is in a phase holds a loaded attempt, so that
\* each of its writes names a row of mastermind_execution_attempts.
THEOREM TypeCorrect == Spec => []TypeOK
<1>1. TypeInv => TypeOK
  BY DEF TypeInv
<1> QED BY <1>1, InitType, TypeStep, PTL DEF Spec
====
