------------------------ MODULE ExecutionCoordinator ------------------------
(***************************************************************************)
(* MastermindExecutionCoordinator (src/mastermind/execution): runs of      *)
(* process(workId), possibly several at once, drive one work item from a   *)
(* planned action to a settled, projected execution.  A run claims the     *)
(* lease, performs one bounded phase and releases it.  Every await of a    *)
(* phase ends a step, so that other runs, the agents and the clock move    *)
(* between what a run observed and what it writes.                         *)
(*                                                                         *)
(* The optional code review and self-improvement collaborators are not     *)
(* configured.                                                             *)
(***************************************************************************)
EXTENDS MastermindStore, HerdrExecutor

CONSTANTS
  MaxAttempts,        \* execution.maxAttempts
  UnknownThreshold,   \* execution.unknownStatusThreshold
  FaultKinds,         \* the faults that may happen
  FaultBound          \* bound of the model: how many of them

\* crash: a process dies.  lapse: a lease expires under a run that is alive
\* (its heartbeat stopped renewing).  error: an external call throws, before or
\* after it took effect.  vanish: an agent's pane is lost.
Fault == {"crash", "lapse", "error", "vanish"}

ASSUME CoordinatorAssumption ==
  /\ MaxAttempts \in 1..AttemptBound
  /\ UnknownThreshold \in Nat \ {0}
  /\ FaultKinds \subseteq Fault
  /\ FaultBound \in Nat

VARIABLES
  pc,         \* pc[p]: the call run p makes next
  intent,     \* intent[p]: the event and the row run p is about to commit
  comments,   \* comments[n]: terminal comments with attempt n's marker in Linear
  gate,       \* the execution gate label of the issue
  faults      \* faults so far

linearVars == <<comments, gate>>
vars == <<storeVars, herdrVars, pc, intent, linearVars, faults>>

\* The phase a run performs, named by its next call.
Pc == {"idle", "leased", "begin", "retry", "create", "record_workspace",
       "provision", "preflight", "reload", "record_handle", "start",
       "start_agent", "prompt", "poll", "record_status", "collect", "commit",
       "record_pending", "find", "comment", "labels", "record_applied", "release"}

NoIntent == [event |-> "none", row |-> AbsentAttempt]
Intent == [event: ExecutionEvents \cup {"none"}, row: Attempt]

\* The label of each disposition: none of the three when it succeeded.
GateLabel == {"none", "ready", "needs_input", "failed"}
LabelOf(state) == CASE state = "needs_human" -> "needs_input"
                    [] state = "failed" -> "failed"
                    [] OTHER -> "none"

TypeOK ==
  /\ StoreTypeOK
  /\ HerdrTypeOK
  /\ pc \in [Proc -> Pc]
  /\ intent \in [Proc -> Intent]
  /\ comments \in [AttemptNumber -> Nat]
  /\ gate \in GateLabel
  /\ faults \in 0..FaultBound

\* The decision loop has planned an action and left the ready label.
Init ==
  /\ \E planned \in {"execute", "wait"} :
       work = [state |-> "action_planned", planned |-> planned, current |-> 0,
               owner |-> NoOwner, live |-> FALSE]
  /\ attempts = [n \in AttemptNumber |-> AbsentAttempt]
  /\ lastAttempt = 0
  /\ workCopy = [p \in Proc |-> NoWorkCopy]
  /\ attemptCopy = [p \in Proc |-> NoAttemptCopy]
  /\ HerdrInit
  /\ pc = [p \in Proc |-> "idle"]
  /\ intent = [p \in Proc |-> NoIntent]
  /\ comments = [n \in AttemptNumber |-> 0]
  /\ gate = "ready"
  /\ faults = 0

-----------------------------------------------------------------------------
(* Moves of a run *)

Copy(p) == attemptCopy[p].row
Number(p) == attemptCopy[p].n

Goto(p, label) == pc' = [pc EXCEPT ![p] = label] /\ UNCHANGED intent

\* Go on to commit an event with the row the patch leaves.
Intend(p, event, row) ==
  /\ pc' = [pc EXCEPT ![p] = "commit"]
  /\ intent' = [intent EXCEPT ![p] = [event |-> event, row |-> row]]

\* toNeedsHuman
NeedsHuman(row) == [event |-> "EXECUTION_NEEDS_HUMAN",
                    row |-> [row EXCEPT !.retryEligible = FALSE]]
IntendNeedsHuman(p, row) == Intend(p, NeedsHuman(row).event, NeedsHuman(row).row)

FaultHappens(kind) ==
  /\ kind \in FaultKinds
  /\ faults < FaultBound
  /\ faults' = faults + 1

-----------------------------------------------------------------------------
(* process and processPhase: claim, load, dispatch, release *)

Acquire(p) ==
  /\ pc[p] = "idle"
  /\ AcquireLease(p)
  /\ Goto(p, "leased")
  /\ UNCHANGED <<attemptCopy, herdrVars, linearVars, faults>>

\* beginExecution returns at once unless the planned action is executable.
EntryOfPlanned(p) == IF workCopy[p].planned = "execute" THEN "begin" ELSE "release"

\* The conditions under which a phase only records that it cannot run.
Defective(row, n) ==
  \/ row.state = "launching" /\ ~row.preflight
  \/ row.state \in {"running", "collecting"} /\ ~row.handle
  \/ row.state = "collecting" /\ row.status = "none"
  \/ row.state = "retry_wait" /\ (~row.retryEligible \/ n >= MaxAttempts)

\* Mutant: the executor is asked before the launch intent is recorded.
PhaseOf_StartsAtOnce(row) ==
  CASE row.state = "provisioning" ->
         IF row.workspace THEN "provision" ELSE "record_workspace"
    [] row.state = "preflighting" -> "preflight"
    [] row.state = "launching" -> "start"
    [] row.state = "running" -> "poll"
    [] row.state = "collecting" -> "collect"
    [] row.state = "retry_wait" -> "retry"
    [] OTHER -> "release"

\* processAttemptPhase, as far as the first call of each phase.
PhaseOf(row) ==
  CASE row.state = "provisioning" ->
         IF row.workspace THEN "provision" ELSE "record_workspace"
    [] row.state = "preflighting" -> "preflight"
    [] row.state = "launching" -> IF row.handle THEN "start" ELSE "record_handle"
    [] row.state = "running" -> "poll"
    [] row.state = "collecting" -> "collect"
    [] row.state = "retry_wait" -> "retry"
    [] row.state \in SettledExecutionStates ->
         CASE row.projection = "none" -> "record_pending"
           [] row.projection = "pending" -> "find"
           [] OTHER -> "release"
    [] OTHER -> "release"

LoadNothing(p) ==
  /\ pc[p] = "leased"
  /\ work.current = 0
  /\ Goto(p, IF workCopy[p].state = "action_planned"
             THEN EntryOfPlanned(p) ELSE "release")
  /\ UNCHANGED <<storeVars, herdrVars, linearVars, faults>>

LoadAttempt(p) ==
  LET row == attempts[work.current]
  IN /\ pc[p] = "leased"
     /\ ReadCurrentAttempt(p)
     /\ IF workCopy[p].state = "action_planned" THEN Goto(p, EntryOfPlanned(p))
        ELSE IF workCopy[p].current # work.current THEN Goto(p, "release")
        ELSE IF Defective(row, work.current) THEN IntendNeedsHuman(p, row)
        ELSE Goto(p, PhaseOf(row))
     /\ UNCHANGED <<work, attempts, lastAttempt, workCopy, herdrVars, linearVars, faults>>

\* The finally clause of process.
Release(p) ==
  /\ pc[p] = "release"
  /\ ReleaseLease(p)
  /\ ForgetCopies(p)
  /\ Goto(p, "idle")
  /\ UNCHANGED <<herdrVars, linearVars, faults>>

-----------------------------------------------------------------------------
(* beginExecution and retry *)

\* Both clear the gate labels and then create the next attempt.
ClearGateLabels(p) ==
  /\ pc[p] \in {"begin", "retry"}
  /\ gate' = "none"
  /\ Goto(p, "create")
  /\ UNCHANGED <<storeVars, herdrVars, comments, faults>>

Create(p) ==
  /\ pc[p] = "create"
  /\ CreateExecutionAttempt(p, "execute")
  /\ Goto(p, "release")
  /\ UNCHANGED <<herdrVars, linearVars, faults>>

-----------------------------------------------------------------------------
(* provision *)

RecordWorkspace(p) ==
  /\ pc[p] = "record_workspace"
  /\ PatchExecutionAttempt(p, [Copy(p) EXCEPT !.workspace = TRUE])
  /\ Goto(p, "provision")
  /\ UNCHANGED <<herdrVars, linearVars, faults>>

Provision(p) ==
  /\ pc[p] = "provision"
  /\ Intend(p, "WORKSPACE_PROVISIONED", Copy(p))
  /\ UNCHANGED <<storeVars, herdrVars, linearVars, faults>>

-----------------------------------------------------------------------------
(* preflight *)

Preflight(p) ==
  /\ pc[p] = "preflight"
  /\ \E accepted \in BOOLEAN :
       intent' = [intent EXCEPT ![p] =
         IF accepted
         THEN [event |-> "PREFLIGHT_PASSED", row |-> [Copy(p) EXCEPT !.preflight = TRUE]]
         ELSE NeedsHuman(Copy(p))]
  /\ pc' = [pc EXCEPT ![p] = "reload"]
  /\ UNCHANGED <<storeVars, herdrVars, linearVars, faults>>

\* requireCurrentAttempt: the report is committed against the row as it is
\* now, if that is still the same attempt; it throws otherwise.
Reload(p) ==
  LET row == attempts[work.current]
  IN /\ pc[p] = "reload"
     /\ ReadCurrentAttempt(p)
     /\ IF Number(p) # work.current
        THEN /\ pc' = [pc EXCEPT ![p] = "release"]
             /\ intent' = [intent EXCEPT ![p] = NoIntent]
        ELSE IF intent[p].event = "PREFLIGHT_PASSED"
        THEN Intend(p, "PREFLIGHT_PASSED", [row EXCEPT !.preflight = TRUE])
        ELSE IntendNeedsHuman(p, row)
     /\ UNCHANGED <<work, attempts, lastAttempt, workCopy, herdrVars, linearVars, faults>>

-----------------------------------------------------------------------------
(* launch *)

\* The launch intent is durable before the executor is asked for anything.
RecordHandle(p) ==
  /\ pc[p] = "record_handle"
  /\ PatchExecutionAttempt(p, [Copy(p) EXCEPT !.handle = TRUE])
  /\ Goto(p, "start")
  /\ UNCHANGED <<herdrVars, linearVars, faults>>

\* Mutant: an agent found under the name is prompted, whatever it was told before.
Start_PromptsAgain(p) ==
  /\ pc[p] = "start"
  /\ Goto(p, IF agent[Number(p)] = "absent" THEN "start_agent" ELSE "prompt")
  /\ UNCHANGED <<storeVars, herdrVars, linearVars, faults>>

\* tryGetAgent: start a new agent, or adopt the one that bears the name unless
\* it is ambiguous whether it was prompted.
Start(p) ==
  /\ pc[p] = "start"
  /\ IF agent[Number(p)] = "absent" THEN Goto(p, "start_agent")
     ELSE IF Ambiguous(Number(p)) THEN IntendNeedsHuman(p, Copy(p))
     ELSE Intend(p, "EXECUTOR_STARTED", Copy(p))
  /\ UNCHANGED <<storeVars, herdrVars, linearVars, faults>>

\* startAgentWhenPaneReady; the name may have been taken since tryGetAgent.
StartNewAgent(p) ==
  /\ pc[p] = "start_agent"
  /\ IF agent[Number(p)] = "absent"
     THEN StartAgent(Number(p)) /\ Goto(p, "prompt")
     ELSE IntendNeedsHuman(p, Copy(p)) /\ UNCHANGED herdrVars
  /\ UNCHANGED <<storeVars, linearVars, faults>>

Prompt(p) ==
  /\ pc[p] = "prompt"
  /\ IF agent[Number(p)] # "absent"
     THEN SubmitPrompt(Number(p)) /\ Intend(p, "EXECUTOR_STARTED", Copy(p))
     ELSE IntendNeedsHuman(p, Copy(p)) /\ UNCHANGED herdrVars
  /\ UNCHANGED <<storeVars, linearVars, faults>>

\* The agent took the prompt, but the command timed out or failed.
PromptResponseLost(p) ==
  /\ pc[p] = "prompt"
  /\ FaultHappens("error")
  /\ SubmitPrompt(Number(p))
  /\ IntendNeedsHuman(p, Copy(p))
  /\ UNCHANGED <<storeVars, linearVars>>

-----------------------------------------------------------------------------
(* poll *)

Observe(row, s) ==
  [row EXCEPT !.status = s,
              !.unknowns = IF s = "unknown" THEN row.unknowns + 1 ELSE 0]

Poll(p) ==
  /\ pc[p] = "poll"
  /\ \E s \in Observable(Number(p)) :
       LET seen == Observe(Copy(p), s)
       IN IF s = "blocked" \/ seen.unknowns >= UnknownThreshold
          THEN IntendNeedsHuman(p, seen)
          ELSE IF s = "terminal" THEN Intend(p, "EXECUTOR_TERMINAL", seen)
          ELSE /\ pc' = [pc EXCEPT ![p] = "record_status"]
               /\ intent' = [intent EXCEPT ![p].row = seen]
  /\ UNCHANGED <<storeVars, herdrVars, linearVars, faults>>

RecordStatus(p) ==
  /\ pc[p] = "record_status"
  /\ PatchExecutionAttempt(p, intent[p].row)
  /\ pc' = [pc EXCEPT ![p] = "release"]
  /\ intent' = [intent EXCEPT ![p] = NoIntent]
  /\ UNCHANGED <<herdrVars, linearVars, faults>>

-----------------------------------------------------------------------------
(* collect and runIndependentVerification *)

\* Mutant: the executor's word is enough.
NormalizedEvent_TrustsResult(status, outcome, verified, n) ==
  IF status # "terminal" THEN "EXECUTION_NEEDS_HUMAN"
  ELSE CASE outcome = "succeeded" -> "EXECUTION_SUCCEEDED"
         [] outcome = "retryable-failure" /\ n < MaxAttempts -> "EXECUTION_RETRYABLE"
         [] outcome = "terminal-failure" -> "EXECUTION_FAILED"
         [] OTHER -> "EXECUTION_NEEDS_HUMAN"

\* Mutant: the last attempt may be retried.
NormalizedEvent_OneMore(status, outcome, verified, n) ==
  IF status # "terminal" THEN "EXECUTION_NEEDS_HUMAN"
  ELSE CASE outcome = "succeeded" /\ verified -> "EXECUTION_SUCCEEDED"
         [] outcome = "retryable-failure" /\ n <= MaxAttempts -> "EXECUTION_RETRYABLE"
         [] outcome = "terminal-failure" -> "EXECUTION_FAILED"
         [] OTHER -> "EXECUTION_NEEDS_HUMAN"

\* normalizeExecutionOutcome, as the event it chooses.
NormalizedEvent(status, outcome, verified, n) ==
  IF status # "terminal" THEN "EXECUTION_NEEDS_HUMAN"
  ELSE CASE outcome = "succeeded" /\ verified -> "EXECUTION_SUCCEEDED"
         [] outcome = "retryable-failure" /\ n < MaxAttempts -> "EXECUTION_RETRYABLE"
         [] outcome = "terminal-failure" -> "EXECUTION_FAILED"
         [] OTHER -> "EXECUTION_NEEDS_HUMAN"

\* The verdict of the independent verification, which matters to a reported
\* success only.
Verdict(outcome) == IF outcome = "succeeded" THEN BOOLEAN ELSE {FALSE}

\* Anything but this attempt's manifest is a collection failure.
Collect(p) ==
  /\ pc[p] = "collect"
  /\ IF ReportsOn(manifest, Number(p))
     THEN \E verified \in Verdict(manifest.outcome) :
            LET event == NormalizedEvent(Copy(p).status, manifest.outcome,
                                         verified, Number(p))
            IN Intend(p, event, [Copy(p) EXCEPT
                 !.outcome = manifest.outcome, !.verified = verified,
                 !.retryEligible = (event = "EXECUTION_RETRYABLE")])
     ELSE IntendNeedsHuman(p, Copy(p))
  /\ UNCHANGED <<storeVars, herdrVars, linearVars, faults>>

-----------------------------------------------------------------------------
(* transition *)

Commit(p) ==
  /\ pc[p] = "commit"
  /\ TransitionExecutionAttempt(p, intent[p].event, intent[p].row)
  /\ pc' = [pc EXCEPT ![p] = "release"]
  /\ intent' = [intent EXCEPT ![p] = NoIntent]
  /\ UNCHANGED <<herdrVars, linearVars, faults>>

-----------------------------------------------------------------------------
(* project *)

\* Mutant: the projection is recorded as applied before it is made.
RecordPending_AsApplied(p) ==
  /\ pc[p] = "record_pending"
  /\ SaveExecutionProjection(p, "applied")
  /\ Goto(p, "find")
  /\ UNCHANGED <<herdrVars, linearVars, faults>>

RecordPending(p) ==
  /\ pc[p] = "record_pending"
  /\ SaveExecutionProjection(p, "pending")
  /\ Goto(p, "find")
  /\ UNCHANGED <<herdrVars, linearVars, faults>>

\* Mutant: the comment is created without looking for the marker.
FindComment_Skipped(p) ==
  /\ pc[p] = "find"
  /\ Goto(p, "comment")
  /\ UNCHANGED <<storeVars, herdrVars, linearVars, faults>>

\* Mutant: a comment that exists is taken for a complete projection.
FindComment_SkipsLabels(p) ==
  /\ pc[p] = "find"
  /\ Goto(p, IF comments[Number(p)] > 0 THEN "record_applied" ELSE "comment")
  /\ UNCHANGED <<storeVars, herdrVars, linearVars, faults>>

\* findIssueCommentByMarker
FindComment(p) ==
  /\ pc[p] = "find"
  /\ Goto(p, IF comments[Number(p)] > 0 THEN "labels" ELSE "comment")
  /\ UNCHANGED <<storeVars, herdrVars, linearVars, faults>>

CreateComment(p) ==
  /\ pc[p] = "comment"
  /\ comments' = [comments EXCEPT ![Number(p)] = @ + 1]
  /\ Goto(p, "labels")
  /\ UNCHANGED <<storeVars, herdrVars, gate, faults>>

\* The comment exists, but its creation threw.
CommentResponseLost(p) ==
  /\ pc[p] = "comment"
  /\ FaultHappens("error")
  /\ comments' = [comments EXCEPT ![Number(p)] = @ + 1]
  /\ Goto(p, "release")
  /\ UNCHANGED <<storeVars, herdrVars, gate>>

ApplyLabels(p) ==
  /\ pc[p] = "labels"
  /\ gate' = LabelOf(Copy(p).state)
  /\ Goto(p, "record_applied")
  /\ UNCHANGED <<storeVars, herdrVars, comments, faults>>

RecordApplied(p) ==
  /\ pc[p] = "record_applied"
  /\ SaveExecutionProjection(p, "applied")
  /\ Goto(p, "release")
  /\ UNCHANGED <<herdrVars, linearVars, faults>>

-----------------------------------------------------------------------------
(* Failures *)

\* A write whose fence does not match throws; no caller retries it with
\* anything but the same copies, so the run ends.
FenceRejected(p) ==
  /\ CASE pc[p] = "create" -> ~CreationFence(p, "execute")
       [] pc[p] \in {"record_pending", "record_applied"} -> ~ProjectionFence(p)
       [] pc[p] \in {"record_workspace", "record_handle", "record_status"} ->
            ~AttemptFence(p)
       [] pc[p] = "commit" ->
            ~AttemptFence(p) \/ ~Accepts(Copy(p).state, intent[p].event)
       [] OTHER -> FALSE
  /\ pc' = [pc EXCEPT ![p] = "release"]
  /\ intent' = [intent EXCEPT ![p] = NoIntent]
  /\ UNCHANGED <<storeVars, herdrVars, linearVars, faults>>

\* A call outside any try throws before it takes effect.
Throws(p) ==
  /\ pc[p] \in {"begin", "retry", "preflight", "find", "comment", "labels"}
  /\ FaultHappens("error")
  /\ Goto(p, "release")
  /\ UNCHANGED <<storeVars, herdrVars, linearVars>>

\* A call inside the try of provision, launch or collect throws.
ThrowsCaught(p) ==
  /\ pc[p] \in {"record_workspace", "provision", "start", "start_agent", "prompt",
                "collect"}
  /\ FaultHappens("error")
  /\ IntendNeedsHuman(p, Copy(p))
  /\ UNCHANGED <<storeVars, herdrVars, linearVars>>

\* The process dies.  Its lease, its agent and its comments stay.
Crash(p) ==
  /\ pc[p] # "idle"
  /\ FaultHappens("crash")
  /\ ForgetCopies(p)
  /\ pc' = [pc EXCEPT ![p] = "idle"]
  /\ intent' = [intent EXCEPT ![p] = NoIntent]
  /\ UNCHANGED <<work, attempts, lastAttempt, herdrVars, linearVars>>

\* Some run renews this lease: renewLease only asks for the owner.
Renewed == \E p \in Proc : HoldsLease(p) /\ pc[p] # "idle"

LeaseLapses ==
  /\ work' = [work EXCEPT !.live = FALSE]
  /\ UNCHANGED <<attempts, lastAttempt, workCopy, attemptCopy, herdrVars, pc,
                 intent, linearVars>>

\* The lease of a run that died lapses by itself.
Expire == work.live /\ ~Renewed /\ LeaseLapses /\ UNCHANGED faults

\* The lease of a live run lapses: one failed renewal stops its heartbeat.
Lapse == work.live /\ Renewed /\ FaultHappens("lapse") /\ LeaseLapses

Vanish(n) ==
  /\ FaultHappens("vanish")
  /\ AgentVanishes(n)
  /\ UNCHANGED <<storeVars, pc, intent, linearVars>>

-----------------------------------------------------------------------------

\* What run p does next, left to itself.
RunStep(p) ==
  \/ LoadNothing(p) \/ LoadAttempt(p) \/ Release(p)
  \/ ClearGateLabels(p) \/ Create(p)
  \/ RecordWorkspace(p) \/ Provision(p)
  \/ Preflight(p) \/ Reload(p)
  \/ RecordHandle(p) \/ Start(p) \/ StartNewAgent(p) \/ Prompt(p)
  \/ Poll(p) \/ RecordStatus(p)
  \/ Collect(p)
  \/ Commit(p)
  \/ RecordPending(p) \/ FindComment(p) \/ CreateComment(p) \/ ApplyLabels(p)
  \/ RecordApplied(p)
  \/ FenceRejected(p)

RunFault(p) ==
  \/ PromptResponseLost(p) \/ CommentResponseLost(p)
  \/ Throws(p) \/ ThrowsCaught(p) \/ Crash(p)

Agents(n) ==
  AgentStep(n) /\ UNCHANGED <<storeVars, pc, intent, linearVars, faults>>

Next ==
  \/ \E p \in Proc : Acquire(p) \/ RunStep(p) \/ RunFault(p)
  \/ \E n \in AttemptNumber : Agents(n) \/ Vanish(n)
  \/ Expire \/ Lapse

Spec == Init /\ [][Next]_vars

\* The service's timer polls listLaunchableExecutionWorkIds and
\* listRecoverableExecutions and runs process for what they list; a run goes
\* on until it ends; the clock advances; an agent that keeps working
\* eventually stops.
Dispatch == (Launchable \/ Recoverable) /\ \E p \in Proc : Acquire(p)

AgentHalts(n) ==
  AgentStops(n) /\ UNCHANGED <<storeVars, pc, intent, linearVars, faults>>

Fairness ==
  /\ WF_vars(Dispatch)
  /\ \A p \in Proc : WF_vars(RunStep(p))
  /\ WF_vars(Expire)
  /\ \A n \in AttemptNumber : SF_vars(AgentHalts(n))

FairSpec == Spec /\ Fairness

-----------------------------------------------------------------------------
(* Safety *)

Settled == work.state \in SettledExecutionStates

\* Of all runs, at most one passes the fence of the work row: a run whose lease
\* was taken over can no longer write, even if the new owner has its name.
OneFencedWriter ==
  \A p, q \in Proc : WorkFence(p) /\ WorkFence(q) => p = q

\* transitionExecutionAttempt and createExecutionAttempt keep the work item and
\* its current attempt in the same state.
AttemptAgreement ==
  IF work.current = 0 THEN work.state = "action_planned"
  ELSE attempts[work.current].state = work.state

\* Attempts are numbered from 1 without a gap up to the limit, the last one is
\* current, and every earlier one was set aside for a retry it was entitled to.
AttemptHistory ==
  /\ work.current = lastAttempt
  /\ lastAttempt <= MaxAttempts
  /\ \A n \in AttemptNumber :
       /\ attempts[n].state = "absent" <=> n > lastAttempt
       /\ n < lastAttempt => /\ attempts[n].state = "retry_wait"
                             /\ attempts[n].retryEligible

\* Success is never declared on the executor's word: the attempt has a
\* workspace, an accepted preflight, a handle, a terminal status, a successful
\* result and a passing independent verification, all in the same row.
EvidencedSuccess ==
  \A n \in AttemptNumber : attempts[n].state = "succeeded" =>
    /\ attempts[n].workspace /\ attempts[n].preflight /\ attempts[n].handle
    /\ attempts[n].status = "terminal"
    /\ attempts[n].outcome = "succeeded"
    /\ attempts[n].verified

\* An agent exists only for an attempt whose accepted preflight and launch
\* intent were committed first: after a crash the agent can always be found.
IntentBeforeAgent ==
  \A n \in AttemptNumber : agent[n] # "absent" =>
    attempts[n].preflight /\ attempts[n].handle

\* No two agents work in the work item's single worktree.
OneAgentAtWork ==
  \A m, n \in AttemptNumber :
    agent[m] \in {"working", "blocked"} /\ agent[n] \in {"working", "blocked"} => m = n

\* The implementation prompt of an attempt is submitted at most once
\* (docs/adr/0009-mastermind-durable-control-plane.md: "Prompt-dispatch
\* ambiguity fails closed rather than resubmitting an implementation prompt").
PromptAtMostOnce == \A n \in AttemptNumber : prompts[n] <= 1

\* An attempt is announced only once it is settled, and its projection counts
\* as applied only if the comment exists.
CommentTellsTheEnd ==
  \A n \in AttemptNumber :
    /\ comments[n] > 0 => attempts[n].state \in SettledExecutionStates
    /\ attempts[n].projection = "applied" => comments[n] > 0

\* The marker makes the terminal comment unique (the ADR: "one idempotent
\* terminal comment and label projection using an attempt marker").
OneTerminalComment == \A n \in AttemptNumber : comments[n] <= 1

\* Once the projection of the current attempt is applied, the label in Linear
\* is the one of its state.
GateLabelMatches ==
  work.current # 0 /\ attempts[work.current].projection = "applied"
    => gate = LabelOf(work.state)

-----------------------------------------------------------------------------
(* What a step may never do *)

\* A settled attempt keeps its state, result and evidence: stale runs cannot
\* rewrite it.
SettledIsFinal ==
  [][\A n \in AttemptNumber : attempts[n].state \in SettledExecutionStates =>
       [attempts'[n] EXCEPT !.projection = attempts[n].projection] = attempts[n]]_vars

\* No step loses the evidence a row holds: every column a phase recorded
\* survives the patches and transitions of later phases and of other runs.
EvidenceIsKept ==
  [][\A n \in AttemptNumber :
       /\ attempts[n].workspace => attempts'[n].workspace
       /\ attempts[n].preflight => attempts'[n].preflight
       /\ attempts[n].handle => attempts'[n].handle]_vars

-----------------------------------------------------------------------------
(* Liveness *)

\* A planned execution is eventually settled and its end told in Linear.
EventuallyProjected ==
  Launchable ~> (Settled /\ attempts[work.current].projection = "applied")

\* No lease is held for ever: a dead or finished run's is given up.
LeaseIsFreed == []<>LeaseFree

-----------------------------------------------------------------------------
(* Refinement *)

PhaseOfWork ==
  CASE work.state = "action_planned" -> "planned"
    [] work.state \in ActiveExecutionStates -> "attempting"
    [] work.state = "retry_wait" -> "waiting"
    [] OTHER -> work.state

Announced == {n \in AttemptNumber : comments[n] > 0}
Published == work.current # 0 /\ attempts[work.current].projection = "applied"

Lifecycle == INSTANCE ExecutionLifecycle WITH
  phase <- PhaseOfWork, attempt <- lastAttempt,
  announced <- Announced, published <- Published

\* Runs, leases, crashes, lapses and agents together do nothing but what the
\* lifecycle allows, one attempt after the other.
RefinesLifecycle == Lifecycle!Spec
=============================================================================
