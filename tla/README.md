# Verification of weavekit

weavekit is a TypeScript program whose durable core is **Mastermind**: a
service that takes tickets from Linear, reviews them, decides what to do next
and, where it may, has a coding agent implement them in a Herdr pane. Its state
lives in SQLite, its effects in Linear, Herdr and git. Beside it stands a
**macro-workflow runner** that executes plans of agent work and persists them so
that a run can be resumed. Around both are the recursive worker runtime (RLM), a
Telegram inquiry channel and a number of prototypes and evaluation tools.

This directory models four subsystems in which several processes, crashes and
external calls meet:

* **durable execution**: one work item driven by any number of concurrent runs
  of the coordinator from a planned action to a settled attempt whose end is
  told in Linear;
* **the decision loop** with its review action: the same work item from a
  webhook to a planned action, a person or a failure, while people edit the
  ticket that is being reviewed;
* **code review**: the same work item from its successful execution to the
  verdict of a review that is told in Linear, and to its acceptance;
* **macro-workflow runs**: batches, replans, expansions and resumption from
  snapshots, and the directory lock under which snapshots are written.

The repository's architecture records (`docs/adr/0005`, `0007`, `0009`) make
promises about them that no unit test can reach.

    cd tla
    tlc -workers 2 -config coordinator_lapse.cfg MCExecutionCoordinator.tla
    tlc -workers 2 -config decision_loop.cfg MCDecisionLoop.tla
    tlc -workers 2 -config code_review.cfg MCCodeReview.tla
    tlapm ExecutionProjection_proofs.tla

`PROJECT.json` lists components, runs, the code each definition stands for,
hazards, findings and theorems.

## 1. Inventory

| component | state it keeps | operations | hard behaviour | what makes it correct |
|---|---|---|---|---|
| State machine (`mastermind/domain`) | none | `transitionMastermindState` | – | unlisted events are refused |
| Store (`mastermind/store/sqlite.ts`) | one row per work item with its lease, one per attempt, reviews, snapshots, code reviews, clarifications, policies, deliveries | lease, `transition*`, `create*`, `patch*`, `save*Projection`, review marks, scans, delivery ingestion | stale copies, fences, two rows in one transaction, lease expiry | a stale copy never writes; both rows agree; every unfinished thing is listed by a scan |
| Execution coordinator (`mastermind/execution`) | none of its own: it works on copies of rows | `process`: begin, provision, preflight, launch, poll, collect, project, retry | awaits between read and write, crash between intent and effect, partial projection | success needs evidence, one writer, one agent, one prompt, one comment; it ends |
| Herdr executor (`submind/herdr.ts`) | agents by name, the marker file in the worktree | `start`, `status`, `collect`, `cancel` | ambiguous prompt dispatch, adoption after restart | an attempt's prompt is submitted once |
| RLM executor (`submind/rlm.ts`) | child process, manifest | the same interface | a restart cannot adopt the child | one run per attempt |
| Workspace provisioner, preflight (`submind/workspace.ts`, `preflight.ts`) | repository and worktree on disk | `provision`, `describe`, `runPreflight` | crash between `git init` and the seed commit | idempotent adoption |
| Decision loop (`mastermind/decision/loop.ts`) | none of its own | normalise, freshness, review, apply, decide, transition | reopening what has settled, reads before and after a model's answer | an execution is planned only from a review of the ticket as last read; work comes to rest |
| Review action (`mastermind/actions/reviewTicket.ts`) | the row of the review it generates or applies | generate, reuse, apply content, apply labels, confirm | edits between read and write, a crash between a write to Linear and its mark | only what policy accepted is written; a person's edit is reviewed |
| Code review (`mastermind/codeReview`) | one row per reviewed commit | begin, start, continue, resume, assess, project, accept | partial projection, HEAD moves during a review, rows written without the lease | the verdict that moves the work item is told once; a review ends |
| Service (`mastermind/service.ts`) | in-flight maps, timer | `start`, `enqueue`, `processAndWait`, `reconcile`, `stop` | coalescing, closing the store | everything recoverable is dispatched |
| Linear client and channel | labels, comments, webhooks | label replacement, comment by marker | read–modify–write of labels | idempotent projection |
| Review policy, harness, clarification, self-improvement | mostly none | pure functions and model calls | – | fail closed |
| Macro-workflow runner (`macro-workflow/runner.ts`, `verifier.ts`, `grammar.ts`) | plan, completed nodes, results, replans, queue of snapshots | batch execution, replan, expansion, resume | batches that fail in part, expansion after a replan, snapshots that lag behind | bounded replans; a passed run has run everything; a snapshot can be resumed |
| Workflow state store (`stateStore.ts`) | state file, lock directory | `write`, lock and reclaim | two processes reclaim one stale lock | mutual exclusion; a write ends |
| RLM run state and session (`rlm-poc`) | calls, dependencies, budget | begin, succeed, fail, checkpoint, restore | restore of interrupted calls | only succeeded calls are used |
| Trellage drive loop (`rlm-poc/trellage`) | terminal screen state | observe, answer, stop | stale screens | – |
| Telegram inquiry | pending questions | `ask`, `handleUpdate`, poll | reply before registration, or after the timeout | each reply goes to its question |
| Dashboards, harness families, evaluation, entities, personas, prototypes, generated BAML client, CLI, telemetry | files | – | – | – |

How they interact. The service's timer asks the store which work items are
recoverable or launchable and starts a run of the decision loop or of the
coordinator for each; a webhook starts one at once. Runs communicate only
through rows: a run takes the lease, reads the work item, works with external
calls in between, writes back through a fence, and releases the lease. While a
run is alive a heartbeat renews its lease. The decision loop leaves a work item
that has a current attempt to the coordinator, and the coordinator begins with
what the loop has planned. People share the ticket with both. The agent in the
pane is independent of all runs and answers through a manifest file in the
worktree. A workflow run is one process; it meets others only at the lock of
its state file and its own past in the snapshot it is resumed from.

## 2. The model

| module | stands for |
|---|---|
| `MastermindMachine` | `domain/machine.ts`: the whole transition table as the record `On` of each state's events, `Accepts` and `NextState` |
| `SubmindContracts` | what an executor status or a result manifest tells the coordinator: outcome, whose attempt it reports on |
| `MastermindStore` | work and attempt rows, the copies of rows each run holds, one operator per store method |
| `HerdrExecutor` | the agents by attempt, the submitted prompts and the marker, what an agent may do by itself |
| `ExecutionCoordinator` | `process` and its phases, one action per step between two awaits, the faults, the fairness, the properties |
| `ExecutionLifecycle` | the abstract specification: bounded attempts, one final disposition, announced then, published after |
| `DecisionLoop` | `MastermindDecisionLoop.process` and the review action, the ticket, the review rows, people, the faults, the properties |
| `CodeReview` | `PostImplementationReviewCoordinator.process` and `acceptMastermindWork`: the review rows, the worktree's HEAD, comments and labels, the faults, the properties |
| `WorkflowPlan` | plans, the grammar, the verifier of plans and patches, the pure functions of the runner on plans |
| `MacroWorkflowRunner` | the runner's loop, its snapshots, death and resumption |
| `WorkflowStateLock` | `MacroWorkflowStateStore.write` call by call: lock, inspection, reclamation, release |
| `MC...` (five) | instances for TLC |
| `MastermindStore_proofs` | lemmas about the store's operators |
| `ExecutionCoordinator_proofs`, `ExecutionSafety_proofs` | type correctness; the inductive invariants and the safety theorems of the coordinator's rows and agents |
| `ExecutionProjection_proofs` | how an end is told, and the refinement of `ExecutionLifecycle` |
| `DecisionLoop_proofs`, `CodeReview_proofs`, `MacroWorkflowRunner_proofs`, `WorkflowStateLock_proofs` | type correctness, inductive invariants and safety theorems of each |

`MastermindStore` EXTENDS the machine and the contracts. `ExecutionCoordinator`
EXTENDS the store and the executor and so composes them; `DecisionLoop` and
`CodeReview` EXTEND the same store. `MacroWorkflowRunner` EXTENDS the plan.

### Rows, copies and leases

* `work`, `attempts`, `lastAttempt`: the rows. JSON columns are reduced to what
  a guard reads: whether the workspace, an accepted preflight and a handle are
  recorded, the last observed status and the count of unknown ones, the
  outcome and the verification, eligibility for a retry, the projection.
* `workCopy[p]`, `attemptCopy[p]`: what run `p` read. A copy carries a bit
  `fresh`: nothing bumped the row's `row_version` since it was read. The store
  compares versions only for equality and only increases them, so the bit says
  all a version can say, and the state space stays finite without a bound.
* `work.live`: `lease_expires_at > now`. Time enters the store only here.

A store method is one SQL statement or one immediate transaction, one step.
`acquireLease` is an UPDATE and the read-back in the same synchronous turn;
taking both as one step matters only to processes that share an `instanceId`.

### Durable execution

* `pc[p]`, `intent[p]`: the next call of run `p`, and the transition it has
  decided on before it commits it (an await lies between).
* `agent`, `prompts`, `marker`, the manifest: Herdr and the worktree. `idle`
  and `done` are one state, *terminal*, as the coordinator treats them alike.
* `comments`, `gate`: the terminal comments by attempt marker and the gate
  label of the issue.

Every `await` in `coordinator.ts` that reaches outside or writes a row ends an
action. A phase is thus a chain of actions (`Provision`, `RecordWorkspace`,
`Commit`, ...; `Start`, `StartNewAgent`, `Prompt`; `RecordPending`,
`FindComment`, `CreateComment`, `ApplyLabels`, `RecordApplied`), and other
runs, agents and the clock move between them.

Faults, each drawn from `FaultKinds` and together bounded by `FaultBound`:
`crash` (a process dies at any point and forgets its copies; lease, agent and
comments stay), `lapse` (a lease expires under a live run, whose heartbeat has
stopped), `error` (an external call throws, before or after its effect),
`vanish` (a pane is lost). A lease nobody renews expires without counting as a
fault.

Two runs *under one owner* are two processes with the same configured
`MASTERMIND_INSTANCE_ID`, or a one-shot command beside the service; within one
process `executionInFlight` keeps to one run per work item, and by default the
owner is `mastermind-<pid>`. The runs check the first arrangement, the proofs
cover both.

Abstracted: texts, ids, timestamps, spans and hashes. Which result an agent
reports, what a validation command returns and what a preflight finds are free
choices over what the code tells apart. Code review (which has a model of its
own), storyboard publication and self-improvement are not configured. Configuration errors that make
`loadContext` throw are left out. Label replacement is one step.

### Decision loop

* `ticket`: the text of the issue (title, description and the labels that are
  not Mastermind's) and the four labels of Mastermind. People's texts are
  numbered, and `Proposal(r)` is the text review `r` proposes. `replies` counts
  the comments of people.
* `reviews`: the rows of `mastermind_reviews`: the ticket a review was made
  from, the policy's verdict on its patch, the validation column, whether
  content and labels have been applied, and the ticket as it was then.
  `observed` is the latest ticket snapshot.
* `pc[p]`, `held[p]`, `event[p]`, `rounds[p]`: the next call of run `p`, the
  review it read, the event it is about to commit, the decisions it has made.

A step is one call to Linear or to a model. What a read of Linear returns is
acted on in the same step; a write to Linear is a step of its own, because its
run may die before it stores what it did and the lease asserted before it may
have gone. The issue and the comments listed right after it are read in one
step, except for the last look before an execution is planned: there the ticket
(`Decided`), the comments (`CheckComments`) and the transition (`Plan`) are three
steps, since what changes in between is planned on. `CheckFreshness`, `Generate` and `Propose`, `Apply`, `CheckContent`,
`Update`, `ConfirmContent`, `CheckLabels`, `Relabel`, `ConfirmLabels`, `Decide`,
`Decided`, `CheckComments` and `Plan` follow the methods of the loop and of the review action in their
order; a fence that does not match throws (`Rejected`).

People edit the text, remove a label or reply (`EditBound`). A webhook or the
start-up scan may start a run for settled work (`NoticeBound`). The faults are
`crash`, `error` (a call throws before or after its effect, a model fails) and
`lapse`. `Execute` and `Project` stand for the coordinator: from a planned
action to the end of its attempt, and the labels it leaves.

Histories, for the properties: `confirmed` (a run saw its result on the ticket and
nobody has touched it since), `overtaken` (the text changed between the last read
and the write), `missed` (the runs that have looked for the last time and did not
see what changed then), `asked` (a decision, not the outcome of a review, sent the
work item to a person).

Abstracted: the policy's verdict and the model's recommendation are choices, the
project policy is resolved, the clarification comment, the projection of the
Linear workflow state and the second bound, on steps, are left out. Runs that
overlap have owners of their own (`LoopAssumption`): within one process
`inFlight` coalesces them.

### Code review

The coordinator's runs hand a work item whose attempt has succeeded, and whose
end is told, to the review: `succeeded`, `code_review_pending`,
`code_reviewing`, then `awaiting_acceptance`, `changes_requested` or
`needs_human`. One run performs one of these phases.

* `reviews`, `newest`: the rows of `mastermind_code_reviews` and the one created
  last. A row belongs to an attempt, a commit, a result and a ticket; the last
  three but the commit do not change here, so rows are kept by commit, and the
  table's UNIQUE makes `CreateCodeReview` leave an existing row alone.
* `head`: the commit the worktree is at, read by `Identify`. It may move
  (`MoveHead`): the agent is still in its pane, and people use the worktree.
* `held[p]`, `job[p]`: the row run `p` works on, with a `fresh` bit for
  `updated_at`, and what it is about to tell and to commit. `SaveCodeReview`
  asks for that bit only, not for the lease, and *returns the newest row*,
  whichever it saved (`Returned`): the model follows the code in this.
* `comments`, `labels`, `issue`, `acceptances`: what Linear shows.

`SetInReview`, `LabelCodeReview` are `beginReview`; `ReadCurrent`, `Identify`,
`SaveRunning` are `startReview`; `Assess`, `SaveVerdict` or `SaveFailure`,
`FindComment`, `Publish`, `CreateComment`, `ApplyLabels`, `RecordApplied`,
`Commit` are `continueReview`, which also takes up what an earlier run left
(`Continue`). `Accept` and what follows is the command by which a person accepts;
it has no heartbeat, so its lease may expire without a fault. The verdict is a
choice, and so is a failure of the assessment. There is no label for a row that has
not ended, so a run that projects one throws (`HasLabel`).

Left out: how comment and picture are rendered, the upload (its failure is
recorded and ignored), the copying of an accepted greenfield workspace, and
configurations in which labels or gateway methods are missing.

### Workflow plans and runs

A plan maps node ids to definitions: kind, dependencies, the node whose payload
decides whether it runs, gate, single-writer mode, replan policy. The
breadth-first searches of the verifier are stated as closure properties. In
`MacroWorkflowRunner`:

* `plan`, `completed`, `results`, `payload`, `replans`, `batch`: the variables of
  the loop. The result map and the budget are shared by reference with snapshots
  already queued, the plan and the status are not; so `queue` holds plans, and
  `Persist` writes the oldest of them with the results *of that moment*.
* `disk`: the last snapshot written. `Crash` loses the queue; `Resume` is
  `createInitialRunState`.
* `known`, `ran`, `unexpanded`, `trusted`: history, for the properties. A run is
  `trusted` while its initial plan is one the verifier accepts and patches and
  expansions have brought new ids only. The code asks for neither
  (`cli.ts:1450`, `verifier.ts:292`), so the model does not either: the instance has
  an unverified plan and a patch that takes up the id of a done node.

A batch ends in one step (`Promise.all`: no state is announced before all have
answered). Its passed nodes are then expanded one at a time, or, if one failed,
the failed ones are replanned. What a model writes into a patch or an expansion
is a constant set, out of which the verifier accepts.

Left out: harness resolution, prompts, artifacts, plugin capabilities, usage
counts, replay events.

### The lock of the state file

`WorkflowStateLock` has one step per file-system call. At `lockPath` there is
nothing, a directory with owner files, or the lock file of an older version.
A path is resolved when the call is made, whoever made the directory that is
there by then: this is what makes the protocol hard. Any writer may die at any
call; a process that died does not come back under its process id. What is older
than the five-minute threshold was left by the dead (`Age`).

## 3. Runs

| run | instance | what it shows |
|---|---|---|
| `coordinator_lapse` | 2 runs under one owner, 2 attempts, 2 faults out of lapse, crash, error; 2.1 million states | types; one fenced writer; row agreement; attempt history; evidence behind success; intent before agent; one agent at work; one prompt; settled attempts stay; evidence stays; the coordinator implements `ExecutionLifecycle` |
| `coordinator_heartbeat` | 2 runs, 2 attempts, 3 faults out of crash, error, vanish, with fairness | while leases do not lapse, the comment is exact and unique and the label is that of the state; a planned execution is settled and projected; leases are freed |
| `decision_loop` | 2 owners, 2 decisions, 3 reviews, all verdicts, any 2 of: an edit, a notice, a fault out of crash, error, lapse; 730 000 states, with fairness | types; a planned execution is of the ticket as last read; only accepted text is written; edits are reviewed; labels tell the state; what a review settled is reopened only after a change; work comes to rest |
| `code_review` | 2 owners, 2 commits, HEAD moves twice, 1 fault out of crash, error, lapse, 1 acceptance; 200 000 states, with fairness | types; verdict and acceptance are told; a review ends |
| `workflow_replanned` | a template of four nodes in three shapes, one of them unverified, 2 replans out of 8 patches, 3 expansions, 1 resumption; 138 000 states, with fairness | types; writers alone; a passed run is complete; snapshots are closed; verified after one replan; nothing done runs again; every run ends |
| `lock_reclaimed` | 3 writers, 1 death, no lock or a legacy file at first; 60 000 states, with fairness | types; a holder has its file; exclusion without deaths; the lock goes; a live owner is kept; every write ends |
| `finding_duplicate_comment` | 2 runs, 1 lapse | **violated**: see section 5 |
| `finding_prompt_resubmitted` | 1 run, a crash and a lost pane | **violated** |
| `finding_lock_shared` | 3 writers, 1 death | **violated** |
| `finding_expansion_lost` | the same template, 1 resumption | **violated** |
| `finding_edit_overwritten` | 1 run, 1 edit, no faults | **violated** |
| `finding_reopened_unchanged` | 1 run, 1 notice, no edits, no faults | **violated** |

Why the bounds are enough.

*Coordinator.* Two runs: a third could only be a second stale one, and staleness
is a property of one copy. Two attempts reach the retry, the limit and the first
attempt's leftovers under the second; one attempt more repeats them. Two faults
allow a fault during the recovery from a fault. The unknown threshold is 2 where
the count matters and 1 where it only multiplies states. The runs of one owner
are interchangeable, which `ProcSymmetry` uses; it is not used where liveness is
checked. `ExecutionLifecycle` does not mention runs, so its refinement, a
property of single steps, may be checked under symmetry. Progress across a lapse was
also checked, with two owners (`OwnOwners`), one attempt and one fault out of lapse
and crash (290 000 states); it is not among the runs.

*Decision loop.* Two disturbances allow one during the recovery from another: an
edit and then a crash before the review is invalidated, a lapse and then a
notice. The safety properties were also checked without `DisturbanceBound`, so with
an edit, a notice and a fault in one behaviour (6.7 million states). Three reviews
suffice: a run that needed a fourth would be stuck at `ReviewBound` and
`EventuallyDecided` would fail. `ExecutionEnds` is `needs_human` alone, the end after
which both people and scans may reopen the item; an item in `retry_wait` is discussed
in section 5.

*Code review.* Two commits are the one whose review runs and another; two moves
are away and back. One fault is taken up by the next run, which passes through
every phase again; `ReviewIsTold` was also checked with two faults (without
fairness, 2 million states).

*Workflow runs.* The patches replace what failed and what was not started, add a
dependency on a dropped node, drop a verification and add it again, and give a new
node the id of a done one; the expansions add a writer behind the first and, to be
refused, beside it. Two replans reach a patch that is verified against a plan the
first one reduced. One resumption reaches every snapshot, and a resumed run goes
through the same loop.

*Lock.* Three writers are one that dies and two that both find what it left, the
least with which two reclaimers meet. One death leaves each kind of stale lock.

Deadlock is checked for the coordinator: an item whose end is told can still be
picked up, whereupon the run finds nothing to do. In the other models it is not,
since there the system really stops: writers have written, a workflow run has
ended, work that has come to rest is touched by nobody.

### Fairness

`Dispatch` (coordinator, loop and code review) is weakly fair because the service's timer
polls the scans for ever (`service.ts`: `start`, `reconcile`); it is conditional
on what the scan lists, so a work item the scans forget is never helped by
fairness. `RunStep(p)` is weakly fair: a live process goes on to the end of its
phase. `Expire` is weakly fair: clocks advance. `AgentHalts(n)` is strongly
fair: an agent that is at work again and again, with pauses in which it waits
for a person, eventually stops; without that an execution may rightly last for
ever. Faults, people, notices, moves of HEAD, acceptance and the agent's other steps
are not fair.
Progress of the coordinator is claimed only for leases that do not lapse: two runs that share an owner may, after one lapse, go on releasing each
other's lease for ever (`releaseLease` asks for the owner's name only).

A workflow run is fair in `RunStep` and `Persist`: harnesses and planners have
timeouts, the process goes on. `Resume` is not fair, as nobody has to resume a
run. A writer of the state file is fair in its next call; `TimeOut` is strongly
fair because the deadline of `acquireLock` does not start again. `OpensInTime`
is strongly fair, which the code does not enforce: two writers that for ever
remove each other's empty directory before either has opened its owner file
would each need to be delayed at the same call each time. `WriteEnds` depends
on it.

## 4. Proofs

For all values of the constants, from the named assumptions in the modules
(`StoreAssumption`, `CoordinatorAssumption`, `LoopAssumption`, `ReviewAssumption`,
`PlanAssumption`, `RunnerAssumption`, `LockAssumption`: types of the constants,
and in the loop and the code review distinct owners):

| theorem | says |
|---|---|
| `TypeCorrect`, `DecisionsTypeCorrect`, `ReviewTypeCorrect`, `RunTypeCorrect`, `LockTypeCorrect` | `[]TypeOK` of the five systems |
| `Fencing` | `[]OneFencedWriter` |
| `AttemptsAgree`, `AttemptsInOrder` | `[]AttemptAgreement`, `[]AttemptHistory` |
| `SuccessHasEvidence` | `[]EvidencedSuccess` |
| `SettledStays`, `EvidenceStays` | `SettledIsFinal`, `EvidenceIsKept`, action properties |
| `AgentsHaveIntent` | `[]IntentBeforeAgent` |
| `PromptedOnce`, `OneAtWork` | `[]PromptAtMostOnce`, `[]OneAgentAtWork`, if agents do not vanish |
| `EndIsTold` | `[]CommentTellsTheEnd` |
| `ToldOnce`, `LabelIsOfEnd` | `[]OneTerminalComment`, `[]GateLabelMatches`, if leases do not lapse under a live run |
| `ImplementsLifecycle` | `RefinesLifecycle`: `Spec` implements `ExecutionLifecycle` |
| `PlannedFromReview` | `PlanIsOfReviewedTicket`, an action property; a change after the planning run's last look is the exception it names |
| `WrittenIsAccepted` | `[]OnlyAcceptedIsWritten` |
| `EditsReviewed` | `EditsAreReviewed`, an action property |
| `LabelsTell` | `[]LabelsTellState`, for work that a review, not a decision, brought to rest |
| `ReopenedWithCause` | `ReopenedOnlyAfterChange`, an action property, for the same work |
| `VerdictsAreTold` | `[]ReviewIsTold` |
| `OneReviewer` | `[]ReviewedByOne`: while no lease lapsed under a live run, one run at most is between its first read and its end, and it holds the lease |
| `EndedReviewsStand` | `VerdictsStand`, an action property: under the conditions of `ReviewIsTold` the status and verdict of an ended review, and the comments that tell it, never change again |
| `WritersRunAlone`, `PassedRunsAreComplete`, `SnapshotsAreClosed` | `[]WritersAlone`, `[]PassedRunIsComplete`, `[]SnapshotIsClosed`, each while the run is `trusted` |
| `ImplementationsVerifiedOnce` | `[]VerifiedAfterOneReplan`, for `trusted` runs, up to the second replan or a resumption |
| `DoneIsNotRunAgain` | `NotRunAgain`, an action property, for all plans, patches and expansions |
| `HolderKeepsItsFile`, `LiveOwnersStay` | `[]HolderHasItsFile`, `LiveOwnerIsKept`, for any number of deaths |
| `DeathlessExclusion`, `LockIsLeftToNobody` | `[]ExclusionWithoutDeaths`, `[]LockIsGone` |

None of them is inductive.

**Coordinator.** `EvidencedSuccess`, for instance, depends on what a run is about
to commit, which it prepared from a copy it read several awaits ago; the commit
is guarded by a fence, so what is needed is that *a copy that passes the fence
still equals its row*. The invariant `SafetyInv` says so and what follows from it:

1. `FreshCopyIsRow`: a copy whose bit is fresh agrees with its row in every
   field a fence or a phase reads (the lease apart).
2. `AttemptAgreement`, `AttemptHistory`, `WaitingAllowed`, `RowsSound`: rows
   are in order and each row's state is justified by the evidence in it.
3. `Prepared(p)`: at each `pc[p]`, what run `p` holds in hand was prepared for
   the phase, so *if* the fence passes the row it writes is sound.
4. `OneFreshWorkCopy`: two runs never both hold a fresh work copy, since
   `AcquireLease` bumps the version; `OneFencedWriter` is its consequence.

`InitSafe` and `SafetyStep` show it inductive, one lemma per action (`...Safe`).
The action properties follow from the same invariant by `RowsProgress`: a
non-projection write to an attempt requires a fence whose state is active.

**Agents.** Two invariants on top of `SafetyInv`. `IntentKept`: a run at one of the
executor's calls works on an attempt whose row has the preflight and the handle,
which is why a crash never leaves an agent no row tells of. `AgentsInv` relates
agents, prompts, rows and hands: an attempt in `running` was prompted, one in
`collecting` or `retry_wait` has an agent that *stopped*, an unprompted agent
left no marker and no manifest, and at most one run is about to prompt an
attempt. The last follows from the agent's name: only the run that created the
agent goes on to prompt it, everybody else adopts it or gives up. `AgentsInv`
is false when agents can vanish, since the next run then creates and prompts
one anew; `finding_prompt_resubmitted` shows that the assumption is needed.

**Projection and refinement.** `ProjectionInv`: a run in `project` has a settled
attempt, at `labels` and later the comment exists, and what a run is about to
write has the projection of the row it read (so no patch resets it). It holds
with every fault. For the refinement, `PhaseOfWork` takes the place of the
phase, `lastAttempt` of the attempt, `Announced` (attempts with a comment) and
`Published` (the current row's projection is applied) of the rest. `Create` is
`Begin`, `Commit` is `Postpone`, `Settle` or a stutter between active states,
`CreateComment`, answered or not, is `Announce`, `RecordApplied` is `Publish`,
and all other steps stutter. A stale run cannot announce a wrong attempt
because all attempts but the last are in `retry_wait` for ever (`AttemptHistory`).

Uniqueness of the comment and the label need `AloneInv`: while no lease lapses,
every run that is awake holds the lease, hence is alone (`Alone`), hence what it
found by the marker, and the state it projects the label of, are still so when
it writes. `finding_duplicate_comment` shows that a lapse breaks it.

**Decision loop.** A run writes what it read many calls ago. A review row is
written only under the lease, owners are distinct, so one run holds the lease
(`OneHolder`) and only its own `acquireLease` gives it to a run (`RunLease`).
Hence a run that still has the lease knows the rows: `LoopInv` says that

1. the stored rows are consistent (`RowsSound`): the validation repeats the
   verdict of the row's own patch, and once text or labels are applied the row
   has the ticket as the proposal left it;
2. the review a lease holder has in hand is the stored one and is prepared for
   its next call (`HandsSound`);
3. a run about to write to Linear, *with or without its lease*, was told to by
   an accepted review made from the text it replaces (`WritesSound`), but for an
   edit since its last read, which is what `overtaken` records;
4. `OnlyAcceptedIsWritten` itself;
5. a run past its last look at the ticket, or at ticket and comments, holds a row
   that matches them still, unless it is in `missed` (`LooksSound`).

`PlannedFromReview` needs no assumption about faults: the run that plans passes its
fence, so by the second point its row is the stored one, and by the fifth the ticket
is as that row says, but for what `missed` records. The exception is real: the model
shows that a person, or a late write of a run whose lease lapsed, may come between.

`LabelsTell` and `ReopenedWithCause` relate the ticket to the work item after
the run has gone, so they need what the runs leave to each other. `HoldersKnow`: a
run with the lease knows the work item (`Known`); its `pc` says which state the work item is
in, and from `check` to `confirm_labels` it has the newest review in hand
(`Placed`). `ShownInv`, claimed while `confirmed` (nobody has touched the ticket
since a run saw its result there) and not `asked`:

1. `RestShown`: work at rest without an execution shows its newest review (text and
   labels as applied, no reply since), or that none could be generated;
2. `StillShown(p)`: a run with the lease does not intend to reopen such work, and
   commits an outcome only once the ticket shows it.

Two runs that meet are no exception: a run whose lease lapsed while it wrote takes
`confirmed` back with that write, and only a run with the lease that reads the result
on the ticket sets it again (`Bystander`, `HolderShows`). By `RestShown` the freshness
check finds nothing to do (`FoundAsLeft`): what it compares is what the last run left.

**Code review.** `ReviewIsTold` speaks of the end; a run gets there in a dozen
calls, any of which may fail, and the next run continues from the rows. Two
invariants carry it. `LeaseInv`: a run that has the lease knows the work item
(`Known`), and as long as no lease has lapsed every run of the coordinator has it
(`Leased`), hence is alone (`OneReviewer`). A run of `acceptMastermindWork` has no
heartbeat, so its lease may expire with nothing amiss and another run begin beside
it; but it writes only to accepted work, where a run of the coordinator does nothing. `Story`, claimed unless a lease lapsed or
HEAD moved more than once, holds what the lone run and its successors rely on:

1. `Records`: a row's comment is its verdict or is missing, a row without
   a conclusion was told nowhere (`RowSound`); HEAD is at the newest review or at
   a commit without one (`HeadIsNew`, false once HEAD may come back); what
   a row marks as applied is shown (`AppliedIsShown`); the issue is Done only once
   the work item is accepted (`Stage`).
2. `Prepared(p)`: at each `pc[p]` a run holds the newest row as it is stored,
   and the comment and label it has found or written so far are those of that row;
   at `commit` the event is the one that row's status calls for.

`EndedReviewsStand` follows from the same invariant: the only writer of a
concluded row is the run that has it in hand, which marks it as applied.

**Workflow runs.** The code neither verifies every initial plan nor refuses a reused
id, and TLC shows what follows: without `trusted`, `WritersAlone` fails from the
unverified plan and `PassedRunIsComplete` by the patch that reuses an id. So the
theorems about plans speak of `trusted` runs, and `RunInv` is claimed of them only;
a run never becomes trusted again (`TrustIsOld`). `NotRunAgain` needs no trust: by
`DoneInv`, in every run, what the results hold as done is completed and a batch has
no completed node.

In a trusted run a plan is `Sound` for the nodes already done when no done node has
overtaken a dependency, when what a node waits for is in the plan or done, when it is
acyclic and when of two writers not done one waits for the other. Verification
implies it, dropping done nodes keeps it (`PatchedIsSound`), expansions keep it
(`ExpandedIsSound`). `RunInv` says that the current plan, every plan in the queue with
the results of now, and the snapshot on the disk with its own results are sound, which
is why a snapshot whose plan lags behind its results can be resumed.
`ImplementationsVerifiedOnce` needs more: the verifier asks for a verification
*somewhere downstream* of an implementation, the property for one that waits for
it. As only a verification may wait for an implementation, the first node
downstream is one (`VerificationIsNext`). `VerifiedSoFar` then says that up to the
first replan all that has run is in the verified plan, and up to the second
whatever has run or is planned has its verification among the same, since the
first patch is verified together with the nodes that are done.

**Lock.** `OwnerInv`: an owner file that counts as old, or that somebody is about
to unlink, belongs to a dead writer; between open and unlink a writer's own file
is there. `DeathlessInv`: while nobody has died, the directory exists exactly
while one writer is between `mkdir` and `rmdir`, so nobody ever reclaims, and
nothing is left once all have ended.

TLC checked each invariant on the instance of its run before it was proved.

Every invariant and action property of the passing runs is stated by one of
these theorems, some under the condition the table names. Model-checked only:
the liveness properties, which are beyond the prover along with `ENABLED`.

## 5. Findings

* **A terminal comment can be written twice** (`coordinator.ts:554`). `project`
  searches for the comment by its marker, then creates it, with nothing between
  the two awaits that asks whether the lease still holds. A run whose lease
  lapsed after the search creates the comment although another run has created
  it meanwhile. ADR 0009 promises one idempotent comment and that Linear
  mutations fail closed when ownership expires.
* **A prompt can be submitted again** (`herdr.ts:60`). `start` looks at the
  dispatch evidence in the worktree only if the agent still exists. If
  Mastermind stops after the prompt was taken and the pane is gone when it comes
  back, the recovering run starts a new agent and submits the same attempt's
  prompt again. ADR 0009 says that ambiguity fails closed rather than
  resubmitting.
* **Two writers can hold the state lock** (`stateStore.ts:332`). A writer dies right
  after `mkdir`, and two others find its old, empty directory. The first has taken
  its `stat`; the second removes the directory and makes its own. The first then
  lists *that* directory, still empty as its owner file is not open yet, judges it by
  the age of the old one (`:208`), removes it and makes another. The second's owner
  file is opened in it (`:149`), the first's beside it, and both write. ADR 0007
  argues that a successor's directory is not empty, which is so only once its file
  is open. `ExclusionWithoutDeaths` shows that it takes a death.
* **A node's expansion can be lost** (`runner.ts:395`). The result of a passed
  node is recorded before it is expanded. If the expander fails, the run fails
  with the result in its snapshot; the resumed run takes the node for completed
  and passes without its expansion. ADR 0005 promises resumption including
  dynamic expansion.
* **A person's edit can be overwritten** (`reviewTicket.ts:372`). The ticket is
  read, the lease is asserted and the text is replaced in three calls. An edit
  in between is overwritten, and since the ticket then equals the proposal the
  review is confirmed. `README.md:264` promises that such an edit invalidates the
  proposal. `EditsAreReviewed` shows that this moment is the only one.
* **Work sent to a person is reviewed again though nothing changed** (`loop.ts:474`).
  If the decision about a ready review calls for a person, or the decisions are used
  up, the ticket keeps the labels of that review. The freshness check expects
  needs-input of work in `needs_human` (`:812`), so each webhook, and each scan at
  start, takes it for removed, discards the review and makes a new one. The code's
  own words (`:861`) are that such work is kept as long as the ticket has not
  changed. Hence `asked` in `LabelsTellState` and `ReopenedOnlyAfterChange`, which
  hold for what a review brought to rest.

Behaviours of the models that no document of the repository contradicts, and
which are therefore not runs:

* After two replans, or a resumption, a run may pass with an implementation
  nobody verified: the second patch is verified against a plan without the nodes
  the first one dropped (`runner.ts:691`, `ImplementationsAreVerified`).
* A plan that the planner's model has generated reaches the runner without
  `verifyWorkflowPlan` (`cli.ts:1450`), so that two writers may share a batch
  (`UnverifiedPlans` of the MC module).
* A patch may give a new node the id of a node that an earlier replan dropped
  (`verifier.ts:292`), which then counts as done and is not run. Hence, with the
  previous one, `trusted` in the properties of runs.
* What changes between the last look at the ticket or its comments and the transition
  is planned on (`loop.ts:464-477`); the next freshness check finds it, unless the
  coordinator has begun by then. Hence `missed` in `PlanIsOfReviewedTicket`.
* A work item in `retry_wait` with a current attempt that a webhook hands to the
  loop goes to `deciding` and stays there for both scans (`loop.ts:164`).
* Settled work whose end has not been projected may have its review reopened,
  which gives up the attempt and with it the projection (`loop.ts:214`).
* The labels that the coordinator leaves on a ticket differ from those of its
  review, so every scan reopens it (`loop.ts:757`).
* A failed assessment is stored as `needs_human` without a verdict. If the
  process dies before its comment is written, the next run finds the review
  ended, has nothing to project and moves the work item: nobody is told, and the
  label stays that of a review in progress (`codeReview/coordinator.ts:107`).
* While HEAD is at a commit nobody has begun to review, every run of a work item
  in `code_reviewing` throws (`coordinator.ts:103`); nothing but HEAD's return
  helps. It has then left a pending row that is newest: `saveCodeReview` returns
  it in place of the row with the verdict, `project` returns at once, and the
  work item moves without a comment or a label (`sqlite.ts:580`). Hence
  `moves > 1` in `ReviewIsTold`.
* Review rows are written without the lease. A run whose lease lapsed in
  `startReview` sets a review that has ended meanwhile back to `running`, and the
  next run of the work item has it assessed again, but a projection already
  applied is not written again (`coordinator.ts:80`). Hence `lapsed`.

The last three were found when `ReviewIsTold` was checked without its two
exceptions. They are at odds with what `README.md:228-232` says in general, that
labels and comments represent these conditions; no sentence of it speaks of
crashes or of a worktree that moves.

## 6. Not modelled, and what is left

Not modelled, because there is no state that outlives a call or meets another
actor: harness families, dashboards, decision council, entities and personas,
evaluation, prototypes, telemetry, configuration, the command line but for its
queue of snapshots, the replay view, and the generated client. They are most of
the repository's lines, and what they do is prompts, parsing and presentation.

Not modelled yet, in the order in which they would add most:

1. `RlmExecutor`, the other executor behind the same coordinator: whether a
   restart may run an attempt twice.
2. Service start, stop and coalescing, delivery ingestion, clarification rows,
   and label replacement as the read-modify-write it is.
3. `RlmRunState` and the Trellage drive loop; `TelegramInquiry`.
4. The inside of workspace provisioning, and the review policy against a
   reference definition.

Theorems left: an abstract review of a ticket that the decision loop and the
code review both implement, and with the components above theirs.
