------------------------- MODULE MacroWorkflowRunner -------------------------
(***************************************************************************)
(* One macro-workflow run: the scheduling loop of runMacroWorkflow         *)
(* (src/macro-workflow/runner.ts), the snapshots that the command line     *)
(* writes of it behind its back (src/cli.ts), the death of its process and *)
(* its resumption from the last snapshot (ADR 0007).                       *)
(*                                                                         *)
(* The harnesses, the planner that writes initial plans and replan patches *)
(* and the dynamic expander are external: they answer with any member of   *)
(* the sets given as constants, or fail.                                   *)
(***************************************************************************)
EXTENDS WorkflowPlan, Naturals, Sequences, FiniteSets

CONSTANTS
  InitialPlans,  \* the plans a run may be started with
  MaxReplans,    \* their replan budget
  Patches,       \* what the replanner may answer
  Expansions,    \* Expansions[n]: the sets of nodes n's result may add
  MayFail,       \* the nodes whose harness may fail
  MayDecide,     \* the nodes whose payload other nodes' runWhen asks for
  ResumeBound    \* bound of the model: how often the run is resumed

ASSUME RunnerAssumption ==
  /\ \A p \in InitialPlans : IsPlan(p)
  /\ MaxReplans \in Nat
  /\ \A patch \in Patches : IsPatch(patch)
  /\ DOMAIN Expansions = Node
  /\ \A n \in Node : \A new \in Expansions[n] : IsPlan(new)
  /\ MayFail \subseteq Node /\ MayDecide \subseteq Node
  /\ ResumeBound \in Nat

VARIABLES
  pc,          \* where the scheduling loop is; "dead" between two processes
  plan,        \* remainingPlan, which is also state.currentPlan
  completed,   \* completedNodeIds
  batch,       \* the nodes of the batch whose results are awaited or handled
  results,     \* state.nodeResults: the last result of each node
  payload,     \* payloads: the decision in it, for runWhen
  replans,     \* the length of state.replans
  queue,       \* currentPlan of each snapshot whose write has not begun
  disk,        \* workflow-state.json
  resumes,     \* how often the run was resumed
  ran,         \* history: the nodes that passed or were skipped, as defined
  known,       \* history: the ids the process or its snapshot knows
  unexpanded,  \* history: passed nodes whose result was never expanded
  trusted      \* history: the verifier accepts the plan the run began with,
               \* and no patch or expansion has reused an id known by then

loopVars == <<plan, completed, batch, payload>>
sharedVars == <<results, replans>>
history == <<ran, known, unexpanded, trusted>>
vars == <<pc, loopVars, sharedVars, queue, disk, resumes, history>>

Status == {"none", "passed", "failed", "skipped"}
Decision == {"none", "yes", "no"}
NodeResult == [status: Status, payload: Decision]

TypeOK ==
  /\ pc \in {"gate", "select", "running", "replan", "expand", "passed",
             "failed", "dead"}
  /\ IsPlan(plan)
  /\ completed \subseteq Node /\ batch \subseteq Node
  /\ results \in [Node -> NodeResult]
  /\ payload \in [Node -> Decision]
  /\ replans \in 0..MaxReplans
  /\ queue \in Seq({queue[i] : i \in DOMAIN queue})
  /\ \A i \in DOMAIN queue : IsPlan(queue[i])
  /\ disk = [plan |-> disk.plan, results |-> disk.results, replans |-> disk.replans]
  /\ IsPlan(disk.plan)
  /\ disk.results \in [Node -> NodeResult]
  /\ disk.replans \in 0..MaxReplans
  /\ resumes \in 0..ResumeBound
  /\ ran \subseteq Node \X NodeDefinition
  /\ known \subseteq Node /\ unexpanded \subseteq Node
  /\ trusted \in BOOLEAN

NoResult == [status |-> "none", payload |-> "none"]
Skipped == [status |-> "skipped", payload |-> "none"]

Done(res) == {n \in Node : res[n].status \in {"passed", "skipped"}}

\* The run has begun and its first snapshot is written.  Its plan is the one that
\* the command line was given: nothing verifies it before it runs.
Init ==
  /\ pc = "gate"
  /\ plan \in InitialPlans
  /\ completed = {} /\ batch = {}
  /\ results = [n \in Node |-> NoResult]
  /\ payload = [n \in Node |-> "none"]
  /\ replans = 0
  /\ queue = <<>>
  /\ disk = [plan |-> plan, results |-> results, replans |-> 0]
  /\ resumes = 0
  /\ ran = {} /\ known = DOMAIN plan /\ unexpanded = {}
  /\ trusted = VerifyWorkflowPlan(plan)

-----------------------------------------------------------------------------
(* onStateChange of the command line *)

\* Each state change queues a snapshot.  It has the plan of that moment; its
\* results and replans are the arrays of the running state, read when the write
\* begins.  Two snapshots of one plan in a row count as one: the second write
\* replaces the first.
Queued(p) ==
  IF queue # <<>> /\ queue[Len(queue)] = p THEN queue ELSE Append(queue, p)

\* Mutant: the results are the ones of the snapshot before.
Persist_OldResults ==
  /\ queue # <<>>
  /\ queue' = Tail(queue)
  /\ disk' = [plan |-> Head(queue), results |-> disk.results, replans |-> replans]
  /\ UNCHANGED <<pc, loopVars, sharedVars, resumes, history>>

\* MacroWorkflowStateStore.write: replaced by a rename, in one step.
Persist ==
  /\ queue # <<>>
  /\ queue' = Tail(queue)
  /\ disk' = [plan |-> Head(queue), results |-> results, replans |-> replans]
  /\ UNCHANGED <<pc, loopVars, sharedVars, resumes, history>>

-----------------------------------------------------------------------------
(* runMacroWorkflow *)

\* The pre-run gate lets the run go on or fails it.
PreRunGate ==
  /\ pc = "gate"
  /\ pc' \in {"select", "failed"}
  /\ queue' = Queued(plan)
  /\ UNCHANGED <<loopVars, sharedVars, disk, resumes, history>>

Ready == SelectReadyNodes(plan, completed)

ShouldRun(n) == plan[n].runWhen = Always \/ payload[plan[n].runWhen] = "yes"

\* Mutant: a skipped node is recorded but stays incomplete.
Select_SkippedNotCompleted ==
  LET skipped == {n \in Ready : ~ShouldRun(n)}
  IN /\ pc = "select"
     /\ Ready # {}
     /\ results' = [n \in Node |-> IF n \in skipped THEN Skipped ELSE results[n]]
     /\ ran' = ran \cup {<<n, plan[n]>> : n \in skipped}
     /\ batch' = Ready \ skipped
     /\ pc' = IF batch' = {} THEN "select" ELSE "running"
     /\ queue' = Queued(plan)
     /\ UNCHANGED <<plan, completed, payload, replans, disk, resumes, known,
                    unexpanded, trusted>>

\* The ready nodes whose condition is not met are skipped, and the others are
\* started together.
Select ==
  LET skipped == {n \in Ready : ~ShouldRun(n)}
  IN /\ pc = "select"
     /\ Ready # {}
     /\ results' = [n \in Node |-> IF n \in skipped THEN Skipped ELSE results[n]]
     /\ completed' = completed \cup skipped
     /\ ran' = ran \cup {<<n, plan[n]>> : n \in skipped}
     /\ batch' = Ready \ skipped
     /\ pc' = IF batch' = {} THEN "select" ELSE "running"
     /\ queue' = Queued(plan)
     /\ UNCHANGED <<plan, payload, replans, disk, resumes, known, unexpanded,
                    trusted>>

\* Nothing is ready: the run has passed.
Pass ==
  /\ pc = "select"
  /\ Ready = {}
  /\ pc' = "passed"
  /\ queue' = Queued(plan)
  /\ UNCHANGED <<loopVars, sharedVars, disk, resumes, history>>

\* Promise.all: every node of the batch has answered, and its result is
\* recorded.  No state change is announced before its result is dealt with.
\* If one failed, the passed ones are completed without their expansion.
BatchEnds ==
  /\ pc = "running"
  /\ \E failed \in SUBSET (batch \cap MayFail),
        decision \in [batch \cap MayDecide -> Decision] :
       LET passed == batch \ failed
           Answer(n) == IF n \in MayDecide THEN decision[n] ELSE "none"
       IN /\ results' = [n \in Node |->
               IF n \in batch
               THEN [status |-> IF n \in failed THEN "failed" ELSE "passed",
                     payload |-> Answer(n)]
               ELSE results[n]]
          /\ payload' = [n \in Node |->
               IF n \in batch /\ Answer(n) # "none" THEN Answer(n) ELSE payload[n]]
          /\ ran' = ran \cup {<<n, plan[n]>> : n \in passed}
          /\ unexpanded' = unexpanded \cup passed
          /\ IF failed = {}
             THEN pc' = "expand" /\ UNCHANGED <<completed, batch, queue>>
             ELSE /\ completed' = completed \cup passed
                  /\ batch' = failed
                  /\ pc' = "replan"
                  /\ queue' = Queued(plan)
  /\ UNCHANGED <<plan, replans, disk, resumes, known, trusted>>

\* The first failed node may not be replanned, the budget is spent, the replanner
\* has no patch (which can always be) or its patch is refused.
ReplanFails ==
  /\ pc = "replan"
  /\ pc' = "failed" /\ batch' = {}
  /\ queue' = Queued(plan)
  /\ UNCHANGED <<plan, completed, payload, sharedVars, disk, resumes, history>>

\* The ids are new to the run; the verifier only asks that they are not in the plan,
\* from which earlier replans have dropped what was done or replaced.
Fresh(new) == (DOMAIN new \ DOMAIN plan) \cap known = {}

AcceptedPatches ==
  {patch \in Patches : VerifyWorkflowReplanPatch(plan, patch, completed)}

\* Mutant: the budget is not asked.
Replan_Unbounded ==
  /\ pc = "replan"
  /\ \E n \in batch : plan[n].replan
  /\ \E patch \in AcceptedPatches :
       /\ plan' = ApplyReplanPatch(plan, patch, completed)
       /\ known' = known \cup DOMAIN patch.newNodes
       /\ trusted' = (trusted /\ Fresh(patch.newNodes))
  /\ replans' = replans + 1
  /\ batch' = {} /\ pc' = "select"
  /\ queue' = Queued(plan')
  /\ UNCHANGED <<completed, results, payload, disk, resumes, ran, unexpanded>>

Replan ==
  /\ pc = "replan"
  /\ replans < MaxReplans
  /\ \E n \in batch : plan[n].replan
  /\ \E patch \in AcceptedPatches :
       /\ plan' = ApplyReplanPatch(plan, patch, completed)
       /\ known' = known \cup DOMAIN patch.newNodes
       /\ trusted' = (trusted /\ Fresh(patch.newNodes))
  /\ replans' = replans + 1
  /\ batch' = {} /\ pc' = "select"
  /\ queue' = Queued(plan')
  /\ UNCHANGED <<completed, results, payload, disk, resumes, ran, unexpanded>>

\* Nodes whose ids are in the plan are ignored; if none is left, nothing is verified.
AcceptedExpansions(n) ==
  {new \in Expansions[n] :
     DOMAIN new \subseteq DOMAIN plan \/ VerifyWorkflowPlan(With(plan, new))}

\* expandDynamicNodes for one node of the batch, after which it is completed.
ExpandOne ==
  /\ pc = "expand"
  /\ \E n \in batch :
       /\ \/ Expansions[n] = {} /\ UNCHANGED <<plan, known, trusted>>
          \/ \E new \in AcceptedExpansions(n) :
               /\ plan' = With(plan, new)
               /\ known' = known \cup DOMAIN new
               /\ trusted' = (trusted /\ Fresh(new))
       /\ completed' = completed \cup {n}
       /\ batch' = batch \ {n}
       /\ unexpanded' = unexpanded \ {n}
  /\ pc' = IF batch' = {} THEN "select" ELSE "expand"
  /\ queue' = Queued(plan')
  /\ UNCHANGED <<sharedVars, payload, disk, resumes, ran>>

\* The expander throws, or the expanded plan is refused.
ExpansionFails ==
  /\ pc = "expand"
  /\ \E n \in batch : Expansions[n] # {}
  /\ pc' = "failed" /\ batch' = {}
  /\ queue' = Queued(plan)
  /\ UNCHANGED <<plan, completed, payload, sharedVars, disk, resumes, history>>

-----------------------------------------------------------------------------
(* The process and its resumption *)

\* The process dies, or an error escapes the loop (the replanner's, a snapshot's).
Crash ==
  /\ pc # "dead"
  /\ pc \in {"passed", "failed"} => queue # <<>>
  /\ resumes < ResumeBound
  /\ pc' = "dead" /\ queue' = <<>> /\ batch' = {}
  /\ UNCHANGED <<plan, completed, payload, sharedVars, disk, resumes, history>>

\* Mutant: the results are kept, and nothing counts as completed.
Resume_NothingCompleted ==
  LET Kept(n) == n \in Done(disk.results)
  IN /\ pc = "dead" \/ (pc = "failed" /\ queue = <<>>)
     /\ resumes < ResumeBound
     /\ resumes' = resumes + 1
     /\ plan' = disk.plan
     /\ results' = [n \in Node |-> IF Kept(n) THEN disk.results[n] ELSE NoResult]
     /\ payload' = [n \in Node |-> results'[n].payload]
     /\ completed' = {}
     /\ replans' = disk.replans
     /\ known' = DOMAIN disk.plan \cup Done(results')
     /\ pc' = "gate" /\ batch' = {}
     /\ queue' = <<disk.plan>>
     /\ UNCHANGED <<disk, ran, unexpanded, trusted>>

\* createInitialRunState: failed results are dropped, the rest counts as
\* completed, and the plan is the persisted one.
Resume ==
  LET Kept(n) == n \in Done(disk.results)
  IN /\ pc = "dead" \/ (pc = "failed" /\ queue = <<>>)
     /\ resumes < ResumeBound
     /\ resumes' = resumes + 1
     /\ plan' = disk.plan
     /\ results' = [n \in Node |-> IF Kept(n) THEN disk.results[n] ELSE NoResult]
     /\ payload' = [n \in Node |-> results'[n].payload]
     /\ completed' = Done(results')
     /\ replans' = disk.replans
     /\ known' = DOMAIN disk.plan \cup completed'
     /\ pc' = "gate" /\ batch' = {}
     /\ queue' = <<disk.plan>>
     /\ UNCHANGED <<disk, ran, unexpanded, trusted>>

-----------------------------------------------------------------------------

RunStep ==
  \/ PreRunGate \/ Select \/ Pass \/ BatchEnds
  \/ ReplanFails \/ Replan \/ ExpandOne \/ ExpansionFails

Next == RunStep \/ Persist \/ Crash \/ Resume

Spec == Init /\ [][Next]_vars

\* Harnesses and planners answer (they have timeouts of their own), and the
\* process goes on while it lives.  Nobody has to resume a run.
FairSpec == Spec /\ WF_vars(RunStep) /\ WF_vars(Persist)

-----------------------------------------------------------------------------
(* Properties *)

\* Two single-writer nodes are never started in one batch, whatever was replanned
\* or expanded and from whichever snapshot the run was resumed (verifier.ts:
\* "Single-writer nodes ... can run in parallel" is an issue).  Plans that run
\* unverified and planners that reuse ids can break it: see trusted.
WritersAlone ==
  trusted /\ pc = "running" =>
    \A a, b \in batch : plan[a].writer /\ plan[b].writer => a = b

\* A run that passes has run or skipped every node of its plan as the plan defines
\* it: the loop ends with nothing ready only when nothing is left.  A node with
\* the id of one that is done would never be run, hence trusted.
PassedRunIsComplete ==
  trusted /\ pc = "passed" => \A n \in DOMAIN plan : <<n, plan[n]>> \in ran

\* A run can go on from whatever snapshot is on the disk, though its plan and its
\* results may be of different moments: what its nodes wait for is in its plan
\* or recorded as done, and no recorded node has overtaken a dependency.
SnapshotIsClosed ==
  trusted =>
    \A n \in DOMAIN disk.plan :
      LET done == Done(disk.results)
      IN /\ disk.plan[n].dependsOn \subseteq DOMAIN disk.plan \cup done
         /\ n \in done => disk.plan[n].dependsOn \subseteq done

\* When a run passes, each implementation node that has passed was followed by a
\* verification of it, or its verification was skipped by its own condition
\* (verifier.ts: "must have a downstream verification gate").
ImplementationsAreVerified ==
  pc = "passed" =>
    \A r \in ran :
      r[2].kind = "implementation" /\ results[r[1]].status = "passed" =>
        \E v \in ran : IsVerification(v[2]) /\ r[1] \in v[2].dependsOn

\* It holds of a verified plan as long as the run was replanned once at most and
\* not resumed: a second patch is verified against a plan without the nodes the
\* first one dropped.
VerifiedAfterOneReplan ==
  trusted /\ replans <= 1 /\ resumes = 0 => ImplementationsAreVerified

\* When a run passes, the expander has seen the result of each node it has a case
\* for.
ExpansionsKept ==
  pc = "passed" => \A n \in unexpanded : Expansions[n] = {}

\* What the snapshot records as passed or skipped is never started again, in this
\* process or after a resumption (ADR 0007: "does not execute them again"), trusted
\* or not.
NotRunAgain ==
  [][\A n \in Done(disk.results) : n \notin batch' \ batch]_vars

\* A run comes to an end unless its process dies: plans shrink, replans are
\* bounded and every skipped node is completed.
RunEnds == pc # "dead" ~> pc \in {"passed", "failed", "dead"}
=============================================================================
