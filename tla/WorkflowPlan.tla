---------------------------- MODULE WorkflowPlan ----------------------------
(***************************************************************************)
(* A workflow plan (RuntimeWorkflowPlan of src/macro-workflow/types.ts),   *)
(* the grammar (grammar.ts) and the verifier (verifier.ts) that a plan, an *)
(* expanded plan and a replan patch have to pass, and the two pure         *)
(* functions of the runner on plans.                                       *)
(*                                                                         *)
(* A plan maps the ids of its nodes to their definitions, so two nodes of  *)
(* one plan never share an id.  Harnesses, titles, prompts and plugin      *)
(* capabilities are left out.  Reachability and acyclicity are stated as   *)
(* closure properties: the breadth-first searches of the verifier compute  *)
(* the same relations.                                                     *)
(***************************************************************************)

CONSTANTS
  Node,     \* the node ids
  Always    \* the runWhen of a node that has none

ASSUME PlanAssumption == Always \notin Node

WorkflowNodeKind == {"research", "deliberation", "planning", "implementation",
                     "verification", "report", "visualization"}

NodeDefinition ==
  [kind: WorkflowNodeKind,
   dependsOn: SUBSET Node,
   runWhen: Node \cup {Always},   \* the node whose payload decides
   gate: BOOLEAN,                 \* it has the verification gate
   writer: BOOLEAN,               \* its writeMode is single-writer
   replan: BOOLEAN]               \* its replanPolicy is not "never"

IsPlan(plan) == DOMAIN plan \subseteq Node /\ plan \in [DOMAIN plan -> NodeDefinition]

IsPatch(patch) ==
  /\ patch = [replace |-> patch.replace, newNodes |-> patch.newNodes]
  /\ patch.replace \subseteq Node /\ IsPlan(patch.newNodes)

Without(plan, S) == [n \in DOMAIN plan \ S |-> plan[n]]

With(plan, new) ==
  [n \in DOMAIN plan \cup DOMAIN new |->
     IF n \in DOMAIN plan THEN plan[n] ELSE new[n]]

-----------------------------------------------------------------------------
(* The verifier *)

AllowedTransitions ==
  [research       |-> {"research", "deliberation", "planning", "report",
                       "visualization"},
   deliberation   |-> {"planning", "implementation", "report", "visualization"},
   planning       |-> WorkflowNodeKind,
   implementation |-> {"verification"},
   verification   |-> {"research", "deliberation", "implementation", "report",
                       "visualization"},
   report         |-> {"planning", "implementation", "visualization"},
   visualization  |-> {"visualization"}]

Children(plan, n) == {m \in DOMAIN plan : n \in plan[m].dependsOn}

\* b is in every set that has the children of a and is closed under children.
Reaches(plan, a, b) ==
  \A S \in SUBSET DOMAIN plan :
    Children(plan, a) \subseteq S /\ (\A n \in S : Children(plan, n) \subseteq S)
      => b \in S

\* Mutant: unknown dependencies are passed over.
KnownDependencies_Ignored(plan) ==
  \A n \in DOMAIN plan : plan[n].dependsOn \subseteq Node

KnownDependencies(plan) ==
  \A n \in DOMAIN plan : plan[n].dependsOn \subseteq DOMAIN plan

TransitionsAllowed(plan) ==
  \A n \in DOMAIN plan : \A d \in plan[n].dependsOn \cap DOMAIN plan :
    plan[n].kind \in AllowedTransitions[plan[d].kind]

Acyclic(plan) ==
  \A S \in SUBSET DOMAIN plan :
    S # {} => \E n \in S : plan[n].dependsOn \cap S = {}

\* Mutant: a writer without a path to the other is accepted if it has a
\* dependency, as if that ordered it.
WritersOrdered_DirectOnly(plan) ==
  \A a, b \in {n \in DOMAIN plan : plan[n].writer} :
    a # b => \/ Reaches(plan, a, b) \/ Reaches(plan, b, a)
             \/ plan[a].dependsOn # {} \/ plan[b].dependsOn # {}

WritersOrdered(plan) ==
  \A a, b \in {n \in DOMAIN plan : plan[n].writer} :
    a # b => Reaches(plan, a, b) \/ Reaches(plan, b, a)

IsVerification(definition) ==
  definition.kind = "verification" \/ definition.gate

\* Mutant: the gate of the implementation node itself is taken for one.
HasDownstreamVerification_OwnGate(plan, n) ==
  \E m \in DOMAIN plan : IsVerification(plan[m]) /\ (m = n \/ Reaches(plan, n, m))

HasDownstreamVerification(plan, n) ==
  \E m \in DOMAIN plan : IsVerification(plan[m]) /\ Reaches(plan, n, m)

VerifyWorkflowPlan(plan) ==
  /\ DOMAIN plan # {}
  /\ KnownDependencies(plan)
  /\ TransitionsAllowed(plan)
  /\ Acyclic(plan)
  /\ WritersOrdered(plan)
  /\ \A n \in DOMAIN plan :
       plan[n].kind = "implementation" => HasDownstreamVerification(plan, n)

VerifyWorkflowReplanPatch(plan, patch, completed) ==
  /\ patch.replace \subseteq DOMAIN plan \ completed
  /\ DOMAIN patch.newNodes \cap DOMAIN plan = {}
  /\ patch.replace # {} \/ DOMAIN patch.newNodes # {}
  /\ VerifyWorkflowPlan(With(Without(plan, patch.replace), patch.newNodes))

-----------------------------------------------------------------------------
(* The runner's functions on plans *)

ApplyReplanPatch(plan, patch, completed) ==
  With(Without(plan, completed \cup patch.replace), patch.newNodes)

\* Mutant: one completed dependency is enough.
SelectReadyNodes_AnyDependency(plan, completed) ==
  {n \in DOMAIN plan \ completed :
     plan[n].dependsOn = {} \/ plan[n].dependsOn \cap completed # {}}

SelectReadyNodes(plan, completed) ==
  {n \in DOMAIN plan \ completed : plan[n].dependsOn \subseteq completed}
=============================================================================
