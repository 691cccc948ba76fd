------------------------ MODULE MCMacroWorkflowRunner ------------------------
(***************************************************************************)
(* Instances of MacroWorkflowRunner for TLC: the implementation-review     *)
(* template with a branch beside it.                                       *)
(***************************************************************************)
EXTENDS MacroWorkflowRunner, TLC

CONSTANTS
  council, implement, verify, research,   \* of the template
  implement2, verify2, research2          \* of patches and expansions

Nodes == {council, implement, verify, research, implement2, verify2, research2}

Definition(kind, dependsOn, runWhen) ==
  [kind |-> kind, dependsOn |-> dependsOn, runWhen |-> runWhen,
   gate |-> kind \in {"implementation", "verification"},
   writer |-> kind = "implementation",
   replan |-> kind # "verification"]

Nothing == [n \in {} |-> 0]

ImplementationReview ==
  council :> Definition("deliberation", {}, Always)
  @@ implement :> Definition("implementation", {council}, council)
  @@ verify :> Definition("verification", {implement}, council)
  @@ research :> Definition("planning", {}, Always)

\* The branch runs beside the implementation, and the verification awaits both.
Branched ==
  verify :> Definition("verification", {implement, research}, council)
  @@ research :> Definition("planning", {council}, Always)
  @@ ImplementationReview

ReviewPlans == {ImplementationReview, Branched}

\* What the planner's model might write: two implementations side by side.
UnverifiedPlans ==
  {implement2 :> Definition("implementation", {council}, Always)
   @@ verify2 :> Definition("verification", {implement2}, Always)
   @@ ImplementationReview}

AllPlans == ReviewPlans \cup UnverifiedPlans

ImplementAgain(after, when) ==
  implement2 :> Definition("implementation", {after}, when)
  @@ verify2 :> Definition("verification", {implement2}, when)

ResearchAgain(after) == research2 :> Definition("planning", after, Always)

VerifyAgain == verify2 :> Definition("verification", {implement, research2}, council)

ReviewPatches ==
  {[replace |-> {implement, verify}, newNodes |-> ImplementAgain(council, Always)],
   [replace |-> {research}, newNodes |-> ResearchAgain({})],
   [replace |-> {research}, newNodes |-> ResearchAgain({implement2})],
   [replace |-> {research, verify}, newNodes |-> ResearchAgain({})],
   [replace |-> {research, verify}, newNodes |-> VerifyAgain @@ ResearchAgain({})],
   [replace |-> {research2, verify2}, newNodes |-> ImplementAgain(council, Always)],
   [replace |-> {research2, verify2},
    newNodes |-> implement2 :> Definition("report", {}, Always)],
   [replace |-> {research2}, newNodes |-> council :> Definition("planning", {}, Always)]}

\* The council's result adds a second implementation: after the first one or, in an
\* expansion that is refused, beside it.
ReviewExpansions ==
  [n \in Nodes |->
     IF n = council
     THEN {Nothing, ImplementAgain(verify, Always), ImplementAgain(council, Always)}
     ELSE {}]

NoExpansions == [n \in Nodes |-> {}]

Fallible == {implement, research, research2}
=============================================================================
