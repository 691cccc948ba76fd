---------------------- MODULE MacroWorkflowRunner_proofs ----------------------
(***************************************************************************)
(* The scheduling loop keeps its promises for all plans, patches and       *)
(* expansions: what a snapshot records as done is not run again, and in    *)
(* every run that is to be trusted, which began with a plan the verifier   *)
(* accepts and reused no id, writers run alone, snapshots are closed and a *)
(* run that passes is complete.                                            *)
(***************************************************************************)
EXTENDS MacroWorkflowRunner, SequenceTheorems, TLAPS

-----------------------------------------------------------------------------
(* Plans *)

\* No done node has overtaken a dependency.
Closed(p, done) ==
  \A n \in DOMAIN p : n \in done => p[n].dependsOn \subseteq done

\* What a node waits for is in the plan or done.
Grounded(p, done) ==
  \A n \in DOMAIN p : p[n].dependsOn \subseteq DOMAIN p \cup done

\* Of two writers that are not done, one waits for the other.
Ordered(p, done) ==
  \A a, b \in DOMAIN p \ done :
    p[a].writer /\ p[b].writer /\ a # b => Reaches(p, a, b) \/ Reaches(p, b, a)

\* What a run that has done these nodes may rely on in a plan.
Sound(p, done) ==
  Closed(p, done) /\ Grounded(p, done) /\ Acyclic(p) /\ Ordered(p, done)

\* A verified plan of whose nodes none has overtaken a dependency is sound.
LEMMA VerifiedIsSound ==
  ASSUME NEW p, NEW done, VerifyWorkflowPlan(p), Closed(p, done)
  PROVE  Sound(p, done)
BY DEF VerifyWorkflowPlan, Sound, Grounded, Ordered, KnownDependencies,
       WritersOrdered

\* Reachability between nodes that are not done survives the removal of the done.
LEMMA ReachesWithoutDone ==
  ASSUME NEW p, NEW done, Closed(p, done),
         NEW a \in DOMAIN p \ done, NEW b \in DOMAIN p \ done, Reaches(p, a, b)
  PROVE  Reaches(Without(p, done), a, b)
<1> DEFINE q == Without(p, done)
<1>1. DOMAIN q = DOMAIN p \ done /\ \A n \in DOMAIN q : q[n] = p[n]
  BY DEF Without
<1>2. ASSUME NEW n \in DOMAIN q PROVE Children(p, n) = Children(q, n)
  BY <1>1 DEF Children, Closed
<1> HIDE DEF q
<1>3. ASSUME NEW S \in SUBSET DOMAIN q, Children(q, a) \subseteq S,
             \A n \in S : Children(q, n) \subseteq S
      PROVE  b \in S
  <2>1. S \in SUBSET DOMAIN p
    BY <1>1
  <2>2. Children(p, a) \subseteq S /\ \A n \in S : Children(p, n) \subseteq S
    BY <1>1, <1>2, <1>3
  <2>3. QED
    BY <2>1, <2>2 DEF Reaches
<1>4. QED
  BY <1>3 DEF Reaches, q

\* So a sound plan stays sound when its done nodes are dropped.
LEMMA SoundWithoutDone ==
  ASSUME NEW p, NEW done, Sound(p, done)
  PROVE  Sound(Without(p, done), done)
<1> DEFINE q == Without(p, done)
<1>1. DOMAIN q = DOMAIN p \ done /\ \A n \in DOMAIN q : q[n] = p[n]
  BY DEF Without
<1>2. Closed(q, done)
  BY <1>1 DEF Closed
<1>3. Grounded(q, done)
  BY <1>1 DEF Sound, Grounded
<1>4. Acyclic(q)
  BY <1>1 DEF Sound, Acyclic
<1>5. Ordered(q, done)
  <2> SUFFICES ASSUME NEW a \in DOMAIN q \ done, NEW b \in DOMAIN q \ done,
                      q[a].writer, q[b].writer, a # b
               PROVE  Reaches(q, a, b) \/ Reaches(q, b, a)
    BY DEF Ordered
  <2>1. Reaches(p, a, b) \/ Reaches(p, b, a)
    BY <1>1 DEF Sound, Ordered
  <2>2. QED
    BY <2>1, <1>1, ReachesWithoutDone DEF Sound
<1>6. QED
  BY <1>2, <1>3, <1>4, <1>5 DEF Sound

\* A sound plan stays sound while nodes are done whose dependencies are.
LEMMA SoundGrows ==
  ASSUME NEW p, NEW done, NEW more, Sound(p, done), done \subseteq more,
         \A n \in DOMAIN p : n \in more /\ n \notin done => p[n].dependsOn \subseteq more
  PROVE  Sound(p, more)
<1>1. Closed(p, more)
  BY DEF Sound, Closed
<1>2. Grounded(p, more)
  BY DEF Sound, Grounded
<1>3. Ordered(p, more)
  BY DEF Sound, Ordered
<1>4. QED
  BY <1>1, <1>2, <1>3 DEF Sound

\* Two ready nodes of a sound plan are never both writers.
LEMMA ReadyWritersAlone ==
  ASSUME NEW p, NEW done, Sound(p, done),
         NEW a \in SelectReadyNodes(p, done), NEW b \in SelectReadyNodes(p, done),
         p[a].writer, p[b].writer
  PROVE  a = b
<1> DEFINE Waiting == {n \in DOMAIN p : ~(p[n].dependsOn \subseteq done)}
<1>1. ASSUME NEW n \in DOMAIN p, n \notin done PROVE Children(p, n) \subseteq Waiting
  BY <1>1 DEF Children
<1>2. \A n \in Waiting : n \notin done
  BY DEF Sound, Closed
<1>3. a \notin Waiting /\ b \notin Waiting /\ a \in DOMAIN p \ done /\ b \in DOMAIN p \ done
  BY DEF SelectReadyNodes
<1>4. \A n \in Waiting : Children(p, n) \subseteq Waiting
  BY <1>1, <1>2
<1>5. Waiting \in SUBSET DOMAIN p
  OBVIOUS
<1>6. ~Reaches(p, a, b)
  BY <1>1, <1>3, <1>4, <1>5 DEF Reaches
<1>7. ~Reaches(p, b, a)
  BY <1>1, <1>3, <1>4, <1>5 DEF Reaches
<1>8. QED
  BY <1>3, <1>6, <1>7 DEF Sound, Ordered

\* As long as a sound plan has a node to do, one is ready.
LEMMA SomethingIsReady ==
  ASSUME NEW p, NEW done, Sound(p, done), SelectReadyNodes(p, done) = {}
  PROVE  DOMAIN p \subseteq done
<1> DEFINE Left == DOMAIN p \ done
<1>1. SUFFICES ASSUME Left # {} PROVE FALSE
  OBVIOUS
<1>2. PICK n \in Left : p[n].dependsOn \cap Left = {}
  BY <1>1 DEF Sound, Acyclic
<1>3. p[n].dependsOn \subseteq done
  BY <1>2 DEF Sound, Grounded
<1>4. QED
  BY <1>2, <1>3 DEF SelectReadyNodes

\* A patch the verifier accepts leaves a sound plan if its new nodes are not done.
LEMMA PatchedIsSound ==
  ASSUME NEW p, NEW patch, NEW done, Sound(p, done),
         VerifyWorkflowReplanPatch(p, patch, done),
         DOMAIN patch.newNodes \cap done = {}
  PROVE  Sound(ApplyReplanPatch(p, patch, done), done)
<1> DEFINE verified == With(Without(p, patch.replace), patch.newNodes)
<1>1. /\ DOMAIN verified = (DOMAIN p \ patch.replace) \cup DOMAIN patch.newNodes
      /\ \A n \in DOMAIN verified :
           verified[n] = IF n \in DOMAIN p \ patch.replace THEN p[n] ELSE patch.newNodes[n]
  BY DEF With, Without
<1>2. Closed(verified, done)
  BY <1>1 DEF Sound, Closed
<1>3. Sound(verified, done)
  BY <1>2, VerifiedIsSound DEF VerifyWorkflowReplanPatch
<1>4. ApplyReplanPatch(p, patch, done) = Without(verified, done)
  BY <1>1 DEF ApplyReplanPatch, With, Without
<1>5. QED
  BY <1>3, <1>4, SoundWithoutDone

\* An expansion the verifier accepts leaves a sound plan.
LEMMA ExpandedIsSound ==
  ASSUME NEW p, NEW new, NEW done, Sound(p, done),
         VerifyWorkflowPlan(With(p, new)),
         (DOMAIN new \ DOMAIN p) \cap done = {}
  PROVE  Sound(With(p, new), done)
<1>1. Closed(With(p, new), done)
  BY DEF Sound, Closed, With
<1>2. QED
  BY <1>1, VerifiedIsSound

-----------------------------------------------------------------------------
(* Types *)

\* The members of a queue that p has been put into, or whose head was taken.
LEMMA QueuedMembers ==
  ASSUME NEW S, queue \in Seq(S), NEW p
  PROVE  /\ Queued(p) \in Seq(S \cup {p})
         /\ \A i \in DOMAIN Queued(p) :
              Queued(p)[i] = p \/ \E j \in DOMAIN queue : Queued(p)[i] = queue[j]
<1>1. queue \in Seq(S \cup {p})
  OBVIOUS
<1>2. CASE Queued(p) = queue
  BY <1>1, <1>2
<1>3. CASE Queued(p) = Append(queue, p)
  <2>1. Append(queue, p) \in Seq(S \cup {p})
    BY <1>1, AppendProperties
  <2>2. ASSUME NEW i \in DOMAIN Append(queue, p)
        PROVE  \/ Append(queue, p)[i] = p
               \/ i \in DOMAIN queue /\ Append(queue, p)[i] = queue[i]
    <3>0. Len(Append(queue, p)) = Len(queue) + 1 /\ Append(queue, p)[Len(queue) + 1] = p
      BY <1>1, AppendProperties
    <3>1. DOMAIN queue = 1..Len(queue) /\ Len(queue) \in Nat
      BY LenProperties
    <3>4. DOMAIN Append(queue, p) = 1..Len(Append(queue, p))
      BY <2>1, LenProperties
    <3>5. i \in 1..Len(queue)+1
      BY <2>2, <3>0, <3>4
    <3>2. CASE i = Len(queue) + 1
      BY <3>0, <3>2
    <3>3. CASE i \in 1..Len(queue)
      BY <3>1, <3>3, <1>1, AppendProperties
    <3>6. QED
      BY <3>1, <3>2, <3>3, <3>5
  <2>3. QED
    BY <1>3, <2>1, <2>2
<1>4. QED
  BY <1>2, <1>3 DEF Queued

LEMMA TailMembers ==
  ASSUME NEW S, queue \in Seq(S), queue # <<>>
  PROVE  /\ Tail(queue) \in Seq(S)
         /\ Head(queue) = queue[1] /\ 1 \in DOMAIN queue
         /\ \A i \in DOMAIN Tail(queue) : \E j \in DOMAIN queue : Tail(queue)[i] = queue[j]
<1>1. Tail(queue) \in Seq(S) /\ Len(queue) \in Nat /\ Len(queue) > 0
      /\ DOMAIN queue = 1..Len(queue) /\ Head(queue) = queue[1]
  BY EmptySeq, LenProperties, HeadTailProperties
<1>2. ASSUME NEW i \in DOMAIN Tail(queue)
      PROVE  i + 1 \in DOMAIN queue /\ Tail(queue)[i] = queue[i + 1]
  BY <1>1, HeadTailProperties, LenProperties
<1>3. QED
  BY <1>1, <1>2

\* A queue keeps its type if its members are plans.
QueueOK(q) == q \in Seq({q[i] : i \in DOMAIN q}) /\ \A i \in DOMAIN q : IsPlan(q[i])

LEMMA QueueIsTyped ==
  ASSUME NEW S, NEW q \in Seq(S), \A i \in DOMAIN q : IsPlan(q[i])
  PROVE  QueueOK(q)
<1>1. DOMAIN q = 1..Len(q) /\ Len(q) \in Nat
  BY LenProperties
<1>2. q \in Seq({q[i] : i \in 1..Len(q)})
  BY RangeEquality, SeqOfRange
<1>3. QED
  BY <1>1, <1>2 DEF QueueOK

LEMMA QueuedIsTyped ==
  ASSUME QueueOK(queue), NEW p, IsPlan(p)
  PROVE  QueueOK(Queued(p))
<1> DEFINE S == {queue[i] : i \in DOMAIN queue}
<1>1. queue \in Seq(S)
  BY DEF QueueOK
<1>2. Queued(p) \in Seq(S \cup {p})
  BY <1>1, QueuedMembers
<1>3. \A i \in DOMAIN Queued(p) : IsPlan(Queued(p)[i])
  BY <1>1, QueuedMembers DEF QueueOK
<1>4. QED
  BY <1>2, <1>3, QueueIsTyped

LEMMA TailIsTyped ==
  ASSUME QueueOK(queue), queue # <<>>
  PROVE  QueueOK(Tail(queue)) /\ IsPlan(Head(queue))
<1> DEFINE S == {queue[i] : i \in DOMAIN queue}
<1>1. queue \in Seq(S)
  BY DEF QueueOK
<1>2. Tail(queue) \in Seq(S) /\ Head(queue) = queue[1] /\ 1 \in DOMAIN queue
      /\ \A i \in DOMAIN Tail(queue) : IsPlan(Tail(queue)[i])
  BY <1>1, TailMembers DEF QueueOK
<1>3. QED
  BY <1>2, QueueIsTyped DEF QueueOK

LEMMA PlansAreTyped ==
  ASSUME NEW p, NEW q, IsPlan(p), IsPlan(q), NEW S
  PROVE  IsPlan(With(p, q)) /\ IsPlan(Without(p, S))
<1>1. IsPlan(Without(p, S))
  BY DEF IsPlan, Without
<1>2. /\ DOMAIN With(p, q) = DOMAIN p \cup DOMAIN q
      /\ With(p, q) = [n \in DOMAIN p \cup DOMAIN q |-> IF n \in DOMAIN p THEN p[n] ELSE q[n]]
  BY DEF With
<1>3. IsPlan(With(p, q))
  BY <1>2 DEF IsPlan
<1>4. QED
  BY <1>1, <1>3

LEMMA PatchIsTyped ==
  ASSUME RunnerAssumption, IsPlan(plan), NEW patch \in Patches
  PROVE  IsPlan(ApplyReplanPatch(plan, patch, completed)) /\ IsPlan(patch.newNodes)
BY PlansAreTyped DEF RunnerAssumption, IsPatch, ApplyReplanPatch

\* A batch is taken from the plan and is never replanned while it is awaited.
TypeInv == TypeOK /\ batch \subseteq DOMAIN plan

LEMMA InitIsTyped ==
  ASSUME RunnerAssumption, Init
  PROVE  TypeInv
<1>1. IsPlan(plan) /\ MaxReplans \in Nat /\ ResumeBound \in Nat
  BY DEF RunnerAssumption, Init
<1>2. results \in [Node -> NodeResult] /\ payload \in [Node -> Decision]
  BY DEF Init, NoResult, NodeResult, Status, Decision
<1>3. queue \in Seq({queue[i] : i \in DOMAIN queue}) /\ \A i \in DOMAIN queue : IsPlan(queue[i])
  BY DEF Init
<1>4. DOMAIN plan \subseteq Node
  BY <1>1 DEF IsPlan
<1>5. trusted \in BOOLEAN
  BY DEF Init, VerifyWorkflowPlan
<1>6. QED
  BY <1>1, <1>2, <1>3, <1>4, <1>5 DEF Init, TypeOK, TypeInv

\* One step of each kind keeps the types.
LEMMA TypeStep ==
  ASSUME RunnerAssumption, TypeInv, Next
  PROVE  TypeInv'
<1>q. QueueOK(queue) /\ IsPlan(plan) /\ MaxReplans \in Nat /\ ResumeBound \in Nat
      /\ resumes \in Nat /\ replans \in Nat
  BY DEF TypeInv, TypeOK, QueueOK, RunnerAssumption
<1>t. QueueOK(queue)' => /\ queue' \in Seq({queue'[i] : i \in DOMAIN queue'})
                        /\ \A i \in DOMAIN queue' : IsPlan(queue'[i])
  BY DEF QueueOK
<1>n. DOMAIN plan \subseteq Node
  BY <1>q DEF IsPlan
<1>1. CASE PreRunGate
  <2>1. QueueOK(queue)'
    BY <1>1, <1>q, QueuedIsTyped DEF PreRunGate
  <2>2. QED
    BY <2>1, <1>t, <1>1 DEF PreRunGate, TypeInv, TypeOK, loopVars, sharedVars, history
<1>2. CASE Select
  <2>1. QueueOK(queue)'
    BY <1>2, <1>q, QueuedIsTyped DEF Select
  <2>2. Ready \subseteq DOMAIN plan /\ Skipped \in NodeResult
    BY DEF Ready, SelectReadyNodes, Skipped, NodeResult, Status, Decision
  <2>3. \A n \in DOMAIN plan : plan[n] \in NodeDefinition
    BY <1>q DEF IsPlan
  <2>4. ran' \subseteq Node \X NodeDefinition
    BY <1>2, <2>2, <2>3, <1>n DEF Select, TypeInv, TypeOK
  <2>5. results' \in [Node -> NodeResult]
    BY <1>2, <2>2 DEF Select, TypeInv, TypeOK
  <2>6. completed' \subseteq Node /\ batch' \subseteq Node
    BY <1>2, <2>2, <1>n DEF Select, TypeInv, TypeOK
  <2>7. QED
    BY <2>1, <2>2, <1>t, <2>4, <2>5, <2>6, <1>2 DEF Select, TypeInv, TypeOK
<1>3. CASE Pass
  <2>1. QueueOK(queue)'
    BY <1>3, <1>q, QueuedIsTyped DEF Pass
  <2>2. QED
    BY <2>1, <1>t, <1>3 DEF Pass, TypeInv, TypeOK, loopVars, sharedVars, history
<1>4. CASE BatchEnds
  <2>1. PICK failed \in SUBSET (batch \cap MayFail),
             decision \in [batch \cap MayDecide -> Decision] :
       LET passed == batch \ failed
           Answer(n) == IF n \in MayDecide THEN decision[n] ELSE "none"
       IN /\ results' = [n \in Node |->
               IF n \in batch
               THEN [status |-> IF n \in failed THEN "failed" ELSE "passed",
                     payload |-> Answer(n)]
               ELSE results[n]]
          /\ payload' = [n \in Node |->
               IF n \in batch /\ Answer(n) # "none" THEN Answer(n) ELSE payload[n]]
          /\ ran' = ran \cup {<<n, plan[n]>> : n \in passed}
          /\ unexpanded' = unexpanded \cup passed
          /\ IF failed = {}
             THEN pc' = "expand" /\ UNCHANGED <<completed, batch, queue>>
             ELSE /\ completed' = completed \cup passed
                  /\ batch' = failed
                  /\ pc' = "replan"
                  /\ queue' = Queued(plan)
    BY <1>4 DEF BatchEnds
  <2>2. QueueOK(queue)'
    BY <2>1, <1>q, QueuedIsTyped
  <2>3. results' \in [Node -> NodeResult] /\ payload' \in [Node -> Decision]
    BY <2>1 DEF TypeInv, TypeOK, NodeResult, Status, Decision
  <2>4. \A n \in batch : <<n, plan[n]>> \in Node \X NodeDefinition
    BY <1>n, <1>q DEF TypeInv, IsPlan
  <2>5. ran' \subseteq Node \X NodeDefinition
    BY <2>1, <2>4 DEF TypeInv, TypeOK
  <2>6. QED
    BY <2>1, <2>2, <2>3, <2>5, <1>t, <1>4 DEF BatchEnds, TypeInv, TypeOK
<1>5. CASE ReplanFails
  <2>1. QueueOK(queue)'
    BY <1>5, <1>q, QueuedIsTyped DEF ReplanFails
  <2>2. QED
    BY <2>1, <1>t, <1>5 DEF ReplanFails, TypeInv, TypeOK, sharedVars, history
<1>6. CASE Replan
  <2>1. PICK patch \in Patches :
          /\ plan' = ApplyReplanPatch(plan, patch, completed)
          /\ known' = known \cup DOMAIN patch.newNodes
    BY <1>6 DEF Replan, AcceptedPatches
  <2>2. IsPlan(plan') /\ IsPlan(patch.newNodes)
    BY <2>1, <1>q, PatchIsTyped
  <2>3. QueueOK(queue)'
    BY <1>6, <2>2, <1>q, QueuedIsTyped DEF Replan
  <2>4. known' \subseteq Node
    BY <2>1, <2>2 DEF TypeInv, TypeOK, IsPlan
  <2>5. replans' \in 0..MaxReplans
    BY <1>6, <1>q DEF Replan
  <2>6. QED
    BY <2>2, <2>3, <2>4, <2>5, <1>t, <1>6 DEF Replan, TypeInv, TypeOK
<1>7. CASE ExpandOne
  <2>1. PICK n \in batch :
       /\ \/ Expansions[n] = {} /\ UNCHANGED <<plan, known>>
          \/ \E new \in AcceptedExpansions(n) :
               /\ plan' = With(plan, new)
               /\ known' = known \cup DOMAIN new
       /\ completed' = completed \cup {n}
       /\ batch' = batch \ {n}
       /\ unexpanded' = unexpanded \ {n}
    BY <1>7 DEF ExpandOne
  <2>2. IsPlan(plan') /\ known' \subseteq Node /\ DOMAIN plan \subseteq DOMAIN plan'
    <3>1. CASE UNCHANGED <<plan, known>>
      BY <3>1, <1>q DEF TypeInv, TypeOK
    <3>2. ASSUME NEW new \in AcceptedExpansions(n), plan' = With(plan, new),
                 known' = known \cup DOMAIN new
          PROVE  IsPlan(plan') /\ known' \subseteq Node /\ DOMAIN plan \subseteq DOMAIN plan'
      <4>1. n \in Node /\ new \in Expansions[n]
        BY DEF AcceptedExpansions, TypeInv, TypeOK
      <4>2. IsPlan(new)
        BY <4>1 DEF RunnerAssumption
      <4>3. IsPlan(With(plan, new)) /\ DOMAIN plan \subseteq DOMAIN With(plan, new)
        BY <4>2, <1>q, PlansAreTyped DEF With
      <4>4. QED
        BY <4>2, <4>3, <3>2 DEF IsPlan, TypeInv, TypeOK
    <3>3. QED
      BY <2>1, <3>1, <3>2
  <2>3. QueueOK(queue)'
    BY <1>7, <2>2, <1>q, QueuedIsTyped DEF ExpandOne
  <2>4. QED
    BY <2>1, <2>2, <2>3, <1>t, <1>7 DEF ExpandOne, TypeInv, TypeOK, sharedVars
<1>8. CASE ExpansionFails
  <2>1. QueueOK(queue)'
    BY <1>8, <1>q, QueuedIsTyped DEF ExpansionFails
  <2>2. QED
    BY <2>1, <1>t, <1>8 DEF ExpansionFails, TypeInv, TypeOK, sharedVars, history
<1>9. CASE Persist
  <2>1. QueueOK(queue)' /\ IsPlan(Head(queue))
    BY <1>9, <1>q, TailIsTyped DEF Persist
  <2>2. QED
    BY <2>1, <1>t, <1>9 DEF Persist, TypeInv, TypeOK, loopVars, sharedVars, history
<1>10. CASE Crash
  <2>1. QueueOK(queue)'
    BY <1>10 DEF Crash, QueueOK
  <2>2. QED
    BY <2>1, <1>t, <1>10 DEF Crash, TypeInv, TypeOK, sharedVars, history
<1>11. CASE Resume
  <2>1. QueueOK(queue)'
    <3>1. IsPlan(disk.plan) /\ queue' = <<disk.plan>>
      BY <1>11 DEF Resume, TypeInv, TypeOK
    <3>2. queue' \in Seq({disk.plan}) /\ \A i \in DOMAIN queue' : IsPlan(queue'[i])
      BY <3>1
    <3>3. QED
      BY <3>2, QueueIsTyped
  <2>2. results' \in [Node -> NodeResult] /\ completed' \subseteq Node
    BY <1>11 DEF Resume, TypeInv, TypeOK, NoResult, NodeResult, Status, Decision, Done
  <2>3. payload' \in [Node -> Decision]
    BY <1>11, <2>2 DEF Resume, NodeResult
  <2>4. known' \subseteq Node /\ resumes' \in 0..ResumeBound
    <3>1. IsPlan(disk.plan) /\ known' = DOMAIN disk.plan \cup completed'
      BY <1>11 DEF Resume, TypeInv, TypeOK
    <3>2. DOMAIN disk.plan \subseteq Node
      BY <3>1 DEF IsPlan
    <3>3. resumes' = resumes + 1 /\ resumes < ResumeBound
      BY <1>11 DEF Resume
    <3>4. QED
      BY <3>1, <3>2, <3>3, <2>2, <1>q
  <2>5. QED
    BY <2>1, <2>2, <2>3, <2>4, <1>t, <1>11 DEF Resume, TypeInv, TypeOK
<1>12. QED
  BY <1>1, <1>2, <1>3, <1>4, <1>5, <1>6, <1>7, <1>8, <1>9, <1>10, <1>11
     DEF Next, RunStep

\* Every variable keeps its type, for every plan, patch and expansion.
THEOREM RunTypeCorrect == ASSUME RunnerAssumption PROVE Spec => []TypeOK
<1>1. Init => TypeInv
  BY InitIsTyped
<1>2. TypeInv /\ [Next]_vars => TypeInv'
  <2>1. CASE Next
    BY <2>1, TypeStep
  <2>2. CASE UNCHANGED vars
    BY <2>2 DEF vars, loopVars, sharedVars, history, TypeInv, TypeOK
  <2>3. QED
    BY <2>1, <2>2
<1>3. TypeInv => TypeOK
  BY DEF TypeInv
<1>4. QED
  BY <1>1, <1>2, <1>3, PTL DEF Spec

-----------------------------------------------------------------------------
(* What a run relies on *)

\* A run that has done these nodes can go on with the plan, and has done them as
\* the plan defines them.
Resumable(p, done, r) ==
  Sound(p, done) /\ \A n \in DOMAIN p \cap done : <<n, p[n]>> \in r

\* So it can with a plan that waits to be written, which has no node that the
\* current plan defines otherwise.
InFlight(p, current, done, kn, r) ==
  /\ Resumable(p, done, r)
  /\ DOMAIN p \subseteq kn
  /\ \A n \in DOMAIN p \cap DOMAIN current : p[n] = current[n]

\* What is done and what counts as completed, for every plan.
DoneInv ==
  /\ Done(disk.results) \subseteq Done(results)
  /\ completed \subseteq Done(results)
  /\ pc \in {"gate", "select", "running", "replan", "passed"}
       => completed = Done(results)
  /\ pc = "expand" => Done(results) = completed \cup batch
  /\ pc = "running" => batch \cap completed = {}

\* What a trusted run may rely on.
RunInv ==
  /\ InFlight(plan, plan, Done(results), known, ran)
  /\ \A i \in DOMAIN queue : InFlight(queue[i], plan, Done(results), known, ran)
  /\ Resumable(disk.plan, Done(disk.results), ran)
  /\ Done(results) \subseteq known
  /\ pc = "running" => batch \subseteq SelectReadyNodes(plan, completed)
  /\ pc = "passed" => DOMAIN plan \subseteq completed

\* Nodes of the current plan whose dependencies are done may be done as well.
LEMMA InFlightGrows ==
  ASSUME NEW p, NEW current, NEW done, NEW more, NEW kn, NEW r, NEW s,
         InFlight(p, current, done, kn, r), done \subseteq more, r \subseteq s,
         \A n \in more \ done : /\ n \in DOMAIN current
                               /\ current[n].dependsOn \subseteq more
                               /\ <<n, current[n]>> \in s
  PROVE  InFlight(p, current, more, kn, s)
<1>1. \A n \in DOMAIN p : n \in more /\ n \notin done =>
        p[n].dependsOn \subseteq more /\ <<n, p[n]>> \in s
  BY DEF InFlight
<1>2. Sound(p, more)
  BY <1>1, SoundGrows DEF InFlight, Resumable
<1>3. QED
  BY <1>1, <1>2 DEF InFlight, Resumable

\* The current plan may lose nodes, and gain nodes that are new to the run.
LEMMA InFlightMoves ==
  ASSUME NEW p, NEW current, NEW next, NEW done, NEW kn, NEW kn2, NEW r,
         InFlight(p, current, done, kn, r), kn \subseteq kn2,
         \A n \in DOMAIN next :
           (n \in DOMAIN current /\ next[n] = current[n]) \/ n \notin kn
  PROVE  InFlight(p, next, done, kn2, r)
BY DEF InFlight

\* What waits to be written stays in flight when a plan in flight joins the queue.
LEMMA QueuedInFlight ==
  ASSUME QueueOK(queue), NEW p, NEW current, NEW done, NEW kn, NEW r,
         \A i \in DOMAIN queue : InFlight(queue[i], current, done, kn, r),
         InFlight(p, current, done, kn, r)
  PROVE  \A i \in DOMAIN Queued(p) : InFlight(Queued(p)[i], current, done, kn, r)
<1> DEFINE S == {queue[i] : i \in DOMAIN queue}
<1>1. queue \in Seq(S)
  BY DEF QueueOK
<1>2. \A i \in DOMAIN Queued(p) :
        Queued(p)[i] = p \/ \E j \in DOMAIN queue : Queued(p)[i] = queue[j]
  BY <1>1, QueuedMembers
<1>3. QED
  BY <1>2

\* A step that leaves the results alone and announces the state.
LEMMA AnnounceStep ==
  ASSUME QueueOK(queue), RunInv, UNCHANGED <<plan, results, ran, known, disk>>,
         queue' = Queued(plan)
  PROVE  /\ InFlight(plan, plan, Done(results), known, ran)'
         /\ \A i \in DOMAIN queue' :
              InFlight(queue'[i], plan', Done(results)', known', ran')
         /\ Resumable(disk.plan, Done(disk.results), ran)'
         /\ (Done(results) \subseteq known)'
<1>1. \A i \in DOMAIN Queued(plan) :
        InFlight(Queued(plan)[i], plan, Done(results), known, ran)
  BY QueuedInFlight DEF RunInv
<1>2. QED
  BY <1>1 DEF RunInv, Done

-----------------------------------------------------------------------------
(* The invariant of the loop *)

\* Done nodes stay done, and only they count as completed.
LEMMA DoneStep ==
  ASSUME TypeInv, DoneInv, [Next]_vars
  PROVE  DoneInv'
<1>1. CASE Select
  <2> DEFINE skipped == {n \in Ready : ~ShouldRun(n)}
  <2>1. /\ completed' = completed \cup skipped /\ batch' = Ready \ skipped
        /\ results' = [n \in Node |-> IF n \in skipped THEN Skipped ELSE results[n]]
        /\ pc' \in {"select", "running"} /\ UNCHANGED disk /\ pc = "select"
    BY <1>1 DEF Select
  <2>2. skipped \subseteq Node /\ Ready \cap completed = {}
    BY DEF Ready, SelectReadyNodes, TypeInv, TypeOK, IsPlan
  <2> HIDE DEF skipped
  <2>3. Done(results') = Done(results) \cup skipped
    BY <2>1, <2>2 DEF Done, Skipped
  <2>4. batch' \cap completed' = {}
    BY <2>1, <2>2
  <2>5. Done(results)' = Done(results') /\ Done(disk.results)' = Done(disk.results)
    BY <2>1 DEF Done
  <2>6. QED
    BY <2>1, <2>3, <2>4, <2>5 DEF DoneInv
<1>2. CASE BatchEnds
  <2>1. PICK failed \in SUBSET (batch \cap MayFail),
             decision \in [batch \cap MayDecide -> Decision] :
          /\ results' = [n \in Node |->
               IF n \in batch
               THEN [status |-> IF n \in failed THEN "failed" ELSE "passed",
                     payload |-> IF n \in MayDecide THEN decision[n] ELSE "none"]
               ELSE results[n]]
          /\ IF failed = {}
             THEN pc' = "expand" /\ UNCHANGED <<completed, batch>>
             ELSE completed' = completed \cup (batch \ failed) /\ pc' = "replan"
    BY <1>2 DEF BatchEnds
  <2>2. completed = Done(results) /\ batch \cap completed = {} /\ batch \subseteq Node
        /\ UNCHANGED disk
    BY <1>2 DEF BatchEnds, DoneInv, TypeInv, TypeOK
  <2>3. Done(results') = Done(results) \cup (batch \ failed)
    BY <2>1, <2>2 DEF Done
  <2>4. Done(results)' = Done(results') /\ Done(disk.results)' = Done(disk.results)
    BY <2>2 DEF Done
  <2>5. CASE failed = {}
    BY <2>1, <2>2, <2>3, <2>4, <2>5 DEF DoneInv
  <2>6. CASE failed # {}
    BY <2>1, <2>2, <2>3, <2>4, <2>6 DEF DoneInv
  <2>7. QED
    BY <2>5, <2>6
<1>3. CASE ExpandOne
  <2>1. PICK n \in batch : completed' = completed \cup {n} /\ batch' = batch \ {n}
    BY <1>3 DEF ExpandOne
  <2>2. /\ pc = "expand" /\ pc' = IF batch' = {} THEN "select" ELSE "expand"
        /\ Done(results)' = Done(results) /\ Done(disk.results)' = Done(disk.results)
    BY <1>3 DEF ExpandOne, sharedVars, Done
  <2>3. QED
    BY <2>1, <2>2 DEF DoneInv
<1>4. CASE Persist
  <2>1. disk'.results = results /\ UNCHANGED <<pc, completed, batch, results>>
    BY <1>4 DEF Persist, loopVars, sharedVars
  <2>2. Done(disk.results)' = Done(results) /\ Done(results)' = Done(results)
    BY <2>1 DEF Done
  <2>3. QED
    BY <2>1, <2>2 DEF DoneInv
<1>5. CASE Resume
  <2>1. /\ completed' = Done(results') /\ pc' = "gate" /\ UNCHANGED disk
        /\ results' = [n \in Node |-> IF n \in Done(disk.results) THEN disk.results[n]
                                     ELSE NoResult]
    BY <1>5 DEF Resume
  <2>2. Done(disk.results)' = Done(disk.results) /\ Done(results)' = Done(results')
    BY <2>1 DEF Done
  <2>3. Done(disk.results) \subseteq Done(results')
    BY <2>1 DEF Done
  <2>4. QED
    BY <2>1, <2>2, <2>3 DEF DoneInv
<1>6. CASE PreRunGate \/ Pass \/ ReplanFails \/ Replan \/ ExpansionFails \/ Crash
           \/ UNCHANGED vars
  <2>1. UNCHANGED <<completed, results, disk>>
    BY <1>6 DEF PreRunGate, Pass, ReplanFails, Replan, ExpansionFails, Crash, vars,
                loopVars, sharedVars
  <2>2. \/ UNCHANGED <<pc, batch>> \/ pc' \in {"failed", "dead"}
        \/ pc \in {"gate", "select", "replan"} /\ pc' \in {"select", "passed"}
    BY <1>6 DEF PreRunGate, Pass, ReplanFails, Replan, ExpansionFails, Crash, vars, loopVars
  <2>3. Done(disk.results)' = Done(disk.results) /\ Done(results)' = Done(results)
    BY <2>1 DEF Done
  <2>4. QED
    BY <2>1, <2>2, <2>3 DEF DoneInv
<1>7. QED
  BY <1>1, <1>2, <1>3, <1>4, <1>5, <1>6 DEF Next, RunStep

\* Trust is lost for good.
LEMMA TrustIsOld ==
  ASSUME [Next]_vars, trusted'
  PROVE  trusted
BY DEF Next, RunStep, PreRunGate, Select, Pass, BatchEnds, ReplanFails, Replan, ExpandOne,
       ExpansionFails, Persist, Crash, Resume, vars, history

LEMMA InitRunInv ==
  ASSUME Init
  PROVE  DoneInv /\ (trusted => RunInv)
<1>1. Done(results) = {} /\ Done(disk.results) = {}
  BY DEF Init, Done, NoResult
<1>2. DoneInv
  BY <1>1 DEF Init, DoneInv
<1>3. ASSUME trusted PROVE RunInv
  <2>0. VerifyWorkflowPlan(plan) /\ Closed(plan, {})
    BY <1>3 DEF Init, Closed
  <2>1. Sound(plan, {})
    BY <2>0, VerifiedIsSound
  <2>2. InFlight(plan, plan, Done(results), known, ran)
    BY <1>1, <2>1 DEF Init, InFlight, Resumable
  <2>3. QED
    BY <1>1, <2>2 DEF Init, RunInv, InFlight
<1>4. QED
  BY <1>2, <1>3

LEMMA SelectStep ==
  ASSUME TypeInv, DoneInv, RunInv, Select
  PROVE  RunInv'
<1> DEFINE skipped == {n \in Ready : ~ShouldRun(n)}
<1>1. /\ completed' = completed \cup skipped /\ batch' = Ready \ skipped
      /\ results' = [n \in Node |-> IF n \in skipped THEN Skipped ELSE results[n]]
      /\ ran' = ran \cup {<<n, plan[n]>> : n \in skipped}
      /\ pc' = IF batch' = {} THEN "select" ELSE "running"
      /\ queue' = Queued(plan) /\ UNCHANGED <<plan, known, disk>> /\ pc = "select"
  BY DEF Select
<1>2. completed = Done(results) /\ IsPlan(plan) /\ QueueOK(queue)
  BY <1>1 DEF DoneInv, TypeInv, TypeOK, QueueOK
<1>3. skipped \subseteq DOMAIN plan \ completed
      /\ \A n \in skipped : plan[n].dependsOn \subseteq completed
  BY DEF Ready, SelectReadyNodes
<1>4. DOMAIN plan \subseteq Node
  BY <1>2 DEF IsPlan
<1> HIDE DEF skipped
<1>5. Done(results)' = Done(results) \cup skipped
  BY <1>1, <1>3, <1>4 DEF Done, Skipped
<1>6. ASSUME NEW p, InFlight(p, plan, Done(results), known, ran)
      PROVE  InFlight(p, plan, Done(results)', known, ran')
  BY <1>1, <1>2, <1>3, <1>5, <1>6, InFlightGrows
<1>7. InFlight(plan, plan, Done(results)', known, ran')
  BY <1>6 DEF RunInv
<1>8. \A i \in DOMAIN queue' : InFlight(queue'[i], plan', Done(results)', known', ran')
  <2>1. \A i \in DOMAIN queue : InFlight(queue[i], plan, Done(results)', known, ran')
    BY <1>6 DEF RunInv
  <2>2. QED
    BY <1>1, <1>2, <1>7, <2>1, QueuedInFlight
<1>9. Resumable(disk.plan, Done(disk.results), ran)'
  BY <1>1 DEF RunInv, Resumable
<1>10. batch' \subseteq SelectReadyNodes(plan, completed)'
  BY <1>1, <1>3 DEF Ready, SelectReadyNodes
<1>11. (Done(results) \subseteq known)'
  BY <1>1, <1>3, <1>5 DEF RunInv, InFlight
<1>12. QED
  BY <1>1, <1>7, <1>8, <1>9, <1>10, <1>11 DEF RunInv

LEMMA BatchStep ==
  ASSUME TypeInv, DoneInv, RunInv, BatchEnds
  PROVE  RunInv'
<1>1. PICK failed \in SUBSET (batch \cap MayFail),
           decision \in [batch \cap MayDecide -> Decision] :
     LET passed == batch \ failed
         Answer(n) == IF n \in MayDecide THEN decision[n] ELSE "none"
     IN /\ results' = [n \in Node |->
             IF n \in batch
             THEN [status |-> IF n \in failed THEN "failed" ELSE "passed",
                   payload |-> Answer(n)]
             ELSE results[n]]
        /\ ran' = ran \cup {<<n, plan[n]>> : n \in passed}
        /\ IF failed = {}
           THEN pc' = "expand" /\ UNCHANGED <<completed, batch, queue>>
           ELSE /\ completed' = completed \cup passed
                /\ batch' = failed
                /\ pc' = "replan"
                /\ queue' = Queued(plan)
  BY DEF BatchEnds
<1> DEFINE passed == batch \ failed
<1>2. pc = "running" /\ UNCHANGED <<plan, known, disk>>
  BY DEF BatchEnds
<1>3. completed = Done(results) /\ IsPlan(plan) /\ QueueOK(queue)
      /\ batch \subseteq SelectReadyNodes(plan, completed) /\ batch \subseteq Node
  BY <1>2 DEF RunInv, DoneInv, TypeInv, TypeOK, QueueOK
<1>4. batch \subseteq DOMAIN plan \ completed
      /\ \A n \in batch : plan[n].dependsOn \subseteq completed
  BY <1>3 DEF SelectReadyNodes
<1>5. Done(results)' = Done(results) \cup passed
  BY <1>1, <1>3, <1>4 DEF Done
<1>6. ASSUME NEW p, InFlight(p, plan, Done(results), known, ran)
      PROVE  InFlight(p, plan, Done(results)', known, ran')
  <2>1. ran' = ran \cup {<<n, plan[n]>> : n \in passed}
    BY <1>1
  <2>2. \A n \in Done(results)' \ Done(results) :
          n \in DOMAIN plan /\ plan[n].dependsOn \subseteq Done(results)'
          /\ <<n, plan[n]>> \in ran'
    BY <2>1, <1>3, <1>4, <1>5
  <2>3. QED
    BY <2>1, <2>2, <1>5, <1>6, InFlightGrows
<1>7. InFlight(plan, plan, Done(results)', known, ran')
  BY <1>6 DEF RunInv
<1>8. \A i \in DOMAIN queue' : InFlight(queue'[i], plan', Done(results)', known', ran')
  <2>1. \A i \in DOMAIN queue : InFlight(queue[i], plan, Done(results)', known, ran')
    BY <1>6 DEF RunInv
  <2>2. queue' = queue \/ queue' = Queued(plan)
    BY <1>1
  <2>3. QED
    BY <1>2, <1>3, <1>7, <2>1, <2>2, QueuedInFlight
<1>9. Resumable(disk.plan, Done(disk.results), ran)'
  BY <1>1, <1>2 DEF RunInv, Resumable
<1>10. (Done(results) \subseteq known)'
  BY <1>2, <1>4, <1>5 DEF RunInv, InFlight
<1>11. pc' \in {"expand", "replan"}
  BY <1>1
<1>12. QED
  BY <1>2, <1>7, <1>8, <1>9, <1>10, <1>11 DEF RunInv

LEMMA ReplanStep ==
  ASSUME TypeInv, DoneInv, RunInv, Replan, trusted'
  PROVE  RunInv'
<1>1. PICK patch \in AcceptedPatches :
        /\ plan' = ApplyReplanPatch(plan, patch, completed)
        /\ known' = known \cup DOMAIN patch.newNodes
        /\ trusted' = (trusted /\ Fresh(patch.newNodes))
  BY DEF Replan
<1>2. /\ pc = "replan" /\ pc' = "select" /\ queue' = Queued(plan') /\ batch' = {}
      /\ UNCHANGED <<completed, results, disk, ran>>
  BY DEF Replan
<1>3. completed = Done(results) /\ QueueOK(queue) /\ Done(results) \subseteq known
      /\ DOMAIN plan \subseteq known
  BY <1>2 DEF RunInv, DoneInv, InFlight, TypeInv, TypeOK, QueueOK
<1>4. VerifyWorkflowReplanPatch(plan, patch, completed)
      /\ (DOMAIN patch.newNodes \ DOMAIN plan) \cap known = {}
  BY <1>1 DEF AcceptedPatches, Fresh
<1>5. DOMAIN patch.newNodes \cap known = {}
  BY <1>4 DEF VerifyWorkflowReplanPatch
<1>6. Sound(plan', Done(results))
  BY <1>1, <1>3, <1>4, <1>5, PatchedIsSound DEF RunInv, InFlight, Resumable
<1>7. \A n \in DOMAIN plan' : \/ n \in DOMAIN plan /\ plan'[n] = plan[n]
                              \/ n \in DOMAIN patch.newNodes
  BY <1>1 DEF ApplyReplanPatch, With, Without
<1>8. InFlight(plan', plan', Done(results), known', ran)
  BY <1>1, <1>3, <1>5, <1>6, <1>7 DEF RunInv, InFlight, Resumable
<1>9. \A i \in DOMAIN queue : InFlight(queue[i], plan', Done(results), known', ran)
  BY <1>1, <1>5, <1>7, InFlightMoves DEF RunInv
<1>10. \A i \in DOMAIN queue' : InFlight(queue'[i], plan', Done(results), known', ran)
  BY <1>2, <1>3, <1>8, <1>9, QueuedInFlight
<1>11. UNCHANGED <<Done(results), Done(disk.results)>>
  BY <1>2 DEF Done
<1>12. QED
  BY <1>1, <1>2, <1>3, <1>8, <1>10, <1>11 DEF RunInv

LEMMA ExpandStep ==
  ASSUME TypeInv, DoneInv, RunInv, ExpandOne, trusted'
  PROVE  RunInv'
<1>1. PICK n \in batch :
     /\ \/ UNCHANGED <<plan, known>>
        \/ \E new \in AcceptedExpansions(n) :
             /\ plan' = With(plan, new)
             /\ known' = known \cup DOMAIN new
             /\ trusted' = (trusted /\ Fresh(new))
     /\ batch' = batch \ {n}
  BY DEF ExpandOne
<1>2. /\ pc = "expand" /\ queue' = Queued(plan')
      /\ pc' = IF batch' = {} THEN "select" ELSE "expand"
      /\ UNCHANGED <<results, disk, ran>>
  BY DEF ExpandOne, sharedVars
<1>3. /\ Done(results) = completed \cup batch /\ QueueOK(queue)
      /\ Done(results) \subseteq known /\ DOMAIN plan \subseteq known
      /\ Sound(plan, Done(results))
  <2>1. QueueOK(queue)
    BY DEF TypeInv, TypeOK, QueueOK
  <2>2. QED
    BY <1>2, <2>1 DEF RunInv, DoneInv, InFlight, Resumable
<1>4. /\ Sound(plan', Done(results)) /\ known \subseteq known' /\ DOMAIN plan' \subseteq known'
      /\ \A m \in DOMAIN plan' : (m \in DOMAIN plan /\ plan'[m] = plan[m]) \/ m \notin known
  <2>1. CASE UNCHANGED <<plan, known>>
    BY <2>1, <1>3
  <2>2. ASSUME NEW new \in AcceptedExpansions(n), plan' = With(plan, new),
               known' = known \cup DOMAIN new, trusted' = (trusted /\ Fresh(new))
        PROVE  /\ Sound(plan', Done(results)) /\ known \subseteq known'
               /\ DOMAIN plan' \subseteq known'
               /\ \A m \in DOMAIN plan' :
                    (m \in DOMAIN plan /\ plan'[m] = plan[m]) \/ m \notin known
    <3>1. (DOMAIN new \ DOMAIN plan) \cap known = {}
      BY <2>2 DEF Fresh
    <3>2. DOMAIN With(plan, new) = DOMAIN plan \cup DOMAIN new
          /\ \A m \in DOMAIN plan : With(plan, new)[m] = plan[m]
      BY DEF With
    <3>3. CASE DOMAIN new \subseteq DOMAIN plan
      <4>1. DOMAIN With(plan, new) = DOMAIN plan
        BY <3>2, <3>3
      <4>2. Sound(With(plan, new), Done(results))
        <5>1. \A a, b \in DOMAIN plan : Children(With(plan, new), a) = Children(plan, a)
          BY <3>2, <4>1 DEF Children
        <5>2. Closed(With(plan, new), Done(results)) /\ Grounded(With(plan, new), Done(results))
          BY <1>3, <3>2, <4>1 DEF Sound, Closed, Grounded
        <5>3. Acyclic(With(plan, new))
          BY <1>3, <3>2, <4>1 DEF Sound, Acyclic
        <5>4. Ordered(With(plan, new), Done(results))
          BY <1>3, <3>2, <4>1, <5>1 DEF Sound, Ordered, Reaches
        <5>5. QED
          BY <5>2, <5>3, <5>4 DEF Sound
      <4>3. QED
        BY <2>2, <3>2, <4>1, <4>2, <1>3
    <3>4. CASE VerifyWorkflowPlan(With(plan, new))
      BY <2>2, <3>1, <3>2, <3>4, <1>3, ExpandedIsSound
    <3>5. QED
      BY <3>3, <3>4 DEF AcceptedExpansions
  <2>3. QED
    BY <1>1, <2>1, <2>2
<1>5. ASSUME NEW p, InFlight(p, plan, Done(results), known, ran)
      PROVE  InFlight(p, plan', Done(results), known', ran)
  BY <1>4, <1>5, InFlightMoves
<1>6. InFlight(plan', plan', Done(results), known', ran)
  BY <1>3, <1>4 DEF RunInv, InFlight, Resumable
<1>7. \A i \in DOMAIN queue : InFlight(queue[i], plan', Done(results), known', ran)
  BY <1>5 DEF RunInv
<1>8. \A i \in DOMAIN queue' : InFlight(queue'[i], plan', Done(results), known', ran)
  BY <1>2, <1>3, <1>6, <1>7, QueuedInFlight
<1>9. UNCHANGED <<Done(results), Done(disk.results)>>
  BY <1>2 DEF Done
<1>10. QED
  BY <1>1, <1>2, <1>3, <1>4, <1>6, <1>8, <1>9 DEF RunInv

LEMMA PersistStep ==
  ASSUME TypeInv, DoneInv, RunInv, Persist
  PROVE  RunInv'
<1>1. QueueOK(queue) /\ queue # <<>> /\ queue' = Tail(queue)
      /\ disk' = [plan |-> Head(queue), results |-> results, replans |-> replans]
      /\ UNCHANGED <<pc, plan, completed, batch, results, known, ran>>
  BY DEF Persist, loopVars, sharedVars, history, TypeInv, TypeOK, QueueOK
<1>2. Head(queue) = queue[1] /\ 1 \in DOMAIN queue
      /\ \A i \in DOMAIN Tail(queue) : \E j \in DOMAIN queue : Tail(queue)[i] = queue[j]
  BY <1>1, TailMembers DEF QueueOK
<1>3. Resumable(disk'.plan, Done(results), ran)
  BY <1>1, <1>2 DEF RunInv, InFlight
<1>4. Done(results)' = Done(results) /\ Done(disk'.results) = Done(results)
  BY <1>1 DEF Done
<1>5. QED
  BY <1>1, <1>2, <1>3, <1>4 DEF RunInv

LEMMA ResumeStep ==
  ASSUME TypeInv, DoneInv, RunInv, Resume
  PROVE  RunInv'
<1> DEFINE done == Done(disk.results)
<1>1. /\ plan' = disk.plan /\ completed' = Done(results')
      /\ results' = [n \in Node |-> IF n \in done THEN disk.results[n] ELSE NoResult]
      /\ known' = DOMAIN disk.plan \cup completed' /\ pc' = "gate"
      /\ queue' = <<disk.plan>> /\ UNCHANGED <<disk, ran>>
  BY DEF Resume
<1>2. Done(results)' = done /\ Done(disk.results)' = done
  BY <1>1 DEF Done, NoResult
<1>3. Resumable(disk.plan, done, ran)
  BY DEF RunInv
<1>4. InFlight(plan, plan, Done(results), known, ran)'
  BY <1>1, <1>2, <1>3 DEF InFlight
<1>5. \A i \in DOMAIN queue' : queue'[i] = plan'
  BY <1>1
<1>6. QED
  BY <1>1, <1>2, <1>3, <1>4, <1>5 DEF RunInv

LEMMA RunInvStep ==
  ASSUME TypeInv, DoneInv, RunInv, [Next]_vars, trusted'
  PROVE  RunInv'
<1>q. QueueOK(queue)
  BY DEF TypeInv, TypeOK, QueueOK
<1>1. CASE PreRunGate
  <2>1. UNCHANGED <<plan, completed, results, ran, known, disk>> /\ pc = "gate"
        /\ pc' \in {"select", "failed"} /\ queue' = Queued(plan)
    BY <1>1 DEF PreRunGate, loopVars, sharedVars, history
  <2>2. Done(results)' = Done(results)
    BY <2>1 DEF Done
  <2>3. QED
    BY <2>1, <2>2, <1>q, AnnounceStep DEF RunInv
<1>2. CASE Select
  BY <1>2, SelectStep
<1>3. CASE Pass
  <2>1. UNCHANGED <<plan, completed, batch, results, ran, known, disk>> /\ pc = "select"
        /\ pc' = "passed" /\ queue' = Queued(plan)
        /\ SelectReadyNodes(plan, completed) = {}
    BY <1>3 DEF Pass, loopVars, sharedVars, history, Ready
  <2>2. completed = Done(results) /\ Sound(plan, completed)
    BY <2>1 DEF RunInv, DoneInv, InFlight, Resumable
  <2>3. DOMAIN plan \subseteq completed
    BY <2>1, <2>2, SomethingIsReady
  <2>4. Done(results)' = Done(results)
    BY <2>1 DEF Done
  <2>5. QED
    BY <2>1, <2>2, <2>3, <2>4, <1>q, AnnounceStep DEF RunInv
<1>4. CASE BatchEnds
  BY <1>4, BatchStep
<1>5. CASE ReplanFails
  <2>1. UNCHANGED <<plan, completed, results, ran, known, disk>>
        /\ pc' = "failed" /\ queue' = Queued(plan)
    BY <1>5 DEF ReplanFails, sharedVars, history
  <2>2. Done(results)' = Done(results)
    BY <2>1 DEF Done
  <2>3. QED
    BY <2>1, <2>2, <1>q, AnnounceStep DEF RunInv
<1>6. CASE Replan
  BY <1>6, ReplanStep
<1>7. CASE ExpandOne
  BY <1>7, ExpandStep
<1>8. CASE ExpansionFails
  <2>1. UNCHANGED <<plan, completed, results, ran, known, disk>>
        /\ pc' = "failed" /\ queue' = Queued(plan)
    BY <1>8 DEF ExpansionFails, sharedVars, history
  <2>2. Done(results)' = Done(results)
    BY <2>1 DEF Done
  <2>3. QED
    BY <2>1, <2>2, <1>q, AnnounceStep DEF RunInv
<1>9. CASE Persist
  BY <1>9, PersistStep
<1>10. CASE Crash
  <2>1. UNCHANGED <<plan, completed, results, ran, known, disk>>
        /\ pc' = "dead" /\ queue' = <<>>
    BY <1>10 DEF Crash, sharedVars, history
  <2>2. Done(results)' = Done(results)
    BY <2>1 DEF Done
  <2>3. QED
    BY <2>1, <2>2 DEF RunInv
<1>11. CASE Resume
  BY <1>11, ResumeStep
<1>12. CASE UNCHANGED vars
  <2>1. UNCHANGED <<pc, plan, completed, batch, results, queue, disk, ran, known>>
    BY <1>12 DEF vars, loopVars, sharedVars, history
  <2>2. Done(results)' = Done(results)
    BY <2>1 DEF Done
  <2>3. QED
    BY <2>1, <2>2 DEF RunInv
<1>13. QED
  BY <1>1, <1>2, <1>3, <1>4, <1>5, <1>6, <1>7, <1>8, <1>9, <1>10, <1>11, <1>12
     DEF Next, RunStep

LEMMA RunInvariants ==
  ASSUME RunnerAssumption
  PROVE  Spec => [](TypeInv /\ DoneInv /\ (trusted => RunInv))
<1>1. Init => TypeInv /\ DoneInv /\ (trusted => RunInv)
  BY InitIsTyped, InitRunInv
<1>2. TypeInv /\ [Next]_vars => TypeInv'
  <2>1. CASE Next
    BY <2>1, TypeStep
  <2>2. CASE UNCHANGED vars
    BY <2>2 DEF vars, loopVars, sharedVars, history, TypeInv, TypeOK
  <2>3. QED
    BY <2>1, <2>2
<1>3. TypeInv /\ DoneInv /\ [Next]_vars => DoneInv'
  BY DoneStep
<1>4. TypeInv /\ DoneInv /\ (trusted => RunInv) /\ [Next]_vars => (trusted => RunInv)'
  BY TrustIsOld, RunInvStep
<1>5. QED
  BY <1>1, <1>2, <1>3, <1>4, PTL DEF Spec

-----------------------------------------------------------------------------

\* Two single-writer nodes are never started in one batch of a run that began with
\* a plan the verifier accepts and in which no id was reused.
THEOREM WritersRunAlone ==
  ASSUME RunnerAssumption
  PROVE  Spec => []WritersAlone
<1>1. DoneInv /\ (trusted => RunInv) => WritersAlone
  <2> SUFFICES ASSUME DoneInv, RunInv, pc = "running", NEW a \in batch, NEW b \in batch,
                      plan[a].writer, plan[b].writer
               PROVE  a = b
    BY DEF WritersAlone
  <2>1. Sound(plan, completed) /\ batch \subseteq SelectReadyNodes(plan, completed)
    BY DEF RunInv, DoneInv, InFlight, Resumable
  <2>2. QED
    BY <2>1, ReadyWritersAlone
<1>2. QED
  BY <1>1, RunInvariants, PTL

\* A run that passes has run or skipped each node of its plan as it is defined, if
\* it began with a plan the verifier accepts and no id was reused.
THEOREM PassedRunsAreComplete ==
  ASSUME RunnerAssumption
  PROVE  Spec => []PassedRunIsComplete
<1>1. DoneInv /\ (trusted => RunInv) => PassedRunIsComplete
  BY DEF RunInv, DoneInv, InFlight, Resumable, PassedRunIsComplete
<1>2. QED
  BY <1>1, RunInvariants, PTL

\* A run can go on from every snapshot that is ever on the disk, if it began with a
\* plan the verifier accepts and no id was reused.
THEOREM SnapshotsAreClosed ==
  ASSUME RunnerAssumption
  PROVE  Spec => []SnapshotIsClosed
<1>1. (trusted => RunInv) => SnapshotIsClosed
  BY DEF RunInv, Resumable, Sound, Closed, Grounded, SnapshotIsClosed
<1>2. QED
  BY <1>1, RunInvariants, PTL

\* What a snapshot records as done is never started again: for every plan, verified
\* or not, and whatever ids the planners reuse.
THEOREM DoneIsNotRunAgain ==
  ASSUME RunnerAssumption
  PROVE  Spec => NotRunAgain
<1>1. DoneInv /\ [Next]_vars => [\A n \in Done(disk.results) : n \notin batch' \ batch]_vars
  <2> SUFFICES ASSUME DoneInv, Next
               PROVE  Done(disk.results) \cap (batch' \ batch) = {}
    OBVIOUS
  <2>1. CASE Select
    <3>1. completed = Done(results) /\ Done(disk.results) \subseteq Done(results)
      BY <2>1 DEF Select, DoneInv
    <3>2. batch' \subseteq SelectReadyNodes(plan, completed)
      BY <2>1 DEF Select, Ready
    <3>3. QED
      BY <3>1, <3>2 DEF SelectReadyNodes
  <2>2. CASE ~Select
    <3>1. batch' \subseteq batch
      BY <2>2 DEF Next, RunStep, PreRunGate, Pass, BatchEnds, ReplanFails, Replan,
                  ExpandOne, ExpansionFails, Persist, Crash, Resume, loopVars
    <3>2. QED
      BY <3>1
  <2>3. QED
    BY <2>1, <2>2
<1>2. QED
  BY <1>1, RunInvariants, PTL DEF Spec, NotRunAgain

-----------------------------------------------------------------------------
(* Implementations are verified *)

\* The nodes of a plan as it defines them.
Definitions(p) == {<<n, p[n]>> : n \in DOMAIN p}

\* Each implementation that has run or is planned has a verification that waits
\* for it, which has run or is planned as well.
FollowedUp(all) ==
  \A r \in all : r[2].kind = "implementation" =>
    \E v \in all : IsVerification(v[2]) /\ r[1] \in v[2].dependsOn

\* Before the first replan of a trusted run nothing that has run is missing in the
\* plan, which is verified; up to the second nothing is left without its
\* verification.
VerifiedSoFar ==
  resumes = 0 =>
    /\ \A r \in ran : r[1] \in Done(results)
    /\ replans <= 1 => FollowedUp(ran \cup Definitions(plan))
    /\ replans = 0 => VerifyWorkflowPlan(plan) /\ ran \subseteq Definitions(plan)

\* Only verifications may follow an implementation, so the one that the verifier
\* finds downstream has one right behind the implementation.
LEMMA VerificationIsNext ==
  ASSUME NEW p, VerifyWorkflowPlan(p)
  PROVE  FollowedUp(Definitions(p))
<1> SUFFICES ASSUME NEW n \in DOMAIN p, p[n].kind = "implementation"
             PROVE  \E c \in DOMAIN p : IsVerification(p[c]) /\ n \in p[c].dependsOn
  <2>1. ASSUME NEW r \in Definitions(p), r[2].kind = "implementation",
               \A n \in DOMAIN p : p[n].kind = "implementation" =>
                 \E c \in DOMAIN p : IsVerification(p[c]) /\ n \in p[c].dependsOn
        PROVE  \E v \in Definitions(p) : IsVerification(v[2]) /\ r[1] \in v[2].dependsOn
    <3>1. PICK n \in DOMAIN p : r = <<n, p[n]>>
      BY DEF Definitions
    <3>2. PICK c \in DOMAIN p : IsVerification(p[c]) /\ n \in p[c].dependsOn
      BY <2>1, <3>1
    <3>3. <<c, p[c]>> \in Definitions(p)
      BY DEF Definitions
    <3>4. QED
      BY <3>1, <3>2, <3>3
  <2>2. QED
    BY <2>1 DEF FollowedUp
<1>1. PICK m \in DOMAIN p : Reaches(p, n, m)
  BY DEF VerifyWorkflowPlan, HasDownstreamVerification
<1>2. PICK c \in Children(p, n) : TRUE
  <2>1. {} \in SUBSET DOMAIN p /\ \A k \in {} : Children(p, k) \subseteq {}
    OBVIOUS
  <2>2. Children(p, n) # {}
    BY <1>1, <2>1 DEF Reaches
  <2>3. QED
    BY <2>2
<1>3. c \in DOMAIN p /\ n \in p[c].dependsOn
  BY DEF Children
<1>4. p[c].kind \in AllowedTransitions["implementation"]
  BY <1>3 DEF VerifyWorkflowPlan, TransitionsAllowed
<1>5. AllowedTransitions["implementation"] = {"verification"}
  BY DEF AllowedTransitions
<1>6. QED
  BY <1>3, <1>4, <1>5 DEF IsVerification

\* More of a verified plan keeps what is followed up.
LEMMA FollowedUpGrows ==
  ASSUME NEW all, NEW p, FollowedUp(all), VerifyWorkflowPlan(p)
  PROVE  FollowedUp(all \cup Definitions(p))
BY VerificationIsNext DEF FollowedUp

\* Nothing the property is about changes.
LEMMA VerifiedStays ==
  ASSUME VerifiedSoFar, UNCHANGED <<plan, results, replans, resumes, ran>>
  PROVE  VerifiedSoFar'
BY DEF VerifiedSoFar, Done

\* What runs was planned.
LEMMA VerifiedRunsOn ==
  ASSUME VerifiedSoFar, UNCHANGED <<plan, replans, resumes>>,
         ran \subseteq ran', ran' \subseteq ran \cup Definitions(plan),
         \A n \in Done(results) : n \in Done(results'),
         \A r \in ran' \ ran : r[1] \in Done(results')
  PROVE  VerifiedSoFar'
<1>1. ran' \cup Definitions(plan) = ran \cup Definitions(plan)
  OBVIOUS
<1>2. Done(results)' = Done(results')
  BY DEF Done
<1>3. ASSUME resumes = 0, NEW r \in ran' PROVE r[1] \in Done(results')
  BY <1>3 DEF VerifiedSoFar
<1>4. QED
  BY <1>1, <1>2, <1>3 DEF VerifiedSoFar

LEMMA VerifiedSelect ==
  ASSUME TypeInv, VerifiedSoFar, Select
  PROVE  VerifiedSoFar'
<1> DEFINE skipped == {n \in Ready : ~ShouldRun(n)}
<1>1. /\ results' = [n \in Node |-> IF n \in skipped THEN Skipped ELSE results[n]]
      /\ ran' = ran \cup {<<n, plan[n]>> : n \in skipped}
      /\ UNCHANGED <<plan, replans, resumes>>
  BY DEF Select
<1>2. skipped \subseteq DOMAIN plan
  BY DEF Ready, SelectReadyNodes
<1>3. \A n \in Done(results) : n \in Done(results')
  BY <1>1 DEF Done, Skipped
<1>4. \A n \in skipped : n \in Done(results')
  BY <1>1, <1>2 DEF Done, Skipped, TypeInv, TypeOK, IsPlan
<1>5. QED
  BY <1>1, <1>2, <1>3, <1>4, VerifiedRunsOn DEF Definitions

LEMMA VerifiedBatch ==
  ASSUME TypeInv, DoneInv, VerifiedSoFar, BatchEnds
  PROVE  VerifiedSoFar'
<1>1. PICK failed \in SUBSET (batch \cap MayFail) :
        /\ \E answer : results' = [n \in Node |->
             IF n \in batch
             THEN [status |-> IF n \in failed THEN "failed" ELSE "passed",
                   payload |-> answer[n]]
             ELSE results[n]]
        /\ ran' = ran \cup {<<n, plan[n]>> : n \in batch \ failed}
  <2>1. PICK failed \in SUBSET (batch \cap MayFail),
             decision \in [batch \cap MayDecide -> Decision] :
          /\ results' = [n \in Node |->
               IF n \in batch
               THEN [status |-> IF n \in failed THEN "failed" ELSE "passed",
                     payload |-> IF n \in MayDecide THEN decision[n] ELSE "none"]
               ELSE results[n]]
          /\ ran' = ran \cup {<<n, plan[n]>> : n \in batch \ failed}
    BY DEF BatchEnds
  <2> DEFINE answer == [n \in Node |-> IF n \in MayDecide THEN decision[n] ELSE "none"]
  <2>2. results' = [n \in Node |->
             IF n \in batch
             THEN [status |-> IF n \in failed THEN "failed" ELSE "passed",
                   payload |-> answer[n]]
             ELSE results[n]]
    BY <2>1
  <2>3. QED
    BY <2>1, <2>2
<1>2. UNCHANGED <<plan, replans, resumes>> /\ pc = "running"
  BY DEF BatchEnds
<1>3. batch \subseteq DOMAIN plan \ Done(results) /\ batch \subseteq Node
  BY <1>2 DEF DoneInv, TypeInv, TypeOK
<1>4. \A n \in Done(results) : n \in Done(results')
  BY <1>1, <1>3 DEF Done
<1>5. \A n \in batch \ failed : n \in Done(results')
  BY <1>1, <1>3 DEF Done
<1>6. QED
  BY <1>1, <1>2, <1>3, <1>4, <1>5, VerifiedRunsOn DEF Definitions

\* The patch is verified together with all that has run, of which it replaces
\* nothing: that is why the first patch cannot take a verification away.
LEMMA VerifiedReplan ==
  ASSUME TypeInv, DoneInv, RunInv, VerifiedSoFar, Replan, trusted'
  PROVE  VerifiedSoFar'
<1>1. PICK patch \in AcceptedPatches :
        /\ plan' = ApplyReplanPatch(plan, patch, completed)
        /\ trusted' = (trusted /\ Fresh(patch.newNodes))
  BY DEF Replan
<1>2. /\ pc = "replan" /\ replans' = replans + 1 /\ replans \in Nat
      /\ UNCHANGED <<results, resumes, ran>>
  BY DEF Replan, TypeInv, TypeOK
<1>3. completed = Done(results) /\ Done(results)' = Done(results)
  BY <1>2 DEF DoneInv, Done
<1>4. CASE resumes = 0 /\ replans = 0
  <2> DEFINE checked == With(Without(plan, patch.replace), patch.newNodes)
  <2>1. /\ DOMAIN checked = (DOMAIN plan \ patch.replace) \cup DOMAIN patch.newNodes
        /\ \A n \in DOMAIN checked :
             checked[n] = IF n \in DOMAIN plan \ patch.replace THEN plan[n]
                          ELSE patch.newNodes[n]
    BY DEF With, Without
  <2>2. /\ DOMAIN plan' = (DOMAIN plan \ (completed \cup patch.replace))
                            \cup DOMAIN patch.newNodes
        /\ \A n \in DOMAIN plan' :
             plan'[n] = IF n \in DOMAIN plan \ (completed \cup patch.replace) THEN plan[n]
                        ELSE patch.newNodes[n]
    BY <1>1 DEF ApplyReplanPatch, With, Without
  <2>3. /\ VerifyWorkflowPlan(checked) /\ patch.replace \subseteq DOMAIN plan \ completed
        /\ DOMAIN patch.newNodes \cap DOMAIN plan = {}
        /\ (DOMAIN patch.newNodes \ DOMAIN plan) \cap known = {}
    BY <1>1 DEF AcceptedPatches, VerifyWorkflowReplanPatch, Fresh
  <2>4. DOMAIN patch.newNodes \cap completed = {}
    BY <1>3, <2>3 DEF RunInv
  <2>5. \A n \in DOMAIN plan \cap completed : <<n, plan[n]>> \in ran
    BY <1>3 DEF RunInv, InFlight, Resumable
  <2>6. ran \subseteq Definitions(checked)
    <3>1. ASSUME NEW r \in ran PROVE r \in Definitions(checked)
      <4>1. PICK n \in DOMAIN plan : r = <<n, plan[n]>>
        BY <1>4 DEF VerifiedSoFar, Definitions
      <4>2. n \in completed
        BY <1>3, <1>4, <4>1 DEF VerifiedSoFar
      <4>3. n \in DOMAIN checked /\ checked[n] = plan[n]
        BY <2>1, <2>3, <4>2
      <4>4. QED
        BY <4>1, <4>3 DEF Definitions
    <3>2. QED
      BY <3>1
  <2> HIDE DEF checked
  <2>7. ASSUME NEW n \in DOMAIN checked
        PROVE  <<n, checked[n]>> \in ran \cup Definitions(plan')
    <3>1. CASE n \in completed
      BY <2>1, <2>4, <2>5, <3>1
    <3>2. CASE n \notin completed
      <4>1. n \in DOMAIN plan' /\ plan'[n] = checked[n]
        BY <2>1, <2>2, <3>2
      <4>2. QED
        BY <4>1 DEF Definitions
    <3>3. QED
      BY <3>1, <3>2
  <2>8. Definitions(plan') \subseteq Definitions(checked)
    <3>1. \A n \in DOMAIN plan' : n \in DOMAIN checked /\ plan'[n] = checked[n]
      BY <2>1, <2>2, <2>3
    <3>2. QED
      BY <3>1 DEF Definitions
  <2>9. ran \cup Definitions(plan') = Definitions(checked)
    BY <2>6, <2>7, <2>8 DEF Definitions
  <2>10. FollowedUp(ran \cup Definitions(plan'))
    BY <2>3, <2>9, VerificationIsNext
  <2>11. QED
    BY <1>2, <1>3, <1>4, <2>10 DEF VerifiedSoFar, Definitions
<1>5. CASE resumes = 0 /\ replans # 0
  BY <1>2, <1>3, <1>5 DEF VerifiedSoFar
<1>6. CASE resumes # 0
  BY <1>2, <1>6 DEF VerifiedSoFar
<1>7. QED
  BY <1>4, <1>5, <1>6

LEMMA VerifiedExpand ==
  ASSUME TypeInv, VerifiedSoFar, ExpandOne
  PROVE  VerifiedSoFar'
<1>1. \/ UNCHANGED plan
      \/ \E n \in batch : \E new \in AcceptedExpansions(n) : plan' = With(plan, new)
  BY DEF ExpandOne
<1>2. UNCHANGED <<results, replans, resumes, ran>>
  BY DEF ExpandOne, sharedVars
<1>3. CASE UNCHANGED plan
  BY <1>2, <1>3, VerifiedStays
<1>4. ASSUME NEW n \in batch, NEW new \in AcceptedExpansions(n), plan' = With(plan, new)
      PROVE  VerifiedSoFar'
  <2>1. CASE DOMAIN new \subseteq DOMAIN plan
    <3>1. plan = [m \in DOMAIN plan |-> plan[m]]
      BY DEF TypeInv, TypeOK, IsPlan
    <3>2. DOMAIN plan \cup DOMAIN new = DOMAIN plan
      BY <2>1
    <3>3. With(plan, new) = [m \in DOMAIN plan |-> plan[m]]
      BY <3>2 DEF With
    <3>4. QED
      BY <1>2, <1>4, <3>1, <3>3, VerifiedStays
  <2>2. CASE VerifyWorkflowPlan(With(plan, new))
    <3>1. Definitions(plan) \subseteq Definitions(plan')
      BY <1>4 DEF Definitions, With
    <3>2. ASSUME FollowedUp(ran \cup Definitions(plan))
          PROVE  FollowedUp(ran \cup Definitions(plan'))
      <4>1. FollowedUp((ran \cup Definitions(plan)) \cup Definitions(plan'))
        BY <1>4, <2>2, <3>2, FollowedUpGrows
      <4>2. (ran \cup Definitions(plan)) \cup Definitions(plan') = ran \cup Definitions(plan')
        BY <3>1
      <4>3. QED
        BY <4>1, <4>2
    <3>3. Done(results)' = Done(results) /\ VerifyWorkflowPlan(plan')
      BY <1>2, <1>4, <2>2 DEF Done
    <3>4. QED
      BY <1>2, <3>1, <3>2, <3>3 DEF VerifiedSoFar, Definitions, VerifyWorkflowPlan
  <2>3. QED
    BY <2>1, <2>2 DEF AcceptedExpansions
<1>5. QED
  BY <1>1, <1>3, <1>4

LEMMA VerifiedStep ==
  ASSUME TypeInv, DoneInv, RunInv, VerifiedSoFar, [Next]_vars, trusted'
  PROVE  VerifiedSoFar'
<1> USE DEF loopVars, sharedVars, history
<1>1. CASE Resume
  <2>1. resumes' = resumes + 1 /\ resumes \in Nat
    BY <1>1 DEF Resume, TypeInv, TypeOK
  <2>2. QED
    BY <2>1 DEF VerifiedSoFar
<1>2. CASE PreRunGate \/ Pass \/ ReplanFails \/ ExpansionFails \/ Persist \/ Crash
           \/ UNCHANGED vars
  <2>1. UNCHANGED <<plan, results, replans, resumes, ran>>
    BY <1>2 DEF PreRunGate, Pass, ReplanFails, ExpansionFails, Persist, Crash, vars
  <2>2. QED
    BY <2>1, VerifiedStays
<1>3. QED
  BY <1>1, <1>2, VerifiedSelect, VerifiedBatch, VerifiedReplan, VerifiedExpand
  DEF Next, RunStep

\* A run that began with a verified plan, reused no id, was not resumed and was
\* replanned at most once passes only when each implementation that it ran was
\* followed by its verification, whichever patches and expansions its planners wrote.
THEOREM ImplementationsVerifiedOnce ==
  ASSUME RunnerAssumption
  PROVE  Spec => []VerifiedAfterOneReplan
<1>1. Init => (trusted => VerifiedSoFar)
  <2> SUFFICES ASSUME Init, trusted PROVE VerifiedSoFar
    OBVIOUS
  <2>1. VerifyWorkflowPlan(plan) /\ ran = {}
    BY DEF Init
  <2>2. FollowedUp(ran \cup Definitions(plan))
    BY <2>1, FollowedUpGrows DEF FollowedUp
  <2>3. QED
    BY <2>1, <2>2 DEF VerifiedSoFar
<1>2. /\ TypeInv /\ DoneInv /\ (trusted => RunInv) /\ (trusted => VerifiedSoFar)
      /\ [Next]_vars
      => (trusted => VerifiedSoFar)'
  BY TrustIsOld, VerifiedStep
<1>3. DoneInv /\ (trusted => RunInv) /\ (trusted => VerifiedSoFar)
        => VerifiedAfterOneReplan
  <2> SUFFICES ASSUME DoneInv, RunInv, VerifiedSoFar, replans <= 1, resumes = 0,
                      pc = "passed"
               PROVE  FollowedUp(ran)
    BY DEF VerifiedAfterOneReplan, ImplementationsAreVerified, FollowedUp
  <2>1. Definitions(plan) \subseteq ran
    BY DEF RunInv, DoneInv, InFlight, Resumable, Definitions
  <2>2. ran \cup Definitions(plan) = ran
    BY <2>1
  <2>3. QED
    BY <2>2 DEF VerifiedSoFar
<1>4. QED
  BY <1>1, <1>2, <1>3, RunInvariants, PTL DEF Spec
=============================================================================
