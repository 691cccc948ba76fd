--------------------------- MODULE HerdrExecutor ---------------------------
(***************************************************************************)
(* The Herdr executor (src/submind/herdr.ts) and what it drives: one named *)
(* agent per attempt, all of them working in the work item's only          *)
(* worktree, whose .weavekit directory holds the files the agents write.   *)
(* The agents are external: they are modelled from what the executor asks  *)
(* of them and from what the prompt tells them to do.                      *)
(***************************************************************************)
EXTENDS SubmindContracts

VARIABLES
  agent,      \* agent[n]: what `herdr agent get` answers for attempt n's agent
  prompts,    \* prompts[n]: how many times attempt n's prompt was submitted
  marker,     \* the attempt named by mastermind-attempt.json, 0 for no file
  manifest    \* the result manifest in the worktree

herdrVars == <<agent, prompts, marker, manifest>>

AgentState == {"absent", "idle", "working", "blocked", "done"}

HerdrTypeOK ==
  /\ agent \in [AttemptNumber -> AgentState]
  /\ prompts \in [AttemptNumber -> Nat]
  /\ marker \in 0..AttemptBound
  /\ manifest \in Manifest

HerdrInit ==
  /\ agent = [n \in AttemptNumber |-> "absent"]
  /\ prompts = [n \in AttemptNumber |-> 0]
  /\ marker = 0
  /\ manifest = NoManifest

-----------------------------------------------------------------------------
(* What the executor observes *)

\* hasMatchingDispatchEvidence: the marker or the manifest is this attempt's.
DispatchEvidence(n) == marker = n \/ ReportsOn(manifest, n)

\* start refuses to adopt an idle agent that shows no sign of the prompt.
Ambiguous(n) == agent[n] = "idle" /\ ~DispatchEvidence(n)

\* Mutant: a working agent is reported as stopped.
Observable_WorkingIsTerminal(n) ==
  {"unknown"} \cup
  CASE agent[n] = "absent" -> {}
    [] agent[n] = "blocked" -> {"blocked"}
    [] agent[n] \in {"idle", "working", "done"} -> {"terminal"}

\* status: every error of `herdr agent get`, an unknown agent included, is
\* reported as the state "unknown".
Observable(n) ==
  {"unknown"} \cup
  CASE agent[n] = "absent" -> {}
    [] agent[n] = "working" -> {"working"}
    [] agent[n] = "blocked" -> {"blocked"}
    [] agent[n] \in {"idle", "done"} -> {"terminal"}

-----------------------------------------------------------------------------
(* What the executor does *)

\* herdr agent start: the name is free, and the agent waits for a prompt.
StartAgent(n) ==
  /\ agent[n] = "absent"
  /\ agent' = [agent EXCEPT ![n] = "idle"]
  /\ UNCHANGED <<prompts, marker, manifest>>

\* herdr agent prompt ... --wait: the agent took the prompt.
SubmitPrompt(n) ==
  /\ agent[n] # "absent"
  /\ agent' = [agent EXCEPT ![n] = "working"]
  /\ prompts' = [prompts EXCEPT ![n] = @ + 1]
  /\ UNCHANGED <<marker, manifest>>

-----------------------------------------------------------------------------
(* What the agents do *)

\* The prompt asks for the attempt marker before anything else.
AgentMarks(n) ==
  /\ agent[n] = "working" /\ marker # n
  /\ marker' = n
  /\ UNCHANGED <<agent, prompts, manifest>>

\* The agent's last durable action is its result; it has not stopped yet.
AgentReports(n) ==
  /\ agent[n] = "working" /\ marker = n /\ ~ReportsOn(manifest, n)
  /\ \E o \in Outcome : manifest' = [n |-> n, outcome |-> o]
  /\ UNCHANGED <<agent, prompts, marker>>

\* It stops, with or without having written anything.  Between idle and done
\* the executor only distinguishes where there is no evidence of the prompt.
AgentStops(n) ==
  /\ agent[n] = "working"
  /\ \E final \in IF DispatchEvidence(n) THEN {"done"} ELSE {"idle", "done"} :
       agent' = [agent EXCEPT ![n] = final]
  /\ UNCHANGED <<prompts, marker, manifest>>

AgentBlocks(n) ==
  /\ agent[n] = "working"
  /\ agent' = [agent EXCEPT ![n] = "blocked"]
  /\ UNCHANGED <<prompts, marker, manifest>>

\* A person answers the agent's question in its pane.
AgentResumes(n) ==
  /\ agent[n] = "blocked"
  /\ agent' = [agent EXCEPT ![n] = "working"]
  /\ UNCHANGED <<prompts, marker, manifest>>

\* The pane is closed or Herdr restarts: the agent's name resolves no more.
AgentVanishes(n) ==
  /\ agent[n] # "absent"
  /\ agent' = [agent EXCEPT ![n] = "absent"]
  /\ UNCHANGED <<prompts, marker, manifest>>

AgentStep(n) ==
  \/ AgentMarks(n) \/ AgentReports(n) \/ AgentStops(n)
  \/ AgentBlocks(n) \/ AgentResumes(n)
=============================================================================
