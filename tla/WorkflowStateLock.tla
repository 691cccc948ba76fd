-------------------------- MODULE WorkflowStateLock --------------------------
(***************************************************************************)
(* MacroWorkflowStateStore.write (src/macro-workflow/stateStore.ts): the   *)
(* snapshot of a workflow run is replaced under a lock that is a directory *)
(* beside it.  A writer makes the directory and puts a file of its own     *)
(* into it; a writer that finds the directory inspects it and removes what *)
(* a dead process left.  Every file-system call is one step.               *)
(*                                                                         *)
(* A process that dies never comes back under its process id: a resumed    *)
(* run is another writer.                                                  *)
(***************************************************************************)
EXTENDS FiniteSets, Naturals

CONSTANTS
  Writer,       \* calls of write, each in a process of its own
  NoWriter,     \* no owner file was inspected; no snapshot was written
  CrashBound    \* bound of the model: how many writers die

ASSUME LockAssumption ==
  /\ NoWriter \notin Writer
  /\ CrashBound \in Nat

VARIABLES
  lock,       \* what is at lockPath: nothing, a directory, a legacy lock file
  owners,     \* the owner files in the directory, by the writer that made them
  written,    \* the writers whose owner file has its pid and time in it
  dirAged,    \* the directory's mtime is past the stale threshold
  aged,       \* the owner files whose mtime is
  dead,       \* the writers that have died
  pc,         \* pc[w]: the next call of writer w
  target,     \* target[w]: the owner file w inspected
  sawAged,    \* sawAged[w]: the directory was past the threshold when w asked
  snapshot    \* the writer whose state is at statePath

fileVars == <<lock, owners, written, dirAged, aged>>
localVars == <<target, sawAged>>
vars == <<fileVars, localVars, dead, pc, snapshot>>

\* The next call.  hold_* are made with the lock held.
Pc == {"idle", "mkdir", "stat", "list", "read_owner", "unlink_stale",
       "rmdir_stale", "read_file", "stat_file", "unlink_file", "wait", "open",
       "fill", "abort", "hold_write", "hold_rename", "hold_unlink",
       "rmdir", "done", "failed"}

TypeOK ==
  /\ lock \in {"none", "directory", "file"}
  /\ owners \subseteq Writer /\ written \subseteq Writer /\ aged \subseteq Writer
  /\ dirAged \in BOOLEAN
  /\ dead \subseteq Writer
  /\ pc \in [Writer -> Pc]
  /\ target \in [Writer -> Writer \cup {NoWriter}]
  /\ sawAged \in [Writer -> BOOLEAN]
  /\ snapshot \in Writer \cup {NoWriter}

\* Nothing is locked, or a process of an older version died with its lock.
Init ==
  /\ lock \in {"none", "file"}
  /\ owners = {} /\ written = {} /\ aged = {} /\ dirAged = FALSE
  /\ dead = {}
  /\ pc = [w \in Writer |-> "idle"]
  /\ target = [w \in Writer |-> NoWriter]
  /\ sawAged = [w \in Writer |-> FALSE]
  /\ snapshot = NoWriter

Alive(w) == w \notin dead
At(w, label) == Alive(w) /\ pc[w] = label
Goto(w, label) == pc' = [pc EXCEPT ![w] = label]

Holding(w) == Alive(w) /\ pc[w] \in {"hold_write", "hold_rename", "hold_unlink"}

-----------------------------------------------------------------------------
(* acquireLock *)

Begin(w) ==
  /\ At(w, "idle")
  /\ Goto(w, "mkdir")
  /\ UNCHANGED <<fileVars, localVars, dead, snapshot>>

\* Mutant: an existing directory is taken for one's own.
MakeDirectory_NotExclusive(w) ==
  /\ At(w, "mkdir")
  /\ lock' = "directory" /\ dirAged' = FALSE
  /\ Goto(w, "open")
  /\ UNCHANGED <<owners, written, aged, localVars, dead, snapshot>>

MakeDirectory(w) ==
  /\ At(w, "mkdir")
  /\ IF lock = "none"
     THEN lock' = "directory" /\ dirAged' = FALSE /\ Goto(w, "open")
     ELSE Goto(w, "stat") /\ UNCHANGED <<lock, dirAged>>
  /\ UNCHANGED <<owners, written, aged, localVars, dead, snapshot>>

\* Nothing could be reclaimed: try again after a delay, or time out.
Retry(w) ==
  /\ At(w, "wait")
  /\ Goto(w, "mkdir")
  /\ UNCHANGED <<fileVars, localVars, dead, snapshot>>

\* Mutant: the deadline starts again with every try.
TimeOut_Restarts(w) ==
  /\ At(w, "wait")
  /\ Goto(w, "mkdir")
  /\ UNCHANGED <<fileVars, localVars, dead, snapshot>>

TimeOut(w) ==
  /\ At(w, "wait")
  /\ Goto(w, "failed")
  /\ UNCHANGED <<fileVars, localVars, dead, snapshot>>

-----------------------------------------------------------------------------
(* initializeLockOwner *)

\* Mutant: the file is named for the owner that was inspected.
OpenOwner_InspectedName(w) ==
  /\ At(w, "open")
  /\ IF lock = "directory"
     THEN /\ owners' = owners \cup {target[w]} /\ dirAged' = FALSE
          /\ Goto(w, "fill")
     ELSE Goto(w, "abort") /\ UNCHANGED <<owners, dirAged>>
  /\ UNCHANGED <<lock, written, aged, localVars, dead, snapshot>>

\* open(ownerPath, "wx"): the path is resolved now, whoever made the directory.
OpenOwner(w) ==
  /\ At(w, "open")
  /\ IF lock = "directory"
     THEN /\ owners' = owners \cup {w} /\ dirAged' = FALSE
          /\ Goto(w, "fill")
     ELSE Goto(w, "abort") /\ UNCHANGED <<owners, dirAged>>
  /\ UNCHANGED <<lock, written, aged, localVars, dead, snapshot>>

FillOwner(w) ==
  /\ At(w, "fill")
  /\ written' = written \cup {w}
  /\ Goto(w, "hold_write")
  /\ UNCHANGED <<lock, owners, dirAged, aged, localVars, dead, snapshot>>

\* The directory was gone: remove what is there if it is empty, and start over.
Abort(w) ==
  /\ At(w, "abort")
  /\ lock' = IF lock = "directory" /\ owners = {} THEN "none" ELSE lock
  /\ Goto(w, "mkdir")
  /\ UNCHANGED <<owners, written, dirAged, aged, localVars, dead, snapshot>>

-----------------------------------------------------------------------------
(* reclaimStaleLockIfSafe *)

StatLock(w) ==
  /\ At(w, "stat")
  /\ sawAged' = [sawAged EXCEPT ![w] = dirAged]
  /\ Goto(w, CASE lock = "none" -> "mkdir"
               [] lock = "directory" -> "list"
               [] OTHER -> "read_file")
  /\ UNCHANGED <<fileVars, target, dead, snapshot>>

ListDirectory(w) ==
  /\ At(w, "list")
  /\ IF lock # "directory" THEN Goto(w, "mkdir") /\ UNCHANGED target
     ELSE IF owners = {}
     THEN Goto(w, IF sawAged[w] THEN "rmdir_stale" ELSE "wait") /\ UNCHANGED target
     ELSE \/ /\ \A v, x \in owners : v = x
             /\ \E v \in owners : target' = [target EXCEPT ![w] = v]
             /\ Goto(w, "read_owner")
          \/ /\ \E v, x \in owners : v # x
             /\ Goto(w, "wait") /\ UNCHANGED target
  /\ UNCHANGED <<fileVars, sawAged, dead, snapshot>>

\* Mutant: it is not asked whether the owner's process is alive.
OwnerIsStale_IgnoresLiveness(v) == v \in written \/ v \in aged

\* A complete owner file names its process; an incomplete one must be old.
OwnerIsStale(v) == IF v \in written THEN ~Alive(v) ELSE v \in aged

\* stat and readFile of the owner file, one step.
ReadOwner(w) ==
  LET v == target[w]
  IN /\ At(w, "read_owner")
     /\ Goto(w, IF lock # "directory" \/ v \notin owners THEN "mkdir"
                ELSE IF OwnerIsStale(v) THEN "unlink_stale" ELSE "wait")
     /\ UNCHANGED <<fileVars, localVars, dead, snapshot>>

\* Mutant: whatever is in the directory by now is removed.
UnlinkStale_Everything(w) ==
  /\ At(w, "unlink_stale")
  /\ owners' = {} /\ dirAged' = FALSE
  /\ Goto(w, "rmdir_stale")
  /\ UNCHANGED <<lock, written, aged, localVars, dead, snapshot>>

\* reclaimDirectoryOwner: only the file that was inspected.
UnlinkStale(w) ==
  /\ At(w, "unlink_stale")
  /\ owners' = owners \ {target[w]}
  /\ dirAged' = IF target[w] \in owners THEN FALSE ELSE dirAged
  /\ Goto(w, "rmdir_stale")
  /\ UNCHANGED <<lock, written, aged, localVars, dead, snapshot>>

\* rmdir removes whatever empty directory is at the path now.
RemoveStale(w) ==
  /\ At(w, "rmdir_stale")
  /\ IF lock = "directory" /\ owners # {}
     THEN Goto(w, "wait") /\ UNCHANGED lock
     ELSE lock' = "none" /\ Goto(w, "mkdir")
  /\ UNCHANGED <<owners, written, dirAged, aged, localVars, dead, snapshot>>

\* reclaimLegacyFileLockIfSafe: the file names a dead process.  If it is gone,
\* its age when it was inspected decides.
ReadLegacyFile(w) ==
  /\ At(w, "read_file")
  /\ \/ Goto(w, "stat_file")
     \/ lock # "file" /\ Goto(w, "wait")
  /\ UNCHANGED <<fileVars, localVars, dead, snapshot>>

StatLegacyFile(w) ==
  /\ At(w, "stat_file")
  /\ Goto(w, CASE lock = "file" -> "unlink_file"
               [] lock = "none" -> "mkdir"
               [] OTHER -> "wait")
  /\ UNCHANGED <<fileVars, localVars, dead, snapshot>>

\* unlink refuses a directory.
UnlinkLegacyFile(w) ==
  /\ At(w, "unlink_file")
  /\ IF lock = "directory" THEN Goto(w, "wait") /\ UNCHANGED lock
     ELSE lock' = "none" /\ Goto(w, "mkdir")
  /\ UNCHANGED <<owners, written, dirAged, aged, localVars, dead, snapshot>>

-----------------------------------------------------------------------------
(* write and the release of the lock *)

WriteTemporary(w) ==
  /\ At(w, "hold_write")
  /\ Goto(w, "hold_rename")
  /\ UNCHANGED <<fileVars, localVars, dead, snapshot>>

Rename(w) ==
  /\ At(w, "hold_rename")
  /\ snapshot' = w
  /\ Goto(w, "hold_unlink")
  /\ UNCHANGED <<fileVars, localVars, dead>>

UnlinkOwn(w) ==
  /\ At(w, "hold_unlink")
  /\ owners' = owners \ {w} /\ dirAged' = FALSE
  /\ Goto(w, "rmdir")
  /\ UNCHANGED <<lock, written, aged, localVars, dead, snapshot>>

\* Mutant: the directory is left behind.
RemoveOwn_Kept(w) ==
  /\ At(w, "rmdir")
  /\ Goto(w, "done")
  /\ UNCHANGED <<fileVars, localVars, dead, snapshot>>

\* Only a missing directory is ignored: one that is not empty fails the write.
RemoveOwn(w) ==
  /\ At(w, "rmdir")
  /\ IF lock = "directory" /\ owners # {}
     THEN Goto(w, "failed") /\ UNCHANGED lock
     ELSE /\ lock' = IF lock = "directory" THEN "none" ELSE lock
          /\ Goto(w, "done")
  /\ UNCHANGED <<owners, written, dirAged, aged, localVars, dead, snapshot>>

-----------------------------------------------------------------------------
(* Environment *)

Crash(w) ==
  /\ Alive(w) /\ pc[w] \notin {"idle", "done", "failed"}
  /\ Cardinality(dead) < CrashBound
  /\ dead' = dead \cup {w}
  /\ UNCHANGED <<fileVars, localVars, pc, snapshot>>

\* The five minutes of the stale threshold are far longer than a live process
\* takes for a write or for one inspection: what ages was left by the dead.
Age ==
  /\ lock = "directory"
  /\ \A w \in Writer : Alive(w) => pc[w] \in {"idle", "mkdir", "wait", "done", "failed"}
  /\ dirAged' = TRUE /\ aged' = owners
  /\ ~dirAged \/ aged # owners
  /\ UNCHANGED <<lock, owners, written, localVars, dead, pc, snapshot>>

-----------------------------------------------------------------------------

WriterStep(w) ==
  \/ MakeDirectory(w) \/ Retry(w) \/ TimeOut(w)
  \/ OpenOwner(w) \/ FillOwner(w) \/ Abort(w)
  \/ StatLock(w) \/ ListDirectory(w) \/ ReadOwner(w) \/ UnlinkStale(w)
  \/ RemoveStale(w)
  \/ ReadLegacyFile(w) \/ StatLegacyFile(w) \/ UnlinkLegacyFile(w)
  \/ WriteTemporary(w) \/ Rename(w) \/ UnlinkOwn(w) \/ RemoveOwn(w)

Next == Age \/ \E w \in Writer : Begin(w) \/ WriterStep(w) \/ Crash(w)

Spec == Init /\ [][Next]_vars

\* A live process goes on.  A writer that waits again and again times out in the
\* end.  Two writers do not for ever remove each other's directory before either
\* has put its file into it: nothing in the code bounds that loop, but each
\* round of it needs both to be delayed at the same call.
OpensInTime(w) == lock = "directory" /\ OpenOwner(w)

Fairness ==
  \A w \in Writer : /\ WF_vars(Begin(w)) /\ WF_vars(WriterStep(w))
                   /\ SF_vars(TimeOut(w)) /\ SF_vars(OpensInTime(w))

FairSpec == Spec /\ Fairness

-----------------------------------------------------------------------------
(* Properties *)

\* Two writers never hold the lock together
\* (docs/adr/0007-durable-run-state-resume.md: "single-machine writer
\* serialization").  A death is enough to break it.
MutualExclusion == \A v, w \in Writer : Holding(v) /\ Holding(w) => v = w

\* As long as no writer has died, the lock excludes: nobody then ever finds a
\* reason to reclaim the directory of another one.
ExclusionWithoutDeaths == dead = {} => MutualExclusion

\* Whatever others reclaim, a writer that holds the lock has its file in the
\* directory (the ADR: a delayed reclaimer cannot delete a successor's owner
\* file): it is unlinked by its own name and by nobody else.
HolderHasItsFile ==
  \A w \in Writer : Holding(w) => lock = "directory" /\ w \in owners

\* The owner file of a live process is never removed by another one (the ADR:
\* "An owner with a live PID is never removed").
LiveOwnerIsKept ==
  [][\A w \in Writer : w \in owners /\ Alive(w) /\ pc[w] # "hold_unlink"
       => w \in owners']_vars

\* With no deaths, once all writers have ended the lock is gone: no later write
\* waits for a lock that nobody holds.
LockIsGone ==
  dead = {} /\ (\A w \in Writer : pc[w] \in {"done", "failed"})
    => lock # "directory"

\* Each write ends, in success or in an error, unless its process dies.
WriteEnds ==
  \A w \in Writer : pc[w] = "mkdir" ~> pc[w] \in {"done", "failed"} \/ ~Alive(w)
=============================================================================
