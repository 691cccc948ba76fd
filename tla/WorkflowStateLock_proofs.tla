---------------------- MODULE WorkflowStateLock_proofs ----------------------
(***************************************************************************)
(* The lock of the workflow state store, for any number of writers: what   *)
(* survives the death of writers, and mutual exclusion while none dies.    *)
(***************************************************************************)
EXTENDS WorkflowStateLock, TLAPS

\* Types are preserved by every step.
LEMMA LockTypeStep == TypeOK /\ [Next]_vars => TypeOK'
<1> SUFFICES ASSUME TypeOK, [Next]_vars PROVE TypeOK'
  OBVIOUS
<1> USE DEF TypeOK, Goto, Pc, fileVars, localVars
<1>1. CASE UNCHANGED vars
  BY <1>1 DEF vars
<1>2. CASE Age
  BY <1>2 DEF Age
<1>3. ASSUME NEW w \in Writer, Begin(w) \/ WriterStep(w) \/ Crash(w) PROVE TypeOK'
  <2>1. CASE Begin(w) \/ Retry(w) \/ TimeOut(w) \/ ReadOwner(w) \/ ReadLegacyFile(w)
             \/ StatLegacyFile(w) \/ WriteTemporary(w)
    BY <2>1 DEF Begin, Retry, TimeOut, ReadOwner, ReadLegacyFile, StatLegacyFile,
                WriteTemporary
  <2>2. CASE MakeDirectory(w) \/ RemoveStale(w) \/ UnlinkLegacyFile(w)
             \/ RemoveOwn(w) \/ Abort(w)
    BY <2>2 DEF MakeDirectory, RemoveStale, UnlinkLegacyFile, RemoveOwn, Abort
  <2>3. CASE OpenOwner(w) \/ FillOwner(w) \/ UnlinkStale(w) \/ UnlinkOwn(w)
    BY <2>3 DEF OpenOwner, FillOwner, UnlinkStale, UnlinkOwn
  <2>4. CASE StatLock(w)
    BY <2>4 DEF StatLock
  <2>5. CASE ListDirectory(w)
    BY <2>5 DEF ListDirectory
  <2>6. CASE Rename(w)
    BY <2>6 DEF Rename
  <2>7. CASE Crash(w)
    BY <2>7 DEF Crash
  <2>8. QED
    BY <1>3, <2>1, <2>2, <2>3, <2>4, <2>5, <2>6, <2>7 DEF WriterStep
<1>4. QED
  BY <1>1, <1>2, <1>3 DEF Next

\* Every variable of the lock keeps its type.
THEOREM LockTypeCorrect == Spec => []TypeOK
<1>1. Init => TypeOK
  BY DEF Init, TypeOK, Pc
<1>2. QED
  BY <1>1, LockTypeStep, PTL DEF Spec

-----------------------------------------------------------------------------
(* What deaths cannot break *)

\* Between open and unlink a writer's own file is in the directory.
HasFile == {"fill", "hold_write", "hold_rename", "hold_unlink"}

\* An owner file that counts as old, or that somebody is about to unlink,
\* belongs to a dead writer; files are there only between open and unlink.
OwnerInv ==
  /\ \A w \in Writer : w \in owners => pc[w] \in HasFile
  /\ \A w \in Writer : Alive(w) /\ pc[w] \in HasFile
       => lock = "directory" /\ w \in owners
  /\ aged \subseteq dead
  /\ \A w \in Writer : pc[w] = "unlink_stale" => target[w] \in dead

LEMMA OwnerInit == Init => OwnerInv
BY DEF Init, OwnerInv, HasFile

\* No step, of a writer, of death or of time, breaks OwnerInv.
LEMMA OwnerStep == TypeOK /\ OwnerInv /\ [Next]_vars => OwnerInv'
<1> SUFFICES ASSUME TypeOK, OwnerInv, [Next]_vars PROVE OwnerInv'
  OBVIOUS
<1> USE DEF TypeOK, OwnerInv, HasFile, Goto, At, Alive, fileVars, localVars
<1>1. CASE UNCHANGED vars
  BY <1>1 DEF vars
<1>2. CASE Age
  BY <1>2 DEF Age
<1>3. ASSUME NEW w \in Writer, Begin(w) \/ WriterStep(w) \/ Crash(w) PROVE OwnerInv'
  <2>1. CASE Begin(w) \/ Retry(w) \/ TimeOut(w) \/ ReadLegacyFile(w)
             \/ StatLegacyFile(w) \/ WriteTemporary(w) \/ Rename(w) \/ StatLock(w)
    BY <2>1 DEF Begin, Retry, TimeOut, ReadLegacyFile, StatLegacyFile,
                WriteTemporary, Rename, StatLock
  <2>2. CASE ReadOwner(w)
    <3>1. ASSUME target[w] \in owners, OwnerIsStale(target[w])
          PROVE  target[w] \in dead
      BY <2>2, <3>1 DEF ReadOwner, OwnerIsStale
    <3>2. QED
      BY <2>2, <3>1 DEF ReadOwner
  <2>3. CASE MakeDirectory(w) \/ UnlinkLegacyFile(w)
    BY <2>3 DEF MakeDirectory, UnlinkLegacyFile
  <2>4. CASE RemoveStale(w) \/ RemoveOwn(w) \/ Abort(w)
    BY <2>4 DEF RemoveStale, RemoveOwn, Abort
  <2>5. CASE OpenOwner(w) \/ FillOwner(w)
    BY <2>5 DEF OpenOwner, FillOwner
  <2>6. CASE UnlinkStale(w)
    <3>1. target[w] \in dead
      BY <2>6 DEF UnlinkStale
    <3>2. \A v \in Writer : Alive(v) /\ v \in owners => v \in owners'
      BY <2>6, <3>1 DEF UnlinkStale
    <3>3. \A v \in Writer : pc'[v] = pc[v] \/ (v = w /\ pc'[v] = "rmdir_stale")
      BY <2>6 DEF UnlinkStale
    <3>4. lock' = lock /\ dead' = dead /\ aged' = aged /\ target' = target
          /\ owners' \subseteq owners
      BY <2>6 DEF UnlinkStale
    <3>5. w \notin owners'
      BY <2>6, <3>4 DEF UnlinkStale
    <3>6. QED
      BY <3>2, <3>3, <3>4, <3>5
  <2>7. CASE UnlinkOwn(w)
    BY <2>7 DEF UnlinkOwn
  <2>8. CASE ListDirectory(w)
    BY <2>8 DEF ListDirectory
  <2>9. CASE Crash(w)
    BY <2>9 DEF Crash
  <2>10. QED
    BY <1>3, <2>1, <2>2, <2>3, <2>4, <2>5, <2>6, <2>7, <2>8, <2>9 DEF WriterStep
<1>4. QED
  BY <1>1, <1>2, <1>3 DEF Next

LEMMA OwnerAlways == Spec => [](TypeOK /\ OwnerInv)
<1>1. Init => TypeOK
  BY DEF Init, TypeOK, Pc
<1>2. QED
  BY <1>1, OwnerInit, OwnerStep, LockTypeStep, PTL DEF Spec

\* A writer that holds the lock has its file in the directory, whatever others
\* reclaim and however many of them die.
THEOREM HolderKeepsItsFile == Spec => []HolderHasItsFile
<1>1. OwnerInv => HolderHasItsFile
  BY DEF OwnerInv, HolderHasItsFile, Holding, HasFile, Alive
<1>2. QED
  BY <1>1, OwnerAlways, PTL

\* No step of another removes the owner file of a live writer.
THEOREM LiveOwnersStay == Spec => LiveOwnerIsKept
<1> DEFINE Kept == \A w \in Writer : w \in owners /\ Alive(w) /\ pc[w] # "hold_unlink"
                     => w \in owners'
<1>1. TypeOK /\ OwnerInv /\ [Next]_vars => [Kept]_vars
  <2> SUFFICES ASSUME TypeOK, OwnerInv, Next PROVE Kept
    BY DEF Kept, vars, fileVars
  <2> USE DEF TypeOK, OwnerInv, At, Alive, fileVars
  <2>1. CASE Age
    BY <2>1 DEF Age
  <2>2. ASSUME NEW w \in Writer, UnlinkStale(w) \/ UnlinkOwn(w) PROVE Kept
    BY <2>2 DEF UnlinkStale, UnlinkOwn
  <2>3. ASSUME NEW w \in Writer, OpenOwner(w) PROVE Kept
    BY <2>3 DEF OpenOwner
  <2>4. ASSUME NEW w \in Writer,
               Begin(w) \/ Crash(w) \/ (WriterStep(w) /\ owners' = owners)
        PROVE  Kept
    BY <2>4 DEF Begin, Crash
  <2>5. ASSUME NEW w \in Writer, WriterStep(w), ~UnlinkStale(w), ~UnlinkOwn(w),
               ~OpenOwner(w)
        PROVE  owners' = owners
    BY <2>5 DEF WriterStep, MakeDirectory, Retry, TimeOut, FillOwner, Abort, StatLock,
                ListDirectory, ReadOwner, RemoveStale, ReadLegacyFile, StatLegacyFile,
                UnlinkLegacyFile, WriteTemporary, Rename, RemoveOwn
  <2>6. QED
    BY <2>1, <2>2, <2>3, <2>4, <2>5 DEF Next
<1>2. QED
  BY <1>1, OwnerAlways, PTL DEF Spec, LiveOwnerIsKept

-----------------------------------------------------------------------------
(* Mutual exclusion while nobody has died *)

Inside == {"open", "fill", "hold_write", "hold_rename", "hold_unlink", "rmdir"}

\* The directory exists exactly while one writer is between mkdir and rmdir, so
\* it never gets old and nobody ever has a reason to reclaim it.
DeathlessInv ==
  /\ ~dirAged /\ aged = {}
  /\ \A w \in Writer : ~sawAged[w]
  /\ \A w \in Writer : pc[w] \notin {"abort", "unlink_stale", "rmdir_stale"}
  /\ lock = "directory" => \E w \in Writer : pc[w] \in Inside
  /\ \A w \in Writer : pc[w] \in Inside => lock = "directory"
  /\ \A v, w \in Writer : pc[v] \in Inside /\ pc[w] \in Inside => v = w

SoFarDeathless == dead = {} => DeathlessInv

\* As long as no writer dies, no step breaks DeathlessInv.
LEMMA DeathlessStep ==
  TypeOK /\ OwnerInv /\ SoFarDeathless /\ [Next]_vars => SoFarDeathless'
<1> SUFFICES ASSUME TypeOK, OwnerInv, SoFarDeathless, [Next]_vars, dead' = {}
             PROVE  DeathlessInv'
  BY DEF SoFarDeathless
<1> USE DEF TypeOK, DeathlessInv, Inside, Goto, At, Alive, fileVars, localVars
<1>3. ASSUME NEW w \in Writer PROVE ~Crash(w)
  BY DEF Crash
<1>0. dead = {} /\ DeathlessInv
  <2>1. ASSUME NEW w \in Writer, Begin(w) \/ WriterStep(w) PROVE dead' = dead
    BY <2>1 DEF Begin, WriterStep, MakeDirectory, Retry, TimeOut, OpenOwner, FillOwner,
                Abort, StatLock, ListDirectory, ReadOwner, UnlinkStale, RemoveStale,
                ReadLegacyFile, StatLegacyFile, UnlinkLegacyFile, WriteTemporary,
                Rename, UnlinkOwn, RemoveOwn
  <2>2. QED
    BY <2>1, <1>3 DEF Next, Age, vars, SoFarDeathless
<1>1. CASE UNCHANGED vars
  BY <1>0, <1>1 DEF vars
<1>2. ~Age
  BY <1>0 DEF Age
<1>4. ASSUME NEW w \in Writer, Begin(w) \/ WriterStep(w) PROVE DeathlessInv'
  <2> USE <1>0
  <2>1. CASE Begin(w) \/ Retry(w) \/ TimeOut(w) \/ ReadLegacyFile(w)
             \/ StatLegacyFile(w) \/ WriteTemporary(w) \/ Rename(w)
    BY <2>1 DEF Begin, Retry, TimeOut, ReadLegacyFile, StatLegacyFile,
                WriteTemporary, Rename
  <2>2. CASE StatLock(w)
    BY <2>2 DEF StatLock
  <2>3. CASE ReadOwner(w)
    BY <2>3 DEF ReadOwner, OwnerIsStale
  <2>4. CASE MakeDirectory(w)
    BY <2>4 DEF MakeDirectory
  <2>5. CASE UnlinkLegacyFile(w)
    BY <2>5 DEF UnlinkLegacyFile
  <2>6. CASE RemoveOwn(w)
    <3>1. ASSUME NEW v \in Writer PROVE v \notin owners
      BY <2>6 DEF RemoveOwn, OwnerInv, HasFile
    <3>2. QED
      BY <2>6, <3>1 DEF RemoveOwn
  <2>7. CASE OpenOwner(w)
    BY <2>7 DEF OpenOwner
  <2>8. CASE FillOwner(w) \/ UnlinkOwn(w)
    BY <2>8 DEF FillOwner, UnlinkOwn
  <2>9. CASE ListDirectory(w)
    BY <2>9 DEF ListDirectory
  <2>10. ~Abort(w) /\ ~RemoveStale(w) /\ ~UnlinkStale(w)
    BY DEF Abort, RemoveStale, UnlinkStale
  <2>11. QED
    BY <1>4, <2>1, <2>2, <2>3, <2>4, <2>5, <2>6, <2>7, <2>8, <2>9, <2>10 DEF WriterStep
<1>5. QED
  BY <1>1, <1>2, <1>3, <1>4 DEF Next

\* Init, every step, and hence every state.
LEMMA DeathlessAlways == Spec => []SoFarDeathless
<1>1. Init => SoFarDeathless
  BY DEF Init, SoFarDeathless, DeathlessInv, Inside
<1>2. QED
  BY <1>1, DeathlessStep, OwnerAlways, PTL DEF Spec

\* As long as no writer has died, at most one of them holds the lock.
THEOREM DeathlessExclusion == Spec => []ExclusionWithoutDeaths
<1>1. SoFarDeathless => ExclusionWithoutDeaths
  BY DEF SoFarDeathless, DeathlessInv, ExclusionWithoutDeaths, MutualExclusion, Holding, Inside
<1>2. QED
  BY <1>1, DeathlessAlways, PTL

\* If no writer died, the lock is not left behind: when all writes have ended, in
\* success or in an error, the directory is gone.
THEOREM LockIsLeftToNobody == Spec => []LockIsGone
<1>1. SoFarDeathless => LockIsGone
  BY DEF SoFarDeathless, DeathlessInv, LockIsGone, Inside
<1>2. QED
  BY <1>1, DeathlessAlways, PTL
=============================================================================
