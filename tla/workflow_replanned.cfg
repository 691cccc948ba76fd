SPECIFICATION FairSpec
CONSTANTS
  council = council
  implement = implement
  verify = verify
  research = research
  implement2 = implement2
  verify2 = verify2
  research2 = research2
  Always = Always
  Node <- Nodes
  InitialPlans <- AllPlans
  MaxReplans = 2
  Patches <- ReviewPatches
  Expansions <- ReviewExpansions
  MayFail <- Fallible
  MayDecide = {council}
  ResumeBound = 1
CHECK_DEADLOCK FALSE
INVARIANTS
  TypeOK
  WritersAlone
  PassedRunIsComplete
  SnapshotIsClosed
  VerifiedAfterOneReplan
PROPERTIES
  NotRunAgain
  RunEnds
