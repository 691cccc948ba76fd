SPECIFICATION Spec
CONSTANTS
  council = council
  implement = implement
  verify = verify
  research = research
  implement2 = implement2
  verify2 = verify2
  research2 = research2
  Always = Always
  Node <- Nodes
  InitialPlans <- ReviewPlans
  MaxReplans = 0
  Patches <- ReviewPatches
  Expansions <- ReviewExpansions
  MayFail <- Fallible
  MayDecide = {council}
  ResumeBound = 1
CHECK_DEADLOCK FALSE
INVARIANTS
  ExpansionsKept
