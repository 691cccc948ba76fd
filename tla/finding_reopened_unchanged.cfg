SPECIFICATION Spec
CHECK_DEADLOCK FALSE
CONSTANTS
  p1 = p1
  p2 = p2
  i1 = i1
  i2 = i2
  NoOwner = NoOwner
  Proc <- OneProc
  Instance <- OneInstance
  OwnerOf <- OwnOwners
  AttemptBound = 1
  MaxDecisionIterations = 2
  Verdicts = {"ready"}
  Recommended = {"execute", "human"}
  ExecutionEnds = {"needs_human"}
  ReviewBound = 2
  EditBound = 0
  NoticeBound = 1
  FaultKinds = {}
  FaultBound = 0
  DisturbanceBound = 1
PROPERTIES
  KeptUnlessChanged
