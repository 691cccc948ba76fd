SPECIFICATION FairSpec
CHECK_DEADLOCK FALSE
CONSTANTS
  p1 = p1
  p2 = p2
  i1 = i1
  i2 = i2
  NoOwner = NoOwner
  Proc <- TwoProcs
  Instance <- TwoInstances
  OwnerOf <- OwnOwners
  AttemptBound = 1
  MaxDecisionIterations = 2
  Verdicts = {"rejected", "human", "blocked", "ready"}
  Recommended = {"execute", "human"}
  ExecutionEnds = {"needs_human"}
  ReviewBound = 3
  EditBound = 1
  NoticeBound = 1
  FaultKinds = {"crash", "error", "lapse"}
  FaultBound = 1
  DisturbanceBound = 2
INVARIANTS
  TypeOK
  LabelsTellState
  OnlyAcceptedIsWritten
PROPERTIES
  PlanIsOfReviewedTicket
  EditsAreReviewed
  ReopenedOnlyAfterChange
  EventuallyDecided
