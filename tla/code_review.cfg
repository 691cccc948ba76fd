SPECIFICATION FairSpec
CONSTANTS
  p1 = p1
  p2 = p2
  i1 = i1
  i2 = i2
  NoOwner = NoOwner
  Proc <- TwoProcs
  Instance <- TwoInstances
  OwnerOf <- OwnOwners
  AttemptBound = 1
  Subject = {c1, c2}
  NoSubject = NoSubject
  UsesRlm = TRUE
  FaultKinds = {"crash", "error", "lapse"}
  FaultBound = 1
  MoveBound = 2
  AcceptBound = 1
INVARIANTS
  TypeOK
  ReviewIsTold
PROPERTIES
  ReviewSettles
