SPECIFICATION Spec
CONSTANTS
  p1 = p1
  p2 = p2
  i1 = i1
  i2 = i2
  NoOwner = NoOwner
  Proc <- OneProc
  Instance <- OneInstance
  OwnerOf <- SameOwner
  AttemptBound = 2
  MaxAttempts = 2
  UnknownThreshold = 2
  FaultKinds = {"crash", "vanish"}
  FaultBound = 2
INVARIANTS
  PromptAtMostOnce
