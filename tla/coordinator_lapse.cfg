SPECIFICATION Spec
CONSTANTS
  p1 = p1
  p2 = p2
  i1 = i1
  i2 = i2
  NoOwner = NoOwner
  Proc <- TwoProcs
  Instance <- OneInstance
  OwnerOf <- SameOwner
  AttemptBound = 2
  MaxAttempts = 2
  UnknownThreshold = 1
  FaultKinds = {"lapse", "crash", "error"}
  FaultBound = 2
SYMMETRY ProcSymmetry
INVARIANTS
  TypeOK
  OneFencedWriter
  AttemptAgreement
  AttemptHistory
  EvidencedSuccess
  IntentBeforeAgent
  OneAgentAtWork
  PromptAtMostOnce
PROPERTIES
  SettledIsFinal
  EvidenceIsKept
  RefinesLifecycle
