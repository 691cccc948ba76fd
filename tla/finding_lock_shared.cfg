SPECIFICATION Spec
CONSTANTS
  w1 = w1
  w2 = w2
  w3 = w3
  NoWriter = NoWriter
  Writer <- ThreeWriters
  CrashBound = 1
CHECK_DEADLOCK FALSE
SYMMETRY WriterSymmetry
INVARIANTS
  MutualExclusion
