CONSTANTS
  Threads = {t1, t2}
  NTiers = 2
  Kinds = {"write", "change", "setattr", "mmap"}
  NoMemory = TRUE
  WriteStaging = TRUE
  MaxOps = 2
  MaxMoves = 1
  MaxFiles = 3
SPECIFICATION Spec
SYMMETRY TaskSymmetry
INVARIANT CutoverInv
INVARIANT Barrier
INVARIANT OwnedTransaction
INVARIANT SleepersHaveCutover
CHECK_DEADLOCK FALSE
