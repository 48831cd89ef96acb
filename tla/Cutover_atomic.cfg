CONSTANTS
  Threads = {t1, t2}
  NTiers = 3
  Kinds = {"setattr", "read", "lookup"}
  NoMemory = FALSE
  WriteStaging = FALSE
  MaxOps = 2
  MaxMoves = 2
  MaxFiles = 4
SPECIFICATION Spec
SYMMETRY TaskSymmetry
INVARIANT ReadsSeeReturned
INVARIANT FdFollowsCutover
PROPERTY ImplementsAtomicObject
CHECK_DEADLOCK FALSE
