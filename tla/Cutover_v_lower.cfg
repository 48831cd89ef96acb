CONSTANTS
  Threads = {t1}
  NTiers = 2
  Kinds = {"change"}
  NoMemory = FALSE
  WriteStaging = FALSE
  MaxOps = 1
  MaxMoves = 1
  MaxFiles = 3
SPECIFICATION FairSpec
INVARIANT NoLostChange
CHECK_DEADLOCK FALSE
