CONSTANTS
  Threads = {t1}
  NTiers = 2
  Kinds = {"setattr"}
  NoMemory = FALSE
  WriteStaging = TRUE
  MaxOps = 1
  MaxMoves = 2
  MaxFiles = 4
SPECIFICATION FairSpec
PROPERTY DrainRemovesStaleOnly
CHECK_DEADLOCK FALSE
