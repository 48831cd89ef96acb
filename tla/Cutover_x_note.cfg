CONSTANTS
  Threads = {t1}
  NTiers = 2
  Kinds = {"write"}
  NoMemory = FALSE
  WriteStaging = FALSE
  MaxOps = 1
  MaxMoves = 1
  MaxFiles = 3
SPECIFICATION FairSpec
\* With Kinds = {"setattr"}, or with NoMemory = TRUE, CutoverReturns is violated.
PROPERTY NoCommitBeforeSwap
CHECK_DEADLOCK FALSE
