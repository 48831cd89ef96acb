CONSTANTS
  Threads = {t1}
  NTiers = 2
  Kinds = {"setattr"}
  NoMemory = FALSE
  WriteStaging = TRUE
  MaxOps = 1
  MaxMoves = 1
  MaxFiles = 3
SPECIFICATION FairSpec
\* So is SwitchReplacesCopiedSource, with NTiers = 3.
PROPERTY AbortKeepsAuthoritative
CHECK_DEADLOCK FALSE
