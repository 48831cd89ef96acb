CONSTANTS
  Threads = {t1}
  NTiers = 3
  Kinds = {"write", "lookup"}
  NoMemory = FALSE
  WriteStaging = FALSE
  MaxOps = 1
  MaxMoves = 1
  MaxFiles = 3
SPECIFICATION FairSpec
\* The same bounds violate SleepersHaveCutover, Barrier and AuthoritativeNamed.
INVARIANT OwnedTransaction
CHECK_DEADLOCK FALSE
