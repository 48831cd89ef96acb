CONSTANTS
  Threads = {t1}
  NTiers = 2
  Kinds = {"open"}
  NoMemory = FALSE
  WriteStaging = FALSE
  MaxOps = 1
  MaxMoves = 1
  MaxFiles = 3
SPECIFICATION FairSpec
\* With Kinds = {"mmap"}, the action property NoSwitchWhileMapped is violated.
INVARIANT FdFollowsCutover
CHECK_DEADLOCK FALSE
