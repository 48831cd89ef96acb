CONSTANTS
  Threads = {t1, t2}
  NTiers = 2
  Kinds = {"write", "change", "open"}
  NoMemory = FALSE
  WriteStaging = FALSE
  MaxOps = 2
  MaxMoves = 1
  MaxFiles = 3
SPECIFICATION FairSpec
INVARIANT CutoverInv
INVARIANT AuthoritativeNamed
PROPERTY SwitchPublishesNoted
PROPERTY CutoverReturns
PROPERTY ParkedProceeds
CHECK_DEADLOCK FALSE
