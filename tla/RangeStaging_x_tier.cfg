SPECIFICATION Spec
CONSTANTS
  t1 = t1
  t2 = t2
  Tasks <- TwoTasks
  \* TierTruncate and TierLost violate NoOldBytes too, TierFsync violates
  \* SyncedOnBase and TierRemount SizeCovers.
  Ops <- TierEvict
  N = 3
  Spans <- ThreeSpans
  MaxWrites = 2
  MaxCalls = 1
  MaxEvents = 1
SYMMETRY Symmetry
INVARIANT NoOldBytes
CHECK_DEADLOCK FALSE
