SPECIFICATION Spec
CONSTANTS
  t1 = t1
  t2 = t2
  Tasks <- TwoTasks
  Ops <- BothModes
  N = 3
  Spans <- ThreeSpans
  MaxWrites = 2
  MaxCalls = 1
  MaxEvents = 1
SYMMETRY Symmetry
INVARIANTS TypeOK NoOldBytes RangesCanonical BytesAccounted SyncedOnBase ReadsFresh
CHECK_DEADLOCK FALSE
