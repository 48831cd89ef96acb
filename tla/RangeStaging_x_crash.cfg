SPECIFICATION Spec
CONSTANTS
  t1 = t1
  t2 = t2
  Tasks <- TwoTasks
  Ops <- CacheCrash
  N = 3
  Spans <- ThreeSpans
  MaxWrites = 2
  MaxCalls = 2
  MaxEvents = 1
SYMMETRY Symmetry
INVARIANT SyncedRecoverable
CHECK_DEADLOCK FALSE
