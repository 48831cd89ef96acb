SPECIFICATION Spec
CONSTANTS
  t1 = t1
  t2 = t2
  Tasks <- TwoTasks
  Ops <- CacheReads
  N = 3
  Spans <- ThreeSpans
  MaxWrites = 1
  MaxCalls = 2
  MaxEvents = 0
SYMMETRY Symmetry
INVARIANT ReplicaCurrent
CHECK_DEADLOCK FALSE
