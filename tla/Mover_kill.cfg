SPECIFICATION Spec
CONSTANTS
  w1 = w1
  w2 = w2
  Workers <- TwoWorkers
  NTiers = 2
  MaxWrites = 2
  Restarts = {"kill"}
  MaxPlans = 2
  MaxRestarts = 1
SYMMETRY Symmetry
INVARIANTS TypeOK AuthoritativeCurrent OneMover PlacedAgrees
CHECK_DEADLOCK FALSE
