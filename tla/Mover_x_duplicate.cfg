SPECIFICATION Spec
CONSTANTS
  w1 = w1
  w2 = w2
  Workers <- OneWorker
  NTiers = 2
  MaxWrites = 1
  Restarts = {"kill"}
  MaxPlans = 2
  MaxRestarts = 1
INVARIANT RecoveryPossible
CHECK_DEADLOCK FALSE
