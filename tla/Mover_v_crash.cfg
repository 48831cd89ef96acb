SPECIFICATION Spec
CONSTANTS
  w1 = w1
  w2 = w2
  Workers <- OneWorker
  NTiers = 2
  MaxWrites = 1
  \* {"shutdown"} and {"unmount"} violate it too.
  Restarts = {"crash"}
  MaxPlans = 1
  MaxRestarts = 1
INVARIANT SyncedSurvives
CHECK_DEADLOCK FALSE
