SPECIFICATION FairSpec
CONSTANTS
  w1 = w1
  w2 = w2
  Workers <- OneWorker
  NTiers = 2
  MaxWrites = 2
  Restarts = {"kill", "shutdown", "crash", "unmount"}
  MaxPlans = 2
  MaxRestarts = 1
PROPERTY SwitchKeepsWrites
PROPERTY StartCompletes
CHECK_DEADLOCK FALSE
