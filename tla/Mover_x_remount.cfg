SPECIFICATION Spec
CONSTANTS
  w1 = w1
  w2 = w2
  Workers <- OneWorker
  NTiers = 2
  MaxWrites = 2
  Restarts = {"unmount", "remount"}
  MaxPlans = 1
  MaxRestarts = 1
PROPERTY SwitchKeepsWrites
CHECK_DEADLOCK FALSE
