SPECIFICATION Spec
CONSTANTS
  Conns = {c1}
  Tiers = {t1, t2}
  Uses <- UsesLun
  \* With Faults = {} and LunSpec the PROPERTY LunServed is violated.
  Faults = {"io"}
  MaxLinks = 2
INVARIANT LunAlwaysPinned
CHECK_DEADLOCK FALSE
