SPECIFICATION Spec
CONSTANTS
  Conns = {c1}
  Tiers = {t1, t2, t3}
  Uses <- UsesMany
  Faults = {"io", "kill", "overflow", "evict"}
  MaxLinks = 3
INVARIANTS TypeOK PinsInv LeaseGuarded LunGuarded LinkSetPinned
PROPERTY LunNotMoved
