SPECIFICATION Spec
CONSTANTS
  Conns = {c1, c2}
  Tiers = {t1, t2}
  Uses <- UsesShare
  Faults = {}
  MaxLinks = 2
INVARIANT LeaseGuarded
