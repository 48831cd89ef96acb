SPECIFICATION FairSpec
CONSTANTS
  Conns = {c1}
  Tiers = {t1, t2}
  Uses <- UsesShare
  Faults = {}
  MaxLinks = 2
PROPERTY ForcedBreaks
