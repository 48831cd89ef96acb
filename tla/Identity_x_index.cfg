SPECIFICATION SpecIndex
CONSTANTS
    Keys <- MCKeys
    FastNumbers = {f1, f2}
    SlowNumbers = {s1}
    Names = {a, b}
    Tasks = {t1}
    Promotions = FALSE
    NFiles = 2
    NOids = 2
    NCrashes = 1
    NMoves = 1
SYMMETRY Symmetry
\* The same bounds violate IdentityStable.
INVARIANT
    HandleTruthful
CHECK_DEADLOCK FALSE
