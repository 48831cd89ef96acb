SPECIFICATION Spec
CONSTANTS
    Keys <- MCKeys
    FastNumbers = {f1}
    SlowNumbers = {s1}
    Names = {a, b}
    Tasks = {t1, t2}
    Promotions = FALSE
    NFiles = 2
    NOids = 2
    NCrashes = 1
    NMoves = 1
SYMMETRY Symmetry
INVARIANTS
    TypeOK
    IdentityStable
    IdentityUnique
    CacheCurrent
CHECK_DEADLOCK FALSE
