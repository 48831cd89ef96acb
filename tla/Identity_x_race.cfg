SPECIFICATION SpecRace
CONSTANTS
    Keys <- MCKeys
    FastNumbers = {f1, f2}
    SlowNumbers = {s1}
    Names = {a, b}
    Tasks = {t1, t2}
    Promotions = FALSE
    NFiles = 2
    NOids = 2
    NCrashes = 1
    NMoves = 1
SYMMETRY Symmetry
INVARIANT
    OneInode
CHECK_DEADLOCK FALSE
