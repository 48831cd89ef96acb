SPECIFICATION SpecBoth
CONSTANTS
    Keys <- MCKeys
    FastNumbers = {f1, f2}
    SlowNumbers = {s1}
    Names = {a, b}
    Tasks = {t1}
    Promotions = FALSE
    NFiles = 2
    NOids = 2
    NCrashes = 1
    NMoves = 1
SYMMETRY Symmetry
\* The same bounds violate NoFileLost, and with Promotions = TRUE CopyInvisible.
INVARIANT
    HardlinksTogether
CHECK_DEADLOCK FALSE
