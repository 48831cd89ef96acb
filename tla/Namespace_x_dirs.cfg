SPECIFICATION SpecDirs
CONSTANTS
    NTiers = 2
    Nodes <- MCNodes
    FastNumbers = {f1, f2, f3}
    SlowNumbers = {s1, s2}
    HighWater = FALSE
    DirPaths <- MCTwoDirs
    FilePaths <- MCTwins
INVARIANTS
    NamesTruthful
\* ImplementsFlatNames is violated with the same bounds: a rename replaces a
\* directory that is empty on its own tier and has entries on another.
