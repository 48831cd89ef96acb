SPECIFICATION SpecFiles
CONSTANTS
    NTiers = 2
    Nodes <- MCNodes
    FastNumbers = {f1, f2}
    SlowNumbers = {s1, s2, s3}
    HighWater = TRUE
    DirPaths <- MCOneDir
    FilePaths <- MCFiles
SYMMETRY Symmetry
INVARIANTS
    TypeOK
    NamesTruthful
    NamesComplete
PROPERTIES
    ImplementsFlatNames
