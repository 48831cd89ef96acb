SPECIFICATION SpecRace
CONSTANTS
    NTiers = 2
    Nodes <- MCNodes
    FastNumbers = {f1, f2}
    SlowNumbers = {s1, s2, s3}
    HighWater = FALSE
    DirPaths <- MCTwoDirs
    FilePaths <- MCTwins
PROPERTIES
    CreatedAtName
