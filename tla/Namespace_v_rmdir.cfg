SPECIFICATION SpecFiles
CONSTANTS
    NTiers = 2
    Nodes <- MCNodes
    FastNumbers = {f1, f2}
    SlowNumbers = {s1, s2, s3}
    HighWater = FALSE
    DirPaths <- MCOneDir
    FilePaths <- MCFiles
PROPERTIES
    RmdirVerifies
