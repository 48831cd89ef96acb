\* SpecGate with the same bounds violates NamesComplete.
SPECIFICATION SpecLinks
CONSTANTS
    NTiers = 2
    Nodes <- MCNodes
    FastNumbers = {f1, f2}
    SlowNumbers = {s1}
    HighWater = FALSE
    DirPaths <- MCOneDir
    FilePaths <- MCPair
INVARIANTS
    NamesTruthful
