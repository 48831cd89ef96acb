--------------------------- MODULE MCRangeStaging ---------------------------
\* Instances of RangeStaging for TLC: tasks are interchangeable.
EXTENDS RangeStaging
CONSTANTS t1, t2
TwoTasks == {t1, t2}
Symmetry == Permutations(Tasks)
\* Disjoint with a gap, touching, overlapping, contained.
ThreeSpans == {Extent(0, 1), Extent(2, 3), Extent(0, 2)}
InMode(m, kinds) == {m} \X kinds
\* Everything that keeps the properties; the rest is in the other instances.
BothModes ==
    InMode("cache", {"stage", "append", "sync", "base", "truncate", "fsync",
                     "drain", "read", "evict", "remount", "lostmeta"})
    \union InMode("tier", {"stage", "append", "base", "direct", "chmod", "drain",
                           "read", "remount", "crash"})
CacheReads == InMode("cache", {"stage", "drain", "read"})
TierLost == InMode("tier", {"stage", "remount", "lostmeta"})
TierTruncate == InMode("tier", {"stage", "truncate", "drain"})
TierEvict == InMode("tier", {"stage", "evict"})
TierFsync == InMode("tier", {"stage", "fsync"})
TierRemount == InMode("tier", {"stage", "append", "remount"})
CacheCrash == InMode("cache", {"stage", "base", "fsync", "crash"})
=============================================================================
