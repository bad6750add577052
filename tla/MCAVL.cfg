\* Up to seven regions of one or two pages in a window of seven pages:
\* enough inserts for double rotations, the stale heights they leave and
\* the unbalanced trees that follow, and sizes that make the range test
\* of FindRangeAVL differ from an exact-key search.
CONSTANTS
    Addrs = {1, 2, 3, 4, 5, 6, 7}
    Sizes = {1, 2}
    Nil = Nil
    ChunkDirty = {0, 1}
SPECIFICATION Spec
INVARIANTS TypeOK LookupsCorrect TeardownFreesOnce
PROPERTIES MapRefinement
