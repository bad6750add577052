\* Seven one-page regions: the inserts that reach a double rotation and the
\* stale height RotateSingleRight leaves behind.
CONSTANTS
    Addrs = {1, 2, 3, 4, 5, 6, 7}
    Sizes = {1}
    Nil = Nil
    ChunkDirty = {0, 1}
SPECIFICATION Spec
INVARIANT Balanced
