\* Three one-page regions: a node with a successor is enough.  Every new
\* node is clean (ChunkDirty = {0}), so a dirty flag comes only from a write
\* fault (SigSegvMarkDirty).
CONSTANTS
    Addrs = {1, 2, 3}
    Sizes = {1}
    Nil = Nil
    ChunkDirty = {0}
SPECIFICATION Spec
PROPERTY DirtyKept
