\* Progress of a store, the refinement of Heap and realloc's copy, under threshold-driven
\* merging with no mmap failure, for one process: nothing another process
\* does changes its mappings, and the node semaphore is modelled by atomic
\* steps, so the other processes cannot stall it.  No symmetry or view:
\* both are unsound for liveness.
CONSTANTS
    Procs = {p1}
    NPages = 3
    Data = {d1}
    Zero = Zero
    MaxRegion = 2
    MergeMetric = "THRESHOLD"
    MallocRefFreq = 2
    CountDown = 2
    MinMemTh = 190
    InitPrivatePages = 192
    InitSharedPages = 1
    MmapMayFail = FALSE

SPECIFICATION Spec
CONSTRAINT CounterBound
PROPERTIES
    StoreCompletes
    HeapRefinement
    ReallocCopies
