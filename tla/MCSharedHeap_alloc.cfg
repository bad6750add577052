\* MALLOC_MERGE_FREQ-driven merging (MERGE_METRIC = ALLOC_FREQUENCY), no
\* mmap failure: metadata, counters and the refinement of Heap.
CONSTANTS
    Procs = {p1, p2}
    NPages = 2
    Data = {d1, d2}
    Zero = Zero
    MaxRegion = 1
    MergeMetric = "ALLOC_FREQUENCY"
    MallocRefFreq = 1
    CountDown = 2
    MinMemTh = 190
    InitPrivatePages = 192
    InitSharedPages = 1
    MmapMayFail = FALSE

SPECIFICATION Spec
CONSTRAINT CounterBound
SYMMETRY Sym
VIEW ModelView
INVARIANTS
    TypeOK
    MetadataMatchesMappings
    CountersConserved
PROPERTIES
    HeapRefinement
