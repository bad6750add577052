\* Threshold-driven merging from the fault handler (MERGE_METRIC =
\* THRESHOLD), no mmap failure: metadata and counters.  A countdown of 1:
\* a fault runs a pass whenever the node is at its high-water mark.
CONSTANTS
    Procs = {p1, p2}
    NPages = 2
    Data = {d1}
    Zero = Zero
    MaxRegion = 1
    MergeMetric = "THRESHOLD"
    MallocRefFreq = 2
    CountDown = 1
    MinMemTh = 190
    InitPrivatePages = 192
    InitSharedPages = 1
    MmapMayFail = FALSE

SPECIFICATION Spec
CONSTRAINT CounterBound
SYMMETRY Sym
VIEW ModelView
INVARIANTS
    MetadataMatchesMappings
    CountersConserved
