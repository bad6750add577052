\* A failed mmap in RemapToZero (vm.max_map_count reached) leaves the
\* pages remapped before it without their zeroPagesBV bit.
CONSTANTS
    Procs = {p1}
    NPages = 2
    Data = {d1}
    Zero = Zero
    MaxRegion = 2
    MergeMetric = "THRESHOLD"
    MallocRefFreq = 2
    CountDown = 2
    MinMemTh = 190
    InitPrivatePages = 192
    InitSharedPages = 1
    MmapMayFail = TRUE

SPECIFICATION Spec
CONSTRAINT CounterBound
INVARIANTS
    MetadataMatchesMappings
