CONSTANTS
    a = a
    b = b
    c = c
    Procs = {a, b, c}
    JobOf <- TwoJobs
    Width = 3
    Vals = {v1, v2}
    v1 = v1
    v2 = v2
    Zero = Zero
    NoProc = NoProc
    BufferMayFail = FALSE
    RemapMayFail = FALSE
    ReadMayFault = FALSE
SPECIFICATION Spec
INVARIANT SharedViewIntact
