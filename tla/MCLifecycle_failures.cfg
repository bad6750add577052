CONSTANTS
    a = a
    b = b
    c = c
    Procs = {a, b, c}
    JobOf <- OneJob
    Width = 3
    Vals = {v1, v2}
    v1 = v1
    v2 = v2
    Zero = Zero
    NoProc = NoProc
    BufferMayFail = TRUE
    RemapMayFail = TRUE
    ReadMayFault = TRUE
SPECIFICATION Spec
\* A process that calls Fatal holding the semaphore blocks the node for good
\* (run lifecycle_fatal_deadlock); such states have no successor.
CHECK_DEADLOCK FALSE
INVARIANTS FileLive
