CONSTANTS
    a = a
    b = b
    c = c
    Procs = {a, b}
    JobOf <- OneJob
    Width = 2
    Vals = {v1, v2}
    v1 = v1
    v2 = v2
    Zero = Zero
    NoProc = NoProc
    BufferMayFail = TRUE
    RemapMayFail = FALSE
    ReadMayFault = FALSE
SPECIFICATION Spec
PROPERTY SemaphoreReleased
CHECK_DEADLOCK FALSE
