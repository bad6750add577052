\* Three processes and one frame, so that the frame reaches three holders
\* and every unmerge and free meets one, two and three holders; three
\* written pages: a frame counts once, so two are enough for three holders.  The countdown fires at every
\* call, so that the unlocked loads of MergeByTHRESHOLD run too.
CONSTANTS
    Procs = {p1, p2, p3}
    Frames = {f1}
    MaxPages = 2
    CountDown = 1
    MinMemTh = 193
    LoadOrder <- PFirst
    InitPrivatePages = 192
    InitSharedPages = 1
    NoProc = NoProc
SPECIFICATION Spec
CONSTRAINT OneEvaluating
SYMMETRY Sym
VIEW ModelView
INVARIANTS CountersExact
