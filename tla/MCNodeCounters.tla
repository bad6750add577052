--------------------------- MODULE MCNodeCounters ---------------------------
(***************************************************************************)
(* NodeCounters for TLC: three processes, one frame, two written pages.      *)
(***************************************************************************)
EXTENDS NodeCounters, TLC

\* The two orders a compiler may load *allProcPrivatePageCount + *sharedPageCount in.
PFirst == <<"P", "S">>
SFirst == <<"S", "P">>

\* The processes are interchangeable.
Sym == Permutations(Procs)

\* A loaded value is dead outside the expression that loaded it.
ModelView ==
    <<P, S, priv, zero, hold, owner, pc, todo, after, countDownTimer,
      mergeMinMemTh, [p \in Procs |-> IF pc[p] \in {"test2", "set2"} THEN ld[p] ELSE 0]>>

\* Bound: one process at a time is in MergeByTHRESHOLD, its unlocked
\* expressions or the pass they start.  Between sections a process writes
\* no counter, and the sections that do are serialized by the semaphore.
Evaluating == {"count", "test1", "test2", "set1", "set2", "pass"}
OneEvaluating == Cardinality({p \in Procs : pc[p] \in Evaluating}) <= 1

TypeOK ==
    /\ P \in Int /\ S \in Int
    \* only FirstWrite adds a page; an unmerge gives each holder its own copy
    /\ priv \in 0..(MaxPages + (Cardinality(Procs) - 1) * Cardinality(Frames))
    /\ zero \in 0..(MaxPages + (Cardinality(Procs) - 1) * Cardinality(Frames))
    /\ hold \in [Frames -> 0..Cardinality(Procs)]
    /\ owner \in Procs \cup {NoProc}
    /\ pc \in [Procs -> {"app", "section", "pass", "count", "test1", "test2",
                         "set1", "set2"}]
    /\ \A p \in Procs : todo[p] \in Seq([ctr : {"P", "S"}, delta : -1..2])
    /\ after \in [Procs -> {"app", "count", "pass"}]
    /\ countDownTimer \in [Procs -> 1..CountDown]

(***************************************************************************)
(* Whenever no process is inside a WaitSem..SignalSem section, the two    *)
(* counters are exact: *allProcPrivatePageCount counts the written private *)
(* pages of all processes and each frame that one process holds, and      *)
(* *sharedPageCount each frame that two or more hold.  Every section      *)
(* decides its stores by the number of holders (the switches on            *)
(* CountSharingProcs in the fault handler and in free, the test in         *)
(* RemapRegion); with three processes a frame reaches three holders, and  *)
(* the default branches, where one holder more or less changes nothing    *)
(* shared, are taken.                                                      *)
(***************************************************************************)
CountersExact ==
    owner = NoProc =>
        /\ P = InitPrivatePages + priv + Cardinality({f \in Frames : hold[f] = 1})
        /\ S = InitSharedPages + Cardinality({f \in Frames : hold[f] >= 2})
=============================================================================
