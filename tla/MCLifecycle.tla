----------------------------- MODULE MCLifecycle -----------------------------
(***************************************************************************)
(* Lifecycle instantiated for TLC: two or three processes, in one MPI job  *)
(* or in two jobs that run back to back on the node.  Width 2 stands for   *)
(* the 8 or 16 bits of a bitmap entry: what matters is whether the ranks   *)
(* reach it.                                                               *)
(***************************************************************************)
EXTENDS Lifecycle

CONSTANTS a, b, c

\* Every process belongs to the same job.
OneJob == [p \in Procs |-> 1]

\* c is a later job, started while a and b's job ends.
TwoJobs == [p \in Procs |-> IF p = c THEN 2 ELSE 1]

\* Each process alone in its job.
JobPerProc == [p \in Procs |-> CASE p = a -> 1 [] p = b -> 2 [] OTHER -> 3]

Phases == {"init", "joining", "run", "merging", "freeing", "fatal", "exit", "closing",
           "aborting", "gone", "killed", "aborted"}

TypeOK ==
    /\ phase \in [Procs -> Phases]
    /\ rank \in [Procs -> 0..(Cardinality(Procs) - 1)]
    /\ fileOf \in [Procs -> 0..Cardinality(Procs)]
    /\ semOf \in [Procs -> 0..Cardinality(Procs)]
    /\ fileName \in 0..nFiles /\ semName \in 0..nSems
    /\ alive \in [Objs -> 0..Cardinality(Procs)]
    /\ entry \in [Objs -> 0..(Mods - 1)]
    /\ frame \in [Objs -> Vals \cup {Zero}]
    /\ truncated \subseteq 1..nFiles
    /\ holder \in [Objs -> Procs \cup {NoProc}]
    /\ pg \in [Procs -> {"none", "fresh", "private", "shared"}]
    /\ mem \in [Procs -> Vals \cup {Zero}]
    /\ initBit \in [Procs -> BOOLEAN]

(***************************************************************************)
(* A process running the program that has its page mapped onto the        *)
(* shared frame reads there what it last stored.  This is what the        *)
(* sharing bits exist for: MergeManyPages overwrites a frame only when     *)
(* IsOtherSharing says nobody else maps it, so a wrong bit (a rank shared *)
(* by two processes, a mask wider than the entry) lets one process's data *)
(* replace another's.                                                      *)
(***************************************************************************)
SharedViewIntact ==
    \A p \in Procs :
        phase[p] \in Running /\ pg[p] = "shared" => frame[fileOf[p]] = mem[p]

(***************************************************************************)
(* No process that is still alive is attached to a file that a last-out    *)
(* CleanUpSharedData has truncated: its next access to the metadata would  *)
(* raise SIGBUS.  The decision to truncate is made from alive_procs, read  *)
(* under the semaphore and used after SignalSem.                           *)
(***************************************************************************)
FileLive ==
    \A p \in Procs : phase[p] \in Live => fileOf[p] \notin truncated

(***************************************************************************)
(* When every process on the node has ended, the shared file and the       *)
(* semaphore are unlinked: the count in *aliveProcs reached 0 and the last *)
(* process out removed them.  Otherwise the next job attaches to the old  *)
(* file with a stale count and stale sharing bits.                         *)
(***************************************************************************)
NamesRemovedAtEnd ==
    (\A p \in Procs : phase[p] \in Ended) =>
        fileName = 0 /\ semName = 0

(***************************************************************************)
(* A process that holds a semaphore gives it back eventually: every       *)
(* WaitSem of MergeManyPages is followed by its SignalSem.                 *)
(***************************************************************************)
SemaphoreReleased ==
    \A s \in Objs, p \in Procs : holder[s] = p ~> holder[s] # p
=============================================================================
