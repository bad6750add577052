------------------------------ MODULE Lifecycle ------------------------------
(***************************************************************************)
(* The life of the processes on one node that share the library's named    *)
(* objects: the semaphore "/tmpname<semKey>" and the shared file           *)
(* "/PSMallocTest".  Every MPI job on the node opens the same two names.   *)
(*   - InitAddrSpace: InitSem opens the semaphore or creates it; then      *)
(*     AllocateSharedMetadata, under the semaphore, creates the file or   *)
(*     attaches to it, counts the process in *aliveProcs and takes the    *)
(*     rank *aliveProcs - 1 and the mask 1 << rank;                       *)
(*   - CleanUpSharedData (atexit, and Fatal): under the semaphore it       *)
(*     decrements *aliveProcs and reads it; after SignalSem, the process  *)
(*     that read 0 truncates and unlinks the file and unlinks the         *)
(*     semaphore;                                                         *)
(*   - Fatal, from a read fault: CleanUpSharedData, then MPI_Abort, which *)
(*     kills the other processes of the job without their cleanup;        *)
(*   - ASSERTX: assert, since NDEBUG is defined after <assert.h> is       *)
(*     included; abort() ends the process without any cleanup.            *)
(* The processes use one page address each; its frame in the file is the  *)
(* same for all of them, and its entry of sharingProcessesInfo is an       *)
(* unsigned integer of Width bits that the processes' masks are or-ed      *)
(* into.  A file or semaphore object is numbered by its creation; the     *)
(* name refers to one object at a time, or to none (0).                    *)
(***************************************************************************)
EXTENDS Integers, FiniteSets, Bitwise

CONSTANTS Procs,        \* the processes that ever run on the node
          JobOf,        \* the MPI job of each process
          Width,        \* bits in a bitmap entry: 8 or 16 in the code
          Vals,         \* the values a process stores in its page
          Zero,         \* the content of a fresh file frame
          NoProc,       \* nobody holds the semaphore
          BufferMayFail,  \* MergeManyPages' 4 MB compare buffer may not map
          RemapMayFail,   \* the private page of an unmerge may not map
          ReadMayFault    \* the program may read an unmapped address

\* Each process creates at most one file and one semaphore.
Objs == 1..Cardinality(Procs)

VARIABLES phase,     \* where each process is in its life
          rank, fileOf, semOf, \* its rank and the objects it opened
          seen,      \* alive_procs as CleanUpSharedData read it
          fileName, semName,   \* the object each name refers to, or 0
          nFiles, nSems,       \* objects created so far
          alive,     \* *aliveProcs of each file
          entry,     \* the page's sharingProcessesInfo entry in each file
          frame,     \* the page's frame in each file
          truncated, \* files cut to length 0
          holder,    \* the process in each semaphore's critical section
          pg,        \* the state of each process's page
          mem,       \* what each process last stored in its page
          initBit    \* the page's bit in the process's initializedPagesBV

vars == <<phase, rank, fileOf, semOf, seen, fileName, semName, nFiles, nSems,
          alive, entry, frame, truncated, holder, pg, mem, initBit>>

Mods == 2^Width

\* A rank taken from the count itself, without the - 1.
MyRankOffByOne(n) == n

\* myRank = *aliveProcs - 1, with n the count after this process's increment.
MyRank(n) == n - 1

\* currProcMask and currProcMaskInverted, truncated to the entry's width.
Mask(p) == (2^rank[p]) % Mods
Inverted(p) == Mods - 1 - Mask(p)

\* GetSharingBit and IsOtherSharing on the process's own file.
GetSharingBit(p) == (entry[fileOf[p]] & Mask(p)) # 0
IsOtherSharingOwnBit(p) == (entry[fileOf[p]] & Mask(p)) # 0
IsOtherSharing(p) == (entry[fileOf[p]] & Inverted(p)) # 0
SetSharingBit(p) == entry' = [entry EXCEPT ![fileOf[p]] = @ | Mask(p)]
UnsetSharingBit(p) == entry' = [entry EXCEPT ![fileOf[p]] = @ & Inverted(p)]

\* What the process reads at the page's address.
Reads(p) == IF pg[p] = "shared" THEN frame[fileOf[p]] ELSE mem[p]

\* The process's semaphore is free (WaitSem returns) / it takes or gives it.
SemFree(p) == holder[semOf[p]] = NoProc
Take(p) == holder' = [holder EXCEPT ![semOf[p]] = p]
Give(p) == holder' = [holder EXCEPT ![semOf[p]] = NoProc]

Running == {"run", "merging"}
Live == Running \cup {"freeing", "fatal", "exit"}
Ended == {"gone", "killed", "aborted"}

-----------------------------------------------------------------------------
Init ==
    /\ phase = [p \in Procs |-> "init"]
    /\ rank = [p \in Procs |-> 0]
    /\ fileOf = [p \in Procs |-> 0]
    /\ semOf = [p \in Procs |-> 0]
    /\ seen = [p \in Procs |-> 0]
    /\ fileName = 0 /\ semName = 0
    /\ nFiles = 0 /\ nSems = 0
    /\ alive = [f \in Objs |-> 0]
    /\ entry = [f \in Objs |-> 0]
    /\ frame = [f \in Objs |-> Zero]
    /\ truncated = {}
    /\ holder = [s \in Objs |-> NoProc]
    /\ pg = [p \in Procs |-> "none"]
    /\ mem = [p \in Procs |-> Zero]
    /\ initBit = [p \in Procs |-> FALSE]

\* InitSem: sem_open with O_CREAT|O_EXCL creates the semaphore when the name
\* is free, and opens the object it refers to otherwise.
InitSem(p) ==
    /\ phase[p] = "init"
    /\ phase' = [phase EXCEPT ![p] = "joining"]
    /\ IF semName = 0
       THEN /\ nSems' = nSems + 1
            /\ semName' = nSems + 1
            /\ semOf' = [semOf EXCEPT ![p] = nSems + 1]
       ELSE /\ semOf' = [semOf EXCEPT ![p] = semName]
            /\ UNCHANGED <<nSems, semName>>
    /\ UNCHANGED <<rank, fileOf, seen, fileName, nFiles, alive, entry, frame,
                   truncated, holder, pg, mem, initBit>>

\* AllocateSharedMetadata, between WaitSem and SignalSem: shm_open with
\* O_CREAT|O_EXCL creates and zeroes the file (*aliveProcs = 1) when the name
\* is free, or opens the file it refers to (*aliveProcs += 1); then
\* myRank = *aliveProcs - 1.
AllocateSharedMetadata(p) ==
    /\ phase[p] = "joining"
    /\ SemFree(p)
    /\ LET f == IF fileName = 0 THEN nFiles + 1 ELSE fileName
       IN  /\ fileOf' = [fileOf EXCEPT ![p] = f]
           /\ alive' = [alive EXCEPT ![f] = IF fileName = 0 THEN 1 ELSE @ + 1]
           /\ rank' = [rank EXCEPT ![p] = MyRank(alive'[f])]
           /\ fileName' = f
           /\ nFiles' = IF fileName = 0 THEN nFiles + 1 ELSE nFiles
    /\ phase' = [phase EXCEPT ![p] = "run"]
    /\ UNCHANGED <<semOf, seen, semName, nSems, entry, frame, truncated,
                   holder, pg, mem, initBit>>

\* ShmMallocWrapper: a PROT_READ mapping at the page's address.
ShmMallocWrapper(p) ==
    /\ phase[p] = "run"
    /\ pg[p] = "none"
    /\ pg' = [pg EXCEPT ![p] = "fresh"]
    /\ UNCHANGED <<phase, rank, fileOf, semOf, seen, fileName, semName, nFiles,
                   nSems, alive, entry, frame, truncated, holder, mem, initBit>>

\* A store to the page.  The first store faults: the handler counts the page
\* under the semaphore and makes it writable.  A store to a private page does
\* not fault.
Store(p, v) ==
    /\ phase[p] = "run"
    /\ \/ pg[p] = "fresh" /\ SemFree(p)
       \/ pg[p] = "private"
    /\ pg' = [pg EXCEPT ![p] = "private"]
    /\ mem' = [mem EXCEPT ![p] = v]
    /\ initBit' = [initBit EXCEPT ![p] = TRUE]
    /\ UNCHANGED <<phase, rank, fileOf, semOf, seen, fileName, semName, nFiles,
                   nSems, alive, entry, frame, truncated, holder>>

\* SigSegvHandler, write to a shared page: under the semaphore, if the
\* process's sharing bit is set, unset it and move the page to a private copy
\* (the store then completes).  If the private page does not map, the handler
\* gives the semaphore back and ASSERTX aborts the process.  Without the bit
\* the handler changes nothing (the store faults again).
SharedWriteFault(p, v) ==
    /\ phase[p] = "run"
    /\ pg[p] = "shared"
    /\ SemFree(p)
    /\ GetSharingBit(p)
    /\ UnsetSharingBit(p)
    /\ \/ /\ pg' = [pg EXCEPT ![p] = "private"]
          /\ mem' = [mem EXCEPT ![p] = v]
          /\ UNCHANGED phase
       \/ /\ RemapMayFail
          /\ phase' = [phase EXCEPT ![p] = "aborted"]
          /\ UNCHANGED <<pg, mem>>
    /\ UNCHANGED <<rank, fileOf, semOf, seen, fileName, semName, nFiles, nSems,
                   alive, frame, truncated, holder, initBit>>

\* MergeManyPages takes the semaphore for the whole pass.
MergeManyPagesLock(p) ==
    /\ phase[p] = "run"
    /\ SemFree(p)
    /\ Take(p)
    /\ phase' = [phase EXCEPT ![p] = "merging"]
    /\ UNCHANGED <<rank, fileOf, semOf, seen, fileName, semName, nFiles, nSems,
                   alive, entry, frame, truncated, pg, mem, initBit>>

\* The rest of MergeManyPages for the page: a page never written, or whose
\* sharing bit is set, is skipped; when no other process shares the frame
\* the page is copied into it (CopyAndRemapRegion); when the frame holds the
\* same content the page is mapped onto it (RemapRegion); otherwise it stays.
\* Then SignalSem.
MergeManyPages(p) ==
    /\ phase[p] = "merging"
    /\ IF pg[p] \in {"none", "fresh"} \/ GetSharingBit(p)
       THEN UNCHANGED <<entry, frame, pg>>
       ELSE IF ~IsOtherSharing(p)
       THEN /\ frame' = [frame EXCEPT ![fileOf[p]] = Reads(p)]
            /\ SetSharingBit(p)
            /\ pg' = [pg EXCEPT ![p] = "shared"]
       ELSE IF frame[fileOf[p]] = Reads(p)
       THEN /\ SetSharingBit(p)
            /\ pg' = [pg EXCEPT ![p] = "shared"]
            /\ UNCHANGED frame
       ELSE UNCHANGED <<entry, frame, pg>>
    /\ Give(p)
    /\ phase' = [phase EXCEPT ![p] = "run"]
    /\ UNCHANGED <<rank, fileOf, semOf, seen, fileName, semName, nFiles, nSems,
                   alive, truncated, mem, initBit>>

\* GetSharedRegion for the compare buffer returns MAP_FAILED, unchecked: a
\* page that another process shares is compared with it, and the read
\* fault calls Fatal with the semaphore held.
MergeBufferFail(p) ==
    /\ phase[p] = "merging"
    /\ BufferMayFail
    /\ pg[p] \in {"private", "shared"}
    /\ ~GetSharingBit(p)
    /\ IsOtherSharing(p)
    /\ phase' = [phase EXCEPT ![p] = "fatal"]
    /\ UNCHANGED <<rank, fileOf, semOf, seen, fileName, semName, nFiles, nSems,
                   alive, entry, frame, truncated, holder, pg, mem, initBit>>

\* SigSegvHandler, a fault that is not a write to a protected page (the
\* program reads an address nothing maps): Fatal.
ReadFault(p) ==
    /\ phase[p] = "run"
    /\ ReadMayFault
    /\ phase' = [phase EXCEPT ![p] = "fatal"]
    /\ UNCHANGED <<rank, fileOf, semOf, seen, fileName, semName, nFiles, nSems,
                   alive, entry, frame, truncated, holder, pg, mem, initBit>>

\* ShmFreeWrapper, first part: RemoveAVL and munmap, before WaitSem.
ShmFreeUnmap(p) ==
    /\ phase[p] = "run"
    /\ pg[p] # "none"
    /\ phase' = [phase EXCEPT ![p] = "freeing"]
    /\ pg' = [pg EXCEPT ![p] = "none"]
    /\ mem' = [mem EXCEPT ![p] = Zero]
    /\ UNCHANGED <<rank, fileOf, semOf, seen, fileName, semName, nFiles, nSems,
                   alive, entry, frame, truncated, holder, initBit>>

\* ShmFreeWrapper, under the semaphore: ResetAndReturnBit clears the page's
\* initializedPagesBV bit; only a page that was written has its sharing bit
\* looked at, and it is unset if GetSharingBit says it is the process's.
ShmFreeWrapper(p) ==
    /\ phase[p] = "freeing"
    /\ SemFree(p)
    /\ IF initBit[p] /\ GetSharingBit(p) THEN UnsetSharingBit(p)
                                         ELSE UNCHANGED entry
    /\ initBit' = [initBit EXCEPT ![p] = FALSE]
    /\ phase' = [phase EXCEPT ![p] = "run"]
    /\ UNCHANGED <<rank, fileOf, semOf, seen, fileName, semName, nFiles, nSems,
                   alive, frame, truncated, holder, pg, mem>>

\* The program returns from main after MPI_Finalize, which no process of the
\* job passes before every process of the job has passed MPI_Init.
Exit(p) ==
    /\ phase[p] = "run"
    /\ \A q \in Procs : JobOf[q] = JobOf[p] => phase[q] \notin {"init", "joining"}
    /\ phase' = [phase EXCEPT ![p] = "exit"]
    /\ UNCHANGED <<rank, fileOf, semOf, seen, fileName, semName, nFiles, nSems,
                   alive, entry, frame, truncated, holder, pg, mem, initBit>>

\* CleanUpSharedData up to SignalSem: --(*aliveProcs), then alive_procs is
\* read.  The sharing bits of pages still mapped are left as they are.
CleanUpLocked(p) ==
    /\ phase[p] \in {"exit", "fatal"}
    /\ SemFree(p)
    /\ alive' = [alive EXCEPT ![fileOf[p]] = @ - 1]
    /\ seen' = [seen EXCEPT ![p] = alive'[fileOf[p]]]
    /\ phase' = [phase EXCEPT ![p] = IF phase[p] = "exit" THEN "closing"
                                                          ELSE "aborting"]
    /\ UNCHANGED <<rank, fileOf, semOf, fileName, semName, nFiles, nSems,
                   entry, frame, truncated, holder, pg, mem, initBit>>

\* A last-out test that also fires when one other process is still counted.
IsLastOutOffByOne(p) == seen[p] <= 1

\* if(!alive_procs): this process was the last one counted.
IsLastOut(p) == seen[p] = 0

\* A last-out cleanup that forgets sem_unlink.
RemoveNamedKeepSem(p) ==
    /\ truncated' = truncated \cup {fileOf[p]}
    /\ fileName' = 0
    /\ UNCHANGED semName

\* ftruncate64(sharedFileDescr, 0); shm_unlink("/PSMallocTest");
\* sem_unlink(semName).
RemoveNamed(p) ==
    /\ truncated' = truncated \cup {fileOf[p]}
    /\ fileName' = 0
    /\ semName' = 0

\* Fatal, after CleanUpSharedData: MPI_Abort ends the other processes of
\* the job, which run no cleanup.
MPIAbort(p) ==
    [q \in Procs |-> IF q # p /\ JobOf[q] = JobOf[p]
                        /\ phase[q] \notin {"gone", "aborted"}
                     THEN "killed" ELSE phase[q]]

\* CleanUpSharedData after SignalSem: a process that read 0 truncates its
\* file and unlinks both names, whatever objects they refer to by now.  From
\* Fatal, MPI_Abort then kills the rest of the job.
CleanUpUnlink(p) ==
    /\ phase[p] \in {"closing", "aborting"}
    /\ IF IsLastOut(p)
       THEN RemoveNamed(p)
       ELSE UNCHANGED <<truncated, fileName, semName>>
    /\ phase' = [IF phase[p] = "aborting" THEN MPIAbort(p) ELSE phase
                  EXCEPT ![p] = "gone"]
    /\ UNCHANGED <<rank, fileOf, semOf, seen, nFiles, nSems, alive, entry,
                   frame, holder, pg, mem, initBit>>

\* Every process has ended.
Terminated ==
    /\ \A p \in Procs : phase[p] \in Ended
    /\ UNCHANGED vars

Next ==
    \/ \E p \in Procs :
          \/ InitSem(p) \/ AllocateSharedMetadata(p) \/ ShmMallocWrapper(p)
          \/ \E v \in Vals : Store(p, v) \/ SharedWriteFault(p, v)
          \/ MergeManyPagesLock(p) \/ MergeManyPages(p) \/ MergeBufferFail(p)
          \/ ReadFault(p)
          \/ ShmFreeUnmap(p) \/ ShmFreeWrapper(p) \/ Exit(p) \/ CleanUpLocked(p) \/ CleanUpUnlink(p)
    \/ Terminated

\* A process inside a library call runs on: the rest of a merge pass and the
\* unlinking after SignalSem wait for nothing.
Fairness ==
    \A p \in Procs : WF_vars(MergeManyPages(p)) /\ WF_vars(CleanUpUnlink(p))

Spec == Init /\ [][Next]_vars /\ Fairness
=============================================================================
