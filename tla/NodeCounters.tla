---------------------------- MODULE NodeCounters ----------------------------
(***************************************************************************)
(* The two node-wide counters of the shared metadata file,                 *)
(* *allProcPrivatePageCount (P) and *sharedPageCount (S), at the           *)
(* granularity of single stores, and MergeByTHRESHOLD, which loads them    *)
(* without the semaphore (SharedHeap.cpp 1777 and 1781).                   *)
(*                                                                         *)
(* Every section that changes a counter runs between WaitSem and SignalSem *)
(* and performs its stores one at a time, in the order of the code; a      *)
(* sibling that loads the counters meanwhile sees the values in between.   *)
(* The pages themselves are kept only as node-wide counts: written private *)
(* pages, pages on the zero frame, and the holders of each frame of the    *)
(* shared file.  Which process holds which frame is left out: the counters *)
(* depend only on how many hold it.                                        *)
(***************************************************************************)
EXTENDS Integers, Sequences, FiniteSets

CONSTANTS
    Procs,             \* the MPI processes of the node
    Frames,            \* frames of the shared file
    MaxPages,          \* bound: written pages of all processes together
    CountDown,         \* period of MergeByTHRESHOLD's countDownTimer (100)
    MinMemTh,          \* MIN_MEM_TH, initial mergeMinMemTh
    LoadOrder,         \* the order the build loads the two counters in
    InitPrivatePages,  \* *allProcPrivatePageCount after AllocateSharedMetadata (192)
    InitSharedPages,   \* *sharedPageCount after AllocateSharedMetadata (1)
    NoProc

ASSUME LoadOrder \in {<<"P", "S">>, <<"S", "P">>}

VARIABLES
    P, S,              \* the two counters in the shared file
    priv,              \* written pages that are private, all processes
    zero,              \* pages mapped on the zero frame, all processes
    hold,              \* frame -> number of processes that map it
    owner,             \* the process in a WaitSem..SignalSem section
    pc,                \* per process: where it is
    todo,              \* per process: stores left in its section
    after,             \* per process: where it goes after SignalSem
    ld,                \* per process: the counter values it has loaded
    countDownTimer,    \* per process: static countDownTimer
    mergeMinMemTh      \* per process: static threshold

vars == <<P, S, priv, zero, hold, owner, pc, todo, after, ld,
          countDownTimer, mergeMinMemTh>>

Written == priv + zero + Cardinality({f \in Frames : hold[f] > 0})

\* A store of the code: (*counter) += delta.
St(c, d) == [ctr |-> c, delta |-> d]

----------------------------------------------------------------------------
Init ==
    /\ P = InitPrivatePages /\ S = InitSharedPages
    /\ priv = 0 /\ zero = 0 /\ hold = [f \in Frames |-> 0]
    /\ owner = NoProc
    /\ pc = [p \in Procs |-> "app"]
    /\ todo = [p \in Procs |-> <<>>]
    /\ after = [p \in Procs |-> "app"]
    /\ ld = [p \in Procs |-> 0]
    /\ countDownTimer = [p \in Procs |-> CountDown]
    /\ mergeMinMemTh = [p \in Procs |-> MinMemTh]

\* WaitSem, then the section's bitmap and mapping changes at once; its
\* counter stores are left in todo.
Begin(p, from, stores, next, pr, zr, hd) ==
    /\ pc[p] = from /\ owner = NoProc
    /\ owner' = p /\ pc' = [pc EXCEPT ![p] = "section"]
    /\ todo' = [todo EXCEPT ![p] = stores]
    /\ after' = [after EXCEPT ![p] = next]
    /\ priv' = pr /\ zero' = zr /\ hold' = hd
    /\ UNCHANGED <<P, S, ld, countDownTimer, mergeMinMemTh>>

\* The first write to a page (1008-1021): *allProcPrivatePageCount += 1;
\* the handler ends in MergeByTHRESHOLD.
FirstWrite(p) ==
    /\ Written < MaxPages
    /\ Begin(p, "app", <<St("P", 1)>>, "count", priv + 1, zero, hold)

\* A write to a page on the zero frame (1044-1049).
UnmergeZero(p) ==
    /\ zero > 0
    /\ Begin(p, "app", <<St("P", 1)>>, "count", priv + 1, zero - 1, hold)

\* An unmerge that counts the holders before UnsetSharingBit.
UnmergeSharedCountBefore(p, f) ==
    /\ hold[f] > 0
    /\ LET stores == CASE hold[f] = 1 -> <<St("S", -1), St("P", 2)>>
                       [] hold[f] = 0 -> <<>>
                       [] OTHER       -> <<St("P", 1)>>
       IN  Begin(p, "app", stores, "count", priv + 1, zero,
                 [hold EXCEPT ![f] = @ - 1])

\* A write to a shared page (1051-1069): UnsetSharingBit, then by the
\* number of holders left.
UnmergeShared(p, f) ==
    /\ hold[f] > 0
    /\ LET left == hold[f] - 1
           stores == CASE left = 1 -> <<St("S", -1), St("P", 2)>>
                       [] left = 0 -> <<>>
                       [] OTHER    -> <<St("P", 1)>>
       IN  Begin(p, "app", stores, "count", priv + 1, zero,
                 [hold EXCEPT ![f] = left])

\* free of a one-page region (2955-3000), by what the page was.
FreePrivate(p) ==
    /\ priv > 0
    /\ Begin(p, "app", <<St("P", -1)>>, "app", priv - 1, zero, hold)

FreeZero(p) ==
    /\ zero > 0
    /\ Begin(p, "app", <<>>, "app", priv, zero - 1, hold)

FreeShared(p, f) ==
    /\ hold[f] > 0
    /\ LET stores == CASE hold[f] = 1 -> <<St("P", -1)>>
                       [] hold[f] = 2 -> <<St("S", -1), St("P", 1)>>
                       [] OTHER       -> <<>>
       IN  Begin(p, "app", stores, "app", priv, zero,
                 [hold EXCEPT ![f] = @ - 1])

\* A pass's page that joins a frame someone holds (RemapRegion 2355-2361):
\* the shared count first, then private.
Join(p, f) ==
    /\ priv > 0 /\ 0 < hold[f] /\ hold[f] < Cardinality(Procs)
    /\ LET stores == IF hold[f] = 1
                     THEN <<St("S", 1), St("P", -1), St("P", -1)>>
                     ELSE <<St("P", -1)>>
       IN  Begin(p, "pass", stores, "pass", priv - 1, zero,
                 [hold EXCEPT ![f] = @ + 1])

\* A pass's page moved into a frame nobody holds (CopyAndRemapRegion):
\* the page stays counted as private.
Move(p, f) ==
    /\ priv > 0 /\ hold[f] = 0
    /\ Begin(p, "pass", <<>>, "pass", priv - 1, zero, [hold EXCEPT ![f] = 1])

\* A pass's zero page (RemapToZero 2396-2400).
ToZero(p) ==
    /\ priv > 0
    /\ Begin(p, "pass", <<St("P", -1)>>, "pass", priv - 1, zero + 1, hold)

EndPass(p) ==
    /\ pc[p] = "pass"
    /\ pc' = [pc EXCEPT ![p] = "app"]
    /\ UNCHANGED <<P, S, priv, zero, hold, owner, todo, after, ld,
                   countDownTimer, mergeMinMemTh>>

\* One store of the section: a load and a store of the counter, which no
\* other writer can interleave (they wait on the semaphore).
Store(p) ==
    /\ pc[p] = "section" /\ todo[p] # <<>>
    /\ LET s == Head(todo[p])
       IN  /\ P' = IF s.ctr = "P" THEN P + s.delta ELSE P
           /\ S' = IF s.ctr = "S" THEN S + s.delta ELSE S
    /\ todo' = [todo EXCEPT ![p] = Tail(@)]
    /\ UNCHANGED <<priv, zero, hold, owner, pc, after, ld,
                   countDownTimer, mergeMinMemTh>>

SignalSem(p) ==
    /\ pc[p] = "section" /\ todo[p] = <<>>
    /\ owner' = NoProc
    /\ pc' = [pc EXCEPT ![p] = after[p]]
    /\ UNCHANGED <<P, S, priv, zero, hold, todo, after, ld,
                   countDownTimer, mergeMinMemTh>>

----------------------------------------------------------------------------
(***************************************************************************)
(* MergeByTHRESHOLD (1765-1781): the static countdown, then the test and   *)
(* the assignment, each an expression *allProcPrivatePageCount +           *)
(* *sharedPageCount: two loads, in the order the build chose, with no      *)
(* semaphore held.  A pass (TraverseAVL) follows the assignment.           *)
(***************************************************************************)
Load(c) == IF c = "P" THEN P ELSE S

CountDownTick(p) ==
    /\ pc[p] = "count"
    /\ IF countDownTimer[p] - 1 = 0
       THEN /\ countDownTimer' = [countDownTimer EXCEPT ![p] = CountDown]
            /\ pc' = [pc EXCEPT ![p] = "test1"]
       ELSE /\ countDownTimer' = [countDownTimer EXCEPT ![p] = @ - 1]
            /\ pc' = [pc EXCEPT ![p] = "app"]
    /\ UNCHANGED <<P, S, priv, zero, hold, owner, todo, after, ld, mergeMinMemTh>>

\* The first load of either expression.
LoadFirst(p) ==
    /\ pc[p] \in {"test1", "set1"}
    /\ ld' = [ld EXCEPT ![p] = Load(LoadOrder[1])]
    /\ pc' = [pc EXCEPT ![p] = IF pc[p] = "test1" THEN "test2" ELSE "set2"]
    /\ UNCHANGED <<P, S, priv, zero, hold, owner, todo, after,
                   countDownTimer, mergeMinMemTh>>

\* 1776-1777: the second load and the test against mergeMinMemTh.
Test(p) ==
    /\ pc[p] = "test2"
    /\ pc' = [pc EXCEPT ![p] = IF ld[p] + Load(LoadOrder[2]) >= mergeMinMemTh[p]
                               THEN "set1" ELSE "app"]
    /\ UNCHANGED <<P, S, priv, zero, hold, owner, todo, after, ld,
                   countDownTimer, mergeMinMemTh>>

\* 1781: the second load and the new threshold; then the pass.
SetThreshold(p) ==
    /\ pc[p] = "set2"
    /\ mergeMinMemTh' = [mergeMinMemTh EXCEPT ![p] = ld[p] + Load(LoadOrder[2])]
    /\ pc' = [pc EXCEPT ![p] = "pass"]
    /\ UNCHANGED <<P, S, priv, zero, hold, owner, todo, after, ld, countDownTimer>>

----------------------------------------------------------------------------
Step(p) ==
    \/ FirstWrite(p) \/ UnmergeZero(p) \/ FreePrivate(p) \/ FreeZero(p)
    \/ ToZero(p) \/ EndPass(p) \/ Store(p) \/ SignalSem(p)
    \/ \E f \in Frames : UnmergeShared(p, f) \/ FreeShared(p, f) \/ Join(p, f) \/ Move(p, f)
    \/ CountDownTick(p) \/ LoadFirst(p) \/ Test(p) \/ SetThreshold(p)

Next == \E p \in Procs : Step(p)

Spec == Init /\ [][Next]_vars
=============================================================================
