----------------------------- MODULE SharedHeap -----------------------------
(***************************************************************************)
(* The page-deduplication engine of SBLLmalloc (SharedHeap.cpp), for a    *)
(* node of sibling processes that have all joined the shared file with     *)
(* distinct ranks (the join itself is modelled in Lifecycle).              *)
(*                                                                         *)
(* Page i of a process is the page at offset i of its 3 GB heap window;    *)
(* frame i of the shared file backs page i of every process holding it.    *)
(* Frame 0 is the canonical zero page and is not in Pages.                 *)
(*                                                                         *)
(* Every critical section the code runs under the node semaphore is one    *)
(* step; the unlocked parts around it touch only process-local state and   *)
(* are folded into the adjacent step.  A merge pass is one step per AVL    *)
(* node, as MergeManyPages holds the semaphore for one region at a time.   *)
(***************************************************************************)
EXTENDS Integers, FiniteSets, FiniteSetsExt

CONSTANTS
    Procs,            \* sibling processes of the node
    NPages,           \* pages of the heap window: indices 1..NPages
    Data,             \* non-zero page contents
    Zero,             \* the all-zero page content
    MaxRegion,        \* largest allocation, in pages
    MergeMetric,      \* MERGE_METRIC: "ALLOC_FREQUENCY" or "THRESHOLD"
    MallocRefFreq,    \* MALLOC_MERGE_FREQ: mallocs between two passes
    CountDown,        \* period of MergeByTHRESHOLD's countDownTimer (100)
    MinMemTh,         \* initial mergeMinMemTh, in pages
    InitPrivatePages, \* *allProcPrivatePageCount after the first join (192)
    InitSharedPages,  \* *sharedPageCount after the first join (1)
    MmapMayFail       \* whether an mmap may fail (vm.max_map_count reached)

ASSUME MergeMetric \in {"ALLOC_FREQUENCY", "THRESHOLD"}
ASSUME MallocRefFreq \in Nat \ {0} /\ CountDown \in Nat \ {0}
ASSUME Zero \notin Data /\ MmapMayFail \in BOOLEAN

VARIABLES
    region,           \* allocRecord (AVL tree): base -> size in pages, 0 = none
    dirty,            \* dirty flag of the AVL node at each base
    map,              \* kind of the mapping at each page of each process
    priv,             \* content of a private page
    frame,            \* content of each frame of the shared file
    initBV,           \* initializedPagesBV
    zeroBV,           \* zeroPagesBV
    holders,          \* sharingProcessesInfo: processes whose bit is set
    sharedPageCount,  \* *sharedPageCount
    privatePageCount, \* *allProcPrivatePageCount
    mergeMinMemTh,    \* per process: threshold of MergeByTHRESHOLD
    countDownTimer,   \* static countDownTimer of MergeByTHRESHOLD
    mallocRefCounter, \* mallocRefCounter of MergeByALLOC_FREQUENCY
    pc,               \* "idle", "access" (a store retried after faults),
                      \* "merge" (TraverseAVL in progress), "malloc" (mmap next)
    want,             \* the store being executed: page and value
    todo,             \* AVL nodes the running traversal has still to visit
    after,            \* where the traversal returns: "access" or "malloc"
    req,              \* size of the pending ShmMallocWrapper request
    rc                \* ShmReallocWrapper in progress: old base, new base,
                      \* pages memcpy has copied so far

vars == <<region, dirty, map, priv, frame, initBV, zeroBV, holders,
          sharedPageCount, privatePageCount, mergeMinMemTh, countDownTimer,
          mallocRefCounter, pc, want, todo, after, req, rc>>

Pages == 1..NPages
Vals  == Data \cup {Zero}
NoWrite == [page |-> 0, val |-> Zero]
NoRealloc == [old |-> 0, new |-> 0, k |-> 0]

\* none: unmapped; anon: fresh PROT_READ anonymous page, never written;
\* private: private read-write page; zero: frame 0 read-only;
\* shared: frame i read-only.
Mappings == {"none", "anon", "private", "zero", "shared"}

RegionPages(b, s) == b..(b + s - 1)

Bases(p) == {b \in Pages : region[p][b] > 0}

LivePages(p) == UNION {RegionPages(b, region[p][b]) : b \in Pages}

\* What a load from page i of process p returns.
View(p, i) ==
    CASE map[p][i] \in {"none", "anon", "zero"} -> Zero
      [] map[p][i] = "private"                  -> priv[p][i]
      [] map[p][i] = "shared"                   -> frame[i]

CountSharingProcs(i) == Cardinality(holders[i])

GetSharingBit(p, i) == p \in holders[i]

IsOtherSharing(p, i) == holders[i] \ {p} # {}

-----------------------------------------------------------------------------
\* Mutant of Kind: a page another process holds is joined without
\* comparing it with the frame.
KindNoCompare(p, i) ==
    CASE ~initBV[p][i] \/ zeroBV[p][i] \/ GetSharingBit(p, i) -> "skip"
      [] View(p, i) = Zero                                    -> "zero"
      [] ~IsOtherSharing(p, i)                                -> "move"
      [] OTHER                                                -> "share"

(***************************************************************************)
(* MergeManyPages: classification of one page, in the order of the tests  *)
(* of the loop: never written, already zero, already held, equal to the    *)
(* zero page, no other holder (publish), equal to the frame (join).        *)
(***************************************************************************)
Kind(p, i) ==
    CASE ~initBV[p][i] \/ zeroBV[p][i] \/ GetSharingBit(p, i) -> "skip"
      [] View(p, i) = Zero                                    -> "zero"
      [] ~IsOtherSharing(p, i)                                -> "move"
      [] frame[i] = View(p, i)                                -> "share"
      [] OTHER                                                -> "keep"

\* Pages i <= j lie in one batched run: FLUSH_OUTSTANDING_MERGES is not
\* called between them.
SameRun(p, i, j) ==
    /\ i <= j
    /\ Kind(p, i) \in {"zero", "move", "share"}
    /\ \A k \in i..j : Kind(p, k) = Kind(p, i)

\* done[i]: the remapping of page i took effect.  RemapToZero maps page by
\* page and returns at the first failed mmap, so a zero run is done on a
\* prefix; the other two map a run with one call, all or nothing.
Outcome(p, pg, done) ==
    /\ \A i \in pg : Kind(p, i) \notin {"zero", "move", "share"} => done[i]
    /\ MmapMayFail \/ \A i \in pg : done[i]
    /\ \A i, j \in pg :
         SameRun(p, i, j) =>
            IF Kind(p, i) = "zero" THEN done[j] => done[i]
                                   ELSE done[i] = done[j]

\* RemapToZero: zeroPagesBV is set (SetMultiBits) only after every page of
\* the run is remapped.
ZeroBits(p, pg, done) ==
    {i \in pg : /\ Kind(p, i) = "zero"
                /\ \A j \in pg : SameRun(p, i, j) \/ SameRun(p, j, i) => done[j]}

\* CopyAndRemapRegion: the frames of the moved pages M take their content
\* (memcpy into the shared file, then mremap over the pages).
CopyAndRemapRegion(p, M) == [i \in Pages |-> IF i \in M THEN View(p, i) ELSE frame[i]]

\* RemapRegion: counter deltas of joining the frames of pages S; a frame
\* that had one holder becomes shared, and its holder's page with it.
RemapRegion(S) ==
    LET S1 == {i \in S : CountSharingProcs(i) = 1} IN
    [dp |-> - Cardinality(S) - Cardinality(S1), ds |-> Cardinality(S1)]

\* MergeManyPages for the region at b, under the semaphore: classify the
\* pages, flush each run with RemapToZero, CopyAndRemapRegion or
\* RemapRegion, and mark the moved and joined pages held by p.
MergeManyPages(p, b) ==
    LET pg == RegionPages(b, region[p][b]) IN
    \E done \in [pg -> BOOLEAN] :
      /\ Outcome(p, pg, done)
      /\ LET Done(k) == {i \in pg : Kind(p, i) = k /\ done[i]}
             Z == Done("zero")
             M == Done("move")
             S == Done("share")
         IN
         /\ map' = [map EXCEPT ![p] = [i \in Pages |->
                      IF i \in Z THEN "zero"
                      ELSE IF i \in M \cup S THEN "shared" ELSE @[i]]]
         /\ priv' = [priv EXCEPT ![p] = [i \in Pages |->
                       IF i \in Z \cup M \cup S THEN Zero ELSE @[i]]]
         /\ frame' = CopyAndRemapRegion(p, M)
         /\ holders' = [i \in Pages |->
                          IF i \in M \cup S THEN holders[i] \cup {p} ELSE holders[i]]
         /\ zeroBV' = [zeroBV EXCEPT ![p] = [i \in Pages |->
                         @[i] \/ i \in ZeroBits(p, pg, done)]]
         /\ privatePageCount' = privatePageCount - Cardinality(Z) + RemapRegion(S).dp
         /\ sharedPageCount' = sharedPageCount + RemapRegion(S).ds

-----------------------------------------------------------------------------
(***************************************************************************)
(* Actions of process p.                                                   *)
(***************************************************************************)

\* The application issues a store of v to page i of one of its regions.
Access(p, i, v) ==
    /\ pc[p] = "idle"
    /\ i \in LivePages(p)
    /\ want' = [want EXCEPT ![p] = [page |-> i, val |-> v]]
    /\ pc' = [pc EXCEPT ![p] = "access"]
    /\ UNCHANGED <<region, dirty, map, priv, frame, initBV, zeroBV, holders,
                   sharedPageCount, privatePageCount, mergeMinMemTh,
                   countDownTimer, mallocRefCounter, todo, after, req, rc>>

\* The store hits a writable page and completes; a store of realloc's
\* memcpy returns to the copy loop.
Store(p) ==
    LET i == want[p].page IN
    /\ pc[p] = "access"
    /\ map[p][i] = "private"
    /\ priv' = [priv EXCEPT ![p][i] = want[p].val]
    /\ want' = [want EXCEPT ![p] = NoWrite]
    /\ pc' = [pc EXCEPT ![p] = IF rc[p] = NoRealloc THEN "idle" ELSE "copy"]
    /\ UNCHANGED <<region, dirty, map, frame, initBV, zeroBV, holders,
                   sharedPageCount, privatePageCount, mergeMinMemTh,
                   countDownTimer, mallocRefCounter, todo, after, req, rc>>

\* Mutants of SharedUnmerge: the sharing bit is not cleared; the frame is
\* not copied into the new private page; case 1 counts one page, not two.
SharedUnmergeKeepBit(p, i) ==
    LET n == Cardinality(holders[i] \ {p}) IN
    [m |-> "private", c |-> frame[i], h |-> holders[i],
     dp |-> CASE n = 0 -> 0 [] n = 1 -> 2 [] OTHER -> 1,
     ds |-> IF n = 1 THEN -1 ELSE 0]

SharedUnmergeNoCopy(p, i) ==
    LET n == Cardinality(holders[i] \ {p}) IN
    [m |-> "private", c |-> Zero, h |-> holders[i] \ {p},
     dp |-> CASE n = 0 -> 0 [] n = 1 -> 2 [] OTHER -> 1,
     ds |-> IF n = 1 THEN -1 ELSE 0]

SharedUnmergeCountOne(p, i) ==
    LET n == Cardinality(holders[i] \ {p}) IN
    [m |-> "private", c |-> frame[i], h |-> holders[i] \ {p},
     dp |-> CASE n = 0 -> 0 [] OTHER -> 1,
     ds |-> IF n = 1 THEN -1 ELSE 0]

\* Unmerge of a shared page: clear p's bit, count the holders left (n),
\* copy the frame into a fresh private page and mremap it over the page.
\* n = 1: the frame stops being shared and the one holder left now has a
\* private page, as does p; n = 0: p was its only holder, already counted
\* private; n >= 2: p's page becomes private.
\* The result is the new mapping (m) and content (c) of the page, the new
\* holders of frame i (h) and the deltas of the private (dp) and shared
\* (ds) counts.
SharedUnmerge(p, i) ==
    LET n == Cardinality(holders[i] \ {p}) IN
    [m |-> "private", c |-> frame[i], h |-> holders[i] \ {p},
     dp |-> CASE n = 0 -> 0 [] n = 1 -> 2 [] OTHER -> 1,
     ds |-> IF n = 1 THEN -1 ELSE 0]

\* The unmerge the fault handler does for page i, by the bits it reads:
\* a first write mprotects the fresh anonymous page read-write; a zero
\* page gets a fresh private zero page over it (MAP_FIXED); a shared page
\* is unmerged as above; any other page is left as it is.
Unmerge(p, i) ==
    CASE ~initBV[p][i]       -> [m |-> "private", c |-> Zero, h |-> holders[i], dp |-> 1, ds |-> 0]
      [] zeroBV[p][i]        -> [m |-> "private", c |-> Zero, h |-> holders[i], dp |-> 1, ds |-> 0]
      [] GetSharingBit(p, i) -> SharedUnmerge(p, i)
      [] OTHER               -> [m |-> map[p][i], c |-> priv[p][i], h |-> holders[i], dp |-> 0, ds |-> 0]

\* Mutants of TimerNext: the timer is never re-armed; it is re-armed to 1.
TimerNoReset(t) == t - 1

TimerRearmOne(t) == IF t - 1 = 0 THEN 1 ELSE t - 1

\* The static countDownTimer of MergeByTHRESHOLD after one call.
TimerNext(t) == IF t - 1 = 0 THEN CountDown ELSE t - 1

\* SigSegvHandler on a write fault: mark the region dirty, set the
\* initialized bit, clear the zero bit, unmerge the page under the
\* semaphore, then (THRESHOLD) call MergeByTHRESHOLD, which runs a pass
\* when its countdown expires and the node's page count has reached the
\* high-water mark.  The store is retried when the handler returns.
SigSegvHandler(p) ==
    LET i     == want[p].page
        u     == Unmerge(p, i)
        owner == CHOOSE b \in Bases(p) : i \in RegionPages(b, region[p][b])
        total == privatePageCount + u.dp + sharedPageCount + u.ds
        fire  == MergeMetric = "THRESHOLD" /\ countDownTimer[p] - 1 = 0
                 /\ total >= mergeMinMemTh[p]
    IN
    /\ pc[p] = "access"
    /\ map[p][i] # "private"
    /\ dirty' = [dirty EXCEPT ![p][owner] = TRUE]
    /\ initBV' = [initBV EXCEPT ![p][i] = TRUE]
    /\ zeroBV' = [zeroBV EXCEPT ![p][i] = FALSE]
    /\ map' = [map EXCEPT ![p][i] = u.m]
    /\ priv' = [priv EXCEPT ![p][i] = u.c]
    /\ holders' = [holders EXCEPT ![i] = u.h]
    /\ privatePageCount' = privatePageCount + u.dp
    /\ sharedPageCount' = sharedPageCount + u.ds
    /\ countDownTimer' = IF MergeMetric = "THRESHOLD"
                         THEN [countDownTimer EXCEPT ![p] = TimerNext(@)]
                         ELSE countDownTimer
    /\ mergeMinMemTh' = IF fire THEN [mergeMinMemTh EXCEPT ![p] = total] ELSE mergeMinMemTh
    /\ pc' = IF fire THEN [pc EXCEPT ![p] = "merge"] ELSE pc
    /\ todo' = IF fire THEN [todo EXCEPT ![p] = Bases(p)] ELSE todo
    /\ after' = IF fire THEN [after EXCEPT ![p] = "access"] ELSE after
    /\ UNCHANGED <<region, frame, mallocRefCounter, want, req, rc>>

\* MergeNode2 on the next AVL node of the in-order traversal: merge its
\* pages if it is dirty, then clear the flag.
MergeNode2(p) ==
    LET b == Min(todo[p]) IN
    /\ pc[p] = "merge"
    /\ todo[p] # {}
    /\ todo' = [todo EXCEPT ![p] = @ \ {b}]
    /\ \/ /\ dirty[p][b]
          /\ MergeManyPages(p, b)
          /\ dirty' = [dirty EXCEPT ![p][b] = FALSE]
       \/ /\ ~dirty[p][b]
          /\ UNCHANGED <<dirty, map, priv, frame, holders, zeroBV,
                         privatePageCount, sharedPageCount>>
    /\ UNCHANGED <<region, initBV, mergeMinMemTh, countDownTimer,
                   mallocRefCounter, pc, want, after, req, rc>>

\* TraverseAVL returns to its caller.
TraverseDone(p) ==
    /\ pc[p] = "merge"
    /\ todo[p] = {}
    /\ pc' = [pc EXCEPT ![p] = after[p]]
    /\ after' = [after EXCEPT ![p] = "access"]
    /\ UNCHANGED <<region, dirty, map, priv, frame, initBV, zeroBV, holders,
                   sharedPageCount, privatePageCount, mergeMinMemTh,
                   countDownTimer, mallocRefCounter, want, todo, req, rc>>

\* Mutant of RefCounterNext: mallocRefCounter is not reset after a pass.
RefCounterNoReset(c) == c + 1

\* mallocRefCounter after one call of MergeByALLOC_FREQUENCY.
RefCounterNext(c) == IF (c + 1) % MallocRefFreq = 0 THEN 0 ELSE c + 1

\* ShmMallocWrapper up to the mmap: MergeByALLOC_FREQUENCY runs a pass on
\* every MallocRefFreq-th call.
ShmMallocWrapper(p, s) ==
    LET fire == MergeMetric = "ALLOC_FREQUENCY"
                /\ (mallocRefCounter[p] + 1) % MallocRefFreq = 0
    IN
    /\ pc[p] = "idle"
    /\ req' = [req EXCEPT ![p] = s]
    /\ mallocRefCounter' = IF MergeMetric = "ALLOC_FREQUENCY"
                           THEN [mallocRefCounter EXCEPT ![p] = RefCounterNext(@)]
                           ELSE mallocRefCounter
    /\ pc' = [pc EXCEPT ![p] = IF fire THEN "merge" ELSE "malloc"]
    /\ todo' = IF fire THEN [todo EXCEPT ![p] = Bases(p)] ELSE todo
    /\ after' = IF fire THEN [after EXCEPT ![p] = "malloc"] ELSE after
    /\ UNCHANGED <<region, dirty, map, priv, frame, initBV, zeroBV, holders,
                   sharedPageCount, privatePageCount, mergeMinMemTh,
                   countDownTimer, want>>

\* InsertAVL: the root of an empty tree gets dirty = 0; any other new node
\* is ptmalloc memory whose dirty field is never written.
InsertDirty(p) == IF Bases(p) = {} THEN {FALSE} ELSE BOOLEAN

\* ShmMallocWrapper after the pass: a PROT_READ anonymous mapping at an
\* address the kernel picks, recorded in the AVL tree.  InsertAVL leaves
\* the dirty flag of a non-root node uninitialized (ptmalloc memory).
\* Called from ShmReallocWrapper, it returns to the memcpy.
MallocMmap(p) ==
    LET s == req[p] IN
    /\ pc[p] = "malloc"
    /\ \E b \in Pages :
         /\ RegionPages(b, s) \subseteq Pages
         /\ \A i \in RegionPages(b, s) : map[p][i] = "none"
         /\ map' = [map EXCEPT ![p] = [i \in Pages |->
                      IF i \in RegionPages(b, s) THEN "anon" ELSE @[i]]]
         /\ region' = [region EXCEPT ![p][b] = s]
         /\ \E d \in InsertDirty(p) : dirty' = [dirty EXCEPT ![p][b] = d]
         /\ rc' = IF rc[p] = NoRealloc THEN rc ELSE [rc EXCEPT ![p].new = b]
    /\ pc' = [pc EXCEPT ![p] = IF rc[p] = NoRealloc THEN "idle" ELSE "copy"]
    /\ req' = [req EXCEPT ![p] = 0]
    /\ UNCHANGED <<priv, frame, initBV, zeroBV, holders, sharedPageCount,
                   privatePageCount, mergeMinMemTh, countDownTimer,
                   mallocRefCounter, want, todo, after>>

\* The mmap fails.  A request that does not fit in the window is also
\* refused here (see README).
MmapFails(p) ==
    \/ MmapMayFail
    \/ ~\E b \in Pages : /\ RegionPages(b, req[p]) \subseteq Pages
                         /\ \A i \in RegionPages(b, req[p]) : map[p][i] = "none"

\* ShmMallocWrapper returns NULL to the application.
MallocFail(p) ==
    /\ pc[p] = "malloc"
    /\ rc[p] = NoRealloc
    /\ MmapFails(p)
    /\ pc' = [pc EXCEPT ![p] = "idle"]
    /\ req' = [req EXCEPT ![p] = 0]
    /\ UNCHANGED <<region, dirty, map, priv, frame, initBV, zeroBV, holders,
                   sharedPageCount, privatePageCount, mergeMinMemTh,
                   countDownTimer, mallocRefCounter, want, todo, after, rc>>

\* Mutant of FreeDelta: case 2 forgets that the one holder left now
\* holds a private page.
FreeDeltaCase2(p, pg) ==
    LET I == {i \in pg : initBV[p][i]}
        Z == {i \in I : zeroBV[p][i]}
        H == {i \in I \ Z : GetSharingBit(p, i)}
    IN [dp |-> - Cardinality(I \ (Z \cup H))
               - Cardinality({i \in H : CountSharingProcs(i) = 1}),
        ds |-> - Cardinality({i \in H : CountSharingProcs(i) = 2})]

\* Counter deltas of freeing the pages pg of p, page by page as the bits
\* say: an initialized page that is neither zero nor held was private;
\* a held frame p alone holds was counted private; a frame held by p and
\* one other stops being shared and the other's page becomes private; a
\* zero page, or a frame held by more, changes nothing.
FreeDelta(p, pg) ==
    LET I == {i \in pg : initBV[p][i]}
        Z == {i \in I : zeroBV[p][i]}
        H == {i \in I \ Z : GetSharingBit(p, i)}
    IN [dp |-> - Cardinality(I \ (Z \cup H))
               - Cardinality({i \in H : CountSharingProcs(i) = 1})
               + Cardinality({i \in H : CountSharingProcs(i) = 2}),
        ds |-> - Cardinality({i \in H : CountSharingProcs(i) = 2})]

\* RemoveAVL of the node at b: a node with a right subtree takes the key
\* and size of its in-order successor, one with only a left subtree those
\* of its predecessor, and that region keeps b's dirty flag; a leaf is
\* unlinked.  The candidates, the tree shape being left open.
RemoveHeirs(p, b) ==
    LET succ == {c \in Bases(p) : c > b}
        pred == {c \in Bases(p) : c < b}
    IN {c \in succ : c = Min(succ)} \cup {c \in pred : c = Max(pred)}

\* The free of the region at b: RemoveAVL, munmap, then under the
\* semaphore reset the initialized and zero bits and the sharing bit of
\* every page and adjust the counters.  After RemoveAVL the successor or
\* predecessor region may carry b's dirty flag in place of its own.
FreeRegion(p, b) ==
    LET pg    == RegionPages(b, region[p][b])
        d     == FreeDelta(p, pg)
    IN
    /\ region' = [region EXCEPT ![p][b] = 0]
    /\ \/ dirty' = [dirty EXCEPT ![p][b] = FALSE]
       \/ \E h \in RemoveHeirs(p, b) : dirty' = [dirty EXCEPT ![p][b] = FALSE, ![p][h] = dirty[p][b]]
    /\ map' = [map EXCEPT ![p] = [i \in Pages |-> IF i \in pg THEN "none" ELSE @[i]]]
    /\ priv' = [priv EXCEPT ![p] = [i \in Pages |-> IF i \in pg THEN Zero ELSE @[i]]]
    /\ initBV' = [initBV EXCEPT ![p] = [i \in Pages |-> @[i] /\ i \notin pg]]
    /\ zeroBV' = [zeroBV EXCEPT ![p] = [i \in Pages |-> @[i] /\ ~(i \in pg /\ initBV[p][i])]]
    /\ holders' = [i \in Pages |->
                     IF i \in pg /\ initBV[p][i] /\ ~zeroBV[p][i]
                     THEN holders[i] \ {p} ELSE holders[i]]
    /\ privatePageCount' = privatePageCount + d.dp
    /\ sharedPageCount' = sharedPageCount + d.ds

\* ShmFreeWrapper: a pointer the AVL tree does not know is refused.
ShmFreeWrapper(p, b) ==
    /\ pc[p] = "idle"
    /\ region[p][b] > 0
    /\ FreeRegion(p, b)
    /\ UNCHANGED <<frame, mergeMinMemTh, countDownTimer, mallocRefCounter,
                   pc, want, todo, after, req, rc>>

(***************************************************************************)
(* ShmReallocWrapper (2852-2895).  A pointer the tree does not know, or a  *)
(* region already as large as asked, is returned at once with nothing     *)
(* changed; those calls are stuttering steps.  Otherwise ShmMallocWrapper  *)
(* (a pass, then the mmap), memcpy of the old region page by page, each    *)
(* page a store that may fault, and ShmFreeWrapper of the old region.      *)
(***************************************************************************)
ShmReallocWrapper(p, b, s) ==
    /\ region[p][b] \in 1..(s - 1)
    /\ ShmMallocWrapper(p, s)
    /\ rc' = [rc EXCEPT ![p] = [old |-> b, new |-> 0, k |-> 0]]

\* Mutant of CopyLen: memcpy stops one page short.
CopyLenShort(p) == region[p][rc[p].old] - 1

\* sz = min(old_size, size): the old size, as the region grows.
CopyLen(p) == region[p][rc[p].old]

\* memcpy loads the next page of the old region (a load never faults)
\* and stores it to the same page of the new one.
Copy(p) ==
    LET r == rc[p] IN
    /\ pc[p] = "copy"
    /\ r.k < CopyLen(p)
    /\ want' = [want EXCEPT ![p] = [page |-> r.new + r.k, val |-> View(p, r.old + r.k)]]
    /\ rc' = [rc EXCEPT ![p].k = @ + 1]
    /\ pc' = [pc EXCEPT ![p] = "access"]
    /\ UNCHANGED <<region, dirty, map, priv, frame, initBV, zeroBV, holders,
                   sharedPageCount, privatePageCount, mergeMinMemTh,
                   countDownTimer, mallocRefCounter, todo, after, req>>

\* memcpy is done: ShmFreeWrapper(ptr), and the new pointer is returned.
ReallocFree(p) ==
    /\ pc[p] = "copy"
    /\ rc[p].k >= CopyLen(p)
    /\ FreeRegion(p, rc[p].old)
    /\ pc' = [pc EXCEPT ![p] = "idle"]
    /\ rc' = [rc EXCEPT ![p] = NoRealloc]
    /\ UNCHANGED <<frame, mergeMinMemTh, countDownTimer, mallocRefCounter,
                   want, todo, after, req>>

\* ShmMallocWrapper returned NULL to realloc, which falls back on
\* ptmalloc: the copy goes to ptmalloc memory, outside the window, and
\* the old region is freed; if ptmalloc fails too, the old pointer is
\* returned and nothing changes.
ReallocPtmalloc(p) ==
    /\ pc[p] = "malloc"
    /\ rc[p] # NoRealloc
    /\ MmapFails(p)
    /\ \/ FreeRegion(p, rc[p].old)
       \/ UNCHANGED <<region, dirty, map, priv, initBV, zeroBV, holders,
                      sharedPageCount, privatePageCount>>
    /\ pc' = [pc EXCEPT ![p] = "idle"]
    /\ req' = [req EXCEPT ![p] = 0]
    /\ rc' = [rc EXCEPT ![p] = NoRealloc]
    /\ UNCHANGED <<frame, mergeMinMemTh, countDownTimer, mallocRefCounter,
                   want, todo, after>>

-----------------------------------------------------------------------------
Init ==
    /\ region = [p \in Procs |-> [b \in Pages |-> 0]]
    /\ dirty = [p \in Procs |-> [b \in Pages |-> FALSE]]
    /\ map = [p \in Procs |-> [i \in Pages |-> "none"]]
    /\ priv = [p \in Procs |-> [i \in Pages |-> Zero]]
    /\ frame = [i \in Pages |-> Zero]
    /\ initBV = [p \in Procs |-> [i \in Pages |-> FALSE]]
    /\ zeroBV = [p \in Procs |-> [i \in Pages |-> FALSE]]
    /\ holders = [i \in Pages |-> {}]
    /\ sharedPageCount = InitSharedPages
    /\ privatePageCount = InitPrivatePages
    /\ mergeMinMemTh = [p \in Procs |-> MinMemTh]
    /\ countDownTimer = [p \in Procs |-> CountDown]
    /\ mallocRefCounter = [p \in Procs |-> 0]
    /\ pc = [p \in Procs |-> "idle"]
    /\ want = [p \in Procs |-> NoWrite]
    /\ todo = [p \in Procs |-> {}]
    /\ after = [p \in Procs |-> "access"]
    /\ req = [p \in Procs |-> 0]
    /\ rc = [p \in Procs |-> NoRealloc]

\* Steps a process takes without waiting on the application.
Engine(p) ==
    \/ Store(p)
    \/ SigSegvHandler(p)
    \/ MergeNode2(p)
    \/ TraverseDone(p)
    \/ MallocMmap(p)
    \/ MallocFail(p)
    \/ Copy(p)
    \/ ReallocFree(p)
    \/ ReallocPtmalloc(p)

Next ==
    \E p \in Procs :
        \/ \E i \in Pages, v \in Vals : Access(p, i, v)
        \/ \E s \in 1..MaxRegion : ShmMallocWrapper(p, s) /\ UNCHANGED rc
        \/ \E b \in Pages : ShmFreeWrapper(p, b)
        \/ \E b \in Pages, s \in 1..MaxRegion : ShmReallocWrapper(p, b, s)
        \/ Engine(p)

\* A process runs its fault handler, a merge pass and an mmap to
\* completion: it only ever waits on the node semaphore, which every
\* holder releases at the end of its critical section.
Fairness == \A p \in Procs : WF_vars(Engine(p))

Spec == Init /\ [][Next]_vars /\ Fairness

-----------------------------------------------------------------------------
TypeOK ==
    /\ region \in [Procs -> [Pages -> 0..MaxRegion]]
    /\ dirty \in [Procs -> [Pages -> BOOLEAN]]
    /\ map \in [Procs -> [Pages -> Mappings]]
    /\ priv \in [Procs -> [Pages -> Vals]]
    /\ frame \in [Pages -> Vals]
    /\ initBV \in [Procs -> [Pages -> BOOLEAN]]
    /\ zeroBV \in [Procs -> [Pages -> BOOLEAN]]
    /\ holders \in [Pages -> SUBSET Procs]
    /\ sharedPageCount \in Int
    /\ privatePageCount \in Int
    /\ mergeMinMemTh \in [Procs -> Int]
    /\ countDownTimer \in [Procs -> 1..CountDown]
    /\ mallocRefCounter \in [Procs -> 0..(MallocRefFreq - 1)]
    /\ pc \in [Procs -> {"idle", "access", "merge", "malloc", "copy"}]
    /\ want \in [Procs -> {NoWrite} \cup [page : Pages, val : Vals]]
    /\ todo \in [Procs -> SUBSET Pages]
    /\ after \in [Procs -> {"access", "malloc"}]
    /\ req \in [Procs -> 0..MaxRegion]
    /\ rc \in [Procs -> [old : 0..NPages, new : 0..NPages, k : 0..MaxRegion]]

\* Holder-bitmap / mapping agreement (spec section 8), with the zero and
\* initialized bitmaps: a bit of a process is set exactly when its page
\* is mapped the way the bit says, so that a sibling deciding from the
\* bitmap (publish over a frame nobody holds, join a held frame) and the
\* fault handler deciding what to undo both see the true mapping.
MetadataMatchesMappings ==
    \A p \in Procs, i \in Pages :
        /\ GetSharingBit(p, i) <=> map[p][i] = "shared"
        /\ zeroBV[p][i] <=> map[p][i] = "zero"
        /\ initBV[p][i] <=> map[p][i] \in {"private", "zero", "shared"}

\* Count conservation: *allProcPrivatePageCount counts the private pages
\* of all siblings, a frame held by one process counting as private, and
\* *sharedPageCount counts the frames held by two or more; the fault
\* handler, the three remap routines and free all adjust them.
CountersConserved ==
    /\ privatePageCount =
         InitPrivatePages
         + Cardinality({<<p, i>> \in Procs \X Pages :
                          \/ map[p][i] = "private"
                          \/ map[p][i] = "shared" /\ CountSharingProcs(i) = 1})
    /\ sharedPageCount =
         InitSharedPages + Cardinality({i \in Pages : CountSharingProcs(i) >= 2})

\* A store the application issues eventually completes: the handler's
\* unmerge is not undone by the MergeByTHRESHOLD pass it runs on its way
\* out, fault after fault, forever.
StoreCompletes ==
    \A p \in Procs : pc[p] = "access" ~> pc[p] = "idle"

=============================================================================
