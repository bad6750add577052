# TLA+ models of SBLLmalloc

SBLLmalloc replaces `malloc` in the MPI processes of one node and removes
duplicate pages between them. Every allocation is a fresh anonymous
mapping, created read-only. It is recorded in a per-process AVL tree
(`allocRecord`).

- **Write fault.** The first write to a page faults. `SigSegvHandler`
  makes the page private and writable.
- **Merge pass.** From time to time a pass (`TraverseAVL` → `MergeNode2` →
  `MergeManyPages`) walks the dirty regions. It remaps each page in one of
  three ways:
  - a zero page goes to the canonical zero frame (`RemapToZero`);
  - a page whose frame nobody holds is copied into frame *i* of the shared
    file and mapped there (`CopyAndRemapRegion`);
  - a page equal to frame *i*, which a sibling already holds, is mapped to
    that frame (`RemapRegion`).
- **Shared metadata.** Page *i* of every process corresponds to frame *i*.
  The node shares these structures through that file:
  - a holder bitmap per frame (`sharingProcessesInfo`);
  - two counters (`*allProcPrivatePageCount`, `*sharedPageCount`).

  Each process has two bitmaps of its own (`initializedPagesBV`,
  `zeroPagesBV`). A POSIX named semaphore guards the shared part.
- **Free.** `free` (`ShmFreeWrapper`) unmaps a region and undoes its bits and
  counts.
- **Realloc.** `realloc` (`ShmReallocWrapper`) of a region too small mallocs
  a new one (or, failing that, ptmalloc memory), copies the old one into it
  with `memcpy`, and frees the old one.

All source references are to `src/unnamed/part_003` (SharedHeap.cpp) unless
another file is named.

## Inventory

| Part | Code | Module | Status |
|---|---|---|---|
| C1 page-index tree | `AVL.cpp`, AVL wrappers | AVL, AllocIndex (SharedHeap abstracts it) | modelled |
| C2 shared metadata | bitmaps, counters, `CountSharingProcs`… | SharedHeap, Lifecycle, NodeCounters | modelled: Lifecycle adds rank, mask and entry width; NodeCounters the counters store by store |
| C3 node mutex | `InitSem`, `WaitSem`/`SignalSem` | SharedHeap, Lifecycle | modelled: atomic sections in SharedHeap; held across steps, created and unlinked in Lifecycle |
| C4 allocation path | `ShmMallocWrapper`, `ShmFreeWrapper`, `ShmReallocWrapper`, `ShmGetSizeWrapper` | SharedHeap | modelled: realloc's early returns and GetSize change nothing |
| C5 write-fault handler | `SigSegvHandler` | SharedHeap, Lifecycle | partly: BUFFERED branch not modelled |
| C6 merge engine | `MergeNode2`, `MergeManyPages`, remap routines | SharedHeap, Lifecycle | partly: see the components note in PROJECT.json |
| C7 policy | `MergeByALLOC_FREQUENCY`, `MergeByTHRESHOLD` | SharedHeap, NodeCounters | BUFFERED (experimental) not modelled |
| C8 lifecycle | `AllocateSharedMetadata`, `CleanUpSharedData`, `Fatal` | Lifecycle | modelled |
| statistics, MicroTimer, ptmalloc3, scripts | | — | not modelled: output, compiled out (`MICROTIME_STAT` is commented out, part_004:44), third-party code or build files |

The build's flags (SharedHeap.h) fix which paths are compiled:

- `SHARED_STATS` and `COLLECT_MALLOC_STAT` are on, and so is `MREMAP_FIXED`.
- The profiler and `PART_BLOCK_MERGE_STAT` are off.
- `IsCloseToMmapLimit` always returns false.
- `NDEBUG` is defined after `<assert.h>`, so `ASSERTX` still aborts.
- With `COLLECT_MALLOC_STAT`, THRESHOLD passes start only at the end of the
  fault handler. ALLOC_FREQUENCY passes start in `ShmMallocWrapper`, before
  the mmap.

## Modules

- **Heap.tla**: what the allocator promises each process, a passthrough
  page allocator.
  - Regions are `base -> size`. A fresh region reads as zeros.
  - A store is first requested, then takes effect on exactly its page with
    exactly its value.
  - `free` forgets the region.
- **SharedHeap.tla**: the engine.
  - CONSTANTS: the processes, the window of `NPages` pages, the page contents
    (`Data` ∪ `Zero`), and the largest region. They also include the
    environment settings `MERGE_METRIC`, `MIN_MEM_TH`, `MALLOC_MERGE_FREQ`,
    the countdown period (100 in the code), the counters' initial values
    (192 and 1), and whether an mmap may fail.
  - State: the AVL map `region` with its `dirty` flags, and the kind of
    mapping of every page of every process (`map`: none, anon, private,
    zero, shared). It also holds:
    - the private contents `priv` and the contents of the frames `frame`;
    - the three bitmaps (`initBV`, `zeroBV`, `holders`) and the two counters;
    - the policy state: `mallocRefCounter`, and the static `countDownTimer`
      and `mergeMinMemTh` of each process;
    - a small program counter per process for the store being retried
      (`want`) and the traversal in progress (`todo`).
  - Actions, with the code each one corresponds to:

    | Action | Code |
    |---|---|
    | `Access` / `Store` | the application's store, which faults while the page is not writable |
    | `SigSegvHandler` | the whole write-fault path, including `MergeByTHRESHOLD` (`Unmerge`, `SharedUnmerge`, `TimerNext`) |
    | `MergeNode2` | one AVL node of a pass, with `MergeManyPages` (`Kind`, `SameRun`, `Outcome`, `ZeroBits`, `CopyAndRemapRegion`, `RemapRegion`) |
    | `TraverseDone` | the return from the pass |
    | `ShmMallocWrapper` / `MallocMmap` / `MallocFail` | malloc before and after its mmap (`RefCounterNext`, `InsertDirty`) |
    | `ShmFreeWrapper` | free (`FreeRegion`, `FreeDelta`, `RemoveHeirs`) |
    | `ShmReallocWrapper` | realloc up to its malloc; the malloc's pass and mmap follow (`rc` records the old and new base and the pages copied) |
    | `Copy` | one page of realloc's `memcpy` (`CopyLen`): a load of the old page, then a store to the new page through `Access`'s path, so it faults |
    | `ReallocFree` | the free of the old region once the copy is done |
    | `ReallocPtmalloc` | realloc when its mmap fails (`MmapFails`): the copy goes to ptmalloc memory outside the window and the old region is freed, or ptmalloc fails too and nothing changes |

  - A WaitSem…SignalSem section is one step. The unlocked work around it
    is folded into the neighbouring step. Most of it touches only the
    process's own mappings, which no other process reads. The exception
    is `MergeByTHRESHOLD`'s two loads of the node-wide counters (1777,
    1781). Those are hints, and NodeCounters keeps them as separate steps. A pass holds the semaphore
    for one region at a time, so it is one step per region, and other
    processes interleave between them.
- **AllocIndex.tla**: what the page-index tree promises (spec.md, C1).
  - An ordered map from region base to size, with a dirty hint per region.
  - Insert adds a fresh, non-overlapping region with its hint clear.
  - A write fault sets the hint of the region that contains it.
  - Only a merge pass clears hints.
  - `MapSpec` is the map alone, without the hints.
- **AVL.tla**: the tree of `AVL.cpp`, one process's `allocRecord`.
  - A tree is `Nil` (NULL, a model value) or a node record with the fields
    the allocator reads: `key` (base page), `value` (size), `height`,
    `left`, `right`, `dirty`.
  - The C routines are RECURSIVE operators that return the new subtree:
    - `Insert`, `InsertAVL`;
    - `Remove`, `RemoveLeftMost`, `RemoveRightMost`;
    - `Balance`, with `GetBalance`, `GetHeight` and the four rotations;
    - `FindAVL`, `FindRangeAVL`, and `Traverse`;
    - `Destroy` and `DestroyAVL`, the teardown that `CleanUpSharedData`
      runs (part_003:2099). They return the sequence of memory events:
      a read of `node->left`, the left subtree, a read of `node->right`,
      the right subtree, then `ptfree(node)`, and last `ptfree(data)`.
  - The actions are the allocator's calls:
    - `AspaceAvlInsertWrapper` after malloc's mmap (a fresh range);
    - `AspaceAvlRemoveWrapper` from free (any pointer);
    - `SigSegvMarkDirty`, which sets `n->dirty = 1` through the node that
      `FindRangeAVL` returns;
    - `TraverseAVL`, which clears every flag as `MergeNode2` does.
  - Two uninitialised or overwritten values are modelled as they are:
    - the dirty field of a non-root node is a choice from the constant
      `ChunkDirty` (ptmalloc reuses chunks): {0, 1} in `avl_index`, {0} in
      `avl_dirty_lost`, so that there a flag is set only by a write fault;
    - heights that are overwritten before they are read (the `++height` of
      Insert, the height set in `RemoveLeftMost`/`RemoveRightMost`) are left
      out.
  - `data->size`, `GetAVLSize`, `GetAVLHeight` and the provenance fields
    are never read by the allocator and are left out.
  - SharedHeap does not use AVL. It keeps only the map and its flags, and
    makes nondeterministic choices where AVL is exact:
    - `InsertDirty` stands for the uninitialised dirty field;
    - `RemoveHeirs` lets the freed region's flag pass to its successor or
      predecessor.
- **MCAVL.tla**: the harness for AVL.
  - The refinement mapping to AllocIndex: `Regions(root)` and
    `DirtyBases(root)`.
  - `Depth`, the true height, used as the reference for the stored heights.
- **Lifecycle.tla**: the life of the processes on one node, around the
  shared file `/PSMallocTest` and the semaphore `/tmpname1234`, whose names
  are fixed by `semKey` (1234), so jobs that follow each other on a node
  share them. It keeps one page per process and one frame per file, and
  the sharing bitmap entry of that frame truncated to `Width` bits. Each
  process also keeps its page's bit of `initializedPagesBV` (`initBit`).
  The first store sets that bit (1001), and free resets it (2940).
  - `InitSem` (866–898) creates or opens the semaphore;
    `AllocateSharedMetadata` (535–668) creates the file with
    `*aliveProcs = 1` or attaches and increments it, then takes
    `myRank = *aliveProcs - 1` and `currProcMask = 1 << myRank` (656–658).
  - `Store`, `SharedWriteFault` (the unmerge of a shared page: clear the
    own bit, then the private mmap, whose failure leads to `ASSERTX`, i.e.
    `abort()`), `MergeManyPagesLock`/`MergeManyPages` (WaitSem at 2460,
    the per-page case analysis 2521–2617 with `IsOtherSharing` and the
    compare against the frame, SignalSem at 2614), `MergeBufferFail`
    (the unchecked 4 MB compare buffer at 2502, read at 2587, which
    faults into `Fatal` with the semaphore held), `ReadFault` (the
    non-write branch of the handler, 1162–1172, which calls `Fatal`).
  - `ShmFreeUnmap` (munmap at 2923, before the semaphore) and
    `ShmFreeWrapper` are two steps, as in the code. `ShmFreeWrapper` is
    the locked part. It resets the initialized bit, and only when that bit
    was set does it look at the sharing bit and clear it (2940–2953).
  - `Exit` is `MPI_Finalize` (356–377), the job's barrier.
    `CleanUpSharedData` is two steps split at its `SignalSem` (2121):
    `CleanUpLocked` decrements `*aliveProcs` and reads it into
    `alive_procs`; `CleanUpUnlink` truncates and unlinks when that copy is
    0 (2130–2137). After `Fatal` the process runs `MPI_Abort` (`MPIAbort`),
    which kills the rest of its job.
- **NodeCounters.tla**: the two node-wide counters `*allProcPrivatePageCount`
  (`P`) and `*sharedPageCount` (`S`) one store at a time, for the one place
  that reads them without the semaphore, `MergeByTHRESHOLD` (1765–1781).
  - The pages are node-wide counts: private written pages (`priv`), pages
    on the zero frame (`zero`), and the number of holders of each frame
    (`hold`). The counters depend only on these.
  - Each section that writes a counter is `Begin` (WaitSem, and the
    bitmap and mapping change), then one `Store` per counter update in the
    code's order, then `SignalSem`: the first write (1007–1021), the
    unmerge of a zero or a shared page (1044–1069), free of a private, zero
    or shared page (2966–3001), and in a pass the join (`RemapRegion`
    2355–2361, which raises `S` before it lowers `P`), the move (`CopyAndRemapRegion`, no counter change) and the
    zero remap (2396–2400).
  - `MergeByTHRESHOLD` follows every fault: the countdown, then the test
    (1777) and the assignment (1781), each two loads in the order the
    build chose (`LoadOrder`), and a pass if the test passed.
- **MCNodeCounters.tla**: the two load orders, the property, the symmetry
  and view, and the bound `OneEvaluating`.
- **MCLifecycle.tla**: two or three processes, the job assignment (one
  job, two jobs back to back, one job per process) and the properties.
- **MCSharedHeap.tla**: the harness.
  - The refinement mapping to Heap: the memory is what a load returns
    (`View`), and the pending store is `want`.
  - The view used by the large runs: the contents of a frame that nobody
    holds are never read again.
  - The symmetry set and a bound on the counters.

## Properties

- `MetadataMatchesMappings`: a process's sharing bit, zero bit and
  initialized bit are set exactly when its page is mapped that way. The
  fault handler decides what to undo from these bits, and a pass decides
  whether to publish or join from them.
- `CountersConserved`: `*allProcPrivatePageCount` equals 192 plus the
  private pages of all processes plus the frames with one holder.
  `*sharedPageCount` equals 1 plus the frames with two or more holders.
  The handler, the three remap routines and free each adjust the counters
  by their own case analysis.
- `HeapRefinement`: SharedHeap implements Heap. Merging and unmerging never
  change what any process reads, and a store changes only its page.
- `MapRefinement` (AVL): the tree implements `AllocIndex!MapSpec`. Insert,
  remove and every rotation keep exactly the live regions with their sizes.
- `LookupsCorrect` (AVL): in every reachable tree, unbalanced ones included,
  `FindRangeAVL(a)` is the region that contains `a`, or NULL when no region
  does. `FindAVL(b)` is the region with base `b`.
- `TeardownFreesOnce` (AVL): `DestroyAVL` of any reachable tree frees the
  header and every node exactly once, and reads no node after it is freed.
  (The mutant frees a node before it reads `node->right`.)
- `Balanced` (AVL): at every node, the true heights of the two subtrees
  differ by at most one. Defined in MCAVL; no run checks it (see Findings).
- `CountersExact` (NodeCounters): whenever no section is in progress,
  `P` is the number of written private pages plus the frames with exactly
  one holder, and `S` is the number of frames with two or more holders
  (plus their initial values). With three processes a frame gets three
  holders. So the `default:` branches of the holder-count switches in the
  unmerge (1066) and in free (2984) are taken, which SharedHeap's
  two-process runs never reach. The mutant counts the holders before
  `UnsetSharingBit`.
- `DirtyKept` (AVL, action property): no step but a merge pass clears the
  hint of a region that stays live.
- `IndexRefinement` (AVL): the tree, with its hints, implements
  `AllocIndex!Spec`. It is defined in MCAVL but not checked by any run: the
  uninitialised flag on insert (see Findings) breaks it from the second
  insert on.
- `SharedViewIntact` (Lifecycle): a running process whose page is on the
  shared frame reads there what it last stored. It fails when two processes
  hold one sharing bit (rank reuse) or a mask falls outside the entry.
- `FileLive` (Lifecycle): no live process is attached to a file that a
  last-out cleanup truncated.
- `NamesRemovedAtEnd` (Lifecycle): once every process has ended, the file
  and the semaphore are unlinked.
- `SemaphoreReleased` (Lifecycle, liveness): a process that holds the
  semaphore eventually gives it back.
- `StoreCompletes`: a store that the application issues eventually
  completes (`pc = "access" ~> pc = "idle"`). A store of realloc's copy
  returns to the copy loop, so this also says every realloc ends.
- `ReallocCopies` (action property): realloc frees the old region only
  once every page of the new region reads what the same page of the old
  region reads. The merge passes run by the copy's own faults may merge
  pages of either region in between.

## Runs

| Run | cfg | Shows |
|---|---|---|
| alloc_frequency | `MCSharedHeap_alloc.cfg` | two processes, 2 pages, contents {d1, d2, Zero}, a pass before every malloc: metadata, counters, refinement hold (≈0.8 M states, < 1 min) |
| threshold | `MCSharedHeap_threshold.cfg` | two processes, 2 pages, a pass from the fault handler whenever the node is at the faulting process's high-water mark (countdown 1): metadata and counters hold (≈0.86 M states, < 1 min) |
| store_progress | `MCSharedHeap_live.cfg` | one process, 3 pages, 2-page regions, THRESHOLD (≈365 k states, < 1 min): every store and every realloc completes, the refinement holds, and realloc copies all of the old region before freeing it |
| remap_to_zero_failure | `MCSharedHeap_metadata.cfg` | **violation**: `RemapToZero` fails on the 2nd page of a zero run; the 1st page is left on the zero frame without its bit (line 2395) |
| avl_index | `MCAVL.cfg` | up to 7 regions of 1 or 2 pages in 7 pages (≈34 k states, < 1 min): the tree keeps exactly the live regions, both searches are right, and teardown frees each node once without touching freed ones |
| avl_dirty_lost | `MCAVL_dirty.cfg` | **violation**: new nodes are clean; insert 1 and 2, a write fault marks 2 dirty, and freeing 1 moves 2's key into 1's clean node, so 2 is clean with no pass run |
| lifecycle_one_job | `MCLifecycle.cfg` | three processes of one job, entries of 3 bits, no failures (≈0.4 M states, seconds): sharing, cleanup and unlinking are right |
| lifecycle_failures | `MCLifecycle_failures.cfg` | the same with the unmerge mmap, the compare buffer and reads allowed to fail (≈2.2 M states, < 1 min): no live process is left on a truncated file; deadlock is not checked, since a `Fatal` under the semaphore has no successor |
| lifecycle_rank_reuse | `MCLifecycle_rank.cfg` | **violation**: a and b's job ends. b has written its page and is in free between munmap and WaitSem. c, a new job, attaches, gets b's rank, and merges its page. b's free then clears c's bit, and b's next pass overwrites the frame c maps |
| lifecycle_cleanup_race | `MCLifecycle_race.cfg` | **violation**: a reads `alive_procs = 0` and signals; b attaches (count 1); a truncates the file under b |
| lifecycle_fatal_deadlock | `MCLifecycle_deadlock.cfg` | **violation** of `SemaphoreReleased`: the compare buffer fails inside `MergeManyPages`; `Fatal` then waits in `CleanUpSharedData` on the semaphore it holds |
| counters_three_holders | `MCNodeCounters.cfg` | three processes, one frame, two written pages (≈1 M states, < 1 min): the counters are exact between sections, with three holders on a frame |

Why these bounds are enough:

- Two processes reach the holder-count cases with 0 or 1 holder left
  after an unmerge, and 1 or 2 holders in free. The `default:` branches
  (2 or more left after an unmerge, 3 or more in free) need three
  processes. `counters_three_holders` covers them at the level of the
  counters.
- Two contents besides Zero make the comparison before a join matter.
- Two pages allow two regions, so there is a successor or predecessor for
  `RemoveAVL`, and they allow a 2-page run for the partial failure.
- In the liveness run a countdown of 2 stands for 100: the handler's pass
  fires on some faults and not on others. A period of 1 is the mutant
  `TimerRearmOne`, which livelocks. The two-process threshold run uses a
  countdown of 1, because a countdown of 2 gives 5 M states. A fault then
  skips its pass only when the node is below the process's high-water
  mark. The passes interleave with the sibling's faults and frees as
  often as the code allows.
- `MIN_MEM_TH` is below the initial page count, so the first countdown
  expiry starts a pass.
- The liveness run has 3 pages so that a 1-page region can grow by realloc
  into a 2-page region beside it. This is the smallest case where the copy
  happens. With the old region in the middle there is no room, and the
  ptmalloc fallback runs. The safety runs keep 1-page regions, where
  realloc always returns early.

- Seven one-page regions are enough to build a tree of height 3, rotate it
  twice and then insert below the node whose height went stale. The
  imbalance needs seven inserts. The sizes {1, 2} in `avl_index` make the
  range test of `FindRangeAVL` differ from an exact-key search, and make
  gaps between regions possible.

- Lifecycle: three processes are the fewest for a rank of 2, and with
  `Width = 2` for a mask outside the entry; `Width = 3` stands for the 8
  or 16 bits otherwise, since 3 processes never reach it. Two jobs (a,b then
  c) are the fewest for a process of a later job to meet the leftovers of
  an earlier one. One page and one frame per process: every bug above is
  about whose bit is on a frame, not about which page.
- NodeCounters: three processes and one frame are the fewest for a frame
  with three holders. A frame counts once among the written pages, so two
  written pages are enough for three joins. The countdown is 1, so the
  unlocked loads run at every fault, and `MIN_MEM_TH` (193) lets passes
  start. `OneEvaluating` lets one process at a time be in
  `MergeByTHRESHOLD` or the pass it starts. This prunes nothing that
  `CountersExact` can see:
  - between its sections a process writes no counter;
  - the sections themselves, which do write counters, are serialised by
    the semaphore and interleave freely.
  Without the bound the run has 18 M states.

The safety runs use symmetry of the processes and the frame view.

The liveness run has one process because:

- no other process changes a process's mappings;
- the semaphore sections are atomic, so another process cannot stall it;
- symmetry and views are unsound for liveness.

## Fairness

`WF` holds on each process's engine steps: the fault handler, the retried
store, the pass and the malloc mmap. Once begun, these run to completion
without waiting for anything except the semaphore. The semaphore is modelled
by atomic steps, and each holder releases it at the end of its section. The
application's own calls (store, malloc, free) are not fair, since a process
may stop calling.

Lifecycle assumes `WF` only on `MergeManyPages` (the step after WaitSem
returns, which ends with SignalSem) and on `CleanUpUnlink` (the rest of
`CleanUpSharedData` after its SignalSem). Neither waits for anything. Exit,
stores, mallocs, frees and faults are the application's choice and get
no fairness, so `SemaphoreReleased` fails only where a holder has no step
left: `Fatal` waiting on its own semaphore.

## Findings

The code has an unchecked partial failure in `RemapToZero`:

1. `RemapToZero` remaps page by page, decrementing the private count each
   time.
2. It returns at the first failed mmap, before `SetMultiBits`.
3. The pages already remapped are left on the zero frame with no zero bit.

The fault handler then finds neither bit, changes nothing, and the write
faults forever: the handler (lines 1044–1070) finds neither bit and does
nothing. The run `remap_to_zero_failure` shows the metadata mismatch; the
livelock that follows is the mismatch's consequence and has no run of its
own (`StoreCompletes` is checked, and holds, where no mmap fails).
Freeing such a page takes the "private" branch, so the private count is
decremented a second time.

Three findings come from the allocation tree (AVL):

- **Stale heights** (no run of its own; `MCAVL_balance.cfg` reproduces it:
  inserting 1, 2, 5, 6, 7, 4, 3 leaves node 5 with an empty left subtree
  and a right subtree of height 2). `RotateSingleRight` (AVL.cpp 483–484)
  reads both heights of the node it demotes from `b`.
  - After a double rotation, the outer subtree `c` can be taller, so the
    stored height is one too small.
  - `Balance` trusts stored heights, and the tree stops being an AVL tree.
  - Lookups stay correct: `avl_index` checks them in exactly those trees.
- **Lost dirty flag.** `Remove` (AVL.cpp 213–231) moves the key and size of
  the successor or predecessor into the removed node, but not its dirty
  flag.
  - A dirty neighbour of a freed region becomes clean.
  - Its written pages are private and writable, so writing them again
    never faults.
  - Later passes skip them until some other page of the region faults.
  - This loses merges; it does not corrupt data.
- **Uninitialised flag on insert** (a reading of the code, with no run of
  its own). A non-root node gets no dirty value on insert (AVL.cpp
  137–144), so a fresh region can be scanned before it is written. The
  model lets the flag be 0 or 1 there, so `IndexRefinement` does not hold
  of AVL and is not checked.

Five findings come from the lifecycle (Lifecycle). The runs
`lifecycle_rank_reuse`, `lifecycle_cleanup_race` and
`lifecycle_fatal_deadlock` show the first, third and fourth; the mask
width and the abort leak are readings of the code that TLC also reproduces
(MCLifecycle with `Width = 2`, and with two processes and
`RemapMayFail = TRUE`), kept without runs of their own.

- **Rank reuse** (656). The rank is `*aliveProcs - 1` at attach time. A
  process of a later job that attaches after an earlier process has left,
  while others of that job are still counted, gets the rank of a live
  process. Their sharing bits coincide. In the trace, b's free of a page
  it wrote reaches WaitSem after c has merged. b then finds "its" bit set
  and clears c's, and b's next pass overwrites the frame c maps.
- **Mask width** (657). `1 << myRank` is stored in a uint8 or uint16
  entry chosen from `numProc`. When the count reached by a later or
  overlapping job exceeds it, the mask is truncated to 0 and the process
  is invisible on every frame.
- **Cleanup race** (2130). `CleanUpSharedData` reads the count under the
  semaphore, signals, and only then truncates and unlinks when the copy is
  0. A process that attaches in between gets a file that is truncated
  under it.
- **Fatal under the semaphore** (2502). The 4 MB compare buffer of
  `MergeManyPages` is not checked. When it fails, the read at 2587 faults
  while the semaphore is held; the handler calls `Fatal`, whose
  `CleanUpSharedData` waits on that semaphore forever, and every other
  process of the node blocks behind it.
- **Abort leak** (1097). `ASSERTX` is `assert`, so a failed unmerge mmap
  aborts without `CleanUpSharedData`. The count never returns to 0 and
  the file and semaphore outlive the job, with the aborted process's bits
  still set.

An observation on the counters, which is not a finding. `MergeByTHRESHOLD`
reads `*allProcPrivatePageCount + *sharedPageCount` at 1777 and again at
1781 without the semaphore. A join raises `sharedPageCount` before it
lowers `allProcPrivatePageCount`. So a sibling can load a total above any
footprint the node has had, and keep it as `mergeMinMemTh`. spec.md
(section 5) allows unlocked reads that serve only as hints, and it treats
the counters as statistics that may drift. So no property claims the
high-water mark is exact.

## Not modelled yet (plan)
- Lifecycle:
  - what a process attached to a truncated file does next: `SigBusHandler`
    (1197–1220) calls `Fatal`, whose cleanup touches `*aliveProcs` again;
    `FileLive` stops at the attach;
  - the `die()` paths of `AllocateSharedMetadata`, which exit before the
    process is counted.
- SharedHeap keeps free as one locked step; the split of its munmap is in
  Lifecycle.
- Realloc's copy length is `int32_t sz` (line 2886): a region of 2 GiB or
  more makes it negative, and memcpy then runs past both regions. Sizes
  are modelled in pages, and 2 GiB is 2^19 pages, so no run reaches it.
- A free after teardown. `CleanUpSharedData` runs from `atexit` and calls
  `DestroyAVL(allocRecord)` at 2099, but it leaves `allocRecord` set.
  `ShmFreeWrapper` (2906) checks only `CheckMPIInitialized`. So a free
  from a later exit handler, or from a static destructor, walks the freed
  tree. Lifecycle ends a process at `CleanUpSharedData`, and it has no
  exit handlers after that. This is a hazard without a property.
- Not planned:
  - the BUFFERED metric and the profiler, which are experimental or
    compiled out;
  - statistics and timing, which are output only;
  - ptmalloc3.
