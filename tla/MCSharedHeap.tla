---------------------------- MODULE MCSharedHeap ----------------------------
(***************************************************************************)
(* Model-checking harness for SharedHeap: the refinement mapping to Heap,  *)
(* the properties stated over it, and the state constraint of the runs.    *)
(***************************************************************************)
EXTENDS SharedHeap, TLC

\* The abstract memory of each process is what a load from each page
\* returns; the region table is the AVL tree's; the pending store is the
\* one the process is executing.
AbstractHeap == INSTANCE Heap WITH mem <- [p \in Procs |-> [i \in Pages |-> View(p, i)]],
                                   pending <- want

\* Merging, unmerging, the zero page and the shared frames are invisible
\* to the application: every behaviour of SharedHeap is one of the
\* passthrough allocator Heap, in particular a load after the merge of a
\* page and of the fault handler's copy returns the last value stored.
HeapRefinement == AbstractHeap!Spec

\* ShmReallocWrapper frees the old region only once memcpy has carried
\* all of it to the new one: at the step that frees it, every page of the
\* new region reads what the same page of the old region reads.  The copy
\* is page by page, each store a fault, and a MergeByTHRESHOLD pass run
\* by one of those faults may merge pages of either region in between.
ReallocCopies ==
    [][\A p \in Procs :
         (pc[p] = "copy" /\ rc'[p] = NoRealloc) =>
            \A k \in 0..(region[p][rc[p].old] - 1) :
                View(p, rc[p].new + k) = View(p, rc[p].old + k)]_vars

\* The counters only grow by one page per step and are bounded by the
\* number of pages; this keeps mergeMinMemTh and the counters finite even
\* in behaviours where they drift.
CounterBound ==
    /\ privatePageCount \in (InitPrivatePages - 2 * NPages)..(InitPrivatePages + 2 * NPages)
    /\ sharedPageCount \in (InitSharedPages - NPages)..(InitSharedPages + NPages)
\* The content of a frame no process holds is never read again: a move
\* overwrites it before anyone maps it, and a join requires a holder.
\* States that differ only there are identified.
HeldFrame == [i \in Pages |-> IF holders[i] = {} THEN Zero ELSE frame[i]]

ModelView == <<region, dirty, map, priv, HeldFrame, initBV, zeroBV, holders,
               sharedPageCount, privatePageCount, mergeMinMemTh, countDownTimer,
               mallocRefCounter, pc, want, todo, after, req, rc>>

\* The processes are interchangeable in the safety runs.
Sym == Permutations(Procs)
=============================================================================
