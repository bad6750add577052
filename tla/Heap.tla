-------------------------------- MODULE Heap --------------------------------
(***************************************************************************)
(* What the deduplicating allocator promises each sibling process: the     *)
(* behaviour of a passthrough page allocator.  Every process owns a set of *)
(* regions (base -> size in pages) inside its heap window; a fresh region  *)
(* reads as zeros, a store changes exactly the stored page of the writer  *)
(* to the stored value, and a freed region is gone.  Merging, unmerging and every other step of *)
(* the engine must be invisible at this level: SharedHeap implements this  *)
(* specification under the refinement mapping given in MCSharedHeap.      *)
(***************************************************************************)
EXTENDS Integers

CONSTANTS Procs, NPages, Data, Zero, MaxRegion

VARIABLES region, mem, pending

Pages == 1..NPages
Vals  == Data \cup {Zero}
NoStore == [page |-> 0, val |-> Zero]

RegionPages(b, s) == b..(b + s - 1)

Live(p) == UNION {RegionPages(b, region[p][b]) : b \in Pages}

TypeOK ==
    /\ region \in [Procs -> [Pages -> 0..MaxRegion]]
    /\ mem \in [Procs -> [Pages -> Vals]]
    /\ pending \in [Procs -> {NoStore} \cup [page : Pages, val : Vals]]

Init ==
    /\ region = [p \in Procs |-> [b \in Pages |-> 0]]
    /\ mem = [p \in Procs |-> [i \in Pages |-> Zero]]
    /\ pending = [p \in Procs |-> NoStore]

\* A new region over pages no live region of p covers; it reads as zeros.
Alloc(p, b, s) ==
    /\ pending[p] = NoStore
    /\ RegionPages(b, s) \subseteq Pages
    /\ RegionPages(b, s) \cap Live(p) = {}
    /\ region' = [region EXCEPT ![p][b] = s]
    /\ UNCHANGED <<mem, pending>>

Free(p, b) ==
    /\ pending[p] = NoStore
    /\ region[p][b] > 0
    /\ region' = [region EXCEPT ![p][b] = 0]
    /\ mem' = [mem EXCEPT ![p] = [i \in Pages |->
                 IF i \in RegionPages(b, region[p][b]) THEN Zero ELSE @[i]]]
    /\ UNCHANGED pending

\* The application issues a store of v to a live page i ...
Request(p, i, v) ==
    /\ pending[p] = NoStore
    /\ i \in Live(p)
    /\ pending' = [pending EXCEPT ![p] = [page |-> i, val |-> v]]
    /\ UNCHANGED <<region, mem>>

\* ... and the store takes effect, on that page only.
Write(p) ==
    /\ pending[p] # NoStore
    /\ mem' = [mem EXCEPT ![p][pending[p].page] = pending[p].val]
    /\ pending' = [pending EXCEPT ![p] = NoStore]
    /\ UNCHANGED region

Next ==
    \E p \in Procs :
        \/ \E b \in Pages, s \in 1..MaxRegion : Alloc(p, b, s)
        \/ \E b \in Pages : Free(p, b)
        \/ \E i \in Pages, v \in Vals : Request(p, i, v)
        \/ Write(p)

Spec == Init /\ [][Next]_<<region, mem, pending>>

=============================================================================
