----------------------------- MODULE AllocIndex -----------------------------
(***************************************************************************)
(* What the allocation index (allocRecord) promises the allocator: an      *)
(* ordered map from the base of every live region to its size, with a      *)
(* dirty hint per region.  A region is added by malloc with its hint clear *)
(* (spec.md, "insert"), removed by free, marked dirty by a write fault in  *)
(* any of its pages, and every hint is cleared by a merge pass.  Regions   *)
(* never overlap: they are fresh mappings.                                 *)
(***************************************************************************)
EXTENDS Integers, FiniteSets

CONSTANTS Addrs,    \* the page numbers a region may cover
          Sizes     \* the sizes, in pages, a region may have

VARIABLES regions,  \* base -> size of every live region
          dirty     \* the bases whose hint is set

Covers(b, s) == {a \in Addrs : b <= a /\ a < b + s}

\* The region of the map that contains address a, or {} if none does.
Containing(m, a) == {b \in DOMAIN m : b <= a /\ a < b + m[b]}

Fresh(b, s) ==
    /\ b + s - 1 \in Addrs
    /\ \A c \in DOMAIN regions : Covers(b, s) \cap Covers(c, regions[c]) = {}

Init == regions = [b \in {} |-> 0] /\ dirty = {}

AddRegion(b, s) ==
    /\ Fresh(b, s)
    /\ regions' = [c \in DOMAIN regions \cup {b} |->
                      IF c = b THEN s ELSE regions[c]]

DropRegion(b) == regions' = [c \in DOMAIN regions \ {b} |-> regions[c]]

Insert(b, s) == AddRegion(b, s) /\ UNCHANGED dirty

Remove(b) == DropRegion(b) /\ dirty' = dirty \ {b}

MarkDirty(a) ==
    /\ dirty' = dirty \cup Containing(regions, a)
    /\ UNCHANGED regions

ClearAll ==
    /\ dirty' = {}
    /\ UNCHANGED regions

Next ==
    \/ \E b \in Addrs, s \in Sizes : Insert(b, s)
    \/ \E b \in Addrs : Remove(b)
    \/ \E a \in Addrs : MarkDirty(a)
    \/ ClearAll

Spec == Init /\ [][Next]_<<regions, dirty>>

\* The map alone, without the dirty hints: insert and remove.
MapNext ==
    \/ \E b \in Addrs, s \in Sizes : AddRegion(b, s)
    \/ \E b \in Addrs : DropRegion(b)

MapSpec == regions = [b \in {} |-> 0] /\ [][MapNext]_regions
=============================================================================
