------------------------------- MODULE MCAVL -------------------------------
(***************************************************************************)
(* Model-checking harness for AVL: the tree against the index it          *)
(* implements (AllocIndex), the range lookup against a reference, and the *)
(* shape the tree is meant to keep.                                        *)
(***************************************************************************)
EXTENDS AVL

AbstractIndex == INSTANCE AllocIndex
    WITH regions <- Regions(root), dirty <- DirtyBases(root)

\* The true height of a subtree, the reference for the stored heights.
RECURSIVE Depth(_)
Depth(t) == IF t = Nil THEN 0 ELSE HMax(Depth(t.left), Depth(t.right)) + 1

TypeOK ==
    \A n \in Nodes(root) :
        /\ n.key \in Addrs /\ n.value \in Sizes
        /\ n.dirty \in {0, 1} /\ n.height \in Nat \ {0}

\* Insert, remove and every rotation keep exactly the live regions, with
\* their sizes: the tree implements the index's map of regions.
MapRefinement == AbstractIndex!MapSpec

\* With the dirty hints: a new region is clean (spec.md, insert), a hint is
\* lost only by the merge pass.
IndexRefinement == AbstractIndex!Spec

\* The two searches descend by the stored keys only, so they stay right
\* whatever the rotations did to the heights: FindRangeAVL, the write-fault
\* handler's lookup, returns the region that contains the address and NULL
\* exactly when no live region does; FindAVL, the lookup of realloc and
\* GetSize, returns the region with that base and its size.
LookupsCorrect ==
    \A a \in Addrs :
        /\ LET n == FindRangeAVL(root, a)
               c == AbstractIndex!Containing(Regions(root), a)
           IN  IF c = {} THEN n = Nil ELSE n # Nil /\ n.key \in c
        /\ LET n == FindAVL(root, a)
           IN  IF a \in DOMAIN Regions(root)
               THEN n # Nil /\ n.value = Regions(root)[a]
               ELSE n = Nil

\* Balance keeps the tree an AVL tree: at every node the true heights of
\* the two subtrees differ by at most one.
Balanced ==
    \A n \in Nodes(root) : Depth(n.left) - Depth(n.right) \in -1..1

\* Teardown (DestroyAVL, called from CleanUpSharedData) frees the header
\* and every node of whatever tree the process built exactly once, and
\* never reads a node, or the header, after freeing it: Destroy takes
\* node->right before ptfree(node).
TeardownFreesOnce ==
    LET ev == DestroyAVL(root)
        keys == {n.key : n \in Nodes(root)} \cup {Nil}
    IN  /\ \A k \in keys :
              Cardinality({i \in 1..Len(ev) : ev[i] = Ev("free", k)}) = 1
        /\ \A i, j \in 1..Len(ev) :
              (i < j /\ ev[i].op = "free") => ev[j].k # ev[i].k

\* No step but a merge pass clears the dirty hint of a region that stays
\* live: a region written since the last pass is merged by the next.
DirtyKept ==
    [][TraverseAVL \/
       DirtyBases(root) \cap DOMAIN Regions(root') \subseteq DirtyBases(root')]_vars
=============================================================================
