-------------------------------- MODULE AVL --------------------------------
(***************************************************************************)
(* The allocation index of one process (allocRecord), the AVL tree of      *)
(* AVL.cpp, with the calls the allocator makes on it:                      *)
(*   - InsertAVL from AspaceAvlInsertWrapper, after malloc's mmap;         *)
(*   - RemoveAVL from AspaceAvlRemoveWrapper, at the start of free;        *)
(*   - FindRangeAVL from the write-fault handler, which sets the dirty    *)
(*     flag of the region it finds;                                        *)
(*   - TraverseAVL with MergeNode2, which clears every dirty flag.         *)
(* A tree is Nil or a node record; the node's fields are those of          *)
(* AVLTreeNode that the allocator reads (key = base page, value = size in  *)
(* pages, height, left, right, dirty).  The provenance fields and the      *)
(* element count data->size are written but never read by the allocator   *)
(* and are left out.                                                       *)
(***************************************************************************)
EXTENDS Integers, FiniteSets, Sequences

CONSTANTS Addrs,    \* page numbers: region bases and fault addresses
          Sizes,    \* region sizes in pages
          Nil,      \* the NULL pointer, a model value
          ChunkDirty  \* what an uninitialized dirty field may hold

VARIABLE root

vars == <<root>>

\* A new node whose height is left at 0 instead of 1.
NodeHeightZero(k, v, l, r, d) ==
    [key |-> k, value |-> v, height |-> 0, left |-> l, right |-> r, dirty |-> d]

\* The fields a new node gets in Insert.
Node(k, v, l, r, d) ==
    [key |-> k, value |-> v, height |-> 1, left |-> l, right |-> r, dirty |-> d]

\* GetHeight: the stored height, 0 for NULL.
GetHeight(t) == IF t = Nil THEN 0 ELSE t.height

\* GetBalance: right height minus left height, from the stored heights.
GetBalance(t) == IF t = Nil THEN 0 ELSE GetHeight(t.right) - GetHeight(t.left)

HMax(x, y) == IF x > y THEN x ELSE y

\* RotateSingleRight.  Both heights of e are read from b (AVL.cpp 483-484).
RotateSingleRight(t) ==
    LET a == t.left.left
        b == t.left.right
        c == t.right
        e == [t EXCEPT !.left = b, !.right = c,
                       !.height = HMax(GetHeight(b), GetHeight(b)) + 1]
    IN  [t.left EXCEPT !.left = a, !.right = e, !.height = e.height + 1]

\* A left rotation that drops the inner subtree b instead of moving it.
RotateSingleLeftLoseInner(t) ==
    LET a == t.left
        c == t.right.right
        d == [t EXCEPT !.left = a, !.right = Nil, !.height = GetHeight(a) + 1]
    IN  [t.right EXCEPT !.left = d, !.right = c, !.height = d.height + 1]

\* RotateSingleLeft.
RotateSingleLeft(t) ==
    LET a == t.left
        b == t.right.left
        c == t.right.right
        d == [t EXCEPT !.left = a, !.right = b,
                       !.height = HMax(GetHeight(a), GetHeight(b)) + 1]
    IN  [t.right EXCEPT !.left = d, !.right = c, !.height = d.height + 1]

RotateDoubleRight(t) ==
    RotateSingleRight([t EXCEPT !.left = RotateSingleLeft(t.left)])

RotateDoubleLeft(t) ==
    RotateSingleLeft([t EXCEPT !.right = RotateSingleRight(t.right)])

\* Balance: rotate when the stored heights of the children differ by more
\* than one, then recompute the height of the subtree's new root.
Balance(t) ==
    LET r == CASE GetBalance(t) < -1 /\ GetBalance(t.left) > 0 -> RotateDoubleRight(t)
               [] GetBalance(t) < -1                           -> RotateSingleRight(t)
               [] GetBalance(t) > 1 /\ GetBalance(t.right) < 0 -> RotateDoubleLeft(t)
               [] GetBalance(t) > 1                            -> RotateSingleLeft(t)
               [] OTHER                                        -> t
    IN  [r EXCEPT !.height = HMax(GetHeight(r.left), GetHeight(r.right)) + 1]

(***************************************************************************)
(* Insert into a non-empty subtree.  A new leaf below the root gets the    *)
(* height 1 and no dirty value: ptmalloc's chunk keeps whatever it held,   *)
(* so d is the uninitialized value.  The parent's ++height (146-149) is   *)
(* overwritten by Balance before anything reads it.  An existing key       *)
(* returns without change; the ancestors still rebalance.                  *)
(***************************************************************************)
RECURSIVE Insert(_, _, _, _)
Insert(t, k, v, d) ==
    CASE k < t.key ->
           Balance([t EXCEPT !.left = IF t.left = Nil THEN Node(k, v, Nil, Nil, d)
                                                     ELSE Insert(t.left, k, v, d)])
      [] k > t.key ->
           Balance([t EXCEPT !.right = IF t.right = Nil THEN Node(k, v, Nil, Nil, d)
                                                       ELSE Insert(t.right, k, v, d)])
      [] OTHER -> t

\* InsertAVL: an empty tree gets a root with dirty = 0; then Balance(root).
InsertAVL(t, k, v, d) ==
    Balance(IF t = Nil THEN Node(k, v, Nil, Nil, 0) ELSE Insert(t, k, v, d))

(***************************************************************************)
(* RemoveLeftMost / RemoveRightMost return <<removed node, new subtree>>.  *)
(* The height they compute at 262-270 is overwritten by Balance before it *)
(* is read.                                                                *)
(***************************************************************************)
RECURSIVE RemoveLeftMost(_)
RemoveLeftMost(t) ==
    IF t.left # Nil
    THEN LET res == RemoveLeftMost(t.left)
         IN  <<res[1], Balance([t EXCEPT !.left = res[2]])>>
    ELSE <<t, t.right>>

RECURSIVE RemoveRightMost(_)
RemoveRightMost(t) ==
    IF t.right # Nil
    THEN LET res == RemoveRightMost(t.right)
         IN  <<res[1], Balance([t EXCEPT !.right = res[2]])>>
    ELSE <<t, t.left>>

(***************************************************************************)
(* Remove: the found node takes the key and value of its successor (or    *)
(* predecessor) and keeps its own dirty flag; the heir's flag is freed    *)
(* with it (AVL.cpp 213-231).                                              *)
(***************************************************************************)
RECURSIVE Remove(_, _)
Remove(t, k) ==
    IF t = Nil THEN Nil
    ELSE CASE k < t.key -> Balance([t EXCEPT !.left = Remove(t.left, k)])
           [] k > t.key -> Balance([t EXCEPT !.right = Remove(t.right, k)])
           [] t.right # Nil ->
                LET res == RemoveLeftMost(t.right)
                IN  Balance([t EXCEPT !.key = res[1].key, !.value = res[1].value,
                                      !.right = res[2]])
           [] t.left # Nil ->
                LET res == RemoveRightMost(t.left)
                IN  Balance([t EXCEPT !.key = res[1].key, !.value = res[1].value,
                                      !.left = res[2]])
           [] OTHER -> Nil

\* FindAVL (realloc, GetSize): the node whose key is k, or Nil.
RECURSIVE FindAVL(_, _)
FindAVL(t, k) ==
    IF t = Nil THEN Nil
    ELSE CASE k < t.key -> FindAVL(t.left, k)
           [] k > t.key -> FindAVL(t.right, k)
           [] OTHER     -> t

\* A range test that also accepts the first page past the region.
RECURSIVE FindRangeAVLPastEnd(_, _)
FindRangeAVLPastEnd(t, a) ==
    IF t = Nil THEN Nil
    ELSE CASE a < t.key -> FindRangeAVLPastEnd(t.left, a)
           [] a > t.key -> IF t.key + t.value >= a THEN t
                           ELSE FindRangeAVLPastEnd(t.right, a)
           [] OTHER -> t

\* FindRangeAVL: the node whose region contains address a, or Nil.
RECURSIVE FindRangeAVL(_, _)
FindRangeAVL(t, a) ==
    IF t = Nil THEN Nil
    ELSE CASE a < t.key -> FindRangeAVL(t.left, a)
           [] a > t.key -> IF t.key + t.value > a THEN t
                           ELSE FindRangeAVL(t.right, a)
           [] OTHER -> t

\* The write through the pointer FindRangeAVL returned: n->dirty = 1.
RECURSIVE SetDirty(_, _)
SetDirty(t, k) ==
    IF t = Nil THEN Nil
    ELSE CASE k < t.key -> [t EXCEPT !.left = SetDirty(t.left, k)]
           [] k > t.key -> [t EXCEPT !.right = SetDirty(t.right, k)]
           [] OTHER     -> [t EXCEPT !.dirty = 1]

\* Traverse with MergeNode2: every dirty node is merged and its flag reset.
RECURSIVE Traverse(_)
Traverse(t) ==
    IF t = Nil THEN Nil
    ELSE [t EXCEPT !.left = Traverse(t.left), !.right = Traverse(t.right),
                   !.dirty = 0]

(***************************************************************************)
(* DestroyAVL, from CleanUpSharedData: Destroy(data->root), then           *)
(* ptfree(data).  Destroy reads node->left, destroys that subtree, reads   *)
(* node->right, destroys that subtree, and frees the node.  The result is  *)
(* the sequence of these memory events, a node named by its key; the tree  *)
(* header is the model value Nil.                                          *)
(***************************************************************************)
Ev(op, k) == [op |-> op, k |-> k]

\* A Destroy that frees the node before it reads node->right.
RECURSIVE DestroyFreeFirst(_)
DestroyFreeFirst(t) ==
    IF t = Nil THEN <<>>
    ELSE <<Ev("read", t.key)>> \o DestroyFreeFirst(t.left)
         \o <<Ev("free", t.key), Ev("read", t.key)>> \o DestroyFreeFirst(t.right)

RECURSIVE Destroy(_)
Destroy(t) ==
    IF t = Nil THEN <<>>
    ELSE <<Ev("read", t.key)>> \o Destroy(t.left)
         \o <<Ev("read", t.key)>> \o Destroy(t.right) \o <<Ev("free", t.key)>>

DestroyAVL(t) == <<Ev("read", Nil)>> \o Destroy(t) \o <<Ev("free", Nil)>>

RECURSIVE Nodes(_)
Nodes(t) == IF t = Nil THEN {} ELSE {t} \cup Nodes(t.left) \cup Nodes(t.right)

\* The live regions as base -> size, and the bases whose flag is set.
Regions(t) == [b \in {n.key : n \in Nodes(t)} |->
                  (CHOOSE n \in Nodes(t) : n.key = b).value]
DirtyBases(t) == {n.key : n \in {m \in Nodes(t) : m.dirty = 1}}

Covers(b, s) == {a \in Addrs : b <= a /\ a < b + s}

----------------------------------------------------------------------------
Init == root = Nil

\* malloc: a fresh mapping [k, k+v) never overlaps a live region.
AspaceAvlInsertWrapper(k, v, d) ==
    /\ k + v - 1 \in Addrs
    /\ \A n \in Nodes(root) : Covers(k, v) \cap Covers(n.key, n.value) = {}
    /\ root' = InsertAVL(root, k, v, d)

\* free(ptr): any pointer, a region base or not.
AspaceAvlRemoveWrapper(k) == root' = Remove(root, k)

\* The write-fault handler marks the region holding the faulting address.
SigSegvMarkDirty(a) ==
    LET n == FindRangeAVL(root, a)
    IN  /\ n # Nil
        /\ root' = SetDirty(root, n.key)

\* A merge pass: TraverseAVL(allocRecord, MergeNode2).
TraverseAVL ==
    /\ root # Nil
    /\ root' = Traverse(root)

Next ==
    \/ \E k \in Addrs, v \in Sizes, d \in ChunkDirty : AspaceAvlInsertWrapper(k, v, d)
    \/ \E k \in Addrs : AspaceAvlRemoveWrapper(k)
    \/ \E a \in Addrs : SigSegvMarkDirty(a)
    \/ TraverseAVL

Spec == Init /\ [][Next]_vars
=============================================================================
