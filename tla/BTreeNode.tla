------------------------------ MODULE BTreeNode ------------------------------
(***************************************************************************)
(* The nodes of the B-tree and the operations that rearrange them          *)
(* (node.rs).  Every operation is a function from a heap to a heap.        *)
(*                                                                         *)
(* The heap maps the addresses of the allocated nodes to their contents,   *)
(* so an address outside DOMAIN h is freed or was never allocated.  The    *)
(* key and value arrays of a node are cut to their initialised prefix and  *)
(* zipped into one sequence, kv; edges is the initialised prefix of the    *)
(* edge array and is empty for a leaf.  Indices are 0-based as in the      *)
(* code, so index i is position i + 1 of a sequence.                       *)
(*                                                                         *)
(* In the code a node's height is not stored in the node: every NodeRef to *)
(* the node carries it.  It is fixed when the node is allocated and all    *)
(* references agree on it, so here it is a field of the node;              *)
(* BTreeMap!HeightsUniform is what makes descend's `height - 1' and        *)
(* ascend's `height + 1' right.                                            *)
(***************************************************************************)
EXTENDS Integers, Sequences, FiniteSets

CONSTANTS B,        \* the branching factor: 6 in the code (node.rs)
          Key, Val, \* keys and values
          NodeId,   \* the addresses the allocator can return
          Nil       \* Option::None of a node pointer

ASSUME BAssumption == B \in Nat /\ B >= 2
ASSUME NilAssumption == Nil \notin NodeId

CAPACITY == 2 * B - 1
MIN_LEN_AFTER_SPLIT == B - 1
KV_IDX_CENTER == B - 1
EDGE_IDX_LEFT_OF_CENTER == B - 1
EDGE_IDX_RIGHT_OF_CENTER == B

\* map.rs: no node other than the root may have fewer elements.
MIN_LEN == MIN_LEN_AFTER_SPLIT

KV == Key \X Val

\* Option<T>: None is the empty sequence, Some(x) is <<x>>.
None == <<>>
Some(x) == <<x>>
Option(S) == {None} \cup {Some(x) : x \in S}

Node == [kv : Seq(KV), edges : Seq(NodeId), height : Nat,
         parent : NodeId \cup {Nil}, parent_idx : Nat]

\* A reference to pair or edge i of a node.
Handle(n, i) == [node |-> n, idx |-> i]
NoHandle == Handle(Nil, 0)

-----------------------------------------------------------------------------
(* Slices and the allocator *)

slice_insert(s, idx, x) == SubSeq(s, 1, idx) \o <<x>> \o SubSeq(s, idx + 1, Len(s))

slice_remove(s, idx) == SubSeq(s, 1, idx) \o SubSeq(s, idx + 2, Len(s))

\* Addresses are interchangeable, so one free address stands for all of them.
FreshNode(h) == CHOOSE n \in NodeId : n \notin DOMAIN h

CanAllocate(h) == \E n \in NodeId : n \notin DOMAIN h

Allocate(h, n, node) ==
  [m \in DOMAIN h \cup {n} |-> IF m = n THEN node ELSE h[m]]

Deallocate(h, n) == [m \in DOMAIN h \ {n} |-> h[m]]

new_internal(height, kv, edges) ==
  [kv |-> kv, edges |-> edges, height |-> height, parent |-> Nil, parent_idx |-> 0]

new_leaf(kv) == new_internal(0, kv, <<>>)

-----------------------------------------------------------------------------
(* Nodes and their links *)

len(h, n) == Len(h[n].kv)

\* How many pairs there are in the nodes.
PairCount(h) == Cardinality(UNION {{n} \X (1 .. len(h, n)) : n \in DOMAIN h})

\* node.rs ForceResult: a node of height 0 is a leaf.
IsLeaf(h, n) == h[n].height = 0

\* The node that edge idx of n points to.
descend(h, n, idx) == h[n].edges[idx + 1]

\* A node with new contents, the rest unchanged.
WithKV(node, kv) == [node EXCEPT !.kv = kv]
WithData(node, kv, edges) == [node EXCEPT !.kv = kv, !.edges = edges]

replace_kv(node, idx, kv) == WithKV(node, [node.kv EXCEPT ![idx + 1] = kv])

set_parent_link(node, parent, idx) == [node EXCEPT !.parent = parent, !.parent_idx = idx]
clear_parent_link(node) == [node EXCEPT !.parent = Nil]

\* Writes the parent link of the children at edges lo .. hi-1 of n, and of no other node.
correct_childrens_parent_links(h, n, lo, hi) ==
  [m \in DOMAIN h |->
     IF \E i \in lo .. hi - 1 : descend(h, n, i) = m
     THEN set_parent_link(h[m], n, CHOOSE i \in lo .. hi - 1 : descend(h, n, i) = m)
     ELSE h[m]]

-----------------------------------------------------------------------------
(* Growing the tree *)

\* Fault: a pair that belongs left of the center is sent to the right half.
splitpoint_wrong_side(edge_idx) ==
  IF edge_idx < EDGE_IDX_LEFT_OF_CENTER
  THEN [middle |-> KV_IDX_CENTER - 1, side |-> "right", idx |-> edge_idx]
  ELSE [middle |-> KV_IDX_CENTER, side |-> "right", idx |-> 0]

\* Where to split a full node for an insertion at edge_idx, and where the
\* insertion goes afterwards, so that both halves end up with at least MIN_LEN.
splitpoint(edge_idx) ==
  CASE edge_idx < EDGE_IDX_LEFT_OF_CENTER ->
         [middle |-> KV_IDX_CENTER - 1, side |-> "left", idx |-> edge_idx]
    [] edge_idx = EDGE_IDX_LEFT_OF_CENTER ->
         [middle |-> KV_IDX_CENTER, side |-> "left", idx |-> edge_idx]
    [] edge_idx = EDGE_IDX_RIGHT_OF_CENTER ->
         [middle |-> KV_IDX_CENTER, side |-> "right", idx |-> 0]
    [] edge_idx > EDGE_IDX_RIGHT_OF_CENTER ->
         [middle |-> KV_IDX_CENTER + 1, side |-> "right",
          idx |-> edge_idx - (KV_IDX_CENTER + 1 + 1)]

leaf_insert_fit(h, n, idx, kv) == [h EXCEPT ![n] = WithKV(@, slice_insert(@.kv, idx, kv))]

internal_insert_fit(h, n, idx, kv, edge) ==
  correct_childrens_parent_links(
    [h EXCEPT ![n] = WithData(@, slice_insert(@.kv, idx, kv),
                                 slice_insert(@.edges, idx + 1, edge))],
    n, idx + 1, len(h, n) + 2)

\* push of a leaf and of an internal node.
leaf_push(h, n, kv) == leaf_insert_fit(h, n, len(h, n), kv)
internal_push(h, n, kv, edge) == internal_insert_fit(h, n, len(h, n), kv, edge)

\* Leaves the pairs left of idx in n and moves those right of it to the new
\* node at address new; the pair at idx itself belongs to neither.
split_leaf(h, n, idx, new) ==
  Allocate([h EXCEPT ![n] = WithKV(@, SubSeq(@.kv, 1, idx))],
           new, new_leaf(SubSeq(h[n].kv, idx + 2, len(h, n))))

\* Fault: the last child of the new node keeps its old parent link.
split_internal_short(h, n, idx, new) ==
  correct_childrens_parent_links(
    Allocate([h EXCEPT ![n] = WithData(@, SubSeq(@.kv, 1, idx), SubSeq(@.edges, 1, idx + 1))],
             new,
             new_internal(h[n].height, SubSeq(h[n].kv, idx + 2, len(h, n)),
                          SubSeq(h[n].edges, idx + 2, len(h, n) + 1))),
    new, 0, len(h, n) - idx - 1)

split_internal(h, n, idx, new) ==
  correct_childrens_parent_links(
    Allocate([h EXCEPT ![n] = WithData(@, SubSeq(@.kv, 1, idx), SubSeq(@.edges, 1, idx + 1))],
             new,
             new_internal(h[n].height, SubSeq(h[n].kv, idx + 2, len(h, n)),
                          SubSeq(h[n].edges, idx + 2, len(h, n) + 1))),
    new, 0, len(h, n) - idx)

\* Fault: the height of the tree is not increased.
push_root_level_flat(h, old_root, new, kv, edge) ==
  correct_childrens_parent_links(
    Allocate(h, new, new_internal(h[old_root].height, <<kv>>, <<old_root, edge>>)),
    new, 0, 2)

\* Root::push_internal_level followed by InternalNode push: a new root at
\* address new above the old one, with one pair and a second edge.
push_root_level(h, old_root, new, kv, edge) ==
  correct_childrens_parent_links(
    Allocate(h, new, new_internal(h[old_root].height + 1, <<kv>>, <<old_root, edge>>)),
    new, 0, 2)

-----------------------------------------------------------------------------
(* Shrinking the tree: BalancingContext, given by the parent p and the index *)
(* of the pair between the two children                                      *)

can_merge(h, p, idx) ==
  len(h, descend(h, p, idx)) + 1 + len(h, descend(h, p, idx + 1)) <= CAPACITY

\* Fault: the right child's pairs are put in front.
do_merge_swapped(h, p, idx) ==
  LET left == descend(h, p, idx)
      right == descend(h, p, idx + 1)
      moved == [h EXCEPT
        ![left] = WithData(@, h[right].kv \o <<h[p].kv[idx + 1]>> \o @.kv,
                              @.edges \o h[right].edges),
        ![p] = WithData(@, slice_remove(@.kv, idx), slice_remove(@.edges, idx + 1))]
      linked == correct_childrens_parent_links(moved, p, idx + 1, len(h, p))
  IN  Deallocate(IF h[p].height > 1
                 THEN correct_childrens_parent_links(linked, left, len(h, left) + 1,
                                                     len(moved, left) + 1)
                 ELSE linked, right)

\* Moves the parent's pair and all of the right child to the end of the left
\* child and frees the right child.
do_merge(h, p, idx) ==
  LET left == descend(h, p, idx)
      right == descend(h, p, idx + 1)
      new_left_len == len(h, left) + 1 + len(h, right)
      \* the edges of leaves are empty
      moved == [h EXCEPT
        ![left] = WithData(@, @.kv \o <<h[p].kv[idx + 1]>> \o h[right].kv,
                              @.edges \o h[right].edges),
        ![p] = WithData(@, slice_remove(@.kv, idx), slice_remove(@.edges, idx + 1))]
      linked == correct_childrens_parent_links(moved, p, idx + 1, len(h, p))
  IN  Deallocate(IF h[p].height > 1
                 THEN correct_childrens_parent_links(linked, left, len(h, left) + 1,
                                                     new_left_len + 1)
                 ELSE linked,
                 right)

bulk_steal_left(h, p, idx, count) ==
  LET left == descend(h, p, idx)
      right == descend(h, p, idx + 1)
      new_left_len == len(h, left) - count
      new_right_len == len(h, right) + count
      left_kv == SubSeq(h[left].kv, 1, new_left_len)
      right_kv == SubSeq(h[left].kv, new_left_len + 2, len(h, left))
                    \o <<h[p].kv[idx + 1]>> \o h[right].kv
      parent == replace_kv(h[p], idx, h[left].kv[new_left_len + 1])
  IN  IF IsLeaf(h, left)
      THEN [h EXCEPT ![left] = WithKV(@, left_kv), ![right] = WithKV(@, right_kv),
                     ![p] = parent]
      ELSE correct_childrens_parent_links(
             [h EXCEPT
                ![left] = WithData(@, left_kv, SubSeq(@.edges, 1, new_left_len + 1)),
                ![right] = WithData(@, right_kv,
                             SubSeq(h[left].edges, new_left_len + 2, len(h, left) + 1)
                               \o @.edges),
                ![p] = parent],
             right, 0, new_right_len + 1)

bulk_steal_right(h, p, idx, count) ==
  LET left == descend(h, p, idx)
      right == descend(h, p, idx + 1)
      old_left_len == len(h, left)
      new_left_len == old_left_len + count
      new_right_len == len(h, right) - count
      left_kv == h[left].kv \o <<h[p].kv[idx + 1]>> \o SubSeq(h[right].kv, 1, count - 1)
      right_kv == SubSeq(h[right].kv, count + 1, len(h, right))
      parent == replace_kv(h[p], idx, h[right].kv[count])
  IN  IF IsLeaf(h, left)
      THEN [h EXCEPT ![left] = WithKV(@, left_kv), ![right] = WithKV(@, right_kv),
                     ![p] = parent]
      ELSE correct_childrens_parent_links(
             correct_childrens_parent_links(
               [h EXCEPT
                  ![left] = WithData(@, left_kv, @.edges \o SubSeq(h[right].edges, 1, count)),
                  ![right] = WithData(@, right_kv,
                               SubSeq(@.edges, count + 1, len(h, right) + 1)),
                  ![p] = parent],
               left, old_left_len + 1, new_left_len + 1),
             right, 0, new_right_len + 1)

\* Root::pop_internal_level: the root's first child becomes the root, and the
\* old root is freed.
pop_internal_level(h, root) ==
  Deallocate([h EXCEPT ![descend(h, root, 0)] = clear_parent_link(@)], root)

-----------------------------------------------------------------------------
(* Well-formed heaps *)

\* A heap is a partial function from addresses to nodes.
HeapType(h) == DOMAIN h \subseteq NodeId /\ h \in [DOMAIN h -> Node]

\* Every edge leads to an allocated node that points back at that very edge.
EdgesLinked(h) ==
  \A n \in DOMAIN h : \A i \in 1 .. Len(h[n].edges) :
    LET child == h[n].edges[i]
    IN  /\ child \in DOMAIN h
        /\ h[child].parent = n
        /\ h[child].parent_idx = i - 1

\* Every parent link leads to an allocated node that has the child at that
\* index; the nodes in tops, and no others, have no parent.
ParentsLinked(h, tops) ==
  \A n \in DOMAIN h :
    IF n \in tops
    THEN h[n].parent = Nil
    ELSE /\ h[n].parent \in DOMAIN h
         /\ h[n].parent_idx < Len(h[h[n].parent].edges)
         /\ descend(h, h[n].parent, h[n].parent_idx) = n

\* Only nodes of height 0 have no edges, the others have one more than pairs,
\* and a child is one lower than its parent: all leaves are equally deep.
Levelled(h) ==
  \A n \in DOMAIN h :
    /\ Len(h[n].edges) = IF IsLeaf(h, n) THEN 0 ELSE len(h, n) + 1
    /\ \A i \in 1 .. Len(h[n].edges) : h[h[n].edges[i]].height = h[n].height - 1

\* A set of separate trees, whose roots are in tops.
WellFormed(h, tops) ==
  HeapType(h) /\ EdgesLinked(h) /\ ParentsLinked(h, tops) /\ Levelled(h)

\* map.rs: every non-root node contains at least MIN_LEN elements and every
\* non-leaf node at least 1; no node exceeds its arrays.
LegalLens(h, tops) ==
  \A n \in DOMAIN h :
    /\ len(h, n) <= CAPACITY
    /\ n \notin tops => len(h, n) >= MIN_LEN
    /\ IsLeaf(h, n) \/ len(h, n) >= 1

\* The handle of a pair that is in a node.
PairIn(h, kv) == kv \in [node : DOMAIN h, idx : Nat] /\ kv.idx < Len(h[kv.node].kv)

\* A map between two calls, as a record of heap, root and length.
LegalMap(m) ==
  /\ IsFiniteSet(DOMAIN m.heap)
  /\ m.root \in DOMAIN m.heap \cup {Nil}
  /\ WellFormed(m.heap, {m.root}) /\ LegalLens(m.heap, {m.root})
  /\ m.length = PairCount(m.heap)
=============================================================================
