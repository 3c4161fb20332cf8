----------------------------- MODULE BTreeNavigate -----------------------------
(***************************************************************************)
(* Walking through a tree (navigate.rs), as operators on a heap.  A leaf   *)
(* edge, an internal edge and a pair are all given by a Handle.  Nothing   *)
(* but the tree is read on the way and no code of the client runs, so a    *)
(* whole walk is one operator.                                             *)
(***************************************************************************)
EXTENDS BTreeNode

Seqs == INSTANCE SequencesExt

Handles(h) == [node : DOMAIN h, idx : 0 .. CAPACITY]

\* The parent's edge above n, at Nil if n is the root.
ascend(h, n) == Handle(h[n].parent, h[n].parent_idx)

\* NoHandle if the way down leads to a freed node.
first_leaf_edge(h, n) ==
  LET first[m \in DOMAIN h] ==
        IF IsLeaf(h, m) THEN Handle(m, 0)
        ELSE IF descend(h, m, 0) \in DOMAIN h THEN first[descend(h, m, 0)] ELSE NoHandle
  IN  first[n]

last_leaf_edge(h, n) ==
  LET last[m \in DOMAIN h] ==
        IF IsLeaf(h, m) THEN Handle(m, len(h, m))
        ELSE IF descend(h, m, len(h, m)) \in DOMAIN h THEN last[descend(h, m, len(h, m))] ELSE NoHandle
  IN  last[n]

\* The pair right of the edge e, in its node or in an ancestor, or NoHandle
\* for Err(root) after the last edge.
next_kv(h, e) ==
  LET climb[x \in Handles(h)] ==
        IF x.idx < len(h, x.node) THEN x
        ELSE IF h[x.node].parent # Nil THEN climb[ascend(h, x.node)] ELSE NoHandle
  IN  climb[e]

\* The pair left of the edge e, likewise.
next_back_kv(h, e) ==
  LET climb[x \in Handles(h)] ==
        IF x.idx > 0 THEN Handle(x.node, x.idx - 1)
        ELSE IF h[x.node].parent # Nil THEN climb[ascend(h, x.node)] ELSE NoHandle
  IN  climb[e]

\* Fault: below an internal pair the walk goes on in the same subtree.
next_leaf_edge_left(h, kv) ==
  IF IsLeaf(h, kv.node) THEN Handle(kv.node, kv.idx + 1)
  ELSE first_leaf_edge(h, descend(h, kv.node, kv.idx))

\* The leaf edge right of a pair.
next_leaf_edge(h, kv) ==
  IF IsLeaf(h, kv.node) THEN Handle(kv.node, kv.idx + 1)
  ELSE first_leaf_edge(h, descend(h, kv.node, kv.idx + 1))

\* The leaf edge left of a pair.
next_back_leaf_edge(h, kv) ==
  IF IsLeaf(h, kv.node) THEN kv ELSE last_leaf_edge(h, descend(h, kv.node, kv.idx))

-----------------------------------------------------------------------------
(* LazyLeafHandle: a leaf edge, or a root from which it is yet to be found *)

Root(n) == [lazy |-> TRUE, at |-> Handle(n, 0)]
Edge(e) == [lazy |-> FALSE, at |-> e]

LazyLeafHandle == [lazy : BOOLEAN, at : [node : NodeId, idx : 0 .. CAPACITY]]

init_front(h, f) == IF f.lazy THEN first_leaf_edge(h, f.at.node) ELSE f.at
init_back(h, b) == IF b.lazy THEN last_leaf_edge(h, b.at.node) ELSE b.at

-----------------------------------------------------------------------------
(* Dying trees: nodes are freed when they are left behind *)

\* Fault: a node is freed as soon as its last pair is reached.
LeftBehindEarly(h, e) ==
  LET climb[x \in Handles(h)] ==
        IF x.idx + 1 < len(h, x.node) THEN {}
        ELSE {x.node} \cup (IF h[x.node].parent = Nil THEN {} ELSE climb[ascend(h, x.node)])
  IN  climb[e]

\* The nodes that deallocating_next frees on its way from the edge e up to the next pair.
LeftBehind(h, e) ==
  LET climb[x \in Handles(h)] ==
        IF x.idx < len(h, x.node) THEN {}
        ELSE {x.node} \cup (IF h[x.node].parent = Nil THEN {} ELSE climb[ascend(h, x.node)])
  IN  climb[e]

\* The same for deallocating_next_back.
LeftBehindBack(h, e) ==
  LET climb[x \in Handles(h)] ==
        IF x.idx > 0 THEN {}
        ELSE {x.node} \cup (IF h[x.node].parent = Nil THEN {} ELSE climb[ascend(h, x.node)])
  IN  climb[e]

\* A leaf and all nodes above it, which deallocating_end frees.
Pile(h, n) ==
  LET up[m \in DOMAIN h] == {m} \cup (IF h[m].parent = Nil THEN {} ELSE up[h[m].parent])
  IN  up[n]

DeallocateAll(h, S) == [m \in DOMAIN h \ S |-> h[m]]

\* Drop of a map: an IntoIter that goes through length pairs from the front and
\* then frees what is left above the leaf it has come to.
drop_map(h, root, length) ==
  LET edge[i \in 0 .. length] ==
        IF i = 0 THEN first_leaf_edge(h, root)
        ELSE next_leaf_edge(h, next_kv(h, edge[i - 1]))
  IN  DeallocateAll(h, (UNION {LeftBehind(h, edge[i]) : i \in 0 .. length - 1})
                         \cup Pile(h, edge[length].node))

-----------------------------------------------------------------------------
(* Pillars: trees in which every node is empty *)

\* The addresses of a pillar, from the leaf up.
Fresh(h, count) ==
  LET fresh[i \in 0 .. count] ==
        IF i = 0 THEN <<>>
        ELSE Append(fresh[i - 1],
                    CHOOSE n \in NodeId \ DOMAIN h : n \notin Seqs!ToSet(fresh[i - 1]))
  IN  fresh[count]

\* The addresses at are free, and each is there once.
Free(h, at) ==
  /\ at \in Seq(NodeId \ DOMAIN h)
  /\ \A i, j \in 1 .. Len(at) : at[i] = at[j] => i = j

CanAllocateAll(h, count) == LET at == Fresh(h, count) IN Len(at) = count /\ Free(h, at)

\* A tree of empty nodes at the given addresses.
new_pillar(h, at) ==
  [m \in DOMAIN h \cup {at[i] : i \in 1 .. Len(at)} |->
     IF m \in DOMAIN h THEN h[m]
     ELSE LET i == CHOOSE j \in 1 .. Len(at) : at[j] = m
          IN  [new_internal(i - 1, <<>>, IF i = 1 THEN <<>> ELSE <<at[i - 1]>>)
                 EXCEPT !.parent = IF i = Len(at) THEN Nil ELSE at[i + 1]]]

-----------------------------------------------------------------------------
(* Visiting all nodes *)

\* visit_nodes_in_order, from the edge at which the loop stands: the leaves
\* and the internal nodes, in the order in which they are visited.
VisitFrom(h, e) ==
  LET visit[x \in Handles(h)] ==
        LET child == descend(h, x.node, x.idx)
            kv == next_kv(h, x)
        IN  CASE ~IsLeaf(h, child) -> <<child>> \o visit[Handle(child, 0)]
              [] IsLeaf(h, child) /\ kv # NoHandle ->
                   <<child>> \o visit[Handle(kv.node, kv.idx + 1)]
              [] OTHER -> <<child>>
  IN  visit[e]

visit_nodes_in_order(h, root) ==
  IF IsLeaf(h, root) THEN <<root>> ELSE <<root>> \o VisitFrom(h, Handle(root, 0))

calc_length(h, root) ==
  Seqs!FoldLeft(LAMBDA sum, n : sum + len(h, n), 0, visit_nodes_in_order(h, root))

-----------------------------------------------------------------------------
(* What the walks are measured against: the order of a tree by its structure *)

\* The children's sequences with the node's own items between them.
Between(own, below) ==
  Seqs!FlattenSeq([i \in 1 .. Len(own) + Len(below) |->
                     IF i % 2 = 1 THEN below[(i + 1) \div 2] ELSE own[i \div 2]])

\* The handles of all pairs below n, in order.
ElementsBelow(h, n) ==
  LET walk[m \in DOMAIN h] ==
        IF IsLeaf(h, m) THEN [i \in 1 .. len(h, m) |-> Handle(m, i - 1)]
        ELSE Between([i \in 1 .. len(h, m) |-> <<Handle(m, i - 1)>>],
                     [i \in 1 .. Len(h[m].edges) |-> walk[h[m].edges[i]]])
  IN  walk[n]

Elements(h, n) == IF n = Nil THEN <<>> ELSE ElementsBelow(h, n)

\* The leaf edges below n in order: edge number i, counted from 0, has i pairs before it.
LeafEdges(h, n) ==
  LET walk[m \in DOMAIN h] ==
        IF IsLeaf(h, m) THEN [i \in 1 .. len(h, m) + 1 |-> Handle(m, i - 1)]
        ELSE Between([i \in 1 .. len(h, m) |-> <<>>],
                     [i \in 1 .. Len(h[m].edges) |-> walk[h[m].edges[i]]])
  IN  walk[n]

PairAt(h, kv) == h[kv.node].kv[kv.idx + 1]

\* The pairs of the tree at n, in order.
PairsOf(h, n) ==
  LET es == Elements(h, n) IN [i \in 1 .. Len(es) |-> PairAt(h, es[i])]

\* How many pairs of the tree at n come before the leaf edge e.
Before(h, n, e) ==
  LET edges == LeafEdges(h, n) IN (CHOOSE i \in 1 .. Len(edges) : edges[i] = e) - 1
=============================================================================
