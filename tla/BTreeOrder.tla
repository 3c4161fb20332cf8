------------------------------ MODULE BTreeOrder ------------------------------
(***************************************************************************)
(* The contents of the tree in key order, and the refinement of SortedMap. *)
(***************************************************************************)
EXTENDS BTreeMap, BTreeNavigate

\* Between two calls, with the map m: a record of heap, root and length.
AtRest(m) ==
  /\ heap = m.heap /\ root = m.root /\ length = m.length
  /\ pc = "idle" /\ op = "none" /\ key = None
  /\ cur = NoHandle /\ pos = NoHandle
  /\ hand = None /\ right = Nil
  /\ refill = FALSE /\ emptied = FALSE
  /\ ret = None

\* The pairs of a leaf; the left neighbour that remove_internal_kv has in its
\* hand still counts at the edge it was taken from.
LeafPairs(m) ==
  IF refill /\ m = pos.node /\ hand # None
  THEN slice_insert(heap[m].kv, pos.idx, hand[1])
  ELSE heap[m].kv

\* The children's sequences with the node's own pairs between them.
Interleave(m, below) ==
  Seqs!FlattenSeq([i \in 1 .. Len(heap[m].edges) + len(heap, m) |->
                IF i % 2 = 1 THEN below[heap[m].edges[(i + 1) \div 2]]
                ELSE <<heap[m].kv[i \div 2]>>])

\* In-order sequences of all subtrees of height d.  While a split climbs, the
\* middle pair and the right half follow the left half.
InOrder[d \in Nat] ==
  LET level == {m \in DOMAIN heap : heap[m].height = d}
      plain == [m \in level |-> IF d = 0 THEN LeafPairs(m) ELSE Interleave(m, InOrder[d - 1])]
  IN  [m \in level |-> IF pc = "insert_up" /\ m = cur.node
                       THEN plain[m] \o hand \o plain[right] ELSE plain[m]]

Contents == IF root = Nil THEN <<>> ELSE InOrder[heap[root].height][root]

Phase ==
  CASE pc = "idle" -> "idle"
    [] pc \in {"search", "first_leaf", "last_leaf"} -> "lookup"
    [] pc = "vacant" -> "vacant"
    [] pc \in {"occupied", "left_leaf", "remove_leaf", "next_kv"} -> "occupied"
    [] pc = "fix" -> IF hand = None THEN "done" ELSE "occupied"
    [] pc \in {"finish", "insert_up"} -> "done"

Abstract == INSTANCE SortedMap
  WITH entries <- Contents, phase <- Phase,
       ret <- IF Phase \in {"idle", "done"} THEN ret ELSE None

\* With a comparator that is a total order the tree implements a sorted map, from
\* whatever map it starts with: every call takes effect in one step, and the
\* rebalancing around it, however it interleaves with the search, changes neither
\* the contents nor their order.
ImplementsSortedMap == [][Abstract!Next]_(Abstract!avars)

=============================================================================
