------------------------------- MODULE BTreeClone -------------------------------
(***************************************************************************)
(* BTreeMap::clone (map.rs): clone_subtree builds a tree of the same shape *)
(* by recursion, each call with a map of its own that grows at its right   *)
(* end.  The clone of a key or a value may panic at any pair, and the      *)
(* unwinding then drops the unfinished map of every call on the stack.     *)
(***************************************************************************)
EXTENDS BTreeNavigate, BTreeMaps

VARIABLES source,  \* the map that is cloned
          heap,    \* its nodes and those of the clone
          stack,   \* the calls of clone_subtree, the outermost first
          result,  \* Option: the map that a call has returned
          pc

vars == <<source, heap, stack, result, pc>>

\* A call for the node of the source: out is the root of out_tree, or Nil while
\* the first child is cloned, length its length, idx the edge in_edge, and kv
\* the cloned pair that waits for the subtree to its right.
Frame(node, out, length, idx, kv) ==
  [node |-> node, out |-> out, length |-> length, idx |-> idx, kv |-> kv]

Top == stack[Len(stack)]
Below == SubSeq(stack, 1, Len(stack) - 1)

Init ==
  /\ source \in Maps
  /\ heap = source.heap
  /\ stack = <<>>
  /\ result = None
  /\ pc = "idle"

-----------------------------------------------------------------------------
CloneEmpty ==
  /\ pc = "idle"
  /\ source.length = 0
  /\ result' = Some([root |-> Nil, length |-> 0])
  /\ pc' = "done"
  /\ UNCHANGED <<source, heap, stack>>

\* A call for node n, on top of the frames s.  A leaf gets an empty root at
\* once, an internal node its first child's tree.
Call(s, n) ==
  IF IsLeaf(heap, n)
  THEN LET out == FreshNode(heap)
       IN  /\ CanAllocate(heap)
           /\ heap' = Allocate(heap, out, new_leaf(<<>>))
           /\ stack' = Append(s, Frame(n, out, 0, 0, None))
  ELSE heap' = heap /\ stack' = Append(s, Frame(n, Nil, 0, 0, None))

CloneBegin ==
  /\ pc = "idle"
  /\ source.length # 0
  /\ Call(<<>>, source.root)
  /\ pc' = "cloning"
  /\ UNCHANGED <<source, result>>

\* The first child of an internal node.
CloneFirst ==
  /\ pc = "cloning" /\ result = None
  /\ Top.out = Nil
  /\ Call(stack, descend(heap, Top.node, 0))
  /\ UNCHANGED <<source, result, pc>>

\* Fault: the loop ends one pair early.
HasPairButLast == Top.out # Nil /\ Top.idx + 1 < len(heap, Top.node)

HasPair == Top.out # Nil /\ Top.idx < len(heap, Top.node)

\* A pair of a leaf is cloned and pushed.
CloneLeafPair ==
  /\ pc = "cloning" /\ result = None
  /\ HasPair /\ IsLeaf(heap, Top.node)
  /\ heap' = leaf_push(heap, Top.out, heap[Top.node].kv[Top.idx + 1])
  /\ stack' = Append(Below, [Top EXCEPT !.length = @ + 1, !.idx = @ + 1])
  /\ UNCHANGED <<source, result, pc>>

\* A pair of an internal node is cloned, then the subtree to its right.
CloneInternalPair ==
  /\ pc = "cloning" /\ result = None
  /\ HasPair /\ ~IsLeaf(heap, Top.node)
  /\ Call(Append(Below, [Top EXCEPT !.idx = @ + 1, !.kv = Some(heap[Top.node].kv[Top.idx + 1])]),
          descend(heap, Top.node, Top.idx + 1))
  /\ UNCHANGED <<source, result, pc>>

\* The call is through with its node.
CloneReturn ==
  /\ pc = "cloning" /\ result = None
  /\ Top.out # Nil /\ ~HasPair
  /\ result' = Some([root |-> Top.out, length |-> Top.length])
  /\ stack' = Below
  /\ UNCHANGED <<source, heap, pc>>

\* push_internal_level on the tree of the first child: a root without a pair.
PushLevel ==
  /\ pc = "cloning" /\ result # None
  /\ stack # <<>> /\ Top.out = Nil
  /\ CanAllocate(heap)
  /\ LET out == FreshNode(heap)
         below == result[1].root
     IN  /\ heap' = correct_childrens_parent_links(
                      Allocate(heap, out, new_internal(heap[below].height + 1, <<>>, <<below>>)),
                      out, 0, 1)
         /\ stack' = Append(Below, [Top EXCEPT !.out = out, !.length = result[1].length])
  /\ result' = None
  /\ UNCHANGED <<source, pc>>

\* Fault: the subtree of the source is taken for its clone.
PushSubtreeShared ==
  /\ pc = "cloning" /\ result # None
  /\ stack # <<>> /\ Top.out # Nil
  /\ heap' = internal_push(heap, Top.out, Top.kv[1], descend(heap, Top.node, Top.idx))
  /\ stack' = Append(Below, [Top EXCEPT !.kv = None, !.length = @ + 1 + result[1].length])
  /\ result' = None
  /\ UNCHANGED <<source, pc>>

\* Fault: the parent link of the subtree is not set.
PushSubtreeUnlinked ==
  /\ pc = "cloning" /\ result # None
  /\ stack # <<>> /\ Top.out # Nil
  /\ heap' = [heap EXCEPT ![Top.out] =
                WithData(@, Append(@.kv, Top.kv[1]), Append(@.edges, result[1].root))]
  /\ stack' = Append(Below, [Top EXCEPT !.kv = None, !.length = @ + 1 + result[1].length])
  /\ result' = None
  /\ UNCHANGED <<source, pc>>

\* The waiting pair is pushed with the subtree that was cloned after it.
PushSubtree ==
  /\ pc = "cloning" /\ result # None
  /\ stack # <<>> /\ Top.out # Nil
  /\ heap' = internal_push(heap, Top.out, Top.kv[1], result[1].root)
  /\ stack' = Append(Below, [Top EXCEPT !.kv = None, !.length = @ + 1 + result[1].length])
  /\ result' = None
  /\ UNCHANGED <<source, pc>>

CloneDone ==
  /\ pc = "cloning" /\ result # None
  /\ stack = <<>>
  /\ pc' = "done"
  /\ UNCHANGED <<source, heap, stack, result>>

-----------------------------------------------------------------------------
\* The clone of a key or a value panics.
ClonePanics ==
  /\ pc = "cloning" /\ result = None
  /\ HasPair
  /\ pc' = "unwinding"
  /\ UNCHANGED <<source, heap, stack, result>>

\* The unwinding leaves a call and drops its out_tree.
Unwind ==
  /\ pc = "unwinding"
  /\ stack # <<>>
  /\ heap' = IF Top.out = Nil THEN heap ELSE drop_map(heap, Top.out, Top.length)
  /\ stack' = Below
  /\ UNCHANGED <<source, result, pc>>

UnwindDone ==
  /\ pc = "unwinding"
  /\ stack = <<>>
  /\ pc' = "panicked"
  /\ UNCHANGED <<source, heap, stack, result>>

Next ==
  \/ CloneEmpty \/ CloneBegin \/ CloneFirst
  \/ CloneLeafPair \/ CloneInternalPair \/ CloneReturn
  \/ PushLevel \/ PushSubtree \/ CloneDone
  \/ ClonePanics \/ Unwind \/ UnwindDone

Spec == Init /\ [][Next]_vars

-----------------------------------------------------------------------------
Outs == {stack[i].out : i \in DOMAIN stack} \ {Nil}
Results == {result[i].root : i \in DOMAIN result} \ {Nil}

\* Every unfinished map is a tree of its own, with nothing of the source in it
\* and no node outside of it, and its length counts its pairs: what its drop
\* relies on if a clone panics.
UnfinishedMapsSound ==
  /\ WellFormed(heap, {source.root} \cup Outs \cup Results)
  /\ \A i \in DOMAIN stack :
       stack[i].out # Nil => stack[i].length = Len(PairsOf(heap, stack[i].out))

\* A tree as nested sequences, without addresses.
Shape(h, r) ==
  LET shape[n \in DOMAIN h] ==
        <<h[n].kv, [i \in DOMAIN h[n].edges |-> shape[h[n].edges[i]]]>>
  IN  shape[r]

\* The clone has the pairs and the shape of the source, node by node, so that
\* it is as legal as the source; an empty map becomes one without a root.
CloneEqualsSource ==
  pc = "done" =>
    /\ result[1].length = source.length
    /\ IF source.length = 0 THEN result[1].root = Nil
       ELSE Shape(heap, result[1].root) = Shape(source.heap, source.root)

\* Whatever happens to the clone, the source stays as it is; after a panic every
\* node of every unfinished map has been freed.
SourceKept ==
  /\ \A n \in DOMAIN source.heap : n \in DOMAIN heap /\ heap[n] = source.heap[n]
  /\ pc = "panicked" => DOMAIN heap = DOMAIN source.heap

=============================================================================
