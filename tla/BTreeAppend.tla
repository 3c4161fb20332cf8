------------------------------ MODULE BTreeAppend ------------------------------
(***************************************************************************)
(* append (map.rs, append.rs, merge_iter.rs, fix.rs): both maps are taken  *)
(* apart by iterators, a merge of the two gives one sequence, and a new    *)
(* tree is built from it by pushing at its right end.  The comparator      *)
(* decides every step of the merge and may panic in any of them.           *)
(*                                                                         *)
(* A map that the call takes apart, swaps or leaves alone is given by its  *)
(* pairs in order; BTreeDying is about the iterators that take it apart.   *)
(***************************************************************************)
EXTENDS BTreeSearch, BTreeNavigate

CONSTANT Given  \* the maps of the calls: pairs of sequences, for self and for other

ASSUME GivenAssumption == Given \subseteq Seq(KV) \X Seq(KV)

VARIABLES a, b,                \* self and other; then what is left in their iterators
          given,               \* both maps when the call began
          peeked,              \* MergeIterInner::peeked: Option of a side and a pair
          hand,                \* the pair that the merge has given to bulk_push
          heap, root, length,  \* self as it is rebuilt
          pc,
          cur                  \* cur_node

vars == <<a, b, given, peeked, hand, heap, root, length, pc, cur>>
sources == <<a, b, peeked>>
tree == <<heap, root, length>>

Init ==
  /\ given \in Given
  /\ a = given[1] /\ b = given[2]
  /\ peeked = None /\ hand = None
  /\ heap = [n \in {} |-> new_leaf(<<>>)] /\ root = Nil /\ length = 0
  /\ pc = "idle"
  /\ cur = Nil

-----------------------------------------------------------------------------
(* BTreeMap::append *)

AppendNothing ==
  /\ pc = "idle"
  /\ b = <<>>
  /\ pc' = "done"
  /\ UNCHANGED <<sources, given, hand, tree, cur>>

AppendSwap ==
  /\ pc = "idle"
  /\ b # <<>> /\ a = <<>>
  /\ a' = b /\ b' = a
  /\ pc' = "done"
  /\ UNCHANGED <<given, peeked, hand, tree, cur>>

\* Both maps are replaced by new ones; self gets an empty root leaf.
AppendBegin ==
  /\ pc = "idle"
  /\ a # <<>> /\ b # <<>>
  /\ CanAllocate(heap)
  /\ LET n == FreshNode(heap)
     IN  heap' = Allocate(heap, n, new_leaf(<<>>)) /\ root' = n /\ cur' = n
  /\ pc' = "merge"
  /\ UNCHANGED <<sources, given, hand, length>>

-----------------------------------------------------------------------------
(* MergeIter::next *)

Peeked(side) == peeked # None /\ peeked[1][1] = side

\* Iterator::next of an iterator that has the pairs s.
NextOf(s) == IF s = <<>> THEN None ELSE Some(Head(s))

\* Fault: the peeked pair is forgotten.
ItemOfUnpeeked(side, s) == NextOf(s)

\* What comes next on one side: the peeked pair, or the next of its iterator ...
ItemOf(side, s) == IF Peeked(side) THEN Some(peeked[1][2]) ELSE NextOf(s)
\* ... of which this is then left.
LeftOf(side, s) == IF Peeked(side) \/ s = <<>> THEN s ELSE Tail(s)

a_next == ItemOf("A", a)
b_next == ItemOf("B", b)

\* Fault: the answers are read as in insert, where Greater goes on.
MergeComparedSwapped ==
  /\ pc = "merge"
  /\ a_next # None /\ b_next # None
  /\ \E o \in Cmp[a_next[1][1], b_next[1][1]] :
       /\ peeked' = CASE o = "Greater" -> Some(<<"B", b_next[1]>>)
                      [] o = "Less" -> Some(<<"A", a_next[1]>>)
                      [] o = "Equal" -> None
       /\ hand' = IF o = "Greater" THEN a_next ELSE b_next
  /\ a' = LeftOf("A", a) /\ b' = LeftOf("B", b)
  /\ pc' = "push"
  /\ UNCHANGED <<given, tree, cur>>

\* Of two equal pairs the one of self is dropped.
MergeCompared ==
  /\ pc = "merge"
  /\ a_next # None /\ b_next # None
  /\ \E o \in Cmp[a_next[1][1], b_next[1][1]] :
       /\ peeked' = CASE o = "Less" -> Some(<<"B", b_next[1]>>)
                      [] o = "Greater" -> Some(<<"A", a_next[1]>>)
                      [] o = "Equal" -> None
       /\ hand' = IF o = "Less" THEN a_next ELSE b_next
  /\ a' = LeftOf("A", a) /\ b' = LeftOf("B", b)
  /\ pc' = "push"
  /\ UNCHANGED <<given, tree, cur>>

\* One side is at its end.
MergeOne ==
  /\ pc = "merge"
  /\ (a_next = None) # (b_next = None)
  /\ hand' = IF b_next = None THEN a_next ELSE b_next
  /\ peeked' = None
  /\ a' = LeftOf("A", a) /\ b' = LeftOf("B", b)
  /\ pc' = "push"
  /\ UNCHANGED <<given, tree, cur>>

MergeEnd ==
  /\ pc = "merge"
  /\ a_next = None /\ b_next = None
  /\ pc' = "fix"
  /\ cur' = root
  /\ UNCHANGED <<sources, given, hand, tree>>

\* The comparator panics, or the drop of the pair that equals another.  The
\* iterators are dropped with what they still have; self stays as far as it is built.
MergePanics ==
  /\ pc = "merge"
  /\ a_next # None /\ b_next # None
  /\ a' = <<>> /\ b' = <<>> /\ peeked' = None
  /\ pc' = "panicked"
  /\ UNCHANGED <<given, hand, tree, cur>>

-----------------------------------------------------------------------------
(* bulk_push *)

\* Fault: a leaf is left when it has the minimum.
HasRoomHalf == len(heap, cur) < MIN_LEN

HasRoom == len(heap, cur) < CAPACITY

PushLeaf ==
  /\ pc = "push"
  /\ HasRoom
  /\ heap' = leaf_push(heap, cur, hand[1])
  /\ length' = length + 1
  /\ hand' = None
  /\ pc' = "merge"
  /\ UNCHANGED <<sources, given, root, cur>>

\* The nearest ancestor with room, or Nil.
OpenNode(h, n) ==
  LET up[m \in DOMAIN h] ==
        LET p == h[m].parent
        IN  IF p = Nil \/ len(h, p) < CAPACITY THEN p ELSE up[p]
  IN  up[n]

\* Fault: a pair that goes to an internal node is not counted.
PushUpUncounted ==
  /\ pc = "push"
  /\ ~HasRoom
  /\ LET open == OpenNode(heap, cur)
         tree_height == IF open = Nil THEN heap[root].height ELSE heap[open].height - 1
         at == Fresh(heap, tree_height + 2)
         right_tree == at[tree_height + 1]
         grown == new_pillar(heap, SubSeq(at, 1, tree_height + 1))
     IN  /\ CanAllocateAll(heap, tree_height + 2)
         /\ IF open = Nil
            THEN /\ root' = at[tree_height + 2]
                 /\ heap' = push_root_level(grown, root, root', hand[1], right_tree)
            ELSE /\ heap' = internal_push(grown, open, hand[1], right_tree)
                 /\ UNCHANGED root
         /\ cur' = at[1]
  /\ hand' = None
  /\ pc' = "merge"
  /\ UNCHANGED <<sources, given, length>>

\* The leaf is full: the pair goes to the open ancestor, or to a new root, with
\* an empty pillar to its right, whose leaf is pushed to next.
PushUp ==
  /\ pc = "push"
  /\ ~HasRoom
  /\ LET open == OpenNode(heap, cur)
         tree_height == IF open = Nil THEN heap[root].height ELSE heap[open].height - 1
         at == Fresh(heap, tree_height + 2)
         right_tree == at[tree_height + 1]
         grown == new_pillar(heap, SubSeq(at, 1, tree_height + 1))
     IN  /\ CanAllocateAll(heap, tree_height + 2)
         /\ IF open = Nil
            THEN /\ root' = at[tree_height + 2]
                 /\ heap' = push_root_level(grown, root, root', hand[1], right_tree)
            ELSE /\ heap' = internal_push(grown, open, hand[1], right_tree)
                 /\ UNCHANGED root
         /\ cur' = at[1]
  /\ length' = length + 1
  /\ hand' = None
  /\ pc' = "merge"
  /\ UNCHANGED <<sources, given>>

-----------------------------------------------------------------------------
(* fix_right_border_of_plentiful *)

LastKV == len(heap, cur) - 1
LeftChild == descend(heap, cur, LastKV)
RightChild == descend(heap, cur, LastKV + 1)

\* Fault: an underfull child gets one pair only.
FixPlentifulOne ==
  /\ pc = "fix"
  /\ ~IsLeaf(heap, cur)
  /\ heap' = IF len(heap, RightChild) >= MIN_LEN THEN heap
             ELSE bulk_steal_left(heap, cur, LastKV, 1)
  /\ cur' = RightChild
  /\ UNCHANGED <<sources, given, hand, root, length, pc>>

FixPlentiful ==
  /\ pc = "fix"
  /\ ~IsLeaf(heap, cur)
  /\ heap' = IF len(heap, RightChild) >= MIN_LEN THEN heap
             ELSE bulk_steal_left(heap, cur, LastKV, MIN_LEN - len(heap, RightChild))
  /\ cur' = RightChild
  /\ UNCHANGED <<sources, given, hand, root, length, pc>>

FixPlentifulDone ==
  /\ pc = "fix"
  /\ IsLeaf(heap, cur)
  /\ pc' = "done"
  /\ UNCHANGED <<sources, given, hand, tree, cur>>

-----------------------------------------------------------------------------
Next ==
  \/ AppendNothing \/ AppendSwap \/ AppendBegin
  \/ MergeCompared \/ MergeOne \/ MergeEnd \/ MergePanics
  \/ PushLeaf \/ PushUp
  \/ FixPlentiful \/ FixPlentifulDone

Spec == Init /\ [][Next]_vars

-----------------------------------------------------------------------------
\* The pairs of self: of the new tree, or of the map that was kept or swapped in.
Result == IF root = Nil THEN a ELSE PairsOf(heap, root)

\* At every step self is one tree with correct links and equally deep leaves,
\* and every pair in it is counted, in leaves and in internal nodes, so that self
\* can be dropped after a panic of the comparator (append.rs: "Increment length
\* every iteration, to make sure the map drops the appended elements").
AlwaysDroppable ==
  /\ WellFormed(heap, {root})
  /\ root # Nil => length = PairCount(heap)

\* The result keeps the invariants of map.rs: the border nodes that bulk_push
\* has begun, and left empty at worst, are stocked up from full siblings.
ResultLegal == pc = "done" => LegalLens(heap, {root})

\* fix.rs: debug_assert!(last_kv.left_child_len() >= MIN_LEN * 2), and the
\* internal node has a last pair.
PlentifulAsserts ==
  pc = "fix" /\ ~IsLeaf(heap, cur) =>
    len(heap, cur) > 0 /\ len(heap, LeftChild) >= 2 * MIN_LEN

In(p, s) == p \in Seqs!ToSet(s)

\* Whatever the comparator answers, all pairs of other are in the result, in
\* their order and once each; those of self are too, but for the ones that were
\* found equal, and nothing else is.
BothMerged ==
  pc = "done" =>
    /\ SelectSeq(Result, LAMBDA p : In(p, given[2])) = given[2]
    /\ SelectSeq(Result, LAMBDA p : In(p, given[1])) = SelectSeq(given[1], LAMBDA p : In(p, Result))
    /\ \A i \in DOMAIN Result : In(Result[i], given[1]) \/ In(Result[i], given[2])

\* With a comparator that answers "Less" when the pair of self comes before the
\* pair of other in the order of both maps, the result is in that order, and it is
\* the union in which the pairs of other replace those of self.
IsUnion ==
  pc = "done" /\ (\A i \in DOMAIN given[2] : Decided(given[2][i][1])) =>
    /\ \A i, j \in DOMAIN Result : i < j => Cmp[Result[i][1], Result[j][1]] = {"Less"}
    /\ Seqs!ToSet(Result) =
         Seqs!ToSet(given[2]) \cup
         {p \in Seqs!ToSet(given[1]) :
            \A q \in Seqs!ToSet(given[2]) : Cmp[p[1], q[1]] # {"Equal"}}

=============================================================================
