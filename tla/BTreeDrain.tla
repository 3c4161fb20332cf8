------------------------------- MODULE BTreeDrain -------------------------------
(***************************************************************************)
(* drain_filter and retain (map.rs): a walk through the tree that asks the *)
(* client's predicate about every pair and removes the ones it answers     *)
(* true for, with the steps of remove_kv_tracking in BTreeMap.  Unlike     *)
(* OccupiedEntry::remove_kv it counts a pair off before its removal, pops  *)
(* an emptied root in the middle of it, and goes on from the edge that the *)
(* removal has tracked.  The predicate may panic, and so may the           *)
(* destructor of a pair that is drained when the DrainFilter is dropped.   *)
(***************************************************************************)
EXTENDS BTreeOrder, BTreeMaps

VARIABLES cur_leaf_edge,  \* Option of a leaf edge
          dropping,       \* the DrainFilter is being dropped
          elements,       \* the pairs of the map when the walk began
          answers         \* the predicate's answers: TRUE for a pair to remove

filter == <<cur_leaf_edge, dropping>>
ghosts == <<elements, answers>>
dvars == <<vars, cur_leaf_edge, dropping, elements, answers>>

\* drain_filter_inner: the walk begins at the first leaf edge.
DrainInit ==
  /\ \E m \in Maps : heap = m.heap /\ root = m.root /\ length = m.length
  /\ cur_leaf_edge = IF root = Nil THEN None ELSE Some(first_leaf_edge(heap, root))
  /\ dropping = FALSE
  /\ pc = "drain" /\ op = "drain" /\ key = None
  /\ cur = NoHandle /\ pos = NoHandle
  /\ hand = None /\ right = Nil
  /\ refill = FALSE /\ emptied = FALSE
  /\ ret = None
  /\ elements = PairsOf(heap, root)
  /\ answers = <<>>

\* The locals of a removal are gone.
ClearLocals ==
  /\ key' = None
  /\ cur' = NoHandle /\ pos' = NoHandle
  /\ hand' = None /\ right' = Nil
  /\ refill' = FALSE /\ emptied' = FALSE

-----------------------------------------------------------------------------
(* The DrainFilter in the client's hands *)

CallNext ==
  /\ pc = "drain"
  /\ pc' = "drain_next"
  /\ ret' = None
  /\ UNCHANGED <<map, op, key, cur, pos, hand, right, refill, emptied, filter, ghosts>>

\* Drop, which takes every element that is left; retain drops at once.
CallDrop ==
  /\ pc = "drain"
  /\ pc' = "drain_next"
  /\ dropping' = TRUE
  /\ ret' = None
  /\ UNCHANGED <<map, op, key, cur, pos, hand, right, refill, emptied, cur_leaf_edge, ghosts>>

\* mem::forget.
Forget ==
  /\ pc = "drain"
  /\ Return(None)
  /\ cur_leaf_edge' = None
  /\ UNCHANGED <<map, dropping, ghosts>>

-----------------------------------------------------------------------------
(* DrainFilterInner::next *)

\* The pair that the predicate is asked about.
NextPair == IF cur_leaf_edge = None THEN NoHandle ELSE next_kv(heap, cur_leaf_edge[1])

\* The end: the edge is taken and not put back.
DrainEnd ==
  /\ pc = "drain_next"
  /\ NextPair = NoHandle
  /\ cur_leaf_edge' = None
  /\ IF dropping THEN Return(None)
     ELSE pc' = "drain" /\ UNCHANGED <<op, key, cur, pos, hand, right, refill, emptied, ret>>
  /\ UNCHANGED <<map, dropping, ghosts>>

\* The predicate may have written to the value.
Written(kv, v) == [heap EXCEPT ![kv.node] = replace_kv(@, kv.idx, <<PairAt(heap, kv)[1], v>>)]

\* The predicate answers false.
DrainKeep(v) ==
  /\ pc = "drain_next"
  /\ NextPair # NoHandle
  /\ heap' = Written(NextPair, v)
  /\ cur_leaf_edge' = Some(next_leaf_edge(heap, NextPair))
  /\ answers' = Append(answers, FALSE)
  /\ UNCHANGED <<root, length, pc, op, key, cur, pos, hand, right, refill, emptied, ret,
                 dropping, elements>>

\* Fault: an internal pair is not counted off.
DrainRemoveUncounted(v) ==
  /\ pc = "drain_next"
  /\ NextPair # NoHandle
  /\ heap' = Written(NextPair, v)
  /\ length' = IF IsLeaf(heap, NextPair.node) THEN length - 1 ELSE length
  /\ refill' = ~IsLeaf(heap, NextPair.node)
  /\ IF IsLeaf(heap, NextPair.node) THEN Goto("remove_leaf", NextPair)
     ELSE Goto("left_leaf", Handle(descend(heap, NextPair.node, NextPair.idx), 0))
  /\ cur_leaf_edge' = None
  /\ answers' = Append(answers, TRUE)
  /\ UNCHANGED <<root, op, key, pos, hand, right, emptied, ret, dropping, elements>>

\* The predicate answers true: the pair is counted off, then removed.
DrainRemove(v) ==
  /\ pc = "drain_next"
  /\ NextPair # NoHandle
  /\ heap' = Written(NextPair, v)
  /\ length' = length - 1
  /\ refill' = ~IsLeaf(heap, NextPair.node)
  /\ IF IsLeaf(heap, NextPair.node) THEN Goto("remove_leaf", NextPair)
     ELSE Goto("left_leaf", Handle(descend(heap, NextPair.node, NextPair.idx), 0))
  /\ cur_leaf_edge' = None
  /\ answers' = Append(answers, TRUE)
  /\ UNCHANGED <<root, op, key, pos, hand, right, emptied, ret, dropping, elements>>

\* The predicate panics, before or after it has written to the value: the edge has
\* been taken, and is lost.  A client that catches the panic still has the
\* DrainFilter, or has dropped it.
PredPanics(v) ==
  /\ pc = "drain_next"
  /\ NextPair # NoHandle
  /\ heap' = Written(NextPair, v)
  /\ cur_leaf_edge' = None
  /\ IF dropping THEN Return(None)
     ELSE pc' = "drain" /\ UNCHANGED <<op, key, cur, pos, hand, right, refill, emptied, ret>>
  /\ UNCHANGED <<root, length, dropping, ghosts>>

\* Fault: the emptied root stays.
DrainEmptyRootKept ==
  /\ pc = "fix"
  /\ Underfull(cur.node)
  /\ Parent(cur.node) = Nil
  /\ len(heap, cur.node) = 0
  /\ AfterRemoveLeaf(pos)
  /\ UNCHANGED <<map, op, key, hand, right, refill, emptied, ret, filter, ghosts>>

\* The callback of remove_kv_tracking pops the root, before next_kv looks for
\* the pair to be replaced.
DrainEmptyRoot ==
  /\ pc = "fix"
  /\ Underfull(cur.node)
  /\ Parent(cur.node) = Nil
  /\ len(heap, cur.node) = 0
  /\ heap' = pop_internal_level(heap, root)
  /\ root' = descend(heap, root, 0)
  /\ AfterRemoveLeaf(pos)
  /\ UNCHANGED <<length, op, key, hand, right, refill, emptied, ret, filter, ghosts>>

\* The other steps of remove_kv_tracking, as for an entry.
RemoveKvTracking ==
  /\ \/ LeftLeaf
     \/ RemoveLeafDone \/ RemoveLeafMerge \/ RemoveLeafSteal
     \/ FixDone \/ FixMerge \/ FixSteal
     \/ NextKvAscend \/ ReplaceKv
  /\ UNCHANGED <<filter, ghosts>>

\* Fault: after an internal pair, the walk goes on from the hole in the leaf.
DrainRemovedHole ==
  /\ pc = "finish"
  /\ cur_leaf_edge' = Some(pos)
  /\ pc' = IF dropping THEN "drop_pair" ELSE "drain"
  /\ ClearLocals
  /\ UNCHANGED <<map, op, ret, dropping, ghosts>>

\* remove_kv_tracking returns the pair and the edge where it was; the edge of
\* an internal pair is the one right of it.
DrainRemoved ==
  /\ pc = "finish"
  /\ cur_leaf_edge' = Some(IF refill THEN next_leaf_edge(heap, cur) ELSE pos)
  /\ pc' = IF dropping THEN "drop_pair" ELSE "drain"
  /\ ClearLocals
  /\ UNCHANGED <<map, op, ret, dropping, ghosts>>

\* for_each(drop) drops the pair ...
DropPair ==
  /\ pc = "drop_pair"
  /\ pc' = "drain_next"
  /\ ret' = None
  /\ UNCHANGED <<map, op, key, cur, pos, hand, right, refill, emptied, filter, ghosts>>

\* ... whose destructor may panic, which ends the drop of the DrainFilter.
DropPairPanics ==
  /\ pc = "drop_pair"
  /\ Return(None)
  /\ cur_leaf_edge' = None
  /\ UNCHANGED <<map, dropping, ghosts>>

-----------------------------------------------------------------------------
DrainStep ==
  \/ DrainEnd
  \/ \E v \in Val : DrainKeep(v) \/ DrainRemove(v) \/ PredPanics(v)
  \/ RemoveKvTracking \/ DrainEmptyRoot \/ DrainRemoved
  \/ DropPair \/ DropPairPanics

DrainNext == CallNext \/ CallDrop \/ Forget \/ DrainStep

DrainSpec == DrainInit /\ [][DrainNext]_dvars

\* A call, of next or of drop, runs on by itself.
FairDrainSpec == DrainSpec /\ WF_dvars(DrainStep)
-----------------------------------------------------------------------------
\* Between two questions to the predicate.
Resting == pc \in {"idle", "drain", "drain_next", "drop_pair"}

\* What the map should have: the elements that the predicate has let stay and
\* those that it has not been asked about.
Kept ==
  Seqs!FlattenSeq([i \in DOMAIN elements |->
                     IF i \in DOMAIN answers /\ answers[i] THEN <<>> ELSE <<elements[i]>>])

\* "If the closure returns `false', or panics, the element remains in the map",
\* and all the others are removed: the predicate is asked about each element
\* once and in order, however the removals have rearranged the tree around the
\* edge, and whatever panics.
EachAskedOnce ==
  Resting =>
    /\ [i \in DOMAIN Contents |-> Contents[i][1]] = [i \in DOMAIN Kept |-> Kept[i][1]]
    /\ cur_leaf_edge # None =>
         LET edges == LeafEdges(heap, root)
         IN  \E i \in DOMAIN edges :
               /\ edges[i] = cur_leaf_edge[1]
               /\ i = Len(SelectSeq(answers, LAMBDA removed : ~removed)) + 1

\* The tree is legal at every step of the walk, with the root popped in the
\* middle of a removal, and no assertion or unwrap_unchecked of a removal fails.
DrainKeepsShape == ParentLinks /\ HeightsUniform /\ NodeLens /\ AssertsHold

\* DrainFilterInner::length: "Reference to the length field in the borrowed map,
\* updated live", so it is right also if the DrainFilter is leaked or a panic
\* ends the walk.  Unlike an entry's removal it counts the pair off first.
LengthLive ==
  length = PairCount(heap) - IF pc \in {"left_leaf", "remove_leaf"} THEN 1 ELSE 0

\* The drop of a DrainFilter ends.
DrainEnds == dropping ~> (pc = "idle")
=============================================================================
