------------------------ MODULE BTreeDrainCursorProofs ------------------------
(***************************************************************************)
(* The two ways to edit a tree from within leave it legal and counted at   *)
(* every step.  Both run the steps of BTreeMap, and so use its lemmas.     *)
(*                                                                         *)
(* A DrainFilter pops an emptied root before next_kv and goes on from the  *)
(* edge that the removal has tracked, whatever the predicate answers and   *)
(* wherever a panic ends the walk.  A CursorMut comes back, across the     *)
(* splits of an insertion or from the tracked edge of a removal, to a      *)
(* handle that is a pair of the tree; and that pair is the one that the    *)
(* order of the tree has there, so that its neighbours are too.            *)
(***************************************************************************)
EXTENDS BTreeDrain, BTreeCursor, BTreeMapProofs

(* DrainFilter *)

\* What the walk is at, between two removals, is an edge of a leaf.
AtLeafEdge == cur_leaf_edge # None => LeafEdge(heap, cur_leaf_edge[1])

\* The steps of a removal.
Removing == pc \in {"left_leaf", "remove_leaf", "fix", "next_kv", "finish"}

DInv ==
  /\ AInv /\ Tracked
  /\ Countable(heap) /\ LengthLive
  /\ ~emptied /\ op # "replace"
  /\ \/ Removing /\ cur_leaf_edge = None
     \/ Resting /\ refill = FALSE /\ AtLeafEdge

-----------------------------------------------------------------------------
\* The walk begins at the first leaf edge of a legal map.
LEMMA DInvInit == DrainInit => DInv
<1> SUFFICES ASSUME DrainInit
             PROVE  DInv
  OBVIOUS
<1>1. PICK m \in Maps : heap = m.heap /\ root = m.root /\ length = m.length
  BY DEF DrainInit
<1>2. /\ Tree(heap, root, Nil, Nil, FALSE) /\ Countable(heap)
      /\ length = PairCount(heap) /\ length \in Int
  BY <1>1, MapsAssumption, LegalTree
<1>3. /\ pc = "drain" /\ op = "drain" /\ key = None /\ cur = NoHandle /\ pos = NoHandle
      /\ hand = None /\ right = Nil /\ refill = FALSE /\ emptied = FALSE /\ ret = None
  BY DEF DrainInit
<1>4. HeapType(heap) /\ root \in NodeId \cup {Nil} /\ WellFormed(heap, {root, Nil})
  BY <1>2 DEF Tree, WellFormed, HeapType
<1>5. Types
  <2>1. refill \in BOOLEAN /\ emptied \in BOOLEAN
    BY <1>3, Zenon
  <2> QED BY <1>2, <1>3, <1>4, <2>1, NoHandleProps, NoneOption DEF Types, HandleType
<1>6. Tree(heap, root, right, Fixed, emptied)
  BY <1>2, <1>3 DEF Fixed
<1>7. Locals
  BY <1>3 DEF Locals
<1>8. AtLeafEdge
  <2>1. CASE root = Nil
    BY <2>1 DEF DrainInit, AtLeafEdge
  <2>2. CASE root # Nil
    <3>1. LeafEdge(heap, first_leaf_edge(heap, root))
      BY <1>2, <1>4, <2>2, FirstLeaf DEF Tree
    <3> QED BY <2>2, <3>1 DEF DrainInit, AtLeafEdge, Some
  <2> QED BY <2>1, <2>2
<1>9. AInv /\ Tracked
  BY <1>3, <1>5, <1>6, <1>7 DEF AInv, IInv, Replaceable, Refilling, Tracked
<1>10. LengthLive
  BY <1>2, <1>3, PlacesFinite DEF LengthLive
<1> QED BY <1>2, <1>3, <1>8, <1>9, <1>10 DEF DInv, Resting

-----------------------------------------------------------------------------
(* Between two removals *)

\* Nothing is underfull and no local is in use.
LEMMA DRest ==
  ASSUME DInv, Resting
  PROVE  /\ Tree(heap, root, Nil, Nil, FALSE) /\ right = Nil /\ ~emptied /\ refill = FALSE
         /\ length = PairCount(heap) /\ length \in Int /\ Countable(heap) /\ IInv
<1>1. IInv /\ Countable(heap) /\ LengthLive
  BY DEF DInv, AInv
<1>2. pc \notin {"insert_up", "fix", "next_kv", "finish", "left_leaf", "remove_leaf"}
  BY DEF Resting
<1>3. refill = FALSE
  BY <1>2 DEF DInv, Removing
<1>4. Tree(heap, root, Nil, Nil, FALSE) /\ right = Nil /\ ~emptied
  BY <1>1, <1>2, Quiet
<1>5. length = PairCount(heap)
  BY <1>1, <1>2, PlacesFinite DEF LengthLive
<1>6. length \in Int
  BY <1>1 DEF IInv, Types
<1> QED BY <1>1, <1>3, <1>4, <1>5, <1>6

\* The walk stands still, or goes on to another edge.
LEMMA Onwards ==
  ASSUME DInv, Resting, Tree(heap', root', Nil, Nil, FALSE), Countable(heap'),
         length' = PairCount(heap'), AtLeafEdge',
         ret' \in Option(KV), pc' \in {"drain", "drain_next", "drop_pair"},
         UNCHANGED <<op, key, cur, pos, hand, right, refill, emptied>>
  PROVE  DInv'
<1>1. /\ IInv /\ right = Nil /\ ~emptied /\ refill = FALSE /\ op # "replace"
  BY DRest DEF DInv
<1>2. ~Removing' /\ Resting' /\ refill' = FALSE
  BY <1>1 DEF Resting, Removing
<1>3. HeapType(heap') /\ root' \in NodeId \cup {Nil}
  BY DEF Tree, WellFormed, HeapType
<1>4. PairCount(heap') \in Nat
  BY PlacesFinite
<1>5. Types'
  BY <1>1, <1>3, <1>4 DEF IInv, Types
<1>6. Tree(heap, root, right, Fixed, emptied)'
  <2>1. right' = Nil /\ Fixed' = Nil /\ emptied' = FALSE
    BY <1>1, <1>5 DEF Fixed, Types
  <2> QED BY <2>1
<1>7. Locals'
  BY <1>1 DEF Locals
<1>8. AInv' /\ Tracked'
  BY <1>2, <1>5, <1>6, <1>7 DEF AInv, IInv, Replaceable, Refilling, Tracked
<1>9. LengthLive'
  BY <1>4 DEF LengthLive
<1> QED BY <1>1, <1>2, <1>8, <1>9 DEF DInv

\* The walk is over.
LEMMA WalkOver ==
  ASSUME DInv, Resting, Return(None), Tree(heap', root', Nil, Nil, FALSE), Countable(heap'),
         length' = PairCount(heap'), AtLeafEdge'
  PROVE  DInv'
<1>1. /\ pc' = "idle" /\ op' = "none" /\ refill' = FALSE /\ emptied' = FALSE
  BY DEF Return
<1>2. length' \in Int
  BY PlacesFinite
<1>3. IInv'
  BY <1>2, Returned, NoneOption
<1>4. AInv' /\ Tracked'
  BY <1>1, <1>3 DEF AInv, Replaceable, Refilling, Tracked
<1>5. LengthLive'
  BY <1>1, <1>2, PlacesFinite DEF LengthLive
<1> QED BY <1>1, <1>2, <1>4, <1>5 DEF DInv, Resting

-----------------------------------------------------------------------------
(* DrainFilterInner::next *)

\* The pair that next_kv finds is one of the tree.
LEMMA NextPairThere ==
  ASSUME DInv, Resting, NextPair # NoHandle
  PROVE  /\ PairIn(heap, NextPair) /\ NextPair \in HandleType
         /\ NextPair.node \in DOMAIN heap /\ NextPair.idx \in Nat
         /\ NextPair.idx < Len(heap[NextPair.node].kv)
<1>1. Tree(heap, root, Nil, Nil, FALSE) /\ Countable(heap) /\ IInv
  BY DRest
<1>2. WellFormed(heap, {root, Nil}) /\ HeapType(heap) /\ Lens(heap, root, Nil, FALSE)
  BY <1>1 DEF Tree, WellFormed
<1>3. Bounded(heap)
  BY <1>1, <1>2, FiniteBounded DEF Countable
<1>4. Roomy(heap)
  BY <1>2 DEF Lens, Roomy
<1>5. cur_leaf_edge # None /\ NextPair = next_kv(heap, cur_leaf_edge[1])
  BY DEF NextPair
<1>6. EdgeOf(heap, cur_leaf_edge[1])
  <2>1. LeafEdge(heap, cur_leaf_edge[1])
    BY <1>5 DEF DInv, AtLeafEdge
  <2> QED BY <2>1 DEF LeafEdge, EdgeOf
<1>7. PairIn(heap, NextPair)
  <2>1. next_kv(heap, cur_leaf_edge[1]) = NoHandle \/ PairIn(heap, next_kv(heap, cur_leaf_edge[1]))
    BY <1>2, <1>3, <1>4, <1>6, NextKv
  <2> QED BY <1>5, <2>1
<1>8. DOMAIN heap \subseteq NodeId
  BY <1>1, IInvFacts
<1> DEFINE kv == NextPair
<1> HIDE DEF kv
<1>9. PairIn(heap, kv) => /\ kv \in HandleType /\ kv.node \in DOMAIN heap /\ kv.idx \in Nat
                          /\ kv.idx < Len(heap[kv.node].kv)
  BY <1>8 DEF PairIn, HandleType
<1> QED BY <1>7, <1>9 DEF kv

\* What the predicate writes to a value changes no node's place.
LEMMA WrittenFacts ==
  ASSUME DInv, Resting, NextPair # NoHandle, NEW v \in Val, heap' = Written(NextPair, v)
  PROVE  /\ Tree(heap', root, Nil, Nil, FALSE) /\ SameSizes(heap', heap)
         /\ Countable(heap') /\ PairCount(heap') = PairCount(heap)
         /\ \A m \in DOMAIN heap : heap'[m].edges = heap[m].edges
<1> DEFINE n == NextPair.node
           i == NextPair.idx
           new == <<heap[n].kv[i + 1][1], v>>
<1>1. /\ n \in DOMAIN heap /\ i \in Nat /\ i < Len(heap[n].kv)
      /\ heap' = [heap EXCEPT ![n] = replace_kv(heap[n], i, new)]
  BY NextPairThere DEF Written, PairAt
<1>2. Tree(heap, root, Nil, Nil, FALSE) /\ IInv /\ Countable(heap)
  BY DRest
<1>3. new \in KV
  <2>1. heap[n].kv[i + 1] \in KV
    BY <1>1, <1>2, PairOf
  <2> QED BY <2>1 DEF KV
<1> HIDE DEF n, i, new
<1>4. Tree(heap', root, Nil, Nil, FALSE) /\ SameSizes(heap', heap)
  <2>1. /\ Tree([heap EXCEPT ![n] = replace_kv(heap[n], i, new)], root, Nil, Nil, FALSE)
        /\ SameSizes([heap EXCEPT ![n] = replace_kv(heap[n], i, new)], heap)
    BY ONLY <1>1, <1>2, <1>3, TreeReplaceKv
  <2> QED BY <1>1, <2>1
<1>5. Tally(heap', heap, 0)
  BY <1>2, <1>4, TallySame DEF SameSizes
<1>6. PairCount(heap) \in Nat
  BY <1>2, PlacesFinite
<1>7. Countable(heap') /\ PairCount(heap') = PairCount(heap)
  BY <1>5, <1>6 DEF Tally
<1>8. \A m \in DOMAIN heap : heap'[m].edges = heap[m].edges
  <2>1. heap[n] \in Node /\ i \in 0 .. Len(heap[n].kv) - 1
    <3>1. HeapType(heap) /\ Len(heap[n].kv) \in Nat
      BY <1>1, <1>2, IInvFacts
    <3> QED BY <1>1, <3>1, HeapNode
  <2>2. replace_kv(heap[n], i, new).edges = heap[n].edges
    BY <1>3, <2>1, ReplaceKvProps
  <2> QED BY <1>1, <2>2
<1> QED BY <1>4, <1>7, <1>8

\* A leaf edge stays one when only pairs are overwritten.
LEMMA EdgeWritten ==
  ASSUME NEW g, NEW h, SameSizes(g, h), NEW e, LeafEdge(h, e)
  PROVE  LeafEdge(g, e)
BY DEF SameSizes, LeafEdge

\* A call of the client's, and the pair that has been dropped.
LEMMA StepCallNextOrDrop ==
  ASSUME DInv, CallNext \/ CallDrop \/ DropPair
  PROVE  DInv'
<1>1. /\ Resting /\ pc' = "drain_next" /\ ret' = None
      /\ UNCHANGED <<map, op, key, cur, pos, hand, right, refill, emptied, cur_leaf_edge>>
  BY DEF CallNext, CallDrop, DropPair, Resting, filter
<1>2. AtLeafEdge
  BY <1>1 DEF DInv, Resting, Removing
<1>3. AtLeafEdge'
  BY <1>1, <1>2 DEF AtLeafEdge, map
<1>4. /\ Tree(heap', root', Nil, Nil, FALSE) /\ Countable(heap')
      /\ length' = PairCount(heap')
  BY <1>1, DRest DEF map
<1>5. ret' \in Option(KV)
  BY <1>1, NoneOption
<1> QED BY <1>1, <1>3, <1>4, <1>5, Onwards

\* The walk is given up: by the client, by a destructor's panic, or at its end.
LEMMA StepWalkOver ==
  ASSUME DInv, Forget \/ DropPairPanics \/ DrainEnd
  PROVE  DInv'
<1>1. Resting /\ cur_leaf_edge' = None /\ UNCHANGED map
  BY DEF Forget, DropPairPanics, DrainEnd, Resting
<1>2. AtLeafEdge'
  BY <1>1 DEF AtLeafEdge
<1>3. /\ Tree(heap', root', Nil, Nil, FALSE) /\ Countable(heap')
      /\ length' = PairCount(heap')
  BY <1>1, DRest DEF map
<1>4. CASE Return(None)
  BY <1>1, <1>2, <1>3, <1>4, WalkOver
<1>5. CASE /\ pc' = "drain"
           /\ UNCHANGED <<op, key, cur, pos, hand, right, refill, emptied, ret>>
  <2>1. ret' \in Option(KV)
    BY <1>5 DEF DInv, AInv, IInv, Types
  <2> QED BY <1>1, <1>2, <1>3, <1>5, <2>1, Onwards
<1> QED BY <1>4, <1>5 DEF Forget, DropPairPanics, DrainEnd

\* The predicate has written to the value when it panics.
LEMMA StepPredPanics ==
  ASSUME DInv, NEW v \in Val, PredPanics(v)
  PROVE  DInv'
<1>1. /\ Resting /\ NextPair # NoHandle /\ heap' = Written(NextPair, v)
      /\ cur_leaf_edge' = None
      /\ UNCHANGED <<root, length>>
  BY DEF PredPanics, Resting
<1>2. /\ Tree(heap', root, Nil, Nil, FALSE)
      /\ Countable(heap') /\ PairCount(heap') = PairCount(heap)
  BY <1>1, WrittenFacts
<1>3. length = PairCount(heap)
  BY <1>1, DRest
<1>4. AtLeafEdge'
  BY <1>1 DEF AtLeafEdge
<1>5. CASE Return(None)
  BY <1>1, <1>2, <1>3, <1>4, <1>5, WalkOver
<1>6. CASE /\ pc' = "drain"
           /\ UNCHANGED <<op, key, cur, pos, hand, right, refill, emptied, ret>>
  <2>1. ret' \in Option(KV)
    BY <1>6 DEF DInv, AInv, IInv, Types
  <2> QED BY <1>1, <1>2, <1>3, <1>4, <1>6, <2>1, Onwards
<1> QED BY <1>5, <1>6 DEF PredPanics

\* The pair stays, and the walk goes on from the edge right of it.
LEMMA StepDrainKeep ==
  ASSUME DInv, NEW v \in Val, DrainKeep(v)
  PROVE  DInv'
<1>1. /\ Resting /\ NextPair # NoHandle /\ heap' = Written(NextPair, v)
      /\ cur_leaf_edge' = Some(next_leaf_edge(heap, NextPair))
      /\ UNCHANGED <<root, length, pc, op, key, cur, pos, hand, right, refill, emptied, ret>>
      /\ pc = "drain_next"
  BY DEF DrainKeep, Resting
<1>2. /\ Tree(heap', root, Nil, Nil, FALSE) /\ SameSizes(heap', heap)
      /\ Countable(heap') /\ PairCount(heap') = PairCount(heap)
  BY <1>1, WrittenFacts
<1>3. /\ WellFormed(heap, {root, Nil}) /\ length = PairCount(heap)
  BY <1>1, DRest DEF Tree
<1>4. LeafEdge(heap, next_leaf_edge(heap, NextPair))
  BY <1>1, <1>3, NextPairThere, NextLeafEdge
<1>5. LeafEdge(heap', next_leaf_edge(heap, NextPair))
  BY <1>2, <1>4, EdgeWritten
<1>6. AtLeafEdge'
  BY <1>1, <1>5 DEF AtLeafEdge, Some
<1>7. ret' \in Option(KV)
  BY <1>1 DEF DInv, AInv, IInv, Types
<1> QED BY <1>1, <1>2, <1>3, <1>6, <1>7, Onwards

\* The pair is counted off and its removal begins.
LEMMA StepDrainRemove ==
  ASSUME DInv, NEW v \in Val, DrainRemove(v)
  PROVE  DInv'
<1> DEFINE n == NextPair.node
           i == NextPair.idx
           c == descend(heap, n, i)
<1>1. /\ Resting /\ NextPair # NoHandle /\ heap' = Written(NextPair, v)
      /\ length' = length - 1 /\ cur_leaf_edge' = None
      /\ refill' = ~IsLeaf(heap, n)
      /\ IF IsLeaf(heap, n) THEN Goto("remove_leaf", NextPair)
         ELSE Goto("left_leaf", Handle(c, 0))
      /\ UNCHANGED <<root, op, key, pos, hand, right, emptied, ret>>
  BY DEF DrainRemove, Resting
<1>2. /\ Tree(heap', root, Nil, Nil, FALSE) /\ SameSizes(heap', heap)
      /\ Countable(heap') /\ PairCount(heap') = PairCount(heap)
      /\ \A m \in DOMAIN heap : heap'[m].edges = heap[m].edges
  BY <1>1, WrittenFacts
<1>3. /\ NextPair \in HandleType /\ n \in DOMAIN heap /\ i \in Nat
      /\ i < Len(heap[n].kv)
  BY <1>1, NextPairThere
<1>4. /\ length = PairCount(heap) /\ length \in Int /\ IInv /\ right = Nil /\ ~emptied
      /\ op # "replace"
  BY <1>1, DRest DEF DInv
<1> HIDE DEF n, i, c
<1>5. heap'[n].height = heap[n].height /\ Len(heap'[n].kv) = Len(heap[n].kv)
      /\ n \in DOMAIN heap' /\ heap'[n].edges = heap[n].edges
  BY <1>2, <1>3 DEF SameSizes
<1>6. PairCount(heap') \in Nat /\ HeapType(heap')
  BY <1>2, PlacesFinite DEF Tree, WellFormed
<1>7. /\ pc' \in {"remove_leaf", "left_leaf"} /\ cur' \in HandleType
      /\ pc' = "remove_leaf" => /\ heap'[cur'.node].height = 0 /\ cur'.node \in DOMAIN heap'
                                /\ cur'.idx < Len(heap'[cur'.node].kv) /\ refill' = FALSE
      /\ pc' = "left_leaf" => /\ cur'.node \in DOMAIN heap' /\ cur'.node # root
                              /\ refill' /\ OffBorder(heap', root, cur'.node)
  <2>1. CASE IsLeaf(heap, n)
    <3>1. pc' = "remove_leaf" /\ cur' = NextPair /\ heap[n].height = 0
      BY <1>1, <2>1 DEF Goto, IsLeaf
    <3>2. refill' = FALSE
      BY <1>1, <2>1, Zenon
    <3> QED BY <1>3, <1>5, <3>1, <3>2 DEF n, i
  <2>2. CASE ~IsLeaf(heap, n)
    <3>1. pc' = "left_leaf" /\ cur' = Handle(c, 0) /\ heap[n].height # 0
      BY <1>1, <2>2 DEF Goto, IsLeaf
    <3>2. refill'
      BY <1>1, <2>2, Zenon
    <3>3. i <= Len(heap[n].kv)
      <4>1. Len(heap[n].kv) \in Nat
        BY <1>3, <1>4, IInvFacts
      <4> QED BY <1>3, <4>1
    <3>4. c \in DOMAIN heap /\ c # root /\ c \in NodeId
      BY <1>3, <1>4, <3>1, <3>3, ChildOf DEF c
    <3>5. c = descend(heap', n, i)
      BY <1>5 DEF c, descend
    <3>6. OffBorder(heap', root, c)
      <4>1. WellFormed(heap', {root, Nil}) /\ root \in {root, Nil}
        BY <1>2 DEF Tree
      <4> QED BY <1>3, <1>5, <3>1, <3>5, <4>1, BorderChild
    <3>7. cur' \in HandleType /\ cur'.node = c
      BY <3>1, <3>4, HandleProps
    <3> QED BY <1>2, <3>1, <3>2, <3>4, <3>6, <3>7 DEF SameSizes
  <2> QED BY <2>1, <2>2
<1>8. Types'
  <2>1. refill' \in BOOLEAN
    BY <1>7, Zenon
  <2>2. length' \in Int
    BY <1>1, <1>4
  <2> QED BY <1>1, <1>4, <1>6, <1>7, <2>1, <2>2 DEF IInv, Types, HandleType
<1>9. Tree(heap, root, right, Fixed, emptied)'
  <2>1. right' = Nil /\ Fixed' = Nil /\ root' = root
    BY <1>1, <1>4, <1>7 DEF Fixed
  <2>2. emptied' = FALSE
    BY <1>1, <1>4, <1>8 DEF Types
  <2> QED BY <1>2, <2>1, <2>2
<1>10. Locals'
  <2>1. ~emptied' /\ right' = Nil /\ op' # "replace" /\ root' = root
    BY <1>1, <1>4
  <2>2. cur'.node \in DOMAIN heap'
    BY <1>7
  <2> QED BY <1>7, <2>1, <2>2 DEF Locals
<1>11. AInv' /\ Tracked'
  <2>1. Replaceable'
    BY <1>1, <1>7 DEF Replaceable
  <2>2. Refilling' /\ Tracked'
    BY <1>7 DEF Refilling, Tracked
  <2> QED BY <1>8, <1>9, <1>10, <2>1, <2>2 DEF AInv, IInv
<1>12. LengthLive'
  <2>1. length' = PairCount(heap') - 1
    BY <1>1, <1>2, <1>4
  <2> QED BY <1>7, <2>1 DEF LengthLive
<1> QED BY <1>1, <1>2, <1>4, <1>7, <1>11, <1>12 DEF DInv, Removing

-----------------------------------------------------------------------------
(* The steps of remove_kv_tracking *)

\* A step of remove_kv_tracking leads to the next one.
LEMMA Moved ==
  ASSUME DInv, Removing, IInv', (Replaceable /\ Refilling)', Tracked', Removing',
         UNCHANGED <<op, emptied, cur_leaf_edge>>, Countable(heap'), LengthLive'
  PROVE  DInv'
<1>1. cur_leaf_edge = None
  BY DEF DInv, Resting, Removing
<1> QED BY <1>1 DEF DInv, AInv

\* The count of a removal's step, from that of the pairs in the nodes.
LEMMA LiveCount ==
  ASSUME DInv, Removing, NEW d \in Int, Counts(d), length' = length,
         d = 0 \/ d = - 1,
         (pc \in {"left_leaf", "remove_leaf"} /\ d = 0) <=> pc' \in {"left_leaf", "remove_leaf"},
         pc \in {"left_leaf", "remove_leaf"} \/ d = 0
  PROVE  Countable(heap') /\ LengthLive'
<1>1. Countable(heap) /\ LengthLive /\ PairCount(heap) \in Nat
  BY PlacesFinite DEF DInv
<1>2. Countable(heap') /\ PairCount(heap') = PairCount(heap) + d
  BY <1>1 DEF Counts, Tally
<1>3. length \in Int
  BY DEF DInv, AInv, IInv, Types
<1>4. length = PairCount(heap) - IF pc \in {"left_leaf", "remove_leaf"} THEN 1 ELSE 0
  BY <1>1 DEF LengthLive
<1>5. length' = PairCount(heap') - IF pc' \in {"left_leaf", "remove_leaf"} THEN 1 ELSE 0
  <2> DEFINE a == pc \in {"left_leaf", "remove_leaf"}
             b == pc' \in {"left_leaf", "remove_leaf"}
             x == PairCount(heap)
             y == PairCount(heap')
  <2>1. length = x - IF a THEN 1 ELSE 0
    BY <1>4
  <2>2. y = x + d /\ x \in Nat /\ length' = length /\ ((a /\ d = 0) <=> b) /\ (a \/ d = 0)
    BY <1>1, <1>2
  <2> HIDE DEF a, b, x, y
  <2>3. length' = y - IF b THEN 1 ELSE 0
    <3>1. CASE a /\ d = 0
      BY <2>1, <2>2, <3>1
    <3>2. CASE a /\ d = - 1
      BY <2>1, <2>2, <3>2
    <3>3. CASE ~a
      BY <2>1, <2>2, <3>3
    <3> QED BY <3>1, <3>2, <3>3
  <2> QED BY <2>3 DEF b, y
<1> QED BY <1>2, <1>5 DEF LengthLive

\* The steps that an entry's removal takes too.
LEMMA StepRemoveKvTracking ==
  ASSUME DInv, RemoveKvTracking
  PROVE  DInv'
<1>1. IInv /\ Replaceable /\ Refilling /\ Tracked
  BY DEF DInv, AInv
<1>2. cur_leaf_edge' = cur_leaf_edge
  BY DEF RemoveKvTracking, filter
<1>3. Remove
  BY DEF RemoveKvTracking, Remove
<1>4. (Replaceable /\ Refilling)' /\ Tracked'
  BY <1>1, <1>3, StepRemove, TrackedStep
<1>5. CASE LeftLeaf
  <2>1. /\ Removing /\ Removing' /\ UNCHANGED <<heap, length, op, emptied>>
        /\ pc = "left_leaf" /\ pc' \in {"left_leaf", "remove_leaf"}
    BY <1>5 DEF LeftLeaf, Goto, map, Removing
  <2>2. Countable(heap') /\ LengthLive'
    BY <2>1 DEF DInv, LengthLive
  <2> QED BY <1>1, <1>2, <1>4, <1>5, <2>1, <2>2, StepLeftLeaf, Moved
<1>6. CASE RemoveLeafDone \/ RemoveLeafMerge \/ RemoveLeafSteal
  <2>1. /\ Removing /\ Removing' /\ UNCHANGED <<length, op, emptied>>
        /\ pc = "remove_leaf" /\ pc' \notin {"left_leaf", "remove_leaf"}
    BY <1>6 DEF RemoveLeafDone, RemoveLeafMerge, RemoveLeafSteal, RemoveLeafUnderfull,
                AfterRemoveLeaf, Goto, Removing
  <2>2. IInv' /\ Counts(- 1)
    BY <1>1, <1>6, StepRemoveLeafDone, StepRemoveLeafMerge, StepRemoveLeafSteal
  <2>3. - 1 \in Int /\ - 1 # 0
    OBVIOUS
  <2>4. Countable(heap') /\ LengthLive'
    BY <2>1, <2>2, <2>3, LiveCount
  <2> QED BY <1>1, <1>2, <1>4, <2>1, <2>2, <2>4, Moved
<1>7. CASE FixDone \/ NextKvAscend
  <2>1. /\ Removing /\ Removing' /\ UNCHANGED <<heap, length, op, emptied>>
        /\ pc \notin {"left_leaf", "remove_leaf"} /\ pc' \notin {"left_leaf", "remove_leaf"}
    BY <1>7 DEF FixDone, NextKvAscend, AfterRemoveLeaf, Goto, map, Removing
  <2>2. Countable(heap') /\ LengthLive'
    BY <2>1 DEF DInv, LengthLive
  <2>3. IInv'
    BY <1>1, <1>7, StepFixDone, StepNextKvAscend
  <2> QED BY <1>1, <1>2, <1>4, <2>1, <2>2, <2>3, Moved
<1>8. CASE FixMerge \/ FixSteal \/ ReplaceKv
  <2>1. /\ Removing /\ Removing' /\ UNCHANGED <<length, op, emptied>>
        /\ pc \notin {"left_leaf", "remove_leaf"} /\ pc' \notin {"left_leaf", "remove_leaf"}
    BY <1>8 DEF FixMerge, FixSteal, ReplaceKv, AfterRemoveLeaf, Goto, Removing
  <2>2. IInv' /\ Counts(0)
    BY <1>1, <1>8, StepFixMerge, StepFixSteal, StepReplaceKv
  <2>3. Countable(heap') /\ LengthLive'
    BY <2>1, <2>2, LiveCount
  <2> QED BY <1>1, <1>2, <1>4, <2>1, <2>2, <2>3, Moved
<1> QED BY <1>5, <1>6, <1>7, <1>8 DEF RemoveKvTracking

\* The callback of remove_kv_tracking pops a root that has been emptied: the
\* tracked edge, and what next_kv will find from it, are below the root.
LEMMA StepDrainEmptyRoot ==
  ASSUME DInv, DrainEmptyRoot
  PROVE  DInv'
<1> DEFINE g == pop_internal_level(heap, root)
           c == descend(heap, root, 0)
<1>1. /\ pc = "fix" /\ AfterRemoveLeaf(pos) /\ heap[cur.node].parent = Nil
      /\ Len(heap[cur.node].kv) = 0 /\ heap' = g /\ root' = c
      /\ UNCHANGED <<length, op, key, hand, right, refill, emptied, ret, cur_leaf_edge>>
  BY DEF DrainEmptyRoot, Parent, len, filter
<1>2. /\ IInv /\ Replaceable /\ Tracked /\ Countable(heap) /\ LengthLive /\ Removing
  BY <1>1 DEF DInv, AInv, Removing
<1>3. /\ right = Nil /\ ~emptied /\ Tree(heap, root, Nil, cur.node, FALSE)
      /\ cur.node \in DOMAIN heap
      /\ heap[cur.node].height # 0 /\ cur.node = root
      /\ pos.node \in DOMAIN heap /\ heap[pos.node].height = 0 /\ pos \in HandleType
      /\ refill => hand # None
  BY <1>1, <1>2, FixFacts
<1>4. Lens(heap, root, Nil, TRUE)
  <2>1. Lens(heap, root, cur.node, FALSE)
    BY <1>3 DEF Tree
  <2>2. Nil \notin DOMAIN heap
    BY <1>2, IInvFacts
  <2> SUFFICES ASSUME NEW m \in DOMAIN heap
               PROVE  /\ Len(heap[m].kv) <= CAPACITY
                      /\ m # root => Len(heap[m].kv) >= MIN_LEN
                      /\ heap[m].height = 0 \/ m = root \/ Len(heap[m].kv) >= 1
    BY <2>2 DEF Lens
  <2> QED BY <1>3, <2>1 DEF Lens
<1>5. Tree(heap, root, Nil, Nil, TRUE) /\ root \in DOMAIN heap /\ heap[root].height # 0
      /\ Len(heap[root].kv) = 0
  BY <1>1, <1>3, <1>4 DEF Tree
<1>6. Tree(g, c, Nil, Nil, FALSE) /\ Tally(g, heap, 0)
  BY <1>2, <1>5, TreePop
<1>7. /\ DOMAIN g = DOMAIN heap \ {root}
      /\ \A m \in DOMAIN heap \ {root} : g[m].kv = heap[m].kv /\ g[m].height = heap[m].height
  BY <1>5, PopKeeps, ZenonT(30)
<1>8. refill => HasNext(g, c, pos)
  <2> SUFFICES ASSUME refill
               PROVE  HasNext(g, c, pos)
    OBVIOUS
  <2>1. HasNext(heap, root, pos)
    BY <1>1, <1>2 DEF Replaceable
  <2>2. CASE pos.idx < Len(heap[pos.node].kv)
    BY <1>3, <1>7, <1>5, <2>2 DEF HasNext
  <2>3. CASE OffBorder(heap, root, pos.node)
    BY <1>5, <2>3, BorderPopped DEF HasNext
  <2> QED BY <2>1, <2>2, <2>3 DEF HasNext
<1> HIDE DEF g, c
<1>9. /\ pos.node \in DOMAIN heap' /\ heap'[pos.node].height = 0
      /\ heap'[pos.node].kv = heap[pos.node].kv
  BY <1>1, <1>3, <1>5, <1>7
<1>10. Tracked'
  BY <1>1, <1>2, <1>9, TrackedAfter
<1>11. /\ cur' = pos /\ pos' = pos
       /\ refill => pc' = "next_kv"
       /\ ~refill => pc' = "finish"
  BY <1>1 DEF AfterRemoveLeaf, Goto
<1>12. pc' \in {"next_kv", "finish"}
  BY <1>11
<1>13. (Replaceable /\ Refilling)'
  BY <1>1, <1>8, <1>11 DEF Replaceable, Refilling
<1>14. Types'
  <2>1. HeapType(heap') /\ root' \in NodeId \cup {Nil}
    BY <1>1, <1>6 DEF Tree, WellFormed, HeapType
  <2> QED BY <1>1, <1>2, <1>3, <1>11, <2>1 DEF IInv, Types, HandleType
<1>15. Tree(heap, root, right, Fixed, emptied)'
  <2>1. right' = Nil /\ Fixed' = Nil
    BY <1>1, <1>3, <1>12 DEF Fixed
  <2>2. emptied' = FALSE
    BY <1>1, <1>3, <1>14 DEF Types
  <2> QED BY <1>1, <1>6, <2>1, <2>2
<1>16. Locals'
  <2>1. ~emptied' /\ right' = Nil /\ op' # "replace"
    BY <1>1, <1>3 DEF DInv
  <2>2. cur'.node \in DOMAIN heap' /\ (pc' = "next_kv" => hand' # None)
    BY <1>1, <1>3, <1>9, <1>11
  <2> QED BY <1>12, <2>1, <2>2 DEF Locals
<1>17. Countable(heap') /\ LengthLive'
  <2>1. Counts(0)
    BY <1>1, <1>6 DEF Counts
  <2> QED BY <1>1, <1>2, <1>12, <2>1, LiveCount
<1>18. IInv' /\ Removing'
  BY <1>12, <1>14, <1>15, <1>16 DEF IInv, Removing
<1> QED BY <1>1, <1>2, <1>10, <1>13, <1>17, <1>18, Moved

\* The removal is over, and the walk goes on from the tracked edge.
LEMMA StepDrainRemoved ==
  ASSUME DInv, DrainRemoved
  PROVE  DInv'
<1>1. /\ pc = "finish" /\ pc' \in {"drain", "drop_pair"}
      /\ cur_leaf_edge' = Some(IF refill THEN next_leaf_edge(heap, cur) ELSE pos)
      /\ UNCHANGED <<heap, root, length, op, ret>>
      /\ key' = None /\ cur' = NoHandle /\ pos' = NoHandle /\ hand' = None /\ right' = Nil
      /\ refill' = FALSE /\ emptied' = FALSE
  BY DEF DrainRemoved, ClearLocals, map
<1>2. IInv /\ Tracked /\ Countable(heap) /\ LengthLive /\ op # "replace" /\ ~emptied
  BY DEF DInv, AInv
<1>3. Tree(heap, root, Nil, Nil, FALSE)
  <2>1. Tree(heap, root, right, Fixed, emptied) /\ emptied = FALSE /\ right = Nil
    BY <1>1, <1>2 DEF IInv, Types, Locals
  <2>2. Fixed = Nil
    BY <1>1 DEF Fixed
  <2> QED BY <2>1, <2>2
<1>4. AtLeafEdge'
  <2>1. WellFormed(heap, {root, Nil})
    BY <1>3 DEF Tree
  <2>2. LeafEdge(heap, IF refill THEN next_leaf_edge(heap, cur) ELSE pos)
    BY <1>1, <1>2, <2>1, NextLeafEdge DEF Tracked
  <2> QED BY <1>1, <2>2 DEF AtLeafEdge, Some
<1>5. Types'
  <2>1. refill' \in BOOLEAN /\ emptied' \in BOOLEAN
    BY <1>1, Zenon
  <2> QED BY <1>1, <1>2, <2>1, NoHandleProps, NoneOption DEF IInv, Types, HandleType
<1>6. Tree(heap, root, right, Fixed, emptied)'
  BY <1>1, <1>3 DEF Fixed
<1>7. Locals'
  BY <1>1, <1>2 DEF Locals
<1>8. AInv' /\ Tracked'
  BY <1>1, <1>5, <1>6, <1>7 DEF AInv, IInv, Replaceable, Refilling, Tracked
<1>9. LengthLive'
  BY <1>1, <1>2 DEF LengthLive
<1> QED BY <1>1, <1>2, <1>4, <1>8, <1>9 DEF DInv, Resting

-----------------------------------------------------------------------------
(* The theorems *)

\* DInv is inductive.
LEMMA DInvNext == DInv /\ [DrainNext]_dvars => DInv'
<1> SUFFICES ASSUME DInv, [DrainNext]_dvars
             PROVE  DInv'
  OBVIOUS
<1>1. CASE CallNext \/ CallDrop \/ DropPair
  BY <1>1, StepCallNextOrDrop
<1>2. CASE Forget \/ DropPairPanics \/ DrainEnd
  BY <1>2, StepWalkOver
<1>3. ASSUME NEW v \in Val, DrainKeep(v)
      PROVE  DInv'
  BY <1>3, StepDrainKeep
<1>4. ASSUME NEW v \in Val, DrainRemove(v)
      PROVE  DInv'
  BY <1>4, StepDrainRemove
<1>5. CASE RemoveKvTracking
  BY <1>5, StepRemoveKvTracking
<1>6. CASE DrainEmptyRoot
  BY <1>6, StepDrainEmptyRoot
<1>7. CASE DrainRemoved
  BY <1>7, StepDrainRemoved
<1>8. ASSUME NEW v \in Val, PredPanics(v)
      PROVE  DInv'
  BY <1>8, StepPredPanics
<1>9. CASE UNCHANGED dvars
  BY <1>9 DEF dvars, vars, DInv, AInv, IInv, Types, Tree, Fixed, Locals, Replaceable, Refilling,
              Tracked, LengthLive, Resting, Removing, AtLeafEdge
<1> QED BY <1>1, <1>2, <1>3, <1>4, <1>5, <1>6, <1>7, <1>8, <1>9 DEF DrainNext, DrainStep

\* DInv holds in every state of a walk.
THEOREM DrainInvariance == DrainSpec => []DInv
<1> QED BY DInvInit, DInvNext, PTL DEF DrainSpec

\* drain_filter keeps the tree legal at every step and meets every assertion of
\* the removals, with the root popped in the middle of one.
THEOREM DrainStaysLegal == DrainSpec => []DrainKeepsShape
<1>1. DInv => DrainKeepsShape
  BY ShapeFollows, AssertsFollow DEF DInv, AInv, DrainKeepsShape
<1> QED BY <1>1, DrainInvariance, PTL

\* DrainFilterInner::length is the map's, updated live: it is right wherever the
\* walk is leaked or a panic ends it.
THEOREM LengthStaysLive == DrainSpec => []LengthLive
<1>1. DInv => LengthLive
  BY DEF DInv
<1> QED BY <1>1, DrainInvariance, PTL

\* Whenever the walk rests, the map is a legal one.
LEMMA RestLegal ==
  ASSUME DInv, Resting
  PROVE  LegalMap([heap |-> heap, root |-> root, length |-> length])
<1> DEFINE m == [heap |-> heap, root |-> root, length |-> length]
<1>1. /\ Tree(heap, root, Nil, Nil, FALSE) /\ Countable(heap) /\ length = PairCount(heap)
  BY DRest
<1>2. m.heap = heap /\ m.root = root /\ m.length = length
  OBVIOUS
<1> HIDE DEF m
<1>3. LegalMap(m)
  BY <1>1, <1>2, TreeLegal
<1> QED BY <1>3 DEF m

\* Whatever ends the removal, the end, a panic of the predicate or a leak, it leaves a
\* legal map that counts its pairs, from which every other operation may go on.
THEOREM DrainLeavesLegalMap ==
  DrainSpec => [](Resting => LegalMap([heap |-> heap, root |-> root, length |-> length]))
<1>1. DInv => (Resting => LegalMap([heap |-> heap, root |-> root, length |-> length]))
  BY RestLegal
<1> QED BY <1>1, DrainInvariance, PTL

-----------------------------------------------------------------------------
(* Cursors *)

\* The ghost, or a pair in a node of the tree.
KvOf(h, kv) == kv = NoHandle \/ PairIn(h, kv)

\* The handle insert_recursing has kept while a split climbs.
KeptHandle == inserted \in HandleType /\ LeafPair(heap, inserted.node, inserted.idx)

KInv ==
  /\ AInv /\ Tracked
  /\ Countable(heap) /\ LengthExact
  /\ KvOf(heap, current)
  /\ pc \notin {"idle", "seek"} => current = NoHandle
  /\ pc = "seek" => cur.node \in DOMAIN heap /\ bound \in SearchBound
  /\ pc = "insert_up" => KeptHandle

-----------------------------------------------------------------------------
(* Looking around *)

\* The pairs beside an edge of a tree, also of one whose root is to be popped.
LEMMA KvsBeside ==
  ASSUME NEW h, NEW rt, NEW em, Tree(h, rt, Nil, Nil, em), Countable(h), NEW e, EdgeOf(h, e)
  PROVE  KvOf(h, next_kv(h, e)) /\ KvOf(h, next_back_kv(h, e))
<1>1. WellFormed(h, {rt, Nil}) /\ HeapType(h) /\ Lens(h, rt, Nil, em)
  BY DEF Tree, WellFormed
<1>2. Bounded(h)
  BY <1>1, FiniteBounded DEF Countable
<1>3. Roomy(h)
  BY <1>1 DEF Lens, Roomy
<1> QED BY <1>1, <1>2, <1>3, NextKv, NextBackKv DEF KvOf

\* An edge of a leaf is an edge.
LEMMA LeafEdgeOf ==
  ASSUME NEW h, NEW e, LeafEdge(h, e)
  PROVE  EdgeOf(h, e)
BY DEF LeafEdge, EdgeOf

\* Between two calls, and while a bound is looked for.
LEMMA AtLeisure ==
  ASSUME KInv, pc \in {"idle", "seek"}
  PROVE  /\ Tree(heap, root, Nil, Nil, FALSE) /\ right = Nil /\ ~emptied /\ refill = FALSE
         /\ length = PairCount(heap) /\ length \in Int /\ Countable(heap) /\ IInv
         /\ WellFormed(heap, {root, Nil}) /\ root \in DOMAIN heap \cup {Nil}
<1>1. IInv /\ Countable(heap) /\ LengthExact /\ Replaceable
  BY DEF KInv, AInv
<1>2. pc \notin {"insert_up", "fix", "next_kv", "finish", "left_leaf", "remove_leaf"}
  OBVIOUS
<1>3. refill = FALSE
  BY <1>1, <1>2 DEF Replaceable, IInv, Types
<1>4. Tree(heap, root, Nil, Nil, FALSE) /\ right = Nil /\ ~emptied
  BY <1>1, <1>2, Quiet
<1>5. length = PairCount(heap)
  BY <1>1, <1>2, PlacesFinite DEF LengthExact
<1>6. length \in Int
  BY <1>1 DEF IInv, Types
<1> QED BY <1>1, <1>3, <1>4, <1>5, <1>6 DEF Tree

\* A step from one such state to another.
LEMMA StaysAtLeisure ==
  ASSUME pc' \in {"idle", "seek"}, Tree(heap', root', Nil, Nil, FALSE), Countable(heap'),
         length' = PairCount(heap'), right' = Nil, refill' = FALSE, emptied' = FALSE,
         key' \in Option(Key), cur' \in HandleType, pos' \in HandleType,
         hand' \in Option(KV), ret' \in Option(KV), op' = "replace" => key' # None,
         KvOf(heap', current'),
         pc' = "seek" => cur'.node \in DOMAIN heap' /\ bound' \in SearchBound
  PROVE  KInv'
<1>1. HeapType(heap') /\ root' \in NodeId \cup {Nil}
  BY DEF Tree, WellFormed, HeapType
<1>2. PairCount(heap') \in Nat
  BY PlacesFinite
<1>3. Types'
  <2>1. refill' \in BOOLEAN /\ emptied' \in BOOLEAN
    BY Zenon
  <2> QED BY <1>1, <1>2, <2>1 DEF Types, HandleType
<1>4. Tree(heap, root, right, Fixed, emptied)'
  <2>1. Fixed' = Nil
    BY DEF Fixed
  <2> QED BY <2>1
<1>5. Locals'
  BY DEF Locals
<1>6. AInv' /\ Tracked'
  BY <1>3, <1>4, <1>5 DEF AInv, IInv, Replaceable, Refilling, Tracked
<1>7. LengthExact'
  BY <1>2 DEF LengthExact
<1> QED BY <1>6, <1>7 DEF KInv

\* A legal map between two calls.
LEMMA KInvInit == CursorInit => KInv
<1> SUFFICES ASSUME CursorInit
             PROVE  KInv
  OBVIOUS
<1>1. PICK m \in Maps : AtRest(m)
  BY DEF CursorInit
<1>2. /\ Tree(heap, root, Nil, Nil, FALSE) /\ Countable(heap)
      /\ length = PairCount(heap) /\ length \in Int
  BY <1>1, MapsAssumption, LegalTree DEF AtRest
<1>3. /\ pc = "idle" /\ op = "none" /\ key = None /\ cur = NoHandle /\ pos = NoHandle
      /\ hand = None /\ right = Nil /\ refill = FALSE /\ emptied = FALSE /\ ret = None
  BY <1>1 DEF AtRest
<1>4. HeapType(heap) /\ root \in NodeId \cup {Nil}
  BY <1>2 DEF Tree, WellFormed, HeapType
<1>5. Types
  <2>1. refill \in BOOLEAN /\ emptied \in BOOLEAN
    BY <1>3, Zenon
  <2> QED BY <1>2, <1>3, <1>4, <2>1, NoHandleProps, NoneOption DEF Types, HandleType
<1>6. Tree(heap, root, right, Fixed, emptied)
  BY <1>2, <1>3 DEF Fixed
<1>7. Locals
  BY <1>3 DEF Locals
<1>8. AInv /\ Tracked
  BY <1>3, <1>5, <1>6, <1>7 DEF AInv, IInv, Replaceable, Refilling, Tracked
<1>9. LengthExact
  BY <1>2, <1>3, PlacesFinite DEF LengthExact
<1>10. current = NoHandle
  BY DEF CursorInit
<1> QED BY <1>2, <1>3, <1>8, <1>9, <1>10 DEF KInv, KvOf

-----------------------------------------------------------------------------
(* lower_bound and upper_bound *)

\* The index that a bound is found at is one of an edge.
LEMMA BoundIndex ==
  ASSUME NEW kvs \in Seq(KV), NEW q, NEW b \in SearchBound, NEW e,
         e \in find_lower_bound_index(kvs, q, b) \/ e \in find_upper_bound_index(kvs, q, b, 0)
  PROVE  e[1] \in 0 .. Len(kvs) /\ e[2] \in SearchBound
<1>1. Len(kvs) \in Nat
  OBVIOUS
<1>2. Len(SubSeq(kvs, 0 + 1, Len(kvs))) = Len(kvs)
  BY <1>1
<1>3. \A s, i : i \in KVResults(s, q) => i \in 0 .. Len(s) - 1
  BY DEF KVResults
<1>4. \A s, i : i \in EdgeResults(s, q) => i \in 0 .. Len(s)
  BY DEF EdgeResults
<1>5. b \in {"Included", "Excluded", "AllIncluded", "AllExcluded"}
  BY DEF SearchBound
<1>6. CASE e \in find_lower_bound_index(kvs, q, b)
  <2>1. CASE b = "AllIncluded" \/ b = "AllExcluded"
    BY <1>1, <1>6, <2>1 DEF find_lower_bound_index, SearchBound
  <2>2. CASE b = "Included"
    BY <1>1, <1>3, <1>4, <1>6, <2>2 DEF find_lower_bound_index, SearchBound
  <2>3. CASE b = "Excluded"
    BY <1>1, <1>3, <1>4, <1>6, <2>3 DEF find_lower_bound_index, SearchBound
  <2> QED BY <1>5, <2>1, <2>2, <2>3
<1>7. CASE e \in find_upper_bound_index(kvs, q, b, 0)
  <2> DEFINE from == SubSeq(kvs, 0 + 1, Len(kvs))
             found == {0 + i : i \in KVResults(from, q)}
             edges == {<<0 + i, b>> : i \in EdgeResults(from, q)}
  <2>a. Len(from) = Len(kvs)
    BY <1>2
  <2> HIDE DEF from
  <2>1. found \subseteq 0 .. Len(kvs) - 1
    <3> SUFFICES ASSUME NEW i \in KVResults(from, q)
                 PROVE  0 + i \in 0 .. Len(kvs) - 1
      OBVIOUS
    <3>1. i \in 0 .. Len(kvs) - 1
      BY <1>3, <2>a
    <3> QED BY <1>1, <3>1
  <2>2. \A x \in edges : x[1] \in 0 .. Len(kvs) /\ x[2] = b
    <3> SUFFICES ASSUME NEW i \in EdgeResults(from, q)
                 PROVE  0 + i \in 0 .. Len(kvs)
      OBVIOUS
    <3>1. i \in 0 .. Len(kvs)
      BY <1>4, <2>a
    <3> QED BY <1>1, <3>1
  <2>3. e \in CASE b = "AllIncluded" -> {<<Len(kvs), b>>}
                [] b = "AllExcluded" -> {<<0, b>>}
                [] b = "Included" -> {<<i + 1, "AllExcluded">> : i \in found} \cup edges
                [] b = "Excluded" -> {<<i, "AllIncluded">> : i \in found} \cup edges
    BY <1>7 DEF find_upper_bound_index, from
  <2> HIDE DEF found, edges
  <2>4. CASE b = "AllIncluded" \/ b = "AllExcluded"
    BY <1>1, <2>3, <2>4 DEF SearchBound
  <2>5. CASE b = "Included"
    BY <1>1, <2>1, <2>2, <2>3, <2>5 DEF SearchBound
  <2>6. CASE b = "Excluded"
    BY <1>1, <2>1, <2>2, <2>3, <2>6 DEF SearchBound
  <2> QED BY <1>5, <2>4, <2>5, <2>6
<1> QED BY <1>6, <1>7

\* What a step of a search leaves alone.
LEMMA SeekFrame ==
  ASSUME KInv, pc = "seek"
  PROVE  /\ cur.node \in DOMAIN heap /\ heap[cur.node].kv \in Seq(KV) /\ bound \in SearchBound
         /\ key \in Option(Key) /\ pos \in HandleType /\ hand \in Option(KV)
         /\ ret \in Option(KV)
         /\ op = "replace" => key # None
BY IInvFacts DEF KInv, AInv, IInv, Types, Locals

\* A search begins, at the root or, without one, at the ghost.
LEMMA StepSeekBegin ==
  ASSUME KInv, NEW o \in {"lower_bound", "upper_bound"}, NEW b \in SearchBound,
         NEW k \in Asked(b), SeekBegin(o, k, b)
  PROVE  KInv'
<1>1. /\ pc = "idle" /\ root # Nil /\ op' = o /\ ret' = None /\ pc' = "seek"
      /\ cur' = Handle(root, 0) /\ key' = k /\ bound' = b
      /\ UNCHANGED <<heap, root, length, pos, hand, right, refill, emptied, current>>
  BY DEF SeekBegin, Begin, Goto, map
<1>2. /\ Tree(heap, root, Nil, Nil, FALSE) /\ right = Nil /\ ~emptied /\ refill = FALSE
      /\ length = PairCount(heap) /\ Countable(heap) /\ IInv /\ root \in DOMAIN heap \cup {Nil}
  BY <1>1, AtLeisure
<1>3. pos \in HandleType /\ hand \in Option(KV) /\ emptied = FALSE
  BY <1>2 DEF IInv, Types, HandleType
<1>4. k \in Option(Key)
  BY QueryAssumption, NoneOption, SomeOption DEF Asked
<1>5. root \in NodeId \cup {Nil} /\ root \in DOMAIN heap
  BY <1>1, <1>2 DEF IInv, Types
<1>6. cur' \in HandleType /\ cur'.node = root
  BY <1>1, <1>5, HandleProps
<1>7. KvOf(heap', current')
  BY <1>1 DEF KInv
<1> QED BY <1>1, <1>2, <1>3, <1>4, <1>5, <1>6, <1>7, StaysAtLeisure, NoneOption

\* The search ends in a cursor, or in a panic.
LEMMA StepSeekEnds ==
  ASSUME KInv, SeekNoRoot \/ SeekLeaf \/ SeekPanics
  PROVE  KInv'
<1>1. pc \in {"idle", "seek"} /\ Return(None) /\ UNCHANGED map
  BY DEF SeekNoRoot, SeekLeaf, SeekPanics
<1>2. Tree(heap, root, Nil, Nil, FALSE) /\ length = PairCount(heap) /\ Countable(heap)
  BY <1>1, AtLeisure
<1>3. KvOf(heap, current')
  <2>1. CASE SeekNoRoot \/ SeekPanics
    BY <2>1 DEF SeekNoRoot, SeekPanics, KvOf
  <2>2. CASE SeekLeaf
    <3>1. cur.node \in DOMAIN heap /\ heap[cur.node].kv \in Seq(KV) /\ bound \in SearchBound
      BY <2>2, SeekFrame DEF SeekLeaf
    <3>2. PICK e : /\ \/ e \in find_lower_bound_index(heap[cur.node].kv, key[1], bound)
                      \/ e \in find_upper_bound_index(heap[cur.node].kv, key[1], bound, 0)
                   /\ \/ current' = next_kv(heap, Handle(cur.node, e[1]))
                      \/ current' = next_back_kv(heap, Handle(cur.node, e[1]))
      BY <2>2 DEF SeekLeaf
    <3>3. e[1] \in 0 .. Len(heap[cur.node].kv)
      BY <3>1, <3>2, BoundIndex
    <3>4. EdgeOf(heap, Handle(cur.node, e[1]))
      BY <3>1, <3>3 DEF EdgeOf, Handle
    <3> QED BY <1>2, <3>2, <3>4, KvsBeside
  <2> QED BY <2>1, <2>2
<1>4. /\ pc' = "idle" /\ op' = "none" /\ key' = None /\ cur' = NoHandle /\ pos' = NoHandle
      /\ hand' = None /\ right' = Nil /\ refill' = FALSE /\ emptied' = FALSE /\ ret' = None
      /\ UNCHANGED <<heap, root, length>>
  BY <1>1 DEF Return, map
<1> QED BY <1>2, <1>3, <1>4, StaysAtLeisure, NoneOption, NoHandleProps

\* One level of the search.
LEMMA StepSeekDescend ==
  ASSUME KInv, SeekDescend
  PROVE  KInv'
<1>1. PICK e : /\ \/ e \in find_lower_bound_index(heap[cur.node].kv, key[1], bound)
                  \/ e \in find_upper_bound_index(heap[cur.node].kv, key[1], bound, 0)
               /\ cur' = Handle(descend(heap, cur.node, e[1]), 0) /\ bound' = e[2]
  BY DEF SeekDescend, Goto
<1>2. /\ pc = "seek" /\ pc' = "seek" /\ heap[cur.node].height # 0
      /\ UNCHANGED <<heap, root, length, op, key, pos, hand, right, refill, emptied, ret, current>>
  BY DEF SeekDescend, Goto, IsLeaf, map
<1>3. /\ cur.node \in DOMAIN heap /\ heap[cur.node].kv \in Seq(KV) /\ bound \in SearchBound
      /\ key \in Option(Key) /\ pos \in HandleType /\ hand \in Option(KV)
      /\ ret \in Option(KV)
      /\ op = "replace" => key # None
  BY <1>2, SeekFrame
<1>4. /\ Tree(heap, root, Nil, Nil, FALSE) /\ right = Nil /\ ~emptied /\ refill = FALSE
      /\ length = PairCount(heap) /\ Countable(heap) /\ IInv
  BY <1>2, AtLeisure
<1>5. e[1] \in 0 .. Len(heap[cur.node].kv) /\ e[2] \in SearchBound
  BY <1>1, <1>3, BoundIndex
<1>6. Len(heap[cur.node].kv) \in Nat
  BY <1>3, <1>4, IInvFacts
<1>7. descend(heap, cur.node, e[1]) \in DOMAIN heap /\ descend(heap, cur.node, e[1]) \in NodeId
  BY <1>2, <1>3, <1>4, <1>5, <1>6, ChildOf
<1>8. cur' \in HandleType /\ cur'.node \in DOMAIN heap'
  BY <1>1, <1>2, <1>7, HandleProps
<1>9. emptied = FALSE /\ KvOf(heap', current')
  BY <1>2, <1>4 DEF KInv, IInv, Types
<1> QED BY <1>1, <1>2, <1>3, <1>4, <1>5, <1>8, <1>9, StaysAtLeisure

-----------------------------------------------------------------------------
(* Moving, peeking and writing *)

\* The neighbours in the circle are the ghost or pairs of the tree.
LEMMA Neighbours ==
  ASSUME KInv, pc = "idle"
  PROVE  KvOf(heap, NextOfCurrent) /\ KvOf(heap, PrevOfCurrent) /\ KvOf(heap, peek_prev_mut)
<1>1. /\ Tree(heap, root, Nil, Nil, FALSE) /\ Countable(heap) /\ WellFormed(heap, {root, Nil})
      /\ root \in DOMAIN heap \cup {Nil} /\ KvOf(heap, current)
  BY AtLeisure DEF KInv
<1>2. KvOf(heap, NoHandle)
  BY DEF KvOf
<1>3. KvOf(heap, FirstPair) /\ KvOf(heap, LastPair)
  <2>1. CASE root = Nil
    BY <1>2, <2>1 DEF FirstPair, LastPair
  <2>2. CASE root # Nil
    <3>1. /\ EdgeOf(heap, first_leaf_edge(heap, root))
          /\ EdgeOf(heap, last_leaf_edge(heap, root))
      BY <1>1, <2>2, FirstLeaf, LastLeaf, LeafEdgeOf
    <3> QED BY <1>1, <2>2, <3>1, KvsBeside DEF FirstPair, LastPair
  <2> QED BY <2>1, <2>2
<1>4. CASE current = NoHandle
  BY <1>3, <1>4 DEF NextOfCurrent, PrevOfCurrent, peek_prev_mut
<1>5. CASE current # NoHandle
  <2>1. PairIn(heap, current)
    BY <1>1, <1>5 DEF KvOf
  <2>2. /\ EdgeOf(heap, next_leaf_edge(heap, current))
        /\ EdgeOf(heap, next_back_leaf_edge(heap, current))
    BY <1>1, <2>1, NextLeafEdge, LeafEdgeOf
  <2> QED BY <1>1, <1>5, <2>2, KvsBeside DEF NextOfCurrent, PrevOfCurrent, peek_prev_mut
<1> QED BY <1>4, <1>5

\* What a move or a write leaves alone.
LEMMA IdleFrame ==
  ASSUME KInv, pc = "idle",
         UNCHANGED <<pc, op, key, cur, pos, hand, right, refill, emptied>>
  PROVE  /\ pc' = "idle" /\ right' = Nil /\ refill' = FALSE /\ emptied' = FALSE
         /\ key' \in Option(Key) /\ cur' \in HandleType /\ pos' \in HandleType
         /\ hand' \in Option(KV)
         /\ op' = "replace" => key' # None
BY AtLeisure DEF KInv, AInv, IInv, Types, Locals, HandleType

\* move_next and move_prev.
LEMMA StepMove ==
  ASSUME KInv, move_next \/ move_prev
  PROVE  KInv'
<1>1. /\ pc = "idle" /\ ret' = None
      /\ UNCHANGED <<heap, root, length, pc, op, key, cur, pos, hand, right, refill, emptied>>
      /\ current' = NextOfCurrent \/ current' = PrevOfCurrent
  BY DEF move_next, move_prev, MoveTo, map
<1>2. KvOf(heap', current')
  BY <1>1, Neighbours
<1>3. Tree(heap, root, Nil, Nil, FALSE) /\ length = PairCount(heap) /\ Countable(heap)
  BY <1>1, AtLeisure
<1> QED BY <1>1, <1>2, <1>3, IdleFrame, StaysAtLeisure, NoneOption

\* The client writes to a value.
LEMMA StepWriteValue ==
  ASSUME KInv, NEW kv \in {current, peek_next, peek_prev_mut}, NEW v \in Val, WriteValue(kv, v)
  PROVE  KInv'
<1> DEFINE n == kv.node
           i == kv.idx
           new == <<heap[n].kv[i + 1][1], v>>
<1>1. /\ pc = "idle" /\ ret' = None /\ kv # NoHandle
      /\ UNCHANGED <<root, length, pc, op, key, cur, pos, hand, right, refill, emptied, current>>
      /\ heap' = [heap EXCEPT ![n] = replace_kv(heap[n], i, new)]
  BY DEF WriteValue, PairAt, cursor
<1>2. /\ Tree(heap, root, Nil, Nil, FALSE) /\ length = PairCount(heap) /\ Countable(heap)
      /\ IInv /\ KvOf(heap, current)
  BY <1>1, AtLeisure DEF KInv
<1>3. PairIn(heap, kv)
  BY <1>1, <1>2, Neighbours DEF KvOf, peek_next
<1>4. n \in DOMAIN heap /\ i \in Nat /\ i < Len(heap[n].kv)
  BY <1>3 DEF PairIn
<1>5. new \in KV
  <2>1. heap[n].kv[i + 1] \in KV
    BY <1>2, <1>4, PairOf
  <2> QED BY <2>1 DEF KV
<1> HIDE DEF n, i, new
<1>6. Tree(heap', root, Nil, Nil, FALSE) /\ SameSizes(heap', heap)
  <2>1. /\ Tree([heap EXCEPT ![n] = replace_kv(heap[n], i, new)], root, Nil, Nil, FALSE)
        /\ SameSizes([heap EXCEPT ![n] = replace_kv(heap[n], i, new)], heap)
    BY ONLY <1>2, <1>4, <1>5, TreeReplaceKv
  <2> QED BY <1>1, <2>1
<1>7. Tally(heap', heap, 0) /\ PairCount(heap) \in Nat
  BY <1>2, <1>6, TallySame, PlacesFinite DEF SameSizes
<1>8. Countable(heap') /\ length' = PairCount(heap')
  BY <1>1, <1>2, <1>7 DEF Tally
<1>9. KvOf(heap', current')
  BY <1>1, <1>2, <1>6 DEF KvOf, PairIn, SameSizes
<1> QED BY <1>1, <1>6, <1>8, <1>9, IdleFrame, StaysAtLeisure, NoneOption

-----------------------------------------------------------------------------
(* Inserting *)

\* The step of BTreeMap within a step of an edit.
LEMMA EditStep ==
  ASSUME KInv, Insert \/ Remove
  PROVE  /\ AInv' /\ Countable(heap') /\ LengthExact'
         /\ pc' \notin {"fix", "finish"} => Tracked'
<1>1. [Next]_vars /\ AInv /\ CInv
  BY DEF Next, KInv, CInv, AInv
<1>2. AInv'
  BY <1>1, AInvNext
<1>3. CInv'
  BY <1>1, LengthNext
<1> QED BY <1>2, <1>3 DEF CInv, Tracked

\* The edge for the new pair is beside the cursor's.
LEMMA StepInsertBegin ==
  ASSUME KInv, NEW o \in Inserts, NEW k \in Query, InsertBegin(o, k)
  PROVE  KInv'
<1>1. /\ pc = "idle" /\ op' = o /\ ret' = None /\ pc' = "vacant" /\ cur' = InsertEdge(o)
      /\ key' = Some(k) /\ current' = NoHandle
      /\ UNCHANGED <<heap, root, length, pos, hand, right, refill, emptied>>
  BY DEF InsertBegin, Begin, Goto, map
<1>2. /\ Tree(heap, root, Nil, Nil, FALSE) /\ right = Nil /\ ~emptied /\ refill = FALSE
      /\ length = PairCount(heap) /\ length \in Int /\ Countable(heap) /\ IInv
      /\ WellFormed(heap, {root, Nil}) /\ root \in DOMAIN heap \cup {Nil}
  BY <1>1, AtLeisure
<1>3. /\ pos \in HandleType /\ hand \in Option(KV) /\ emptied = FALSE
      /\ HeapType(heap) /\ root \in NodeId \cup {Nil}
  BY <1>2 DEF IInv, Types, HandleType
<1>4. Some(k) \in Option(Key) /\ Some(k) # None
  BY QueryAssumption, SomeOption
<1>5. IF root = Nil THEN cur' = NoHandle ELSE LeafEdge(heap, cur')
  <2>1. CASE root = Nil
    BY <1>1, <2>1 DEF InsertEdge
  <2>2. CASE root # Nil /\ current = NoHandle
    <3>1. LeafEdge(heap, first_leaf_edge(heap, root)) /\ LeafEdge(heap, last_leaf_edge(heap, root))
      BY <1>2, <2>2, FirstLeaf, LastLeaf
    <3> QED BY <1>1, <2>2, <3>1 DEF InsertEdge
  <2>3. CASE root # Nil /\ current # NoHandle
    <3>1. PairIn(heap, current)
      BY <2>3 DEF KInv, KvOf
    <3>2. /\ LeafEdge(heap, next_leaf_edge(heap, current))
          /\ LeafEdge(heap, next_back_leaf_edge(heap, current))
      BY <1>2, <3>1, NextLeafEdge
    <3> QED BY <1>1, <2>3, <3>2 DEF InsertEdge
  <2> QED BY <2>1, <2>2, <2>3
<1>6. /\ cur' \in HandleType
      /\ cur' # NoHandle => /\ cur'.node \in DOMAIN heap /\ heap[cur'.node].height = 0
                            /\ cur'.idx <= Len(heap[cur'.node].kv)
      /\ cur' = NoHandle => root = Nil
  <2>1. CASE root = Nil
    BY <1>5, <2>1, NoHandleProps
  <2>2. CASE root # Nil
    <3>1. LeafEdge(heap, cur') /\ Nil \notin DOMAIN heap /\ DOMAIN heap \subseteq NodeId
      BY <1>2, <1>5, <2>2, IInvFacts
    <3>2. cur' # NoHandle
      BY <3>1, NoHandleProps DEF LeafEdge
    <3> QED BY <3>1, <3>2 DEF LeafEdge, HandleType
  <2> QED BY <2>1, <2>2
<1>7. Types'
  <2>1. refill' \in BOOLEAN /\ emptied' \in BOOLEAN
    BY <1>1, <1>2, <1>3, Zenon
  <2> QED BY <1>1, <1>2, <1>3, <1>4, <1>6, <2>1, NoneOption DEF IInv, Types, HandleType
<1>8. Tree(heap, root, right, Fixed, emptied)'
  <2>1. right' = Nil /\ Fixed' = Nil /\ emptied' = FALSE
    BY <1>1, <1>2, <1>3 DEF Fixed
  <2> QED BY <1>1, <1>2, <2>1
<1>9. Locals'
  <2>1. right' = Nil /\ ~emptied' /\ key' # None
    BY <1>1, <1>2, <1>4
  <2> QED BY <1>1, <1>6, <2>1 DEF Locals
<1>10. AInv' /\ Tracked'
  BY <1>1, <1>2, <1>7, <1>8, <1>9 DEF AInv, IInv, Replaceable, Refilling, Tracked
<1>11. LengthExact' /\ Countable(heap')
  BY <1>1, <1>2, PlacesFinite DEF LengthExact
<1> QED BY <1>1, <1>10, <1>11 DEF KInv, KvOf

\* The pairs beside the new one, in a tree that an insertion has left.
LEMMA BesideNew ==
  ASSUME IInv', pc' = "idle", Countable(heap'), NEW new \in HandleType,
         LeafPair(heap', new.node, new.idx)
  PROVE  KvOf(heap', BesideInserted(heap', new))
<1>1. Tree(heap', root', Nil, Nil, emptied')
  <2>1. Tree(heap, root, right, Fixed, emptied)' /\ right' = Nil
    BY DEF IInv, Locals
  <2>2. Fixed' = Nil
    BY DEF Fixed
  <2> QED BY <2>1, <2>2
<1>2. Len(heap'[new.node].kv) \in Nat
  BY <1>1, HeapNode DEF LeafPair, Tree, WellFormed
<1>3. EdgeOf(heap', new) /\ EdgeOf(heap', Handle(new.node, new.idx + 1))
  BY <1>2 DEF LeafPair, EdgeOf, HandleType, Handle
<1> QED BY <1>1, <1>3, KvsBeside DEF BesideInserted

\* An insertion that needs no split.
LEMMA StepInsertOnly ==
  ASSUME KInv, NEW v \in Val, InsertEmpty(v) \/ InsertFit(v)
  PROVE  KInv'
<1>1. VacantInsertEmpty(v) \/ VacantInsertFit(v)
  BY DEF InsertEmpty, InsertFit
<1>2. pc = "vacant" /\ pc' = "idle" /\ Insert /\ cur \in HandleType /\ IInv
  BY <1>1, IInvFacts DEF VacantInsertEmpty, VacantInsertFit, Return, Insert, KInv, AInv
<1>3. AInv' /\ Countable(heap') /\ LengthExact' /\ Tracked'
  BY <1>2, EditStep
<1>4. KvOf(heap', current')
  <2>1. CASE InsertEmpty(v)
    BY <1>2, <2>1 DEF InsertEmpty, cursor, KInv, KvOf
  <2>2. CASE InsertFit(v)
    <3>1. VacantInsertFit(v) /\ current' = BesideInserted(heap', cur)
      BY <2>2 DEF InsertFit
    <3>2. LeafPair(heap', cur.node, cur.idx)
      BY <1>2, <3>1, StepVacantInsertFit
    <3>3. IInv'
      BY <1>3 DEF AInv
    <3>4. KvOf(heap', BesideInserted(heap', cur))
      BY <1>2, <1>3, <3>2, <3>3, BesideNew
    <3> QED BY <3>1, <3>4
  <2> QED BY <2>1, <2>2
<1> QED BY <1>2, <1>3, <1>4 DEF KInv

\* The leaf splits around the new pair.
LEMMA StepInsertSplit ==
  ASSUME KInv, NEW v \in Val, InsertSplit(v)
  PROVE  KInv'
<1> DEFINE s == splitpoint(cur.idx)
           into == IF s.side = "left" THEN cur.node ELSE right'
<1>1. /\ VacantInsertSplit(v) /\ inserted' = Handle(into, s.idx)
      /\ current' = current
  BY DEF InsertSplit
<1>2. pc = "vacant" /\ pc' = "insert_up" /\ Insert /\ IInv
  BY <1>1 DEF VacantInsertSplit, Goto, Insert, KInv, AInv
<1>3. AInv' /\ Countable(heap') /\ LengthExact' /\ Tracked'
  BY <1>2, EditStep
<1>4. LeafPair(heap', into, s.idx)
  BY <1>1, <1>2, StepVacantInsertSplit
<1> HIDE DEF s, into
<1>5. into \in NodeId /\ s.idx \in Nat
  BY <1>3, <1>4, HeapNode DEF LeafPair, AInv, IInv, Types
<1>6. KeptHandle'
  BY <1>1, <1>4, <1>5, HandleProps DEF KeptHandle
<1>7. current' = NoHandle
  BY <1>1, <1>2 DEF KInv
<1> QED BY <1>2, <1>3, <1>6, <1>7 DEF KInv, KvOf

\* The split climbs: the nodes it splits are not leaves.
LEMMA StepInsertUp ==
  ASSUME KInv, InsertClimb \/ InsertDone
  PROVE  KInv'
<1>1. InsertUpSplit \/ InsertUpFit \/ SplitRoot
  BY DEF InsertClimb, InsertDone
<1>2. pc = "insert_up" /\ Insert /\ IInv /\ KeptHandle
  BY <1>1 DEF InsertUpSplit, InsertUpFit, SplitRoot, Insert, KInv, AInv
<1>3. LeavesKept(heap', heap)
  BY <1>1, <1>2, StepInsertUpSplit, StepInsertUpFit, StepSplitRoot
<1>4. inserted \in HandleType /\ LeafPair(heap', inserted.node, inserted.idx)
  BY <1>2, <1>3 DEF KeptHandle, LeafPair, LeavesKept
<1>5. CASE InsertClimb
  <2>1. pc' = "insert_up" /\ UNCHANGED <<inserted, current>>
    BY <1>5 DEF InsertClimb, InsertUpSplit, Goto, cursor
  <2>2. AInv' /\ Countable(heap') /\ LengthExact' /\ Tracked'
    BY <1>2, <2>1, EditStep
  <2>3. KeptHandle' /\ current' = NoHandle
    BY <1>2, <1>4, <2>1 DEF KeptHandle, KInv
  <2> QED BY <2>1, <2>2, <2>3 DEF KInv, KvOf
<1>6. CASE InsertDone
  <2>1. pc' = "idle" /\ current' = BesideInserted(heap', inserted)
    BY <1>6 DEF InsertDone, InsertUpFit, SplitRoot, Return
  <2>2. AInv' /\ Countable(heap') /\ LengthExact' /\ Tracked'
    BY <1>2, <2>1, EditStep
  <2>3. KvOf(heap', BesideInserted(heap', inserted))
    BY <1>4, <2>1, <2>2, BesideNew DEF AInv
  <2> QED BY <2>1, <2>2, <2>3 DEF KInv
<1> QED BY <1>5, <1>6

-----------------------------------------------------------------------------
(* Removing *)

\* The removal of the current pair begins.
LEMMA StepRemoveBegin ==
  ASSUME KInv, NEW o \in Removes, RemoveBegin(o)
  PROVE  KInv'
<1> DEFINE n == current.node
           i == current.idx
           c == descend(heap, n, i)
<1>1. /\ pc = "idle" /\ current # NoHandle /\ refill' = ~IsLeaf(heap, n)
      /\ IF IsLeaf(heap, n) THEN pc' = "remove_leaf" /\ cur' = current
         ELSE pc' = "left_leaf" /\ cur' = Handle(c, 0)
      /\ op' = o /\ ret' = None /\ current' = NoHandle
      /\ UNCHANGED <<heap, root, length, key, pos, hand, right, emptied>>
  BY DEF RemoveBegin, Begin, Goto, map
<1>2. /\ Tree(heap, root, Nil, Nil, FALSE) /\ right = Nil /\ ~emptied
      /\ length = PairCount(heap) /\ length \in Int /\ Countable(heap) /\ IInv
      /\ WellFormed(heap, {root, Nil})
  BY <1>1, AtLeisure
<1>3. n \in DOMAIN heap /\ i \in Nat /\ i < Len(heap[n].kv) /\ PairIn(heap, current)
  BY <1>1 DEF KInv, KvOf, PairIn
<1>4. DOMAIN heap \subseteq NodeId /\ Len(heap[n].kv) \in Nat
  BY <1>2, <1>3, IInvFacts
<1>5. current \in HandleType
  BY <1>3, <1>4 DEF PairIn, HandleType
<1> HIDE DEF n, i, c
<1>6. /\ pc' \in {"remove_leaf", "left_leaf"} /\ cur' \in HandleType
      /\ cur'.node \in DOMAIN heap
      /\ pc' = "remove_leaf" => /\ heap[cur'.node].height = 0 /\ refill' = FALSE
                                /\ cur'.idx < Len(heap[cur'.node].kv)
      /\ pc' = "left_leaf" => /\ cur'.node # root
                              /\ refill' /\ OffBorder(heap, root, cur'.node)
  <2>1. CASE IsLeaf(heap, n)
    <3>1. pc' = "remove_leaf" /\ cur' = current /\ heap[n].height = 0
      BY <1>1, <2>1 DEF IsLeaf
    <3>2. refill' = FALSE
      BY <1>1, <2>1, Zenon
    <3> QED BY <1>3, <1>5, <3>1, <3>2 DEF n, i
  <2>2. CASE ~IsLeaf(heap, n)
    <3>1. pc' = "left_leaf" /\ cur' = Handle(c, 0) /\ heap[n].height # 0
      BY <1>1, <2>2 DEF IsLeaf
    <3>2. refill'
      BY <1>1, <2>2, Zenon
    <3>3. i <= Len(heap[n].kv)
      BY <1>3, <1>4
    <3>4. c \in DOMAIN heap /\ c # root /\ c \in NodeId
      BY <1>2, <1>3, <3>1, <3>3, ChildOf DEF c
    <3>5. OffBorder(heap, root, c)
      BY <1>2, <1>3, <3>1, BorderChild DEF c
    <3>6. cur' \in HandleType /\ cur'.node = c
      BY <3>1, <3>4, HandleProps
    <3> QED BY <3>1, <3>2, <3>4, <3>5, <3>6
  <2> QED BY <2>1, <2>2
<1>7. Types'
  <2>1. refill' \in BOOLEAN
    BY <1>6, Zenon
  <2> QED BY <1>1, <1>2, <1>6, <2>1, NoneOption DEF IInv, Types, HandleType
<1>8. Tree(heap, root, right, Fixed, emptied)'
  <2>1. right' = Nil /\ Fixed' = Nil /\ root' = root /\ heap' = heap
    BY <1>1, <1>2, <1>6 DEF Fixed
  <2>2. emptied' = FALSE
    BY <1>1, <1>2, <1>7 DEF Types
  <2> QED BY <1>2, <2>1, <2>2
<1>9. Locals'
  <2>1. ~emptied' /\ right' = Nil /\ op' # "replace" /\ root' = root /\ heap' = heap
    BY <1>1, <1>2 DEF Removes
  <2> QED BY <1>6, <2>1 DEF Locals
<1>10. AInv' /\ Tracked'
  <2>1. Replaceable'
    BY <1>1, <1>6 DEF Replaceable
  <2>2. Refilling' /\ Tracked'
    BY <1>6 DEF Refilling, Tracked
  <2> QED BY <1>7, <1>8, <1>9, <2>1, <2>2 DEF AInv, IInv
<1>11. LengthExact' /\ Countable(heap')
  BY <1>1, <1>2, <1>6, PlacesFinite DEF LengthExact
<1> QED BY <1>1, <1>6, <1>10, <1>11 DEF KInv, KvOf

\* The steps of remove_kv_tracking.
LEMMA StepRemoveStep ==
  ASSUME KInv, RemoveStep
  PROVE  KInv'
<1>1. Remove /\ UNCHANGED <<current, inserted, bound>>
  BY DEF RemoveStep, Remove, cursor
<1>2. pc \notin {"idle", "seek"} /\ pc' \notin {"idle", "seek", "insert_up"}
  BY DEF RemoveStep, LeftLeaf, RemoveLeafDone, RemoveLeafMerge, RemoveLeafSteal,
         RemoveLeafUnderfull, FixDone, FixEmptyRoot, FixMerge, FixSteal, NextKvAscend,
         ReplaceKv, AfterRemoveLeaf, Goto
<1>3. AInv' /\ Countable(heap') /\ LengthExact'
  BY <1>1, EditStep
<1>4. Tracked'
  BY <1>1, TrackedStep DEF KInv, AInv
<1>5. current' = NoHandle
  BY <1>1, <1>2 DEF KInv
<1> QED BY <1>2, <1>3, <1>4, <1>5 DEF KInv, KvOf

\* The pair beside the tracked edge is found before an emptied root is popped;
\* it is not in that root, which has none.
LEMMA StepRemoveDone ==
  ASSUME KInv, RemoveDone
  PROVE  KInv'
<1> DEFINE edge == IF refill THEN next_leaf_edge(heap, cur) ELSE pos
<1>1. /\ FinishRemove
      /\ current' = next_kv(heap, edge) \/ current' = next_back_kv(heap, edge)
  BY DEF RemoveDone
<1>2. pc = "finish" /\ pc' = "idle" /\ Remove /\ IInv /\ Tracked /\ Countable(heap)
  BY <1>1 DEF FinishRemove, Return, Remove, KInv, AInv
<1>3. AInv' /\ Countable(heap') /\ LengthExact' /\ Tracked'
  BY <1>2, EditStep
<1>4. Tree(heap, root, Nil, Nil, emptied) /\ emptied \in BOOLEAN
  <2>1. Tree(heap, root, right, Fixed, emptied) /\ right = Nil /\ emptied \in BOOLEAN
    BY <1>2 DEF IInv, Locals, Types
  <2>2. Fixed = Nil
    BY <1>2 DEF Fixed
  <2> QED BY <2>1, <2>2
<1>5. EdgeOf(heap, edge)
  <2>1. WellFormed(heap, {root, Nil})
    BY <1>4 DEF Tree
  <2>2. LeafEdge(heap, edge)
    BY <1>2, <2>1, NextLeafEdge DEF Tracked
  <2> QED BY <2>2, LeafEdgeOf
<1> HIDE DEF edge
<1>6. KvOf(heap, current')
  BY <1>1, <1>2, <1>4, <1>5, KvsBeside
<1>7. KvOf(heap', current')
  <2>1. CASE ~emptied
    BY <1>1, <1>6, <2>1 DEF FinishRemove
  <2>2. CASE emptied
    <3>1. /\ root \in DOMAIN heap /\ heap[root].height # 0 /\ Len(heap[root].kv) = 0
          /\ emptied = TRUE
      BY <1>2, <1>4, <2>2 DEF IInv, Locals
    <3>2. heap' = pop_internal_level(heap, root)
      BY <1>1, <2>2 DEF FinishRemove
    <3>3. /\ DOMAIN heap' = DOMAIN heap \ {root}
          /\ \A m \in DOMAIN heap \ {root} : heap'[m].kv = heap[m].kv
      BY <1>4, <3>1, <3>2, PopKeeps
    <3>4. ASSUME PairIn(heap, current')
          PROVE  PairIn(heap', current')
      BY <3>1, <3>3, <3>4 DEF PairIn
    <3> QED BY <1>6, <3>4 DEF KvOf
  <2> QED BY <2>1, <2>2
<1> QED BY <1>2, <1>3, <1>7 DEF KInv

-----------------------------------------------------------------------------
(* The theorems *)

\* KInv is inductive.
LEMMA KInvNext == KInv /\ [CursorNext]_allvars => KInv'
<1> SUFFICES ASSUME KInv, [CursorNext]_allvars
             PROVE  KInv'
  OBVIOUS
<1>1. ASSUME NEW o \in {"lower_bound", "upper_bound"}, NEW b \in SearchBound,
             NEW k \in Asked(b), SeekBegin(o, k, b)
      PROVE  KInv'
  BY <1>1, StepSeekBegin
<1>2. CASE SeekNoRoot \/ SeekLeaf \/ SeekPanics
  BY <1>2, StepSeekEnds
<1>3. CASE SeekDescend
  BY <1>3, StepSeekDescend
<1>4. CASE move_next \/ move_prev
  BY <1>4, StepMove
<1>5. ASSUME NEW kv \in {current, peek_next, peek_prev_mut}, NEW v \in Val, WriteValue(kv, v)
      PROVE  KInv'
  BY <1>5, StepWriteValue
<1>6. ASSUME NEW o \in Inserts, NEW k \in Query, InsertBegin(o, k)
      PROVE  KInv'
  BY <1>6, StepInsertBegin
<1>7. ASSUME NEW v \in Val, InsertEmpty(v) \/ InsertFit(v) \/ InsertSplit(v)
      PROVE  KInv'
  BY <1>7, StepInsertOnly, StepInsertSplit
<1>8. CASE InsertClimb \/ InsertDone
  BY <1>8, StepInsertUp
<1>9. ASSUME NEW o \in Removes, RemoveBegin(o)
      PROVE  KInv'
  BY <1>9, StepRemoveBegin
<1>10. CASE RemoveStep
  BY <1>10, StepRemoveStep
<1>11. CASE RemoveDone
  BY <1>11, StepRemoveDone
<1>12. CASE UNCHANGED allvars
  BY <1>12 DEF allvars, vars, KInv, AInv, IInv, Types, Tree, Fixed, Locals, Replaceable,
               Refilling, Tracked, LengthExact, KeptHandle
<1> QED BY <1>1, <1>2, <1>3, <1>4, <1>5, <1>6, <1>7, <1>8, <1>9, <1>10, <1>11, <1>12
        DEF CursorNext, CursorCall, CursorStep

\* KInv holds in every state.
THEOREM CursorInvariance == CursorSpec => []KInv
<1>1. CursorInit => KInv
  BY KInvInit
<1>2. KInv /\ [CursorNext]_allvars => KInv'
  BY KInvNext
<1> QED BY <1>1, <1>2, PTL DEF CursorSpec

\* A cursor's edits keep the tree legal and counted at every step, and meet
\* every assertion of the insertions and removals.
THEOREM CursorKeepsShape == CursorSpec => []EditsKeepShape
<1>1. KInv => EditsKeepShape
  BY ShapeFollows, AssertsFollow DEF KInv, AInv, EditsKeepShape
<1> QED BY <1>1, CursorInvariance, PTL

\* The cursor is at the ghost or at a pair of a node of the tree, never at a
\* place that an edit has emptied or in a node that it has freed.
THEOREM CursorStaysInTree == CursorSpec => []CurrentInTree
<1>1. KInv => CurrentInTree
  BY DEF KInv, KvOf, CurrentInTree
<1> QED BY <1>1, CursorInvariance, PTL

-----------------------------------------------------------------------------
(* The pairs beside the cursor *)

\* A tree between two calls, in the terms of its sequences.
LEMMA RestingTree ==
  ASSUME NEW h, NEW rt, Tree(h, rt, Nil, Nil, FALSE), Countable(h)
  PROVE  /\ rt = Nil => DOMAIN h = {}
         /\ rt # Nil => OneTree(h, rt)
         /\ Nil \notin DOMAIN h
<1>1. /\ WellFormed(h, {rt, Nil}) /\ HeapType(h) /\ Lens(h, rt, Nil, FALSE) /\ rt \in DOMAIN h \cup {Nil}
      /\ IsFiniteSet(DOMAIN h)
  BY DEF Tree, WellFormed, Countable
<1>2. Bounded(h) /\ Roomy(h) /\ Nil \notin DOMAIN h
  BY <1>1, FiniteBounded, NilAssumption DEF Lens, Roomy, HeapType
<1>3. WellFormed(h, {rt})
  BY <1>1, <1>2 DEF WellFormed, ParentsLinked
<1>4. CASE rt = Nil
  BY <1>1, <1>2, <1>4, NoRootNoNode
<1> QED BY <1>1, <1>2, <1>3, <1>4 DEF OneTree, Grove

LEMMA NumberOfElement ==
  ASSUME NEW h, NEW r, OneTree(h, r), r # Nil, NEW i \in 1 .. Len(ElementsBelow(h, r))
  PROVE  NumberOf(h, r, ElementsBelow(h, r)[i]) = i
<1> DEFINE E == ElementsBelow(h, r)
           N == Len(E)
           x == CHOOSE j \in DOMAIN E : E[j] = E[i]
<1>1. Ordered(h, E, LeafEdges(h, r), N) /\ Nil \notin DOMAIN h /\ Elements(h, r) = E
  BY RootOrdered, GroveStepped DEF OneTree, Elements
<1>2. E \in Seq(Spots(h)) /\ Len(E) = N
  BY <1>1 DEF Ordered
<1>3. DOMAIN E = 1 .. N
  BY <1>2
<1> HIDE DEF E, N
<1>4. i \in DOMAIN E
  BY <1>3 DEF N, E
<1>5. x \in DOMAIN E /\ E[x] = E[i]
  BY <1>4
<1> HIDE DEF x
<1>6. x = i
  BY <1>1, <1>3, <1>4, <1>5, ElementsDiffer
<1>7. E[i] \in Seqs!ToSet(E)
  BY <1>4 DEF Seqs!ToSet
<1> QED BY <1>1, <1>6, <1>7 DEF NumberOf, E, x

\* The ghost has no number.
LEMMA NumberOfGhost ==
  ASSUME NEW h, NEW r, r = Nil \/ (OneTree(h, r) /\ r # Nil)
  PROVE  NumberOf(h, r, NoHandle) = 0
<1> DEFINE E == Elements(h, r)
<1>1. NoHandle \notin Seqs!ToSet(E)
  <2>1. CASE r = Nil
    BY <2>1 DEF Elements, Seqs!ToSet
  <2>2. CASE r # Nil
    <3>1. OneTree(h, r) /\ E = ElementsBelow(h, r) /\ Nil \notin DOMAIN h
      BY <2>2, GroveStepped DEF Elements, OneTree
    <3>2. Ordered(h, E, LeafEdges(h, r), Len(E))
      BY <3>1, RootOrdered
    <3> HIDE DEF E
    <3>3. E \in Seq(Spots(h)) /\ \A i \in 1 .. Len(E) : PairIn(h, E[i])
      BY <3>2 DEF Ordered
    <3>4. \A i \in DOMAIN E : E[i] # NoHandle
      BY <3>1, <3>3, PairNotNil
    <3> QED BY <3>4 DEF Seqs!ToSet
  <2> QED BY <2>1, <2>2
<1> QED BY <1>1 DEF NumberOf

LEMMA CircleSteps ==
  ASSUME NEW N \in Nat
  PROVE  /\ (0 + 1) % (N + 1) = (IF N = 0 THEN 0 ELSE 1)
         /\ (0 + N) % (N + 1) = N
         /\ \A i \in 1 .. N : (i + 1) % (N + 1) = (IF i < N THEN i + 1 ELSE 0)
         /\ \A i \in 1 .. N : (i + N) % (N + 1) = i - 1
<1>1. \A a \in 0 .. N : a % (N + 1) = a
  OBVIOUS
<1>2. (N + 1) % (N + 1) = 0
  OBVIOUS
<1>3. ASSUME NEW i \in 1 .. N PROVE (i + N) % (N + 1) = i - 1
  <2>1. i + N = (i - 1) + 1 * (N + 1) /\ i - 1 \in 0 .. N
    OBVIOUS
  <2> QED BY <2>1
<1>4. ASSUME NEW i \in 1 .. N PROVE (i + 1) % (N + 1) = (IF i < N THEN i + 1 ELSE 0)
  BY <1>1, <1>2
<1>5. (0 + 1) % (N + 1) = (IF N = 0 THEN 0 ELSE 1)
  <2>1. CASE N = 0
    BY <1>2, <2>1
  <2>2. CASE N # 0
    <3>1. 1 \in 0 .. N /\ 0 + 1 = 1
      BY <2>2
    <3> QED BY <1>1, <2>2, <3>1
  <2> QED BY <2>1, <2>2
<1>6. (0 + N) % (N + 1) = N
  <2>1. N \in 0 .. N /\ 0 + N = N
    OBVIOUS
  <2> QED BY <1>1, <2>1
<1> QED BY <1>3, <1>4, <1>5, <1>6

\* What the client has been shown is what there is.
ShownInv == pc = "idle" => shown = Seen(heap, root, current, ret)

LEMMA Peeks == KInv /\ ShownInv => PeeksAreNeighbours
<1> SUFFICES ASSUME KInv, ShownInv, pc = "idle", held
             PROVE  /\ NumberOf(heap, root, peek_next) = Circle!After(shown.at)
                    /\ NumberOf(heap, root, peek_prev) = Circle!Back(shown.at)
  BY DEF PeeksAreNeighbours
<1>1. Tree(heap, root, Nil, Nil, FALSE) /\ Countable(heap) /\ KvOf(heap, current)
  BY AtLeisure DEF KInv
<1>2. /\ root = Nil => DOMAIN heap = {}
      /\ root # Nil => OneTree(heap, root)
      /\ Nil \notin DOMAIN heap
  BY <1>1, RestingTree
<1> DEFINE N == Len(Elements(heap, root))
<1>3. shown.at = NumberOf(heap, root, current) /\ shown.entries = [i \in 1 .. N |-> PairAt(heap, Elements(heap, root)[i])]
  BY DEF ShownInv, Seen, PairsOf
<1>4. NumberOf(heap, root, NoHandle) = 0
  BY <1>2, NumberOfGhost
<1>5. N \in Nat
  BY <1>2, RootOrdered DEF Elements, Ordered
<1>6. Len(shown.entries) = N
  <2> HIDE DEF N
  <2> QED BY <1>3, <1>5
<1>7. Circle!After(shown.at) = (shown.at + 1) % (N + 1) /\ Circle!Back(shown.at) = (shown.at + N) % (N + 1)
  BY <1>6 DEF Circle!After, Circle!Back
<1>8. CASE root = Nil
  <2>1. current = NoHandle
    BY <1>1, <1>2, <1>8 DEF KvOf, PairIn
  <2>2. peek_next = NoHandle /\ peek_prev = NoHandle
    BY <1>8, <2>1 DEF peek_next, peek_prev, NextOfCurrent, PrevOfCurrent, FirstPair, LastPair
  <2>3. N = 0
    BY <1>8 DEF Elements
  <2> QED BY <1>3, <1>4, <1>5, <1>7, <2>1, <2>2, <2>3, CircleSteps
<1>9. CASE root # Nil
  <2> DEFINE E == ElementsBelow(heap, root)
             L == LeafEdges(heap, root)
  <2>1. OneTree(heap, root) /\ Elements(heap, root) = E
    BY <1>2, <1>9 DEF Elements
  <2>2. /\ Ordered(heap, E, L, N) /\ L[1] = first_leaf_edge(heap, root)
        /\ L[N + 1] = last_leaf_edge(heap, root)
    BY <2>1, RootOrdered
  <2>3. \A i \in 1 .. N : NumberOf(heap, root, E[i]) = i
    BY <1>9, <2>1, NumberOfElement
  <2>4. current = NoHandle \/ \E i \in 1 .. N : current = E[i]
    BY <1>1, <2>1, ElementsComplete DEF KvOf
  <2> HIDE DEF E, L, N
  <2>5. /\ \A i \in 1 .. N : Linked(heap, E, L, i) /\ E[i] # NoHandle
        /\ next_kv(heap, L[N + 1]) = NoHandle /\ next_back_kv(heap, L[1]) = NoHandle
    BY <1>2, <2>2, PairNotNil DEF Ordered
  <2>6. CASE current = NoHandle
    <3>1. peek_next = next_kv(heap, L[1]) /\ peek_prev = next_back_kv(heap, L[N + 1])
      BY <1>9, <2>2, <2>6 DEF peek_next, peek_prev, NextOfCurrent, PrevOfCurrent, FirstPair, LastPair
    <3>2. shown.at = 0
      BY <1>3, <1>4, <2>6
    <3>3. CASE N = 0
      BY <1>4, <1>5, <1>7, <2>5, <3>1, <3>2, <3>3, CircleSteps
    <3>4. CASE N # 0
      <4>1. 1 \in 1 .. N /\ N \in 1 .. N
        BY <1>5, <3>4
      <4>2. peek_next = E[1] /\ peek_prev = E[N]
        BY <2>5, <3>1, <4>1 DEF Linked
      <4> QED BY <1>5, <1>7, <2>3, <3>2, <3>4, <4>1, <4>2, CircleSteps
    <3> QED BY <3>3, <3>4
  <2>7. ASSUME NEW i \in 1 .. N, current = E[i]
        PROVE  /\ NumberOf(heap, root, peek_next) = Circle!After(shown.at)
               /\ NumberOf(heap, root, peek_prev) = Circle!Back(shown.at)
    <3>1. current # NoHandle /\ next_leaf_edge(heap, current) = L[i + 1] /\ next_back_leaf_edge(heap, current) = L[i]
      BY <2>5, <2>7 DEF Linked
    <3>2. peek_next = next_kv(heap, L[i + 1]) /\ peek_prev = next_back_kv(heap, L[i])
      BY <3>1 DEF peek_next, peek_prev, NextOfCurrent, PrevOfCurrent
    <3>3. shown.at = i
      BY <1>3, <2>3, <2>7
    <3>4. NumberOf(heap, root, peek_next) = IF i < N THEN i + 1 ELSE 0
      <4>1. CASE i < N
        <5>1. i + 1 \in 1 .. N
          BY <1>5, <4>1
        <5>2. peek_next = E[i + 1]
          BY <2>5, <3>2, <5>1 DEF Linked
        <5> QED BY <2>3, <4>1, <5>1, <5>2
      <4>2. CASE ~(i < N)
        <5>1. i = N
          BY <1>5, <4>2
        <5> QED BY <1>4, <2>5, <3>2, <4>2, <5>1
      <4> QED BY <4>1, <4>2
    <3>5. NumberOf(heap, root, peek_prev) = i - 1
      <4>1. CASE i = 1
        <5>1. peek_prev = NoHandle
          BY <2>5, <3>2, <4>1
        <5> QED BY <1>4, <4>1, <5>1
      <4>2. CASE i # 1
        <5>1. i - 1 \in 1 .. N /\ i - 1 + 1 = i
          BY <1>5, <4>2
        <5>2. peek_prev = E[i - 1]
          BY <2>5, <3>2, <5>1 DEF Linked
        <5> QED BY <2>3, <5>1, <5>2
      <4> QED BY <4>1, <4>2
    <3> QED BY <1>5, <1>7, <3>3, <3>4, <3>5, CircleSteps
  <2> QED BY <2>4, <2>6, <2>7
<1> QED BY <1>8, <1>9

\* The pairs that peek_next and peek_prev show are the neighbours of the current
\* one in the circle of the entries and the ghost, across every edit.
THEOREM CursorPeeks == CursorSpec => []PeeksAreNeighbours
<1>1. CursorInit => ShownInv
  BY DEF CursorInit, ShownInv
<1>2. ShownInv /\ [CursorNext]_allvars => ShownInv'
  <2> SUFFICES ASSUME ShownInv, [CursorNext]_allvars, pc' = "idle"
               PROVE  shown' = Seen(heap', root', current', ret')
    BY DEF ShownInv
  <2>1. CASE CursorNext
    BY <2>1 DEF CursorNext
  <2>2. CASE UNCHANGED allvars
    BY <2>2 DEF allvars, vars, map, ShownInv, Seen
  <2> QED BY <2>1, <2>2
<1>3. CursorSpec => []ShownInv
  BY <1>1, <1>2, PTL DEF CursorSpec
<1> QED BY <1>3, CursorInvariance, Peeks, PTL
=============================================================================
