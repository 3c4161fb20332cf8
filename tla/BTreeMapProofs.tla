--------------------------- MODULE BTreeMapProofs ---------------------------
(***************************************************************************)
(* The invariants of BTreeMap for every branching factor B, every set of   *)
(* keys, values and nodes and every comparator, lawful or not.             *)
(*                                                                         *)
(* The inductive invariant IInv has three parts.  Types.  Tree: the heap   *)
(* is one well-formed tree, and a second one while a split climbs; every   *)
(* node has its length, but for the node being fixed and an emptied root.  *)
(* Locals: what the variables of the running operation have to do with     *)
(* the tree, point by point.  The proof goes action by action: a Tree      *)
(* lemma for what an action does to the tree, a Step lemma for the action. *)
(***************************************************************************)
EXTENDS BTreeMap, BTreeNavigateProofs, TLAPS

\* NodeLens with the tree, the node being fixed and emptied as parameters.
Lens(h, rt, fixed, em) ==
  \A n \in DOMAIN h :
    /\ Len(h[n].kv) <= CAPACITY
    /\ n # rt => Len(h[n].kv) >= IF n = fixed THEN MIN_LEN - 1 ELSE MIN_LEN
    /\ h[n].height = 0 \/ n = fixed \/ (n = rt /\ em) \/ Len(h[n].kv) >= 1

\* A tree with root rt and a subtree rg that has no place in it yet, if not Nil.
Tree(h, rt, rg, fixed, em) ==
  /\ WellFormed(h, {rt, rg})
  /\ rt \in DOMAIN h \cup {Nil}
  /\ rg \in DOMAIN h \cup {Nil}
  /\ Lens(h, rt, fixed, em)

Fixed == IF pc = "fix" THEN cur.node ELSE Nil

\* What the locals of the code have to do with the tree at each point.
Locals ==
  /\ right # Nil => pc = "insert_up"
  /\ emptied => /\ pc \in {"next_kv", "finish"}
                /\ root \in DOMAIN heap /\ heap[root].height # 0 /\ Len(heap[root].kv) = 0
  /\ op = "replace" \/ pc \in {"search", "vacant"} => key # None
  /\ pc \in {"search", "first_leaf", "last_leaf", "occupied", "insert_up", "left_leaf",
             "remove_leaf", "fix", "next_kv"} => cur.node \in DOMAIN heap
  /\ pc \in {"occupied", "remove_leaf"} => cur.idx < Len(heap[cur.node].kv)
  /\ pc = "vacant" /\ cur # NoHandle =>
       /\ cur.node \in DOMAIN heap /\ heap[cur.node].height = 0
       /\ cur.idx <= Len(heap[cur.node].kv)
  /\ pc = "vacant" /\ cur = NoHandle => root = Nil
  /\ pc = "insert_up" =>
       /\ right # Nil /\ right # root /\ right # cur.node /\ hand # None
       /\ heap[right].height = heap[cur.node].height
       /\ Len(heap[cur.node].kv) >= MIN_LEN
  /\ pc = "left_leaf" => cur.node # root
  /\ pc = "remove_leaf" => heap[cur.node].height = 0
  /\ pc = "fix" =>
       /\ heap[cur.node].height # 0
       /\ pos.node \in DOMAIN heap /\ heap[pos.node].height = 0
  /\ pc = "fix" /\ refill => hand # None
  /\ pc = "next_kv" => hand # None

\* The part of TypeOK that does not name the operations and the points of the
\* code, so that the steps are those of the modules that build on BTreeMap too.
Types ==
  /\ HeapType(heap)
  /\ root \in NodeId \cup {Nil}
  /\ length \in Int
  /\ key \in Option(Key)
  /\ cur \in [node : NodeId \cup {Nil}, idx : Nat]
  /\ pos \in [node : NodeId \cup {Nil}, idx : Nat]
  /\ hand \in Option(KV)
  /\ right \in NodeId \cup {Nil}
  /\ refill \in BOOLEAN
  /\ emptied \in BOOLEAN
  /\ ret \in Option(KV)

IInv == Types /\ Tree(heap, root, right, Fixed, emptied) /\ Locals

\* A step changes the number of pairs in the nodes by d.
Counts(d) == Countable(heap) => Tally(heap', heap, d)
-----------------------------------------------------------------------------
\* MIN_LEN and CAPACITY of map.rs and node.rs as numbers.
LEMMA MinLen == MIN_LEN \in Nat /\ MIN_LEN >= 1 /\ CAPACITY = 2 * MIN_LEN + 1 /\ CAPACITY \in Nat
  BY BAssumption DEF MIN_LEN, MIN_LEN_AFTER_SPLIT, CAPACITY

\* The allocator returns a node that is not in use.
LEMMA FreshProps ==
  ASSUME NEW h, CanAllocate(h)
  PROVE  FreshNode(h) \in NodeId /\ FreshNode(h) \notin DOMAIN h
  BY DEF CanAllocate, FreshNode

\* None is an Option.
LEMMA NoneOption == \A S : None \in Option(S)
  BY DEF Option, None

\* Some(x) is an Option and not None.
LEMMA SomeOption ==
  ASSUME NEW S, NEW x, x \in S
  PROVE  Some(x) \in Option(S) /\ Some(x) # None
  BY DEF Option, Some, None

\* unwrap of an Option that is not None.
LEMMA OptionValue ==
  ASSUME NEW S, NEW o, o \in Option(S), o # None
  PROVE  o[1] \in S
  BY DEF Option, Some, None

\* Where splitpoint puts an insertion, both halves end up with MIN_LEN to CAPACITY pairs.
GoodSplit(s) ==
  /\ s.middle \in 0 .. CAPACITY - 1 /\ s.idx \in Nat /\ s.side \in {"left", "right"}
  /\ s.side = "left" => /\ s.idx <= s.middle
                        /\ s.middle + 1 >= MIN_LEN /\ s.middle + 1 <= CAPACITY
                        /\ CAPACITY - s.middle - 1 >= MIN_LEN
  /\ s.side = "right" => /\ s.idx <= CAPACITY - s.middle - 1
                         /\ s.middle >= MIN_LEN
                         /\ CAPACITY - s.middle >= MIN_LEN /\ CAPACITY - s.middle <= CAPACITY

\* splitpoint of node.rs: wherever an insertion into a full node falls, both
\* halves are legal nodes afterwards.
LEMMA SplitpointProps ==
  ASSUME NEW i \in 0 .. CAPACITY
  PROVE  GoodSplit(splitpoint(i))
<1> USE BAssumption DEF EDGE_IDX_LEFT_OF_CENTER, EDGE_IDX_RIGHT_OF_CENTER, KV_IDX_CENTER,
                        MIN_LEN, MIN_LEN_AFTER_SPLIT, CAPACITY
<1>1. CASE i < EDGE_IDX_LEFT_OF_CENTER
  <2>1. splitpoint(i) = [middle |-> KV_IDX_CENTER - 1, side |-> "left", idx |-> i]
    BY <1>1 DEF splitpoint
  <2> QED BY <1>1, <2>1 DEF GoodSplit
<1>2. CASE i = EDGE_IDX_LEFT_OF_CENTER
  <2>1. splitpoint(i) = [middle |-> KV_IDX_CENTER, side |-> "left", idx |-> i]
    BY <1>2 DEF splitpoint
  <2> QED BY <1>2, <2>1 DEF GoodSplit
<1>3. CASE i = EDGE_IDX_RIGHT_OF_CENTER
  <2>1. splitpoint(i) = [middle |-> KV_IDX_CENTER, side |-> "right", idx |-> 0]
    BY <1>3 DEF splitpoint
  <2> QED BY <1>3, <2>1 DEF GoodSplit
<1>4. CASE i > EDGE_IDX_RIGHT_OF_CENTER
  <2>1. splitpoint(i) = [middle |-> KV_IDX_CENTER + 1, side |-> "right",
                         idx |-> i - (KV_IDX_CENTER + 1 + 1)]
    BY <1>4 DEF splitpoint
  <2> QED BY <1>4, <2>1 DEF GoodSplit
<1> QED BY <1>1, <1>2, <1>3, <1>4

\* A heap with the same nodes and lengths has the same length bounds.
LEMMA SameLens ==
  ASSUME NEW h, NEW g, NEW rt, NEW f, NEW em, Lens(h, rt, f, em), DOMAIN g = DOMAIN h,
         \A m \in DOMAIN h : g[m].height = h[m].height /\ Len(g[m].kv) = Len(h[m].kv)
  PROVE  Lens(g, rt, f, em)
  BY DEF Lens

\* A tree all of whose nodes are long enough may be taken to be in repair at
\* any node.
LEMMA LensWeaken ==
  ASSUME NEW h, NEW rt, NEW f, NEW em, Lens(h, rt, Nil, em), HeapType(h)
  PROVE  Lens(h, rt, f, em)
<1> SUFFICES ASSUME NEW n \in DOMAIN h
             PROVE  /\ Len(h[n].kv) <= CAPACITY
                    /\ n # rt => Len(h[n].kv) >= IF n = f THEN MIN_LEN - 1 ELSE MIN_LEN
                    /\ h[n].height = 0 \/ n = f \/ (n = rt /\ em) \/ Len(h[n].kv) >= 1
  BY DEF Lens
<1>1. n # Nil /\ Len(h[n].kv) \in Nat
  BY HeapNode
<1>2. /\ Len(h[n].kv) <= CAPACITY
      /\ n # rt => Len(h[n].kv) >= MIN_LEN
      /\ h[n].height = 0 \/ (n = rt /\ em) \/ Len(h[n].kv) >= 1
  BY <1>1 DEF Lens
<1> QED BY <1>1, <1>2, MinLen

\* The nodes of g are those of h with the same heights and lengths.
SameSizes(g, h) ==
  /\ DOMAIN g = DOMAIN h
  /\ \A m \in DOMAIN h : g[m].height = h[m].height /\ Len(g[m].kv) = Len(h[m].kv)

\* Handle::replace_kv and OccupiedEntry::insert: a pair is overwritten.
LEMMA TreeReplaceKv ==
  ASSUME NEW h, NEW rt, NEW rg, NEW f, NEW em, Tree(h, rt, rg, f, em), NEW n, n \in DOMAIN h,
         NEW i, i \in Nat, i < Len(h[n].kv), NEW kv, kv \in KV
  PROVE  /\ Tree([h EXCEPT ![n] = replace_kv(h[n], i, kv)], rt, rg, f, em)
         /\ SameSizes([h EXCEPT ![n] = replace_kv(h[n], i, kv)], h)
<1> DEFINE g == [h EXCEPT ![n] = replace_kv(h[n], i, kv)]
<1>1. WellFormed(h, {rt, rg}) /\ i \in 0 .. Len(h[n].kv) - 1
  <2>1. WellFormed(h, {rt, rg})
    BY DEF Tree
  <2> QED BY <2>1, NodeArity
<1>2. /\ DOMAIN g = DOMAIN h /\ WellFormed(g, {rt, rg})
      /\ \A m \in DOMAIN h : g[m].height = h[m].height /\ Len(g[m].kv) = Len(h[m].kv)
  BY <1>1, ReplaceKv1
<1> HIDE DEF g
<1>3. Lens(g, rt, f, em)
  BY <1>2, SameLens DEF Tree
<1>4. Tree(g, rt, rg, f, em) /\ SameSizes(g, h)
  BY <1>2, <1>3 DEF Tree, SameSizes
<1> QED BY <1>4 DEF g

\* A root leaf is created in a map that has none.
LEMMA TreeNewRoot ==
  ASSUME NEW h, Tree(h, Nil, Nil, Nil, FALSE), NEW n, n \in NodeId, n \notin DOMAIN h,
         NEW kv, kv \in Seq(KV), Len(kv) <= 1
  PROVE  /\ Tree(Allocate(h, n, new_leaf(kv)), n, Nil, Nil, FALSE)
         /\ n \in DOMAIN Allocate(h, n, new_leaf(kv))
         /\ Countable(h) => Tally(Allocate(h, n, new_leaf(kv)), h, Len(kv))
<1> DEFINE r == new_leaf(kv)
           g == Allocate(h, n, r)
<1>1. WellFormed(h, {Nil}) /\ Lens(h, Nil, Nil, FALSE) /\ HeapType(h)
  BY DEF Tree, WellFormed
<1>2. r \in Node /\ r.height = 0 /\ r.edges = << >> /\ r.parent = Nil /\ r.kv = kv
  BY DEF new_leaf, new_internal, Node
<1> HIDE DEF r
<1>3. Len(r.edges) = 0
  BY <1>2
<1>4. WellFormed(g, {Nil} \cup {n})
  BY <1>1, <1>2, <1>3, AddLeaf
<1>5. DOMAIN g = DOMAIN h \cup {n} /\ g[n] = r /\ \A m \in DOMAIN h : g[m] = h[m]
  BY DEF Allocate
<1> HIDE DEF g
<1>6. {Nil} \cup {n} = {n, Nil}
  OBVIOUS
<1>7. Lens(g, n, Nil, FALSE)
  <2> SUFFICES ASSUME NEW m \in DOMAIN g
               PROVE  /\ Len(g[m].kv) <= CAPACITY
                      /\ m # n => Len(g[m].kv) >= IF m = Nil THEN MIN_LEN - 1 ELSE MIN_LEN
                      /\ g[m].height = 0 \/ m = Nil \/ (m = n /\ FALSE) \/ Len(g[m].kv) >= 1
    BY DEF Lens
  <2>1. CASE m = n
    BY <1>2, <1>5, <2>1, MinLen
  <2>2. CASE m # n
    <3>1. m \in DOMAIN h /\ g[m] = h[m] /\ m # Nil
      BY <1>1, <1>5, <2>2, HeapNode
    <3> QED BY <1>1, <3>1, <2>2 DEF Lens
  <2> QED BY <2>1, <2>2
<1>8. Tree(g, n, Nil, Nil, FALSE) /\ n \in DOMAIN g
  BY <1>4, <1>5, <1>6, <1>7 DEF Tree
<1>9. ASSUME Countable(h) PROVE Tally(g, h, Len(kv))
  <2>1. Len(g[n].kv) \in Nat /\ Len(g[n].kv) = Len(kv)
    BY <1>2, <1>5
  <2>2. Tally(g, h, Len(g[n].kv))
    BY <1>5, <1>9, <2>1, TallyNew
  <2> QED BY <2>1, <2>2
<1> QED BY <1>8, <1>9 DEF g, r

\* There is a pair i in the leaf n.
LeafPair(h, n, i) ==
  n \in DOMAIN h /\ h[n].height = 0 /\ i \in Nat /\ i < Len(h[n].kv)

\* No leaf of h is touched but for its links.
LeavesKept(g, h) ==
  \A m \in DOMAIN h : h[m].height = 0 => m \in DOMAIN g /\ g[m].height = 0 /\ g[m].kv = h[m].kv

\* Handle<Leaf, Edge>::insert into a leaf that has room.
LEMMA TreeLeafInsert ==
  ASSUME NEW h, NEW rt, Tree(h, rt, Nil, Nil, FALSE), NEW n, n \in DOMAIN h, h[n].height = 0,
         NEW i, i \in Nat, i <= Len(h[n].kv), Len(h[n].kv) < CAPACITY, NEW kv, kv \in KV
  PROVE  /\ Tree(leaf_insert_fit(h, n, i, kv), rt, Nil, Nil, FALSE)
         /\ Countable(h) => Tally(leaf_insert_fit(h, n, i, kv), h, 1)
         /\ LeafPair(leaf_insert_fit(h, n, i, kv), n, i)
<1> DEFINE g == leaf_insert_fit(h, n, i, kv)
<1>1. WellFormed(h, {rt, Nil}) /\ Lens(h, rt, Nil, FALSE)
  BY DEF Tree
<1>2. Len(h[n].kv) \in Nat /\ i \in 0 .. Len(h[n].kv)
  BY <1>1, NodeArity
<1>a. Inserted(g, h, {rt, Nil}, n)
  BY <1>1, <1>2, LeafInsertFit
<1>3. /\ DOMAIN g = DOMAIN h /\ WellFormed(g, {rt, Nil})
      /\ Len(g[n].kv) = Len(h[n].kv) + 1
      /\ \A m \in DOMAIN h : g[m].height = h[m].height
      /\ \A m \in DOMAIN h \ {n} : g[m].kv = h[m].kv
  BY <1>a DEF Inserted
<1> HIDE DEF g
<1>4. Lens(g, rt, Nil, FALSE)
  <2> SUFFICES ASSUME NEW m \in DOMAIN g
               PROVE  /\ Len(g[m].kv) <= CAPACITY
                      /\ m # rt => Len(g[m].kv) >= IF m = Nil THEN MIN_LEN - 1 ELSE MIN_LEN
                      /\ g[m].height = 0 \/ m = Nil \/ (m = rt /\ FALSE) \/ Len(g[m].kv) >= 1
    BY DEF Lens
  <2>1. CASE m = n
    <3>1. m # rt => Len(h[m].kv) >= IF m = Nil THEN MIN_LEN - 1 ELSE MIN_LEN
      BY <1>1, <2>1 DEF Lens
    <3> QED BY <1>2, <1>3, <2>1, <3>1, MinLen
  <2>2. CASE m # n
    <3>1. m \in DOMAIN h /\ g[m].kv = h[m].kv /\ g[m].height = h[m].height
      BY <1>3, <2>2
    <3> QED BY <1>1, <3>1 DEF Lens
  <2> QED BY <2>1, <2>2
<1>5. Tree(g, rt, Nil, Nil, FALSE)
  BY <1>3, <1>4 DEF Tree
<1>6. Countable(h) => Tally(g, h, 1)
  BY <1>a, TallyInserted
<1>7. LeafPair(g, n, i)
  BY <1>2, <1>3 DEF LeafPair
<1> QED BY <1>5, <1>6, <1>7 DEF g

\* A SplitResult on its way up: n has been split and rg is its right half.
Climb(h, rt, n, rg) ==
  /\ n \in DOMAIN h /\ rg \in DOMAIN h /\ rg # rt /\ rg # n
  /\ h[rg].height = h[n].height /\ Len(h[n].kv) >= MIN_LEN

\* The length bounds after n has been split into n and new.
LEMMA SplitLens ==
  ASSUME NEW h, NEW rt, NEW f, HeapType(h), Lens(h, rt, Nil, FALSE), NEW n \in DOMAIN h,
         NEW new, NEW g, HeapType(g), DOMAIN g = DOMAIN h \cup {new},
         \A m \in DOMAIN h : g[m].height = h[m].height,
         \A m \in DOMAIN h \ {n} : Len(g[m].kv) = Len(h[m].kv),
         Len(g[n].kv) >= MIN_LEN, Len(g[n].kv) <= CAPACITY,
         Len(g[new].kv) >= MIN_LEN, Len(g[new].kv) <= CAPACITY
  PROVE  Lens(g, rt, Nil, FALSE)
<1> SUFFICES ASSUME NEW m \in DOMAIN g
             PROVE  /\ Len(g[m].kv) <= CAPACITY
                    /\ m # rt => Len(g[m].kv) >= IF m = Nil THEN MIN_LEN - 1 ELSE MIN_LEN
                    /\ g[m].height = 0 \/ m = Nil \/ (m = rt /\ FALSE) \/ Len(g[m].kv) >= 1
  BY DEF Lens
<1>1. m # Nil /\ Len(g[m].kv) \in Nat
  BY HeapNode
<1>2. CASE m \in {n, new}
  <2>1. Len(g[m].kv) >= MIN_LEN /\ Len(g[m].kv) <= CAPACITY
    BY <1>2
  <2> QED BY ONLY <1>1, <2>1, MinLen
<1>3. CASE m \notin {n, new}
  <2>1. m \in DOMAIN h /\ Len(g[m].kv) = Len(h[m].kv) /\ g[m].height = h[m].height
    BY <1>3
  <2> QED BY ONLY Lens(h, rt, Nil, FALSE), <1>1, <2>1 DEF Lens
<1> QED BY <1>2, <1>3

\* Handle<Leaf, Edge>::insert into a full leaf.
LEMMA TreeLeafSplit ==
  ASSUME NEW h, NEW rt, Tree(h, rt, Nil, Nil, FALSE), NEW n, n \in DOMAIN h, h[n].height = 0,
         Len(h[n].kv) = CAPACITY, NEW s, GoodSplit(s), NEW kv, kv \in KV,
         NEW new, new \in NodeId, new \notin DOMAIN h,
         NEW into, s.side = "left" => into = n, s.side = "right" => into = new
  PROVE  /\ Tree(leaf_insert_fit(split_leaf(h, n, s.middle, new), into, s.idx, kv),
                 rt, new, Nil, FALSE)
         /\ Climb(leaf_insert_fit(split_leaf(h, n, s.middle, new), into, s.idx, kv), rt, n, new)
         /\ h[n].kv[s.middle + 1] \in KV
         /\ Countable(h)
              => Tally(leaf_insert_fit(split_leaf(h, n, s.middle, new), into, s.idx, kv), h, 0)
         /\ LeafPair(leaf_insert_fit(split_leaf(h, n, s.middle, new), into, s.idx, kv), into, s.idx)
<1> DEFINE k == split_leaf(h, n, s.middle, new)
           g == leaf_insert_fit(k, into, s.idx, kv)
<1>1. WellFormed(h, {rt, Nil}) /\ Lens(h, rt, Nil, FALSE) /\ HeapType(h)
      /\ rt \in DOMAIN h \cup {Nil}
  BY DEF Tree, WellFormed
<1>2. s.middle \in 0 .. Len(h[n].kv) - 1 /\ s.middle \in Nat /\ s.idx \in Nat
  BY MinLen DEF GoodSplit
<1>a. Halved(k, h, {rt, Nil}, n, s.middle, new)
  BY <1>1, <1>2, SplitLeaf
<1>3. /\ DOMAIN k = DOMAIN h \cup {new} /\ WellFormed(k, {rt, Nil} \cup {new})
      /\ Len(k[n].kv) = s.middle /\ Len(k[new].kv) = Len(h[n].kv) - s.middle - 1
      /\ k[new].height = 0
      /\ \A m \in DOMAIN h : k[m].height = h[m].height
      /\ \A m \in DOMAIN h \ {n} : k[m].kv = h[m].kv
      /\ h[n].kv[s.middle + 1] \in KV
  BY <1>a DEF Halved
<1>4. n # new /\ new # rt /\ new # Nil /\ n # Nil
  BY <1>1, HeapNode, NilAssumption
<1> HIDE DEF k
<1>5. into \in DOMAIN k /\ k[into].height = 0 /\ into \in {n, new}
  BY <1>3 DEF GoodSplit
<1>6. Len(k[into].kv) \in Nat /\ s.idx \in 0 .. Len(k[into].kv)
  BY <1>2, <1>3, MinLen, SMTT(30) DEF GoodSplit
<1>b. Inserted(g, k, {rt, Nil} \cup {new}, into)
  BY <1>3, <1>5, <1>6, LeafInsertFit
<1>7. /\ DOMAIN g = DOMAIN k /\ WellFormed(g, {rt, Nil} \cup {new})
      /\ Len(g[into].kv) = Len(k[into].kv) + 1
      /\ \A m \in DOMAIN k : g[m].height = k[m].height
      /\ \A m \in DOMAIN k \ {into} : g[m].kv = k[m].kv
  BY <1>b DEF Inserted
<1> HIDE DEF g
<1>8. /\ Len(g[n].kv) >= MIN_LEN /\ Len(g[n].kv) <= CAPACITY
      /\ Len(g[new].kv) >= MIN_LEN /\ Len(g[new].kv) <= CAPACITY
  <2>1. CASE s.side = "left"
    <3>1. Len(g[n].kv) = s.middle + 1 /\ Len(g[new].kv) = CAPACITY - s.middle - 1
      BY <1>3, <1>4, <1>7, <2>1
    <3> QED BY <3>1, <2>1, <1>2, MinLen DEF GoodSplit
  <2>2. CASE s.side = "right"
    <3>1. Len(g[n].kv) = s.middle /\ Len(g[new].kv) = CAPACITY - s.middle - 1 + 1
      BY <1>3, <1>4, <1>7, <2>2
    <3> QED BY <3>1, <2>2, <1>2, MinLen DEF GoodSplit
  <2> QED BY <2>1, <2>2 DEF GoodSplit
<1>9. HeapType(g) /\ DOMAIN g = DOMAIN h \cup {new}
  BY <1>3, <1>7 DEF WellFormed
<1>10. /\ \A m \in DOMAIN h : g[m].height = h[m].height
       /\ \A m \in DOMAIN h \ {n} : Len(g[m].kv) = Len(h[m].kv)
       /\ g[new].height = 0
  BY <1>3, <1>5, <1>7
<1>11. Lens(g, rt, Nil, FALSE)
  BY ONLY <1>1, <1>8, <1>9, <1>10, n \in DOMAIN h, SplitLens
<1>12. WellFormed(g, {rt, new})
  <2>1. ({rt, Nil} \cup {new}) \cap DOMAIN g = {rt, new} \cap DOMAIN g
    BY <1>9, HeapNode
  <2> QED BY <1>7, <2>1, TopsExt
<1>13. Tree(g, rt, new, Nil, FALSE)
  BY <1>1, <1>9, <1>11, <1>12 DEF Tree
<1>14. Climb(g, rt, n, new)
  BY <1>4, <1>8, <1>9, <1>10 DEF Climb
<1>15. ASSUME Countable(h) PROVE Tally(g, h, 0)
  <2>1. Tally(k, h, - 1)
    BY <1>a, <1>2, <1>15, TallyHalved
  <2>2. Tally(g, k, 1)
    BY <1>b, <1>5, <2>1, TallyInserted DEF Tally
  <2> QED BY <1>15, <2>1, <2>2, TallyTwice
<1>16. LeafPair(g, into, s.idx)
  BY <1>5, <1>6, <1>7 DEF LeafPair
<1> QED BY <1>3, <1>13, <1>14, <1>15, <1>16 DEF g, k

\* ascend: a parent is an internal node one higher, with the child at parent_idx.
LEMMA ParentFacts ==
  ASSUME NEW h, NEW tops, WellFormed(h, tops), NEW n, n \in DOMAIN h, h[n].parent # Nil
  PROVE  /\ n \notin tops /\ h[n].parent \in DOMAIN h /\ h[n].parent # n
         /\ h[h[n].parent].height = h[n].height + 1 /\ h[n].height \in Nat
         /\ h[h[n].parent].height > 0 /\ h[h[n].parent].height # 0
         /\ h[n].parent_idx \in 0 .. Len(h[h[n].parent].kv)
         /\ descend(h, h[n].parent, h[n].parent_idx) = n
<1> DEFINE p == h[n].parent
<1>1. /\ n \notin tops /\ p \in DOMAIN h
      /\ h[n].parent_idx + 1 \in 1 .. Len(h[p].edges)
      /\ h[p].edges[h[n].parent_idx + 1] = n
      /\ h[p].height = h[n].height + 1
  BY WellFormedFacts
<1>2. h[n].height \in Nat /\ h[n].parent_idx \in Nat /\ h[p].height \in Nat
      /\ Len(h[p].kv) \in Nat
  BY <1>1, HeapNode DEF WellFormed
<1>3. h[p].height # 0 /\ h[p].height > 0 /\ p # n
  BY <1>1, <1>2
<1>4. Len(h[p].edges) = Len(h[p].kv) + 1
  BY <1>1, <1>3, NodeArity
<1> QED BY <1>1, <1>2, <1>3, <1>4, SMTT(30) DEF descend

\* A node without a parent is the root or the half that has no place yet.
LEMMA NoParent ==
  ASSUME NEW h, NEW tops, WellFormed(h, tops), NEW n, n \in DOMAIN h, h[n].parent = Nil
  PROVE  n \in tops
<1>1. n \notin tops => h[n].parent \in DOMAIN h
  BY WellFormedFacts
<1>2. Nil \notin DOMAIN h
  BY HeapNode DEF WellFormed
<1> QED BY <1>1, <1>2

\* insert_recursing when the parent of the split node has room.
LEMMA TreeUpFit ==
  ASSUME NEW h, NEW rt, NEW rg, Tree(h, rt, rg, Nil, FALSE), NEW n, Climb(h, rt, n, rg),
         h[n].parent # Nil, Len(h[h[n].parent].kv) < CAPACITY, NEW kv, kv \in KV
  PROVE  /\ Tree(internal_insert_fit(h, h[n].parent, h[n].parent_idx, kv, rg),
                 rt, Nil, Nil, FALSE)
         /\ Countable(h)
              => Tally(internal_insert_fit(h, h[n].parent, h[n].parent_idx, kv, rg), h, 1)
         /\ LeavesKept(internal_insert_fit(h, h[n].parent, h[n].parent_idx, kv, rg), h)
<1> DEFINE p == h[n].parent
           i == h[n].parent_idx
           g == internal_insert_fit(h, p, i, kv, rg)
<1>1. WellFormed(h, {rt, rg}) /\ Lens(h, rt, Nil, FALSE) /\ HeapType(h)
      /\ rt \in DOMAIN h \cup {Nil}
  BY DEF Tree, WellFormed
<1>2. n \in DOMAIN h /\ rg \in DOMAIN h /\ rg # rt /\ rg # n /\ h[rg].height = h[n].height
  BY DEF Climb
<1>3. /\ p \in DOMAIN h /\ h[p].height = h[n].height + 1 /\ h[n].height \in Nat
      /\ h[p].height > 0 /\ i \in 0 .. Len(h[p].kv)
  BY <1>1, <1>2, ParentFacts
<1>4. rg # p /\ h[rg].height = h[p].height - 1 /\ rg \in {rt, rg} \cap DOMAIN h
  BY <1>2, <1>3
<1> HIDE DEF p, i
<1>a. Inserted(g, h, {rt, rg} \ {rg}, p)
  BY ONLY <1>1, <1>3, <1>4, kv \in KV, InternalInsertFit
<1>5. /\ DOMAIN g = DOMAIN h /\ WellFormed(g, {rt, rg} \ {rg})
      /\ Len(g[p].kv) = Len(h[p].kv) + 1
      /\ \A m \in DOMAIN h : g[m].height = h[m].height
      /\ \A m \in DOMAIN h \ {p} : g[m].kv = h[m].kv
  BY <1>a DEF Inserted
<1> HIDE DEF g
<1>6. WellFormed(g, {rt, Nil})
  <2>1. Nil \notin DOMAIN h
    BY <1>1, HeapNode
  <2>2. ({rt, rg} \ {rg}) \cap DOMAIN g = {rt, Nil} \cap DOMAIN g
    BY <1>2, <1>5, <2>1
  <2> QED BY <1>5, <2>2, TopsExt
<1>7. Lens(g, rt, Nil, FALSE)
  <2> SUFFICES ASSUME NEW m \in DOMAIN g
               PROVE  /\ Len(g[m].kv) <= CAPACITY
                      /\ m # rt => Len(g[m].kv) >= IF m = Nil THEN MIN_LEN - 1 ELSE MIN_LEN
                      /\ g[m].height = 0 \/ m = Nil \/ (m = rt /\ FALSE) \/ Len(g[m].kv) >= 1
    BY DEF Lens
  <2>1. m \in DOMAIN h /\ Len(h[m].kv) \in Nat
    BY <1>1, <1>5, HeapNode
  <2>2. /\ Len(h[m].kv) <= CAPACITY
        /\ m # rt => Len(h[m].kv) >= IF m = Nil THEN MIN_LEN - 1 ELSE MIN_LEN
        /\ h[m].height = 0 \/ m = Nil \/ (m = rt /\ FALSE) \/ Len(h[m].kv) >= 1
    BY <1>1, <2>1 DEF Lens
  <2>3. CASE m = p
    <3>1. Len(g[m].kv) = Len(h[m].kv) + 1 /\ Len(h[m].kv) < CAPACITY
      BY <1>5, <2>3 DEF p
    <3> QED BY ONLY <2>1, <2>2, <3>1, MinLen
  <2>4. CASE m # p
    BY <1>5, <2>1, <2>2, <2>4
  <2> QED BY <2>3, <2>4
<1>8. Tree(g, rt, Nil, Nil, FALSE)
  BY <1>1, <1>5, <1>6, <1>7 DEF Tree
<1>9. Countable(h) => Tally(g, h, 1)
  BY <1>a, <1>3, TallyInserted
<1>10. LeavesKept(g, h)
  BY <1>3, <1>5 DEF LeavesKept
<1> QED BY <1>8, <1>9, <1>10 DEF g, p, i

\* insert_recursing when the parent of the split node is full.
LEMMA TreeUpSplit ==
  ASSUME NEW h, NEW rt, NEW rg, Tree(h, rt, rg, Nil, FALSE), NEW n, Climb(h, rt, n, rg),
         NEW p, p = h[n].parent, p # Nil, Len(h[p].kv) = CAPACITY,
         NEW s, GoodSplit(s), NEW kv, kv \in KV,
         NEW new, new \in NodeId, new \notin DOMAIN h,
         NEW into, s.side = "left" => into = p, s.side = "right" => into = new
  PROVE  /\ Tree(internal_insert_fit(split_internal(h, p, s.middle, new), into, s.idx, kv, rg),
                 rt, new, Nil, FALSE)
         /\ Climb(internal_insert_fit(split_internal(h, p, s.middle, new), into, s.idx, kv, rg),
                  rt, p, new)
         /\ h[p].kv[s.middle + 1] \in KV
         /\ Countable(h)
              => Tally(internal_insert_fit(split_internal(h, p, s.middle, new), into, s.idx, kv, rg),
                       h, 0)
         /\ LeavesKept(internal_insert_fit(split_internal(h, p, s.middle, new), into, s.idx, kv, rg), h)
<1> DEFINE k == split_internal(h, p, s.middle, new)
           g == internal_insert_fit(k, into, s.idx, kv, rg)
           T == {rt, rg} \cup {new}
<1>1. WellFormed(h, {rt, rg}) /\ Lens(h, rt, Nil, FALSE) /\ HeapType(h)
      /\ rt \in DOMAIN h \cup {Nil}
  BY DEF Tree, WellFormed
<1>2. n \in DOMAIN h /\ rg \in DOMAIN h /\ rg # rt /\ rg # n /\ h[rg].height = h[n].height
  BY DEF Climb
<1>3. /\ p \in DOMAIN h /\ h[p].height = h[n].height + 1 /\ h[n].height \in Nat
      /\ h[p].height > 0 /\ h[p].height # 0
  BY <1>1, <1>2, ParentFacts
<1>4. rg # p /\ h[rg].height = h[p].height - 1
  BY <1>2, <1>3
<1>5. s.middle \in 0 .. Len(h[p].kv) - 1 /\ s.middle \in Nat /\ s.idx \in Nat
  BY MinLen DEF GoodSplit
<1>a. Halved(k, h, {rt, rg}, p, s.middle, new)
  BY <1>1, <1>3, <1>5, SplitInternal
<1>6. /\ DOMAIN k = DOMAIN h \cup {new} /\ WellFormed(k, T)
      /\ Len(k[p].kv) = s.middle /\ Len(k[new].kv) = Len(h[p].kv) - s.middle - 1
      /\ k[new].height = h[p].height
      /\ \A m \in DOMAIN h : k[m].height = h[m].height
      /\ \A m \in DOMAIN h \ {p} : k[m].kv = h[m].kv
      /\ h[p].kv[s.middle + 1] \in KV
  BY <1>a DEF Halved
<1>7. p # new /\ new # rt /\ new # Nil /\ p # Nil /\ new # rg
  BY <1>1, <1>2, <1>3, NilAssumption
<1> HIDE DEF k
<1>8. into \in DOMAIN k /\ k[into].height = h[p].height /\ into \in {p, new}
  BY <1>3, <1>6 DEF GoodSplit
<1>9. Len(k[into].kv) \in Nat /\ s.idx \in 0 .. Len(k[into].kv)
  BY <1>5, <1>6, MinLen, SMTT(60) DEF GoodSplit
<1>10. /\ k[into].height > 0 /\ rg \in T \cap DOMAIN k /\ rg # into
       /\ k[rg].height = k[into].height - 1
  BY <1>2, <1>3, <1>4, <1>6, <1>7, <1>8
<1> HIDE DEF T
<1>b. Inserted(g, k, T \ {rg}, into)
  BY <1>6, <1>8, <1>9, <1>10, InternalInsertFit
<1>11. /\ DOMAIN g = DOMAIN k /\ WellFormed(g, T \ {rg})
       /\ Len(g[into].kv) = Len(k[into].kv) + 1
       /\ \A m \in DOMAIN k : g[m].height = k[m].height
       /\ \A m \in DOMAIN k \ {into} : g[m].kv = k[m].kv
  BY <1>b DEF Inserted
<1> HIDE DEF g
<1>12. /\ Len(g[p].kv) >= MIN_LEN /\ Len(g[p].kv) <= CAPACITY
       /\ Len(g[new].kv) >= MIN_LEN /\ Len(g[new].kv) <= CAPACITY
  <2>1. CASE s.side = "left"
    <3>1. Len(g[p].kv) = s.middle + 1 /\ Len(g[new].kv) = CAPACITY - s.middle - 1
      BY <1>3, <1>6, <1>7, <1>11, <2>1
    <3>2. /\ s.middle + 1 >= MIN_LEN /\ s.middle + 1 <= CAPACITY
          /\ CAPACITY - s.middle - 1 >= MIN_LEN
      BY <2>1 DEF GoodSplit
    <3>3. s.middle \in Nat
      BY <1>5
    <3> QED BY ONLY <3>1, <3>2, <3>3, MinLen
  <2>2. CASE s.side = "right"
    <3>1. Len(g[p].kv) = s.middle /\ Len(g[new].kv) = CAPACITY - s.middle - 1 + 1
      BY <1>3, <1>6, <1>7, <1>11, <2>2
    <3>2. /\ s.middle >= MIN_LEN /\ s.middle <= CAPACITY
          /\ CAPACITY - s.middle >= MIN_LEN
      BY <1>5, <2>2, MinLen DEF GoodSplit
    <3>3. s.middle \in Nat
      BY <1>5
    <3> QED BY ONLY <3>1, <3>2, <3>3, MinLen
  <2> QED BY <2>1, <2>2 DEF GoodSplit
<1>13. HeapType(g) /\ DOMAIN g = DOMAIN h \cup {new}
  BY <1>6, <1>11 DEF WellFormed
<1>14. /\ \A m \in DOMAIN h : g[m].height = h[m].height
       /\ \A m \in DOMAIN h \ {p} : Len(g[m].kv) = Len(h[m].kv)
       /\ g[new].height = g[p].height
  BY <1>3, <1>6, <1>8, <1>11, ZenonT(30)
<1>15. Lens(g, rt, Nil, FALSE)
  BY ONLY <1>1, <1>12, <1>13, <1>14, <1>3, SplitLens
<1>16. WellFormed(g, {rt, new})
  <2>1. T \ {rg} = {rt, new}
    BY <1>2, <1>7 DEF T
  <2> QED BY <1>11, <2>1
<1>17. Tree(g, rt, new, Nil, FALSE)
  BY <1>1, <1>13, <1>15, <1>16 DEF Tree
<1>18. Climb(g, rt, p, new)
  BY <1>3, <1>7, <1>12, <1>13, <1>14 DEF Climb
<1>19. ASSUME Countable(h) PROVE Tally(g, h, 0)
  <2>1. Tally(k, h, - 1)
    BY <1>a, <1>3, <1>5, <1>19, TallyHalved
  <2>2. Tally(g, k, 1)
    BY <1>b, <1>8, <2>1, TallyInserted DEF Tally
  <2> QED BY <1>19, <2>1, <2>2, TallyTwice
<1>20. LeavesKept(g, h)
  <2> SUFFICES ASSUME NEW m \in DOMAIN h, h[m].height = 0
               PROVE  m \in DOMAIN g /\ g[m].height = 0 /\ g[m].kv = h[m].kv
    BY DEF LeavesKept
  <2>1. m # p /\ m # new /\ m \in DOMAIN k
    BY <1>3, <1>6
  <2> QED BY <1>6, <1>8, <1>11, <2>1
<1> QED BY <1>6, <1>17, <1>18, <1>19, <1>20 DEF g, k

\* The root was split: the closure of VacantEntry::insert grows the tree.
LEMMA TreeSplitRoot ==
  ASSUME NEW h, NEW rt, NEW rg, Tree(h, rt, rg, Nil, FALSE), Climb(h, rt, rt, rg),
         NEW new, new \in NodeId, new \notin DOMAIN h, NEW kv, kv \in KV
  PROVE  /\ Tree(push_root_level(h, rt, new, kv, rg), new, Nil, Nil, FALSE)
         /\ Countable(h) => Tally(push_root_level(h, rt, new, kv, rg), h, 1)
         /\ LeavesKept(push_root_level(h, rt, new, kv, rg), h)
<1> DEFINE g == push_root_level(h, rt, new, kv, rg)
<1>1. WellFormed(h, {rt, rg}) /\ Lens(h, rt, Nil, FALSE) /\ HeapType(h)
  BY DEF Tree, WellFormed
<1>2. /\ rt \in {rt, rg} \cap DOMAIN h /\ rg \in {rt, rg} \cap DOMAIN h /\ rg # rt
      /\ h[rg].height = h[rt].height /\ Len(h[rt].kv) >= MIN_LEN
  BY DEF Climb
<1>a. Grown(g, h, {rt, rg}, rt, rg, new)
  BY <1>1, <1>2, PushRootLevel
<1>3. /\ DOMAIN g = DOMAIN h \cup {new}
      /\ WellFormed(g, ({rt, rg} \ {rt, rg}) \cup {new})
      /\ Len(g[new].kv) = 1 /\ g[new].height = h[rt].height + 1
      /\ \A m \in DOMAIN h : g[m].kv = h[m].kv /\ g[m].height = h[m].height
  BY <1>a DEF Grown
<1> HIDE DEF g
<1>4. WellFormed(g, {new, Nil})
  <2>1. Nil \notin DOMAIN g
    BY <1>1, <1>3, HeapNode, NilAssumption
  <2>2. (({rt, rg} \ {rt, rg}) \cup {new}) \cap DOMAIN g = {new, Nil} \cap DOMAIN g
    BY <2>1
  <2> QED BY <1>3, <2>2, TopsExt
<1>5. Lens(g, new, Nil, FALSE)
  <2> SUFFICES ASSUME NEW m \in DOMAIN g
               PROVE  /\ Len(g[m].kv) <= CAPACITY
                      /\ m # new => Len(g[m].kv) >= IF m = Nil THEN MIN_LEN - 1 ELSE MIN_LEN
                      /\ g[m].height = 0 \/ m = Nil \/ (m = new /\ FALSE) \/ Len(g[m].kv) >= 1
    BY DEF Lens
  <2>1. CASE m = new
    <3>1. Len(g[m].kv) = 1
      BY <1>3, <2>1
    <3> QED BY ONLY <2>1, <3>1, MinLen
  <2>2. CASE m # new
    <3>1. m \in DOMAIN h /\ g[m].kv = h[m].kv /\ g[m].height = h[m].height
      BY <1>3, <2>2
    <3>2. m # Nil /\ Len(h[m].kv) \in Nat
      BY <1>1, <3>1, HeapNode
    <3>3. Len(h[m].kv) <= CAPACITY /\ (m # rt => Len(h[m].kv) >= MIN_LEN)
      BY <1>1, <3>1, <3>2 DEF Lens
    <3> QED BY ONLY <1>2, <3>1, <3>2, <3>3, MinLen
  <2> QED BY <2>1, <2>2
<1>6. Tree(g, new, Nil, Nil, FALSE)
  BY <1>3, <1>4, <1>5 DEF Tree
<1>7. Countable(h) => Tally(g, h, 1)
  BY <1>a, TallyGrown
<1>8. LeavesKept(g, h)
  BY <1>3 DEF LeavesKept
<1> QED BY <1>6, <1>7, <1>8 DEF g

\* g is h with one pair less in the leaf n.
Removed(g, h, n) ==
  /\ DOMAIN g = DOMAIN h /\ Len(g[n].kv) = Len(h[n].kv) - 1
  /\ \A m \in DOMAIN h : /\ g[m].height = h[m].height /\ g[m].edges = h[m].edges
                         /\ g[m].parent = h[m].parent /\ g[m].parent_idx = h[m].parent_idx
  /\ \A m \in DOMAIN h \ {n} : g[m].kv = h[m].kv

\* The pair is no longer counted.
LEMMA TallyRemoved ==
  ASSUME NEW g, NEW h, NEW n, n \in DOMAIN h, Countable(h), Removed(g, h, n), Len(h[n].kv) > 0
  PROVE  Tally(g, h, - 1)
<1>1. /\ DOMAIN g = DOMAIN h /\ Len(g[n].kv) = Len(h[n].kv) + (- 1) /\ Len(g[n].kv) \in Nat
      /\ - 1 \in Int
      /\ \A m \in DOMAIN h \ {n} : Len(g[m].kv) = Len(h[m].kv)
  BY DEF Removed, Countable
<1> QED BY <1>1, TallyOne

\* A merge or a steal that follows the removal does not change that.
LEMMA TallyMoved ==
  ASSUME NEW f, NEW g, NEW h, Countable(h), Tally(g, h, - 1), Countable(g) => Tally(f, g, 0)
  PROVE  Tally(f, h, - 1)
<1>1. Tally(f, g, 0)
  BY DEF Tally
<1>2. Tally(f, h, 0 + (- 1))
  BY <1>1, TallyTwice
<1> QED BY <1>2

\* Handle<Leaf, KV>::remove: the leaf may then lack one pair.
LEMMA TreeLeafRemove ==
  ASSUME NEW h, NEW rt, Tree(h, rt, Nil, Nil, FALSE), NEW n, n \in DOMAIN h, h[n].height = 0,
         NEW i, i \in Nat, i < Len(h[n].kv)
  PROVE  LET g == [h EXCEPT ![n] = WithKV(h[n], slice_remove(h[n].kv, i))]
         IN  /\ Removed(g, h, n) /\ Tree(g, rt, Nil, n, FALSE)
             /\ Len(g[n].kv) >= MIN_LEN \/ n = rt => Tree(g, rt, Nil, Nil, FALSE)
<1> DEFINE g == [h EXCEPT ![n] = WithKV(h[n], slice_remove(h[n].kv, i))]
<1>1. WellFormed(h, {rt, Nil}) /\ Lens(h, rt, Nil, FALSE) /\ HeapType(h)
      /\ rt \in DOMAIN h \cup {Nil}
  BY DEF Tree, WellFormed
<1>2. Len(h[n].kv) \in Nat /\ i \in 0 .. Len(h[n].kv) - 1 /\ n # Nil
  BY <1>1, HeapNode
<1>3. /\ DOMAIN g = DOMAIN h /\ WellFormed(g, {rt, Nil})
      /\ Len(g[n].kv) = Len(h[n].kv) - 1
      /\ \A m \in DOMAIN h : /\ g[m].height = h[m].height /\ g[m].edges = h[m].edges
                             /\ g[m].parent = h[m].parent
                             /\ g[m].parent_idx = h[m].parent_idx
      /\ \A m \in DOMAIN h \ {n} : g[m].kv = h[m].kv
  BY <1>1, <1>2, LeafRemove
<1> HIDE DEF g
<1>4. \A m \in DOMAIN g \ {n} : /\ Len(g[m].kv) <= CAPACITY
                                /\ m # rt => Len(g[m].kv) >= MIN_LEN
                                /\ g[m].height = 0 \/ Len(g[m].kv) >= 1
  <2> SUFFICES ASSUME NEW m \in DOMAIN g \ {n}
               PROVE  /\ Len(g[m].kv) <= CAPACITY
                      /\ m # rt => Len(g[m].kv) >= MIN_LEN
                      /\ g[m].height = 0 \/ Len(g[m].kv) >= 1
    OBVIOUS
  <2>1. m \in DOMAIN h /\ g[m].kv = h[m].kv /\ g[m].height = h[m].height /\ m # Nil
    BY <1>1, <1>3, HeapNode
  <2> QED BY <1>1, <2>1 DEF Lens
<1>5. g[n].height = 0 /\ Len(g[n].kv) <= CAPACITY /\ (n # rt => Len(g[n].kv) >= MIN_LEN - 1)
  <2>1. Len(h[n].kv) <= CAPACITY /\ (n # rt => Len(h[n].kv) >= MIN_LEN)
    BY <1>1, <1>2 DEF Lens
  <2> QED BY <1>2, <1>3, <2>1, MinLen
<1>6. Lens(g, rt, n, FALSE)
  BY ONLY <1>4, <1>5 DEF Lens
<1>7. Len(g[n].kv) >= MIN_LEN \/ n = rt => Lens(g, rt, Nil, FALSE)
  <2> SUFFICES ASSUME Len(g[n].kv) >= MIN_LEN \/ n = rt, NEW m \in DOMAIN g
               PROVE  /\ Len(g[m].kv) <= CAPACITY
                      /\ m # rt => Len(g[m].kv) >= IF m = Nil THEN MIN_LEN - 1 ELSE MIN_LEN
                      /\ g[m].height = 0 \/ m = Nil \/ (m = rt /\ FALSE) \/ Len(g[m].kv) >= 1
    BY DEF Lens
  <2>1. m # Nil
    BY <1>1, <1>3, HeapNode
  <2> QED BY <1>4, <1>5, <2>1
<1>8. Removed(g, h, n)
  BY ONLY <1>3 DEF Removed
<1>9. /\ Tree(g, rt, Nil, n, FALSE)
      /\ Len(g[n].kv) >= MIN_LEN \/ n = rt => Tree(g, rt, Nil, Nil, FALSE)
  BY ONLY <1>1, <1>3, <1>6, <1>7 DEF Tree
<1> QED BY <1>8, <1>9 DEF g

\* choose_parent_kv: the pair of the parent beside the child n.
PairBeside(h, n) == IF h[n].parent_idx > 0 THEN h[n].parent_idx - 1 ELSE 0

\* The pair i of p, the parent of n, has n on one side.
Beside(h, n, p, i) ==
  /\ p \in DOMAIN h /\ h[p].height # 0 /\ p # n /\ i \in 0 .. Len(h[p].kv) - 1
  /\ h[n].parent_idx > 0 => descend(h, p, i + 1) = n
  /\ ~(h[n].parent_idx > 0) => descend(h, p, i) = n

\* choose_parent_kv finds a pair beside a node that has a parent, and the node
\* is one of the two children around that pair.
LEMMA PairFacts ==
  ASSUME NEW h, NEW rt, NEW n, Tree(h, rt, Nil, n, FALSE), n \in DOMAIN h,
         NEW p, p = h[n].parent, p # Nil, NEW i, i = PairBeside(h, n)
  PROVE  Beside(h, n, p, i)
<1>1. WellFormed(h, {rt, Nil}) /\ Lens(h, rt, n, FALSE)
  BY DEF Tree
<1>2. /\ p \in DOMAIN h /\ h[p].height # 0 /\ p # n
      /\ h[n].parent_idx \in 0 .. Len(h[p].kv)
      /\ descend(h, p, h[n].parent_idx) = n
  BY <1>1, ParentFacts
<1>3. Len(h[p].kv) \in Nat /\ Len(h[p].kv) >= 1
  <2>1. Len(h[p].kv) \in Nat
    BY <1>1, <1>2, NodeArity
  <2> QED BY <1>1, <1>2, <2>1 DEF Lens
<1>4. CASE h[n].parent_idx > 0
  <2>1. i = h[n].parent_idx - 1
    BY <1>4 DEF PairBeside
  <2>2. i \in 0 .. Len(h[p].kv) - 1 /\ i + 1 = h[n].parent_idx
    BY <1>2, <1>3, <1>4, <2>1
  <2> QED BY <1>2, <1>4, <2>2 DEF Beside
<1>5. CASE ~(h[n].parent_idx > 0)
  <2>1. i = 0 /\ h[n].parent_idx = 0
    BY <1>2, <1>3, <1>5 DEF PairBeside
  <2> QED BY <1>2, <1>3, <1>5, <2>1 DEF Beside
<1> QED BY <1>4, <1>5

\* A leaf or internal node that lacks one pair is merged with a sibling: its
\* parent may then lack one pair in turn.
LEMMA TreeMerge ==
  ASSUME NEW h, NEW rt, NEW n, Tree(h, rt, Nil, n, FALSE), n \in DOMAIN h,
         NEW p, p = h[n].parent, p # Nil, NEW i, i = PairBeside(h, n), can_merge(h, p, i)
  PROVE  /\ Tree(do_merge(h, p, i), rt, Nil, p, FALSE)
         /\ Merged(do_merge(h, p, i), h, {rt, Nil}, p, descend(h, p, i), descend(h, p, i + 1))
         /\ Countable(h) => Tally(do_merge(h, p, i), h, 0)
<1> DEFINE g == do_merge(h, p, i)
           lc == descend(h, p, i)
           rc == descend(h, p, i + 1)
<1>1. WellFormed(h, {rt, Nil}) /\ Lens(h, rt, n, FALSE) /\ HeapType(h)
      /\ rt \in DOMAIN h \cup {Nil}
  BY DEF Tree, WellFormed
<1>2. /\ p \in DOMAIN h /\ h[p].height # 0 /\ p # n /\ i \in 0 .. Len(h[p].kv) - 1
      /\ n = lc \/ n = rc
  <2>1. Beside(h, n, p, i)
    BY PairFacts
  <2> QED BY <2>1 DEF Beside
<1>3. Merged(g, h, {rt, Nil}, p, lc, rc)
  BY <1>1, <1>2, DoMerge
<1>4. lc \in DOMAIN h /\ rc \in DOMAIN h /\ lc # rc /\ h[rc].parent = p
      /\ h[lc].parent = p
  BY <1>1, <1>2, Siblings
<1>5. lc # rt /\ rc # rt /\ Nil \notin DOMAIN h
  <2>1. Nil \notin DOMAIN h
    BY <1>1, HeapNode
  <2>2. \A m \in DOMAIN h : m = rt => h[m].parent = Nil
    BY <1>1, WellFormedFacts
  <2> QED BY <1>4, <2>1, <2>2
<1>6. Len(h[lc].kv) \in Nat /\ Len(h[rc].kv) \in Nat /\ Len(h[p].kv) \in Nat
  BY <1>1, <1>2, <1>4, NodeArity
<1>7. Len(h[lc].kv) + 1 + Len(h[rc].kv) <= CAPACITY
  BY DEF can_merge, len
<1> HIDE DEF g, lc, rc
<1>8. Len(h[lc].kv) >= MIN_LEN \/ Len(h[rc].kv) >= MIN_LEN
  BY ONLY <1>1, <1>2, <1>4, <1>5 DEF Lens
<1>9. Len(g[lc].kv) >= MIN_LEN /\ Len(g[lc].kv) >= 1 /\ Len(g[lc].kv) <= CAPACITY
  <2>1. Len(g[lc].kv) = Len(h[lc].kv) + 1 + Len(h[rc].kv)
    BY <1>3 DEF Merged
  <2>2. PICK a \in Nat : a = Len(h[lc].kv)
    BY <1>6
  <2>3. PICK b \in Nat : b = Len(h[rc].kv)
    BY <1>6
  <2>4. Len(g[lc].kv) = a + 1 + b /\ a + 1 + b <= CAPACITY /\ (a >= MIN_LEN \/ b >= MIN_LEN)
    BY ONLY <1>7, <1>8, <2>1, <2>2, <2>3
  <2> QED BY ONLY <2>4, MinLen, a \in Nat, b \in Nat
<1>10. Len(g[p].kv) <= CAPACITY /\ (p # rt => Len(g[p].kv) >= MIN_LEN - 1)
  <2>1. Len(g[p].kv) = Len(h[p].kv) - 1
    BY <1>3 DEF Merged
  <2>2. Len(h[p].kv) <= CAPACITY /\ (p # rt => Len(h[p].kv) >= MIN_LEN)
    BY <1>1, <1>2 DEF Lens
  <2> QED BY ONLY <1>6, <2>1, <2>2, MinLen
<1>11. \A m \in DOMAIN g \ {p, lc} : /\ Len(g[m].kv) <= CAPACITY
                                     /\ m # rt => Len(g[m].kv) >= MIN_LEN
                                     /\ g[m].height = 0 \/ Len(g[m].kv) >= 1
  <2> SUFFICES ASSUME NEW m \in DOMAIN g \ {p, lc}
               PROVE  /\ Len(g[m].kv) <= CAPACITY
                      /\ m # rt => Len(g[m].kv) >= MIN_LEN
                      /\ g[m].height = 0 \/ Len(g[m].kv) >= 1
    OBVIOUS
  <2>1. m \in DOMAIN h /\ m # rc /\ g[m].kv = h[m].kv /\ g[m].height = h[m].height
    BY <1>3 DEF Merged
  <2>2. m # n
    BY <1>2, <2>1
  <2> QED BY ONLY <1>1, <2>1, <2>2 DEF Lens
<1>12. Lens(g, rt, p, FALSE)
  BY ONLY <1>9, <1>10, <1>11 DEF Lens
<1>13. Tree(g, rt, Nil, p, FALSE)
  <2>1. WellFormed(g, {rt, Nil}) /\ rt \in DOMAIN g \cup {Nil}
    BY <1>1, <1>3, <1>5 DEF Merged
  <2> QED BY <2>1, <1>12 DEF Tree
<1>14. ASSUME Countable(h) PROVE Tally(g, h, 0)
  <2>1. Len(h[p].kv) >= 1
    BY <1>2, <1>6
  <2> QED BY <1>2, <1>3, <1>4, <1>14, <2>1, TallyMerged
<1> QED BY <1>3, <1>13, <1>14 DEF g, lc, rc

\* A steal that leaves both children with enough pairs repairs the tree.
LEMMA StolenTree ==
  ASSUME NEW h, NEW rt, NEW n, Tree(h, rt, Nil, n, FALSE),
         NEW p, p \in DOMAIN h, p # n, h[p].height # 0,
         NEW lc, lc \in DOMAIN h, NEW rc, rc \in DOMAIN h, n = lc \/ n = rc,
         NEW x, NEW y, NEW g, Stolen(g, h, {rt, Nil}, p, lc, rc, x, y),
         x >= MIN_LEN, x <= CAPACITY, y >= MIN_LEN, y <= CAPACITY, x >= 1, y >= 1
  PROVE  Tree(g, rt, Nil, Nil, FALSE)
<1>1. Lens(h, rt, n, FALSE) /\ rt \in DOMAIN h \cup {Nil} /\ HeapType(h)
  BY DEF Tree, WellFormed
<1>2. /\ DOMAIN g = DOMAIN h /\ WellFormed(g, {rt, Nil})
      /\ \A m \in DOMAIN h : g[m].height = h[m].height
      /\ \A m \in DOMAIN h \ {p, lc, rc} : g[m].kv = h[m].kv
      /\ Len(g[p].kv) = Len(h[p].kv) /\ Len(g[lc].kv) = x /\ Len(g[rc].kv) = y
  BY DEF Stolen
<1>3. Lens(g, rt, Nil, FALSE)
  <2> SUFFICES ASSUME NEW m \in DOMAIN g
               PROVE  /\ Len(g[m].kv) <= CAPACITY
                      /\ m # rt => Len(g[m].kv) >= IF m = Nil THEN MIN_LEN - 1 ELSE MIN_LEN
                      /\ g[m].height = 0 \/ m = Nil \/ (m = rt /\ FALSE) \/ Len(g[m].kv) >= 1
    BY DEF Lens
  <2>1. m \in DOMAIN h /\ m # Nil
    BY <1>1, <1>2, HeapNode
  <2>2. CASE m \in {lc, rc}
    BY <1>2, <2>1, <2>2
  <2>3. CASE m \notin {lc, rc}
    <3>1. m # n /\ Len(g[m].kv) = Len(h[m].kv) /\ g[m].height = h[m].height
      BY <1>2, <2>1, <2>3
    <3> QED BY ONLY <1>1, <2>1, <3>1 DEF Lens
  <2> QED BY <2>2, <2>3
<1> QED BY <1>1, <1>2, <1>3 DEF Tree

\* What a node that lacks one pair finds beside it when merging is not possible.
LEMMA StealLens ==
  ASSUME NEW h, NEW rt, NEW n, Tree(h, rt, Nil, n, FALSE), n \in DOMAIN h,
         Len(h[n].kv) = MIN_LEN - 1,
         NEW p, p = h[n].parent, p # Nil, NEW i, Beside(h, n, p, i), ~can_merge(h, p, i),
         NEW m, m \in DOMAIN h, m # n,
         m = descend(h, p, i) \/ m = descend(h, p, i + 1),
         n = descend(h, p, i) \/ n = descend(h, p, i + 1)
  PROVE  /\ Len(h[m].kv) \in Nat /\ Len(h[m].kv) >= MIN_LEN + 2 /\ Len(h[m].kv) <= CAPACITY
<1>1. Lens(h, rt, n, FALSE) /\ HeapType(h)
  BY DEF Tree, WellFormed
<1>2. PICK a \in Nat : a = Len(h[m].kv)
  BY <1>1, HeapNode
<1>3. a <= CAPACITY
  BY <1>1, <1>2 DEF Lens
<1>4. PICK b \in Nat : b = Len(h[n].kv)
  BY <1>1, HeapNode
<1>5. ~(Len(h[descend(h, p, i)].kv) + 1 + Len(h[descend(h, p, i + 1)].kv) <= CAPACITY)
  BY DEF can_merge, len
<1>6. ~(a + 1 + b <= CAPACITY) \/ ~(b + 1 + a <= CAPACITY)
  BY ONLY <1>2, <1>4, <1>5, m # n,
         m = descend(h, p, i) \/ m = descend(h, p, i + 1),
         n = descend(h, p, i) \/ n = descend(h, p, i + 1)
<1>7. b = MIN_LEN - 1
  BY <1>4
<1> QED BY ONLY <1>2, <1>3, <1>6, <1>7, MinLen, a \in Nat, b \in Nat

\* g is h after a steal between the children of p around its pair i: no node
\* is gone, and only p and these children have other pairs.
Shifted(g, h, p, i) ==
  /\ DOMAIN g = DOMAIN h
  /\ \A m \in DOMAIN h : g[m].height = h[m].height
  /\ \A m \in DOMAIN h \ {p, descend(h, p, i), descend(h, p, i + 1)} : g[m].kv = h[m].kv

\* A node that lacks one pair and cannot be merged steals it from a sibling.
LEMMA TreeSteal ==
  ASSUME NEW h, NEW rt, NEW n, Tree(h, rt, Nil, n, FALSE), n \in DOMAIN h,
         Len(h[n].kv) = MIN_LEN - 1,
         NEW p, p = h[n].parent, p # Nil, NEW i, i = PairBeside(h, n), ~can_merge(h, p, i),
         NEW g, h[n].parent_idx > 0 => g = bulk_steal_left(h, p, i, 1),
         ~(h[n].parent_idx > 0) => g = bulk_steal_right(h, p, i, 1)
  PROVE  /\ Tree(g, rt, Nil, Nil, FALSE) /\ Shifted(g, h, p, i)
         /\ Countable(h) => Tally(g, h, 0)
<1> DEFINE lc == descend(h, p, i)
           rc == descend(h, p, i + 1)
           a == Len(h[lc].kv)
           b == Len(h[rc].kv)
<1>1. Beside(h, n, p, i)
  BY PairFacts
<1>2. WellFormed(h, {rt, Nil}) /\ HeapType(h)
  BY DEF Tree, WellFormed
<1>3. /\ p \in DOMAIN h /\ h[p].height # 0 /\ p # n /\ i \in 0 .. Len(h[p].kv) - 1
      /\ h[n].parent_idx > 0 => rc = n
      /\ ~(h[n].parent_idx > 0) => lc = n
  BY <1>1 DEF Beside
<1>4. lc \in DOMAIN h /\ rc \in DOMAIN h /\ lc # rc
  BY <1>2, <1>3, Siblings
<1>5. CASE h[n].parent_idx > 0
  <2>1. a \in Nat /\ a >= MIN_LEN + 2 /\ a <= CAPACITY /\ b = MIN_LEN - 1
    BY <1>1, <1>3, <1>4, <1>5, StealLens
  <2>2. 1 <= a /\ 1 \in Nat /\ 1 >= 1
    BY <2>1, MinLen
  <2>3. Stolen(bulk_steal_left(h, p, i, 1), h, {rt, Nil}, p, lc, rc, a - 1, b + 1)
    BY <1>2, <1>3, <2>2, BulkStealLeft
  <2> HIDE DEF lc, rc, a, b
  <2>4. Stolen(g, h, {rt, Nil}, p, lc, rc, a - 1, b + 1)
    BY ONLY <2>3, <1>5, h[n].parent_idx > 0 => g = bulk_steal_left(h, p, i, 1)
  <2>5. /\ a - 1 >= MIN_LEN /\ a - 1 <= CAPACITY /\ b + 1 >= MIN_LEN /\ b + 1 <= CAPACITY
        /\ a - 1 >= 1 /\ b + 1 >= 1
    BY ONLY <2>1, MinLen
  <2>6. Tree(g, rt, Nil, Nil, FALSE)
    BY <1>3, <1>4, <1>5, <2>4, <2>5, StolenTree
  <2>7. ASSUME Countable(h) PROVE Tally(g, h, 0)
    <3>1. a - 1 \in Nat /\ b + 1 \in Nat /\ (a - 1) + (b + 1) = a + b
      BY ONLY <2>1, MinLen
    <3>2. p # lc /\ p # rc
      BY <1>2, <1>3, Siblings DEF lc, rc
    <3>3. (a - 1) + (b + 1) = Len(h[lc].kv) + Len(h[rc].kv)
      BY ONLY <3>1 DEF a, b
    <3> QED BY <1>3, <1>4, <2>4, <2>7, <3>1, <3>2, <3>3, TallyStolen
  <2> QED BY <2>4, <2>6, <2>7 DEF Stolen, Shifted, lc, rc
<1>6. CASE ~(h[n].parent_idx > 0)
  <2>1. b \in Nat /\ b >= MIN_LEN + 2 /\ b <= CAPACITY /\ a = MIN_LEN - 1
    BY <1>1, <1>3, <1>4, <1>6, StealLens
  <2>2. 1 <= b /\ 1 \in Nat /\ 1 >= 1
    BY <2>1, MinLen
  <2>3. Stolen(bulk_steal_right(h, p, i, 1), h, {rt, Nil}, p, lc, rc, a + 1, b - 1)
    BY <1>2, <1>3, <2>2, BulkStealRight
  <2> HIDE DEF lc, rc, a, b
  <2>4. Stolen(g, h, {rt, Nil}, p, lc, rc, a + 1, b - 1)
    BY ONLY <2>3, <1>6, ~(h[n].parent_idx > 0) => g = bulk_steal_right(h, p, i, 1)
  <2>5. /\ b - 1 >= MIN_LEN /\ b - 1 <= CAPACITY /\ a + 1 >= MIN_LEN /\ a + 1 <= CAPACITY
        /\ b - 1 >= 1 /\ a + 1 >= 1
    BY ONLY <2>1, MinLen
  <2>6. Tree(g, rt, Nil, Nil, FALSE)
    BY <1>3, <1>4, <1>6, <2>4, <2>5, StolenTree
  <2>7. ASSUME Countable(h) PROVE Tally(g, h, 0)
    <3>1. a + 1 \in Nat /\ b - 1 \in Nat /\ (a + 1) + (b - 1) = a + b
      BY ONLY <2>1, MinLen
    <3>2. p # lc /\ p # rc
      BY <1>2, <1>3, Siblings DEF lc, rc
    <3>3. (a + 1) + (b - 1) = Len(h[lc].kv) + Len(h[rc].kv)
      BY ONLY <3>1 DEF a, b
    <3> QED BY <1>3, <1>4, <2>4, <2>7, <3>1, <3>2, <3>3, TallyStolen
  <2> QED BY <2>4, <2>6, <2>7 DEF Stolen, Shifted, lc, rc
<1> QED BY <1>5, <1>6

\* Root::pop_internal_level on a root without pairs.
LEMMA TreePop ==
  ASSUME NEW h, NEW rt, Tree(h, rt, Nil, Nil, TRUE), rt \in DOMAIN h, h[rt].height # 0,
         Len(h[rt].kv) = 0
  PROVE  /\ Tree(pop_internal_level(h, rt), descend(h, rt, 0), Nil, Nil, FALSE)
         /\ Countable(h) => Tally(pop_internal_level(h, rt), h, 0)
<1> DEFINE g == pop_internal_level(h, rt)
           c == descend(h, rt, 0)
<1>1. WellFormed(h, {rt, Nil}) /\ Lens(h, rt, Nil, TRUE) /\ HeapType(h)
  BY DEF Tree, WellFormed
<1>2. h[rt].height > 0 /\ rt \in {rt, Nil}
  BY <1>1, NodeArity
<1>3. Popped(g, h, {rt, Nil}, rt, c)
  BY <1>1, <1>2, PopInternalLevel
<1> HIDE DEF g, c
<1>4. /\ DOMAIN g = DOMAIN h \ {rt} /\ c \in DOMAIN g
      /\ WellFormed(g, ({rt, Nil} \ {rt}) \cup {c})
      /\ \A m \in DOMAIN g : g[m].kv = h[m].kv /\ g[m].height = h[m].height
  BY <1>3 DEF Popped
<1>5. Nil \notin DOMAIN h
  BY <1>1, HeapNode
<1>6. WellFormed(g, {c, Nil})
  <2>1. (({rt, Nil} \ {rt}) \cup {c}) \cap DOMAIN g = {c, Nil} \cap DOMAIN g
    BY <1>4, <1>5
  <2> QED BY <1>4, <2>1, TopsExt
<1>7. Lens(g, c, Nil, FALSE)
  <2> SUFFICES ASSUME NEW m \in DOMAIN g
               PROVE  /\ Len(g[m].kv) <= CAPACITY
                      /\ m # c => Len(g[m].kv) >= IF m = Nil THEN MIN_LEN - 1 ELSE MIN_LEN
                      /\ g[m].height = 0 \/ m = Nil \/ (m = c /\ FALSE) \/ Len(g[m].kv) >= 1
    BY DEF Lens
  <2>1. m \in DOMAIN h /\ m # Nil /\ m # rt /\ g[m].kv = h[m].kv /\ g[m].height = h[m].height
    BY <1>4, <1>5
  <2> QED BY ONLY <1>1, <2>1 DEF Lens
<1>8. Tree(g, c, Nil, Nil, FALSE)
  BY <1>4, <1>6, <1>7 DEF Tree
<1>9. Countable(h) => Tally(g, h, 0)
  BY <1>3, TallyPopped
<1> QED BY <1>8, <1>9 DEF g, c

\* Popping the emptied root: only links above its child change.
LEMMA PopKeeps ==
  ASSUME NEW h, NEW rt, Tree(h, rt, Nil, Nil, TRUE), rt \in DOMAIN h, h[rt].height # 0,
         Len(h[rt].kv) = 0
  PROVE  /\ DOMAIN pop_internal_level(h, rt) = DOMAIN h \ {rt}
         /\ \A m \in DOMAIN h \ {rt} :
              /\ pop_internal_level(h, rt)[m].kv = h[m].kv
              /\ pop_internal_level(h, rt)[m].edges = h[m].edges
              /\ pop_internal_level(h, rt)[m].height = h[m].height
<1> DEFINE g == pop_internal_level(h, rt)
           c == descend(h, rt, 0)
<1>1. WellFormed(h, {rt, Nil}) /\ HeapType(h) /\ rt \in {rt, Nil}
  BY DEF Tree, WellFormed
<1>2. h[rt].height > 0
  BY <1>1, NodeArity
<1>3. Popped(g, h, {rt, Nil}, rt, c)
  BY <1>1, <1>2, PopInternalLevel
<1>4. DOMAIN g = DOMAIN h \ {rt} /\ c \in DOMAIN g
      /\ \A m \in DOMAIN g : g[m].kv = h[m].kv /\ g[m].height = h[m].height
  BY <1>3 DEF Popped
<1>5. \A m \in DOMAIN h \ {rt} : g[m].edges = h[m].edges
  <2> SUFFICES ASSUME NEW m \in DOMAIN h \ {rt}
               PROVE  g[m].edges = h[m].edges
    OBVIOUS
  <2>1. g[m] = [h EXCEPT ![c] = clear_parent_link(h[c])][m]
    BY DEF g, pop_internal_level, Deallocate
  <2>2. h[c] \in Node
    BY <1>1, <1>4, HeapNode
  <2>3. clear_parent_link(h[c]).edges = h[c].edges
    BY <2>2, ClearParentLinkProps
  <2> HIDE DEF c, g
  <2> QED BY <2>1, <2>3
<1> QED BY <1>4, <1>5 DEF g

\* A map at rest is a tree.
LEMMA LegalTree ==
  ASSUME NEW m, LegalMap(m)
  PROVE  /\ Tree(m.heap, m.root, Nil, Nil, FALSE) /\ Countable(m.heap)
         /\ m.length = PairCount(m.heap) /\ m.length \in Int
<1> DEFINE h == m.heap
           r == m.root
<1>1. /\ IsFiniteSet(DOMAIN h) /\ r \in DOMAIN h \cup {Nil} /\ WellFormed(h, {r})
      /\ LegalLens(h, {r}) /\ m.length = PairCount(h) /\ HeapType(h)
  BY DEF LegalMap, WellFormed
<1> HIDE DEF h, r
<1>2. Nil \notin DOMAIN h
  BY <1>1, HeapNode
<1>3. WellFormed(h, {r, Nil})
  <2>1. {r} \cap DOMAIN h = {r, Nil} \cap DOMAIN h
    BY <1>2
  <2> QED BY <1>1, <2>1, TopsExt
<1>4. Lens(h, r, Nil, FALSE)
  BY <1>1, <1>2 DEF Lens, LegalLens, len, IsLeaf
<1>5. Countable(h) /\ PairCount(h) \in Nat
  BY <1>1, WellFormedCountable, PlacesFinite
<1>6. Tree(h, r, Nil, Nil, FALSE)
  BY <1>1, <1>3, <1>4 DEF Tree
<1>7. m.length = PairCount(h) /\ m.length \in Int
  BY <1>1, <1>5
<1> QED BY <1>5, <1>6, <1>7 DEF h, r

\* A tree at rest is a map.
LEMMA TreeLegal ==
  ASSUME NEW m, Tree(m.heap, m.root, Nil, Nil, FALSE), Countable(m.heap),
         m.length = PairCount(m.heap)
  PROVE  LegalMap(m)
<1> DEFINE h == m.heap
           r == m.root
<1>1. /\ WellFormed(h, {r, Nil}) /\ r \in DOMAIN h \cup {Nil} /\ Lens(h, r, Nil, FALSE)
      /\ HeapType(h)
  BY DEF Tree, WellFormed
<1> HIDE DEF h, r
<1>2. Nil \notin DOMAIN h
  BY <1>1, HeapNode
<1>3. WellFormed(h, {r})
  <2>1. {r} \cap DOMAIN h = {r, Nil} \cap DOMAIN h
    BY <1>2
  <2> QED BY <1>1, <2>1, TopsExt
<1>4. LegalLens(h, {r})
  BY <1>1, <1>2 DEF Lens, LegalLens, len, IsLeaf
<1> QED BY <1>1, <1>3, <1>4 DEF LegalMap, Countable, h, r
-----------------------------------------------------------------------------
(* IInv is inductive *)

HandleType == [node : NodeId \cup {Nil}, idx : Nat]

\* A handle is a record of a node and an index.
LEMMA HandleProps ==
  ASSUME NEW n, n \in NodeId \cup {Nil}, NEW i, i \in Nat
  PROVE  Handle(n, i) \in HandleType /\ Handle(n, i).node = n /\ Handle(n, i).idx = i
  BY DEF Handle, HandleType

\* The handle that is None.
LEMMA NoHandleProps == NoHandle \in HandleType /\ NoHandle.node = Nil /\ NoHandle.idx = 0
  BY DEF NoHandle, Handle, HandleType

\* The facts about the present state that the steps below use.
LEMMA IInvFacts ==
  ASSUME IInv
  PROVE  /\ HeapType(heap) /\ WellFormed(heap, {root, right}) /\ Nil \notin DOMAIN heap
         /\ root \in DOMAIN heap \cup {Nil} /\ DOMAIN heap \subseteq NodeId
         /\ cur \in HandleType /\ cur.node \in NodeId \cup {Nil} /\ cur.idx \in Nat
         /\ pos \in HandleType /\ pos.node \in NodeId \cup {Nil} /\ pos.idx \in Nat
         /\ \A n \in DOMAIN heap : /\ Len(heap[n].kv) \in Nat /\ heap[n].height \in Nat
                                   /\ heap[n].kv \in Seq(KV) /\ heap[n].parent_idx \in Nat
<1>1. HeapType(heap) /\ WellFormed(heap, {root, right}) /\ root \in DOMAIN heap \cup {Nil}
  BY DEF IInv, Tree, WellFormed
<1>2. cur \in HandleType /\ pos \in HandleType
  BY DEF IInv, Types, HandleType
<1>3. /\ cur.node \in NodeId \cup {Nil} /\ cur.idx \in Nat
      /\ pos.node \in NodeId \cup {Nil} /\ pos.idx \in Nat
  BY <1>2 DEF HandleType
<1>4. \A n \in DOMAIN heap : /\ n # Nil /\ Len(heap[n].kv) \in Nat /\ heap[n].height \in Nat
                             /\ heap[n].kv \in Seq(KV) /\ heap[n].parent_idx \in Nat
  BY <1>1, HeapNode
<1>5. DOMAIN heap \subseteq NodeId
  BY <1>1 DEF HeapType
<1> QED BY <1>1, <1>2, <1>3, <1>4, <1>5

\* Outside insert_up, fix and the end of a removal, the tree is a map at rest.
LEMMA Quiet ==
  ASSUME IInv, pc \notin {"insert_up", "fix", "next_kv", "finish"}
  PROVE  Tree(heap, root, Nil, Nil, FALSE) /\ right = Nil /\ ~emptied
<1>1. right = Nil /\ ~emptied /\ emptied \in BOOLEAN
  BY DEF IInv, Locals, Types
<1>2. Tree(heap, root, right, Fixed, emptied) /\ Fixed = Nil
  BY DEF IInv, Fixed
<1>3. emptied = FALSE
  BY <1>1
<1> QED BY <1>1, <1>2, <1>3

\* A call that returns with a tree at rest.
LEMMA Returned ==
  ASSUME NEW r, Return(r), r \in Option(KV), Tree(heap', root', Nil, Nil, FALSE),
         length' \in Int
  PROVE  IInv'
<1>1. /\ pc' = "idle" /\ op' = "none" /\ key' = None /\ cur' = NoHandle /\ pos' = NoHandle
      /\ hand' = None /\ right' = Nil /\ refill' = FALSE /\ emptied' = FALSE /\ ret' = r
  BY DEF Return
<1>2. HeapType(heap') /\ root' \in NodeId \cup {Nil}
  BY DEF Tree, WellFormed, HeapType
<1>3. Types'
  BY <1>1, <1>2, NoHandleProps, NoneOption DEF Types, HandleType
<1>4. Tree(heap, root, right, Fixed, emptied)'
  BY <1>1 DEF Fixed
<1>5. Locals'
  BY <1>1 DEF Locals
<1> QED BY <1>3, <1>4, <1>5 DEF IInv

\* The map BTreeMap::new returns satisfies the inductive invariant.
LEMMA IInvInit == Init => IInv
<1> SUFFICES ASSUME Init PROVE IInv
  OBVIOUS
<1>1. DOMAIN heap = {} /\ root = Nil /\ right = Nil
  BY DEF Init
<1>2. HeapType(heap)
  <2>1. heap \in [{} -> Node]
    BY DEF Init
  <2> QED BY <1>1, <2>1 DEF HeapType
<1>a. /\ length = 0 /\ pc = "idle" /\ op = "none" /\ key = None /\ cur = NoHandle
      /\ pos = NoHandle /\ hand = None /\ refill = FALSE /\ emptied = FALSE /\ ret = None
  BY DEF Init
<1>3. Types
  <2>1. /\ key \in Option(Key) /\ hand \in Option(KV) /\ ret \in Option(KV)
        /\ cur \in HandleType /\ pos \in HandleType
    BY <1>a, NoHandleProps, NoneOption
  <2>2. length \in Int
    BY <1>a
  <2>4. refill \in BOOLEAN /\ emptied \in BOOLEAN
    BY <1>a, Zenon
  <2>3. root \in NodeId \cup {Nil} /\ right \in NodeId \cup {Nil}
    BY <1>1
  <2> QED BY ONLY <1>2, <1>a, <2>1, <2>2, <2>3, <2>4 DEF Types, HandleType
<1>4. Tree(heap, root, right, Fixed, emptied)
  BY <1>1, <1>2 DEF Tree, Lens, WellFormed, EdgesLinked, ParentsLinked, Levelled
<1>5. Locals
  BY DEF Init, Locals
<1> QED BY <1>3, <1>4, <1>5 DEF IInv

\* A call that begins with a search.
LEMMA StepCallSearch ==
  ASSUME IInv, NEW o \in SearchOps, NEW k \in Key, CallSearch(o, k)
  PROVE  IInv'
<1>1. /\ pc = "idle" /\ root # Nil /\ op' = o /\ key' = Some(k) /\ ret' = None
      /\ pc' = "search" /\ cur' = Handle(root, 0)
      /\ UNCHANGED <<heap, root, length, pos, hand, right, refill, emptied>>
  BY DEF CallSearch, Goto, map
<1>2. Tree(heap, root, Nil, Nil, FALSE) /\ right = Nil /\ ~emptied
  BY <1>1, Quiet
<1>3. root \in DOMAIN heap /\ root \in NodeId
  BY <1>1, IInvFacts
<1>4. cur' \in HandleType /\ cur'.node = root
  BY <1>1, <1>3, HandleProps
<1>5. key' \in Option(Key) /\ key' # None /\ ret' \in Option(KV)
  BY <1>1, SomeOption, NoneOption
<1>6. Types'
  BY <1>1, <1>4, <1>5 DEF IInv, Types, HandleType
<1>7. Tree(heap, root, right, Fixed, emptied)'
  BY <1>1, <1>2 DEF IInv, Fixed
<1>8. Locals'
  BY <1>1, <1>2, <1>3, <1>4, <1>5 DEF Locals
<1> QED BY <1>6, <1>7, <1>8 DEF IInv

\* entry on a map without a root.
LEMMA StepCallEntryNoRoot ==
  ASSUME IInv, NEW o \in {"insert", "entry"}, NEW k \in Key, CallEntryNoRoot(o, k)
  PROVE  IInv'
<1>1. /\ pc = "idle" /\ root = Nil /\ op' = o /\ key' = Some(k) /\ ret' = None
      /\ pc' = "vacant" /\ cur' = NoHandle
      /\ UNCHANGED <<heap, root, length, pos, hand, right, refill, emptied>>
  BY DEF CallEntryNoRoot, Goto, map
<1>2. Tree(heap, root, Nil, Nil, FALSE) /\ right = Nil /\ ~emptied
  BY <1>1, Quiet
<1>3. key' \in Option(Key) /\ key' # None /\ ret' \in Option(KV)
  BY <1>1, SomeOption, NoneOption
<1>4. Types'
  BY <1>1, <1>3, NoHandleProps DEF IInv, Types, HandleType
<1>5. Tree(heap, root, right, Fixed, emptied)'
  BY <1>1, <1>2 DEF IInv, Fixed
<1>6. Locals'
  BY <1>1, <1>2, <1>3 DEF Locals
<1> QED BY <1>4, <1>5, <1>6 DEF IInv

\* A call on a map without a root returns at once.
LEMMA StepCallNoRoot ==
  ASSUME IInv, NEW o, CallNoRoot(o)
  PROVE  IInv'
<1>1. pc = "idle" /\ Return(None) /\ UNCHANGED <<heap, root, length>>
  BY DEF CallNoRoot, map
<1>2. Tree(heap, root, Nil, Nil, FALSE) /\ length \in Int
  BY <1>1, Quiet DEF IInv, Types
<1> QED BY <1>1, <1>2, Returned, NoneOption

\* Recover::replace creates the root it lacks.
LEMMA StepCallReplaceNoRoot ==
  ASSUME IInv, NEW k \in Key, CallReplaceNoRoot(k)
  PROVE  IInv' /\ Counts(0)
<1> DEFINE n == FreshNode(heap)
<1>1. /\ pc = "idle" /\ root = Nil /\ CanAllocate(heap)
      /\ op' = "replace" /\ key' = Some(k) /\ ret' = None
      /\ heap' = Allocate(heap, n, new_leaf(<<>>)) /\ root' = n
      /\ pc' = "search" /\ cur' = Handle(n, 0)
      /\ UNCHANGED <<length, pos, hand, right, refill, emptied>>
  BY DEF CallReplaceNoRoot, Goto
<1>2. Tree(heap, Nil, Nil, Nil, FALSE) /\ right = Nil /\ ~emptied
  BY <1>1, Quiet
<1>3. n \in NodeId /\ n \notin DOMAIN heap
  BY <1>1, FreshProps
<1> HIDE DEF n
<1>4. Tree(heap', n, Nil, Nil, FALSE) /\ n \in DOMAIN heap' /\ Counts(0)
  <2>1. <<>> \in Seq(KV) /\ Len(<<>>) <= 1 /\ Len(<<>>) = 0
    OBVIOUS
  <2> QED BY <1>1, <1>2, <1>3, <2>1, TreeNewRoot DEF Counts
<1>5. cur' \in HandleType /\ cur'.node = n
  BY <1>1, <1>3, HandleProps
<1>6. key' \in Option(Key) /\ key' # None /\ ret' \in Option(KV)
  BY <1>1, SomeOption, NoneOption
<1>7. HeapType(heap')
  BY <1>4 DEF Tree, WellFormed
<1>8. Types'
  BY <1>1, <1>3, <1>5, <1>6, <1>7 DEF IInv, Types, HandleType
<1>9. Tree(heap, root, right, Fixed, emptied)'
  BY <1>1, <1>2, <1>4 DEF IInv, Types, Fixed
<1>10. Locals'
  BY <1>1, <1>2, <1>4, <1>5, <1>6 DEF Locals
<1> QED BY <1>4, <1>8, <1>9, <1>10 DEF IInv

\* first_entry, last_entry, pop_first and pop_last start at the root.
LEMMA StepCallEnd ==
  ASSUME IInv, NEW o \in EndOps, CallEnd(o)
  PROVE  IInv'
<1>1. /\ pc = "idle" /\ root # Nil /\ op' = o /\ ret' = None
      /\ pc' \in {"first_leaf", "last_leaf"} /\ cur' = Handle(root, 0)
      /\ UNCHANGED <<heap, root, length, key, pos, hand, right, refill, emptied>>
  BY DEF CallEnd, Goto, map
<1>2. Tree(heap, root, Nil, Nil, FALSE) /\ right = Nil /\ ~emptied
  BY <1>1, Quiet
<1>3. root \in DOMAIN heap /\ root \in NodeId
  BY <1>1, IInvFacts
<1>4. cur' \in HandleType /\ cur'.node = root
  BY <1>1, <1>3, HandleProps
<1>5. Types'
  BY <1>1, <1>4, NoneOption DEF IInv, Types, HandleType
<1>6. Tree(heap, root, right, Fixed, emptied)'
  BY <1>1, <1>2 DEF IInv, Fixed
<1>7. Locals'
  BY <1>1, <1>2, <1>3, <1>4 DEF Locals, EndOps
<1> QED BY <1>5, <1>6, <1>7 DEF IInv

\* A pair of an allocated node.
LEMMA PairOf ==
  ASSUME IInv, NEW n, n \in DOMAIN heap, NEW i, i \in Nat, i < Len(heap[n].kv)
  PROVE  heap[n].kv[i + 1] \in KV
<1>1. heap[n].kv \in Seq(KV) /\ Len(heap[n].kv) \in Nat
  BY IInvFacts
<1>2. i + 1 \in 1 .. Len(heap[n].kv)
  BY <1>1
<1> QED BY <1>1, <1>2

\* An edge of an internal node leads to an allocated node that is not the root.
LEMMA ChildOf ==
  ASSUME IInv, NEW n, n \in DOMAIN heap, heap[n].height # 0,
         NEW i, i \in Nat, i <= Len(heap[n].kv)
  PROVE  /\ descend(heap, n, i) \in DOMAIN heap /\ descend(heap, n, i) # root
         /\ descend(heap, n, i) \in NodeId
<1>1. /\ WellFormed(heap, {root, right}) /\ Nil \notin DOMAIN heap /\ Len(heap[n].kv) \in Nat
      /\ DOMAIN heap \subseteq NodeId
  BY IInvFacts
<1>2. Len(heap[n].edges) = Len(heap[n].kv) + 1
  BY <1>1, NodeArity
<1>3. i + 1 \in 1 .. Len(heap[n].edges)
  BY <1>1, <1>2
<1>4. heap[n].edges[i + 1] \in DOMAIN heap /\ heap[heap[n].edges[i + 1]].parent = n
  BY <1>1, <1>3, WellFormedFacts
<1>5. root \in DOMAIN heap => heap[root].parent = Nil
  BY <1>1, WellFormedFacts
<1> QED BY <1>1, <1>4, <1>5 DEF descend

\* find_key_index answers KV(i): the entry is at a pair of the node.
LEMMA StepSearchFound ==
  ASSUME IInv, NEW i, SearchFound(i)
  PROVE  IInv'
<1>1. /\ pc = "search" /\ i \in 0 .. Len(heap[cur.node].kv) - 1
      /\ UNCHANGED <<heap, root, length>>
  BY DEF SearchFound, KVResults, map
<1>2. /\ cur.node \in DOMAIN heap /\ cur.node \in NodeId /\ Len(heap[cur.node].kv) \in Nat
      /\ key # None
  BY <1>1, IInvFacts DEF IInv, Locals
<1>3. i \in Nat /\ i < Len(heap[cur.node].kv)
  BY <1>1, <1>2
<1>4. Tree(heap, root, Nil, Nil, FALSE) /\ right = Nil /\ ~emptied /\ length \in Int
  BY <1>1, Quiet DEF IInv, Types
<1>5. CASE op = "get"
  <2>1. Return(Some(heap[cur.node].kv[i + 1]))
    BY <1>5 DEF SearchFound
  <2>2. Some(heap[cur.node].kv[i + 1]) \in Option(KV)
    BY <1>2, <1>3, PairOf, SomeOption
  <2> QED BY <1>1, <1>4, <2>1, <2>2, Returned
<1>6. CASE op # "get"
  <2>1. /\ pc' = "occupied" /\ cur' = Handle(cur.node, i)
        /\ UNCHANGED <<op, key, pos, hand, right, refill, emptied, ret>>
    BY <1>6 DEF SearchFound, Goto
  <2>2. cur' \in HandleType /\ cur'.node = cur.node /\ cur'.idx = i
    BY <1>2, <1>3, <2>1, HandleProps
  <2>3. Types'
    BY <1>1, <2>1, <2>2 DEF IInv, Types, HandleType
  <2>4. Tree(heap, root, right, Fixed, emptied)'
    BY <1>1, <1>4, <2>1 DEF IInv, Fixed
  <2>5. Locals'
    BY <1>1, <1>2, <1>3, <1>4, <2>1, <2>2 DEF IInv, Locals
  <2> QED BY <2>3, <2>4, <2>5 DEF IInv
<1> QED BY <1>5, <1>6

\* find_key_index answers Edge(i) in an internal node: the child is a node of
\* the tree.
LEMMA StepSearchGoDown ==
  ASSUME IInv, NEW i, SearchGoDown(i)
  PROVE  IInv'
<1>1. /\ pc = "search" /\ heap[cur.node].height # 0 /\ i \in 0 .. Len(heap[cur.node].kv)
      /\ pc' = "search" /\ cur' = Handle(descend(heap, cur.node, i), 0)
      /\ UNCHANGED <<heap, root, length, op, key, pos, hand, right, refill, emptied, ret>>
  BY DEF SearchGoDown, EdgeResults, IsLeaf, Goto, map
<1>2. cur.node \in DOMAIN heap /\ Len(heap[cur.node].kv) \in Nat
  BY <1>1, IInvFacts DEF IInv, Locals
<1>3. i \in Nat /\ i <= Len(heap[cur.node].kv)
  BY <1>1, <1>2
<1>4. descend(heap, cur.node, i) \in DOMAIN heap /\ descend(heap, cur.node, i) \in NodeId
  BY <1>1, <1>2, <1>3, ChildOf
<1>5. cur' \in HandleType /\ cur'.node \in DOMAIN heap
  BY <1>1, <1>4, HandleProps
<1>6. Types'
  BY <1>1, <1>5 DEF IInv, Types, HandleType
<1>7. Tree(heap, root, right, Fixed, emptied)'
  BY <1>1 DEF IInv, Fixed
<1>8. Locals'
  BY <1>1, <1>5 DEF IInv, Locals
<1> QED BY <1>6, <1>7, <1>8 DEF IInv

\* find_key_index answers Edge(i) in a leaf: the vacant entry is at an edge
\* of a leaf.
LEMMA StepSearchMissing ==
  ASSUME IInv, NEW i, SearchMissing(i)
  PROVE  IInv'
<1>1. /\ pc = "search" /\ heap[cur.node].height = 0 /\ i \in 0 .. Len(heap[cur.node].kv)
      /\ UNCHANGED <<heap, root, length>>
  BY DEF SearchMissing, EdgeResults, IsLeaf, map
<1>2. /\ cur.node \in DOMAIN heap /\ cur.node \in NodeId /\ Len(heap[cur.node].kv) \in Nat
      /\ key # None /\ cur.node # Nil
  BY <1>1, IInvFacts DEF IInv, Locals
<1>3. i \in Nat /\ i <= Len(heap[cur.node].kv)
  BY <1>1, <1>2
<1>4. Tree(heap, root, Nil, Nil, FALSE) /\ right = Nil /\ ~emptied /\ length \in Int
  BY <1>1, Quiet DEF IInv, Types
<1>5. CASE op \in {"get", "remove"}
  <2>1. Return(None)
    BY <1>5 DEF SearchMissing
  <2> QED BY <1>1, <1>4, <2>1, NoneOption, Returned
<1>6. CASE op \notin {"get", "remove"}
  <2>1. /\ pc' = "vacant" /\ cur' = Handle(cur.node, i)
        /\ UNCHANGED <<op, key, pos, hand, right, refill, emptied, ret>>
    BY <1>6 DEF SearchMissing, Goto
  <2>2. cur' \in HandleType /\ cur'.node = cur.node /\ cur'.idx = i
    BY <1>2, <1>3, <2>1, HandleProps
  <2>3. cur' # NoHandle
    BY <1>2, <2>2, NoHandleProps
  <2>4. Types'
    BY <1>1, <2>1, <2>2 DEF IInv, Types, HandleType
  <2>5. Tree(heap, root, right, Fixed, emptied)'
    BY <1>1, <1>4, <2>1 DEF IInv, Fixed
  <2>6. Locals'
    BY <1>1, <1>2, <1>3, <1>4, <2>1, <2>2, <2>3 DEF IInv, Locals
  <2> QED BY <2>4, <2>5, <2>6 DEF IInv
<1> QED BY <1>5, <1>6

\* A comparator that panics inside search_tree leaves the tree as it was.
LEMMA StepCompPanics ==
  ASSUME IInv, CompPanics
  PROVE  IInv'
<1>1. pc = "search" /\ Return(None) /\ UNCHANGED <<heap, root, length>>
  BY DEF CompPanics, map
<1>2. Tree(heap, root, Nil, Nil, FALSE) /\ length \in Int
  BY <1>1, Quiet DEF IInv, Types
<1> QED BY <1>1, <1>2, Returned, NoneOption

\* One level of first_leaf_edge or last_leaf_edge.
LEMMA StepEndDescend ==
  ASSUME IInv, EndDescend
  PROVE  IInv'
<1> DEFINE i == IF pc = "first_leaf" THEN 0 ELSE Len(heap[cur.node].kv)
<1>1. /\ pc \in {"first_leaf", "last_leaf"} /\ heap[cur.node].height # 0
      /\ pc' = pc /\ cur' = Handle(descend(heap, cur.node, i), 0)
      /\ UNCHANGED <<heap, root, length, op, key, pos, hand, right, refill, emptied, ret>>
  BY DEF EndDescend, IsLeaf, Goto, map, len
<1>2. cur.node \in DOMAIN heap /\ Len(heap[cur.node].kv) \in Nat
  BY <1>1, IInvFacts DEF IInv, Locals
<1>3. i \in Nat /\ i <= Len(heap[cur.node].kv)
  BY <1>2
<1> HIDE DEF i
<1>4. descend(heap, cur.node, i) \in DOMAIN heap /\ descend(heap, cur.node, i) \in NodeId
  BY <1>1, <1>2, <1>3, ChildOf
<1>5. cur' \in HandleType /\ cur'.node \in DOMAIN heap
  BY <1>1, <1>4, HandleProps
<1>6. Types'
  BY <1>1, <1>5 DEF IInv, Types, HandleType
<1>7. Tree(heap, root, right, Fixed, emptied)'
  BY <1>1 DEF IInv, Fixed
<1>8. Locals'
  BY <1>1, <1>5 DEF IInv, Locals
<1> QED BY <1>6, <1>7, <1>8 DEF IInv

\* The first or last leaf has a pair, or it is an empty root.
LEMMA StepEndReached ==
  ASSUME IInv, EndReached
  PROVE  IInv'
<1>1. /\ pc \in {"first_leaf", "last_leaf"} /\ heap[cur.node].height = 0
      /\ UNCHANGED <<heap, root, length>>
  BY DEF EndReached, IsLeaf, map
<1>2. cur.node \in DOMAIN heap /\ Len(heap[cur.node].kv) \in Nat /\ cur.node \in NodeId
  BY <1>1, IInvFacts DEF IInv, Locals
<1>3. Tree(heap, root, Nil, Nil, FALSE) /\ right = Nil /\ ~emptied /\ length \in Int
  BY <1>1, Quiet DEF IInv, Types
<1>4. CASE Len(heap[cur.node].kv) = 0
  <2>1. Return(None)
    BY <1>4 DEF EndReached, len
  <2> QED BY <1>1, <1>3, <2>1, NoneOption, Returned
<1>5. CASE Len(heap[cur.node].kv) # 0
  <2> DEFINE i == IF pc = "first_leaf" THEN 0 ELSE Len(heap[cur.node].kv) - 1
  <2>1. /\ pc' = "occupied" /\ cur' = Handle(cur.node, i)
        /\ UNCHANGED <<op, key, pos, hand, right, refill, emptied, ret>>
    BY <1>5 DEF EndReached, Goto, len
  <2>2. i \in Nat /\ i < Len(heap[cur.node].kv)
    BY <1>2, <1>5
  <2> HIDE DEF i
  <2>3. cur' \in HandleType /\ cur'.node = cur.node /\ cur'.idx = i
    BY <1>2, <2>1, <2>2, HandleProps
  <2>4. Types'
    BY <1>1, <2>1, <2>3 DEF IInv, Types, HandleType
  <2>5. Tree(heap, root, right, Fixed, emptied)'
    BY <1>1, <1>3, <2>1 DEF IInv, Fixed
  <2>6. Locals'
    BY <1>1, <1>2, <1>3, <2>1, <2>2, <2>3 DEF IInv, Locals
  <2> QED BY <2>4, <2>5, <2>6 DEF IInv
<1> QED BY <1>4, <1>5

\* An Entry dropped unused leaves the tree as it was.
LEMMA StepEntryDrop ==
  ASSUME IInv, EntryDrop
  PROVE  IInv'
<1>1. pc \in {"occupied", "vacant"} /\ Return(None) /\ UNCHANGED <<heap, root, length>>
  BY DEF EntryDrop, map
<1>2. Tree(heap, root, Nil, Nil, FALSE) /\ length \in Int
  BY <1>1, Quiet DEF IInv, Types
<1> QED BY <1>1, <1>2, Returned, NoneOption

\* A pair is put in the place of another: OccupiedEntry::insert, Recover::replace.
LEMMA OverwritePair ==
  ASSUME IInv, pc = "occupied", NEW kv, kv \in KV,
         heap' = [heap EXCEPT ![cur.node] = replace_kv(heap[cur.node], cur.idx, kv)],
         UNCHANGED <<root, length>>
  PROVE  /\ Tree(heap', root', Nil, Nil, FALSE) /\ SameSizes(heap', heap) /\ length' \in Int
         /\ Counts(0)
<1>1. cur.node \in DOMAIN heap /\ cur.idx \in Nat /\ cur.idx < Len(heap[cur.node].kv)
  BY IInvFacts DEF IInv, Locals
<1>2. Tree(heap, root, Nil, Nil, FALSE)
  BY Quiet
<1>3. Tree(heap', root, Nil, Nil, FALSE) /\ SameSizes(heap', heap)
  BY <1>1, <1>2, TreeReplaceKv
<1>4. Counts(0)
  BY <1>3, TallySame DEF SameSizes, Counts
<1> QED BY <1>3, <1>4 DEF IInv, Types

\* OccupiedEntry::insert overwrites the value in place.
LEMMA StepOccupiedInsert ==
  ASSUME IInv, NEW v \in Val, OccupiedInsert(v)
  PROVE  IInv' /\ Counts(0)
<1> DEFINE old == heap[cur.node].kv[cur.idx + 1]
<1>1. /\ pc = "occupied"
      /\ heap' = [heap EXCEPT ![cur.node] = replace_kv(heap[cur.node], cur.idx, <<old[1], v>>)]
      /\ UNCHANGED <<root, length>>
  BY DEF OccupiedInsert
<1>2. cur.node \in DOMAIN heap /\ cur.idx \in Nat /\ cur.idx < Len(heap[cur.node].kv)
  BY <1>1, IInvFacts DEF IInv, Locals
<1>3. old \in KV
  BY <1>2, PairOf
<1>4. <<old[1], v>> \in KV
  BY <1>3 DEF KV
<1>5. Some(old) \in Option(KV)
  BY <1>3, SomeOption
<1>6. op = "insert" => Return(Some(old))
  BY DEF OccupiedInsert
<1>7. op # "insert" => /\ ret' = Some(old)
                       /\ UNCHANGED <<pc, op, key, cur, pos, hand, right, refill, emptied>>
  BY DEF OccupiedInsert
<1> HIDE DEF old
<1>8. Tree(heap', root', Nil, Nil, FALSE) /\ SameSizes(heap', heap) /\ length' \in Int
      /\ Counts(0)
  BY <1>1, <1>4, OverwritePair
<1>9. CASE op = "insert"
  BY <1>5, <1>6, <1>8, <1>9, Returned
<1>10. CASE op # "insert"
  <2>1. right = Nil /\ ~emptied /\ right' = Nil /\ ~emptied'
    BY <1>1, <1>7, <1>10, Quiet
  <2>2. HeapType(heap')
    BY <1>8 DEF Tree, WellFormed
  <2>3. Types'
    BY <1>1, <1>5, <1>7, <1>10, <2>2 DEF IInv, Types
  <2>4. Tree(heap, root, right, Fixed, emptied)'
    BY <1>1, <1>7, <1>8, <1>10, <2>1, <2>3 DEF Fixed, Types
  <2>5. Locals'
    BY <1>1, <1>2, <1>7, <1>8, <1>10, <2>1 DEF IInv, Locals, SameSizes
  <2> QED BY <1>8, <2>3, <2>4, <2>5 DEF IInv
<1> QED BY <1>9, <1>10

\* Recover::replace overwrites the key in place.
LEMMA StepReplaceKey ==
  ASSUME IInv, ReplaceKey
  PROVE  IInv' /\ Counts(0)
<1> DEFINE old == heap[cur.node].kv[cur.idx + 1]
<1>1. /\ pc = "occupied" /\ op = "replace"
      /\ heap' = [heap EXCEPT ![cur.node] =
                    replace_kv(heap[cur.node], cur.idx, <<key[1], old[2]>>)]
      /\ Return(Some(old))
      /\ UNCHANGED <<root, length>>
  BY DEF ReplaceKey
<1>2. cur.node \in DOMAIN heap /\ cur.idx \in Nat /\ cur.idx < Len(heap[cur.node].kv)
  BY <1>1, IInvFacts DEF IInv, Locals
<1>3. old \in KV
  BY <1>2, PairOf
<1>4. key # None /\ key \in Option(Key)
  BY <1>1 DEF IInv, Locals, Types
<1>5. key[1] \in Key
  BY <1>4, OptionValue
<1>6. <<key[1], old[2]>> \in KV
  BY <1>3, <1>5 DEF KV
<1>7. Some(old) \in Option(KV)
  BY <1>3, SomeOption
<1> HIDE DEF old
<1>8. Tree(heap', root', Nil, Nil, FALSE) /\ length' \in Int /\ Counts(0)
  BY <1>1, <1>6, OverwritePair
<1> QED BY <1>1, <1>7, <1>8, Returned

\* The key that a vacant entry will insert, with any value.
LEMMA VacantPair ==
  ASSUME IInv, pc = "vacant", NEW v \in Val
  PROVE  <<key[1], v>> \in KV
<1>1. key # None /\ key \in Option(Key)
  BY DEF IInv, Locals, Types
<1>2. key[1] \in Key
  BY <1>1, OptionValue
<1> QED BY <1>2 DEF KV

\* VacantEntry::insert without a root makes a leaf with one pair the root.
LEMMA StepVacantInsertEmpty ==
  ASSUME IInv, NEW v \in Val, VacantInsertEmpty(v)
  PROVE  IInv' /\ Counts(1)
<1> DEFINE n == FreshNode(heap)
           kv == <<key[1], v>>
<1>1. /\ pc = "vacant" /\ cur = NoHandle /\ CanAllocate(heap) /\ length' = 1 /\ Return(None)
      /\ heap' = Allocate(heap, n, new_leaf(<<kv>>)) /\ root' = n
  BY DEF VacantInsertEmpty
<1>2. root = Nil
  BY <1>1 DEF IInv, Locals
<1>3. Tree(heap, Nil, Nil, Nil, FALSE)
  BY <1>1, <1>2, Quiet
<1>4. n \in NodeId /\ n \notin DOMAIN heap
  BY <1>1, FreshProps
<1>5. kv \in KV
  BY <1>1, VacantPair
<1> HIDE DEF n, kv
<1>6. <<kv>> \in Seq(KV) /\ Len(<<kv>>) <= 1 /\ Len(<<kv>>) = 1
  BY <1>5
<1>7. Tree(heap', n, Nil, Nil, FALSE) /\ Counts(1)
  BY <1>1, <1>3, <1>4, <1>6, TreeNewRoot DEF Counts
<1>8. Tree(heap', root', Nil, Nil, FALSE)
  BY <1>1, <1>7, Zenon
<1>9. length' \in Int
  BY <1>1
<1> QED BY <1>1, <1>7, <1>8, <1>9, Returned, NoneOption

\* Where a vacant entry of a tree that exists points to.
LEMMA VacantFacts ==
  ASSUME IInv, pc = "vacant", cur # NoHandle
  PROVE  /\ Tree(heap, root, Nil, Nil, FALSE) /\ right = Nil /\ ~emptied
         /\ cur.node \in DOMAIN heap /\ heap[cur.node].height = 0 /\ cur.idx \in Nat
         /\ cur.idx <= Len(heap[cur.node].kv) /\ Len(heap[cur.node].kv) \in Nat
         /\ Len(heap[cur.node].kv) <= CAPACITY
<1>1. Tree(heap, root, Nil, Nil, FALSE) /\ right = Nil /\ ~emptied
  BY Quiet
<1>2. /\ cur.node \in DOMAIN heap /\ heap[cur.node].height = 0
      /\ cur.idx <= Len(heap[cur.node].kv)
  BY DEF IInv, Locals
<1>3. Len(heap[cur.node].kv) <= CAPACITY
  BY <1>1, <1>2 DEF Tree, Lens
<1> QED BY <1>1, <1>2, <1>3, IInvFacts

\* VacantEntry::insert into a leaf that has room.
LEMMA StepVacantInsertFit ==
  ASSUME IInv, NEW v \in Val, VacantInsertFit(v)
  PROVE  IInv' /\ Counts(1) /\ LeafPair(heap', cur.node, cur.idx)
<1> DEFINE kv == <<key[1], v>>
<1>1. /\ pc = "vacant" /\ cur # NoHandle /\ Len(heap[cur.node].kv) < CAPACITY
      /\ heap' = leaf_insert_fit(heap, cur.node, cur.idx, kv)
      /\ length' = length + 1 /\ Return(None) /\ root' = root
  BY DEF VacantInsertFit, len
<1>2. kv \in KV
  BY <1>1, VacantPair
<1> HIDE DEF kv
<1>3. Tree(heap', root, Nil, Nil, FALSE) /\ Counts(1) /\ LeafPair(heap', cur.node, cur.idx)
  BY <1>1, <1>2, VacantFacts, TreeLeafInsert DEF Counts
<1>4. length' \in Int
  BY <1>1 DEF IInv, Types
<1>5. Tree(heap', root', Nil, Nil, FALSE)
  BY <1>1, <1>3
<1> QED BY <1>1, <1>3, <1>4, <1>5, Returned, NoneOption

\* A split that is passed on to the parent.
LEMMA Climbing ==
  ASSUME IInv, pc' = "insert_up", ~emptied, UNCHANGED <<root, length, op, key, pos, refill, emptied, ret>>,
         NEW n, cur' = Handle(n, 0), NEW kv, kv \in KV, hand' = Some(kv), right' \in NodeId,
         Tree(heap', root, right', Nil, FALSE), Climb(heap', root, n, right')
  PROVE  IInv'
<1>1. HeapType(heap') /\ DOMAIN heap' \subseteq NodeId
  BY DEF Tree, WellFormed, HeapType
<1>2. n \in DOMAIN heap' /\ n \in NodeId
  BY <1>1 DEF Climb
<1>3. cur' \in HandleType /\ cur'.node = n
  BY <1>2, HandleProps
<1>4. hand' \in Option(KV) /\ hand' # None
  BY SomeOption
<1>5. Types'
  BY <1>1, <1>3, <1>4 DEF IInv, Types, HandleType
<1>6. Tree(heap, root, right, Fixed, emptied)'
  BY <1>5 DEF Fixed, Types
<1>7. right' # Nil
  BY NilAssumption
<1>8. op' = "replace" => key' # None
  BY DEF IInv, Locals
<1>9. Locals'
  BY <1>2, <1>3, <1>4, <1>7, <1>8 DEF Locals, Climb
<1> QED BY <1>5, <1>6, <1>9 DEF IInv

\* VacantEntry::insert into a full leaf: both halves have MIN_LEN pairs and
\* the right one waits for a place.
LEMMA StepVacantInsertSplit ==
  ASSUME IInv, NEW v \in Val, VacantInsertSplit(v)
  PROVE  /\ IInv' /\ Counts(0)
         /\ LET s == splitpoint(cur.idx)
            IN  LeafPair(heap', IF s.side = "left" THEN cur.node ELSE right', s.idx)
<1> DEFINE kv == <<key[1], v>>
           n == cur.node
           s == splitpoint(cur.idx)
           new == FreshNode(heap)
           into == IF s.side = "left" THEN n ELSE new
<1>1. /\ pc = "vacant" /\ cur # NoHandle /\ Len(heap[n].kv) >= CAPACITY /\ CanAllocate(heap)
      /\ heap' = leaf_insert_fit(split_leaf(heap, n, s.middle, new), into, s.idx, kv)
      /\ hand' = Some(heap[n].kv[s.middle + 1]) /\ right' = new
      /\ pc' = "insert_up" /\ cur' = Handle(n, 0)
      /\ UNCHANGED <<root, length, op, key, pos, refill, emptied, ret>>
  BY DEF VacantInsertSplit, len, Goto
<1>2. kv \in KV
  BY <1>1, VacantPair
<1>3. /\ Tree(heap, root, Nil, Nil, FALSE) /\ ~emptied /\ n \in DOMAIN heap
      /\ heap[n].height = 0 /\ cur.idx \in Nat /\ cur.idx <= Len(heap[n].kv)
      /\ Len(heap[n].kv) \in Nat /\ Len(heap[n].kv) <= CAPACITY
  BY <1>1, VacantFacts
<1>4. Len(heap[n].kv) = CAPACITY /\ cur.idx \in 0 .. CAPACITY
  BY <1>1, <1>3, MinLen
<1>5. GoodSplit(s)
  BY <1>4, SplitpointProps
<1>6. new \in NodeId /\ new \notin DOMAIN heap
  BY <1>1, FreshProps
<1>7. (s.side = "left" => into = n) /\ (s.side = "right" => into = new)
  OBVIOUS
<1> HIDE DEF kv, n, s, new, into
<1>8. /\ Tree(heap', root, new, Nil, FALSE) /\ Climb(heap', root, n, new)
      /\ heap[n].kv[s.middle + 1] \in KV /\ Counts(0) /\ LeafPair(heap', into, s.idx)
  BY <1>1, <1>2, <1>3, <1>4, <1>5, <1>6, <1>7, TreeLeafSplit DEF Counts
<1>9. IInv'
  BY <1>1, <1>3, <1>6, <1>8, Climbing
<1>10. LeafPair(heap', IF s.side = "left" THEN n ELSE right', s.idx)
  BY <1>1, <1>8 DEF into
<1> QED BY <1>8, <1>9, <1>10 DEF s, n

\* The SplitResult of insert_recursing.
LEMMA InsertUpFacts ==
  ASSUME IInv, pc = "insert_up"
  PROVE  /\ Tree(heap, root, right, Nil, FALSE) /\ Climb(heap, root, cur.node, right)
         /\ hand[1] \in KV /\ ~emptied
<1>1. ~emptied /\ emptied = FALSE /\ Fixed = Nil
  <2>1. ~emptied
    BY DEF IInv, Locals
  <2>2. emptied \in BOOLEAN
    BY DEF IInv, Types
  <2> QED BY <2>1, <2>2 DEF Fixed
<1>2. Tree(heap, root, right, Fixed, emptied)
  BY DEF IInv
<1>3. Tree(heap, root, right, Nil, FALSE)
  BY <1>1, <1>2, Zenon
<1>4. /\ cur.node \in DOMAIN heap /\ right # Nil /\ right # root /\ right # cur.node
      /\ hand # None /\ heap[right].height = heap[cur.node].height
      /\ Len(heap[cur.node].kv) >= MIN_LEN
  BY DEF IInv, Locals
<1>5. right \in DOMAIN heap
  BY <1>3, <1>4 DEF Tree
<1>6. hand \in Option(KV)
  BY DEF IInv, Types
<1>7. hand[1] \in KV
  BY <1>4, <1>6, OptionValue
<1> QED BY <1>1, <1>3, <1>4, <1>5, <1>7 DEF Climb

\* insert_recursing ends in a parent that has room.
LEMMA StepInsertUpFit ==
  ASSUME IInv, InsertUpFit
  PROVE  IInv' /\ Counts(1) /\ LeavesKept(heap', heap)
<1> DEFINE p == heap[cur.node].parent
           i == heap[cur.node].parent_idx
<1>1. /\ pc = "insert_up" /\ p # Nil /\ Len(heap[p].kv) < CAPACITY
      /\ heap' = internal_insert_fit(heap, p, i, hand[1], right)
      /\ length' = length + 1 /\ Return(None) /\ root' = root
  BY DEF InsertUpFit, Parent, len
<1>2. /\ Tree(heap, root, right, Nil, FALSE) /\ Climb(heap, root, cur.node, right)
      /\ hand[1] \in KV
  BY <1>1, InsertUpFacts
<1>3. Tree(heap', root, Nil, Nil, FALSE) /\ Counts(1) /\ LeavesKept(heap', heap)
  BY <1>1, <1>2, TreeUpFit DEF Counts
<1>4. length' \in Int
  BY <1>1 DEF IInv, Types
<1>5. Tree(heap', root', Nil, Nil, FALSE)
  BY <1>1, <1>3, Zenon
<1> QED BY <1>1, <1>3, <1>4, <1>5, Returned, NoneOption

\* insert_recursing splits a full parent and climbs.
LEMMA StepInsertUpSplit ==
  ASSUME IInv, InsertUpSplit
  PROVE  IInv' /\ Counts(0) /\ LeavesKept(heap', heap)
<1> DEFINE n == cur.node
           p == heap[n].parent
           i == heap[n].parent_idx
           s == splitpoint(i)
           new == FreshNode(heap)
           into == IF s.side = "left" THEN p ELSE new
           kv == hand[1]
<1>1. /\ pc = "insert_up" /\ p # Nil /\ Len(heap[p].kv) >= CAPACITY /\ CanAllocate(heap)
      /\ heap' = internal_insert_fit(split_internal(heap, p, s.middle, new), into, s.idx,
                                     kv, right)
      /\ hand' = Some(heap[p].kv[s.middle + 1]) /\ right' = new
      /\ pc' = "insert_up" /\ cur' = Handle(p, 0)
      /\ UNCHANGED <<root, length, op, key, pos, refill, emptied, ret>>
  BY ZenonT(30) DEF InsertUpSplit, Parent, len, Goto
<1>2. /\ Tree(heap, root, right, Nil, FALSE) /\ Climb(heap, root, n, right)
      /\ kv \in KV /\ ~emptied /\ n \in DOMAIN heap
  BY <1>1, InsertUpFacts DEF Climb
<1>3. p \in DOMAIN heap /\ i \in 0 .. Len(heap[p].kv)
  BY <1>1, <1>2, IInvFacts, ParentFacts, SMTT(30)
<1>4. Len(heap[p].kv) = CAPACITY
  <2>1. Len(heap[p].kv) <= CAPACITY
    BY <1>2, <1>3 DEF Tree, Lens
  <2>2. Len(heap[p].kv) \in Nat
    BY <1>3, IInvFacts
  <2>3. Len(heap[p].kv) >= CAPACITY
    BY <1>1, ZenonT(30)
  <2> QED BY ONLY <2>1, <2>2, <2>3, MinLen
<1>5. GoodSplit(s)
  BY <1>3, <1>4, SplitpointProps
<1>6. new \in NodeId /\ new \notin DOMAIN heap
  BY <1>1, FreshProps, ZenonT(30)
<1>7. (s.side = "left" => into = p) /\ (s.side = "right" => into = new)
  OBVIOUS
<1>8. p = heap[n].parent
  OBVIOUS
<1> HIDE DEF kv, n, s, new, into, p
<1>9. /\ Tree(heap', root, new, Nil, FALSE) /\ Climb(heap', root, p, new)
      /\ heap[p].kv[s.middle + 1] \in KV /\ Counts(0) /\ LeavesKept(heap', heap)
  BY <1>1, <1>2, <1>4, <1>5, <1>6, <1>7, <1>8, TreeUpSplit DEF Counts
<1> QED BY <1>1, <1>2, <1>6, <1>9, Climbing

\* insert_recursing ends at the root: the tree grows a level and the old root
\* becomes a child, which it can because a split left it MIN_LEN pairs.
LEMMA StepSplitRoot ==
  ASSUME IInv, SplitRoot
  PROVE  IInv' /\ Counts(1) /\ LeavesKept(heap', heap)
<1> DEFINE new == FreshNode(heap)
           kv == hand[1]
<1>1. /\ pc = "insert_up" /\ heap[cur.node].parent = Nil /\ CanAllocate(heap)
      /\ heap' = push_root_level(heap, root, new, kv, right) /\ root' = new
      /\ length' = length + 1 /\ Return(None)
  BY DEF SplitRoot, Parent
<1>2. /\ Tree(heap, root, right, Nil, FALSE) /\ Climb(heap, root, cur.node, right)
      /\ kv \in KV
  BY <1>1, InsertUpFacts
<1>3. cur.node \in DOMAIN heap /\ cur.node # right
  BY <1>2 DEF Climb
<1>4. cur.node = root
  BY <1>1, <1>3, IInvFacts, NoParent
<1>5. new \in NodeId /\ new \notin DOMAIN heap
  BY <1>1, FreshProps
<1> HIDE DEF new, kv
<1>6. Climb(heap, root, root, right)
  BY <1>2, <1>4
<1>7. Tree(heap', new, Nil, Nil, FALSE) /\ Counts(1) /\ LeavesKept(heap', heap)
  BY <1>1, <1>2, <1>5, <1>6, TreeSplitRoot DEF Counts
<1>8. length' \in Int
  BY <1>1 DEF IInv, Types
<1>9. Tree(heap', root', Nil, Nil, FALSE)
  BY <1>1, <1>7, Zenon
<1> QED BY <1>1, <1>7, <1>8, <1>9, Returned, NoneOption

\* remove_kv_tracking on a leaf pair.
LEMMA StepOccupiedRemoveLeaf ==
  ASSUME IInv, OccupiedRemoveLeaf
  PROVE  IInv'
<1>1. /\ pc = "occupied" /\ heap[cur.node].height = 0 /\ pc' = "remove_leaf" /\ ret' = None
      /\ UNCHANGED <<heap, root, length, op, key, cur, pos, hand, right, refill, emptied>>
  BY DEF OccupiedRemoveLeaf, IsLeaf, map
<1>2. Types'
  BY <1>1, NoneOption DEF IInv, Types
<1>3. Tree(heap, root, right, Fixed, emptied)'
  BY <1>1 DEF IInv, Fixed
<1>4. Locals'
  BY <1>1 DEF IInv, Locals
<1> QED BY <1>2, <1>3, <1>4 DEF IInv

\* remove_internal_kv enters the subtree left of the pair.
LEMMA StepOccupiedRemoveInternal ==
  ASSUME IInv, OccupiedRemoveInternal
  PROVE  IInv'
<1> DEFINE c == descend(heap, cur.node, cur.idx)
<1>1. /\ pc = "occupied" /\ heap[cur.node].height # 0 /\ pc' = "left_leaf" /\ ret' = None
      /\ cur' = Handle(c, 0) /\ refill' = TRUE
      /\ UNCHANGED <<heap, root, length, op, key, pos, hand, right, emptied>>
  BY DEF OccupiedRemoveInternal, IsLeaf, map, Goto
<1>2. /\ cur.node \in DOMAIN heap /\ cur.idx \in Nat /\ cur.idx < Len(heap[cur.node].kv)
      /\ Len(heap[cur.node].kv) \in Nat
  BY <1>1, IInvFacts DEF IInv, Locals
<1>3. cur.idx <= Len(heap[cur.node].kv)
  BY <1>2
<1>4. c \in DOMAIN heap /\ c # root /\ c \in NodeId
  BY <1>1, <1>2, <1>3, ChildOf
<1> HIDE DEF c
<1>5. cur' \in HandleType /\ cur'.node = c
  BY <1>1, <1>4, HandleProps
<1>6. Types'
  BY <1>1, <1>5, NoneOption DEF IInv, Types, HandleType
<1>7. Tree(heap, root, right, Fixed, emptied)'
  BY <1>1 DEF IInv, Fixed
<1>8. Locals'
  BY <1>1, <1>4, <1>5 DEF IInv, Locals
<1> QED BY <1>6, <1>7, <1>8 DEF IInv

\* last_leaf_edge in that subtree; its last leaf is not the root, so it has a
\* pair to remove.
LEMMA StepLeftLeaf ==
  ASSUME IInv, LeftLeaf
  PROVE  IInv'
<1>1. /\ pc = "left_leaf"
      /\ UNCHANGED <<heap, root, length, op, key, pos, hand, right, refill, emptied, ret>>
      /\ heap[cur.node].height = 0 =>
           pc' = "remove_leaf" /\ cur' = Handle(cur.node, Len(heap[cur.node].kv) - 1)
      /\ heap[cur.node].height # 0 =>
           /\ pc' = "left_leaf"
           /\ cur' = Handle(descend(heap, cur.node, Len(heap[cur.node].kv)), 0)
  BY DEF LeftLeaf, IsLeaf, len, map, Goto
<1>2. /\ cur.node \in DOMAIN heap /\ cur.node # root /\ cur.node \in NodeId
      /\ Len(heap[cur.node].kv) \in Nat /\ cur.node # Nil
  BY <1>1, IInvFacts DEF IInv, Locals
<1>3. Tree(heap, root, right, Fixed, emptied)'
  BY <1>1 DEF IInv, Fixed
<1>4. CASE heap[cur.node].height = 0
  <2>1. Len(heap[cur.node].kv) >= MIN_LEN
    <3>1. Lens(heap, root, Nil, FALSE)
      BY <1>1, Quiet DEF Tree
    <3> QED BY <1>2, <3>1 DEF Lens
  <2>2. /\ Len(heap[cur.node].kv) - 1 \in Nat
        /\ Len(heap[cur.node].kv) - 1 < Len(heap[cur.node].kv)
    BY <1>2, <2>1, MinLen
  <2>3. /\ cur' \in HandleType /\ cur'.node = cur.node
        /\ cur'.idx = Len(heap[cur.node].kv) - 1
    BY <1>1, <1>2, <1>4, <2>2, HandleProps
  <2>4. Types'
    BY <1>1, <1>4, <2>3 DEF IInv, Types, HandleType
  <2>5. Locals'
    BY <1>1, <1>2, <1>4, <2>2, <2>3 DEF IInv, Locals
  <2> QED BY <1>3, <2>4, <2>5 DEF IInv
<1>5. CASE heap[cur.node].height # 0
  <2> DEFINE c == descend(heap, cur.node, Len(heap[cur.node].kv))
  <2>1. c \in DOMAIN heap /\ c # root /\ c \in NodeId
    <3>1. Len(heap[cur.node].kv) <= Len(heap[cur.node].kv)
      BY <1>2
    <3> QED BY <1>2, <1>5, <3>1, ChildOf
  <2>2. pc' = "left_leaf" /\ cur' = Handle(c, 0)
    BY <1>1, <1>5
  <2> HIDE DEF c
  <2>3. cur' \in HandleType /\ cur'.node = c
    BY <2>1, <2>2, HandleProps
  <2>4. Types'
    BY <1>1, <2>2, <2>3 DEF IInv, Types, HandleType
  <2>5. Locals'
    BY <1>1, <2>1, <2>2, <2>3 DEF IInv, Locals
  <2> QED BY <1>3, <2>4, <2>5 DEF IInv
<1> QED BY <1>4, <1>5

\* Removing a pair from the leaf, before the leaf is merged or refilled.
LEMMA RemoveLeafFacts ==
  ASSUME IInv, pc = "remove_leaf"
  PROVE  /\ right = Nil /\ ~emptied /\ cur.node \in DOMAIN heap /\ cur.idx \in Nat
         /\ cur.node \in NodeId /\ heap[cur.node].height = 0
         /\ Removed(LeafRemoved, heap, cur.node)
         /\ Tree(LeafRemoved, root, Nil, cur.node, FALSE)
         /\ Len(LeafRemoved[cur.node].kv) >= MIN_LEN \/ cur.node = root
              => Tree(LeafRemoved, root, Nil, Nil, FALSE)
         /\ heap[cur.node].kv[cur.idx + 1] \in KV
         /\ Countable(heap) => Tally(LeafRemoved, heap, - 1)
<1>1. Tree(heap, root, Nil, Nil, FALSE) /\ right = Nil /\ ~emptied
  BY Quiet
<1>2. /\ cur.node \in DOMAIN heap /\ cur.idx < Len(heap[cur.node].kv)
      /\ heap[cur.node].height = 0
  BY DEF IInv, Locals
<1>3. cur.idx \in Nat /\ cur.node \in NodeId
  BY <1>2, IInvFacts
<1>4. heap[cur.node].kv[cur.idx + 1] \in KV
  BY <1>2, <1>3, PairOf
<1>5. LeafRemoved = [heap EXCEPT ![cur.node] =
                       WithKV(heap[cur.node], slice_remove(heap[cur.node].kv, cur.idx))]
  BY DEF LeafRemoved
<1>6. /\ Removed(LeafRemoved, heap, cur.node)
      /\ Tree(LeafRemoved, root, Nil, cur.node, FALSE)
      /\ Len(LeafRemoved[cur.node].kv) >= MIN_LEN \/ cur.node = root
           => Tree(LeafRemoved, root, Nil, Nil, FALSE)
  BY <1>1, <1>2, <1>3, <1>5, TreeLeafRemove
<1>7. Countable(heap) => Tally(LeafRemoved, heap, - 1)
  <2>1. Len(heap[cur.node].kv) > 0
    BY <1>2, <1>3, IInvFacts
  <2> QED BY <1>2, <1>6, <2>1, TallyRemoved
<1> QED BY <1>1, <1>2, <1>3, <1>4, <1>6, <1>7

\* The pair that was removed is the result or in the hand.
LEMMA TakenFacts ==
  ASSUME IInv, pc = "remove_leaf", TakeFromLeaf
  PROVE  hand' \in Option(KV) /\ ret' \in Option(KV) /\ (refill => hand' # None)
<1> DEFINE old == heap[cur.node].kv[cur.idx + 1]
<1>1. old \in KV
  BY RemoveLeafFacts
<1>2. Some(old) \in Option(KV) /\ Some(old) # None
  BY <1>1, SomeOption
<1>3. /\ hand' = IF refill THEN Some(old) ELSE None
      /\ ret' = IF refill THEN None ELSE Some(old)
  BY DEF TakeFromLeaf
<1> HIDE DEF old
<1> QED BY <1>2, <1>3, NoneOption

\* remove_leaf_kv when the leaf keeps MIN_LEN pairs or is the root.
LEMMA StepRemoveLeafDone ==
  ASSUME IInv, RemoveLeafDone
  PROVE  IInv' /\ Counts(- 1)
<1>1. /\ pc = "remove_leaf" /\ heap' = LeafRemoved /\ TakeFromLeaf
      /\ Len(LeafRemoved[cur.node].kv) >= MIN_LEN \/ heap[cur.node].parent = Nil
      /\ refill => pc' = "next_kv"
      /\ ~refill => pc' = "finish"
      /\ cur' = cur /\ pos' = cur
      /\ UNCHANGED <<root, length, op, key, right, refill, emptied>>
  BY DEF RemoveLeafDone, AfterRemoveLeaf, Goto, Parent, len
<1>2. /\ right = Nil /\ ~emptied /\ cur.node \in DOMAIN heap
      /\ Removed(LeafRemoved, heap, cur.node)
      /\ Len(LeafRemoved[cur.node].kv) >= MIN_LEN \/ cur.node = root
           => Tree(LeafRemoved, root, Nil, Nil, FALSE)
  BY <1>1, RemoveLeafFacts
<1>3. hand' \in Option(KV) /\ ret' \in Option(KV) /\ (refill => hand' # None)
  BY <1>1, TakenFacts
<1>4. heap[cur.node].parent = Nil => cur.node = root
  BY <1>2, IInvFacts, NoParent
<1>5. Tree(heap', root, Nil, Nil, FALSE)
  BY <1>1, <1>2, <1>4
<1>6. HeapType(heap') /\ DOMAIN heap' = DOMAIN heap
  BY <1>1, <1>2, <1>5 DEF Tree, WellFormed, Removed
<1>7. Types'
  BY <1>1, <1>3, <1>6 DEF IInv, Types
<1>8. Tree(heap, root, right, Fixed, emptied)'
  BY <1>1, <1>2, <1>5, <1>7 DEF Fixed, Types
<1>9. op' = "replace" => key' # None
  BY <1>1 DEF IInv, Locals
<1>10. Locals'
  BY <1>1, <1>2, <1>3, <1>6, <1>9 DEF Locals
<1>11. Counts(- 1)
  BY <1>1, RemoveLeafFacts DEF Counts
<1> QED BY <1>7, <1>8, <1>10, <1>11 DEF IInv

\* The parent of the leaf is looked at next; p is the edge that is tracked.
LEMMA Fixing ==
  ASSUME IInv, pc' = "fix", ~emptied, right = Nil,
         UNCHANGED <<root, length, op, key, right, refill, emptied>>,
         hand' \in Option(KV), ret' \in Option(KV), refill => hand' # None,
         NEW n, n \in DOMAIN heap', heap'[n].height # 0, cur' = Handle(n, 0),
         pos' \in HandleType, pos'.node \in DOMAIN heap', heap'[pos'.node].height = 0,
         Tree(heap', root, Nil, n, FALSE)
  PROVE  IInv'
<1>1. HeapType(heap') /\ n \in NodeId
  BY DEF Tree, WellFormed, HeapType
<1>2. cur' \in HandleType /\ cur'.node = n
  BY <1>1, HandleProps
<1>3. Types'
  BY <1>1, <1>2 DEF IInv, Types, HandleType
<1>4. Fixed' = n
  BY <1>2 DEF Fixed
<1>5. right' = Nil /\ emptied' = FALSE /\ root' = root
  BY <1>3 DEF Types
<1>6. Tree(heap, root, right, Fixed, emptied)'
  BY <1>4, <1>5
<1>7. op' = "replace" => key' # None
  BY DEF IInv, Locals
<1>8. Locals'
  BY <1>2, <1>7 DEF Locals
<1> QED BY <1>3, <1>6, <1>8 DEF IInv

\* The underfull leaf, its parent and the pair beside it, before and after the removal.
LEMMA UnderfullLeaf ==
  ASSUME IInv, pc = "remove_leaf", Parent(cur.node) # Nil,
         len(LeafRemoved, cur.node) < MIN_LEN
  PROVE  /\ cur.node \in DOMAIN LeafRemoved /\ cur.node # root
         /\ Parent(cur.node) = LeafRemoved[cur.node].parent
         /\ ParentKV(cur.node) = PairBeside(LeafRemoved, cur.node)
         /\ HasLeftKV(cur.node) <=> LeafRemoved[cur.node].parent_idx > 0
         /\ Len(LeafRemoved[cur.node].kv) = MIN_LEN - 1
         /\ Parent(cur.node) \in DOMAIN heap
         /\ LeafRemoved[Parent(cur.node)].height # 0
         /\ LeafRemoved[Parent(cur.node)].height - 1 = 0
         /\ \A i : descend(heap, Parent(cur.node), i) = descend(LeafRemoved, Parent(cur.node), i)
         /\ \A m \in DOMAIN heap : LeafRemoved[m].height = heap[m].height
         /\ DOMAIN LeafRemoved = DOMAIN heap
<1> DEFINE n == cur.node
           p == heap[n].parent
           g == LeafRemoved
<1>1. n \in DOMAIN heap /\ Removed(g, heap, n) /\ Tree(g, root, Nil, n, FALSE)
      /\ heap[n].height = 0
  BY RemoveLeafFacts
<1>2. WellFormed(heap, {root, right})
  BY IInvFacts
<1>3. p # Nil /\ Parent(n) = p
  BY DEF Parent
<1>4. /\ n \notin {root, right} /\ p \in DOMAIN heap /\ heap[p].height # 0
      /\ heap[p].height = heap[n].height + 1
  BY <1>1, <1>2, <1>3, ParentFacts
<1>5. /\ DOMAIN g = DOMAIN heap
      /\ \A m \in DOMAIN heap : /\ g[m].height = heap[m].height /\ g[m].edges = heap[m].edges
                                /\ g[m].parent = heap[m].parent
                                /\ g[m].parent_idx = heap[m].parent_idx
  BY <1>1 DEF Removed
<1>6. ParentKV(n) = PairBeside(g, n) /\ (HasLeftKV(n) <=> g[n].parent_idx > 0)
  BY <1>1, <1>5 DEF ParentKV, PairBeside, HasLeftKV
<1>7. Len(g[n].kv) = MIN_LEN - 1
  <2>1. Len(g[n].kv) < MIN_LEN
    BY DEF len
  <2>2. Lens(g, root, n, FALSE) /\ HeapType(g)
    BY <1>1 DEF Tree, WellFormed
  <2>3. Len(g[n].kv) >= MIN_LEN - 1
    BY <1>1, <1>4, <1>5, <2>2 DEF Lens
  <2>4. Len(g[n].kv) \in Nat
    BY <1>1, <1>5, <2>2, HeapNode
  <2> QED BY ONLY <2>1, <2>3, <2>4, MinLen
<1>8. \A i : descend(heap, p, i) = descend(g, p, i)
  BY <1>4, <1>5 DEF descend
<1>9. g[p].height # 0 /\ g[p].height - 1 = 0
  BY <1>1, <1>4, <1>5
<1> HIDE DEF n, p, g
<1>10. /\ n \in DOMAIN g /\ n # root /\ Parent(n) = g[n].parent
       /\ ParentKV(n) = PairBeside(g, n) /\ (HasLeftKV(n) <=> g[n].parent_idx > 0)
       /\ Len(g[n].kv) = MIN_LEN - 1 /\ Parent(n) \in DOMAIN heap
       /\ g[Parent(n)].height # 0 /\ g[Parent(n)].height - 1 = 0
  BY <1>1, <1>3, <1>4, <1>5, <1>6, <1>7, <1>9 DEF p
<1>11. /\ \A i : descend(heap, Parent(n), i) = descend(g, Parent(n), i)
       /\ \A m \in DOMAIN heap : g[m].height = heap[m].height
       /\ DOMAIN g = DOMAIN heap
  BY <1>3, <1>5, <1>8
<1> QED BY <1>10, <1>11 DEF n, g

\* remove_leaf_kv merges the leaf with a sibling: the parent may now lack one
\* pair, and it alone.
LEMMA StepRemoveLeafMerge ==
  ASSUME IInv, RemoveLeafMerge
  PROVE  IInv' /\ Counts(- 1)
<1> DEFINE g == LeafRemoved
           p == Parent(cur.node)
           i == ParentKV(cur.node)
           lc == descend(heap, p, i)
           j == IF HasLeftKV(cur.node) THEN len(heap, lc) + 1 + cur.idx ELSE cur.idx
<1>1. /\ pc = "remove_leaf" /\ p # Nil /\ len(LeafRemoved, cur.node) < MIN_LEN
      /\ can_merge(g, p, i) /\ heap' = do_merge(g, p, i) /\ TakeFromLeaf
      /\ pos' = Handle(lc, j) /\ pc' = "fix" /\ cur' = Handle(p, 0)
      /\ UNCHANGED <<root, length, op, key, right, refill, emptied>>
  BY DEF RemoveLeafMerge, RemoveLeafUnderfull, Goto
<1>2. /\ right = Nil /\ ~emptied /\ cur.node \in DOMAIN heap /\ cur.idx \in Nat
      /\ Tree(g, root, Nil, cur.node, FALSE)
      /\ Countable(heap) => Tally(g, heap, - 1)
  BY <1>1, RemoveLeafFacts
<1>3. /\ cur.node \in DOMAIN g /\ p = g[cur.node].parent /\ i = PairBeside(g, cur.node)
      /\ p \in DOMAIN heap /\ g[p].height # 0 /\ g[p].height - 1 = 0
      /\ lc = descend(g, p, i)
      /\ DOMAIN g = DOMAIN heap
  BY <1>1, UnderfullLeaf
<1>4. /\ hand' \in Option(KV) /\ ret' \in Option(KV) /\ (refill => hand' # None)
  BY <1>1, TakenFacts
<1> HIDE DEF g, p, i, lc
<1>5. /\ Tree(heap', root, Nil, p, FALSE)
      /\ Merged(heap', g, {root, Nil}, p, lc, descend(g, p, i + 1))
      /\ Countable(g) => Tally(heap', g, 0)
  BY <1>1, <1>2, <1>3, TreeMerge
<1>6. /\ p \in DOMAIN heap' /\ lc \in DOMAIN heap' /\ heap'[p].height # 0
      /\ heap'[lc].height = 0 /\ lc \in DOMAIN heap
  BY <1>3, <1>5 DEF Merged
<1>7. len(heap, lc) \in Nat /\ lc \in NodeId
  BY <1>6, IInvFacts DEF len
<1>8. j \in Nat
  BY <1>2, <1>7
<1> HIDE DEF j
<1>9. pos' \in HandleType /\ pos'.node = lc
  BY <1>1, <1>7, <1>8, HandleProps
<1>10. pos'.node \in DOMAIN heap' /\ heap'[pos'.node].height = 0
  BY <1>6, <1>9
<1>11. Counts(- 1)
  BY <1>2, <1>5, TallyMoved DEF Counts
<1>12. IInv'
  BY <1>1, <1>2, <1>4, <1>5, <1>6, <1>9, <1>10, Fixing
<1> QED BY <1>11, <1>12

\* remove_leaf_kv steals from a sibling, which had a pair to spare.
LEMMA StepRemoveLeafSteal ==
  ASSUME IInv, RemoveLeafSteal
  PROVE  IInv' /\ Counts(- 1)
<1> DEFINE g == LeafRemoved
           n == cur.node
           p == Parent(n)
           i == ParentKV(n)
<1>1. /\ pc = "remove_leaf" /\ p # Nil /\ len(LeafRemoved, cur.node) < MIN_LEN
      /\ ~can_merge(g, p, i) /\ TakeFromLeaf
      /\ HasLeftKV(n) => heap' = bulk_steal_left(g, p, i, 1) /\ pos' = Handle(n, 1 + cur.idx)
      /\ ~HasLeftKV(n) => heap' = bulk_steal_right(g, p, i, 1) /\ pos' = cur
      /\ pc' = "fix" /\ cur' = Handle(p, 0)
      /\ UNCHANGED <<root, length, op, key, right, refill, emptied>>
  BY DEF RemoveLeafSteal, RemoveLeafUnderfull, Goto
<1>2. /\ right = Nil /\ ~emptied /\ n \in DOMAIN heap /\ cur.idx \in Nat
      /\ Tree(g, root, Nil, n, FALSE) /\ heap[n].height = 0 /\ n \in NodeId
      /\ Countable(heap) => Tally(g, heap, - 1)
  BY <1>1, RemoveLeafFacts
<1>3. /\ n \in DOMAIN g /\ p = g[n].parent /\ i = PairBeside(g, n)
      /\ HasLeftKV(n) <=> g[n].parent_idx > 0
      /\ Len(g[n].kv) = MIN_LEN - 1
      /\ p \in DOMAIN heap /\ g[p].height # 0
      /\ \A m \in DOMAIN heap : g[m].height = heap[m].height
      /\ DOMAIN g = DOMAIN heap
  BY <1>1, UnderfullLeaf
<1>4. /\ hand' \in Option(KV) /\ ret' \in Option(KV) /\ (refill => hand' # None)
  BY <1>1, TakenFacts
<1>5. pos' \in HandleType /\ pos'.node = n
  BY <1>1, <1>2, IInvFacts, HandleProps
<1> HIDE DEF g, p, i, n
<1>6. /\ Tree(heap', root, Nil, Nil, FALSE) /\ Shifted(heap', g, p, i)
      /\ Countable(g) => Tally(heap', g, 0)
  <2>1. /\ g[n].parent_idx > 0 => heap' = bulk_steal_left(g, p, i, 1)
        /\ ~(g[n].parent_idx > 0) => heap' = bulk_steal_right(g, p, i, 1)
    BY <1>1, <1>3
  <2>2. p # Nil /\ ~can_merge(g, p, i)
    BY <1>1
  <2>3. /\ Tree(g, root, Nil, n, FALSE) /\ n \in DOMAIN g /\ p = g[n].parent
        /\ i = PairBeside(g, n) /\ Len(g[n].kv) = MIN_LEN - 1
    BY <1>2, <1>3
  <2> QED BY ONLY <2>1, <2>2, <2>3, TreeSteal
<1>7. /\ p \in DOMAIN heap' /\ heap'[p].height # 0
      /\ pos'.node \in DOMAIN heap' /\ heap'[pos'.node].height = 0
  BY <1>2, <1>3, <1>5, <1>6 DEF Shifted
<1>8. Tree(heap', root, Nil, p, FALSE)
  <2>1. Lens(heap', root, p, FALSE)
    BY <1>6, LensWeaken DEF Tree, WellFormed
  <2> QED BY <1>6, <2>1 DEF Tree
<1>9. Counts(- 1)
  BY <1>2, <1>6, TallyMoved DEF Counts
<1>10. IInv'
  BY <1>1, <1>2, <1>4, <1>5, <1>7, <1>8, Fixing
<1> QED BY <1>9, <1>10

\* fix_node_and_affected_ancestors: the node being fixed and the tracked leaf.
LEMMA FixFacts ==
  ASSUME IInv, pc = "fix"
  PROVE  /\ right = Nil /\ ~emptied /\ Tree(heap, root, Nil, cur.node, FALSE)
         /\ cur.node \in DOMAIN heap /\ heap[cur.node].height # 0 /\ cur.node \in NodeId
         /\ pos.node \in DOMAIN heap /\ heap[pos.node].height = 0 /\ pos \in HandleType
         /\ refill => hand # None
         /\ heap[cur.node].parent = Nil => cur.node = root
<1>1. /\ right = Nil /\ ~emptied /\ cur.node \in DOMAIN heap /\ heap[cur.node].height # 0
      /\ pos.node \in DOMAIN heap /\ heap[pos.node].height = 0 /\ (refill => hand # None)
  BY DEF IInv, Locals
<1>2. emptied = FALSE /\ Fixed = cur.node
  BY <1>1 DEF IInv, Types, Fixed
<1>3. Tree(heap, root, right, Fixed, emptied)
  BY DEF IInv
<1>4. Tree(heap, root, Nil, cur.node, FALSE)
  BY <1>1, <1>2, <1>3, Zenon
<1>5. /\ WellFormed(heap, {root, right}) /\ Nil \notin DOMAIN heap
      /\ DOMAIN heap \subseteq NodeId /\ pos \in HandleType
  BY IInvFacts
<1>6. heap[cur.node].parent = Nil => cur.node \in {root, right}
  BY <1>1, <1>5, NoParent
<1> QED BY <1>1, <1>4, <1>5, <1>6

\* What follows remove_leaf_kv when nothing is underfull any more.
LEMMA Repaired ==
  ASSUME IInv, pc = "fix", AfterRemoveLeaf(pos),
         UNCHANGED <<root, length, op, key, hand, right, refill, ret>>,
         emptied' \in BOOLEAN, Tree(heap', root, Nil, Nil, emptied'),
         pos.node \in DOMAIN heap',
         emptied' => /\ root \in DOMAIN heap' /\ heap'[root].height # 0
                     /\ Len(heap'[root].kv) = 0
  PROVE  IInv'
<1>1. /\ refill => pc' = "next_kv"
      /\ ~refill => pc' = "finish"
      /\ cur' = pos /\ pos' = pos
  BY DEF AfterRemoveLeaf, Goto
<1>2. right = Nil /\ pos \in HandleType /\ (refill => hand # None)
  BY FixFacts
<1>3. HeapType(heap')
  BY DEF Tree, WellFormed
<1>4. Types'
  BY <1>1, <1>2, <1>3 DEF IInv, Types, HandleType
<1>5. right' = Nil /\ Fixed' = Nil /\ root' = root
  BY <1>1, <1>2 DEF Fixed
<1>6. Tree(heap, root, right, Fixed, emptied)'
  BY <1>5
<1>7. op' = "replace" => key' # None
  BY DEF IInv, Locals
<1>8. Locals'
  BY <1>1, <1>2, <1>5, <1>7 DEF Locals
<1> QED BY <1>4, <1>6, <1>8 DEF IInv

\* fix_node_and_affected_ancestors stops: no node lacks a pair any more.
LEMMA StepFixDone ==
  ASSUME IInv, FixDone
  PROVE  IInv'
<1>1. /\ pc = "fix" /\ AfterRemoveLeaf(pos)
      /\ \/ ~(Len(heap[cur.node].kv) < MIN_LEN)
         \/ heap[cur.node].parent = Nil /\ Len(heap[cur.node].kv) > 0
      /\ UNCHANGED <<heap, root, length, op, key, hand, right, refill, emptied, ret>>
  BY DEF FixDone, Underfull, Parent, len, map
<1>2. /\ Tree(heap, root, Nil, cur.node, FALSE) /\ cur.node \in DOMAIN heap /\ ~emptied
      /\ pos.node \in DOMAIN heap
      /\ heap[cur.node].parent = Nil => cur.node = root
  BY <1>1, FixFacts
<1>3. /\ Len(heap[cur.node].kv) >= 1
      /\ cur.node # root => Len(heap[cur.node].kv) >= MIN_LEN
  <2>1. Len(heap[cur.node].kv) \in Nat
    BY <1>2, IInvFacts
  <2> QED BY <1>1, <1>2, <2>1, MinLen
<1>4. Lens(heap, root, Nil, FALSE)
  <2>1. Lens(heap, root, cur.node, FALSE)
    BY <1>2 DEF Tree
  <2>2. Nil \notin DOMAIN heap
    BY IInvFacts
  <2> SUFFICES ASSUME NEW m \in DOMAIN heap
               PROVE  /\ Len(heap[m].kv) <= CAPACITY
                      /\ m # root => Len(heap[m].kv) >= MIN_LEN
                      /\ heap[m].height = 0 \/ Len(heap[m].kv) >= 1
    BY <2>2 DEF Lens
  <2>3. CASE m = cur.node
    BY <1>3, <2>1, <2>3 DEF Lens
  <2>4. CASE m # cur.node
    BY <2>1, <2>4 DEF Lens
  <2> QED BY <2>3, <2>4
<1>5. Tree(heap, root, Nil, Nil, FALSE)
  BY <1>2, <1>4 DEF Tree
<1>6. emptied' = FALSE /\ emptied' \in BOOLEAN
  BY <1>1, <1>2 DEF IInv, Types
<1>7. Tree(heap', root, Nil, Nil, emptied') /\ pos.node \in DOMAIN heap'
  BY <1>1, <1>2, <1>5, <1>6
<1> QED BY <1>1, <1>6, <1>7, Repaired

\* fix_node_and_affected_ancestors reaches a root without pairs; it is
\* internal, so it has a child to replace it.
LEMMA StepFixEmptyRoot ==
  ASSUME IInv, FixEmptyRoot
  PROVE  IInv'
<1>1. /\ pc = "fix" /\ AfterRemoveLeaf(pos) /\ heap[cur.node].parent = Nil
      /\ Len(heap[cur.node].kv) = 0 /\ emptied' = TRUE
      /\ UNCHANGED <<heap, root, length, op, key, hand, right, refill, ret>>
  BY DEF FixEmptyRoot, Parent, len, map
<1>2. /\ Tree(heap, root, Nil, cur.node, FALSE) /\ cur.node \in DOMAIN heap
      /\ pos.node \in DOMAIN heap /\ heap[cur.node].height # 0 /\ cur.node = root
  BY <1>1, FixFacts
<1>3. Lens(heap, root, Nil, TRUE)
  <2>1. Lens(heap, root, cur.node, FALSE)
    BY <1>2 DEF Tree
  <2>2. Nil \notin DOMAIN heap
    BY IInvFacts
  <2> SUFFICES ASSUME NEW m \in DOMAIN heap
               PROVE  /\ Len(heap[m].kv) <= CAPACITY
                      /\ m # root => Len(heap[m].kv) >= MIN_LEN
                      /\ heap[m].height = 0 \/ m = root \/ Len(heap[m].kv) >= 1
    BY <2>2 DEF Lens
  <2> QED BY <1>2, <2>1 DEF Lens
<1>4. Tree(heap, root, Nil, Nil, TRUE)
  BY <1>2, <1>3 DEF Tree
<1>5. /\ emptied' \in BOOLEAN /\ Tree(heap', root, Nil, Nil, emptied')
      /\ pos.node \in DOMAIN heap'
  BY <1>1, <1>2, <1>4
<1>6. root \in DOMAIN heap' /\ heap'[root].height # 0 /\ Len(heap'[root].kv) = 0
  BY <1>1, <1>2
<1> QED BY <1>1, <1>5, <1>6, Repaired

\* Merging the node being fixed: its parent is fixed next, and neither node
\* that is touched is the tracked leaf.
LEMMA FixMergeFacts ==
  ASSUME IInv, FixMerge
  PROVE  /\ Tree(heap', root, Nil, Parent(cur.node), FALSE)
         /\ Parent(cur.node) \in DOMAIN heap' /\ heap'[Parent(cur.node)].height # 0
         /\ pos.node \in DOMAIN heap' /\ heap'[pos.node].height = 0
         /\ heap'[pos.node].kv = heap[pos.node].kv
         /\ Counts(0)
<1> DEFINE n == cur.node
           p == Parent(n)
           i == ParentKV(n)
           lc == descend(heap, p, i)
           rc == descend(heap, p, i + 1)
<1>1. pc = "fix" /\ p # Nil /\ can_merge(heap, p, i) /\ heap' = do_merge(heap, p, i)
  BY DEF FixMerge
<1>2. /\ Tree(heap, root, Nil, n, FALSE) /\ n \in DOMAIN heap /\ heap[n].height # 0
      /\ pos.node \in DOMAIN heap /\ heap[pos.node].height = 0
  BY <1>1, FixFacts
<1>3. p = heap[n].parent /\ i = PairBeside(heap, n)
  BY DEF Parent, ParentKV, PairBeside, HasLeftKV
<1>4. p \in DOMAIN heap /\ heap[p].height = heap[n].height + 1 /\ heap[p].height # 0
      /\ heap[n].height \in Nat
  BY <1>1, <1>2, <1>3, IInvFacts, ParentFacts
<1> HIDE DEF n, p, i
<1>5. /\ Tree(heap', root, Nil, p, FALSE) /\ Merged(heap', heap, {root, Nil}, p, lc, rc)
      /\ Counts(0)
  BY <1>1, <1>2, <1>3, TreeMerge DEF Counts
<1> HIDE DEF lc, rc
<1>6. /\ DOMAIN heap' = DOMAIN heap \ {rc} /\ p \in DOMAIN heap' /\ lc \in DOMAIN heap'
      /\ heap[lc].height = heap[p].height - 1 /\ heap[rc].height = heap[p].height - 1
      /\ \A m \in DOMAIN heap' : heap'[m].height = heap[m].height
      /\ \A m \in DOMAIN heap' \ {p, lc} : heap'[m].kv = heap[m].kv
  BY <1>5 DEF Merged
<1>7. pos.node # rc /\ pos.node # lc /\ pos.node # p
  BY <1>2, <1>4, <1>6
<1>8. /\ p \in DOMAIN heap' /\ heap'[p].height # 0
      /\ pos.node \in DOMAIN heap' /\ heap'[pos.node].height = 0
      /\ heap'[pos.node].kv = heap[pos.node].kv
  BY <1>2, <1>4, <1>6, <1>7
<1> QED BY <1>5, <1>8 DEF p, n

\* fix_node_through_parent merges the node and goes on with its parent.
LEMMA StepFixMerge ==
  ASSUME IInv, FixMerge
  PROVE  IInv' /\ Counts(0)
<1>1. /\ pc = "fix" /\ pc' = "fix" /\ cur' = Handle(Parent(cur.node), 0)
      /\ UNCHANGED <<root, length, op, key, pos, hand, right, refill, emptied, ret>>
  BY DEF FixMerge, Goto
<1>2. right = Nil /\ ~emptied /\ pos \in HandleType /\ (refill => hand # None)
  BY <1>1, FixFacts
<1>3. hand' \in Option(KV) /\ ret' \in Option(KV)
  BY <1>1 DEF IInv, Types
<1>4. /\ pos' \in HandleType /\ pos'.node \in DOMAIN heap' /\ heap'[pos'.node].height = 0
      /\ refill => hand' # None
  BY <1>1, <1>2, FixMergeFacts
<1> QED BY <1>1, <1>2, <1>3, <1>4, FixMergeFacts, Fixing

\* Stealing for the node being fixed repairs the tree, and no node that is
\* touched is the tracked leaf.
LEMMA FixStealFacts ==
  ASSUME IInv, FixSteal
  PROVE  /\ Tree(heap', root, Nil, Nil, FALSE)
         /\ pos.node \in DOMAIN heap' /\ heap'[pos.node].height = 0
         /\ heap'[pos.node].kv = heap[pos.node].kv
         /\ Counts(0)
<1> DEFINE n == cur.node
           p == Parent(n)
           i == ParentKV(n)
           lc == descend(heap, p, i)
           rc == descend(heap, p, i + 1)
           count == MIN_LEN - Len(heap[n].kv)
<1>1. /\ pc = "fix" /\ p # Nil /\ ~can_merge(heap, p, i) /\ Len(heap[n].kv) < MIN_LEN
      /\ HasLeftKV(n) => heap' = bulk_steal_left(heap, p, i, count)
      /\ ~HasLeftKV(n) => heap' = bulk_steal_right(heap, p, i, count)
  BY DEF FixSteal, Underfull, len
<1>2. /\ Tree(heap, root, Nil, n, FALSE) /\ n \in DOMAIN heap /\ heap[n].height # 0
      /\ pos.node \in DOMAIN heap /\ heap[pos.node].height = 0
  BY <1>1, FixFacts
<1>3. p = heap[n].parent /\ i = PairBeside(heap, n) /\ (HasLeftKV(n) <=> heap[n].parent_idx > 0)
  BY DEF Parent, ParentKV, PairBeside, HasLeftKV
<1>4. /\ p \in DOMAIN heap /\ heap[p].height = heap[n].height + 1 /\ heap[p].height # 0
      /\ heap[n].height \in Nat /\ n \notin {root, right}
  BY <1>1, <1>2, <1>3, IInvFacts, ParentFacts
<1>5. Len(heap[n].kv) = MIN_LEN - 1 /\ count = 1
  <2>1. Len(heap[n].kv) >= MIN_LEN - 1
    BY <1>2, <1>4 DEF Tree, Lens
  <2>2. Len(heap[n].kv) \in Nat
    BY <1>2, IInvFacts
  <2> QED BY <1>1, <2>1, <2>2, MinLen
<1> HIDE DEF n, p, i, count
<1>6. Tree(heap', root, Nil, Nil, FALSE) /\ Shifted(heap', heap, p, i) /\ Counts(0)
  <2>1. /\ heap[n].parent_idx > 0 => heap' = bulk_steal_left(heap, p, i, 1)
        /\ ~(heap[n].parent_idx > 0) => heap' = bulk_steal_right(heap, p, i, 1)
    BY <1>1, <1>3, <1>5
  <2>2. p # Nil /\ ~can_merge(heap, p, i)
    BY <1>1
  <2>3. /\ Tree(heap, root, Nil, n, FALSE) /\ n \in DOMAIN heap /\ p = heap[n].parent
        /\ i = PairBeside(heap, n) /\ Len(heap[n].kv) = MIN_LEN - 1
    BY <1>2, <1>3, <1>5
  <2> QED BY ONLY <2>1, <2>2, <2>3, TreeSteal DEF Counts
<1>7. heap[lc].height = heap[p].height - 1 /\ heap[rc].height = heap[p].height - 1
  <2>1. Beside(heap, n, p, i)
    BY <1>1, <1>2, <1>3, PairFacts
  <2>2. i \in 0 .. Len(heap[p].kv) - 1 /\ WellFormed(heap, {root, right})
    BY <2>1, IInvFacts DEF Beside
  <2>3. p \in DOMAIN heap /\ heap[p].height # 0 /\ lc = descend(heap, p, i)
        /\ rc = descend(heap, p, i + 1)
    BY <1>4
  <2> HIDE DEF lc, rc
  <2> QED BY ONLY <2>2, <2>3, Siblings
<1> HIDE DEF lc, rc
<1>8. pos.node # rc /\ pos.node # lc /\ pos.node # p
  BY <1>2, <1>4, <1>7
<1> QED BY <1>2, <1>6, <1>8 DEF Shifted, lc, rc

\* fix_node_through_parent steals for the node and stops.
LEMMA StepFixSteal ==
  ASSUME IInv, FixSteal
  PROVE  IInv' /\ Counts(0)
<1>1. /\ pc = "fix" /\ AfterRemoveLeaf(pos)
      /\ UNCHANGED <<root, length, op, key, hand, right, refill, emptied, ret>>
  BY DEF FixSteal
<1>2. ~emptied
  BY <1>1, FixFacts
<1>3. emptied' = FALSE /\ emptied' \in BOOLEAN
  BY <1>1, <1>2 DEF IInv, Types
<1>4. Tree(heap', root, Nil, Nil, emptied') /\ pos.node \in DOMAIN heap'
  BY <1>3, FixStealFacts
<1> QED BY <1>1, <1>3, <1>4, Repaired, FixStealFacts

\* next_kv climbs to the parent edge.
LEMMA StepNextKvAscend ==
  ASSUME IInv, NextKvAscend
  PROVE  IInv'
<1> DEFINE p == heap[cur.node].parent
           i == heap[cur.node].parent_idx
<1>1. /\ pc = "next_kv" /\ p # Nil /\ pc' = "next_kv" /\ cur' = Handle(p, i)
      /\ UNCHANGED <<heap, root, length, op, key, pos, hand, right, refill, emptied, ret>>
  BY DEF NextKvAscend, Goto, Parent, map
<1>2. cur.node \in DOMAIN heap
  BY <1>1 DEF IInv, Locals
<1>3. p \in DOMAIN heap /\ p \in NodeId /\ i \in Nat
  BY <1>1, <1>2, IInvFacts, ParentFacts
<1> HIDE DEF p, i
<1>4. cur' \in HandleType /\ cur'.node = p
  BY <1>1, <1>3, HandleProps
<1>5. Types'
  BY <1>1, <1>4 DEF IInv, Types, HandleType
<1>6. Tree(heap, root, right, Fixed, emptied)'
  BY <1>1 DEF IInv, Fixed
<1>7. Locals'
  BY <1>1, <1>3, <1>4 DEF IInv, Locals
<1> QED BY <1>5, <1>6, <1>7 DEF IInv

\* remove_internal_kv overwrites the internal pair with its predecessor.
LEMMA StepReplaceKv ==
  ASSUME IInv, ReplaceKv
  PROVE  IInv' /\ Counts(0) /\ SameSizes(heap', heap)
<1>1. /\ pc = "next_kv" /\ cur.idx < Len(heap[cur.node].kv)
      /\ heap' = [heap EXCEPT ![cur.node] = replace_kv(heap[cur.node], cur.idx, hand[1])]
      /\ ret' = Some(heap[cur.node].kv[cur.idx + 1]) /\ hand' = None
      /\ pc' = "finish" /\ cur' = cur
      /\ UNCHANGED <<root, length, op, key, pos, right, refill, emptied>>
  BY DEF ReplaceKv, Goto, len
<1>2. cur.node \in DOMAIN heap /\ hand # None /\ cur.idx \in Nat /\ hand \in Option(KV)
  BY <1>1, IInvFacts DEF IInv, Locals, Types
<1>3. hand[1] \in KV
  BY <1>2, OptionValue
<1>4. ret' \in Option(KV)
  BY <1>1, <1>2, PairOf, SomeOption
<1>5. Tree(heap, root, right, Nil, emptied)
  BY <1>1 DEF IInv, Fixed
<1>6. Tree(heap', root, right, Nil, emptied) /\ SameSizes(heap', heap)
  BY <1>1, <1>2, <1>3, <1>5, TreeReplaceKv
<1>7. HeapType(heap')
  BY <1>6 DEF Tree, WellFormed
<1>8. Types'
  BY <1>1, <1>4, <1>7, NoneOption DEF IInv, Types
<1>9. Tree(heap, root, right, Fixed, emptied)'
  BY <1>1, <1>6 DEF Fixed
<1>10. Locals'
  BY <1>1, <1>6 DEF IInv, Locals, SameSizes
<1>11. Counts(0)
  BY <1>6, TallySame DEF SameSizes, Counts
<1> QED BY <1>6, <1>8, <1>9, <1>10, <1>11 DEF IInv

\* OccupiedEntry::remove_kv pops the level of an emptied root.
LEMMA StepFinishRemove ==
  ASSUME IInv, FinishRemove
  PROVE  IInv' /\ Counts(0)
<1>1. pc = "finish" /\ length' = length - 1 /\ Return(ret)
  BY DEF FinishRemove
<1>2. length' \in Int /\ ret \in Option(KV) /\ emptied \in BOOLEAN
  BY <1>1 DEF IInv, Types
<1>3. right = Nil /\ Fixed = Nil
  BY <1>1 DEF IInv, Locals, Fixed
<1>4. Tree(heap, root, Nil, Nil, emptied)
  BY <1>3 DEF IInv
<1>5. CASE emptied
  <2>1. heap' = pop_internal_level(heap, root) /\ root' = descend(heap, root, 0)
    BY <1>5 DEF FinishRemove
  <2>2. root \in DOMAIN heap /\ heap[root].height # 0 /\ Len(heap[root].kv) = 0
    BY <1>5 DEF IInv, Locals
  <2>3. emptied = TRUE
    BY <1>2, <1>5
  <2>4. Tree(heap, root, Nil, Nil, TRUE)
    BY <1>4, <2>3, Zenon
  <2>5. Tree(heap', root', Nil, Nil, FALSE) /\ Counts(0)
    BY <2>1, <2>2, <2>4, TreePop DEF Counts
  <2> QED BY <1>1, <1>2, <2>5, Returned
<1>6. CASE ~emptied
  <2>1. heap' = heap /\ root' = root
    BY <1>6 DEF FinishRemove
  <2>2. emptied = FALSE
    BY <1>2, <1>6
  <2>3. Tree(heap', root', Nil, Nil, FALSE)
    BY <1>4, <2>1, <2>2
  <2>4. Counts(0)
    BY <2>1, TallySame DEF Counts
  <2> QED BY <1>1, <1>2, <2>3, <2>4, Returned
<1> QED BY <1>5, <1>6

\* Every step of the specification preserves the inductive invariant.
LEMMA IInvNext == IInv /\ [Next]_vars => IInv'
<1> SUFFICES ASSUME IInv, [Next]_vars
             PROVE  IInv'
  OBVIOUS
<1>1. CASE Call
  BY <1>1, StepCallSearch, StepCallEntryNoRoot, StepCallNoRoot, StepCallReplaceNoRoot,
     StepCallEnd, Zenon DEF Call
<1>2. CASE Search
  BY <1>2, StepSearchFound, StepSearchGoDown, StepSearchMissing, StepCompPanics,
     StepEndDescend, StepEndReached, Zenon DEF Search
<1>3. CASE EntryDrop
  BY <1>3, StepEntryDrop
<1>4. CASE Insert
  BY <1>4, StepOccupiedInsert, StepVacantInsertEmpty, StepVacantInsertFit,
     StepVacantInsertSplit, StepReplaceKey, StepInsertUpFit, StepInsertUpSplit,
     StepSplitRoot, Zenon DEF Insert
<1>5. CASE Remove
  BY <1>5, StepOccupiedRemoveLeaf, StepOccupiedRemoveInternal, StepLeftLeaf,
     StepRemoveLeafDone, StepRemoveLeafMerge, StepRemoveLeafSteal, StepFixDone,
     StepFixEmptyRoot, StepFixMerge, StepFixSteal, StepNextKvAscend, StepReplaceKv,
     StepFinishRemove, Zenon DEF Remove
<1>6. CASE UNCHANGED vars
  BY <1>6 DEF vars, IInv, Types, Fixed, Locals
<1> QED BY <1>1, <1>2, <1>3, <1>4, <1>5, <1>6 DEF Next

\* IInv is an invariant of the map: the tree is well formed and the locals of
\* the running operation agree with it, at every step of every operation and
\* whatever the client's comparator answers.
THEOREM Invariance == Spec => []IInv
  BY IInvInit, IInvNext, PTL DEF Spec

\* Every variable keeps its type (the heap stays a partial function from node
\* addresses to nodes, whose kv and edge arrays are filled to their len).
THEOREM TypeCorrect == Spec => []TypeOK
<1> DEFINE Points == pc \in PCs /\ op \in SearchOps \cup EndOps \cup {"none"}
<1>1. Init => Points
  BY DEF Init, PCs
<1>2. Points /\ [Next]_vars => Points'
  <2> SUFFICES ASSUME Points, [Next]_vars PROVE Points'
    OBVIOUS
  <2> USE DEF PCs
  <2>1. CASE Call
    BY <2>1 DEF Call, CallSearch, CallEntryNoRoot, CallNoRoot, CallReplaceNoRoot, CallEnd,
        Return, Goto, SearchOps, EndOps
  <2>2. CASE Search \/ EntryDrop
    BY <2>2 DEF Search, SearchFound, SearchGoDown, SearchMissing, CompPanics, EndDescend,
        EndReached, EntryDrop, Return, Goto
  <2>3. CASE Insert
    BY <2>3 DEF Insert, OccupiedInsert, VacantInsertEmpty, VacantInsertFit,
        VacantInsertSplit, ReplaceKey, InsertUpFit, InsertUpSplit, SplitRoot, Return, Goto
  <2>4. CASE Remove
    BY <2>4 DEF Remove, OccupiedRemoveLeaf, OccupiedRemoveInternal, LeftLeaf,
        RemoveLeafDone, RemoveLeafMerge, RemoveLeafSteal, RemoveLeafUnderfull, FixDone,
        FixEmptyRoot, FixMerge, FixSteal, AfterRemoveLeaf, NextKvAscend, ReplaceKv,
        FinishRemove, Return, Goto
  <2>5. CASE UNCHANGED vars
    BY <2>5 DEF vars
  <2> QED BY <2>1, <2>2, <2>3, <2>4, <2>5 DEF Next
<1>3. IInv /\ Points => TypeOK
  BY DEF IInv, Types, TypeOK
<1> QED BY <1>1, <1>2, <1>3, Invariance, PTL DEF Spec

\* What IInv says of the shape of the tree.
LEMMA ShapeFollows ==
  ASSUME IInv
  PROVE  ParentLinks /\ HeightsUniform /\ NodeLens
<1>1. ParentLinks /\ HeightsUniform
  BY DEF IInv, Tree, WellFormed, ParentLinks, HeightsUniform
<1>2. NodeLens
  <2> SUFFICES ASSUME NEW n \in DOMAIN heap
               PROVE  /\ Len(heap[n].kv) <= CAPACITY
                      /\ n # root => Len(heap[n].kv) >= IF BeingFixed(n) THEN MIN_LEN - 1
                                                        ELSE MIN_LEN
                      /\ \/ heap[n].height = 0
                         \/ BeingFixed(n)
                         \/ n = root /\ emptied
                         \/ Len(heap[n].kv) >= 1
    BY DEF NodeLens, len, IsLeaf
  <2>1. Lens(heap, root, Fixed, emptied)
    BY DEF IInv, Tree
  <2>2. n # Nil
    BY IInvFacts
  <2>3. BeingFixed(n) <=> n = Fixed
    BY <2>2 DEF BeingFixed, Fixed
  <2> QED BY <2>1, <2>3 DEF Lens
<1> QED BY <1>1, <1>2

\* correct_childrens_parent_links and its callers leave no dangling or stale
\* link: descend and ascend stay inverse at every step, for every branching
\* factor.
THEOREM ParentLinksKept == Spec => []ParentLinks
  BY Invariance, ShapeFollows, PTL

\* All leaves stay at the same depth: splits, merges, push_internal_level and
\* pop_internal_level change the height of whole levels only.
THEOREM HeightsStayUniform == Spec => []HeightsUniform
  BY Invariance, ShapeFollows, PTL

\* Every node keeps between MIN_LEN and CAPACITY pairs, the root and the one
\* node that a removal is repairing excepted.
THEOREM NodeLensKept == Spec => []NodeLens
  BY Invariance, ShapeFollows, PTL

\* While ancestors are repaired, the leaf that holds the tracked position is
\* neither freed nor changed, although merges free other nodes.
THEOREM TrackedLeafStays == Spec => TrackedLeafKept
<1> DEFINE Kept == /\ pos.node \in DOMAIN heap'
                   /\ heap'[pos.node].kv = heap[pos.node].kv
<1>1. ASSUME IInv, [Next]_vars, pc = "fix"
      PROVE  Kept
  <2>1. pos.node \in DOMAIN heap
    BY <1>1, FixFacts
  <2>2. FixDone \/ FixEmptyRoot \/ FixMerge \/ FixSteal \/ heap' = heap
    BY <1>1 DEF Next, vars, Call, CallSearch, CallEntryNoRoot, CallNoRoot, CallReplaceNoRoot,
        CallEnd, Search, SearchFound, SearchGoDown, SearchMissing, CompPanics, EndDescend,
        EndReached, EntryDrop, Insert, OccupiedInsert, VacantInsertEmpty, VacantInsertFit,
        VacantInsertSplit, ReplaceKey, InsertUpFit, InsertUpSplit, SplitRoot, Remove,
        OccupiedRemoveLeaf, OccupiedRemoveInternal, LeftLeaf, RemoveLeafDone,
        RemoveLeafMerge, RemoveLeafSteal, NextKvAscend, ReplaceKv, FinishRemove
  <2>3. CASE FixDone \/ FixEmptyRoot \/ heap' = heap
    BY <2>1, <2>3 DEF FixDone, FixEmptyRoot, map
  <2>4. CASE FixMerge
    BY <1>1, <2>4, FixMergeFacts
  <2>5. CASE FixSteal
    BY <1>1, <2>5, FixStealFacts
  <2> QED BY <2>2, <2>3, <2>4, <2>5
<1>2. IInv /\ [Next]_vars => [pc = "fix" => Kept]_vars
  BY <1>1
<1> QED BY <1>2, Invariance, PTL DEF Spec, TrackedLeafKept
-----------------------------------------------------------------------------
(* The length is exact *)

\* What is due to be counted off: the pair of a removal that is out of its leaf.
Due == IF pc \in {"fix", "next_kv", "finish"} THEN 1 ELSE 0

CInv == IInv /\ Countable(heap) /\ LengthExact

\* A step changes the nodes' count by d, the length by c and what is due by the rest.
LEMMA Counted ==
  ASSUME CInv, NEW d \in Int, Counts(d), NEW c \in Int, length' = length + c,
         Due' = Due + c - d
  PROVE  Countable(heap') /\ LengthExact'
<1>1. Countable(heap') /\ PairCount(heap') = PairCount(heap) + d
  BY DEF CInv, Counts, Tally
<1>2. PairCount(heap) \in Nat
  BY PlacesFinite DEF CInv
<1>3. length = PairCount(heap) + Due
  BY DEF CInv, LengthExact, Due
<1>4. Due \in {0, 1} /\ Due' \in {0, 1}
  BY DEF Due
<1>5. length' = PairCount(heap') + Due'
  BY <1>1, <1>2, <1>3, <1>4
<1> QED BY <1>1, <1>5 DEF LengthExact, Due

\* A step that only looks, from one point of the code to another.
LEMMA NotCounted ==
  ASSUME CInv, heap' = heap, length' = length, Due' = Due
  PROVE  Countable(heap') /\ LengthExact'
<1>1. Counts(0)
  BY TallySame DEF Counts
<1>2. length' = length + 0 /\ Due' = Due + 0 - 0
  BY DEF CInv, IInv, Types, Due
<1> QED BY <1>1, <1>2, Counted

\* A map without a root has no pairs.
LEMMA NothingCounted ==
  ASSUME CInv, pc = "vacant", cur = NoHandle
  PROVE  length = 0
<1>1. root = Nil /\ WellFormed(heap, {root, right}) /\ IsFiniteSet(DOMAIN heap)
      /\ Nil \notin DOMAIN heap
  BY IInvFacts DEF CInv, IInv, Locals, Countable
<1>2. right = Nil
  BY Quiet DEF CInv
<1>3. {root, right} \cap DOMAIN heap = {}
  BY <1>1, <1>2
<1>4. PairCount(heap) = 0
  BY <1>1, <1>3, NoRootNoNode
<1> QED BY <1>4 DEF CInv, LengthExact

\* Every step keeps the account.
LEMMA LengthNext ==
  ASSUME CInv, [Next]_vars
  PROVE  CInv'
<1>1. IInv /\ IInv'
  BY IInvNext DEF CInv
<1> SUFFICES Countable(heap') /\ LengthExact'
  BY <1>1 DEF CInv
<1>2. CASE UNCHANGED vars
  BY <1>2, NotCounted DEF vars, Due
<1>3. CASE Call
  <2>1. CASE \E k \in Key : CallReplaceNoRoot(k)
    <3>1. Counts(0)
      BY <1>1, <2>1, StepCallReplaceNoRoot
    <3>2. length' = length + 0 /\ Due' = Due + 0 - 0
      BY <1>1, <2>1 DEF CallReplaceNoRoot, Goto, Due, IInv, Types
    <3> QED BY <3>1, <3>2, Counted
  <2>2. CASE \/ \E o \in SearchOps, k \in Key : CallSearch(o, k)
             \/ \E o \in {"insert", "entry"}, k \in Key : CallEntryNoRoot(o, k)
             \/ \E o \in {"get", "remove"} \cup EndOps : CallNoRoot(o)
             \/ \E o \in EndOps : CallEnd(o)
    <3>1. heap' = heap /\ length' = length /\ pc = "idle"
          /\ pc' \in {"search", "vacant", "idle", "first_leaf", "last_leaf"}
      BY <2>2 DEF CallSearch, CallEntryNoRoot, CallNoRoot, CallEnd, Return, Goto, map
    <3>2. Due' = Due
      BY <3>1 DEF Due
    <3> QED BY <3>1, <3>2, NotCounted
  <2> QED BY <1>3, <2>1, <2>2 DEF Call
<1>4. CASE Search \/ EntryDrop
  <2>1. heap' = heap /\ length' = length
        /\ pc \in {"search", "vacant", "occupied", "first_leaf", "last_leaf"}
        /\ pc' \in {"search", "vacant", "occupied", "idle", "first_leaf", "last_leaf"}
    BY <1>4 DEF Search, SearchFound, SearchGoDown, SearchMissing, CompPanics, EndDescend,
        EndReached, EntryDrop, Return, Goto, map
  <2>2. Due' = Due
    BY <2>1 DEF Due
  <2> QED BY <2>1, <2>2, NotCounted
<1>5. CASE Insert
  <2>1. CASE (\E v \in Val : OccupiedInsert(v)) \/ ReplaceKey
    <3>1. Counts(0)
      BY <1>1, <2>1, StepOccupiedInsert, StepReplaceKey
    <3>2. length' = length /\ pc = "occupied" /\ pc' \in {"occupied", "idle"}
      <4>1. CASE \E v \in Val : OccupiedInsert(v)
        BY <4>1 DEF OccupiedInsert, Return
      <4>2. CASE ReplaceKey
        BY <4>2 DEF ReplaceKey, Return
      <4> QED BY <2>1, <4>1, <4>2
    <3>3. length' = length + 0 /\ Due' = Due + 0 - 0
      BY <1>1, <3>2 DEF Due, IInv, Types
    <3> QED BY <3>1, <3>3, Counted
  <2>2. CASE \E v \in Val : VacantInsertEmpty(v)
    <3>1. Counts(1)
      BY <1>1, <2>2, StepVacantInsertEmpty
    <3>2. length' = 1 /\ Due' = Due + 1 - 1 /\ pc = "vacant" /\ cur = NoHandle
      BY <2>2 DEF VacantInsertEmpty, Return, Due
    <3>3. length' = length + 1
      BY <3>2, NothingCounted
    <3> QED BY <3>1, <3>2, <3>3, Counted
  <2>3. CASE (\E v \in Val : VacantInsertFit(v)) \/ InsertUpFit \/ SplitRoot
    <3>1. Counts(1)
      BY <1>1, <2>3, StepVacantInsertFit, StepInsertUpFit, StepSplitRoot
    <3>2. length' = length + 1 /\ pc \in {"vacant", "insert_up"} /\ pc' = "idle"
      BY <2>3 DEF VacantInsertFit, InsertUpFit, SplitRoot, Return
    <3>3. Due' = Due + 1 - 1
      BY <3>2 DEF Due
    <3> QED BY <3>1, <3>2, <3>3, Counted
  <2>4. CASE (\E v \in Val : VacantInsertSplit(v)) \/ InsertUpSplit
    <3>1. Counts(0)
      BY <1>1, <2>4, StepVacantInsertSplit, StepInsertUpSplit
    <3>2. length' = length /\ pc \in {"vacant", "insert_up"} /\ pc' = "insert_up"
      BY <2>4 DEF VacantInsertSplit, InsertUpSplit, Goto
    <3>3. length' = length + 0 /\ Due' = Due + 0 - 0
      BY <1>1, <3>2 DEF Due, IInv, Types
    <3> QED BY <3>1, <3>3, Counted
  <2> QED BY <1>5, <2>1, <2>2, <2>3, <2>4 DEF Insert
<1>6. CASE Remove
  <2>1. CASE OccupiedRemoveLeaf \/ OccupiedRemoveInternal \/ LeftLeaf
             \/ FixDone \/ FixEmptyRoot \/ NextKvAscend
    <3>1. heap' = heap /\ length' = length
      BY <2>1 DEF OccupiedRemoveLeaf, OccupiedRemoveInternal, LeftLeaf, FixDone, FixEmptyRoot,
          NextKvAscend, map
    <3>2. Due' = Due
      BY <2>1 DEF OccupiedRemoveLeaf, OccupiedRemoveInternal, LeftLeaf, FixDone, FixEmptyRoot,
          NextKvAscend, Goto, AfterRemoveLeaf, Due
    <3> QED BY <3>1, <3>2, NotCounted
  <2>2. CASE RemoveLeafDone \/ RemoveLeafMerge \/ RemoveLeafSteal
    <3>1. Counts(- 1)
      BY <1>1, <2>2, StepRemoveLeafDone, StepRemoveLeafMerge, StepRemoveLeafSteal
    <3>2. length' = length + 0 /\ - 1 \in Int
      BY <1>1, <2>2 DEF RemoveLeafDone, RemoveLeafMerge, RemoveLeafSteal,
          RemoveLeafUnderfull, IInv, Types
    <3>3. Due = 0 /\ Due' = 1
      BY <2>2 DEF RemoveLeafDone, RemoveLeafMerge, RemoveLeafSteal,
          RemoveLeafUnderfull, AfterRemoveLeaf, Goto, Due
    <3> QED BY <3>1, <3>2, <3>3, Counted
  <2>3. CASE FixMerge \/ FixSteal \/ ReplaceKv
    <3>1. Counts(0)
      BY <1>1, <2>3, StepFixMerge, StepFixSteal, StepReplaceKv
    <3>2. length' = length + 0 /\ Due' = Due + 0 - 0
      BY <1>1, <2>3 DEF FixMerge, FixSteal, ReplaceKv, AfterRemoveLeaf, Goto, Due, IInv, Types
    <3> QED BY <3>1, <3>2, Counted
  <2>4. CASE FinishRemove
    <3>1. Counts(0)
      BY <1>1, <2>4, StepFinishRemove
    <3>2. length' = length + (- 1) /\ Due' = Due + (- 1) - 0 /\ - 1 \in Int
      BY <1>1, <2>4 DEF FinishRemove, Return, Due, IInv, Types
    <3> QED BY <3>1, <3>2, Counted
  <2> QED BY <1>6, <2>1, <2>2, <2>3, <2>4 DEF Remove
<1> QED BY <1>2, <1>3, <1>4, <1>5, <1>6 DEF Next

\* BTreeMap::len is the number of pairs in the nodes: splits, merges, steals and
\* root changes lose and invent none, and every operation counts its own pair
\* exactly once, a removal when it finishes.
THEOREM LengthStaysExact == Spec => []LengthExact
<1>1. Init => CInv
  <2> SUFFICES ASSUME Init
               PROVE  CInv
    OBVIOUS
  <2>1. DOMAIN heap = {}
    BY DEF Init
  <2>2. Countable(heap)
    BY <2>1, FS_EmptySet DEF Countable
  <2>3. WellFormed(heap, {root, right}) /\ root = Nil /\ right = Nil
    BY IInvInit DEF IInv, Tree, Init
  <2>4. PairCount(heap) = 0
    BY <2>1, <2>2, <2>3, NoRootNoNode DEF Countable
  <2>5. LengthExact
    BY <2>4 DEF Init, LengthExact
  <2> QED BY <2>2, <2>5, IInvInit DEF CInv
<1>2. CInv /\ [Next]_vars => CInv'
  BY LengthNext
<1>3. CInv => LengthExact
  BY DEF CInv
<1> QED BY <1>1, <1>2, <1>3, PTL DEF Spec

-----------------------------------------------------------------------------
(* No assertion fails *)

\* There is a pair right of the edge e, in its node or in one above it.
HasNext(h, rt, e) == e.idx < Len(h[e.node].kv) \/ OffBorder(h, rt, e.node)

\* While a pair of an internal node is replaced by its left neighbour, it stays
\* right of the hole that the neighbour leaves.
Replaceable ==
  refill =>
    /\ pc \in {"left_leaf", "remove_leaf", "fix", "next_kv", "finish"}
    /\ pc \in {"left_leaf", "remove_leaf"} => OffBorder(heap, root, cur.node)
    /\ pc = "fix" => HasNext(heap, root, pos)
    /\ pc = "next_kv" => HasNext(heap, root, cur)

\* left_leaf and next_kv are points of remove_internal_kv.
Refilling == pc \in {"left_leaf", "next_kv"} => refill

AInv == IInv /\ Replaceable /\ Refilling
-----------------------------------------------------------------------------
(* The right border under repair *)

\* Climbing from a node off the border comes to a pair or stays off it.
LEMMA BorderUp ==
  ASSUME NEW h, NEW tops, WellFormed(h, tops), NEW rt, NEW n \in DOMAIN h, h[n].parent # Nil,
         OffBorder(h, rt, n)
  PROVE  HasNext(h, rt, Handle(h[n].parent, h[n].parent_idx))
<1> DEFINE p == h[n].parent
           i == h[n].parent_idx
<1>1. /\ p \in DOMAIN h /\ h[p].height # 0 /\ i \in 0 .. Len(h[p].kv)
      /\ descend(h, p, i) = n
  BY ParentFacts
<1>2. Len(h[p].kv) \in Nat
  BY <1>1, NodeArity
<1>3. Handle(p, i).node = p /\ Handle(p, i).idx = i
  BY DEF Handle
<1>4. PICK T \in SUBSET (DOMAIN h \cup {rt}) : rt \in T /\ n \notin T /\ Closed(h, T)
  BY DEF OffBorder
<1> HIDE DEF p, i
<1>5. CASE i < Len(h[p].kv)
  BY <1>3, <1>5 DEF HasNext, p, i
<1>6. CASE ~(i < Len(h[p].kv))
  <2>1. i = Len(h[p].kv)
    BY <1>1, <1>2, <1>6
  <2>2. LastChild(h, p) = n
    BY <1>1, <2>1 DEF LastChild
  <2>3. p \notin T
    BY <1>1, <1>4, <2>2 DEF Closed
  <2>4. OffBorder(h, rt, p)
    BY <1>4, <2>3 DEF OffBorder
  <2> QED BY <1>3, <2>4 DEF HasNext, p, i
<1> QED BY <1>5, <1>6

\* A node off the border stays off it in the merge that repairs the node n.
LEMMA MergeOffBorder ==
  ASSUME NEW h, NEW rt, NEW n, Tree(h, rt, Nil, n, FALSE), n \in DOMAIN h,
         NEW p, p = h[n].parent, p # Nil, NEW i, i = PairBeside(h, n),
         NEW left, left = descend(h, p, i), NEW rgt, rgt = descend(h, p, i + 1),
         NEW m, m \in DOMAIN h, m # left, OffBorder(h, rt, m)
  PROVE  OffBorder(do_merge(h, p, i), rt, IF m = rgt THEN left ELSE m)
<1>1. Beside(h, n, p, i)
  BY PairFacts
<1>2. /\ WellFormed(h, {rt, Nil}) /\ p \in DOMAIN h /\ h[p].height # 0
      /\ i \in 0 .. Len(h[p].kv) - 1 /\ rt \in {rt, Nil}
  BY <1>1 DEF Beside, Tree
<1> QED BY <1>2, BorderMerge, SMTT(30)

\* The same for the steal that repairs the node n.
LEMMA StealOffBorder ==
  ASSUME NEW h, NEW rt, NEW n, Tree(h, rt, Nil, n, FALSE), n \in DOMAIN h,
         Len(h[n].kv) = MIN_LEN - 1,
         NEW p, p = h[n].parent, p # Nil, NEW i, i = PairBeside(h, n), ~can_merge(h, p, i),
         NEW g, h[n].parent_idx > 0 => g = bulk_steal_left(h, p, i, 1),
         ~(h[n].parent_idx > 0) => g = bulk_steal_right(h, p, i, 1),
         NEW m, OffBorder(h, rt, m)
  PROVE  OffBorder(g, rt, m)
<1> DEFINE lc == descend(h, p, i)
           rc == descend(h, p, i + 1)
<1>1. Beside(h, n, p, i)
  BY PairFacts
<1>2. /\ WellFormed(h, {rt, Nil}) /\ p \in DOMAIN h /\ h[p].height # 0
      /\ i \in 0 .. Len(h[p].kv) - 1 /\ rt \in {rt, Nil}
      /\ h[n].parent_idx > 0 => rc = n
      /\ ~(h[n].parent_idx > 0) => lc = n
  BY <1>1 DEF Beside, Tree
<1>3. lc \in DOMAIN h /\ rc \in DOMAIN h /\ lc # rc
  BY <1>2, Siblings
<1>4. Tree(g, rt, Nil, Nil, FALSE) /\ Shifted(g, h, p, i)
  BY TreeSteal
<1>5. StealBorder(g, h, lc)
  <2>1. CASE h[n].parent_idx > 0
    <3>1. Len(h[lc].kv) \in Nat /\ Len(h[lc].kv) >= MIN_LEN + 2
      BY <1>1, <1>2, <1>3, <2>1, StealLens
    <3>2. 1 <= Len(h[lc].kv) /\ 1 \in Nat /\ 1 >= 1
      BY <3>1, MinLen
    <3>3. g = bulk_steal_left(h, p, i, 1)
      BY <2>1
    <3> QED BY <1>2, <3>2, <3>3, StealLeftBorder
  <2>2. CASE ~(h[n].parent_idx > 0)
    <3>1. Len(h[rc].kv) \in Nat /\ Len(h[rc].kv) >= MIN_LEN + 2
      BY <1>1, <1>2, <1>3, <2>2, StealLens
    <3>2. 1 <= Len(h[rc].kv) /\ 1 \in Nat /\ 1 >= 1
      BY <3>1, MinLen
    <3>3. g = bulk_steal_right(h, p, i, 1)
      BY <2>2
    <3> QED BY <1>2, <3>2, <3>3, StealRightBorder
  <2> QED BY <2>1, <2>2
<1>6. DOMAIN g = DOMAIN h /\ \A k \in DOMAIN h : g[k].height = h[k].height
  BY <1>4 DEF Shifted
<1> HIDE DEF rc
<1> QED BY <1>2, <1>5, <1>6, BorderSteal
-----------------------------------------------------------------------------
(* AInv is inductive *)

\* No removal of an internal pair is in progress.
NoRefill == refill = FALSE /\ pc \notin {"left_leaf", "next_kv"}

\* Then AInv says no more than IInv.
LEMMA NoRefillFacts ==
  ASSUME NoRefill
  PROVE  Replaceable /\ Refilling
  BY DEF NoRefill, Replaceable, Refilling

\* Operations that do not remove, and searches for a pair to remove.
LEMMA StepOther ==
  ASSUME IInv, Replaceable, Refilling, Call \/ Search \/ EntryDrop \/ Insert
  PROVE  (Replaceable /\ Refilling)'
<1>1. /\ pc \notin {"left_leaf", "remove_leaf", "fix", "next_kv", "finish"}
      /\ pc' \notin {"left_leaf", "remove_leaf", "fix", "next_kv", "finish"}
      /\ refill' \in {refill, FALSE}
  <2>1. CASE Call
    BY <2>1 DEF Call, CallSearch, CallEntryNoRoot, CallNoRoot, CallReplaceNoRoot, CallEnd,
        Return, Goto
  <2>2. CASE Search \/ EntryDrop
    BY <2>2 DEF Search, SearchFound, SearchGoDown, SearchMissing, CompPanics, EndDescend,
        EndReached, EntryDrop, Return, Goto
  <2>3. CASE Insert
    BY <2>3 DEF Insert, OccupiedInsert, VacantInsertEmpty, VacantInsertFit,
        VacantInsertSplit, ReplaceKey, InsertUpFit, InsertUpSplit, SplitRoot, Return, Goto
  <2> QED BY <2>1, <2>2, <2>3
<1>2. refill = FALSE
  BY <1>1 DEF Replaceable, IInv, Types
<1>3. NoRefill'
  BY <1>1, <1>2 DEF NoRefill
<1> QED BY <1>3, NoRefillFacts DEF NoRefill, Replaceable, Refilling

\* remove_internal_kv goes to the left of the pair, so off the right border.
LEMMA AStepOccupiedRemoveInternal ==
  ASSUME IInv, OccupiedRemoveInternal
  PROVE  (Replaceable /\ Refilling)'
<1> DEFINE c == descend(heap, cur.node, cur.idx)
<1>1. /\ pc = "occupied" /\ heap[cur.node].height # 0 /\ pc' = "left_leaf"
      /\ cur' = Handle(c, 0) /\ refill' = TRUE /\ heap' = heap /\ root' = root
  BY DEF OccupiedRemoveInternal, IsLeaf, map, Goto
<1>2. /\ cur.node \in DOMAIN heap /\ cur.idx \in Nat /\ cur.idx < Len(heap[cur.node].kv)
      /\ WellFormed(heap, {root, right}) /\ root \in {root, right}
  BY <1>1, IInvFacts DEF IInv, Locals
<1>4. OffBorder(heap, root, c)
  BY <1>1, <1>2, BorderChild
<1> HIDE DEF c
<1>5. cur'.node = c
  BY <1>1 DEF Handle
<1> QED BY <1>1, <1>4, <1>5 DEF Replaceable, Refilling

\* last_leaf_edge stays off the border.
LEMMA AStepLeftLeaf ==
  ASSUME IInv, Replaceable, Refilling, LeftLeaf
  PROVE  (Replaceable /\ Refilling)'
<1>1. /\ pc = "left_leaf" /\ UNCHANGED <<heap, root, refill>>
      /\ heap[cur.node].height = 0 =>
           pc' = "remove_leaf" /\ cur' = Handle(cur.node, Len(heap[cur.node].kv) - 1)
      /\ heap[cur.node].height # 0 =>
           /\ pc' = "left_leaf"
           /\ cur' = Handle(LastChild(heap, cur.node), 0)
  BY DEF LeftLeaf, IsLeaf, len, map, Goto, LastChild
<1>2. refill /\ OffBorder(heap, root, cur.node) /\ cur.node \in DOMAIN heap
      /\ WellFormed(heap, {root, right}) /\ root \in {root, right}
  BY <1>1, IInvFacts DEF Replaceable, Refilling, IInv, Locals
<1>3. CASE heap[cur.node].height = 0
  <2>1. cur'.node = cur.node /\ pc' = "remove_leaf"
    BY <1>1, <1>3 DEF Handle
  <2> QED BY <1>1, <1>2, <2>1 DEF Replaceable, Refilling
<1>4. CASE heap[cur.node].height # 0
  <2>1. OffBorder(heap, root, LastChild(heap, cur.node))
    BY <1>2, <1>4, BorderDown
  <2>2. cur'.node = LastChild(heap, cur.node) /\ pc' = "left_leaf"
    BY <1>1, <1>4 DEF Handle
  <2> QED BY <1>1, <1>2, <2>1, <2>2 DEF Replaceable, Refilling
<1> QED BY <1>3, <1>4

\* A node that is off the right border stays so when the root is popped.
LEMMA BorderPopped ==
  ASSUME NEW h, NEW rt, Tree(h, rt, Nil, Nil, TRUE), rt \in DOMAIN h, h[rt].height # 0,
         Len(h[rt].kv) = 0, NEW n, OffBorder(h, rt, n)
  PROVE  OffBorder(pop_internal_level(h, rt), descend(h, rt, 0), n)
<1> DEFINE g == pop_internal_level(h, rt)
           c == descend(h, rt, 0)
<1>1. /\ DOMAIN g = DOMAIN h \ {rt}
      /\ \A m \in DOMAIN h \ {rt} : /\ g[m].kv = h[m].kv /\ g[m].edges = h[m].edges
                                    /\ g[m].height = h[m].height
  BY PopKeeps, ZenonT(40)
<1>2. WellFormed(h, {rt, Nil}) /\ rt \in {rt, Nil}
  BY DEF Tree
<1>3. c = LastChild(h, rt)
  BY DEF c, LastChild
<1> HIDE DEF g, c
<1>4. PICK T \in SUBSET (DOMAIN h \cup {rt}) : rt \in T /\ n \notin T /\ Closed(h, T)
  BY DEF OffBorder
<1>5. c \in T /\ c \in DOMAIN h /\ c # rt
  BY <1>2, <1>3, <1>4, LastChildFacts DEF Closed
<1> DEFINE U == T \ {rt}
<1>6. Closed(g, U)
  <2> SUFFICES ASSUME NEW m \in U \cap DOMAIN g, g[m].height # 0
               PROVE  LastChild(g, m) \in U
    BY DEF Closed
  <2>1. m \in T /\ m \in DOMAIN h /\ m # rt /\ h[m].height # 0
    BY <1>1
  <2>2. LastChild(g, m) = LastChild(h, m)
    BY <1>1, <2>1 DEF LastChild, descend
  <2>3. LastChild(h, m) \in T
    BY <1>4, <2>1 DEF Closed
  <2>4. LastChild(h, m) # rt
    BY <1>2, <2>1, LastChildFacts
  <2> QED BY <2>2, <2>3, <2>4
<1>7. U \in SUBSET (DOMAIN g \cup {c}) /\ c \in U /\ n \notin U
  BY <1>1, <1>4, <1>5
<1>8. OffBorder(g, c, n)
  BY <1>6, <1>7 DEF OffBorder
<1> QED BY <1>8 DEF g, c

\* Removing a pair from a leaf moves no edge.
LEMMA BorderRemoved ==
  ASSUME NEW h, NEW g, NEW n, Removed(g, h, n), h[n].height = 0, NEW rt, NEW m,
         OffBorder(h, rt, m)
  PROVE  OffBorder(g, rt, m)
<1>1. \A k \in DOMAIN h : /\ g[k].height = h[k].height
                          /\ h[k].height # 0 => LastChild(g, k) = LastChild(h, k)
  BY DEF Removed, LastChild, descend
<1>2. DOMAIN g = DOMAIN h
  BY DEF Removed
<1>3. PICK T \in SUBSET (DOMAIN h \cup {rt}) : rt \in T /\ m \notin T /\ Closed(h, T)
  BY DEF OffBorder
<1>4. Closed(g, T)
  BY <1>1, <1>2, <1>3 DEF Closed
<1> QED BY <1>2, <1>3, <1>4 DEF OffBorder

\* remove_leaf_kv without rebalancing.
LEMMA AStepRemoveLeafDone ==
  ASSUME IInv, Replaceable, RemoveLeafDone
  PROVE  (Replaceable /\ Refilling)'
<1>1. /\ pc = "remove_leaf" /\ heap' = LeafRemoved
      /\ refill => pc' = "next_kv"
      /\ ~refill => pc' = "finish"
      /\ cur' = cur /\ root' = root /\ refill' = refill
  BY DEF RemoveLeafDone, AfterRemoveLeaf, Goto
<1>2. Removed(LeafRemoved, heap, cur.node) /\ heap[cur.node].height = 0
  BY <1>1, RemoveLeafFacts
<1>3. refill => OffBorder(heap', root, cur.node)
  BY <1>1, <1>2, BorderRemoved DEF Replaceable
<1> QED BY <1>1, <1>3 DEF Replaceable, Refilling, HasNext

\* remove_leaf_kv merges the leaf: its pairs are in the left child afterwards.
LEMMA AStepRemoveLeafMerge ==
  ASSUME IInv, Replaceable, RemoveLeafMerge
  PROVE  (Replaceable /\ Refilling)'
<1> DEFINE g == LeafRemoved
           n == cur.node
           p == Parent(n)
           i == ParentKV(n)
           lc == descend(heap, p, i)
           rc == descend(heap, p, i + 1)
           j == IF HasLeftKV(n) THEN len(heap, lc) + 1 + cur.idx ELSE cur.idx
<1>1. /\ pc = "remove_leaf" /\ p # Nil /\ len(g, n) < MIN_LEN
      /\ can_merge(g, p, i) /\ heap' = do_merge(g, p, i)
      /\ pos' = Handle(lc, j) /\ pc' = "fix" /\ root' = root /\ refill' = refill
  BY DEF RemoveLeafMerge, RemoveLeafUnderfull, Goto
<1>2. /\ n \in DOMAIN heap /\ cur.idx \in Nat /\ Tree(g, root, Nil, n, FALSE)
      /\ Removed(g, heap, n) /\ heap[n].height = 0
  BY <1>1, RemoveLeafFacts
<1>3. /\ n \in DOMAIN g /\ p = g[n].parent /\ i = PairBeside(g, n)
      /\ lc = descend(g, p, i) /\ rc = descend(g, p, i + 1)
      /\ HasLeftKV(n) <=> g[n].parent_idx > 0
      /\ DOMAIN g = DOMAIN heap
  BY <1>1, UnderfullLeaf
<1>4. cur.idx < Len(heap[n].kv) /\ Len(heap[n].kv) \in Nat
  BY <1>1, IInvFacts DEF IInv, Locals
<1> HIDE DEF g, n, p, i, lc, rc, j
<1>5. /\ Beside(g, n, p, i)
      /\ Merged(heap', g, {root, Nil}, p, lc, rc)
  BY <1>1, <1>2, <1>3, TreeMerge, PairFacts
<1>6. HasNext(heap', root, pos') \/ ~refill
  <2>1. pos'.node = lc /\ pos'.idx = j
    BY <1>1 DEF Handle
  <2>2. CASE HasLeftKV(n) /\ refill
    <3>1. OffBorder(heap, root, n)
      BY <1>1, <2>2 DEF Replaceable, n
    <3>2. OffBorder(g, root, n)
      BY <1>2, <3>1, BorderRemoved
    <3>3. rc = n
      BY <1>3, <1>5, <2>2 DEF Beside
    <3>4. n # lc
      <4>1. /\ WellFormed(g, {root, Nil}) /\ p \in DOMAIN g /\ g[p].height # 0
            /\ i \in 0 .. Len(g[p].kv) - 1
        BY <1>2, <1>5 DEF Beside, Tree
      <4> QED BY <1>3, <3>3, <4>1, Siblings
    <3>5. OffBorder(heap', root, IF n = rc THEN lc ELSE n)
      <4>1. p # Nil /\ heap' = do_merge(g, p, i)
        BY <1>1
      <4>2. OffBorder(do_merge(g, p, i), root, IF n = rc THEN lc ELSE n)
        BY ONLY <1>2, <1>3, <3>2, <3>4, <4>1, MergeOffBorder, ZenonT(40)
      <4> QED BY <4>1, <4>2
    <3> QED BY <2>1, <3>3, <3>5 DEF HasNext
  <2>3. CASE ~HasLeftKV(n)
    <3>1. lc = n /\ j = cur.idx
      BY <1>3, <1>5, <2>3 DEF Beside, j
    <3>2. Len(heap'[n].kv) = Len(g[n].kv) + 1 + Len(g[rc].kv)
      BY <1>5, <3>1 DEF Merged
    <3>3. Len(g[n].kv) = Len(heap[n].kv) - 1
      BY <1>2 DEF Removed
    <3>4. Len(g[rc].kv) \in Nat
      <4>1. /\ WellFormed(g, {root, Nil}) /\ p \in DOMAIN g /\ g[p].height # 0
            /\ i \in 0 .. Len(g[p].kv) - 1
        BY <1>2, <1>5 DEF Beside, Tree
      <4>2. rc \in DOMAIN g
        BY <1>3, <4>1, Siblings
      <4> QED BY <4>1, <4>2, NodeArity
    <3>5. cur.idx < Len(heap'[n].kv)
      <4>1. PICK x \in Nat : x = Len(g[rc].kv)
        BY <3>4
      <4>2. PICK y \in Nat : y = Len(heap[n].kv)
        BY <1>4
      <4>3. Len(heap'[n].kv) = y - 1 + 1 + x
        BY <3>2, <3>3, <4>1, <4>2
      <4> QED BY ONLY <1>2, <1>4, <4>2, <4>3, x \in Nat, y \in Nat
    <3> QED BY <2>1, <3>1, <3>5 DEF HasNext
  <2> QED BY <2>2, <2>3
<1> QED BY <1>1, <1>6 DEF Replaceable, Refilling

\* remove_leaf_kv steals for the leaf.
LEMMA AStepRemoveLeafSteal ==
  ASSUME IInv, Replaceable, RemoveLeafSteal
  PROVE  (Replaceable /\ Refilling)'
<1> DEFINE g == LeafRemoved
           n == cur.node
           p == Parent(n)
           i == ParentKV(n)
<1>1. /\ pc = "remove_leaf" /\ p # Nil /\ len(LeafRemoved, cur.node) < MIN_LEN
      /\ ~can_merge(g, p, i)
      /\ HasLeftKV(n) => heap' = bulk_steal_left(g, p, i, 1) /\ pos' = Handle(n, 1 + cur.idx)
      /\ ~HasLeftKV(n) => heap' = bulk_steal_right(g, p, i, 1) /\ pos' = cur
      /\ pc' = "fix" /\ root' = root /\ refill' = refill
  BY DEF RemoveLeafSteal, RemoveLeafUnderfull, Goto
<1>2. /\ n \in DOMAIN heap /\ Tree(g, root, Nil, n, FALSE) /\ heap[n].height = 0
      /\ Removed(g, heap, n)
  BY <1>1, RemoveLeafFacts
<1>3. /\ n \in DOMAIN g /\ p = g[n].parent /\ i = PairBeside(g, n)
      /\ HasLeftKV(n) <=> g[n].parent_idx > 0
      /\ Len(g[n].kv) = MIN_LEN - 1
  BY <1>1, UnderfullLeaf
<1>4. pos'.node = n
  BY <1>1 DEF Handle
<1>5. refill => OffBorder(heap, root, n)
  BY <1>1 DEF Replaceable
<1> HIDE DEF g, p, i, n
<1>6. refill => OffBorder(heap', root, n)
  <2>1. /\ g[n].parent_idx > 0 => heap' = bulk_steal_left(g, p, i, 1)
        /\ ~(g[n].parent_idx > 0) => heap' = bulk_steal_right(g, p, i, 1)
        /\ p # Nil /\ ~can_merge(g, p, i)
    BY <1>1, <1>3
  <2>2. refill => OffBorder(g, root, n)
    BY <1>2, <1>5, BorderRemoved
  <2> QED BY ONLY <1>2, <1>3, <2>1, <2>2, StealOffBorder
<1> QED BY <1>1, <1>4, <1>6 DEF Replaceable, Refilling, HasNext

\* What follows remove_leaf_kv: the search for the pair starts at pos.
LEMMA AfterFix ==
  ASSUME IInv, pc = "fix", AfterRemoveLeaf(pos), root' = root, refill' = refill,
         refill => HasNext(heap', root, pos)
  PROVE  (Replaceable /\ Refilling)'
<1>1. /\ refill => pc' = "next_kv"
      /\ ~refill => pc' = "finish"
      /\ cur' = pos
  BY DEF AfterRemoveLeaf, Goto
<1> QED BY <1>1 DEF Replaceable, Refilling

\* fix_node_and_affected_ancestors merges internal nodes above the leaf of pos.
LEMMA AStepFixMerge ==
  ASSUME IInv, Replaceable, FixMerge
  PROVE  (Replaceable /\ Refilling)'
<1> DEFINE n == cur.node
           p == Parent(n)
           i == ParentKV(n)
           lc == descend(heap, p, i)
           rc == descend(heap, p, i + 1)
<1>1. /\ pc = "fix" /\ p # Nil /\ heap' = do_merge(heap, p, i) /\ can_merge(heap, p, i)
      /\ pc' = "fix" /\ pos' = pos /\ root' = root /\ refill' = refill
  BY DEF FixMerge, Goto
<1>2. /\ Tree(heap, root, Nil, n, FALSE) /\ n \in DOMAIN heap /\ heap[n].height # 0
      /\ pos.node \in DOMAIN heap /\ heap[pos.node].height = 0
  BY <1>1, FixFacts
<1>3. p = heap[n].parent /\ i = PairBeside(heap, n)
  BY DEF Parent, ParentKV, PairBeside, HasLeftKV
<1>4. heap'[pos.node].kv = heap[pos.node].kv
  BY FixMergeFacts
<1>5. heap[p].height = heap[n].height + 1 /\ heap[n].height \in Nat
  BY <1>1, <1>2, <1>3, IInvFacts, ParentFacts
<1> HIDE DEF n, p, i
<1>6. pos.node # lc /\ pos.node # rc
  <2>1. Merged(heap', heap, {root, Nil}, p, lc, rc)
    BY <1>1, <1>2, <1>3, TreeMerge
  <2> HIDE DEF lc, rc
  <2>2. heap[lc].height = heap[p].height - 1 /\ heap[rc].height = heap[p].height - 1
    BY <2>1 DEF Merged
  <2> QED BY <1>2, <1>5, <2>2
<1>7. OffBorder(heap, root, pos.node) => OffBorder(heap', root, pos.node)
  <2> SUFFICES ASSUME OffBorder(heap, root, pos.node)
               PROVE  OffBorder(heap', root, pos.node)
    OBVIOUS
  <2> HIDE DEF lc, rc
  <2>1. lc = descend(heap, p, i) /\ rc = descend(heap, p, i + 1)
    BY DEF lc, rc
  <2>2. OffBorder(heap', root, IF pos.node = rc THEN lc ELSE pos.node)
    BY ONLY <1>1, <1>2, <1>3, <1>6, <2>1, OffBorder(heap, root, pos.node), MergeOffBorder, ZenonT(40)
  <2> QED BY <1>6, <2>2
<1>8. refill => HasNext(heap', root, pos)
  BY <1>1, <1>4, <1>7 DEF Replaceable, HasNext
<1> QED BY <1>1, <1>8 DEF Replaceable, Refilling

\* fix_node_and_affected_ancestors steals and stops.
LEMMA AStepFixSteal ==
  ASSUME IInv, Replaceable, FixSteal
  PROVE  (Replaceable /\ Refilling)'
<1> DEFINE n == cur.node
           p == Parent(n)
           i == ParentKV(n)
           count == MIN_LEN - Len(heap[n].kv)
<1>1. /\ pc = "fix" /\ p # Nil /\ ~can_merge(heap, p, i) /\ Len(heap[n].kv) < MIN_LEN
      /\ HasLeftKV(n) => heap' = bulk_steal_left(heap, p, i, count)
      /\ ~HasLeftKV(n) => heap' = bulk_steal_right(heap, p, i, count)
      /\ AfterRemoveLeaf(pos) /\ root' = root /\ refill' = refill
  BY DEF FixSteal, Underfull, len
<1>2. /\ Tree(heap, root, Nil, n, FALSE) /\ n \in DOMAIN heap
  BY <1>1, FixFacts
<1>3. p = heap[n].parent /\ i = PairBeside(heap, n) /\ (HasLeftKV(n) <=> heap[n].parent_idx > 0)
  BY DEF Parent, ParentKV, PairBeside, HasLeftKV
<1>4. Len(heap[n].kv) = MIN_LEN - 1 /\ count = 1
  <2>1. n \notin {root, right}
    BY <1>1, <1>2, <1>3, IInvFacts, ParentFacts
  <2>2. Len(heap[n].kv) >= MIN_LEN - 1
    BY <1>2, <2>1 DEF Tree, Lens
  <2>3. Len(heap[n].kv) \in Nat
    BY <1>2, IInvFacts
  <2> QED BY <1>1, <2>2, <2>3, MinLen
<1>5. heap'[pos.node].kv = heap[pos.node].kv
  BY FixStealFacts
<1> HIDE DEF n, p, i, count
<1>6. OffBorder(heap, root, pos.node) => OffBorder(heap', root, pos.node)
  <2>1. /\ heap[n].parent_idx > 0 => heap' = bulk_steal_left(heap, p, i, 1)
        /\ ~(heap[n].parent_idx > 0) => heap' = bulk_steal_right(heap, p, i, 1)
        /\ p # Nil /\ ~can_merge(heap, p, i)
    BY <1>1, <1>3, <1>4
  <2> QED BY ONLY <1>2, <1>3, <1>4, <2>1, StealOffBorder
<1>7. refill => HasNext(heap', root, pos)
  BY <1>1, <1>5, <1>6 DEF Replaceable, HasNext
<1> QED BY <1>1, <1>7, AfterFix

\* next_kv climbs one level.
LEMMA AStepNextKvAscend ==
  ASSUME IInv, Replaceable, Refilling, NextKvAscend
  PROVE  (Replaceable /\ Refilling)'
<1> DEFINE p == heap[cur.node].parent
           i == heap[cur.node].parent_idx
<1>1. /\ pc = "next_kv" /\ p # Nil /\ pc' = "next_kv" /\ cur' = Handle(p, i)
      /\ cur.idx >= Len(heap[cur.node].kv) /\ UNCHANGED <<heap, root, refill>>
  BY DEF NextKvAscend, Goto, Parent, map, len
<1>2. /\ cur.node \in DOMAIN heap /\ WellFormed(heap, {root, right}) /\ cur.idx \in Nat
      /\ Len(heap[cur.node].kv) \in Nat
  BY <1>1, IInvFacts DEF IInv, Locals
<1>3. refill /\ HasNext(heap, root, cur)
  BY <1>1 DEF Replaceable, Refilling
<1>4. OffBorder(heap, root, cur.node)
  BY <1>1, <1>2, <1>3 DEF HasNext
<1>5. HasNext(heap, root, Handle(p, i))
  BY <1>1, <1>2, <1>4, BorderUp
<1> HIDE DEF p, i
<1> QED BY <1>1, <1>3, <1>5 DEF Replaceable, Refilling

\* The steps that remove keep the pair that is to be replaced reachable.
LEMMA StepRemove ==
  ASSUME IInv, Replaceable, Refilling, Remove
  PROVE  (Replaceable /\ Refilling)'
<1>1. CASE OccupiedRemoveLeaf
  <2>1. pc = "occupied" /\ pc' = "remove_leaf" /\ refill' = refill
    BY <1>1 DEF OccupiedRemoveLeaf
  <2>2. ~refill
    BY <2>1 DEF Replaceable
  <2> QED BY <2>1, <2>2 DEF Replaceable, Refilling
<1>2. CASE FixDone
  <2>1. /\ pc = "fix" /\ AfterRemoveLeaf(pos) /\ UNCHANGED <<heap, root, refill>>
    BY <1>2 DEF FixDone, map
  <2>2. refill => HasNext(heap', root, pos)
    BY <2>1 DEF Replaceable
  <2> QED BY <2>1, <2>2, AfterFix
<1>3. CASE FixEmptyRoot
  <2>1. /\ pc = "fix" /\ AfterRemoveLeaf(pos) /\ UNCHANGED <<heap, root, refill>>
    BY <1>3 DEF FixEmptyRoot, map
  <2>2. refill => HasNext(heap', root, pos)
    BY <2>1 DEF Replaceable
  <2> QED BY <2>1, <2>2, AfterFix
<1>4. CASE ReplaceKv
  BY <1>4 DEF ReplaceKv, Goto, Replaceable, Refilling
<1>5. CASE FinishRemove
  BY <1>5 DEF FinishRemove, Return, Replaceable, Refilling
<1> QED BY <1>1, <1>2, <1>3, <1>4, <1>5, AStepOccupiedRemoveInternal, AStepLeftLeaf,
           AStepRemoveLeafDone, AStepRemoveLeafMerge, AStepRemoveLeafSteal, AStepFixMerge,
           AStepFixSteal, AStepNextKvAscend, Zenon DEF Remove

\* AInv is inductive.
LEMMA AInvNext == AInv /\ [Next]_vars => AInv'
<1> SUFFICES ASSUME AInv, [Next]_vars
             PROVE  AInv'
  OBVIOUS
<1>1. IInv /\ Replaceable /\ Refilling /\ IInv'
  BY IInvNext DEF AInv
<1>2. (Replaceable /\ Refilling)'
  <2>1. CASE UNCHANGED vars
    BY <1>1, <2>1 DEF vars, Replaceable, Refilling
  <2>2. CASE Call \/ Search \/ EntryDrop \/ Insert
    BY <1>1, <2>2, StepOther
  <2>3. CASE Remove
    BY <1>1, <2>3, StepRemove
  <2> QED BY <2>1, <2>2, <2>3 DEF Next
<1> QED BY <1>1, <1>2 DEF AInv

\* AInv holds in the new map.
LEMMA AInvInit == Init => AInv
  BY IInvInit DEF AInv, Init, Replaceable, Refilling

\* Every removal of an internal pair finds that pair again from the hole its
\* neighbour left, at every step of the removal.
THEOREM StaysReplaceable == Spec => []AInv
  BY AInvInit, AInvNext, PTL DEF Spec
-----------------------------------------------------------------------------
(* The assertions *)

\* The length of the sibling that a steal for n takes a pair from.
SiblingLen(h, n, p, i) ==
  IF h[n].parent_idx > 0 THEN Len(h[descend(h, p, i)].kv) ELSE Len(h[descend(h, p, i + 1)].kv)

\* When the underfull node cannot be merged, its sibling has pairs to spare.
LEMMA SiblingToSpare ==
  ASSUME NEW h, NEW rt, NEW n, Tree(h, rt, Nil, n, FALSE), n \in DOMAIN h,
         Len(h[n].kv) = MIN_LEN - 1,
         NEW p, p = h[n].parent, p # Nil, NEW i, i = PairBeside(h, n), ~can_merge(h, p, i)
  PROVE  SiblingLen(h, n, p, i) \in Nat /\ SiblingLen(h, n, p, i) >= MIN_LEN + 2
<1> DEFINE lc == descend(h, p, i)
           rc == descend(h, p, i + 1)
<1>1. Beside(h, n, p, i)
  BY PairFacts
<1>2. /\ WellFormed(h, {rt, Nil}) /\ p \in DOMAIN h /\ h[p].height # 0
      /\ i \in 0 .. Len(h[p].kv) - 1
      /\ h[n].parent_idx > 0 => rc = n
      /\ ~(h[n].parent_idx > 0) => lc = n
  BY <1>1 DEF Beside, Tree
<1>3. lc \in DOMAIN h /\ rc \in DOMAIN h /\ lc # rc
  BY <1>2, Siblings
<1>4. CASE h[n].parent_idx > 0
  <2>1. Len(h[lc].kv) \in Nat /\ Len(h[lc].kv) >= MIN_LEN + 2
    BY <1>1, <1>2, <1>3, <1>4, StealLens
  <2> QED BY <1>4, <2>1 DEF SiblingLen
<1>5. CASE ~(h[n].parent_idx > 0)
  <2>1. Len(h[rc].kv) \in Nat /\ Len(h[rc].kv) >= MIN_LEN + 2
    BY <1>1, <1>2, <1>3, <1>5, StealLens
  <2> QED BY <1>5, <2>1 DEF SiblingLen
<1> QED BY <1>4, <1>5

\* A node below a parent that is not being fixed has a pair beside it.
LEMMA PairBesideThere ==
  ASSUME NEW h, NEW rt, NEW fixed, Tree(h, rt, Nil, fixed, FALSE), NEW n, n \in DOMAIN h,
         h[n].parent # fixed \/ h[n].parent = Nil
  PROVE  HasParentKV(h, n)
<1>1. ASSUME h[n].parent # Nil PROVE Len(h[h[n].parent].kv) > 0
  <2>1. WellFormed(h, {rt, Nil}) /\ Lens(h, rt, fixed, FALSE)
    BY DEF Tree
  <2>2. h[n].parent \in DOMAIN h /\ h[h[n].parent].height # 0
    BY <1>1, <2>1, ParentFacts
  <2>3. Len(h[h[n].parent].kv) \in Nat
    BY <2>1, <2>2, NodeArity
  <2>4. Len(h[h[n].parent].kv) >= 1
    BY <1>1, <2>1, <2>2 DEF Lens
  <2> QED BY <2>3, <2>4
<1> QED BY <1>1 DEF HasParentKV, len

\* The assertions of remove_leaf_kv and of choose_parent_kv for a leaf.
LEMMA RemoveLeafSafe == IInv => RemoveLeafAsserts
<1> SUFFICES ASSUME IInv, pc = "remove_leaf"
             PROVE  /\ IsLeaf(heap, cur.node)
                    /\ cur.idx < len(heap, cur.node)
                    /\ HasParentKV(heap, cur.node)
                    /\ Parent(cur.node) # Nil /\ len(LeafRemoved, cur.node) < MIN_LEN =>
                         /\ len(LeafRemoved, cur.node) = MIN_LEN - 1
                         /\ \/ can_merge(LeafRemoved, Parent(cur.node), ParentKV(cur.node))
                            \/ IF HasLeftKV(cur.node)
                               THEN LeftChildLen(LeafRemoved, cur.node) > MIN_LEN
                               ELSE RightChildLen(LeafRemoved, cur.node) > MIN_LEN
  BY DEF RemoveLeafAsserts
<1> DEFINE g == LeafRemoved
           n == cur.node
           p == Parent(n)
           i == ParentKV(n)
<1>1. /\ n \in DOMAIN heap /\ heap[n].height = 0 /\ Tree(g, root, Nil, n, FALSE)
  BY RemoveLeafFacts
<1>2. cur.idx < Len(heap[n].kv)
  BY DEF IInv, Locals
<1>3. HasParentKV(heap, n)
  <2>1. Tree(heap, root, Nil, Nil, FALSE)
    BY Quiet
  <2> QED BY <1>1, <2>1, PairBesideThere
<1>4. ASSUME p # Nil, len(g, n) < MIN_LEN, ~can_merge(g, p, i)
      PROVE  IF HasLeftKV(n) THEN LeftChildLen(g, n) > MIN_LEN ELSE RightChildLen(g, n) > MIN_LEN
  <2>1. /\ n \in DOMAIN g /\ p = g[n].parent /\ i = PairBeside(g, n)
        /\ HasLeftKV(n) <=> g[n].parent_idx > 0
        /\ Len(g[n].kv) = MIN_LEN - 1
    BY <1>4, UnderfullLeaf
  <2>2. SiblingLen(g, n, p, i) >= MIN_LEN + 2
    BY <1>1, <1>4, <2>1, SiblingToSpare
  <2> QED BY <2>1, <2>2, MinLen DEF SiblingLen, LeftChildLen, RightChildLen, len
<1>5. ASSUME p # Nil, len(g, n) < MIN_LEN
      PROVE  len(g, n) = MIN_LEN - 1
  BY <1>5, UnderfullLeaf DEF len
<1> QED BY <1>1, <1>2, <1>3, <1>4, <1>5 DEF IsLeaf, len

\* The assertions of choose_parent_kv and bulk_steal for an internal node.
LEMMA FixSafe == IInv => FixAsserts
<1> DEFINE n == cur.node
           p == Parent(n)
           i == ParentKV(n)
<1> SUFFICES ASSUME IInv, pc = "fix", Underfull(n)
             PROVE  /\ ~IsLeaf(heap, n)
                    /\ HasParentKV(heap, n)
                    /\ Parent(n) # Nil =>
                         \/ can_merge(heap, Parent(n), ParentKV(n))
                         \/ LET count == MIN_LEN - len(heap, n)
                            IN  /\ count > 0
                                /\ count <= IF HasLeftKV(n) THEN LeftChildLen(heap, n)
                                            ELSE RightChildLen(heap, n)
  BY DEF FixAsserts
<1>1. /\ n \in DOMAIN heap /\ heap[n].height # 0 /\ Tree(heap, root, Nil, n, FALSE)
  BY FixFacts
<1>2. p = heap[n].parent /\ (HasLeftKV(n) <=> heap[n].parent_idx > 0)
      /\ i = PairBeside(heap, n)
  BY DEF Parent, HasLeftKV, ParentKV, PairBeside
<1>3. WellFormed(heap, {root, Nil}) /\ Lens(heap, root, n, FALSE)
  BY <1>1 DEF Tree
<1>4. HasParentKV(heap, n)
  <2>1. heap[n].parent # n \/ heap[n].parent = Nil
    BY <1>1, <1>3, ParentFacts
  <2> QED BY <1>1, <2>1, PairBesideThere
<1>5. ASSUME p # Nil, ~can_merge(heap, p, i)
      PROVE  /\ MIN_LEN - len(heap, n) > 0
             /\ MIN_LEN - len(heap, n) <= IF HasLeftKV(n) THEN LeftChildLen(heap, n)
                                          ELSE RightChildLen(heap, n)
  <2>1. n # root
    BY <1>1, <1>2, <1>3, <1>5, ParentFacts
  <2>2. Len(heap[n].kv) \in Nat
    BY <1>1, IInvFacts
  <2>3. Len(heap[n].kv) = MIN_LEN - 1
    <3>1. Len(heap[n].kv) >= MIN_LEN - 1
      BY <1>1, <1>3, <2>1 DEF Lens
    <3>2. Len(heap[n].kv) < MIN_LEN
      BY DEF Underfull, len
    <3> QED BY <2>2, <3>1, <3>2, MinLen
  <2>4. SiblingLen(heap, n, p, i) \in Nat /\ SiblingLen(heap, n, p, i) >= MIN_LEN + 2
    BY <1>1, <1>2, <1>5, <2>3, SiblingToSpare
  <2>5. MIN_LEN - len(heap, n) = 1
    BY <2>3, MinLen DEF len
  <2>6. SiblingLen(heap, n, p, i)
          = IF HasLeftKV(n) THEN LeftChildLen(heap, n) ELSE RightChildLen(heap, n)
    BY <1>2 DEF SiblingLen, LeftChildLen, RightChildLen, len
  <2>7. 1 <= SiblingLen(heap, n, p, i)
    BY <2>4, MinLen
  <2> QED BY <2>5, <2>6, <2>7
<1> HIDE DEF p, i
<1> QED BY <1>1, <1>4, <1>5 DEF IsLeaf, p, i

\* next_kv climbs from a node off the right border only, which is below another.
LEMMA NextKvSafe ==
  ASSUME IInv, Replaceable, Refilling, pc = "next_kv", cur.idx >= len(heap, cur.node)
  PROVE  Parent(cur.node) # Nil
<1>1. cur.node \in DOMAIN heap /\ right = Nil
  BY DEF IInv, Locals, Types
<1>2. Len(heap[cur.node].kv) \in Nat /\ cur.idx \in Nat /\ WellFormed(heap, {root, right})
  BY <1>1, IInvFacts
<1>3. HasNext(heap, root, cur)
  BY DEF Replaceable, Refilling
<1>4. OffBorder(heap, root, cur.node)
  BY <1>2, <1>3 DEF HasNext, len
<1>5. cur.node # root
  BY <1>4 DEF OffBorder
<1>6. cur.node # Nil
  BY <1>1, IInvFacts
<1> QED BY <1>1, <1>2, <1>5, <1>6, NoParent DEF Parent

\* AInv implies every assertion.
LEMMA AssertsFollow == AInv => AssertsHold
<1> SUFFICES ASSUME AInv
             PROVE  AssertsHold
  OBVIOUS
<1>1. IInv /\ Replaceable /\ Refilling /\ Locals
  BY DEF AInv, IInv
<1>2. pc = "occupied" => cur.idx < len(heap, cur.node)
  BY <1>1 DEF Locals, len
<1>3. pc = "vacant" /\ cur # NoHandle =>
        IsLeaf(heap, cur.node) /\ cur.idx <= len(heap, cur.node)
  BY <1>1 DEF Locals, len, IsLeaf
<1>4. pc = "insert_up" =>
        /\ heap[right].height = heap[cur.node].height
        /\ Parent(cur.node) = Nil => cur.node = root
  <2> SUFFICES ASSUME pc = "insert_up"
               PROVE  /\ heap[right].height = heap[cur.node].height
                      /\ Parent(cur.node) = Nil => cur.node = root
    OBVIOUS
  <2>1. heap[right].height = heap[cur.node].height /\ right # cur.node /\ cur.node \in DOMAIN heap
    BY <1>1 DEF Locals
  <2>2. WellFormed(heap, {root, right})
    BY <1>1, IInvFacts
  <2> QED BY <2>1, <2>2, NoParent DEF Parent
<1>5. pc = "left_leaf" => len(heap, cur.node) > 0
  <2> SUFFICES ASSUME pc = "left_leaf"
               PROVE  Len(heap[cur.node].kv) > 0
    BY DEF len
  <2>1. cur.node \in DOMAIN heap /\ cur.node # root
    BY <1>1 DEF Locals
  <2>2. Lens(heap, root, Nil, FALSE)
    BY <1>1, Quiet DEF Tree
  <2>3. Nil \notin DOMAIN heap /\ Len(heap[cur.node].kv) \in Nat
    BY <1>1, <2>1, IInvFacts
  <2>4. Len(heap[cur.node].kv) >= MIN_LEN
    BY <2>1, <2>2, <2>3 DEF Lens
  <2> QED BY <2>3, <2>4, MinLen
<1>6. pc = "next_kv" /\ cur.idx >= len(heap, cur.node) => Parent(cur.node) # Nil
  BY <1>1, NextKvSafe
<1>7. pc = "finish" /\ emptied => heap[root].height > 0
  <2> SUFFICES ASSUME pc = "finish", emptied
               PROVE  heap[root].height > 0
    OBVIOUS
  <2>1. root \in DOMAIN heap /\ heap[root].height # 0
    BY <1>1 DEF Locals
  <2>2. heap[root].height \in Nat
    BY <1>1, <2>1, IInvFacts
  <2> QED BY <2>1, <2>2
<1> QED BY <1>1, <1>2, <1>3, <1>4, <1>5, <1>6, <1>7, RemoveLeafSafe, FixSafe DEF AssertsHold

\* No assert!, debug_assert! or unreachable! of an operation of BTreeMap fails, and
\* what the unwrap_unchecked calls of remove_internal_kv take for granted holds:
\* next_kv always comes to a pair.
THEOREM AssertsNeverFail == Spec => []AssertsHold
  BY AInvInit, AInvNext, AssertsFollow, PTL DEF Spec
-----------------------------------------------------------------------------
(* The tracked edge *)

\* What remove_leaf_kv and remove_internal_kv return to a caller that goes on
\* from there: an edge of a leaf, and the pair that has taken the removed one's place.
Tracked ==
  /\ pc = "fix" => LeafEdge(heap, pos)
  /\ pc = "finish" => IF refill THEN PairIn(heap, cur) ELSE LeafEdge(heap, pos)

\* A handle in a leaf that is no further than its last edge.
LEMMA EdgeThere ==
  ASSUME NEW h, NEW e, e \in HandleType, e.node \in DOMAIN h, h[e.node].height = 0,
         e.idx <= Len(h[e.node].kv)
  PROVE  LeafEdge(h, e)
  BY DEF HandleType, LeafEdge

\* remove_leaf_kv returns once the ancestors are repaired, with the leaf unchanged.
LEMMA TrackedAfter ==
  ASSUME IInv, Tracked, pc = "fix", AfterRemoveLeaf(pos), refill' = refill,
         pos.node \in DOMAIN heap', heap'[pos.node].height = 0,
         heap'[pos.node].kv = heap[pos.node].kv
  PROVE  Tracked'
<1>1. pos' = pos /\ pc' = IF refill THEN "next_kv" ELSE "finish"
  BY DEF AfterRemoveLeaf, Goto
<1>2. pos \in HandleType /\ pos.idx <= Len(heap'[pos.node].kv)
  BY IInvFacts DEF Tracked, LeafEdge
<1>3. LeafEdge(heap', pos)
  BY <1>2, EdgeThere
<1> QED BY <1>1, <1>3 DEF Tracked

\* The hole in the leaf when nothing else has changed.
LEMMA TrackedRemoveLeafDone ==
  ASSUME IInv, RemoveLeafDone
  PROVE  Tracked'
<1>1. /\ pc = "remove_leaf" /\ heap' = LeafRemoved /\ pos' = cur /\ refill' = refill
      /\ pc' = IF refill THEN "next_kv" ELSE "finish"
  BY DEF RemoveLeafDone, AfterRemoveLeaf, Goto
<1>2. /\ cur.node \in DOMAIN heap /\ heap[cur.node].height = 0
      /\ Removed(heap', heap, cur.node)
  BY <1>1, RemoveLeafFacts
<1>3. cur \in HandleType /\ cur.idx \in Nat /\ Len(heap[cur.node].kv) \in Nat
  BY <1>2, IInvFacts
<1>4. cur.idx < Len(heap[cur.node].kv)
  BY <1>1 DEF IInv, Locals
<1>5. cur.idx <= Len(heap'[cur.node].kv)
  BY <1>2, <1>3, <1>4 DEF Removed
<1>6. cur.node \in DOMAIN heap' /\ heap'[cur.node].height = 0
  BY <1>2 DEF Removed
<1>7. LeafEdge(heap', cur)
  BY <1>3, <1>5, <1>6, EdgeThere
<1> QED BY <1>1, <1>7 DEF Tracked

\* After a merge the hole is in the left child, moved up by what that child had.
LEMMA TrackedRemoveLeafMerge ==
  ASSUME IInv, RemoveLeafMerge
  PROVE  Tracked'
<1> DEFINE g == LeafRemoved
           n == cur.node
           p == Parent(n)
           i == ParentKV(n)
           lc == descend(heap, p, i)
           rc == descend(heap, p, i + 1)
           j == IF HasLeftKV(n) THEN len(heap, lc) + 1 + cur.idx ELSE cur.idx
<1>1. /\ pc = "remove_leaf" /\ p # Nil /\ len(g, n) < MIN_LEN
      /\ can_merge(g, p, i) /\ heap' = do_merge(g, p, i)
      /\ pos' = Handle(lc, j) /\ pc' = "fix"
  BY DEF RemoveLeafMerge, RemoveLeafUnderfull, Goto
<1>2. /\ n \in DOMAIN heap /\ cur.idx \in Nat /\ Tree(g, root, Nil, n, FALSE)
      /\ Removed(g, heap, n) /\ heap[n].height = 0
  BY <1>1, RemoveLeafFacts
<1>3. /\ n \in DOMAIN g /\ p = g[n].parent /\ i = PairBeside(g, n)
      /\ lc = descend(g, p, i) /\ rc = descend(g, p, i + 1)
      /\ HasLeftKV(n) <=> g[n].parent_idx > 0
      /\ DOMAIN g = DOMAIN heap
  BY <1>1, UnderfullLeaf
<1>4. cur.idx < Len(heap[n].kv) /\ Len(heap[n].kv) \in Nat
  BY <1>1, IInvFacts DEF IInv, Locals
<1>5. \A m \in DOMAIN heap : Len(heap[m].kv) \in Nat
  BY IInvFacts
<1> HIDE DEF g, n, p, i, lc, rc
<1>6. /\ Beside(g, n, p, i)
      /\ Merged(heap', g, {root, Nil}, p, lc, rc)
  BY <1>1, <1>2, <1>3, TreeMerge, PairFacts
<1>7. lc \in DOMAIN g /\ rc \in DOMAIN g /\ lc # rc
  <2>1. /\ WellFormed(g, {root, Nil}) /\ p \in DOMAIN g /\ g[p].height # 0
        /\ i \in 0 .. Len(g[p].kv) - 1
    BY <1>2, <1>6 DEF Beside, Tree
  <2> QED BY <1>3, <2>1, Siblings
<1>8. Len(g[lc].kv) \in Nat /\ Len(g[rc].kv) \in Nat
  BY <1>2, <1>7, NodeArity DEF Tree
<1>9. Len(heap'[lc].kv) = Len(g[lc].kv) + 1 + Len(g[rc].kv) /\ lc \in DOMAIN heap'
  BY <1>6 DEF Merged
<1>10. j \in Nat /\ j <= Len(heap'[lc].kv)
  <2>1. CASE HasLeftKV(n)
    <3>1. rc = n
      BY <1>3, <1>6, <2>1 DEF Beside
    <3>2. Len(g[rc].kv) = Len(heap[n].kv) - 1
      BY <1>2, <3>1 DEF Removed
    <3>3. g[lc].kv = heap[lc].kv
      BY <1>2, <1>3, <1>7, <3>1 DEF Removed
    <3>4. j = Len(g[lc].kv) + 1 + cur.idx
      BY <2>1, <3>3 DEF len
    <3> HIDE DEF j
    <3>5. PICK x \in Nat : x = Len(g[lc].kv)
      BY <1>8
    <3>6. PICK y \in Nat : y = Len(heap[n].kv)
      BY <1>4
    <3>7. Len(heap'[lc].kv) = x + 1 + (y - 1) /\ j = x + 1 + cur.idx
      BY <1>9, <3>2, <3>4, <3>5, <3>6
    <3>8. cur.idx < y /\ cur.idx \in Nat
      BY <1>2, <1>4, <3>6
    <3> QED BY ONLY <3>7, <3>8, x \in Nat, y \in Nat
  <2>2. CASE ~HasLeftKV(n)
    <3>1. lc = n
      BY <1>3, <1>6, <2>2 DEF Beside
    <3>2. Len(g[lc].kv) = Len(heap[n].kv) - 1
      BY <1>2, <3>1 DEF Removed
    <3>3. j = cur.idx
      BY <2>2
    <3> HIDE DEF j
    <3>4. PICK x \in Nat : x = Len(g[rc].kv)
      BY <1>8
    <3>5. PICK y \in Nat : y = Len(heap[n].kv)
      BY <1>4
    <3>6. Len(heap'[lc].kv) = (y - 1) + 1 + x /\ j = cur.idx
      BY <1>9, <3>2, <3>3, <3>4, <3>5
    <3>7. cur.idx < y /\ cur.idx \in Nat
      BY <1>2, <1>4, <3>5
    <3> QED BY ONLY <3>6, <3>7, x \in Nat, y \in Nat
  <2> QED BY <2>1, <2>2
<1>11. IInv'
  BY StepRemoveLeafMerge
<1>12. /\ pos'.node \in DOMAIN heap' /\ heap'[pos'.node].height = 0
       /\ pos' \in HandleType
  BY <1>1, <1>11 DEF IInv, Locals, Types, HandleType
<1>13. LeafEdge(heap', pos')
  BY <1>1, <1>10, <1>12, EdgeThere DEF Handle
<1> QED BY <1>1, <1>13 DEF Tracked

\* A stolen pair fills the leaf up again.
LEMMA TrackedRemoveLeafSteal ==
  ASSUME IInv, RemoveLeafSteal
  PROVE  Tracked'
<1> DEFINE n == cur.node
<1>1. /\ pc = "remove_leaf" /\ pc' = "fix" /\ Parent(n) # Nil /\ len(LeafRemoved, n) < MIN_LEN
      /\ pos' = Handle(n, 1 + cur.idx) \/ pos' = cur
      /\ cur' = Handle(Parent(n), 0) /\ root' = root
  BY DEF RemoveLeafSteal, RemoveLeafUnderfull, Goto
<1>2. /\ n \in DOMAIN heap /\ cur.idx \in Nat /\ Removed(LeafRemoved, heap, n)
  BY <1>1, RemoveLeafFacts
<1>3. Len(LeafRemoved[n].kv) = MIN_LEN - 1 /\ n # root
  BY <1>1, UnderfullLeaf
<1>4. cur.idx < Len(heap[n].kv) /\ Len(heap[n].kv) \in Nat
  BY <1>1, IInvFacts DEF IInv, Locals
<1>5. 1 + cur.idx <= MIN_LEN
  BY <1>2, <1>3, <1>4, MinLen DEF Removed
<1>6. IInv'
  BY StepRemoveLeafSteal
<1>7. /\ pos'.node \in DOMAIN heap' /\ heap'[pos'.node].height = 0
      /\ pos' \in HandleType
  BY <1>1, <1>6 DEF IInv, Locals, Types, HandleType
<1>8. pos'.node = n /\ (pos'.idx = 1 + cur.idx \/ pos'.idx = cur.idx)
  BY <1>1 DEF Handle
<1>9. Len(heap'[n].kv) >= MIN_LEN
  <2>1. Lens(heap', root, Fixed', emptied')
    BY <1>1, <1>6 DEF IInv, Tree
  <2>2. heap'[Fixed'].height # 0
    BY <1>1, <1>6 DEF IInv, Locals, Fixed
  <2>3. n # Fixed'
    BY <1>7, <1>8, <2>2
  <2> QED BY <1>3, <1>7, <1>8, <2>1, <2>3 DEF Lens
<1>10. Len(heap'[n].kv) \in Nat
  <2>1. HeapType(heap')
    BY <1>6 DEF IInv, Types
  <2> QED BY <1>7, <1>8, <2>1, HeapNode
<1>11. pos'.idx <= Len(heap'[pos'.node].kv)
  BY <1>2, <1>5, <1>8, <1>9, <1>10, MinLen
<1>12. LeafEdge(heap', pos')
  BY <1>7, <1>11, EdgeThere
<1> QED BY <1>1, <1>12 DEF Tracked

\* The pair to be replaced is found and overwritten.
LEMMA TrackedReplaceKv ==
  ASSUME IInv, Refilling, ReplaceKv
  PROVE  Tracked'
<1>1. /\ pc = "next_kv" /\ pc' = "finish" /\ cur' = cur /\ refill' = refill
      /\ cur.idx < Len(heap[cur.node].kv)
  BY DEF ReplaceKv, Goto, len
<1>2. refill
  BY <1>1 DEF Refilling
<1>3. cur \in HandleType /\ cur.node \in DOMAIN heap
  BY <1>1, IInvFacts DEF IInv, Locals
<1>4. DOMAIN heap' = DOMAIN heap /\ Len(heap'[cur.node].kv) = Len(heap[cur.node].kv)
  BY <1>3, StepReplaceKv DEF SameSizes
<1>5. PairIn(heap', cur)
  BY <1>1, <1>3, <1>4 DEF PairIn, HandleType
<1> QED BY <1>1, <1>2, <1>5 DEF Tracked

\* Every step of a removal keeps the edge.
LEMMA TrackedStep ==
  ASSUME IInv, Refilling, Tracked, Remove
  PROVE  Tracked'
<1>1. CASE OccupiedRemoveLeaf \/ OccupiedRemoveInternal \/ LeftLeaf \/ NextKvAscend \/ FinishRemove
  <2>1. pc' \notin {"fix", "finish"}
    BY <1>1 DEF OccupiedRemoveLeaf, OccupiedRemoveInternal, LeftLeaf, NextKvAscend,
        FinishRemove, Goto, Return
  <2> QED BY <2>1 DEF Tracked
<1>2. CASE FixDone \/ FixEmptyRoot
  <2>1. pc = "fix" /\ AfterRemoveLeaf(pos) /\ heap' = heap /\ refill' = refill
    BY <1>2 DEF FixDone, FixEmptyRoot, map
  <2>2. pos.node \in DOMAIN heap' /\ heap'[pos.node].height = 0
    BY <2>1, FixFacts
  <2> QED BY <2>1, <2>2, TrackedAfter
<1>3. CASE FixMerge
  <2>1. pc' = "fix" /\ pos' = pos /\ pc = "fix"
    BY <1>3 DEF FixMerge, Goto
  <2>2. /\ pos.node \in DOMAIN heap' /\ heap'[pos.node].height = 0
        /\ heap'[pos.node].kv = heap[pos.node].kv
    BY <1>3, FixMergeFacts
  <2>3. pos \in HandleType /\ pos.idx <= Len(heap'[pos.node].kv)
    BY <2>1, <2>2, IInvFacts DEF Tracked, LeafEdge
  <2>4. LeafEdge(heap', pos)
    BY <2>2, <2>3, EdgeThere
  <2> QED BY <2>1, <2>4 DEF Tracked
<1>4. CASE FixSteal
  <2>1. pc = "fix" /\ AfterRemoveLeaf(pos) /\ refill' = refill
    BY <1>4 DEF FixSteal
  <2> QED BY <1>4, <2>1, FixStealFacts, TrackedAfter
<1> QED BY <1>1, <1>2, <1>3, <1>4, TrackedRemoveLeafDone, TrackedRemoveLeafMerge,
           TrackedRemoveLeafSteal, TrackedReplaceKv, Zenon DEF Remove

\* The edge that a removal returns is an edge of a leaf of the tree as it is
\* then, and the pair beside which an internal removal leaves is a pair of it.
THEOREM EdgeStaysTracked == Spec => []Tracked
<1>1. Init => Tracked
  BY DEF Init, Tracked
<1>2. AInv /\ Tracked /\ [Next]_vars => Tracked'
  <2> SUFFICES ASSUME AInv, Tracked, [Next]_vars
               PROVE  Tracked'
    OBVIOUS
  <2>1. CASE Remove
    BY <2>1, TrackedStep DEF AInv
  <2>2. CASE UNCHANGED vars
    BY <2>2 DEF vars, Tracked
  <2>3. CASE Call \/ Search \/ EntryDrop \/ Insert
    <3>1. pc' \notin {"fix", "finish"}
      <4>1. CASE Call
        BY <4>1 DEF Call, CallSearch, CallEntryNoRoot, CallNoRoot, CallReplaceNoRoot, CallEnd,
            Return, Goto
      <4>2. CASE Search \/ EntryDrop
        BY <4>2 DEF Search, SearchFound, SearchGoDown, SearchMissing, CompPanics, EndDescend,
            EndReached, EntryDrop, Return, Goto
      <4>3. CASE Insert
        BY <4>3 DEF Insert, OccupiedInsert, VacantInsertEmpty, VacantInsertFit,
            VacantInsertSplit, ReplaceKey, InsertUpFit, InsertUpSplit, SplitRoot, Return, Goto
      <4> QED BY <2>3, <4>1, <4>2, <4>3
    <3> QED BY <3>1 DEF Tracked
  <2> QED BY <2>1, <2>2, <2>3 DEF Next
<1> QED BY <1>1, <1>2, StaysReplaceable, PTL DEF Spec
=============================================================================
