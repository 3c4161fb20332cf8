---------------------------- MODULE BTreeDyingProofs ----------------------------
(***************************************************************************)
(* A map that is consumed from both ends.  The nodes that are left are the *)
(* ones that do not end before the front or begin after the back, so that  *)
(* no walk meets a freed node, and when the ends have met, what is left is *)
(* the pile of nodes above them, which is freed in one go.  A panic in a   *)
(* destructor changes nothing of this.                                     *)
(***************************************************************************)
EXTENDS BTreeDying, BTreeNavigateProofs

-----------------------------------------------------------------------------
(* Where the two ends are *)

AtFront(w, f, a) ==
  \/ f = Some(Root(w.root)) /\ a = 0
  \/ f = Some(Edge(LeafEdges(w.heap, w.root)[a + 1]))

AtBack(w, k, b) ==
  \/ k = Some(Root(w.root)) /\ b = Len(ElementsBelow(w.heap, w.root))
  \/ k = Some(Edge(LeafEdges(w.heap, w.root)[b + 1]))

\* The front end has a elements of the map w behind it, the back end has b of
\* them before it, there are c to come, and of the nodes those are left that
\* the elements between the ends need.
Halfway(w, g, f, k, c, a, b) ==
  /\ b \in Nat /\ a \in Nat /\ a <= b /\ b <= Len(ElementsBelow(w.heap, w.root))
  /\ c = b - a
  /\ Remains(g, w.heap, w.root, a, b)
  /\ AtFront(w, f, a) /\ AtBack(w, k, b)

RestIn(w, f, k) ==
  IF f = None THEN <<>>
  ELSE SubSeq(Elements(w.heap, w.root),
              Before(w.heap, w.root, init_front(w.heap, f[1])) + 1,
              Before(w.heap, w.root, init_back(w.heap, k[1])))

\* Both ends are where the elements between them begin and end, in the map as
\* it was and in what is left of it.
LEMMA HalfwayEnds ==
  ASSUME NEW w, OneTree(w.heap, w.root), w.root # Nil,
         NEW g, NEW f, NEW k, NEW c, NEW a, NEW b, Halfway(w, g, f, k, c, a, b)
  PROVE  LET L == LeafEdges(w.heap, w.root)
         IN  /\ f # None /\ init_front(g, f[1]) = L[a + 1] /\ init_back(g, k[1]) = L[b + 1]
             /\ init_front(w.heap, f[1]) = L[a + 1]
             /\ RestIn(w, f, k) = SubSeq(ElementsBelow(w.heap, w.root), a + 1, b)
<1> DEFINE h == w.heap
           r == w.root
           E == ElementsBelow(h, r)
           L == LeafEdges(h, r)
           N == Len(E)
<1>1. /\ b \in Nat /\ a \in Nat /\ a <= b /\ b <= N /\ c = b - a
      /\ Remains(g, h, r, a, b) /\ AtFront(w, f, a) /\ AtBack(w, k, b)
  BY DEF Halfway
<1>2. N \in Nat /\ L[1] = first_leaf_edge(h, r) /\ L[N + 1] = last_leaf_edge(h, r)
  BY RootOrdered DEF Ordered
<1>3. a = 0 => first_leaf_edge(g, r) = L[1]
  BY <1>1, EndsFound
<1>4. b = N => last_leaf_edge(g, r) = L[b + 1]
  BY <1>1, EndsFound
<1> HIDE DEF N, L
<1>5. f # None /\ init_front(g, f[1]) = L[a + 1] /\ init_front(h, f[1]) = L[a + 1]
  <2>1. CASE f = Some(Root(r)) /\ a = 0
    <3>1. a + 1 = 1
      BY <2>1
    <3> QED BY <1>2, <1>3, <2>1, <3>1 DEF init_front, Root, Some, None, Handle
  <2>2. CASE f = Some(Edge(L[a + 1]))
    BY <2>2 DEF init_front, Edge, Some, None
  <2> QED BY <1>1, <2>1, <2>2 DEF AtFront, L
<1>6. init_back(g, k[1]) = L[b + 1] /\ init_back(h, k[1]) = L[b + 1]
  <2>1. CASE k = Some(Root(r)) /\ b = N
    BY <1>2, <1>4, <2>1 DEF init_back, Root, Some, Handle
  <2>2. CASE k = Some(Edge(L[b + 1]))
    BY <2>2 DEF init_back, Edge, Some
  <2> QED BY <1>1, <2>1, <2>2 DEF AtBack, L, N
<1>7. Before(h, r, L[a + 1]) = a /\ Before(h, r, L[b + 1]) = b
  <2> DEFINE i == a + 1
             j == b + 1
  <2>2. i \in 1 .. N + 1 /\ j \in 1 .. N + 1 /\ i - 1 = a /\ j - 1 = b
    BY <1>1, <1>2
  <2> HIDE DEF i, j
  <2>3. Before(h, r, L[i]) = i - 1
    BY <2>2, BeforeEdge DEF L, N
  <2>4. Before(h, r, L[j]) = j - 1
    BY <2>2, BeforeEdge DEF L, N
  <2> QED BY <2>2, <2>3, <2>4 DEF i, j
<1>8. RestIn(w, f, k) = SubSeq(E, a + 1, b)
  BY <1>5, <1>6, <1>7 DEF RestIn, Elements
<1> QED BY <1>5, <1>6, <1>8 DEF L

LEMMA HalfwayRest ==
  ASSUME NEW w, OneTree(w.heap, w.root), w.root # Nil,
         NEW g, NEW f, NEW k, NEW c, NEW a, NEW b, Halfway(w, g, f, k, c, a, b)
  PROVE  RestIn(w, f, k) = SubSeq(ElementsBelow(w.heap, w.root), a + 1, b)
BY HalfwayEnds

-----------------------------------------------------------------------------
(* One step of either end *)

LEMMA FrontTaken ==
  ASSUME NEW w, OneTree(w.heap, w.root), w.root # Nil,
         NEW g, NEW f, NEW k, NEW c, NEW a, NEW b, Halfway(w, g, f, k, c, a, b), c # 0
  PROVE  LET e == init_front(g, f[1])
             kv == next_kv(g, e)
         IN  /\ kv # NoHandle /\ kv = ElementsBelow(w.heap, w.root)[a + 1]
             /\ Halfway(w, DeallocateAll(g, LeftBehind(g, e)), Some(Edge(next_leaf_edge(g, kv))), k,
                        c - 1, a + 1, b)
             /\ a + 1 >= 1 /\ a + 1 \in Nat
<1> DEFINE h == w.heap
           r == w.root
           E == ElementsBelow(h, r)
           L == LeafEdges(h, r)
           N == Len(E)
           e == init_front(g, f[1])
           kv == next_kv(g, e)
           g1 == DeallocateAll(g, LeftBehind(g, e))
<1>1. /\ b \in Nat /\ a \in Nat /\ a <= b /\ b <= N /\ c = b - a
      /\ Remains(g, h, r, a, b) /\ AtBack(w, k, b)
  BY DEF Halfway
<1>2. a < b /\ a + 1 <= b /\ a + 1 \in Nat /\ c - 1 = b - (a + 1) /\ a + 1 >= 1 /\ (a + 1) + 1 = a + 2
  BY <1>1
<1>3. e = L[a + 1]
  BY HalfwayEnds
<1>4. /\ next_kv(g, L[a + 1]) = E[a + 1] /\ E[a + 1] # NoHandle
      /\ next_leaf_edge(g, E[a + 1]) = L[a + 2]
      /\ Remains(DeallocateAll(g, LeftBehind(g, L[a + 1])), h, r, a + 1, b)
  BY <1>1, <1>2, FrontMoves
<1> HIDE DEF L, N, E
<1>5. kv = E[a + 1] /\ Remains(g1, h, r, a + 1, b) /\ next_leaf_edge(g, kv) = L[a + 2]
  BY <1>3, <1>4
<1> HIDE DEF e, kv, g1
<1>6. AtFront(w, Some(Edge(next_leaf_edge(g, kv))), a + 1)
  BY <1>2, <1>5 DEF AtFront, L
<1>7. Halfway(w, g1, Some(Edge(next_leaf_edge(g, kv))), k, c - 1, a + 1, b)
  BY <1>1, <1>2, <1>5, <1>6 DEF Halfway, N, E
<1> QED BY <1>2, <1>4, <1>5, <1>7 DEF e, kv, g1, E

LEMMA BackTaken ==
  ASSUME NEW w, OneTree(w.heap, w.root), w.root # Nil,
         NEW g, NEW f, NEW k, NEW c, NEW a, NEW b, Halfway(w, g, f, k, c, a, b), c # 0
  PROVE  LET e == init_back(g, k[1])
             kv == next_back_kv(g, e)
         IN  /\ kv # NoHandle /\ kv = ElementsBelow(w.heap, w.root)[b]
             /\ Halfway(w, DeallocateAll(g, LeftBehindBack(g, e)), f, Some(Edge(next_back_leaf_edge(g, kv))),
                        c - 1, a, b - 1)
             /\ b - 1 \in Nat
<1> DEFINE h == w.heap
           r == w.root
           E == ElementsBelow(h, r)
           L == LeafEdges(h, r)
           N == Len(E)
           e == init_back(g, k[1])
           kv == next_back_kv(g, e)
           g1 == DeallocateAll(g, LeftBehindBack(g, e))
<1>1. /\ b \in Nat /\ a \in Nat /\ a <= b /\ b <= N /\ c = b - a
      /\ Remains(g, h, r, a, b) /\ AtFront(w, f, a)
  BY DEF Halfway
<1>0. N \in Nat
  BY RootOrdered DEF Ordered
<1>2. a < b /\ a <= b - 1 /\ b - 1 \in Nat /\ c - 1 = b - 1 - a /\ (b - 1) + 1 = b /\ b - 1 <= N
  BY <1>0, <1>1
<1>3. e = L[b + 1]
  BY HalfwayEnds
<1>4. /\ next_back_kv(g, L[b + 1]) = E[b] /\ E[b] # NoHandle
      /\ next_back_leaf_edge(g, E[b]) = L[b]
      /\ Remains(DeallocateAll(g, LeftBehindBack(g, L[b + 1])), h, r, a, b - 1)
  BY <1>1, <1>2, BackMoves
<1> HIDE DEF L, N, E
<1>5. kv = E[b] /\ Remains(g1, h, r, a, b - 1) /\ next_back_leaf_edge(g, kv) = L[b]
  BY <1>3, <1>4
<1> HIDE DEF e, kv, g1
<1>6. AtBack(w, Some(Edge(next_back_leaf_edge(g, kv))), b - 1)
  BY <1>2, <1>5 DEF AtBack, L
<1>7. Halfway(w, g1, f, Some(Edge(next_back_leaf_edge(g, kv))), c - 1, a, b - 1)
  BY <1>1, <1>2, <1>5, <1>6 DEF Halfway, N, E
<1> QED BY <1>2, <1>4, <1>5, <1>7 DEF e, kv, g1, E

LEMMA AllTaken ==
  ASSUME NEW w, OneTree(w.heap, w.root), w.root # Nil,
         NEW g, NEW f, NEW k, NEW a, NEW b, Halfway(w, g, f, k, 0, a, b)
  PROVE  DOMAIN DeallocateAll(g, Pile(g, init_front(g, f[1]).node)) = {}
<1>1. /\ b \in Nat /\ a \in Nat /\ a <= b /\ b <= Len(ElementsBelow(w.heap, w.root)) /\ 0 = b - a
      /\ Remains(g, w.heap, w.root, a, b)
  BY DEF Halfway
<1>2. a = b /\ a \in 0 .. Len(ElementsBelow(w.heap, w.root))
  BY <1>1, RootOrdered DEF Ordered
<1>3. init_front(g, f[1]) = LeafEdges(w.heap, w.root)[a + 1]
  BY HalfwayEnds
<1> QED BY <1>1, <1>2, <1>3, LastPile

-----------------------------------------------------------------------------
(* The invariant *)

Reading == pc \in {"drop_key", "drop_val"}

\* The pair that is about to be dropped is the last one the front end passed.
Taken(a) == Reading => a >= 1 /\ item = Some(ElementsBelow(whole.heap, whole.root)[a])

Ended == remaining = 0 /\ DOMAIN heap = {} /\ ~Reading

Underway == whole.root # Nil /\ \E b \in Nat : \E a \in Nat :
  Halfway(whole, heap, front, back, remaining, a, b) /\ Taken(a)

Leaks ==
  /\ pc = "held" => leaked = {}
  /\ pc # "double_panic" => (leaked # {} => unwinding) /\ \A x, y \in leaked : x = y

DInv ==
  /\ whole \in Maps
  /\ pc \in {"held", "dropping", "drop_key", "drop_val", "dropped", "double_panic"}
  /\ front = None => Ended
  /\ front # None => Underway
  /\ pc = "dropped" => front = None
  /\ Leaks

LEMMA DInit == Init => DInv
<1> SUFFICES ASSUME Init PROVE DInv
  OBVIOUS
<1>1. /\ whole \in Maps /\ heap = whole.heap /\ pc = "held" /\ unwinding = FALSE /\ leaked = {}
      /\ front = (IF whole.root = Nil THEN None ELSE Some(Root(whole.root))) /\ back = front
      /\ remaining = (IF whole.root = Nil THEN 0 ELSE whole.length)
  BY DEF Init
<1>2. /\ whole.root = Nil => DOMAIN whole.heap = {} /\ whole.length = 0
      /\ whole.root # Nil => /\ OneTree(whole.heap, whole.root)
                             /\ whole.length = Len(ElementsBelow(whole.heap, whole.root))
  BY <1>1, MapsAssumption, LegalOrder
<1>3. front = None => whole.root = Nil
  BY <1>1 DEF None, Some
<1>4. front = None => Ended
  BY <1>1, <1>2, <1>3 DEF Ended, Reading
<1>5. ASSUME front # None PROVE Underway
  <2>1. whole.root # Nil
    BY <1>1, <1>5
  <2> DEFINE N == Len(ElementsBelow(whole.heap, whole.root))
  <2>2. N \in Nat /\ OneTree(whole.heap, whole.root)
    BY <1>2, <2>1, RootOrdered DEF Ordered
  <2>3. KeptNodes(whole.heap, whole.root, 0, N) = DOMAIN whole.heap
    BY <2>2, NodeSpan, SMTT(30) DEF KeptNodes
  <2>4. Remains(heap, whole.heap, whole.root, 0, N)
    <3>1. whole.heap = [m \in DOMAIN whole.heap |-> whole.heap[m]]
      BY <2>2 DEF OneTree, Grove, WellFormed, HeapType
    <3> QED BY <1>1, <2>3, <3>1 DEF Remains
  <2>5. AtFront(whole, front, 0) /\ AtBack(whole, back, N)
    BY <1>1, <2>1 DEF AtFront, AtBack
  <2>6. remaining = N - 0 /\ 0 <= N /\ N <= N
    BY <1>1, <1>2, <2>1, <2>2
  <2>7. Halfway(whole, heap, front, back, remaining, 0, N)
    BY <2>2, <2>4, <2>5, <2>6 DEF Halfway
  <2>8. Taken(0)
    BY <1>1 DEF Taken, Reading
  <2> QED BY <2>1, <2>2, <2>7, <2>8 DEF Underway
<1>6. Leaks
  BY <1>1 DEF Leaks
<1> QED BY <1>1, <1>4, <1>5, <1>6 DEF DInv

LEMMA WholeTree == DInv => (whole.root # Nil => OneTree(whole.heap, whole.root))
BY MapsAssumption, LegalOrder DEF DInv

\* The two ways on: either there is another pair, or everything left is freed.
LEMMA FrontStep ==
  ASSUME DInv, pc \in {"held", "dropping"}, NEW label, dying_next(label), whole' = whole
  PROVE  \/ /\ remaining = 0 /\ front' = None /\ remaining' = 0 /\ DOMAIN heap' = {} /\ item' = None
            /\ pc' = label.none /\ UNCHANGED back
         \/ /\ remaining # 0 /\ pc' = label.some /\ front # None /\ front' # None /\ whole.root # Nil
            /\ \E b \in Nat : \E a \in Nat :
                 /\ Halfway(whole, heap, front, back, remaining, a, b)
                 /\ Halfway(whole', heap', front', back', remaining', a + 1, b)
                 /\ item' = Some(ElementsBelow(whole.heap, whole.root)[a + 1])
<1>1. CASE remaining = 0
  <2>1. deallocating_end /\ pc' = label.none
    BY <1>1 DEF dying_next
  <2>2. DOMAIN heap' = {}
    <3>1. CASE front = None
      BY <2>1, <3>1 DEF deallocating_end, DInv, Ended
    <3>2. CASE front # None
      <4>1. PICK b \in Nat : \E a \in Nat : Halfway(whole, heap, front, back, remaining, a, b)
        BY <3>2 DEF DInv, Underway
      <4>2. PICK a \in Nat : Halfway(whole, heap, front, back, remaining, a, b)
        BY <4>1
      <4>3. OneTree(whole.heap, whole.root) /\ whole.root # Nil
        BY <3>2, WholeTree DEF DInv, Underway
      <4>4. Halfway(whole, heap, front, back, 0, a, b)
        BY <1>1, <4>2
      <4> QED BY <2>1, <3>2, <4>3, <4>4, AllTaken DEF deallocating_end
    <3> QED BY <3>1, <3>2
  <2> QED BY <1>1, <2>1, <2>2 DEF deallocating_end
<1>2. CASE remaining # 0
  <2> DEFINE e == init_front(heap, front[1])
             kv == next_kv(heap, e)
  <2>1. front # None /\ whole.root # Nil /\ OneTree(whole.heap, whole.root)
    BY <1>2, WholeTree DEF DInv, Ended, Underway
  <2>2. PICK b \in Nat : \E a \in Nat : Halfway(whole, heap, front, back, remaining, a, b)
    BY <2>1 DEF DInv, Underway
  <2>3. PICK a \in Nat : Halfway(whole, heap, front, back, remaining, a, b)
    BY <2>2
  <2>4. /\ kv # NoHandle /\ kv = ElementsBelow(whole.heap, whole.root)[a + 1]
        /\ Halfway(whole, DeallocateAll(heap, LeftBehind(heap, e)), Some(Edge(next_leaf_edge(heap, kv))), back,
                   remaining - 1, a + 1, b)
    BY <1>2, <2>1, <2>3, FrontTaken
  <2>5. /\ heap' = DeallocateAll(heap, LeftBehind(heap, e))
        /\ front' = Some(Edge(next_leaf_edge(heap, kv)))
        /\ remaining' = remaining - 1 /\ item' = Some(kv) /\ pc' = label.some /\ back' = back
    BY <1>2, <2>4 DEF dying_next
  <2> HIDE DEF e, kv
  <2>6. front' # None
    BY <2>5 DEF Some, None
  <2>7. Halfway(whole', heap', front', back', remaining', a + 1, b)
    BY <2>4, <2>5
  <2>8. item' = Some(ElementsBelow(whole.heap, whole.root)[a + 1])
    BY <2>4, <2>5
  <2>9. \E b2 \in Nat : \E a2 \in Nat :
           /\ Halfway(whole, heap, front, back, remaining, a2, b2)
           /\ Halfway(whole', heap', front', back', remaining', a2 + 1, b2)
           /\ item' = Some(ElementsBelow(whole.heap, whole.root)[a2 + 1])
    BY <2>3, <2>7, <2>8
  <2> QED BY <1>2, <2>1, <2>5, <2>6, <2>9
<1> QED BY <1>1, <1>2

LEMMA BackStep ==
  ASSUME DInv, pc \in {"held", "dropping"}, NEW label, dying_next_back(label), whole' = whole
  PROVE  \/ /\ remaining = 0 /\ front' = None /\ remaining' = 0 /\ DOMAIN heap' = {} /\ item' = None
            /\ pc' = label.none /\ UNCHANGED back
         \/ /\ remaining # 0 /\ pc' = label.some /\ front # None /\ front' # None /\ whole.root # Nil
            /\ \E b \in Nat : \E a \in Nat :
                 /\ Halfway(whole, heap, front, back, remaining, a, b)
                 /\ b - 1 \in Nat /\ Halfway(whole', heap', front', back', remaining', a, b - 1)
                 /\ item' = Some(ElementsBelow(whole.heap, whole.root)[b])
<1>1. CASE remaining = 0
  <2>1. deallocating_end /\ pc' = label.none
    BY <1>1 DEF dying_next_back
  <2>2. DOMAIN heap' = {}
    <3>1. CASE front = None
      BY <2>1, <3>1 DEF deallocating_end, DInv, Ended
    <3>2. CASE front # None
      <4>1. PICK b \in Nat : \E a \in Nat : Halfway(whole, heap, front, back, remaining, a, b)
        BY <3>2 DEF DInv, Underway
      <4>2. PICK a \in Nat : Halfway(whole, heap, front, back, remaining, a, b)
        BY <4>1
      <4>3. OneTree(whole.heap, whole.root) /\ whole.root # Nil
        BY <3>2, WholeTree DEF DInv, Underway
      <4>4. Halfway(whole, heap, front, back, 0, a, b)
        BY <1>1, <4>2
      <4> QED BY <2>1, <3>2, <4>3, <4>4, AllTaken DEF deallocating_end
    <3> QED BY <3>1, <3>2
  <2> QED BY <1>1, <2>1, <2>2 DEF deallocating_end
<1>2. CASE remaining # 0
  <2> DEFINE e == init_back(heap, back[1])
             kv == next_back_kv(heap, e)
  <2>1. front # None /\ whole.root # Nil /\ OneTree(whole.heap, whole.root)
    BY <1>2, WholeTree DEF DInv, Ended, Underway
  <2>2. PICK b \in Nat : \E a \in Nat : Halfway(whole, heap, front, back, remaining, a, b)
    BY <2>1 DEF DInv, Underway
  <2>3. PICK a \in Nat : Halfway(whole, heap, front, back, remaining, a, b)
    BY <2>2
  <2>4. /\ kv # NoHandle /\ kv = ElementsBelow(whole.heap, whole.root)[b] /\ b - 1 \in Nat
        /\ Halfway(whole, DeallocateAll(heap, LeftBehindBack(heap, e)), front,
                   Some(Edge(next_back_leaf_edge(heap, kv))), remaining - 1, a, b - 1)
    BY <1>2, <2>1, <2>3, BackTaken
  <2>5. /\ heap' = DeallocateAll(heap, LeftBehindBack(heap, e))
        /\ back' = Some(Edge(next_back_leaf_edge(heap, kv)))
        /\ remaining' = remaining - 1 /\ item' = Some(kv) /\ pc' = label.some /\ front' = front
    BY <1>2, <2>4 DEF dying_next_back
  <2> HIDE DEF e, kv
  <2>7. Halfway(whole', heap', front', back', remaining', a, b - 1)
    BY <2>4, <2>5
  <2>8. item' = Some(ElementsBelow(whole.heap, whole.root)[b])
    BY <2>4, <2>5
  <2>9. \E b2 \in Nat : \E a2 \in Nat :
           /\ Halfway(whole, heap, front, back, remaining, a2, b2)
           /\ b2 - 1 \in Nat /\ Halfway(whole', heap', front', back', remaining', a2, b2 - 1)
           /\ item' = Some(ElementsBelow(whole.heap, whole.root)[b2])
    BY <2>3, <2>4, <2>7, <2>8
  <2> QED BY <1>2, <2>1, <2>5, <2>9
<1> QED BY <1>1, <1>2

LEMMA DNext == DInv /\ [Next]_vars => DInv'
<1> SUFFICES ASSUME DInv, [Next]_vars PROVE DInv'
  OBVIOUS
<1>1. ASSUME pc \in {"held", "dropping"}, NEW label, dying_next(label), whole' = whole, UNCHANGED <<unwinding, leaked>>,
             \/ pc = "held" /\ label = [some |-> "held", none |-> "held"]
             \/ pc = "dropping" /\ label = [some |-> "drop_key", none |-> "dropped"]
      PROVE  DInv'
  <2>1. CASE /\ remaining = 0 /\ front' = None /\ remaining' = 0 /\ DOMAIN heap' = {} /\ item' = None
             /\ pc' = label.none /\ UNCHANGED back
    <3>1. pc' \in {"held", "dropped"} /\ (pc' = "held" => pc = "held") /\ pc # "double_panic"
      BY <1>1, <2>1
    <3>2. Leaks'
      BY <1>1, <3>1 DEF DInv, Leaks
    <3> QED BY <1>1, <2>1, <3>1, <3>2 DEF DInv, Ended, Reading
  <2>2. CASE /\ remaining # 0 /\ pc' = label.some /\ front # None /\ front' # None /\ whole.root # Nil
             /\ \E b \in Nat : \E a \in Nat :
                  /\ Halfway(whole, heap, front, back, remaining, a, b)
                  /\ Halfway(whole', heap', front', back', remaining', a + 1, b)
                  /\ item' = Some(ElementsBelow(whole.heap, whole.root)[a + 1])
    <3>1. PICK b \in Nat : \E a \in Nat : /\ Halfway(whole', heap', front', back', remaining', a + 1, b)
                                          /\ item' = Some(ElementsBelow(whole.heap, whole.root)[a + 1])
      BY <2>2
    <3>2. PICK a \in Nat : /\ Halfway(whole', heap', front', back', remaining', a + 1, b)
                           /\ item' = Some(ElementsBelow(whole.heap, whole.root)[a + 1])
      BY <3>1
    <3>3. pc' \in {"held", "drop_key"} /\ (pc' = "held" => pc = "held") /\ pc # "double_panic"
      BY <1>1, <2>2
    <3> DEFINE c == a + 1
    <3>4. c \in Nat /\ c >= 1
      OBVIOUS
    <3>5. Halfway(whole', heap', front', back', remaining', c, b) /\ item' = Some(ElementsBelow(whole.heap, whole.root)[c])
      BY <3>2
    <3> HIDE DEF c
    <3>6. Taken(c)'
      BY <1>1, <3>4, <3>5 DEF Taken
    <3>7. Underway'
      BY <1>1, <2>2, <3>4, <3>5, <3>6 DEF Underway
    <3>8. Leaks'
      BY <1>1, <3>3 DEF DInv, Leaks
    <3> QED BY <1>1, <2>2, <3>3, <3>7, <3>8 DEF DInv
  <2> QED BY <1>1, <2>1, <2>2, FrontStep
<1>2. CASE IntoIterNext
  BY <1>1, <1>2 DEF IntoIterNext
<1>3. CASE IntoIterNextBack
  <2> DEFINE label == [some |-> "held", none |-> "held"]
  <2>1. pc = "held" /\ dying_next_back(label) /\ whole' = whole /\ UNCHANGED <<unwinding, leaked>>
        /\ label.none = "held" /\ label.some = "held"
    BY <1>3 DEF IntoIterNextBack
  <2> HIDE DEF label
  <2>2. pc' = "held" /\ Leaks'
        /\ (front' = None => remaining' = 0 /\ DOMAIN heap' = {})
    BY <2>1, BackStep DEF DInv, Leaks
  <2>3. ASSUME front' # None PROVE Underway'
    <3>1. /\ whole.root # Nil
          /\ \E b \in Nat : \E a \in Nat :
               b - 1 \in Nat /\ Halfway(whole', heap', front', back', remaining', a, b - 1)
      BY <2>1, <2>3, BackStep
    <3>2. PICK b \in Nat : \E a \in Nat :
               b - 1 \in Nat /\ Halfway(whole', heap', front', back', remaining', a, b - 1)
      BY <3>1
    <3>3. PICK a \in Nat : b - 1 \in Nat /\ Halfway(whole', heap', front', back', remaining', a, b - 1)
      BY <3>2
    <3> DEFINE c == b - 1
    <3>4. c \in Nat /\ Halfway(whole', heap', front', back', remaining', a, c)
      BY <3>3
    <3> HIDE DEF c
    <3>5. Taken(a)'
      BY <2>2 DEF Taken, Reading
    <3> QED BY <2>1, <3>1, <3>4, <3>5 DEF Underway
  <2> QED BY <2>1, <2>2, <2>3 DEF DInv, Ended, Reading
<1>4. CASE DropNext
  BY <1>1, <1>4 DEF DropNext
<1>5. ASSUME UNCHANGED <<whole, heap, ends>>, Leaks', ~Reading',
             pc' \in {"held", "dropping", "double_panic"}
      PROVE  DInv'
  <2>1. UNCHANGED <<whole, heap, front, back, remaining>>
    BY <1>5 DEF ends
  <2>2. ASSUME Underway PROVE Underway'
    <3>1. PICK b \in Nat : \E a \in Nat : Halfway(whole, heap, front, back, remaining, a, b)
      BY <2>2 DEF Underway
    <3>2. PICK a \in Nat : Halfway(whole, heap, front, back, remaining, a, b)
      BY <3>1
    <3>3. Halfway(whole', heap', front', back', remaining', a, b)
      BY <2>1, <3>2
    <3>4. Taken(a)'
      BY <1>5 DEF Taken
    <3> QED BY <2>1, <2>2, <3>3, <3>4 DEF Underway
  <2> QED BY <1>5, <2>1, <2>2 DEF DInv, Ended
<1>6. CASE \E u \in BOOLEAN : DropIntoIter(u)
  <2>1. UNCHANGED <<whole, heap, ends>> /\ pc = "held" /\ pc' = "dropping" /\ leaked' = leaked
    BY <1>6 DEF DropIntoIter
  <2>2. Leaks' /\ ~Reading'
    BY <2>1 DEF DInv, Leaks, Reading
  <2> QED BY <1>5, <2>1, <2>2
<1>7. CASE DropKey \/ UNCHANGED vars
  <2>1. UNCHANGED <<whole, heap, front, back, remaining, item, unwinding, leaked>>
        /\ (pc' = pc \/ (pc = "drop_key" /\ pc' = "drop_val"))
    BY <1>7 DEF DropKey, vars, ends
  <2>2. Reading' => Reading
    BY <2>1 DEF Reading
  <2>3. ASSUME Underway PROVE Underway'
    <3>1. PICK b \in Nat : \E a \in Nat : Halfway(whole, heap, front, back, remaining, a, b) /\ Taken(a)
      BY <2>3 DEF Underway
    <3>2. PICK a \in Nat : Halfway(whole, heap, front, back, remaining, a, b) /\ Taken(a)
      BY <3>1
    <3>3. Halfway(whole', heap', front', back', remaining', a, b)
      BY <2>1, <3>2
    <3>4. Taken(a)'
      BY <2>1, <2>2, <3>2 DEF Taken
    <3> QED BY <2>1, <2>3, <3>3, <3>4 DEF Underway
  <2>4. Leaks'
    BY <2>1 DEF DInv, Leaks
  <2> QED BY <2>1, <2>2, <2>3, <2>4 DEF DInv, Ended
<1>8. CASE DropVal
  <2>1. UNCHANGED <<whole, heap, ends>> /\ pc = "drop_val" /\ pc' = "dropping" /\ UNCHANGED <<unwinding, leaked>>
    BY <1>8 DEF DropVal
  <2>2. Leaks' /\ ~Reading'
    BY <2>1 DEF DInv, Leaks, Reading
  <2> QED BY <1>5, <2>1, <2>2
<1>9. CASE DropPanics
  <2>1. /\ UNCHANGED <<whole, heap, ends>> /\ pc \in {"drop_key", "drop_val"} /\ unwinding' = TRUE
        /\ pc' = IF unwinding THEN "double_panic" ELSE "dropping"
        /\ leaked' = leaked \cup {item[1]} \/ leaked' = leaked
    BY <1>9 DEF DropPanics
  <2>2. ~Reading' /\ pc' \in {"dropping", "double_panic"}
    BY <2>1 DEF Reading
  <2>3. Leaks'
    <3>1. CASE unwinding
      BY <2>1, <3>1 DEF Leaks
    <3>2. CASE ~unwinding
      <4>1. leaked = {}
        BY <2>1, <3>2 DEF DInv, Leaks
      <4>2. \A x, y \in leaked' : x = y
        BY <2>1, <4>1
      <4> QED BY <2>1, <2>2, <4>2 DEF Leaks
    <3> QED BY <3>1, <3>2
  <2> QED BY <1>5, <2>1, <2>2, <2>3
<1> QED BY <1>2, <1>3, <1>4, <1>6, <1>7, <1>8, <1>9 DEF Next

LEMMA DInvariance == Spec => []DInv
BY DInit, DNext, PTL DEF Spec

-----------------------------------------------------------------------------
(* What it comes to *)

LEMMA RestIs == Rest = RestIn(whole, front, back)
BY DEF Rest, RestIn

\* A node that holds an element between the ends, or the pair just passed, or
\* the front end, is still there.
LEMMA NeededKept ==
  ASSUME NEW w, OneTree(w.heap, w.root), w.root # Nil,
         NEW g, NEW f, NEW k, NEW c, NEW a \in Nat, NEW b \in Nat, Halfway(w, g, f, k, c, a, b),
         NEW n, \/ n = LeafEdges(w.heap, w.root)[a + 1].node
                \/ \E i \in 1 .. b : a <= i /\ n = ElementsBelow(w.heap, w.root)[i].node
  PROVE  n \in DOMAIN g
<1> DEFINE h == w.heap
           r == w.root
           E == ElementsBelow(h, r)
           N == Len(E)
<1>1. a <= b /\ b <= N /\ Remains(g, h, r, a, b)
  BY DEF Halfway
<1>2. DOMAIN g = KeptNodes(h, r, a, b)
  BY <1>1, RemainsStepped
<1>3. N \in Nat
  BY RootOrdered DEF Ordered
<1>4. n \in KeptNodes(h, r, a, b)
  <2>1. CASE n = LeafEdges(h, r)[a + 1].node
    <3>1. a \in 0 .. N
      BY <1>1, <1>3
    <3>2. n \in NodesAt(h, r, a)
      BY <2>1, <3>1, PileIs
    <3>3. n \in DOMAIN h /\ FirstAt(h, r, n) <= a /\ a <= LastAt(h, r, n)
      BY <3>2 DEF NodesAt
    <3>4. FirstAt(h, r, n) \in Nat
      BY <3>3, NodeSpan
    <3> QED BY <1>1, <3>3, <3>4 DEF KeptNodes
  <2>2. CASE \E i \in 1 .. b : a <= i /\ n = E[i].node
    <3>1. PICK i \in 1 .. b : a <= i /\ n = E[i].node
      BY <2>2
    <3>2. i \in 1 .. N
      BY <1>1, <1>3
    <3>3. n \in DOMAIN h /\ FirstAt(h, r, n) < i /\ i <= LastAt(h, r, n)
      BY <3>1, <3>2, ElementWithin
    <3>4. FirstAt(h, r, n) \in Nat /\ LastAt(h, r, n) \in Nat
      BY <3>3, NodeSpan
    <3>5. a <= LastAt(h, r, n) /\ FirstAt(h, r, n) <= b
      BY <3>1, <3>3, <3>4
    <3> QED BY <3>3, <3>5 DEF KeptNodes
  <2> QED BY <2>1, <2>2
<1> QED BY <1>2, <1>4

\* The nodes above one that is left are left.
LEMMA AboveKept ==
  ASSUME NEW w, OneTree(w.heap, w.root), w.root # Nil,
         NEW g, NEW f, NEW k, NEW c, NEW a \in Nat, NEW b \in Nat, Halfway(w, g, f, k, c, a, b),
         NEW n \in DOMAIN g \ {w.root}
  PROVE  g[n].parent \in DOMAIN g
<1>1. a <= b /\ b <= Len(ElementsBelow(w.heap, w.root)) /\ Remains(g, w.heap, w.root, a, b)
  BY DEF Halfway
<1>2. \A m \in DOMAIN g : g[m] = w.heap[m] /\ (m # w.root => w.heap[m].parent \in DOMAIN g)
  BY <1>1, RemainsStepped
<1> QED BY <1>2

\* However the two ends nibble at the tree, no node is freed that is still to
\* be read.
THEOREM NothingIsFreedEarly == Spec => []NothingFreedEarly
<1>1. DInv => NothingFreedEarly
  <2> SUFFICES ASSUME DInv PROVE NothingFreedEarly
    OBVIOUS
  <2> DEFINE rest == Rest
             F == IF front = None THEN {} ELSE {init_front(whole.heap, front[1]).node}
             I == IF pc \in {"drop_key", "drop_val"} THEN {item[1].node} ELSE {}
             needed == {rest[i].node : i \in 1 .. Len(rest)} \cup F \cup I
  <2>1. pc # "aborted"
    BY DEF DInv
  <2>2. ASSUME NEW n \in needed PROVE n \in DOMAIN heap
    <3>1. CASE front = None
      <4>1. rest = <<>> /\ F = {} /\ I = {}
        BY <3>1 DEF Rest, DInv, Ended, Reading
      <4>2. Len(rest) = 0
        BY <4>1
      <4> HIDE DEF rest, F, I
      <4>3. 1 .. Len(rest) = {}
        BY <4>2
      <4> QED BY <2>2, <4>1, <4>3
    <3>2. CASE front # None
      <4> DEFINE E == ElementsBelow(whole.heap, whole.root)
                 L == LeafEdges(whole.heap, whole.root)
      <4>1. PICK b \in Nat : \E a \in Nat : Halfway(whole, heap, front, back, remaining, a, b) /\ Taken(a)
        BY <3>2 DEF DInv, Underway
      <4>2. PICK a \in Nat : Halfway(whole, heap, front, back, remaining, a, b) /\ Taken(a)
        BY <4>1
      <4>3. OneTree(whole.heap, whole.root) /\ whole.root # Nil
        BY <3>2, WholeTree DEF DInv, Underway
      <4>4. /\ init_front(whole.heap, front[1]) = L[a + 1]
            /\ rest = SubSeq(E, a + 1, b)
        BY <4>2, <4>3, RestIs, HalfwayEnds
      <4>5. F = {L[a + 1].node}
        BY <3>2, <4>4
      <4>6. a <= b /\ b <= Len(E) /\ Len(E) \in Nat /\ E \in Seq(Spots(whole.heap))
        BY <4>2, <4>3, RootOrdered DEF Halfway, Ordered
      <4> HIDE DEF L, E
      <4>7. Len(rest) = b - a /\ \A i \in 1 .. b - a : rest[i] = E[a + i]
        BY <4>4, <4>6
      <4> HIDE DEF rest, F, I
      <4>8. \/ n = L[a + 1].node
            \/ \E i \in 1 .. b : a <= i /\ n = E[i].node
        <5>1. CASE n \in F
          BY <4>5, <5>1
        <5>2. CASE n \in I
          <6>1. Reading /\ n = item[1].node
            BY <5>2 DEF I, Reading
          <6>2. a >= 1 /\ item = Some(E[a])
            BY <4>2, <6>1 DEF Taken, E
          <6>3. n = E[a].node /\ a \in 1 .. b /\ a <= a
            BY <4>6, <6>1, <6>2 DEF Some
          <6> QED BY <6>3
        <5>3. CASE n \in {rest[i].node : i \in 1 .. Len(rest)}
          <6>1. PICK i \in 1 .. Len(rest) : n = rest[i].node
            BY <5>3
          <6>2. i \in 1 .. b - a /\ rest[i] = E[a + i]
            BY <4>7
          <6> DEFINE j == a + i
          <6>3. j \in 1 .. b /\ a <= j /\ rest[i] = E[j]
            BY <4>6, <6>2
          <6> HIDE DEF j
          <6> QED BY <6>1, <6>3
        <5> QED BY <2>2, <5>1, <5>2, <5>3
      <4> QED BY <4>2, <4>3, <4>8, NeededKept DEF E, L
    <3> QED BY <3>1, <3>2
  <2>3. ASSUME NEW n \in DOMAIN heap \ {whole.root} PROVE heap[n].parent \in DOMAIN heap
    <3>1. CASE front = None
      BY <2>3, <3>1 DEF DInv, Ended
    <3>2. CASE front # None
      <4>1. PICK b \in Nat : \E a \in Nat : Halfway(whole, heap, front, back, remaining, a, b) /\ Taken(a)
        BY <3>2 DEF DInv, Underway
      <4>2. PICK a \in Nat : Halfway(whole, heap, front, back, remaining, a, b) /\ Taken(a)
        BY <4>1
      <4>3. OneTree(whole.heap, whole.root) /\ whole.root # Nil
        BY <3>2, WholeTree DEF DInv, Underway
      <4> QED BY <4>2, <4>3, AboveKept
    <3> QED BY <3>1, <3>2
  <2> HIDE DEF needed
  <2>4. needed \subseteq DOMAIN heap
    BY <2>2
  <2> QED BY <2>1, <2>3, <2>4 DEF NothingFreedEarly, needed, F, I, rest
<1> QED BY <1>1, DInvariance, PTL

\* When the drop is over every node has been freed and no element is left.
THEOREM AllIsDropped == Spec => []EverythingDropped
<1>1. DInv => EverythingDropped
  BY DEF DInv, EverythingDropped, Ended, Leaks
<1> QED BY <1>1, DInvariance, PTL

-----------------------------------------------------------------------------
(* The iterator it implements *)


\* The rest of the elements, as the numbers of the ends have it.
RestFrom(a, b) == Rest = SubSeq(ElementsBelow(whole.heap, whole.root), a + 1, b)

LEMMA RestBetween ==
  ASSUME DInv, whole.root # Nil, NEW g, NEW c, NEW a, NEW b, Halfway(whole, g, front, back, c, a, b)
  PROVE  RestFrom(a, b)
<1>1. OneTree(whole.heap, whole.root)
  BY WholeTree
<1>2. RestIn(whole, front, back) = SubSeq(ElementsBelow(whole.heap, whole.root), a + 1, b)
  BY <1>1, HalfwayRest
<1> QED BY <1>2, RestIs DEF RestFrom

LEMMA RestBetweenAfter ==
  ASSUME DInv, whole' = whole, whole.root # Nil, NEW a, NEW b,
         Halfway(whole', heap', front', back', remaining', a, b)
  PROVE  Rest' = SubSeq(ElementsBelow(whole.heap, whole.root), a + 1, b)
<1>1. OneTree(whole.heap, whole.root)
  BY WholeTree
<1>2. \A g, f, k, c : Halfway(whole, g, f, k, c, a, b) =>
         RestIn(whole, f, k) = SubSeq(ElementsBelow(whole.heap, whole.root), a + 1, b)
  BY <1>1, HalfwayRest
<1>3. Rest' = RestIn(whole, front', back')
  BY DEF Rest, RestIn
<1>4. Halfway(whole, heap', front', back', remaining', a, b)
  OBVIOUS
<1> QED BY <1>2, <1>3, <1>4

\* Each element is handed to the client or dropped once and none is left out.
THEOREM EachElementComesOnce == Spec => EachElementOnce
<1>1. Init => Rest = Elements(whole.heap, whole.root) /\ item = <<>>
  <2> SUFFICES ASSUME Init PROVE Rest = Elements(whole.heap, whole.root) /\ item = <<>>
    OBVIOUS
  <2>1. /\ whole \in Maps /\ front = (IF whole.root = Nil THEN None ELSE Some(Root(whole.root)))
        /\ back = front /\ item = None
    BY DEF Init
  <2>2. CASE whole.root = Nil
    BY <2>1, <2>2 DEF Rest, Elements, None
  <2>3. CASE whole.root # Nil
    <3> DEFINE h == whole.heap
               r == whole.root
               N == Len(ElementsBelow(h, r))
    <3>1. OneTree(h, r)
      BY <2>1, <2>3, MapsAssumption, LegalOrder
    <3>2. /\ Ordered(h, ElementsBelow(h, r), LeafEdges(h, r), N)
          /\ LeafEdges(h, r)[1] = first_leaf_edge(h, r) /\ LeafEdges(h, r)[N + 1] = last_leaf_edge(h, r)
      BY <3>1, RootOrdered
    <3>3. N \in Nat /\ ElementsBelow(h, r) \in Seq(Spots(h))
      BY <3>2 DEF Ordered
    <3>4. front # None /\ front[1].lazy /\ front[1].at.node = r
      BY <2>1, <2>3 DEF Some, None, Root, Handle
    <3>5. init_front(h, front[1]) = LeafEdges(h, r)[1] /\ init_back(h, back[1]) = LeafEdges(h, r)[N + 1]
      BY <2>1, <3>2, <3>4 DEF init_front, init_back
    <3>6. Before(h, r, init_front(h, front[1])) = 0
      <4>1. 1 \in 1 .. N + 1 /\ 1 - 1 = 0
        BY <3>3
      <4> QED BY <3>1, <3>5, <4>1, BeforeEdge
    <3>7. Before(h, r, init_back(h, back[1])) = N
      <4> DEFINE j == N + 1
      <4>1. j \in 1 .. N + 1 /\ j - 1 = N
        BY <3>3
      <4> HIDE DEF j
      <4>2. Before(h, r, LeafEdges(h, r)[j]) = j - 1
        BY <3>1, <4>1, BeforeEdge
      <4> QED BY <3>5, <4>1, <4>2 DEF j
    <3>8. Rest = SubSeq(ElementsBelow(h, r), 0 + 1, N)
      BY <2>3, <3>4, <3>6, <3>7 DEF Rest, Elements
    <3>9. Rest = ElementsBelow(h, r)
      <4> DEFINE s == ElementsBelow(h, r)
      <4>1. s \in Seq(Spots(h)) /\ N = Len(s)
        BY <3>3
      <4> HIDE DEF s
      <4>2. SubSeq(s, 1, Len(s)) = s
        BY <4>1
      <4> QED BY <3>8, <4>1, <4>2 DEF s
    <3> QED BY <2>1, <2>3, <3>9 DEF Elements, None
  <2> QED BY <2>2, <2>3
<1>2. DInv /\ DInv' /\ [Next]_vars => [Abstract!Walk /\ Elements(whole.heap, whole.root)' = Elements(whole.heap, whole.root)]_(Abstract!ivars)
  <2> DEFINE E == Elements(whole.heap, whole.root)
  <2> SUFFICES ASSUME DInv, DInv', [Next]_vars PROVE (Abstract!Walk /\ E' = E) \/ UNCHANGED <<E, Rest, item>>
    BY DEF Abstract!ivars
  <2>1. UNCHANGED <<whole, front, back, item>> => UNCHANGED <<E, Rest, item>>
    BY DEF Rest
  <2>2. whole' = whole
    BY DEF Next, vars, IntoIterNext, IntoIterNextBack, DropIntoIter, DropNext, DropKey, DropVal, DropPanics
  <2>3. E' = E
    BY <2>2
  <2> DEFINE K == ElementsBelow(whole.heap, whole.root)
  <2>4. ASSUME remaining = 0, front' = None, item' = None PROVE Abstract!Walk
    <3>1. Rest = <<>>
      <4>1. CASE front = None
        BY <4>1 DEF Rest
      <4>2. CASE front # None
        <5>1. PICK b \in Nat : \E a \in Nat : Halfway(whole, heap, front, back, remaining, a, b)
          BY <4>2 DEF DInv, Underway
        <5>2. PICK a \in Nat : Halfway(whole, heap, front, back, remaining, a, b)
          BY <5>1
        <5>3. OneTree(whole.heap, whole.root) /\ whole.root # Nil
          BY <4>2, WholeTree DEF DInv, Underway
        <5>4. Rest = SubSeq(K, a + 1, b)
          BY <5>2, <5>3, RestBetween DEF RestFrom
        <5>5. b < a + 1
          BY <2>4, <5>2 DEF Halfway
        <5> QED BY <5>4, <5>5
      <4> QED BY <4>1, <4>2
    <3>2. Rest' = <<>>
      BY <2>4 DEF Rest
    <3> QED BY <2>4, <3>1, <3>2 DEF Abstract!Walk, Abstract!Exhausted, None
  <2>5. ASSUME NEW a \in Nat, NEW b \in Nat, NEW c \in Nat, NEW d \in Nat,
               front # None, front' # None, whole.root # Nil,
               Halfway(whole, heap, front, back, remaining, a, b),
               Halfway(whole', heap', front', back', remaining', c, d), remaining # 0
        PROVE  /\ Rest = SubSeq(K, a + 1, b) /\ Rest' = SubSeq(K, c + 1, d)
               /\ a < b /\ b <= Len(K) /\ K \in Seq(Spots(whole.heap))
    <3>1. OneTree(whole.heap, whole.root)
      BY <2>5, WholeTree
    <3>3. Rest = SubSeq(K, a + 1, b)
      BY <2>5, RestBetween DEF RestFrom
    <3>4. Rest' = SubSeq(K, c + 1, d)
      BY <2>2, <2>5, RestBetweenAfter
    <3>6. a < b /\ b <= Len(K)
      BY <2>5 DEF Halfway
    <3>7. K \in Seq(Spots(whole.heap))
      BY <3>1, RootOrdered DEF Ordered
    <3> QED BY <3>3, <3>4, <3>6, <3>7
  <2>6. ASSUME pc \in {"held", "dropping"}, NEW label, dying_next(label) PROVE Abstract!Walk
    <3>1. CASE remaining = 0
      BY <2>2, <2>4, <2>6, <3>1, FrontStep
    <3>2. CASE remaining # 0
      <4>1. /\ front # None /\ front' # None /\ whole.root # Nil
            /\ \E b \in Nat : \E a \in Nat :
                 /\ Halfway(whole, heap, front, back, remaining, a, b)
                 /\ Halfway(whole', heap', front', back', remaining', a + 1, b)
                 /\ item' = Some(K[a + 1])
        BY <2>2, <2>6, <3>2, FrontStep
      <4>2. PICK b \in Nat : \E a \in Nat :
                 /\ Halfway(whole, heap, front, back, remaining, a, b)
                 /\ Halfway(whole', heap', front', back', remaining', a + 1, b)
                 /\ item' = Some(K[a + 1])
        BY <4>1
      <4>3. PICK a \in Nat :
                 /\ Halfway(whole, heap, front, back, remaining, a, b)
                 /\ Halfway(whole', heap', front', back', remaining', a + 1, b)
                 /\ item' = Some(K[a + 1])
        BY <4>2
      <4>4. a + 1 \in Nat
        OBVIOUS
      <4>5. /\ Rest = SubSeq(K, a + 1, b) /\ Rest' = SubSeq(K, a + 1 + 1, b)
            /\ a < b /\ b <= Len(K) /\ K \in Seq(Spots(whole.heap))
        BY <2>5, <3>2, <4>1, <4>3, <4>4
      <4> HIDE DEF K
      <4>6. Rest # <<>> /\ Head(Rest) = K[a + 1] /\ Tail(Rest) = Rest'
        <5>1. a \in Nat /\ b \in Nat
          OBVIOUS
        <5> QED BY <4>5, <5>1, StretchTaken, Zenon
      <4>7. Abstract!TakeFirst
        BY <4>3, <4>6 DEF Abstract!TakeFirst, Some
      <4> QED BY <4>7 DEF Abstract!Walk
    <3> QED BY <3>1, <3>2
  <2>7. ASSUME pc \in {"held", "dropping"}, NEW label, dying_next_back(label) PROVE Abstract!Walk
    <3>1. CASE remaining = 0
      BY <2>2, <2>4, <2>7, <3>1, BackStep
    <3>2. CASE remaining # 0
      <4>1. /\ front # None /\ front' # None /\ whole.root # Nil
            /\ \E b \in Nat : \E a \in Nat :
                 /\ Halfway(whole, heap, front, back, remaining, a, b)
                 /\ b - 1 \in Nat /\ Halfway(whole', heap', front', back', remaining', a, b - 1)
                 /\ item' = Some(K[b])
        BY <2>2, <2>7, <3>2, BackStep
      <4>2. PICK b \in Nat : \E a \in Nat :
                 /\ Halfway(whole, heap, front, back, remaining, a, b)
                 /\ b - 1 \in Nat /\ Halfway(whole', heap', front', back', remaining', a, b - 1)
                 /\ item' = Some(K[b])
        BY <4>1
      <4>3. PICK a \in Nat :
                 /\ Halfway(whole, heap, front, back, remaining, a, b)
                 /\ b - 1 \in Nat /\ Halfway(whole', heap', front', back', remaining', a, b - 1)
                 /\ item' = Some(K[b])
        BY <4>2
      <4>4. PICK c \in Nat : c = b - 1
        BY <4>3
      <4>5. /\ Rest = SubSeq(K, a + 1, b) /\ Rest' = SubSeq(K, a + 1, b - 1)
            /\ a < b /\ b <= Len(K) /\ K \in Seq(Spots(whole.heap))
        <5>1. Halfway(whole', heap', front', back', remaining', a, c)
          BY <4>3, <4>4
        <5>2. /\ Rest = SubSeq(K, a + 1, b) /\ Rest' = SubSeq(K, a + 1, c)
              /\ a < b /\ b <= Len(K) /\ K \in Seq(Spots(whole.heap))
          BY <2>5, <3>2, <4>1, <4>3, <5>1
        <5> QED BY <4>4, <5>2
      <4> HIDE DEF K
      <4>6. Rest # <<>> /\ Rest[Len(Rest)] = K[b] /\ SubSeq(Rest, 1, Len(Rest) - 1) = Rest'
        <5>1. a \in Nat /\ b \in Nat
          OBVIOUS
        <5> QED BY <4>5, <5>1, StretchTaken, Zenon
      <4>7. Abstract!TakeLast
        BY <4>3, <4>6 DEF Abstract!TakeLast, Some
      <4> QED BY <4>7 DEF Abstract!Walk
    <3> QED BY <3>1, <3>2
  <2>8. CASE IntoIterNext
    BY <2>3, <2>6, <2>8 DEF IntoIterNext
  <2>9. CASE IntoIterNextBack
    BY <2>3, <2>7, <2>9 DEF IntoIterNextBack
  <2>10. CASE DropNext
    BY <2>3, <2>6, <2>10 DEF DropNext
  <2>11. CASE ~(IntoIterNext \/ IntoIterNextBack \/ DropNext)
    <3>1. UNCHANGED <<whole, front, back, item>>
      BY <2>11 DEF Next, vars, ends, DropIntoIter, DropKey, DropVal, DropPanics
    <3> QED BY <2>1, <3>1
  <2> QED BY <2>8, <2>9, <2>10, <2>11
<1> QED BY <1>1, <1>2, DInvariance, PTL DEF Spec, EachElementOnce, Abstract!WalkSpec
=============================================================================
