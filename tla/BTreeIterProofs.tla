---------------------------- MODULE BTreeIterProofs ----------------------------
(***************************************************************************)
(* The ends of an Iter and of a Range, in terms of the order of the tree:  *)
(* each end is a number of elements, the front one is not above the back   *)
(* one, and the count of an Iter is their difference.  A search for a      *)
(* range keeps its two sides in order level by level, whatever the two     *)
(* comparators answer.  Then each call of next takes the next element of   *)
(* the stretch between the ends, as ElementIterator says.                  *)
(***************************************************************************)
EXTENDS BTreeIter, BTreeNavigateProofs

-----------------------------------------------------------------------------
(* Two ends in a tree *)

AtFront(h, r, f, a) ==
  \/ f = Some(Root(r)) /\ a = 0
  \/ f = Some(Edge(LeafEdges(h, r)[a + 1]))

AtBack(h, r, k, b) ==
  \/ k = Some(Root(r)) /\ b = Len(ElementsBelow(h, r))
  \/ k = Some(Edge(LeafEdges(h, r)[b + 1]))

\* The front end has a elements behind it, the back end has b before it.
EndsAt(h, r, f, k, a, b) ==
  /\ b \in Nat /\ a \in Nat /\ a <= b /\ b <= Len(ElementsBelow(h, r))
  /\ AtFront(h, r, f, a) /\ AtBack(h, r, k, b)

StretchIn(h, r, f, k) ==
  SubSeq(ElementsBelow(h, r), Before(h, r, init_front(h, f[1])) + 1, Before(h, r, init_back(h, k[1])))

LEMMA EndsFoundAt ==
  ASSUME NEW h, NEW r, OneTree(h, r), NEW f, NEW k, NEW a, NEW b, EndsAt(h, r, f, k, a, b)
  PROVE  /\ f # None /\ k # None
         /\ init_front(h, f[1]) = LeafEdges(h, r)[a + 1]
         /\ init_back(h, k[1]) = LeafEdges(h, r)[b + 1]
<1> DEFINE E == ElementsBelow(h, r)
           L == LeafEdges(h, r)
           N == Len(E)
<1>1. /\ b \in Nat /\ a \in Nat /\ a <= b /\ b <= N
      /\ AtFront(h, r, f, a) /\ AtBack(h, r, k, b)
  BY DEF EndsAt
<1>2. N \in Nat /\ L[1] = first_leaf_edge(h, r) /\ L[N + 1] = last_leaf_edge(h, r)
  BY RootOrdered DEF Ordered
<1> HIDE DEF N, L
<1>5. f # None /\ init_front(h, f[1]) = L[a + 1]
  <2>1. CASE f = Some(Root(r)) /\ a = 0
    <3>1. a + 1 = 1
      BY <2>1
    <3> QED BY <1>2, <2>1, <3>1 DEF init_front, Root, Some, None, Handle
  <2>2. CASE f = Some(Edge(L[a + 1]))
    BY <2>2 DEF init_front, Edge, Some, None
  <2> QED BY <1>1, <2>1, <2>2 DEF AtFront, L
<1>6. k # None /\ init_back(h, k[1]) = L[b + 1]
  <2>1. CASE k = Some(Root(r)) /\ b = N
    BY <1>2, <2>1 DEF init_back, Root, Some, None, Handle
  <2>2. CASE k = Some(Edge(L[b + 1]))
    BY <2>2 DEF init_back, Edge, Some, None
  <2> QED BY <1>1, <2>1, <2>2 DEF AtBack, L, N
<1> QED BY <1>5, <1>6 DEF L


LEMMA StretchBetween ==
  ASSUME NEW h, NEW r, OneTree(h, r), NEW f, NEW k, NEW a, NEW b, EndsAt(h, r, f, k, a, b)
  PROVE  /\ StretchIn(h, r, f, k) = SubSeq(ElementsBelow(h, r), a + 1, b)
         /\ Len(StretchIn(h, r, f, k)) = b - a
         /\ Before(h, r, init_front(h, f[1])) = a /\ Before(h, r, init_back(h, k[1])) = b
<1> DEFINE E == ElementsBelow(h, r)
           L == LeafEdges(h, r)
           N == Len(E)
<1>1. b \in Nat /\ a \in Nat /\ a <= b /\ b <= N
  BY DEF EndsAt
<1>2. N \in Nat /\ E \in Seq(Spots(h))
  BY RootOrdered DEF Ordered
<1>3. init_front(h, f[1]) = L[a + 1] /\ init_back(h, k[1]) = L[b + 1]
  BY EndsFoundAt
<1> HIDE DEF N, L, E
<1>7. Before(h, r, L[a + 1]) = a /\ Before(h, r, L[b + 1]) = b
  <2> DEFINE i == a + 1
             j == b + 1
  <2>2. i \in 1 .. N + 1 /\ j \in 1 .. N + 1 /\ i - 1 = a /\ j - 1 = b
    BY <1>1, <1>2
  <2> HIDE DEF i, j
  <2>3. Before(h, r, L[i]) = i - 1
    BY <2>2, BeforeEdge DEF L, N, E
  <2>4. Before(h, r, L[j]) = j - 1
    BY <2>2, BeforeEdge DEF L, N, E
  <2> QED BY <2>2, <2>3, <2>4 DEF i, j
<1>8. StretchIn(h, r, f, k) = SubSeq(E, a + 1, b)
  BY <1>3, <1>7 DEF StretchIn, E
<1>9. Len(SubSeq(E, a + 1, b)) = b - a
  BY <1>1, <1>2 DEF N
<1> QED BY <1>3, <1>7, <1>8, <1>9 DEF E

\* Another pair at the front, another pair at the back.
LEMMA FrontPasses ==
  ASSUME NEW h, NEW r, OneTree(h, r), NEW f, NEW k, NEW a, NEW b, EndsAt(h, r, f, k, a, b), a # b
  PROVE  LET kv == next_kv(h, init_front(h, f[1]))
         IN  /\ kv # NoHandle /\ kv = ElementsBelow(h, r)[a + 1]
             /\ EndsAt(h, r, Some(Edge(next_leaf_edge(h, kv))), k, a + 1, b)
             /\ Edge(next_leaf_edge(h, kv)) = Edge(LeafEdges(h, r)[a + 1 + 1])
             /\ a < b
<1> DEFINE E == ElementsBelow(h, r)
           L == LeafEdges(h, r)
           N == Len(E)
           i == a + 1
           kv == next_kv(h, init_front(h, f[1]))
<1>1. b \in Nat /\ a \in Nat /\ a <= b /\ b <= N /\ AtBack(h, r, k, b)
  BY DEF EndsAt
<1>2. N \in Nat /\ Ordered(h, E, L, N) /\ Nil \notin DOMAIN h
  BY RootOrdered, GroveStepped DEF Ordered, OneTree
<1>3. init_front(h, f[1]) = L[i]
  BY EndsFoundAt
<1>4. i \in 1 .. N /\ i \in Nat /\ i <= b /\ a < b
  BY <1>1, <1>2
<1> HIDE DEF i, L, E, N
<1>5. Linked(h, E, L, i) /\ PairIn(h, E[i])
  BY <1>2, <1>4 DEF Ordered
<1>6. E[i] # NoHandle
  BY <1>2, <1>5, PairNotNil
<1>7. kv = E[i] /\ next_leaf_edge(h, kv) = L[i + 1]
  BY <1>3, <1>5 DEF Linked
<1> HIDE DEF kv
<1>8. EndsAt(h, r, Some(Edge(next_leaf_edge(h, kv))), k, i, b)
  BY <1>1, <1>4, <1>7 DEF EndsAt, AtFront, L, N, E
<1> QED BY <1>4, <1>6, <1>7, <1>8 DEF i, L, E, kv

LEMMA BackPasses ==
  ASSUME NEW h, NEW r, OneTree(h, r), NEW f, NEW k, NEW a, NEW b, EndsAt(h, r, f, k, a, b), a # b
  PROVE  LET kv == next_back_kv(h, init_back(h, k[1]))
         IN  /\ kv # NoHandle /\ kv = ElementsBelow(h, r)[b]
             /\ EndsAt(h, r, f, Some(Edge(next_back_leaf_edge(h, kv))), a, b - 1)
             /\ Edge(next_back_leaf_edge(h, kv)) = Edge(LeafEdges(h, r)[b - 1 + 1])
             /\ a < b /\ b - 1 \in Nat
<1> DEFINE E == ElementsBelow(h, r)
           L == LeafEdges(h, r)
           N == Len(E)
           j == b - 1
           kv == next_back_kv(h, init_back(h, k[1]))
<1>1. b \in Nat /\ a \in Nat /\ a <= b /\ b <= N /\ AtFront(h, r, f, a)
  BY DEF EndsAt
<1>2. N \in Nat /\ Ordered(h, E, L, N) /\ Nil \notin DOMAIN h
  BY RootOrdered, GroveStepped DEF Ordered, OneTree
<1>3. init_back(h, k[1]) = L[b + 1]
  BY EndsFoundAt
<1>4. b \in 1 .. N /\ j \in Nat /\ j + 1 = b /\ a <= j /\ j <= N /\ a < b
  BY <1>1, <1>2
<1> HIDE DEF j, L, E, N
<1>5. Linked(h, E, L, b) /\ PairIn(h, E[b])
  BY <1>2, <1>4 DEF Ordered
<1>6. E[b] # NoHandle
  BY <1>2, <1>5, PairNotNil
<1>7. kv = E[b] /\ next_back_leaf_edge(h, kv) = L[b]
  BY <1>3, <1>5 DEF Linked
<1> HIDE DEF kv
<1>8. EndsAt(h, r, f, Some(Edge(next_back_leaf_edge(h, kv))), a, j)
  BY <1>1, <1>4, <1>7 DEF EndsAt, AtBack, L, N, E
<1>9. L[b] = L[b - 1 + 1]
  BY <1>4 DEF j
<1> QED BY <1>4, <1>6, <1>7, <1>8, <1>9 DEF j, L, E, kv

-----------------------------------------------------------------------------
(* Where a search is *)

\* The results of a search in a node: the upper one is never left of where it starts.
LEMMA LowerIndex ==
  ASSUME NEW kvs \in Seq(KV), NEW q, NEW b \in SearchBound, NEW e \in find_lower_bound_index(kvs, q, b)
  PROVE  e[1] \in 0 .. Len(kvs) /\ e[2] \in SearchBound
<1>1. Len(kvs) \in Nat
  OBVIOUS
<1>3. \A s, i : i \in KVResults(s, q) => i \in 0 .. Len(s) - 1
  BY DEF KVResults
<1>4. \A s, i : i \in EdgeResults(s, q) => i \in 0 .. Len(s)
  BY DEF EdgeResults
<1>5. b \in {"Included", "Excluded", "AllIncluded", "AllExcluded"}
  BY DEF SearchBound
<1>6. CASE b = "AllIncluded" \/ b = "AllExcluded"
  BY <1>1, <1>6 DEF find_lower_bound_index, SearchBound
<1>7. CASE b = "Included"
  BY <1>1, <1>3, <1>4, <1>7 DEF find_lower_bound_index, SearchBound
<1>8. CASE b = "Excluded"
  BY <1>1, <1>3, <1>4, <1>8 DEF find_lower_bound_index, SearchBound
<1> QED BY <1>5, <1>6, <1>7, <1>8

LEMMA UpperIndex ==
  ASSUME NEW kvs \in Seq(KV), NEW q, NEW b \in SearchBound, NEW s \in 0 .. Len(kvs),
         NEW e \in find_upper_bound_index(kvs, q, b, s)
  PROVE  e[1] \in s .. Len(kvs) /\ e[2] \in SearchBound
<1> DEFINE from == SubSeq(kvs, s + 1, Len(kvs))
           found == {s + i : i \in KVResults(from, q)}
           edges == {<<s + i, b>> : i \in EdgeResults(from, q)}
<1>1. Len(kvs) \in Nat /\ s \in Nat /\ s <= Len(kvs)
  OBVIOUS
<1>2. Len(from) = Len(kvs) - s
  BY <1>1
<1> HIDE DEF from
<1>3. \A i \in KVResults(from, q) : i \in 0 .. Len(kvs) - s - 1
  BY <1>2 DEF KVResults
<1>4. \A i \in EdgeResults(from, q) : i \in 0 .. Len(kvs) - s
  BY <1>2 DEF EdgeResults
<1>5. \A x \in found : x \in s .. Len(kvs) /\ x + 1 \in s .. Len(kvs)
  <2> SUFFICES ASSUME NEW i \in KVResults(from, q)
               PROVE  s + i \in s .. Len(kvs) /\ s + i + 1 \in s .. Len(kvs)
    OBVIOUS
  <2>1. i \in 0 .. Len(kvs) - s - 1
    BY <1>3
  <2> QED BY <1>1, <2>1
<1>6. \A x \in edges : x[1] \in s .. Len(kvs) /\ x[2] = b
  <2> SUFFICES ASSUME NEW i \in EdgeResults(from, q)
               PROVE  s + i \in s .. Len(kvs)
    OBVIOUS
  <2>1. i \in 0 .. Len(kvs) - s
    BY <1>4
  <2> QED BY <1>1, <2>1
<1>7. b \in {"Included", "Excluded", "AllIncluded", "AllExcluded"}
  BY DEF SearchBound
<1> HIDE DEF found, edges
<1>8. CASE b = "AllIncluded" \/ b = "AllExcluded"
  BY <1>1, <1>8 DEF find_upper_bound_index, SearchBound
<1>9. CASE b = "Included"
  <2>1. e \in {<<i + 1, "AllExcluded">> : i \in found} \cup edges
    BY <1>9 DEF find_upper_bound_index, found, edges, from
  <2> QED BY <1>5, <1>6, <2>1 DEF SearchBound
<1>10. CASE b = "Excluded"
  <2>1. e \in {<<i, "AllIncluded">> : i \in found} \cup edges
    BY <1>10 DEF find_upper_bound_index, found, edges, from
  <2> QED BY <1>5, <1>6, <2>1 DEF SearchBound
<1> QED BY <1>7, <1>8, <1>9, <1>10

\* The number of elements before the edge idx of n, and after which the subtree
\* at that edge ends; the two are the same in a leaf.
UpTo(h, r, n, idx) ==
  IF IsLeaf(h, n) THEN FirstAt(h, r, n) + idx ELSE LastAt(h, r, descend(h, n, idx))

From(h, r, n, idx) ==
  IF IsLeaf(h, n) THEN FirstAt(h, r, n) + idx ELSE FirstAt(h, r, descend(h, n, idx))

LEMMA LeafSpot ==
  ASSUME NEW h, NEW r, OneTree(h, r), NEW n \in DOMAIN h, IsLeaf(h, n), NEW i \in 0 .. Len(h[n].kv)
  PROVE  /\ FirstAt(h, r, n) + i \in Nat
         /\ FirstAt(h, r, n) <= FirstAt(h, r, n) + i /\ FirstAt(h, r, n) + i <= LastAt(h, r, n)
         /\ LeafEdges(h, r)[FirstAt(h, r, n) + i + 1] = Handle(n, i)
<1> DEFINE k == Len(h[n].kv)
           w == Len(ElementsBelow(h, n))
           lo == FirstAt(h, r, n)
           t == i + 1
<1>1. Grove(h, {r}) /\ WellFormed(h, {r}) /\ Bounded(h) /\ k \in Nat
  BY GroveStepped DEF OneTree
<1>2. /\ w = k /\ \A j \in 1 .. k + 1 : LeafEdges(h, n)[j] = Handle(n, j - 1)
  BY <1>1, LeafSequences DEF IsLeaf
<1>3. /\ Stretch(h, r, n, lo) /\ lo \in Nat /\ LastAt(h, r, n) = lo + w
  BY NodeSpan
<1>4. \A j \in 1 .. w + 1 : LeafEdges(h, r)[lo + j] = LeafEdges(h, n)[j]
  BY <1>3 DEF Stretch
<1> HIDE DEF k, w, lo
<1>5. t \in 1 .. w + 1 /\ t - 1 = i /\ i \in Nat /\ i <= w /\ lo + i + 1 = lo + t /\ w \in Nat
  BY <1>1, <1>2, <1>3 DEF k
<1> HIDE DEF t
<1>6. LeafEdges(h, r)[lo + t] = Handle(n, i)
  BY <1>2, <1>4, <1>5
<1>7. lo + i \in Nat /\ lo <= lo + i /\ lo + i <= LastAt(h, r, n)
  BY <1>3, <1>5
<1>8. LeafEdges(h, r)[lo + i + 1] = Handle(n, i)
  BY <1>5, <1>6
<1> QED BY <1>7, <1>8 DEF lo

LEMMA EdgeSpan ==
  ASSUME NEW h, NEW r, OneTree(h, r), NEW n \in DOMAIN h, NEW i \in 0 .. Len(h[n].kv)
  PROVE  /\ From(h, r, n, i) \in Nat /\ UpTo(h, r, n, i) \in Nat
         /\ FirstAt(h, r, n) <= From(h, r, n, i) /\ UpTo(h, r, n, i) <= LastAt(h, r, n)
         /\ ~IsLeaf(h, n) => /\ descend(h, n, i) \in DOMAIN h
                             /\ h[descend(h, n, i)].height = h[n].height - 1
         /\ \A j \in 0 .. Len(h[n].kv) : i < j => UpTo(h, r, n, i) < From(h, r, n, j)
<1> DEFINE k == Len(h[n].kv)
           lo == FirstAt(h, r, n)
<1>1. Grove(h, {r}) /\ WellFormed(h, {r}) /\ k \in Nat /\ lo \in Nat
  BY GroveStepped, NodeSpan DEF OneTree
<1>2. CASE IsLeaf(h, n)
  <2>1. \A j \in 0 .. k : i < j => lo + i < lo + j
    BY <1>1
  <2> QED BY <1>2, <2>1, LeafSpot DEF From, UpTo
<1>3. CASE ~IsLeaf(h, n)
  <2>1. h[n].height # 0
    BY <1>3 DEF IsLeaf
  <2>2. PICK off : LaidOut(h, n, off)
    BY <1>1, <2>1, GroveStepped
  <2>3. /\ off \in [0 .. k + 1 -> Nat] /\ off[0] = 0
        /\ LastAt(h, r, n) = lo + off[k + 1] - 1
        /\ \A j \in 1 .. k + 1 :
             /\ FirstAt(h, r, h[n].edges[j]) = lo + off[j - 1]
             /\ LastAt(h, r, h[n].edges[j]) = lo + off[j] - 1
        /\ \A x, y \in 0 .. k + 1 : x <= y => off[x] <= off[y] /\ (x < y => off[x] < off[y])
    BY <2>1, <2>2, ChildSpan
  <2>4. ASSUME NEW j \in 0 .. k
        PROVE  /\ descend(h, n, j) \in DOMAIN h /\ h[descend(h, n, j)].height = h[n].height - 1
               /\ From(h, r, n, j) = lo + off[j] /\ UpTo(h, r, n, j) = lo + off[j + 1] - 1
               /\ off[j] \in Nat /\ off[j + 1] \in Nat /\ off[j + 1] >= 1 /\ off[j + 1] <= off[k + 1]
    <3> DEFINE t == j + 1
    <3>1. t \in 1 .. k + 1 /\ t - 1 = j /\ j \in Nat /\ 0 \in 0 .. k + 1 /\ t \in 0 .. k + 1
          /\ k + 1 \in 0 .. k + 1 /\ j \in 0 .. k + 1 /\ 0 < t /\ t <= k + 1
      BY <1>1
    <3> HIDE DEF t
    <3>2. h[n].edges[t] \in DOMAIN h /\ descend(h, n, j) = h[n].edges[t]
      BY <1>1, <2>1, <3>1, Children
    <3>3. h[h[n].edges[t]].height = h[n].height - 1
      <4>1. t \in 1 .. Len(h[n].edges)
        BY <1>1, <2>1, <3>1, NodeArity
      <4> QED BY <1>1, <2>1, <4>1, WellFormedFacts
    <3>4. FirstAt(h, r, h[n].edges[t]) = lo + off[j] /\ LastAt(h, r, h[n].edges[t]) = lo + off[t] - 1
      BY <2>3, <3>1
    <3>5. off[j] \in Nat /\ off[t] \in Nat /\ off[0] < off[t] /\ off[t] <= off[k + 1] /\ off[k + 1] \in Nat
      <4> DEFINE top == k + 1
      <4>1. off \in [0 .. top -> Nat] /\ j \in 0 .. top /\ t \in 0 .. top /\ 0 \in 0 .. top /\ top \in 0 .. top
        BY <2>3, <3>1
      <4>2. /\ \A x, y \in 0 .. top : x <= y => off[x] <= off[y]
            /\ \A x, y \in 0 .. top : x <= y => (x < y => off[x] < off[y])
        BY <2>3
      <4>3. 0 < t /\ 0 <= t /\ t <= top
        BY <3>1
      <4> HIDE DEF top
      <4>4. off[0] < off[t] /\ off[t] <= off[top]
        BY <4>1, <4>2, <4>3
      <4>5. off[j] \in Nat /\ off[t] \in Nat /\ off[top] \in Nat
        BY <4>1
      <4> QED BY <4>4, <4>5 DEF top
    <3>6. off[t] >= 1
      BY <2>3, <3>5
    <3> QED BY <1>3, <3>2, <3>3, <3>4, <3>5, <3>6 DEF From, UpTo, t
  <2>5. off[k + 1] \in Nat
    BY <1>1, <2>3
  <2>6. ASSUME NEW j \in 0 .. k, i < j PROVE UpTo(h, r, n, i) < From(h, r, n, j)
    <3>1. i + 1 \in 0 .. k + 1 /\ j \in 0 .. k + 1 /\ i + 1 <= j
      BY <1>1, <2>6
    <3>2. off[i + 1] <= off[j]
      BY <2>3, <3>1
    <3>3. From(h, r, n, j) = lo + off[j] /\ off[j] \in Nat
      BY <2>4
    <3>4. UpTo(h, r, n, i) = lo + off[i + 1] - 1 /\ off[i + 1] \in Nat
      BY <2>4
    <3> QED BY <1>1, <3>2, <3>3, <3>4
  <2>7. /\ From(h, r, n, i) = lo + off[i] /\ UpTo(h, r, n, i) = lo + off[i + 1] - 1
        /\ off[i] \in Nat /\ off[i + 1] \in Nat /\ off[i + 1] >= 1 /\ off[i + 1] <= off[k + 1]
        /\ descend(h, n, i) \in DOMAIN h /\ h[descend(h, n, i)].height = h[n].height - 1
    BY <2>4
  <2>8. /\ From(h, r, n, i) \in Nat /\ UpTo(h, r, n, i) \in Nat
        /\ lo <= From(h, r, n, i) /\ UpTo(h, r, n, i) <= LastAt(h, r, n)
    <3> DEFINE x == off[i]
               y == off[i + 1]
               z == off[k + 1]
               u == LastAt(h, r, n)
    <3>1. u = lo + z - 1 /\ x \in Nat /\ y \in Nat /\ z \in Nat /\ y >= 1 /\ y <= z /\ lo \in Nat
      BY <1>1, <2>3, <2>5, <2>7
    <3>2. From(h, r, n, i) = lo + x /\ UpTo(h, r, n, i) = lo + y - 1
      BY <2>7
    <3> HIDE DEF x, y, z, u, lo
    <3>3. lo + x \in Nat /\ lo + y - 1 \in Nat /\ lo <= lo + x /\ lo + y - 1 <= u
      BY <3>1
    <3> QED BY <3>2, <3>3 DEF u, lo
  <2>9. \A j \in 0 .. k : i < j => UpTo(h, r, n, i) < From(h, r, n, j)
    BY <2>6
  <2>10. descend(h, n, i) \in DOMAIN h /\ h[descend(h, n, i)].height = h[n].height - 1
    BY <2>7
  <2> HIDE DEF lo
  <2> QED BY <2>8, <2>9, <2>10 DEF lo
<1> QED BY <1>2, <1>3

-----------------------------------------------------------------------------
(* The invariant *)

IsSide(s) == \E n, i, k, a, b : s = Side(n, i, k, a, b)

MoveTo(s, n, i, b) == [s EXCEPT !.node = n, !.idx = i, !.bound = b]

LEMMA SideParts ==
  ASSUME NEW n, NEW i, NEW k, NEW a, NEW b
  PROVE  LET s == Side(n, i, k, a, b)
         IN  s.node = n /\ s.idx = i /\ s.key = k /\ s.asked = a /\ s.bound = b /\ IsSide(s)
BY DEF Side, IsSide

\* A side of the search goes on at another node.
LEMMA SideMoves ==
  ASSUME NEW s, IsSide(s), NEW n, NEW i, NEW b
  PROVE  /\ MoveTo(s, n, i, b).node = n /\ MoveTo(s, n, i, b).idx = i
         /\ MoveTo(s, n, i, b).bound = b /\ IsSide(MoveTo(s, n, i, b))
<1>1. PICK n0, i0, k0, a0, b0 : s = Side(n0, i0, k0, a0, b0)
  BY DEF IsSide
<1> DEFINE s0 == Side(n0, i0, k0, a0, b0)
           s1 == [s0 EXCEPT !.node = n]
           s2 == [s1 EXCEPT !.idx = i]
           s3 == [s2 EXCEPT !.bound = b]
<1>2. MoveTo(s, n, i, b) = Side(n, i, k0, a0, b)
  <2>1. s1 = Side(n, i0, k0, a0, b0)
    BY DEF Side
  <2> HIDE DEF s1
  <2>2. s2 = Side(n, i, k0, a0, b0)
    BY <2>1 DEF Side
  <2> HIDE DEF s2
  <2>3. s3 = Side(n, i, k0, a0, b)
    BY <2>2 DEF Side
  <2> HIDE DEF s3
  <2>4. MoveTo(s, n, i, b) = s3
    BY <1>1 DEF MoveTo, s1, s2, s3
  <2> QED BY <2>3, <2>4
<1> QED BY <1>2, SideParts

Placed(s) == s.node \in DOMAIN heap /\ s.bound \in SearchBound

\* Both sides of the search are at edges of nodes of the same height, and what
\* lies below the lower edge comes before what lies below the upper.
Apart ==
  /\ root # Nil /\ Placed(lower) /\ Placed(upper)
  /\ lower.idx \in 0 .. Len(heap[lower.node].kv) /\ upper.idx \in 0 .. Len(heap[upper.node].kv)
  /\ heap[lower.node].height = heap[upper.node].height
  /\ UpTo(heap, root, lower.node, lower.idx) < From(heap, root, upper.node, upper.idx)

\* Where the ends are; the ends of a Range are edges from the start.
EndsHere(p, h, r, f, k, c, a, b) ==
  /\ EndsAt(h, r, f, k, a, b)
  /\ p = "iter" => c = b - a
  /\ p = "range" => f = Some(Edge(LeafEdges(h, r)[a + 1])) /\ k = Some(Edge(LeafEdges(h, r)[b + 1]))

Opened ==
  root # Nil /\ \E b \in Nat : \E a \in Nat : EndsHere(pc, heap, root, front, back, remaining, a, b)

RInv ==
  /\ root = Nil => length = 0
  /\ root # Nil => OneTree(heap, root) /\ length = Len(ElementsBelow(heap, root))
  /\ pc \in {"idle", "iter", "range", "bifurcation", "spanning"}
  /\ pc \notin {"iter", "range"} => item = None
  /\ IsSide(lower) /\ IsSide(upper)
  /\ pc = "idle" => front = None /\ back = None
  /\ pc = "bifurcation" => root # Nil /\ Placed(lower) /\ Placed(upper) /\ upper.node = lower.node
  /\ pc = "spanning" => Apart
  /\ pc \in {"iter", "range"} /\ front # None => Opened
  /\ pc = "iter" /\ front = None => remaining = 0
  /\ pc = "range" /\ front = None => back = None

LEMMA RInit == Init => RInv
<1> SUFFICES ASSUME Init PROVE RInv
  OBVIOUS
<1>1. PICK m \in Maps : heap = m.heap /\ root = m.root /\ length = m.length
  BY DEF Init
<1>2. /\ root = Nil => length = 0
      /\ root # Nil => OneTree(heap, root) /\ length = Len(ElementsBelow(heap, root))
  BY <1>1, MapsAssumption, LegalOrder
<1>3. IsSide(NoSide)
  BY SideParts DEF NoSide
<1> QED BY <1>2, <1>3 DEF Init, RInv

\* A step that leaves the map alone and ends with no search and no iterator.
LEMMA IdleKeeps ==
  ASSUME RInv, Idle, UNCHANGED map
  PROVE  RInv'
<1>1. IsSide(NoSide)
  BY SideParts DEF NoSide
<1> QED BY <1>1 DEF RInv, Idle, map

LEMMA StepIter ==
  ASSUME RInv, Iter
  PROVE  RInv'
<1>1. /\ pc = "idle" /\ pc' = "iter" /\ UNCHANGED <<heap, root, length, lower, upper, item>>
      /\ front' = (IF root = Nil THEN None ELSE Some(Root(root))) /\ back' = front'
      /\ remaining' = (IF root = Nil THEN 0 ELSE length)
  BY DEF Iter, map, search
<1>2. CASE root = Nil
  BY <1>1, <1>2 DEF RInv
<1>3. CASE root # Nil
  <2> DEFINE N == Len(ElementsBelow(heap, root))
  <2>1. OneTree(heap, root) /\ length = N
    BY <1>3 DEF RInv
  <2>2. N \in Nat
    BY <2>1, RootOrdered DEF Ordered
  <2>3. AtFront(heap', root', front', 0) /\ AtBack(heap', root', back', N)
    BY <1>1, <1>3 DEF AtFront, AtBack
  <2>4. 0 \in Nat /\ 0 <= N /\ N <= N /\ N - 0 = N
    BY <2>2
  <2>5. EndsAt(heap', root', front', back', 0, N)
    BY <1>1, <2>2, <2>3, <2>4 DEF EndsAt
  <2>6. remaining' = N
    BY <1>1, <1>3, <2>1
  <2> HIDE DEF N
  <2>7. EndsHere(pc', heap', root', front', back', remaining', 0, N)
    BY <1>1, <2>4, <2>5, <2>6 DEF EndsHere
  <2>8. Opened'
    BY <1>1, <1>3, <2>2, <2>4, <2>7 DEF Opened
  <2>9. front' # None
    BY <1>1, <1>3 DEF Some, None
  <2> QED BY <1>1, <1>3, <2>8, <2>9 DEF RInv
<1> QED BY <1>2, <1>3

LEMMA StepRange ==
  ASSUME RInv, NEW lb \in SearchBound, NEW ub \in SearchBound, NEW l, NEW u, OpenRange(l, lb, u, ub)
  PROVE  RInv'
<1>1. /\ pc = "idle" /\ UNCHANGED <<heap, root, length, front, back, remaining, item>>
  BY DEF OpenRange, map
<1>2. CASE root = Nil
  <2>1. pc' = "range" /\ UNCHANGED <<lower, upper>>
    BY <1>2 DEF OpenRange, search
  <2> QED BY <1>1, <1>2, <2>1 DEF RInv
<1>3. CASE root # Nil
  <2>1. pc' = "bifurcation" /\ lower' = Side(root, 0, l, lb, lb) /\ upper' = Side(root, 0, u, ub, ub)
    BY <1>3 DEF OpenRange
  <2>2. /\ lower'.node = root /\ lower'.bound = lb /\ IsSide(lower')
        /\ upper'.node = root /\ upper'.bound = ub /\ IsSide(upper')
    BY <2>1, SideParts
  <2>3. root \in DOMAIN heap
    BY <1>3 DEF RInv, OneTree
  <2>4. Placed(lower)' /\ Placed(upper)' /\ upper'.node = lower'.node
    BY <1>1, <2>2, <2>3 DEF Placed
  <2> QED BY <1>1, <1>3, <2>1, <2>2, <2>4 DEF RInv
<1> QED BY <1>2, <1>3

LEMMA NodeKvs ==
  ASSUME RInv, root # Nil, NEW n \in DOMAIN heap
  PROVE  heap[n].kv \in Seq(KV) /\ Len(heap[n].kv) \in Nat /\ OneTree(heap, root)
<1>1. OneTree(heap, root)
  BY DEF RInv
<1>2. WellFormed(heap, {root})
  BY <1>1, GroveStepped DEF OneTree
<1> QED BY <1>1, <1>2, HeapNode DEF WellFormed

\* The two sides after one level of the search.
Moves(m, l, k, u) == lower' = MoveTo(lower, m, l[1], l[2]) /\ upper' = MoveTo(upper, k, u[1], u[2])

LEMMA Moved ==
  ASSUME RInv, NEW m \in DOMAIN heap, NEW k \in DOMAIN heap, NEW l, NEW u, Moves(m, l, k, u),
         l[2] \in SearchBound, u[2] \in SearchBound, heap' = heap
  PROVE  /\ IsSide(lower') /\ lower'.node = m /\ lower'.idx = l[1] /\ Placed(lower)'
         /\ IsSide(upper') /\ upper'.node = k /\ upper'.idx = u[1] /\ Placed(upper)'
<1>1. IsSide(lower) /\ IsSide(upper)
  BY DEF RInv
<1> DEFINE s == MoveTo(lower, m, l[1], l[2])
           t == MoveTo(upper, k, u[1], u[2])
<1>2. s.node = m /\ s.idx = l[1] /\ s.bound = l[2] /\ IsSide(s)
  BY <1>1, SideMoves
<1>3. t.node = k /\ t.idx = u[1] /\ t.bound = u[2] /\ IsSide(t)
  BY <1>1, SideMoves
<1>4. lower' = s /\ upper' = t
  BY DEF Moves
<1> HIDE DEF s, t
<1> QED BY <1>2, <1>3, <1>4 DEF Placed

\* One level down both bounds go to the same child, or from here on they are apart.
LEMMA StepBifurcation ==
  ASSUME RInv, Bifurcation
  PROVE  RInv'
<1> DEFINE n == lower.node
           kvs == heap[n].kv
<1>1. /\ pc = "bifurcation" /\ UNCHANGED <<heap, root, length, remaining, item>>
      /\ root # Nil /\ n \in DOMAIN heap /\ upper.node = n
      /\ lower.bound \in SearchBound /\ upper.bound \in SearchBound /\ item = None
  BY DEF Bifurcation, RInv, map, Placed
<1>2. kvs \in Seq(KV) /\ Len(kvs) \in Nat /\ OneTree(heap, root)
  BY <1>1, NodeKvs
<1>3. PICK l \in find_lower_bound_index(kvs, lower.key, lower.bound) :
      \E u \in find_upper_bound_index(kvs, upper.key, upper.bound, l[1]) :
        LET goto(label, m) ==
              /\ pc' = label
              /\ lower' = [lower EXCEPT !.node = m, !.idx = l[1], !.bound = l[2]]
              /\ upper' = [upper EXCEPT !.node = m, !.idx = u[1], !.bound = u[2]]
              /\ UNCHANGED <<front, back>>
        IN  CASE l[1] < u[1] -> goto("spanning", n)
              [] l[1] = u[1] /\ IsLeaf(heap, n) -> RangeFound(None, None)
              [] l[1] = u[1] /\ ~IsLeaf(heap, n) -> goto("bifurcation", descend(heap, n, l[1]))
              [] OTHER -> goto("aborted", n)
  BY DEF Bifurcation
<1>4. l[1] \in 0 .. Len(kvs) /\ l[2] \in SearchBound
  BY <1>1, <1>2, LowerIndex
<1>5. PICK u \in find_upper_bound_index(kvs, upper.key, upper.bound, l[1]) :
        LET goto(label, m) ==
              /\ pc' = label
              /\ lower' = [lower EXCEPT !.node = m, !.idx = l[1], !.bound = l[2]]
              /\ upper' = [upper EXCEPT !.node = m, !.idx = u[1], !.bound = u[2]]
              /\ UNCHANGED <<front, back>>
        IN  CASE l[1] < u[1] -> goto("spanning", n)
              [] l[1] = u[1] /\ IsLeaf(heap, n) -> RangeFound(None, None)
              [] l[1] = u[1] /\ ~IsLeaf(heap, n) -> goto("bifurcation", descend(heap, n, l[1]))
              [] OTHER -> goto("aborted", n)
  BY <1>3
<1>6. u[1] \in l[1] .. Len(kvs) /\ u[2] \in SearchBound
  BY <1>1, <1>2, <1>4, UpperIndex
<1>7. l[1] <= u[1] /\ u[1] \in 0 .. Len(kvs) /\ l[1] \in Int /\ u[1] \in Int
  BY <1>2, <1>4, <1>6
<1> HIDE DEF n, kvs
<1>8. CASE l[1] < u[1]
  <2>1. pc' = "spanning" /\ Moves(n, l, n, u)
    BY <1>5, <1>7, <1>8 DEF Moves, MoveTo
  <2>2. /\ IsSide(lower') /\ lower'.node = n /\ lower'.idx = l[1] /\ Placed(lower)'
        /\ IsSide(upper') /\ upper'.node = n /\ upper'.idx = u[1] /\ Placed(upper)'
    BY <1>1, <1>4, <1>6, <2>1, Moved
  <2>3. UpTo(heap, root, n, l[1]) < From(heap, root, n, u[1])
    BY <1>1, <1>2, <1>4, <1>7, <1>8, EdgeSpan DEF kvs
  <2>4. Apart'
    BY <1>1, <1>4, <1>7, <2>2, <2>3 DEF Apart, kvs
  <2> QED BY <1>1, <2>1, <2>2, <2>4 DEF RInv
<1>9. CASE l[1] = u[1] /\ IsLeaf(heap, n)
  <2>1. RangeFound(None, None)
    <3>1. ~(l[1] < u[1])
      BY <1>7, <1>9
    <3> QED BY <1>5, <1>9, <3>1
  <2>2. pc' = "range" /\ front' = None /\ back' = None /\ lower' = NoSide /\ upper' = NoSide /\ IsSide(NoSide)
    BY <2>1, SideParts DEF RangeFound, NoSide
  <2> QED BY <1>1, <2>2 DEF RInv
<1>10. CASE l[1] = u[1] /\ ~IsLeaf(heap, n)
  <2> DEFINE c == descend(heap, n, l[1])
  <2>1. pc' = "bifurcation" /\ Moves(c, l, c, u)
    <3>1. ~(l[1] < u[1])
      BY <1>7, <1>10
    <3> QED BY <1>5, <1>10, <3>1 DEF Moves, MoveTo
  <2>2. c \in DOMAIN heap
    BY <1>1, <1>2, <1>4, <1>10, EdgeSpan DEF kvs
  <2> HIDE DEF c
  <2>3. /\ IsSide(lower') /\ lower'.node = c /\ Placed(lower)'
        /\ IsSide(upper') /\ upper'.node = c /\ Placed(upper)'
    BY <1>1, <1>4, <1>6, <2>1, <2>2, Moved
  <2> QED BY <1>1, <2>1, <2>3 DEF RInv
<1>11. l[1] < u[1] \/ l[1] = u[1]
  BY <1>7
<1> QED BY <1>8, <1>9, <1>10, <1>11

\* What lies below the two edges stays apart on the way down.
LEMMA StepSpanningDescend ==
  ASSUME RInv, SpanningDescend
  PROVE  RInv'
<1> DEFINE f == descend(heap, lower.node, lower.idx)
           b == descend(heap, upper.node, upper.idx)
<1>1. /\ pc = "spanning" /\ UNCHANGED <<heap, root, length, pc, front, back, remaining, item>>
      /\ ~IsLeaf(heap, lower.node) /\ Apart /\ item = None
  BY DEF SpanningDescend, RInv, map
<1>2. PICK l \in find_lower_bound_index(heap[f].kv, lower.key, lower.bound) :
      \E u \in find_upper_bound_index(heap[b].kv, upper.key, upper.bound, 0) : Moves(f, l, b, u)
  BY DEF SpanningDescend, Moves, MoveTo
<1>3. PICK u \in find_upper_bound_index(heap[b].kv, upper.key, upper.bound, 0) : Moves(f, l, b, u)
  BY <1>2
<1>4. /\ root # Nil /\ lower.node \in DOMAIN heap /\ upper.node \in DOMAIN heap
      /\ lower.bound \in SearchBound /\ upper.bound \in SearchBound
      /\ lower.idx \in 0 .. Len(heap[lower.node].kv) /\ upper.idx \in 0 .. Len(heap[upper.node].kv)
      /\ heap[lower.node].height = heap[upper.node].height
      /\ UpTo(heap, root, lower.node, lower.idx) < From(heap, root, upper.node, upper.idx)
  BY <1>1 DEF Apart, Placed
<1>5. OneTree(heap, root) /\ ~IsLeaf(heap, upper.node)
  BY <1>1, <1>4, NodeKvs DEF IsLeaf
<1>6. f \in DOMAIN heap /\ heap[f].height = heap[lower.node].height - 1
  BY <1>1, <1>4, <1>5, EdgeSpan
<1>7. b \in DOMAIN heap /\ heap[b].height = heap[upper.node].height - 1
  BY <1>4, <1>5, EdgeSpan
<1>8. LastAt(heap, root, f) < FirstAt(heap, root, b)
  BY <1>1, <1>4, <1>5 DEF UpTo, From
<1> HIDE DEF f, b
<1>9. heap[f].kv \in Seq(KV) /\ heap[b].kv \in Seq(KV) /\ Len(heap[b].kv) \in Nat /\ 0 \in 0 .. Len(heap[b].kv)
  <2>1. heap[f].kv \in Seq(KV) /\ heap[b].kv \in Seq(KV) /\ Len(heap[b].kv) \in Nat
    BY <1>4, <1>6, <1>7, NodeKvs
  <2> QED BY <2>1
<1>10. l[1] \in 0 .. Len(heap[f].kv) /\ l[2] \in SearchBound
  BY <1>4, <1>9, LowerIndex
<1>11. u[1] \in 0 .. Len(heap[b].kv) /\ u[2] \in SearchBound
  BY <1>4, <1>9, UpperIndex
<1>12. /\ IsSide(lower') /\ lower'.node = f /\ lower'.idx = l[1] /\ Placed(lower)'
       /\ IsSide(upper') /\ upper'.node = b /\ upper'.idx = u[1] /\ Placed(upper)'
  BY <1>1, <1>3, <1>6, <1>7, <1>10, <1>11, Moved
<1>13. UpTo(heap, root, f, l[1]) < From(heap, root, b, u[1])
  <2>1. UpTo(heap, root, f, l[1]) \in Nat /\ UpTo(heap, root, f, l[1]) <= LastAt(heap, root, f)
    BY <1>5, <1>6, <1>10, EdgeSpan
  <2>2. From(heap, root, b, u[1]) \in Nat /\ FirstAt(heap, root, b) <= From(heap, root, b, u[1])
    BY <1>5, <1>7, <1>11, EdgeSpan
  <2>3. LastAt(heap, root, f) \in Nat /\ FirstAt(heap, root, b) \in Nat
    BY <1>5, <1>6, <1>7, NodeSpan
  <2> QED BY <1>8, <2>1, <2>2, <2>3
<1>14. Apart'
  BY <1>1, <1>4, <1>6, <1>7, <1>10, <1>11, <1>12, <1>13 DEF Apart
<1> QED BY <1>1, <1>12, <1>14 DEF RInv

\* The leaf edges that are found are in order.
LEMMA StepSpanningLeaf ==
  ASSUME RInv, SpanningLeaf
  PROVE  RInv' /\ front' # None
<1> DEFINE n == lower.node
           m == upper.node
           i == lower.idx
           j == upper.idx
           a == FirstAt(heap, root, n) + i
           b == FirstAt(heap, root, m) + j
           L == LeafEdges(heap, root)
<1>1. /\ pc = "spanning" /\ UNCHANGED <<heap, root, length, remaining, item>> /\ item = None
      /\ IsLeaf(heap, n) /\ Apart /\ pc' = "range" /\ lower' = NoSide /\ upper' = NoSide
      /\ front' = Some(Edge(Handle(n, i))) /\ back' = Some(Edge(Handle(m, j)))
  BY DEF SpanningLeaf, RInv, map, RangeFound
<1>2. /\ root # Nil /\ n \in DOMAIN heap /\ m \in DOMAIN heap
      /\ i \in 0 .. Len(heap[n].kv) /\ j \in 0 .. Len(heap[m].kv)
      /\ heap[n].height = heap[m].height
      /\ UpTo(heap, root, n, i) < From(heap, root, m, j)
  BY <1>1 DEF Apart, Placed
<1>3. OneTree(heap, root) /\ IsLeaf(heap, m)
  BY <1>1, <1>2, NodeKvs DEF IsLeaf
<1>4. a < b
  BY <1>1, <1>2, <1>3 DEF UpTo, From
<1>5. a \in Nat /\ L[a + 1] = Handle(n, i)
  BY <1>1, <1>2, <1>3, LeafSpot
<1>6. b \in Nat /\ L[b + 1] = Handle(m, j) /\ b <= LastAt(heap, root, m)
  BY <1>2, <1>3, LeafSpot
<1>7. LastAt(heap, root, m) \in Nat /\ LastAt(heap, root, m) <= Len(ElementsBelow(heap, root))
      /\ Len(ElementsBelow(heap, root)) \in Nat
  BY <1>2, <1>3, NodeSpan, RootOrdered DEF Ordered
<1> HIDE DEF a, b, n, m, i, j, L
<1>8. a <= b /\ b <= Len(ElementsBelow(heap, root))
  BY <1>4, <1>5, <1>6, <1>7
<1>9. /\ front' = Some(Edge(LeafEdges(heap', root')[a + 1]))
      /\ back' = Some(Edge(LeafEdges(heap', root')[b + 1]))
  BY <1>1, <1>5, <1>6 DEF L
<1>10. EndsAt(heap', root', front', back', a, b)
  BY <1>1, <1>5, <1>6, <1>8, <1>9 DEF EndsAt, AtFront, AtBack
<1>11. EndsHere(pc', heap', root', front', back', remaining', a, b)
  BY <1>1, <1>9, <1>10 DEF EndsHere
<1>12. Opened'
  BY <1>1, <1>2, <1>5, <1>6, <1>11 DEF Opened
<1>13. IsSide(NoSide)
  BY SideParts DEF NoSide
<1>14. front' # None
  BY <1>1 DEF Some, None
<1> QED BY <1>1, <1>12, <1>13, <1>14 DEF RInv

\* The next pair from the front, if the ends have not met: nothing is aborted.
LEMMA NextFound ==
  ASSUME RInv, pc \in {"iter", "range"}, front # None, NEW a \in Nat, NEW b \in Nat,
         EndsAt(heap, root, front, back, a, b), a # b, next_unchecked(init_front(heap, front[1])),
         UNCHANGED <<heap, root, back>>
  PROVE  /\ pc' = pc /\ item' = Some(ElementsBelow(heap, root)[a + 1]) /\ front' # None
         /\ front' = Some(Edge(LeafEdges(heap', root')[a + 1 + 1]))
         /\ EndsAt(heap', root', front', back', a + 1, b) /\ a < b /\ a + 1 \in Nat
<1>1. root # Nil /\ OneTree(heap, root)
  BY DEF RInv, Opened
<1> DEFINE kv == next_kv(heap, init_front(heap, front[1]))
<1>2. /\ kv # NoHandle /\ kv = ElementsBelow(heap, root)[a + 1]
      /\ EndsAt(heap, root, Some(Edge(next_leaf_edge(heap, kv))), back, a + 1, b)
      /\ Edge(next_leaf_edge(heap, kv)) = Edge(LeafEdges(heap, root)[a + 1 + 1])
      /\ a < b
  BY <1>1, FrontPasses
<1>3. front' = Some(Edge(next_leaf_edge(heap, kv))) /\ item' = Some(kv) /\ pc' = pc
  BY <1>2 DEF next_unchecked
<1> HIDE DEF kv
<1>4. front' # None
  BY <1>3 DEF Some, None
<1>5. EndsAt(heap', root', front', back', a + 1, b)
  BY <1>2, <1>3
<1>6. front' = Some(Edge(LeafEdges(heap', root')[a + 1 + 1]))
  BY <1>2, <1>3
<1>7. item' = Some(ElementsBelow(heap, root)[a + 1])
  BY <1>2, <1>3
<1> QED BY <1>2, <1>3, <1>4, <1>5, <1>6, <1>7

LEMMA NextBackFound ==
  ASSUME RInv, pc \in {"iter", "range"}, front # None, NEW a \in Nat, NEW b \in Nat,
         EndsAt(heap, root, front, back, a, b), a # b, next_back_unchecked(init_back(heap, back[1])),
         UNCHANGED <<heap, root, front>>
  PROVE  /\ pc' = pc /\ item' = Some(ElementsBelow(heap, root)[b])
         /\ back' = Some(Edge(LeafEdges(heap', root')[b - 1 + 1]))
         /\ EndsAt(heap', root', front', back', a, b - 1) /\ a < b /\ b - 1 \in Nat
<1>1. root # Nil /\ OneTree(heap, root)
  BY DEF RInv, Opened
<1> DEFINE kv == next_back_kv(heap, init_back(heap, back[1]))
<1>2. /\ kv # NoHandle /\ kv = ElementsBelow(heap, root)[b]
      /\ EndsAt(heap, root, front, Some(Edge(next_back_leaf_edge(heap, kv))), a, b - 1)
      /\ Edge(next_back_leaf_edge(heap, kv)) = Edge(LeafEdges(heap, root)[b - 1 + 1])
      /\ a < b /\ b - 1 \in Nat
  BY <1>1, BackPasses
<1>3. back' = Some(Edge(next_back_leaf_edge(heap, kv))) /\ item' = Some(kv) /\ pc' = pc
  BY <1>2 DEF next_back_unchecked
<1> HIDE DEF kv
<1>5. EndsAt(heap', root', front', back', a, b - 1)
  BY <1>2, <1>3
<1>6. back' = Some(Edge(LeafEdges(heap', root')[b - 1 + 1]))
  BY <1>2, <1>3
<1>7. item' = Some(ElementsBelow(heap, root)[b])
  BY <1>2, <1>3
<1> QED BY <1>2, <1>3, <1>5, <1>6, <1>7

\* The ends are where the invariant says; those of a Range have met when they
\* are the same edge.
LEMMA OpenEnds ==
  ASSUME RInv, pc \in {"iter", "range"}, front # None
  PROVE  /\ root # Nil /\ OneTree(heap, root)
         /\ \E b \in Nat : \E a \in Nat :
              /\ EndsHere(pc, heap, root, front, back, remaining, a, b)
              /\ EndsAt(heap, root, front, back, a, b) /\ a <= b
              /\ pc = "iter" => remaining = b - a
              /\ pc = "range" => (front = back <=> a = b)
<1>1. root # Nil /\ OneTree(heap, root)
  BY DEF RInv, Opened
<1>2. PICK b \in Nat : \E a \in Nat : EndsHere(pc, heap, root, front, back, remaining, a, b)
  BY DEF RInv, Opened
<1>3. PICK a \in Nat : EndsHere(pc, heap, root, front, back, remaining, a, b)
  BY <1>2
<1> DEFINE L == LeafEdges(heap, root)
           E == ElementsBelow(heap, root)
           N == Len(E)
<1>4. EndsAt(heap, root, front, back, a, b) /\ a <= b /\ b <= N
  BY <1>3 DEF EndsHere, EndsAt
<1>5. pc = "iter" => remaining = b - a
  BY <1>3 DEF EndsHere
<1>6. ASSUME pc = "range" PROVE front = back <=> a = b
  <2> DEFINE i == a + 1
             j == b + 1
  <2>1. front = Some(Edge(L[i])) /\ back = Some(Edge(L[j]))
    BY <1>3, <1>6 DEF EndsHere
  <2>2. Ordered(heap, E, L, N) /\ Nil \notin DOMAIN heap /\ N \in Nat
    BY <1>1, RootOrdered, GroveStepped DEF OneTree, Ordered
  <2>3. i \in 1 .. N + 1 /\ j \in 1 .. N + 1 /\ (i = j <=> a = b)
    BY <1>4, <2>2
  <2> HIDE DEF i, j, L, E, N
  <2>4. front = back => L[i] = L[j]
    BY <2>1 DEF Some, Edge
  <2>5. L[i] = L[j] => i = j
    BY <2>2, <2>3, EdgesDiffer
  <2> QED BY <2>1, <2>3, <2>4, <2>5
<1> QED BY <1>1, <1>3, <1>4, <1>5, <1>6

\* A call of next ends with the pair at the front end, or with none when the
\* ends have met.
LEMMA FrontCall ==
  ASSUME RInv, IterNext \/ RangeNext
  PROVE  \/ /\ item' = None /\ UNCHANGED <<heap, root, length, pc, lower, upper, front, back, remaining>>
            /\ pc \in {"iter", "range"}
            /\ front = None \/ \E a \in Nat : EndsAt(heap, root, front, back, a, a)
         \/ /\ front # None /\ front' # None /\ root # Nil /\ OneTree(heap, root)
            /\ pc \in {"iter", "range"} /\ UNCHANGED <<heap, root, length, pc, lower, upper, back>>
            /\ \E b \in Nat : \E a \in Nat :
                 /\ EndsAt(heap, root, front, back, a, b) /\ a < b /\ a + 1 \in Nat
                 /\ EndsHere(pc', heap', root', front', back', remaining', a + 1, b)
                 /\ item' = Some(ElementsBelow(heap, root)[a + 1])
<1>1. pc \in {"iter", "range"} /\ UNCHANGED <<heap, root, length, lower, upper, back>>
  BY DEF IterNext, RangeNext, map, search
<1>2. CASE front = None
  <2>1. CASE IterNext
    BY <1>1, <1>2, <2>1 DEF IterNext, RInv
  <2>2. CASE RangeNext
    BY <1>1, <1>2, <2>2 DEF RangeNext, RInv
  <2> QED BY <2>1, <2>2
<1>3. CASE front # None
  <2>1. root # Nil /\ OneTree(heap, root)
    BY <1>1, <1>3, OpenEnds
  <2>2. PICK b \in Nat : \E a \in Nat :
              /\ EndsHere(pc, heap, root, front, back, remaining, a, b)
              /\ EndsAt(heap, root, front, back, a, b) /\ a <= b
              /\ pc = "iter" => remaining = b - a
              /\ pc = "range" => (front = back <=> a = b)
    BY <1>1, <1>3, OpenEnds
  <2>3. PICK a \in Nat :
              /\ EndsHere(pc, heap, root, front, back, remaining, a, b)
              /\ EndsAt(heap, root, front, back, a, b) /\ a <= b
              /\ pc = "iter" => remaining = b - a
              /\ pc = "range" => (front = back <=> a = b)
    BY <2>2
  <2>4. CASE a = b
    <3>1. item' = None /\ UNCHANGED <<pc, front, remaining>>
      <4>1. CASE IterNext
        <5>1. remaining = 0
          BY <2>3, <2>4, <4>1 DEF IterNext
        <5> QED BY <4>1, <5>1 DEF IterNext
      <4>2. CASE RangeNext
        BY <2>3, <2>4, <4>2 DEF RangeNext
      <4> QED BY <4>1, <4>2
    <3> QED BY <1>1, <2>3, <2>4, <3>1
  <2>5. CASE a # b
    <3>1. next_unchecked(init_front(heap, front[1])) /\ (pc = "iter" => remaining' = remaining - 1)
      <4>1. CASE IterNext
        <5>1. remaining # 0
          BY <2>3, <2>5, <4>1 DEF IterNext
        <5> QED BY <4>1, <5>1 DEF IterNext
      <4>2. CASE RangeNext
        <5>1. pc = "range" /\ front # back
          BY <2>3, <2>5, <4>2 DEF RangeNext
        <5>2. init_front(heap, front[1]) = front[1].at
          BY <2>3, <5>1 DEF EndsHere, init_front, Some, Edge
        <5> QED BY <4>2, <5>1, <5>2 DEF RangeNext
      <4> QED BY <4>1, <4>2
    <3>2. /\ pc' = pc /\ item' = Some(ElementsBelow(heap, root)[a + 1]) /\ front' # None
          /\ front' = Some(Edge(LeafEdges(heap', root')[a + 1 + 1]))
          /\ EndsAt(heap', root', front', back', a + 1, b) /\ a < b /\ a + 1 \in Nat
      BY <1>1, <1>3, <2>3, <2>5, <3>1, NextFound
    <3>3. pc' = "range" => back' = Some(Edge(LeafEdges(heap', root')[b + 1]))
      BY <1>1, <2>3, <3>2 DEF EndsHere
    <3>4. pc' = "iter" => remaining' = b - (a + 1)
      BY <2>3, <3>1, <3>2
    <3>5. EndsHere(pc', heap', root', front', back', remaining', a + 1, b)
      BY <3>2, <3>3, <3>4 DEF EndsHere
    <3>6. \E b1 \in Nat : \E a1 \in Nat :
                 /\ EndsAt(heap, root, front, back, a1, b1) /\ a1 < b1 /\ a1 + 1 \in Nat
                 /\ EndsHere(pc', heap', root', front', back', remaining', a1 + 1, b1)
                 /\ item' = Some(ElementsBelow(heap, root)[a1 + 1])
      BY <2>3, <3>2, <3>5
    <3> QED BY <1>1, <1>3, <2>1, <3>2, <3>6
  <2> QED BY <2>4, <2>5
<1> QED BY <1>2, <1>3

LEMMA BackCall ==
  ASSUME RInv, IterNextBack \/ RangeNextBack
  PROVE  \/ /\ item' = None /\ UNCHANGED <<heap, root, length, pc, lower, upper, front, back, remaining>>
            /\ pc \in {"iter", "range"}
            /\ front = None \/ \E a \in Nat : EndsAt(heap, root, front, back, a, a)
         \/ /\ front # None /\ front' # None /\ root # Nil /\ OneTree(heap, root)
            /\ pc \in {"iter", "range"} /\ UNCHANGED <<heap, root, length, pc, lower, upper, front>>
            /\ \E b \in Nat : \E a \in Nat :
                 /\ EndsAt(heap, root, front, back, a, b) /\ a < b /\ b - 1 \in Nat
                 /\ EndsHere(pc', heap', root', front', back', remaining', a, b - 1)
                 /\ item' = Some(ElementsBelow(heap, root)[b])
<1>1. pc \in {"iter", "range"} /\ UNCHANGED <<heap, root, length, lower, upper, front>>
  BY DEF IterNextBack, RangeNextBack, map, search
<1>2. CASE front = None
  <2>1. CASE IterNextBack
    BY <1>1, <1>2, <2>1 DEF IterNextBack, RInv
  <2>2. CASE RangeNextBack
    BY <1>1, <1>2, <2>2 DEF RangeNextBack, RInv
  <2> QED BY <2>1, <2>2
<1>3. CASE front # None
  <2>1. root # Nil /\ OneTree(heap, root)
    BY <1>1, <1>3, OpenEnds
  <2>2. PICK b \in Nat : \E a \in Nat :
              /\ EndsHere(pc, heap, root, front, back, remaining, a, b)
              /\ EndsAt(heap, root, front, back, a, b) /\ a <= b
              /\ pc = "iter" => remaining = b - a
              /\ pc = "range" => (front = back <=> a = b)
    BY <1>1, <1>3, OpenEnds
  <2>3. PICK a \in Nat :
              /\ EndsHere(pc, heap, root, front, back, remaining, a, b)
              /\ EndsAt(heap, root, front, back, a, b) /\ a <= b
              /\ pc = "iter" => remaining = b - a
              /\ pc = "range" => (front = back <=> a = b)
    BY <2>2
  <2>4. CASE a = b
    <3>1. item' = None /\ UNCHANGED <<pc, back, remaining>>
      <4>1. CASE IterNextBack
        <5>1. remaining = 0
          BY <2>3, <2>4, <4>1 DEF IterNextBack
        <5> QED BY <4>1, <5>1 DEF IterNextBack
      <4>2. CASE RangeNextBack
        BY <2>3, <2>4, <4>2 DEF RangeNextBack
      <4> QED BY <4>1, <4>2
    <3> QED BY <1>1, <2>3, <2>4, <3>1
  <2>5. CASE a # b
    <3>1. next_back_unchecked(init_back(heap, back[1])) /\ (pc = "iter" => remaining' = remaining - 1)
      <4>1. CASE IterNextBack
        <5>1. remaining # 0
          BY <2>3, <2>5, <4>1 DEF IterNextBack
        <5> QED BY <4>1, <5>1 DEF IterNextBack
      <4>2. CASE RangeNextBack
        <5>1. pc = "range" /\ front # back
          BY <2>3, <2>5, <4>2 DEF RangeNextBack
        <5>2. init_back(heap, back[1]) = back[1].at
          BY <2>3, <5>1 DEF EndsHere, init_back, Some, Edge
        <5> QED BY <4>2, <5>1, <5>2 DEF RangeNextBack
      <4> QED BY <4>1, <4>2
    <3>2. /\ pc' = pc /\ item' = Some(ElementsBelow(heap, root)[b])
          /\ back' = Some(Edge(LeafEdges(heap', root')[b - 1 + 1]))
          /\ EndsAt(heap', root', front', back', a, b - 1) /\ a < b /\ b - 1 \in Nat
      BY <1>1, <1>3, <2>3, <2>5, <3>1, NextBackFound
    <3>3. pc' = "range" => front' = Some(Edge(LeafEdges(heap', root')[a + 1]))
      BY <1>1, <2>3, <3>2 DEF EndsHere
    <3>4. pc' = "iter" => remaining' = b - 1 - a
      BY <2>3, <3>1, <3>2
    <3>5. EndsHere(pc', heap', root', front', back', remaining', a, b - 1)
      BY <3>2, <3>3, <3>4 DEF EndsHere
    <3>6. \E b1 \in Nat : \E a1 \in Nat :
                 /\ EndsAt(heap, root, front, back, a1, b1) /\ a1 < b1 /\ b1 - 1 \in Nat
                 /\ EndsHere(pc', heap', root', front', back', remaining', a1, b1 - 1)
                 /\ item' = Some(ElementsBelow(heap, root)[b1])
      BY <2>3, <3>2, <3>5
    <3> QED BY <1>1, <1>3, <2>1, <3>2, <3>6
  <2> QED BY <2>4, <2>5
<1> QED BY <1>2, <1>3

LEMMA StepCall ==
  ASSUME RInv, IterNext \/ RangeNext \/ IterNextBack \/ RangeNextBack
  PROVE  RInv'
<1>1. CASE /\ item' = None /\ UNCHANGED <<heap, root, length, pc, lower, upper, front, back, remaining>>
           /\ pc \in {"iter", "range"}
  BY <1>1 DEF RInv, Opened
<1>2. ASSUME front' # None, root # Nil, pc \in {"iter", "range"}, UNCHANGED <<heap, root, length, pc, lower, upper>>,
             NEW a \in Nat, NEW b \in Nat, EndsHere(pc', heap', root', front', back', remaining', a, b)
      PROVE  RInv'
  <2>1. Opened'
    BY <1>2 DEF Opened
  <2> QED BY <1>2, <2>1 DEF RInv
<1>3. CASE IterNext \/ RangeNext
  <2>1. CASE ~(item' = None /\ UNCHANGED <<heap, root, length, pc, lower, upper, front, back, remaining>>
               /\ pc \in {"iter", "range"})
    <3>1. /\ front' # None /\ root # Nil
          /\ pc \in {"iter", "range"} /\ UNCHANGED <<heap, root, length, pc, lower, upper>>
          /\ \E b \in Nat : \E a \in Nat :
               a + 1 \in Nat /\ EndsHere(pc', heap', root', front', back', remaining', a + 1, b)
      BY <1>3, <2>1, FrontCall
    <3>2. PICK b \in Nat : \E a \in Nat :
               a + 1 \in Nat /\ EndsHere(pc', heap', root', front', back', remaining', a + 1, b)
      BY <3>1
    <3>3. PICK a \in Nat : a + 1 \in Nat /\ EndsHere(pc', heap', root', front', back', remaining', a + 1, b)
      BY <3>2
    <3> QED BY <1>2, <3>1, <3>3
  <2> QED BY <1>1, <2>1
<1>4. CASE IterNextBack \/ RangeNextBack
  <2>1. CASE ~(item' = None /\ UNCHANGED <<heap, root, length, pc, lower, upper, front, back, remaining>>
               /\ pc \in {"iter", "range"})
    <3>1. /\ front' # None /\ root # Nil
          /\ pc \in {"iter", "range"} /\ UNCHANGED <<heap, root, length, pc, lower, upper>>
          /\ \E b \in Nat : \E a \in Nat :
               b - 1 \in Nat /\ EndsHere(pc', heap', root', front', back', remaining', a, b - 1)
      BY <1>4, <2>1, BackCall
    <3>2. PICK b \in Nat : \E a \in Nat :
               b - 1 \in Nat /\ EndsHere(pc', heap', root', front', back', remaining', a, b - 1)
      BY <3>1
    <3>3. PICK a \in Nat : b - 1 \in Nat /\ EndsHere(pc', heap', root', front', back', remaining', a, b - 1)
      BY <3>2
    <3> QED BY <1>2, <3>1, <3>3
  <2> QED BY <1>1, <2>1
<1> QED BY <1>3, <1>4

LEMMA RInvariance == Spec => []RInv
<1>1. RInv /\ [Next]_vars => RInv'
  <2> SUFFICES ASSUME RInv, [Next]_vars PROVE RInv'
    OBVIOUS
  <2>1. CASE \E lb, ub \in SearchBound : \E l \in Asked(lb), u \in Asked(ub) : OpenRange(l, lb, u, ub)
    BY <2>1, StepRange
  <2>2. CASE CompPanics \/ DropIterator
    BY <2>2, IdleKeeps DEF CompPanics, DropIterator
  <2>3. CASE UNCHANGED vars
    BY <2>3 DEF vars, RInv, Opened, Apart, Placed
  <2>4. CASE SpanningLeaf
    BY <2>4, StepSpanningLeaf
  <2> QED BY <2>1, <2>2, <2>3, <2>4, StepIter, StepBifurcation, StepSpanningDescend, StepCall DEF Next
<1> QED BY <1>1, RInit, PTL DEF Spec

-----------------------------------------------------------------------------
(* What it comes to *)

LEMMA RestOpen ==
  ASSUME RInv, pc \in {"iter", "range"}, front # None, NEW a, NEW b, EndsAt(heap, root, front, back, a, b)
  PROVE  /\ Rest = SubSeq(ElementsBelow(heap, root), a + 1, b) /\ Len(Rest) = b - a
         /\ Before(heap, root, init_front(heap, front[1])) = a
         /\ Before(heap, root, init_back(heap, back[1])) = b
<1>1. root # Nil /\ OneTree(heap, root)
  BY OpenEnds
<1>2. /\ StretchIn(heap, root, front, back) = SubSeq(ElementsBelow(heap, root), a + 1, b)
      /\ Len(StretchIn(heap, root, front, back)) = b - a
      /\ Before(heap, root, init_front(heap, front[1])) = a
      /\ Before(heap, root, init_back(heap, back[1])) = b
  BY <1>1, StretchBetween
<1>3. Rest = StretchIn(heap, root, front, back)
  BY <1>1 DEF Rest, StretchIn, Elements
<1> QED BY <1>2, <1>3

\* Iter's count and its two ends always agree, and the ends of a Range are in
\* order, whatever the comparators have answered.
THEOREM EndsAlwaysAgree == Spec => []EndsAgree
<1>1. RInv => EndsAgree
  <2> SUFFICES ASSUME RInv PROVE EndsAgree
    OBVIOUS
  <2>1. pc # "aborted"
    BY DEF RInv
  <2>2. ASSUME pc = "iter" PROVE remaining = Len(Rest)
    <3>1. CASE front = None
      <4>1. Rest = <<>> /\ remaining = 0
        BY <2>2, <3>1 DEF Rest, RInv
      <4> QED BY <4>1
    <3>2. CASE front # None
      <4>1. \E b \in Nat : \E a \in Nat : EndsAt(heap, root, front, back, a, b) /\ remaining = b - a
        BY <2>2, <3>2, OpenEnds
      <4>2. PICK b \in Nat : \E a \in Nat : EndsAt(heap, root, front, back, a, b) /\ remaining = b - a
        BY <4>1
      <4>3. PICK a \in Nat : EndsAt(heap, root, front, back, a, b) /\ remaining = b - a
        BY <4>2
      <4> QED BY <2>2, <3>2, <4>3, RestOpen
    <3> QED BY <3>1, <3>2
  <2>3. ASSUME pc = "range", front # None
        PROVE  Before(heap, root, front[1].at) <= Before(heap, root, back[1].at)
    <3>1. \E b \in Nat : \E a \in Nat :
            /\ EndsHere(pc, heap, root, front, back, remaining, a, b)
            /\ EndsAt(heap, root, front, back, a, b) /\ a <= b
      BY <2>3, OpenEnds
    <3>2. PICK b \in Nat : \E a \in Nat :
            /\ EndsHere(pc, heap, root, front, back, remaining, a, b)
            /\ EndsAt(heap, root, front, back, a, b) /\ a <= b
      BY <3>1
    <3>3. PICK a \in Nat :
            /\ EndsHere(pc, heap, root, front, back, remaining, a, b)
            /\ EndsAt(heap, root, front, back, a, b) /\ a <= b
      BY <3>2
    <3>4. init_front(heap, front[1]) = front[1].at /\ init_back(heap, back[1]) = back[1].at
      BY <2>3, <3>3 DEF EndsHere, init_front, init_back, Some, Edge
    <3>5. /\ Before(heap, root, init_front(heap, front[1])) = a
          /\ Before(heap, root, init_back(heap, back[1])) = b
      BY <2>3, <3>3, RestOpen
    <3> QED BY <3>3, <3>4, <3>5
  <2> QED BY <2>1, <2>2, <2>3 DEF EndsAgree
<1> QED BY <1>1, RInvariance, PTL

\* The rest of an iterator after a step that leaves the map alone.
LEMMA RestOpenAfter ==
  ASSUME RInv', UNCHANGED <<heap, root>>, pc' \in {"iter", "range"}, front' # None, NEW a, NEW b,
         EndsAt(heap', root', front', back', a, b)
  PROVE  /\ Rest' = SubSeq(ElementsBelow(heap, root), a + 1, b) /\ root # Nil /\ OneTree(heap, root)
         /\ b \in Nat /\ a \in Nat /\ a <= b /\ b <= Len(ElementsBelow(heap, root))
<1>1. root # Nil /\ OneTree(heap, root)
  BY DEF RInv, Opened
<1>2. \A f, k : EndsAt(heap, root, f, k, a, b) =>
        StretchIn(heap, root, f, k) = SubSeq(ElementsBelow(heap, root), a + 1, b)
  BY <1>1, StretchBetween
<1>3. EndsAt(heap, root, front', back', a, b)
  OBVIOUS
<1>4. Rest' = StretchIn(heap, root, front', back')
  BY <1>1 DEF Rest, StretchIn, Elements
<1> QED BY <1>1, <1>2, <1>3, <1>4 DEF EndsAt

\* Both kinds of iterator hand out each element of a stretch of the map once, in
\* order from the front and in reverse from the back.
THEOREM IteratorImplemented == Spec => ImplementsIterator
<1>1. Init => Rest = <<>> /\ item = <<>>
  BY DEF Init, Rest, None
<1>2. RInv /\ RInv' /\ [Next]_vars => [Abstract!Next]_(Abstract!ivars)
  <2> SUFFICES ASSUME RInv, RInv', [Next]_vars PROVE Abstract!Next \/ UNCHANGED Abstract!ivars
    OBVIOUS
  <2> DEFINE E == Elements(heap, root)
             K == ElementsBelow(heap, root)
  <2>1. UNCHANGED <<heap, root>>
    BY DEF Next, vars, map, Iter, OpenRange, Bifurcation, SpanningDescend, SpanningLeaf, CompPanics,
           IterNext, IterNextBack, RangeNext, RangeNextBack, DropIterator
  <2>2. E' = E
    BY <2>1
  <2>3. UNCHANGED <<Rest, item>> => UNCHANGED Abstract!ivars
    BY <2>2 DEF Abstract!ivars
  <2>4. root # Nil => E = K /\ OneTree(heap, root) /\ K \in Seq(Spots(heap)) /\ Len(K) \in Nat
    BY RootOrdered DEF RInv, Elements, Ordered
  <2>5. pc \notin {"iter", "range"} => Rest = <<>> /\ item = <<>>
    BY DEF Rest, RInv, None
  <2>6. pc' \notin {"iter", "range"} => Rest' = <<>> /\ item' = <<>>
    BY DEF Rest, RInv, None
  <2>7. front' = None => Rest' = <<>>
    BY DEF Rest
  <2>8. ASSUME pc' \in {"iter", "range"}, pc \notin {"iter", "range"}, item' = item PROVE Abstract!Next \/ UNCHANGED Abstract!ivars
    <3>1. item' = <<>>
      BY <2>5, <2>8
    <3>2. CASE front' = None
      BY <2>3, <2>5, <2>7, <2>8, <3>2
    <3>3. CASE front' # None
      <4>1. \E b \in Nat : \E a \in Nat : EndsAt(heap', root', front', back', a, b)
        BY <2>8, <3>3 DEF RInv, Opened, EndsHere
      <4>2. PICK b \in Nat : \E a \in Nat : EndsAt(heap', root', front', back', a, b)
        BY <4>1
      <4>3. PICK a \in Nat : EndsAt(heap', root', front', back', a, b)
        BY <4>2
      <4>4. Rest' = SubSeq(K, a + 1, b) /\ root # Nil /\ a <= b /\ b <= Len(K)
        BY <2>1, <2>8, <3>3, <4>3, RestOpenAfter
      <4> HIDE DEF K, E
      <4>6. E = K /\ Len(K) \in Nat
        BY <2>4, <4>4
      <4> DEFINE x == a + 1
      <4>7. x \in 1 .. Len(K) + 1 /\ b \in 0 .. Len(K)
        BY <4>4, <4>6
      <4>8. Rest' = SubSeq(K, x, b)
        BY <4>4
      <4> HIDE DEF x
      <4>5. Rest' \in {SubSeq(E, i, j) : i \in 1 .. Len(E) + 1, j \in 0 .. Len(E)}
        BY <4>6, <4>7, <4>8
      <4> QED BY <2>2, <3>1, <4>5 DEF Abstract!Next, Abstract!Create, E
    <3> QED BY <3>2, <3>3
  <2>9. CASE Iter
    BY <2>8, <2>9 DEF Iter, map, search
  <2>10. CASE \E lb, ub \in SearchBound : \E l \in Asked(lb), u \in Asked(ub) : OpenRange(l, lb, u, ub)
    <3>1. pc = "idle" /\ item' = item /\ pc' \in {"range", "bifurcation"}
      BY <2>10 DEF OpenRange
    <3> QED BY <2>3, <2>5, <2>6, <2>8, <3>1
  <2>11. CASE Bifurcation
    <3>1. pc = "bifurcation" /\ item' = item
      BY <2>11 DEF Bifurcation
    <3> QED BY <2>3, <2>5, <2>6, <2>8, <3>1
  <2>12. CASE SpanningDescend
    <3>1. pc = "spanning" /\ item' = item
      BY <2>12 DEF SpanningDescend
    <3> QED BY <2>3, <2>5, <2>6, <2>8, <3>1
  <2>13. CASE SpanningLeaf
    <3>1. pc = "spanning" /\ item' = item
      BY <2>13 DEF SpanningLeaf
    <3> QED BY <2>3, <2>5, <2>6, <2>8, <3>1
  <2>14. CASE CompPanics
    <3>1. pc \notin {"iter", "range"} /\ pc' = "idle"
      BY <2>14 DEF CompPanics, Idle
    <3> QED BY <2>3, <2>5, <2>6, <3>1
  <2>15. CASE DropIterator
    <3>1. pc' = "idle"
      BY <2>15 DEF DropIterator, Idle
    <3> QED BY <2>2, <2>6, <3>1 DEF Abstract!Next, Abstract!Drop
  <2>16. ASSUME item' = None, pc \in {"iter", "range"},
                UNCHANGED <<heap, root, length, pc, lower, upper, front, back, remaining>>,
                front = None \/ \E a \in Nat : EndsAt(heap, root, front, back, a, a)
         PROVE  Abstract!Next
    <3>1. Rest' = Rest
      BY <2>16 DEF Rest
    <3>2. Rest = <<>>
      <4>1. CASE front = None
        BY <4>1 DEF Rest
      <4>2. CASE front # None
        <5>1. PICK a \in Nat : EndsAt(heap, root, front, back, a, a)
          BY <2>16, <4>2
        <5>2. Rest = SubSeq(K, a + 1, a)
          BY <2>16, <4>2, <5>1, RestOpen
        <5>3. a < a + 1
          OBVIOUS
        <5> QED BY <5>2, <5>3
      <4> QED BY <4>1, <4>2
    <3> QED BY <2>2, <2>16, <3>1, <3>2 DEF Abstract!Next, Abstract!Exhausted, None
  <2>17. CASE IterNext \/ RangeNext
    <3>1. CASE /\ item' = None /\ UNCHANGED <<heap, root, length, pc, lower, upper, front, back, remaining>>
               /\ pc \in {"iter", "range"}
               /\ front = None \/ \E a \in Nat : EndsAt(heap, root, front, back, a, a)
      BY <2>16, <3>1
    <3>2. CASE /\ front # None /\ front' # None /\ root # Nil
               /\ pc \in {"iter", "range"} /\ pc' = pc
               /\ \E b \in Nat : \E a \in Nat :
                    /\ EndsAt(heap, root, front, back, a, b) /\ a < b /\ a + 1 \in Nat
                    /\ EndsHere(pc', heap', root', front', back', remaining', a + 1, b)
                    /\ item' = Some(K[a + 1])
      <4>1. PICK b \in Nat : \E a \in Nat :
                    /\ EndsAt(heap, root, front, back, a, b) /\ a < b /\ a + 1 \in Nat
                    /\ EndsHere(pc', heap', root', front', back', remaining', a + 1, b)
                    /\ item' = Some(K[a + 1])
        BY <3>2
      <4>2. PICK a \in Nat :
                    /\ EndsAt(heap, root, front, back, a, b) /\ a < b /\ a + 1 \in Nat
                    /\ EndsHere(pc', heap', root', front', back', remaining', a + 1, b)
                    /\ item' = Some(K[a + 1])
        BY <4>1
      <4>3. Rest = SubSeq(K, a + 1, b)
        BY <3>2, <4>2, RestOpen
      <4>4. Rest' = SubSeq(K, a + 1 + 1, b) /\ b <= Len(K)
        <5>1. EndsAt(heap', root', front', back', a + 1, b)
          BY <4>2 DEF EndsHere
        <5> QED BY <2>1, <3>2, <5>1, RestOpenAfter
      <4>5. K \in Seq(Spots(heap))
        BY <2>4, <3>2
      <4> HIDE DEF K, E
      <4>6. Rest # <<>> /\ Head(Rest) = K[a + 1] /\ Tail(Rest) = Rest'
        BY <4>2, <4>3, <4>4, <4>5, StretchTaken, Zenon
      <4>7. Abstract!TakeFirst
        BY <4>2, <4>6 DEF Abstract!TakeFirst, Some
      <4> QED BY <2>2, <4>7 DEF Abstract!Next, E
    <3> QED BY <2>17, <3>1, <3>2, FrontCall
  <2>18. CASE IterNextBack \/ RangeNextBack
    <3>1. CASE /\ item' = None /\ UNCHANGED <<heap, root, length, pc, lower, upper, front, back, remaining>>
               /\ pc \in {"iter", "range"}
               /\ front = None \/ \E a \in Nat : EndsAt(heap, root, front, back, a, a)
      BY <2>16, <3>1
    <3>2. CASE /\ front # None /\ front' # None /\ root # Nil
               /\ pc \in {"iter", "range"} /\ pc' = pc
               /\ \E b \in Nat : \E a \in Nat :
                    /\ EndsAt(heap, root, front, back, a, b) /\ a < b /\ b - 1 \in Nat
                    /\ EndsHere(pc', heap', root', front', back', remaining', a, b - 1)
                    /\ item' = Some(K[b])
      <4>1. PICK b \in Nat : \E a \in Nat :
                    /\ EndsAt(heap, root, front, back, a, b) /\ a < b /\ b - 1 \in Nat
                    /\ EndsHere(pc', heap', root', front', back', remaining', a, b - 1)
                    /\ item' = Some(K[b])
        BY <3>2
      <4>2. PICK a \in Nat :
                    /\ EndsAt(heap, root, front, back, a, b) /\ a < b /\ b - 1 \in Nat
                    /\ EndsHere(pc', heap', root', front', back', remaining', a, b - 1)
                    /\ item' = Some(K[b])
        BY <4>1
      <4>3. Rest = SubSeq(K, a + 1, b) /\ b <= Len(K)
        BY <3>2, <4>2, RestOpen DEF EndsAt
      <4>4. Rest' = SubSeq(K, a + 1, b - 1)
        <5>1. EndsAt(heap', root', front', back', a, b - 1)
          BY <4>2 DEF EndsHere
        <5> QED BY <2>1, <3>2, <5>1, RestOpenAfter
      <4>5. K \in Seq(Spots(heap))
        BY <2>4, <3>2
      <4> HIDE DEF K, E
      <4>6. Rest # <<>> /\ Rest[Len(Rest)] = K[b] /\ SubSeq(Rest, 1, Len(Rest) - 1) = Rest'
        BY <4>2, <4>3, <4>4, <4>5, StretchTaken, Zenon
      <4>7. Abstract!TakeLast
        BY <4>2, <4>6 DEF Abstract!TakeLast, Some
      <4> QED BY <2>2, <4>7 DEF Abstract!Next, E
    <3> QED BY <2>18, <3>1, <3>2, BackCall
  <2>19. CASE UNCHANGED vars
    BY <2>3, <2>19 DEF vars, Rest
  <2> HIDE DEF E, K
  <2> QED BY <2>9, <2>10, <2>11, <2>12, <2>13, <2>14, <2>15, <2>17, <2>18, <2>19 DEF Next
<1> QED BY <1>1, <1>2, RInvariance, PTL DEF Spec, ImplementsIterator, Abstract!Spec, Abstract!Init
=============================================================================
