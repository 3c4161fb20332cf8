-------------------------- MODULE BTreeNavigateProofs --------------------------
(***************************************************************************)
(* What every other proof stands on: the nodes of a tree and the walks     *)
(* through it, for every branching factor B and every set of keys, values  *)
(* and nodes.                                                              *)
(*                                                                         *)
(* First, what the operations of BTreeNode do to a well-formed heap.  Each *)
(* operation of node.rs that moves edges has a lemma of the same form:     *)
(* from WellFormed it concludes WellFormed again (arity, links both ways,  *)
(* heights) and how the lengths of the touched nodes change.  The hard     *)
(* part is common to all of them: while edges move, some parent links are  *)
(* stale until correct_childrens_parent_links has run, so Skeleton states  *)
(* what holds without the links and LinkOK one link at a time.  A          *)
(* conclusion is one named predicate (Inserted, Halved, Merged, ...) so    *)
(* that the proofs about the map can carry it along unexpanded.            *)
(*                                                                         *)
(* Then, the walks of BTreeNavigate: they come to an end, at an edge of a  *)
(* leaf or at a pair of the tree.  What is on the right border of a tree,  *)
(* where a walk along last edges goes, and what merges and steals do to    *)
(* it.                                                                     *)
(***************************************************************************)
EXTENDS BTreeNavigate, SequenceTheorems, FiniteSetTheorems, TLAPS

\* What concatenation and the slice helpers return, position by position.
IsInsert(t, s, i, x) ==
  /\ Len(t) = Len(s) + 1
  /\ \A j \in 1 .. Len(s) + 1 : /\ j <= i => t[j] = s[j]
                                /\ j = i + 1 => t[j] = x
                                /\ j > i + 1 => t[j] = s[j - 1]

IsConcat(t, s, u) ==
  /\ Len(t) = Len(s) + Len(u)
  /\ \A j \in 1 .. Len(s) + Len(u) : /\ j <= Len(s) => t[j] = s[j]
                                     /\ j > Len(s) => t[j] = u[j - Len(s)]

IsRemove(t, s, i) ==
  /\ Len(t) = Len(s) - 1
  /\ \A j \in 1 .. Len(s) - 1 : /\ j <= i => t[j] = s[j]
                                /\ j > i => t[j] = s[j + 1]

\* What a slice of the key, value and edge arrays (node.rs ranges a..b) holds.
LEMMA CutProps ==
  ASSUME NEW S, NEW s \in Seq(S), NEW a \in Nat, NEW b \in Nat,
         1 <= a, a <= b + 1, b <= Len(s)
  PROVE  /\ SubSeq(s, a, b) \in Seq(S)
         /\ Len(SubSeq(s, a, b)) = b - a + 1
         /\ \A j \in 1 .. b - a + 1 : SubSeq(s, a, b)[j] = s[a + j - 1]
  OBVIOUS

\* What two slices moved next to each other hold.
LEMMA ConcatProps ==
  ASSUME NEW S, NEW s \in Seq(S), NEW t \in Seq(S)
  PROVE  s \o t \in Seq(S) /\ IsConcat(s \o t, s, t)
  BY DEF IsConcat

\* slice_insert of node.rs: the elements from idx on move up by one and the
\* new one is at idx.
LEMMA SliceInsertProps ==
  ASSUME NEW S, NEW s \in Seq(S), NEW x \in S, NEW i \in 0 .. Len(s)
  PROVE  slice_insert(s, i, x) \in Seq(S) /\ IsInsert(slice_insert(s, i, x), s, i, x)
<1> DEFINE a == SubSeq(s, 1, i)
           b == SubSeq(s, i + 1, Len(s))
           y == <<x>>
           c == a \o y
<1>1. /\ a \in Seq(S) /\ Len(a) = i /\ \A j \in 1 .. i : a[j] = s[j]
  BY CutProps
<1>2. /\ b \in Seq(S) /\ Len(b) = Len(s) - i
      /\ \A j \in 1 .. Len(s) - i : b[j] = s[i + j]
  BY CutProps
<1>3. y \in Seq(S) /\ Len(y) = 1 /\ y[1] = x
  OBVIOUS
<1>4. slice_insert(s, i, x) = c \o b
  BY DEF slice_insert
<1> HIDE DEF a, b, y
<1>5. /\ c \in Seq(S) /\ Len(c) = i + 1
      /\ \A j \in 1 .. i + 1 : /\ j <= i => c[j] = a[j]
                               /\ j > i => c[j] = y[j - i]
  <2>1. /\ c \in Seq(S) /\ Len(c) = Len(a) + Len(y)
        /\ \A j \in 1 .. Len(a) + Len(y) : /\ j <= Len(a) => c[j] = a[j]
                                           /\ j > Len(a) => c[j] = y[j - Len(a)]
    <3> HIDE DEF c
    <3>1. a \in Seq(S) /\ y \in Seq(S) /\ c = a \o y
      BY <1>1, <1>3 DEF c
    <3> QED BY ONLY <3>1, ConcatProps DEF IsConcat
  <2>2. Len(a) = i /\ Len(y) = 1
    BY <1>1, <1>3
  <2> HIDE DEF c
  <2> QED BY <2>1, <2>2
<1> HIDE DEF c
<1>6. /\ c \o b \in Seq(S) /\ Len(c \o b) = Len(s) + 1
      /\ \A j \in 1 .. Len(s) + 1 : /\ j <= i + 1 => (c \o b)[j] = c[j]
                                    /\ j > i + 1 => (c \o b)[j] = b[j - (i + 1)]
  <2>1. c \o b \in Seq(S) /\ IsConcat(c \o b, c, b)
    BY <1>2, <1>5, ConcatProps
  <2>2. Len(c) = i + 1 /\ Len(c) + Len(b) = Len(s) + 1
    BY <1>2, <1>5
  <2> QED BY <2>1, <2>2 DEF IsConcat
<1>7. \A j \in 1 .. i + 1 : (j <= i => c[j] = s[j]) /\ (j = i + 1 => c[j] = x)
  BY <1>1, <1>3, <1>5
<1>8. \A j \in i + 2 .. Len(s) + 1 : b[j - (i + 1)] = s[j - 1]
  <2> SUFFICES ASSUME NEW j \in i + 2 .. Len(s) + 1 PROVE b[j - (i + 1)] = s[j - 1]
    OBVIOUS
  <2>1. j - (i + 1) \in 1 .. Len(s) - i /\ i + (j - (i + 1)) = j - 1
    OBVIOUS
  <2> QED BY <1>2, <2>1
<1> QED BY <1>4, <1>6, <1>7, <1>8 DEF IsInsert

\* slice_remove of node.rs: the elements after idx move down by one.
LEMMA SliceRemoveProps ==
  ASSUME NEW S, NEW s \in Seq(S), NEW i \in 0 .. Len(s) - 1
  PROVE  slice_remove(s, i) \in Seq(S) /\ IsRemove(slice_remove(s, i), s, i)
<1> DEFINE a == SubSeq(s, 1, i)
           b == SubSeq(s, i + 2, Len(s))
<1>1. /\ a \in Seq(S) /\ Len(a) = i /\ \A j \in 1 .. i : a[j] = s[j]
  BY CutProps
<1>2. /\ b \in Seq(S) /\ Len(b) = Len(s) - i - 1
      /\ \A j \in 1 .. Len(s) - i - 1 : b[j] = s[i + 1 + j]
  BY CutProps
<1>3. slice_remove(s, i) = a \o b
  BY DEF slice_remove
<1> HIDE DEF a, b
<1>4. /\ a \o b \in Seq(S) /\ Len(a \o b) = Len(s) - 1
      /\ \A j \in 1 .. Len(s) - 1 : /\ j <= i => (a \o b)[j] = a[j]
                                    /\ j > i => (a \o b)[j] = b[j - i]
  <2>1. /\ a \o b \in Seq(S) /\ Len(a \o b) = Len(a) + Len(b)
        /\ \A j \in 1 .. Len(a) + Len(b) : /\ j <= Len(a) => (a \o b)[j] = a[j]
                                           /\ j > Len(a) => (a \o b)[j] = b[j - Len(a)]
    <3>1. a \in Seq(S) /\ b \in Seq(S)
      BY <1>1, <1>2
    <3> QED BY ONLY <3>1, ConcatProps DEF IsConcat
  <2>2. Len(a) = i /\ Len(a) + Len(b) = Len(s) - 1
    BY <1>1, <1>2
  <2> QED BY <2>1, <2>2
<1>5. \A j \in i + 1 .. Len(s) - 1 : b[j - i] = s[j + 1]
  <2> SUFFICES ASSUME NEW j \in i + 1 .. Len(s) - 1 PROVE b[j - i] = s[j + 1]
    OBVIOUS
  <2>1. j - i \in 1 .. Len(s) - i - 1 /\ i + 1 + (j - i) = j + 1
    OBVIOUS
  <2> QED BY <1>2, <2>1
<1> DEFINE t == a \o b
<1>6. t \in Seq(S) /\ Len(t) = Len(s) - 1
  BY <1>4
<1>7. ASSUME NEW j \in 1 .. Len(s) - 1
      PROVE  (j <= i => t[j] = s[j]) /\ (j > i => t[j] = s[j + 1])
  <2>1. CASE j <= i
    <3>1. j \in 1 .. i /\ t[j] = a[j]
      BY <1>4, <2>1
    <3> QED BY <1>1, <2>1, <3>1
  <2>2. CASE j > i
    <3>1. j \in i + 1 .. Len(s) - 1 /\ t[j] = b[j - i]
      BY <1>4, <2>2
    <3> QED BY <1>5, <2>2, <3>1
  <2> QED BY <2>1, <2>2
<1> HIDE DEF t
<1>8. IsRemove(t, s, i)
  BY <1>6, <1>7 DEF IsRemove
<1>9. slice_remove(s, i) = t
  BY <1>3 DEF t
<1> QED BY <1>6, <1>8, <1>9

\* A full node can be cut into two with the minimum and a pair between them.
LEMMA Minimum ==
  /\ CAPACITY \in Nat /\ MIN_LEN \in Nat /\ MIN_LEN >= 1 /\ CAPACITY >= 2 * MIN_LEN + 1
  /\ CAPACITY >= MIN_LEN
BY BAssumption DEF CAPACITY, MIN_LEN, MIN_LEN_AFTER_SPLIT

\* set_parent_link writes the parent and the index and nothing else.
LEMMA SetParentLinkProps ==
  ASSUME NEW r \in Node, NEW n \in NodeId, NEW i \in Nat
  PROVE  LET q == set_parent_link(r, n, i)
         IN  /\ q \in Node
             /\ q.kv = r.kv /\ q.edges = r.edges /\ q.height = r.height
             /\ q.parent = n /\ q.parent_idx = i
  BY DEF Node, set_parent_link

\* g is h with the parent links of the children at edges lo .. hi-1 of n corrected.
Relinked(g, h, n, lo, hi) ==
  /\ DOMAIN g = DOMAIN h
  /\ HeapType(g)
  /\ \A m \in DOMAIN h : /\ g[m].kv = h[m].kv
                         /\ g[m].edges = h[m].edges
                         /\ g[m].height = h[m].height
  /\ \A i \in lo .. hi - 1 : descend(h, n, i) \in DOMAIN h =>
       /\ g[descend(h, n, i)].parent = n
       /\ g[descend(h, n, i)].parent_idx = i
  /\ \A m \in DOMAIN h :
       (\A i \in lo .. hi - 1 : descend(h, n, i) # m) => g[m] = h[m]

\* correct_childrens_parent_links sets the links of the children in the range
\* it is given and leaves every other node alone.
LEMMA CorrectLinksProps ==
  ASSUME NEW h, HeapType(h), NEW n \in DOMAIN h, NEW lo \in Nat, NEW hi \in Nat,
         hi <= Len(h[n].edges),
         \A i, j \in lo .. hi - 1 : descend(h, n, i) = descend(h, n, j) => i = j
  PROVE  Relinked(correct_childrens_parent_links(h, n, lo, hi), h, n, lo, hi)
<1> DEFINE g == correct_childrens_parent_links(h, n, lo, hi)
           D(m) == \E i \in lo .. hi - 1 : descend(h, n, i) = m
           I(m) == CHOOSE i \in lo .. hi - 1 : descend(h, n, i) = m
<1>1. DOMAIN g = DOMAIN h
  BY DEF correct_childrens_parent_links
<1>2. \A m \in DOMAIN h : g[m] = IF D(m) THEN set_parent_link(h[m], n, I(m))
                                 ELSE h[m]
  BY DEF correct_childrens_parent_links
<1>3. \A m : D(m) => I(m) \in lo .. hi - 1 /\ descend(h, n, I(m)) = m
  OBVIOUS
<1>4. \A m \in DOMAIN h : h[m] \in Node /\ n \in NodeId
  BY DEF HeapType
<1> HIDE DEF g, I
<1>5. \A m \in DOMAIN h : /\ g[m] \in Node
                          /\ g[m].kv = h[m].kv /\ g[m].edges = h[m].edges
                          /\ g[m].height = h[m].height
                          /\ D(m) => g[m].parent = n /\ g[m].parent_idx = I(m)
                          /\ ~D(m) => g[m] = h[m]
  <2> SUFFICES ASSUME NEW m \in DOMAIN h
               PROVE  /\ g[m] \in Node
                      /\ g[m].kv = h[m].kv /\ g[m].edges = h[m].edges
                      /\ g[m].height = h[m].height
                      /\ D(m) => g[m].parent = n /\ g[m].parent_idx = I(m)
                      /\ ~D(m) => g[m] = h[m]
    OBVIOUS
  <2>1. CASE D(m)
    <3>1. g[m] = set_parent_link(h[m], n, I(m))
      BY <1>2, <2>1
    <3>2. I(m) \in Nat /\ h[m] \in Node /\ n \in NodeId
      BY <1>3, <1>4, <2>1
    <3> HIDE DEF D
    <3> QED BY <2>1, <3>1, <3>2, SetParentLinkProps
  <2>2. CASE ~D(m)
    BY <1>2, <1>4, <2>2
  <2> QED BY <2>1, <2>2
<1>6. HeapType(g)
  <2>1. g = [m \in DOMAIN g |-> g[m]]
    BY DEF g, correct_childrens_parent_links
  <2> QED BY <1>1, <1>5, <2>1 DEF HeapType
<1>7. \A i \in lo .. hi - 1 : descend(h, n, i) \in DOMAIN h =>
                  /\ g[descend(h, n, i)].parent = n
                  /\ g[descend(h, n, i)].parent_idx = i
  BY <1>3, <1>5
<1> QED BY <1>1, <1>5, <1>6, <1>7 DEF g, Relinked

\* The fields of a LeafNode or InternalNode.
LEMMA RecordProps ==
  ASSUME NEW r \in Node
  PROVE  /\ r.kv \in Seq(KV) /\ r.edges \in Seq(NodeId) /\ r.height \in Nat
         /\ r.parent \in NodeId \cup {Nil} /\ r.parent_idx \in Nat
         /\ Len(r.kv) \in Nat /\ Len(r.edges) \in Nat
  BY DEF Node

\* Writing the pairs of a node leaves its edges and its parent link.
LEMMA WithKVProps ==
  ASSUME NEW r \in Node, NEW s \in Seq(KV)
  PROVE  LET q == WithKV(r, s)
         IN  /\ q \in Node /\ q.kv = s /\ q.edges = r.edges /\ q.height = r.height
             /\ q.parent = r.parent /\ q.parent_idx = r.parent_idx
  BY DEF Node, WithKV

\* Writing the pairs and edges of a node leaves its height and its parent link.
LEMMA WithDataProps ==
  ASSUME NEW r \in Node, NEW s \in Seq(KV), NEW e \in Seq(NodeId)
  PROVE  LET q == WithData(r, s, e)
         IN  /\ q \in Node /\ q.kv = s /\ q.edges = e /\ q.height = r.height
             /\ q.parent = r.parent /\ q.parent_idx = r.parent_idx
  BY DEF Node, WithData

\* clear_parent_link clears the parent and nothing else.
LEMMA ClearParentLinkProps ==
  ASSUME NEW r \in Node
  PROVE  LET q == clear_parent_link(r)
         IN  /\ q \in Node /\ q.kv = r.kv /\ q.edges = r.edges /\ q.height = r.height
             /\ q.parent = Nil /\ q.parent_idx = r.parent_idx
  BY DEF Node, clear_parent_link

\* replace_kv overwrites a pair: lengths, edges and links stay.
LEMMA ReplaceKvProps ==
  ASSUME NEW r \in Node, NEW idx \in 0 .. Len(r.kv) - 1, NEW x \in KV
  PROVE  LET q == replace_kv(r, idx, x)
         IN  /\ q \in Node /\ Len(q.kv) = Len(r.kv) /\ q.edges = r.edges
             /\ q.height = r.height /\ q.parent = r.parent /\ q.parent_idx = r.parent_idx
<1> DEFINE s == [r.kv EXCEPT ![idx + 1] = x]
<1>1. s \in Seq(KV) /\ Len(s) = Len(r.kv)
  <2>1. r.kv \in Seq(KV) /\ idx + 1 \in 1 .. Len(r.kv)
    BY RecordProps
  <2> QED BY <2>1, ExceptSeq
<1> HIDE DEF s
<1> QED BY <1>1, WithKVProps DEF replace_kv, s

\* A child has one parent and one index there: no two edges lead to the same
\* node, or the parent link descend relies on could not match both.
LEMMA UniqueEdge ==
  ASSUME NEW h, EdgesLinked(h), NEW n \in DOMAIN h, NEW m \in DOMAIN h,
         NEW i \in 1 .. Len(h[n].edges), NEW j \in 1 .. Len(h[m].edges),
         h[n].edges[i] = h[m].edges[j]
  PROVE  n = m /\ i = j
<1> DEFINE c == h[n].edges[i]
<1>1. h[c].parent = n /\ h[c].parent_idx = i - 1
  BY DEF EdgesLinked
<1>2. h[c].parent = m /\ h[c].parent_idx = j - 1
  BY DEF EdgesLinked
<1> HIDE DEF c
<1>3. i \in Int /\ j \in Int
  OBVIOUS
<1> QED BY ONLY <1>1, <1>2, <1>3

\* A step that changes no link and no height, and the number of pairs of
\* leaves at most, keeps the heap well-formed.
LEMMA KvOnly ==
  ASSUME NEW h, NEW tops, WellFormed(h, tops), NEW g, HeapType(g), DOMAIN g = DOMAIN h,
         \A m \in DOMAIN h : /\ g[m].edges = h[m].edges /\ g[m].height = h[m].height
                             /\ g[m].parent = h[m].parent
                             /\ g[m].parent_idx = h[m].parent_idx
                             /\ h[m].height = 0 \/ Len(g[m].kv) = Len(h[m].kv)
  PROVE  WellFormed(g, tops)
<1>3. EdgesLinked(g)
  BY DEF WellFormed, EdgesLinked
<1>4. ParentsLinked(g, tops)
  BY DEF WellFormed, ParentsLinked, descend
<1>5. Levelled(g)
  <2> SUFFICES ASSUME NEW m \in DOMAIN h
               PROVE  /\ Len(g[m].edges) = IF g[m].height = 0 THEN 0 ELSE Len(g[m].kv) + 1
                      /\ \A i \in 1 .. Len(g[m].edges) : g[g[m].edges[i]].height = g[m].height - 1
    BY DEF Levelled, IsLeaf, len
  <2>1. \A i \in 1 .. Len(h[m].edges) : h[m].edges[i] \in DOMAIN h
    BY DEF WellFormed, EdgesLinked
  <2>2. /\ Len(h[m].edges) = IF h[m].height = 0 THEN 0 ELSE Len(h[m].kv) + 1
        /\ \A i \in 1 .. Len(h[m].edges) : h[h[m].edges[i]].height = h[m].height - 1
    BY DEF WellFormed, Levelled, IsLeaf, len
  <2>3. /\ g[m].edges = h[m].edges /\ g[m].height = h[m].height
        /\ g[m].height = 0 \/ Len(g[m].kv) = Len(h[m].kv)
    OBVIOUS
  <2>4. Len(g[m].edges) = IF g[m].height = 0 THEN 0 ELSE Len(g[m].kv) + 1
    BY <2>2, <2>3
  <2>5. \A i \in 1 .. Len(g[m].edges) : g[g[m].edges[i]].height = g[m].height - 1
    BY <2>1, <2>2, <2>3
  <2> QED BY <2>4, <2>5
<1> QED BY <1>3, <1>4, <1>5 DEF WellFormed

\* The same for one node with new pairs.
LEMMA SameLinks ==
  ASSUME NEW h, NEW tops, WellFormed(h, tops), NEW n \in DOMAIN h, NEW r \in Node,
         r.edges = h[n].edges, r.height = h[n].height, r.parent = h[n].parent,
         r.parent_idx = h[n].parent_idx, h[n].height = 0 \/ Len(r.kv) = Len(h[n].kv)
  PROVE  LET g == [h EXCEPT ![n] = r]
         IN  /\ DOMAIN g = DOMAIN h /\ WellFormed(g, tops)
             /\ g[n] = r /\ \A m \in DOMAIN h : m # n => g[m] = h[m]
<1> DEFINE g == [h EXCEPT ![n] = r]
<1>1. DOMAIN g = DOMAIN h /\ HeapType(g) /\ g[n] = r
      /\ \A m \in DOMAIN h : m # n => g[m] = h[m]
  BY DEF WellFormed, HeapType
<1> HIDE DEF g
<1>2. \A m \in DOMAIN h : /\ g[m].edges = h[m].edges /\ g[m].height = h[m].height
                          /\ g[m].parent = h[m].parent /\ g[m].parent_idx = h[m].parent_idx
                          /\ h[m].height = 0 \/ Len(g[m].kv) = Len(h[m].kv)
  BY <1>1
<1>3. WellFormed(g, tops)
  BY <1>1, <1>2, KvOnly
<1> QED BY <1>1, <1>3 DEF g

-----------------------------------------------------------------------------
LinkOK(k, n, i) ==
  k[k[n].edges[i]].parent = n /\ k[k[n].edges[i]].parent_idx = i - 1

\* The children of live nodes are live and one lower.
Down(k, L) ==
  \A n \in L : \A i \in 1 .. Len(k[n].edges) :
    k[n].edges[i] \in L /\ k[k[n].edges[i]].height = k[n].height - 1

\* No two edges lead to the same node.
Unique(k, L) ==
  \A n, m \in L : \A i \in 1 .. Len(k[n].edges), j \in 1 .. Len(k[m].edges) :
    k[n].edges[i] = k[m].edges[j] => n = m /\ i = j

\* Leaves have no edges, other nodes one more than pairs.
Arity(k, L) ==
  \A n \in L : /\ k[n].height = 0 => Len(k[n].edges) = 0
               /\ k[n].height # 0 => Len(k[n].edges) = Len(k[n].kv) + 1

\* Top nodes have no parent, and no edge leads to them.
TopsFree(k, L, tops) ==
  \A n \in L \cap tops :
    /\ k[n].parent = Nil
    /\ \A m \in L : \A i \in 1 .. Len(k[m].edges) : k[m].edges[i] # n

\* An edge leads to every other node.
Covered(k, L, tops) ==
  \A n \in L \ tops : \E m \in L : \E i \in 1 .. Len(k[m].edges) : k[m].edges[i] = n

\* Everything that well-formedness asks of the live nodes L, the parent links of
\* children excepted.
Skeleton(k, L, tops) ==
  /\ HeapType(k) /\ L \subseteq DOMAIN k
  /\ Down(k, L) /\ Unique(k, L) /\ Arity(k, L)
  /\ TopsFree(k, L, tops) /\ Covered(k, L, tops)

\* The types of the fields of an allocated node.
LEMMA HeapNode ==
  ASSUME NEW h, HeapType(h), NEW n \in DOMAIN h
  PROVE  /\ n \in NodeId /\ n # Nil /\ h[n] \in Node
         /\ h[n].kv \in Seq(KV) /\ h[n].edges \in Seq(NodeId) /\ h[n].height \in Nat
         /\ h[n].parent \in NodeId \cup {Nil} /\ h[n].parent_idx \in Nat
         /\ Len(h[n].kv) \in Nat /\ Len(h[n].edges) \in Nat
<1>1. n \in NodeId /\ h[n] \in Node
  BY DEF HeapType
<1> QED BY <1>1, RecordProps, NilAssumption

\* What a well-formed tree gives for one node: an internal node has an edge
\* more than pairs, its children point back to it, and ascend undoes descend.
LEMMA WellFormedFacts ==
  ASSUME NEW h, NEW tops, WellFormed(h, tops), NEW n \in DOMAIN h
  PROVE  /\ h[n].height = 0 => Len(h[n].edges) = 0
         /\ h[n].height # 0 => Len(h[n].edges) = Len(h[n].kv) + 1
         /\ \A i \in 1 .. Len(h[n].edges) :
              /\ h[n].edges[i] \in DOMAIN h
              /\ h[h[n].edges[i]].height = h[n].height - 1
              /\ h[h[n].edges[i]].parent = n
              /\ h[h[n].edges[i]].parent_idx = i - 1
         /\ n \in tops => h[n].parent = Nil
         /\ n \notin tops => /\ h[n].parent \in DOMAIN h
                             /\ h[n].parent_idx + 1 \in 1 .. Len(h[h[n].parent].edges)
                             /\ h[h[n].parent].edges[h[n].parent_idx + 1] = n
                             /\ h[h[n].parent].height = h[n].height + 1
<1>1. /\ Len(h[n].edges) = IF h[n].height = 0 THEN 0 ELSE Len(h[n].kv) + 1
      /\ \A i \in 1 .. Len(h[n].edges) : h[h[n].edges[i]].height = h[n].height - 1
  BY DEF WellFormed, Levelled, IsLeaf, len
<1>2. \A i \in 1 .. Len(h[n].edges) :
              /\ h[n].edges[i] \in DOMAIN h
              /\ h[h[n].edges[i]].parent = n
              /\ h[h[n].edges[i]].parent_idx = i - 1
  BY DEF WellFormed, EdgesLinked
<1>3. n \in tops => h[n].parent = Nil
  BY DEF WellFormed, ParentsLinked
<1>4. ASSUME n \notin tops
      PROVE  /\ h[n].parent \in DOMAIN h
             /\ h[n].parent_idx + 1 \in 1 .. Len(h[h[n].parent].edges)
             /\ h[h[n].parent].edges[h[n].parent_idx + 1] = n
             /\ h[h[n].parent].height = h[n].height + 1
  <2>1. /\ h[n].parent \in DOMAIN h
        /\ h[n].parent_idx < Len(h[h[n].parent].edges)
        /\ h[h[n].parent].edges[h[n].parent_idx + 1] = n
    BY <1>4 DEF WellFormed, ParentsLinked, descend
  <2>2. h[n].parent_idx \in Nat /\ Len(h[h[n].parent].edges) \in Nat /\ h[n].height \in Nat
        /\ h[h[n].parent].height \in Nat
    BY <2>1, HeapNode DEF WellFormed
  <2>3. h[n].parent_idx + 1 \in 1 .. Len(h[h[n].parent].edges)
    BY <2>1, <2>2
  <2>4. h[n].height = h[h[n].parent].height - 1
    BY <2>1, <2>3 DEF WellFormed, Levelled
  <2> QED BY <2>1, <2>2, <2>3, <2>4
<1> QED BY <1>1, <1>2, <1>3, <1>4

\* A leaf has no edges, an internal node one more than pairs.
LEMMA NodeArity ==
  ASSUME NEW h, NEW tops, WellFormed(h, tops), NEW n \in DOMAIN h
  PROVE  /\ h[n].height \in Nat /\ Len(h[n].kv) \in Nat /\ Len(h[n].edges) \in Nat
         /\ h[n].height = 0 => Len(h[n].edges) = 0
         /\ h[n].height # 0 => Len(h[n].edges) = Len(h[n].kv) + 1
<1>1. /\ h[n].height \in Nat /\ Len(h[n].kv) \in Nat /\ Len(h[n].edges) \in Nat
  BY HeapNode DEF WellFormed
<1> QED BY <1>1, WellFormedFacts

\* What well-formedness asks of the live nodes L, one by one.
LEMMA LinkedWellFormed ==
  ASSUME NEW k, NEW L, NEW tops, HeapType(k), L \subseteq DOMAIN k,
         Down(k, L), Arity(k, L), Covered(k, L, tops),
         \A n \in L \cap tops : k[n].parent = Nil,
         \A n \in L : \A i \in 1 .. Len(k[n].edges) : LinkOK(k, n, i),
         NEW g, g = [m \in L |-> k[m]]
  PROVE  WellFormed(g, tops)
<1>1. DOMAIN g = L /\ \A m \in L : g[m] = k[m]
  OBVIOUS
<1>2. HeapType(g)
  <2>1. L \subseteq NodeId /\ \A m \in L : k[m] \in Node
    BY DEF HeapType
  <2> QED BY <2>1, <1>1 DEF HeapType
<1>3. EdgesLinked(g)
  BY <1>1, SMTT(30) DEF Down, LinkOK, EdgesLinked
<1>4. ParentsLinked(g, tops)
  <2> SUFFICES ASSUME NEW n \in L
               PROVE  IF n \in tops
                      THEN g[n].parent = Nil
                      ELSE /\ g[n].parent \in L
                           /\ g[n].parent_idx < Len(g[g[n].parent].edges)
                           /\ g[g[n].parent].edges[g[n].parent_idx + 1] = n
    BY <1>1 DEF ParentsLinked, descend
  <2>1. CASE n \in tops
    BY <1>1, <2>1
  <2>2. CASE n \notin tops
    <3>1. PICK m \in L : \E i \in 1 .. Len(k[m].edges) : k[m].edges[i] = n
      BY <2>2 DEF Covered
    <3>2. PICK i \in 1 .. Len(k[m].edges) : k[m].edges[i] = n
      BY <3>1
    <3>3. k[n].parent = m /\ k[n].parent_idx = i - 1
      BY <3>2 DEF LinkOK
    <3>4. Len(k[m].edges) \in Nat /\ i \in Nat
      BY <1>1, <1>2, HeapNode
    <3>5. i - 1 < Len(k[m].edges) /\ (i - 1) + 1 = i
      BY <3>4
    <3> QED BY <1>1, <2>2, <3>2, <3>3, <3>5
  <2> QED BY <2>1, <2>2
<1>5. Levelled(g)
  BY <1>1 DEF Down, Arity, Levelled, IsLeaf, len
<1> QED BY <1>2, <1>3, <1>4, <1>5 DEF WellFormed

\* A heap of the right shape in which all links are right is well-formed.
LEMMA ShapeWellFormed ==
  ASSUME NEW k, NEW L, NEW tops, Skeleton(k, L, tops),
         \A n \in L : \A i \in 1 .. Len(k[n].edges) : LinkOK(k, n, i),
         NEW g, g = [m \in L |-> k[m]]
  PROVE  WellFormed(g, tops)
<1>1. \A n \in L \cap tops : k[n].parent = Nil
  BY DEF Skeleton, TopsFree
<1>2. HeapType(k) /\ L \subseteq DOMAIN k /\ Down(k, L) /\ Arity(k, L) /\ Covered(k, L, tops)
  BY DEF Skeleton
<1> QED BY <1>1, <1>2, LinkedWellFormed

\* correct_childrens_parent_links on a tree in which some links are stale: the
\* links in its range become right and no right link is lost.
LEMMA CorrectShape ==
  ASSUME NEW k, NEW L, NEW tops, Skeleton(k, L, tops), NEW p \in L,
         NEW lo \in Nat, NEW hi \in Nat, hi <= Len(k[p].edges)
  PROVE  LET g == correct_childrens_parent_links(k, p, lo, hi)
         IN  /\ DOMAIN g = DOMAIN k
             /\ Skeleton(g, L, tops)
             /\ \A m \in DOMAIN k : /\ g[m].kv = k[m].kv
                                    /\ g[m].edges = k[m].edges
                                    /\ g[m].height = k[m].height
             /\ \A n \in L : \A i \in 1 .. Len(k[n].edges) :
                  (n = p /\ lo < i /\ i <= hi) \/ LinkOK(k, n, i) => LinkOK(g, n, i)
<1> DEFINE g == correct_childrens_parent_links(k, p, lo, hi)
<1>1. HeapType(k) /\ L \subseteq DOMAIN k
  BY DEF Skeleton
<1>2. \A i \in lo .. hi - 1 : i + 1 \in 1 .. Len(k[p].edges) /\ descend(k, p, i) = k[p].edges[i + 1]
  <2>1. Len(k[p].edges) \in Nat
    BY <1>1, HeapNode
  <2> QED BY <2>1 DEF descend
<1>3. \A i, j \in lo .. hi - 1 : descend(k, p, i) = descend(k, p, j) => i = j
  <2> SUFFICES ASSUME NEW i \in lo .. hi - 1, NEW j \in lo .. hi - 1,
                      descend(k, p, i) = descend(k, p, j)
               PROVE  i = j
    OBVIOUS
  <2>1. i + 1 = j + 1
    BY <1>2, SMTT(30) DEF Skeleton, Unique
  <2> QED BY <2>1
<1>4. /\ DOMAIN g = DOMAIN k
      /\ HeapType(g)
      /\ \A m \in DOMAIN k : /\ g[m].kv = k[m].kv
                             /\ g[m].edges = k[m].edges
                             /\ g[m].height = k[m].height
      /\ \A i \in lo .. hi - 1 : descend(k, p, i) \in DOMAIN k =>
           /\ g[descend(k, p, i)].parent = p
           /\ g[descend(k, p, i)].parent_idx = i
      /\ \A m \in DOMAIN k :
           (\A i \in lo .. hi - 1 : descend(k, p, i) # m) => g[m] = k[m]
  <2>1. Relinked(g, k, p, lo, hi)
    BY <1>1, <1>3, CorrectLinksProps
  <2> QED BY <2>1 DEF Relinked
<1> HIDE DEF g
<1>5. \A n \in L \cap tops : g[n].parent = Nil
  <2> SUFFICES ASSUME NEW n \in L \cap tops PROVE g[n].parent = Nil
    OBVIOUS
  <2>1. \A i \in lo .. hi - 1 : descend(k, p, i) # n
    BY <1>2 DEF Skeleton, TopsFree
  <2>2. k[n].parent = Nil
    BY DEF Skeleton, TopsFree
  <2> QED BY <1>1, <1>4, <2>1, <2>2
<1>6. Skeleton(g, L, tops)
  <2>1. \A m \in L : g[m].kv = k[m].kv /\ g[m].edges = k[m].edges /\ g[m].height = k[m].height
    BY <1>1, <1>4
  <2>2. Down(g, L)
    BY <2>1 DEF Skeleton, Down
  <2>3. Unique(g, L)
    BY <2>1, SMTT(30) DEF Skeleton, Unique
  <2>4. Arity(g, L)
    BY <2>1 DEF Skeleton, Arity
  <2>5. TopsFree(g, L, tops)
    BY <1>5, <2>1 DEF Skeleton, TopsFree
  <2>6. Covered(g, L, tops)
    BY <2>1 DEF Skeleton, Covered
  <2> QED BY <1>1, <1>4, <2>2, <2>3, <2>4, <2>5, <2>6 DEF Skeleton
<1>7. ASSUME NEW n \in L, NEW i \in 1 .. Len(k[n].edges),
             (n = p /\ lo < i /\ i <= hi) \/ LinkOK(k, n, i)
      PROVE  LinkOK(g, n, i)
  <2>1. k[n].edges[i] \in DOMAIN k /\ g[n].edges = k[n].edges
    BY <1>1, <1>4 DEF Skeleton, Down
  <2>2. CASE n = p /\ lo < i /\ i <= hi
    <3>1. i - 1 \in lo .. hi - 1 /\ (i - 1) + 1 = i
      BY <2>2
    <3>2. descend(k, p, i - 1) = k[n].edges[i]
      BY <2>2, <3>1, <1>2
    <3> QED BY <1>4, <2>1, <2>2, <3>1, <3>2 DEF LinkOK
  <2>3. CASE ~(n = p /\ lo < i /\ i <= hi) /\ LinkOK(k, n, i)
    <3>1. \A j \in lo .. hi - 1 : descend(k, p, j) # k[n].edges[i]
      <4> SUFFICES ASSUME NEW j \in lo .. hi - 1, descend(k, p, j) = k[n].edges[i]
                   PROVE  FALSE
        OBVIOUS
      <4>1. p = n /\ j + 1 = i
        BY <1>2 DEF Skeleton, Unique
      <4> QED BY <2>3, <4>1
    <3>2. g[k[n].edges[i]] = k[k[n].edges[i]]
      BY <1>4, <2>1, <3>1
    <3> QED BY <2>1, <2>3, <3>2 DEF LinkOK
  <2> QED BY <1>7, <2>2, <2>3
<1> QED BY <1>4, <1>6, <1>7 DEF g

-----------------------------------------------------------------------------
\* Only the nodes without parent that are allocated matter.
LEMMA TopsExt ==
  ASSUME NEW h, NEW S, NEW T, WellFormed(h, S), S \cap DOMAIN h = T \cap DOMAIN h
  PROVE  WellFormed(h, T)
  BY DEF WellFormed, ParentsLinked

\* Writing one node leaves the other nodes.
LEMMA UpdateProps ==
  ASSUME NEW h, HeapType(h), NEW n \in DOMAIN h, NEW r \in Node
  PROVE  LET g == [h EXCEPT ![n] = r]
         IN  /\ DOMAIN g = DOMAIN h /\ HeapType(g)
             /\ g[n] = r /\ \A m \in DOMAIN h : m # n => g[m] = h[m]
  BY DEF HeapType

\* A fresh allocation leaves the nodes there are.
LEMMA AllocateProps ==
  ASSUME NEW h, HeapType(h), NEW n \in NodeId, n \notin DOMAIN h, NEW r \in Node
  PROVE  LET g == Allocate(h, n, r)
         IN  /\ DOMAIN g = DOMAIN h \cup {n} /\ HeapType(g)
             /\ g[n] = r /\ \A m \in DOMAIN h : g[m] = h[m]
  BY DEF HeapType, Allocate

\* A heap is the function of its own entries.
LEMMA SelfRestrict ==
  ASSUME NEW h, HeapType(h)
  PROVE  h = [m \in DOMAIN h |-> h[m]]
  BY DEF HeapType

\* NodeRef::new_leaf adds a tree of its own to the heap.
LEMMA AddLeaf ==
  ASSUME NEW h, NEW tops, WellFormed(h, tops), NEW n \in NodeId, n \notin DOMAIN h,
         NEW r \in Node, r.height = 0, Len(r.edges) = 0, r.parent = Nil
  PROVE  WellFormed(Allocate(h, n, r), tops \cup {n})
<1> DEFINE g == Allocate(h, n, r)
<1>1. /\ DOMAIN g = DOMAIN h \cup {n} /\ HeapType(g)
      /\ g[n] = r /\ \A m \in DOMAIN h : g[m] = h[m]
  BY AllocateProps, ZenonT(30) DEF WellFormed
<1> HIDE DEF g
<1>2. EdgesLinked(g)
  BY <1>1 DEF WellFormed, EdgesLinked
<1>3. ParentsLinked(g, tops \cup {n})
  BY <1>1 DEF WellFormed, ParentsLinked, descend
<1>4. Levelled(g)
  <2> SUFFICES ASSUME NEW m \in DOMAIN g
               PROVE  /\ Len(g[m].edges) = IF g[m].height = 0 THEN 0 ELSE Len(g[m].kv) + 1
                      /\ \A i \in 1 .. Len(g[m].edges) : g[g[m].edges[i]].height = g[m].height - 1
    BY DEF Levelled, IsLeaf, len
  <2>1. CASE m = n
    BY <1>1, <2>1
  <2>2. CASE m \in DOMAIN h
    BY <1>1, <2>2, WellFormedFacts
  <2> QED BY <1>1, <2>1, <2>2
<1> QED BY <1>1, <1>2, <1>3, <1>4 DEF WellFormed, g

\* g is h with one more pair in n and the tops given.
Inserted(g, h, tops, n) ==
  /\ DOMAIN g = DOMAIN h /\ WellFormed(g, tops)
  /\ Len(g[n].kv) = Len(h[n].kv) + 1
  /\ \A m \in DOMAIN h : g[m].height = h[m].height
  /\ \A m \in DOMAIN h \ {n} : g[m].kv = h[m].kv

\* Handle<Internal, Edge>::insert_fit: a subtree without a place gets one in
\* p, one pair is added to p, and the links from idx + 1 on are corrected.
LEMMA InternalInsertFit ==
  ASSUME NEW h, NEW tops, WellFormed(h, tops), NEW p \in DOMAIN h, h[p].height > 0,
         NEW idx \in 0 .. Len(h[p].kv), NEW kv \in KV, NEW e \in tops \cap DOMAIN h,
         e # p, h[e].height = h[p].height - 1
  PROVE  Inserted(internal_insert_fit(h, p, idx, kv, e), h, tops \ {e}, p)
<1> SUFFICES LET g == internal_insert_fit(h, p, idx, kv, e)
             IN  /\ DOMAIN g = DOMAIN h /\ WellFormed(g, tops \ {e})
                 /\ Len(g[p].kv) = Len(h[p].kv) + 1
                 /\ \A m \in DOMAIN h : g[m].height = h[m].height
                 /\ \A m \in DOMAIN h \ {p} : g[m].kv = h[m].kv
  BY DEF Inserted
<1> DEFINE E == h[p].edges
           n == Len(h[p].kv)
           S == slice_insert(h[p].kv, idx, kv)
           F == slice_insert(E, idx + 1, e)
           r == WithData(h[p], S, F)
           k == [h EXCEPT ![p] = r]
           g == correct_childrens_parent_links(k, p, idx + 1, n + 2)
           L == DOMAIN h
           T == tops \ {e}
<1>1. HeapType(h) /\ h[p] \in Node /\ h[p].kv \in Seq(KV) /\ E \in Seq(NodeId) /\ n \in Nat
      /\ e \in NodeId /\ Len(E) = n + 1 /\ idx \in 0 .. n
  <2>1. HeapType(h)
    BY DEF WellFormed
  <2>2. h[p] \in Node /\ h[p].kv \in Seq(KV) /\ E \in Seq(NodeId) /\ n \in Nat /\ e \in NodeId
    BY <2>1, HeapNode
  <2>3. Len(E) = n + 1
    BY NodeArity
  <2> QED BY <2>1, <2>2, <2>3
<1>2. S \in Seq(KV) /\ Len(S) = n + 1
  BY <1>1, SliceInsertProps DEF IsInsert
<1>3. internal_insert_fit(h, p, idx, kv, e) = g
  BY DEF internal_insert_fit, len
<1>4. /\ E = h[p].edges /\ n = Len(h[p].kv) /\ L = DOMAIN h /\ T = tops \ {e}
      /\ p \in L /\ e \in L
  OBVIOUS
<1> HIDE DEF E, n, S, L, T
<1>a. n \in Nat /\ idx \in Nat /\ idx <= n
  BY <1>1
<1>5. /\ F \in Seq(NodeId) /\ Len(F) = n + 2
      /\ \A j \in 1 .. n + 2 : /\ j <= idx + 1 => F[j] = E[j]
                               /\ j = idx + 2 => F[j] = e
                               /\ j > idx + 2 => F[j] = E[j - 1]
  <2>1. idx + 1 \in 0 .. Len(E) /\ Len(E) + 1 = n + 2
    BY <1>1
  <2>2. F \in Seq(NodeId) /\ IsInsert(F, E, idx + 1, e)
    BY <1>1, <2>1, SliceInsertProps
  <2> HIDE DEF F
  <2>3. idx + 1 \in Int /\ (idx + 1) + 1 = idx + 2
    BY <1>a
  <2> QED BY <2>1, <2>2, <2>3 DEF IsInsert
<1> HIDE DEF F
<1>6. r \in Node /\ r.kv = S /\ r.edges = F /\ r.height = h[p].height
      /\ r.parent = h[p].parent /\ r.parent_idx = h[p].parent_idx
  BY <1>1, <1>2, <1>5, WithDataProps
<1> HIDE DEF r
<1>7. DOMAIN k = L /\ HeapType(k) /\ k[p] = r /\ \A m \in L : m # p => k[m] = h[m]
  BY <1>1, <1>4, <1>6, UpdateProps
<1> HIDE DEF k, g
<1>8. \A m \in L : k[m].height = h[m].height /\ k[m].parent = h[m].parent
                   /\ k[m].parent_idx = h[m].parent_idx
  BY <1>6, <1>7
<1>9. k[p].edges = F /\ k[p].kv = S
  BY <1>6, <1>7
<1>10. \A m \in L \ {p} : k[m].edges = h[m].edges /\ k[m].kv = h[m].kv
  BY <1>7
<1>11. \A i \in 1 .. n + 1 : E[i] \in L /\ h[E[i]].height = h[p].height - 1
                             /\ h[E[i]].parent = p /\ h[E[i]].parent_idx = i - 1
  BY <1>1, <1>4, WellFormedFacts
<1>12. h[e].parent = Nil /\ p # Nil
  BY <1>1, <1>4, WellFormedFacts, HeapNode
\* Where the child at an edge of p was before.
<1>13. \A i \in 1 .. n + 2 :
         /\ F[i] \in L /\ h[F[i]].height = h[p].height - 1
         /\ i <= idx + 1 => h[F[i]].parent = p /\ h[F[i]].parent_idx = i - 1
         /\ i = idx + 2 => h[F[i]].parent = Nil /\ F[i] = e
         /\ i > idx + 2 => h[F[i]].parent = p /\ h[F[i]].parent_idx = i - 2
  <2> SUFFICES ASSUME NEW i \in 1 .. n + 2
               PROVE  /\ F[i] \in L /\ h[F[i]].height = h[p].height - 1
                      /\ i <= idx + 1 => h[F[i]].parent = p /\ h[F[i]].parent_idx = i - 1
                      /\ i = idx + 2 => h[F[i]].parent = Nil /\ F[i] = e
                      /\ i > idx + 2 => h[F[i]].parent = p /\ h[F[i]].parent_idx = i - 2
    OBVIOUS
  <2>1. CASE i <= idx + 1
    <3>1. i \in 1 .. n + 1 /\ F[i] = E[i]
      BY <1>1, <1>5, <2>1
    <3> QED BY <1>1, <1>11, <2>1, <3>1
  <2>2. CASE i = idx + 2
    BY <1>1, <1>4, <1>5, <1>12, <2>2
  <2>3. CASE i > idx + 2
    <3>1. i - 1 \in 1 .. n + 1 /\ (i - 1) - 1 = i - 2 /\ ~(i <= idx + 1) /\ ~(i = idx + 2)
      BY <1>a, <2>3
    <3>2. F[i] = E[i - 1]
      BY <1>5, <3>1
    <3> QED BY <1>11, <2>3, <3>1, <3>2
  <2> QED BY <1>1, <2>1, <2>2, <2>3
<1>14. \A m \in L \ {p} : \A i \in 1 .. Len(k[m].edges) :
         /\ k[m].edges[i] \in L /\ h[k[m].edges[i]].height = h[m].height - 1
         /\ h[k[m].edges[i]].parent = m /\ h[k[m].edges[i]].parent_idx = i - 1
  <2> SUFFICES ASSUME NEW m \in L, m # p
               PROVE  \A i \in 1 .. Len(h[m].edges) :
                        /\ h[m].edges[i] \in L /\ h[h[m].edges[i]].height = h[m].height - 1
                        /\ h[h[m].edges[i]].parent = m /\ h[h[m].edges[i]].parent_idx = i - 1
    BY <1>10
  <2> QED BY <1>4, WellFormedFacts
<1>15. Len(k[p].edges) = n + 2 /\ Len(k[p].kv) = n + 1
  BY <1>2, <1>5, <1>9
<1>16. Down(k, L)
  <2> SUFFICES ASSUME NEW m \in L, NEW i \in 1 .. Len(k[m].edges)
               PROVE  k[m].edges[i] \in L /\ k[k[m].edges[i]].height = k[m].height - 1
    BY DEF Down
  <2>1. CASE m = p
    BY <1>8, <1>9, <1>13, <1>15, <2>1
  <2>2. CASE m # p
    BY <1>8, <1>14, <2>2
  <2> QED BY <2>1, <2>2
<1>17. Unique(k, L)
  <2> SUFFICES ASSUME NEW a \in L, NEW b \in L, NEW i \in 1 .. Len(k[a].edges),
                      NEW j \in 1 .. Len(k[b].edges), k[a].edges[i] = k[b].edges[j]
               PROVE  a = b /\ i = j
    BY DEF Unique
  <2>1. ASSUME NEW c \in L, NEW u \in 1 .. Len(k[c].edges)
        PROVE  \/ c # p /\ h[k[c].edges[u]].parent = c /\ h[k[c].edges[u]].parent_idx = u - 1
               \/ c = p /\ u <= idx + 1 /\ h[k[c].edges[u]].parent = p
                        /\ h[k[c].edges[u]].parent_idx = u - 1
               \/ c = p /\ u = idx + 2 /\ h[k[c].edges[u]].parent = Nil
               \/ c = p /\ u > idx + 2 /\ h[k[c].edges[u]].parent = p
                        /\ h[k[c].edges[u]].parent_idx = u - 2
    BY <1>1, <1>9, <1>13, <1>14, <1>15, SMTT(60)
  <2>2. \A c \in L : c # Nil
    BY <1>1, <1>4, HeapNode
  <2> DEFINE c == k[a].edges[i]
             q == h[c].parent
             x == h[c].parent_idx
  <2>3. \/ a # p /\ q = a /\ x = i - 1
        \/ a = p /\ i <= idx + 1 /\ q = p /\ x = i - 1
        \/ a = p /\ i = idx + 2 /\ q = Nil
        \/ a = p /\ i > idx + 2 /\ q = p /\ x = i - 2
    BY <2>1
  <2>4. \/ b # p /\ q = b /\ x = j - 1
        \/ b = p /\ j <= idx + 1 /\ q = p /\ x = j - 1
        \/ b = p /\ j = idx + 2 /\ q = Nil
        \/ b = p /\ j > idx + 2 /\ q = p /\ x = j - 2
    BY <2>1
  <2> HIDE DEF c, q, x
  <2>5. i \in Int /\ j \in Int /\ a # Nil /\ b # Nil /\ p # Nil
    BY <1>4, <2>2
  <2> QED BY <1>a, <2>3, <2>4, <2>5
<1>18. Arity(k, L)
  <2> SUFFICES ASSUME NEW m \in L
               PROVE  /\ k[m].height = 0 => Len(k[m].edges) = 0
                      /\ k[m].height # 0 => Len(k[m].edges) = Len(k[m].kv) + 1
    BY DEF Arity
  <2>1. CASE m = p
    BY <1>1, <1>8, <1>15, <2>1
  <2>2. CASE m # p
    <3>1. k[m].height = h[m].height /\ k[m].edges = h[m].edges /\ k[m].kv = h[m].kv
      BY <1>8, <1>10, <2>2
    <3>2. /\ h[m].height = 0 => Len(h[m].edges) = 0
          /\ h[m].height # 0 => Len(h[m].edges) = Len(h[m].kv) + 1
      BY <1>4, NodeArity
    <3> QED BY <3>1, <3>2
  <2> QED BY <2>1, <2>2
<1>19. TopsFree(k, L, T)
  <2> SUFFICES ASSUME NEW m \in L \cap T
               PROVE  k[m].parent = Nil /\ \A a \in L : \A i \in 1 .. Len(k[a].edges) : k[a].edges[i] # m
    BY DEF TopsFree
  <2>1. h[m].parent = Nil /\ m # e
    BY <1>4, WellFormedFacts
  <2>2. \A i \in 1 .. n + 2 : F[i] # m
    BY <1>1, <1>12, <1>13, <2>1
  <2>3. \A a \in L : a # Nil
    BY <1>1, <1>4, HeapNode
  <2>4. \A a \in L \ {p} : \A i \in 1 .. Len(k[a].edges) : k[a].edges[i] # m
    BY <1>14, <2>1, <2>3
  <2> QED BY <1>8, <1>9, <1>15, <2>1, <2>2, <2>4
<1>20. Covered(k, L, T)
  <2> SUFFICES ASSUME NEW m \in L \ T
               PROVE  \E a \in L : \E i \in 1 .. Len(k[a].edges) : k[a].edges[i] = m
    BY DEF Covered
  <2>1. CASE m = e
    <3>1. idx + 2 \in 1 .. Len(k[p].edges) /\ k[p].edges[idx + 2] = e
      BY <1>1, <1>5, <1>9, <1>15
    <3> QED BY <1>4, <2>1, <3>1
  <2>2. CASE m # e
    <3> DEFINE a == h[m].parent
               i == h[m].parent_idx + 1
    <3>1. a \in L /\ i \in 1 .. Len(h[a].edges) /\ h[a].edges[i] = m
      BY <1>4, <2>2, WellFormedFacts
    <3> HIDE DEF a, i
    <3>2. CASE a # p
      BY <1>10, <3>1, <3>2
    <3>3. CASE a = p /\ i <= idx + 1
      <4>1. i \in 1 .. n + 2 /\ F[i] = m
        BY <1>1, <1>4, <1>5, <3>1, <3>3
      <4> QED BY <1>4, <1>9, <1>15, <4>1
    <3>4. CASE a = p /\ i > idx + 1
      <4>1. i + 1 \in 1 .. n + 2 /\ i + 1 > idx + 2 /\ (i + 1) - 1 = i /\ E[i] = m
        BY <1>1, <1>4, <3>1, <3>4
      <4>2. F[i + 1] = m
        BY <1>1, <1>5, <4>1
      <4> QED BY <1>4, <1>9, <1>15, <4>1, <4>2
    <3> QED BY <1>1, <3>1, <3>2, <3>3, <3>4
  <2> QED BY <2>1, <2>2
<1>21. Skeleton(k, L, T)
  BY <1>7, <1>16, <1>17, <1>18, <1>19, <1>20 DEF Skeleton
<1>22. idx + 1 \in Nat /\ n + 2 \in Nat /\ n + 2 <= Len(k[p].edges)
  BY <1>1, <1>15
<1>23. /\ DOMAIN g = DOMAIN k /\ Skeleton(g, L, T)
       /\ \A m \in DOMAIN k : g[m].kv = k[m].kv /\ g[m].edges = k[m].edges /\ g[m].height = k[m].height
       /\ \A m \in L : \A i \in 1 .. Len(k[m].edges) :
            (m = p /\ idx + 1 < i /\ i <= n + 2) \/ LinkOK(k, m, i) => LinkOK(g, m, i)
  <2>1. p \in L
    BY <1>4
  <2> QED BY ONLY <1>21, <1>22, <2>1, CorrectShape DEF g
<1>24. \A m \in L : \A i \in 1 .. Len(k[m].edges) : LinkOK(g, m, i)
  <2> SUFFICES ASSUME NEW m \in L, NEW i \in 1 .. Len(k[m].edges),
                      ~(m = p /\ idx + 1 < i /\ i <= n + 2)
               PROVE  LinkOK(k, m, i)
    BY <1>23
  <2>1. CASE m # p
    BY <1>8, <1>14, <2>1, SMTT(30) DEF LinkOK
  <2>2. CASE m = p
    BY <1>a, <1>8, <1>9, <1>13, <1>15, <2>2, SMTT(60) DEF LinkOK
  <2> QED BY <2>1, <2>2
<1>25. WellFormed(g, T)
  <2>1. g = [m \in L |-> g[m]]
    BY <1>7, <1>23, SelfRestrict DEF Skeleton
  <2>2. \A m \in L : \A i \in 1 .. Len(g[m].edges) : LinkOK(g, m, i)
    BY <1>7, <1>23, <1>24
  <2> QED BY <1>23, <2>1, <2>2, ShapeWellFormed
<1>26. /\ DOMAIN g = L /\ Len(g[p].kv) = n + 1
       /\ \A m \in L : g[m].height = h[m].height
       /\ \A m \in L \ {p} : g[m].kv = h[m].kv
  BY <1>4, <1>7, <1>8, <1>10, <1>15, <1>23
<1> QED BY <1>3, <1>4, <1>25, <1>26

\* Handle<Leaf, Edge>::insert_fit.
LEMMA LeafInsertFit ==
  ASSUME NEW h, NEW tops, WellFormed(h, tops), NEW n \in DOMAIN h, h[n].height = 0,
         NEW idx \in 0 .. Len(h[n].kv), NEW kv \in KV
  PROVE  Inserted(leaf_insert_fit(h, n, idx, kv), h, tops, n)
<1> SUFFICES LET g == leaf_insert_fit(h, n, idx, kv)
             IN  /\ DOMAIN g = DOMAIN h /\ WellFormed(g, tops)
                 /\ Len(g[n].kv) = Len(h[n].kv) + 1
                 /\ \A m \in DOMAIN h : g[m].height = h[m].height
                 /\ \A m \in DOMAIN h \ {n} : g[m].kv = h[m].kv
  BY DEF Inserted
<1> DEFINE s == slice_insert(h[n].kv, idx, kv)
           r == WithKV(h[n], s)
           g == leaf_insert_fit(h, n, idx, kv)
<1>1. HeapType(h) /\ h[n] \in Node /\ h[n].kv \in Seq(KV)
  BY HeapNode DEF WellFormed
<1>2. s \in Seq(KV) /\ Len(s) = Len(h[n].kv) + 1
  BY <1>1, SliceInsertProps DEF IsInsert
<1>3. g = [h EXCEPT ![n] = r]
  BY DEF leaf_insert_fit
<1> HIDE DEF s, g
<1>4. r \in Node /\ r.kv = s /\ r.edges = h[n].edges /\ r.height = h[n].height
      /\ r.parent = h[n].parent /\ r.parent_idx = h[n].parent_idx
  BY <1>1, <1>2, WithKVProps
<1> HIDE DEF r
<1>5. /\ DOMAIN g = DOMAIN h /\ WellFormed(g, tops)
      /\ g[n] = r /\ \A m \in DOMAIN h : m # n => g[m] = h[m]
  BY <1>3, <1>4, SameLinks
<1> QED BY <1>2, <1>4, <1>5 DEF g

\* Handle<Leaf, KV>::remove.
LEMMA LeafRemove ==
  ASSUME NEW h, NEW tops, WellFormed(h, tops), NEW n \in DOMAIN h, h[n].height = 0,
         NEW idx \in 0 .. Len(h[n].kv) - 1
  PROVE  LET g == [h EXCEPT ![n] = WithKV(@, slice_remove(@.kv, idx))]
         IN  /\ DOMAIN g = DOMAIN h /\ WellFormed(g, tops)
             /\ Len(g[n].kv) = Len(h[n].kv) - 1
             /\ \A m \in DOMAIN h : /\ g[m].height = h[m].height /\ g[m].edges = h[m].edges
                                    /\ g[m].parent = h[m].parent
                                    /\ g[m].parent_idx = h[m].parent_idx
             /\ \A m \in DOMAIN h \ {n} : g[m].kv = h[m].kv
<1> DEFINE s == slice_remove(h[n].kv, idx)
           r == WithKV(h[n], s)
           g == [h EXCEPT ![n] = WithKV(@, slice_remove(@.kv, idx))]
<1>1. HeapType(h) /\ h[n] \in Node /\ h[n].kv \in Seq(KV)
  BY HeapNode DEF WellFormed
<1>2. s \in Seq(KV) /\ Len(s) = Len(h[n].kv) - 1
  BY <1>1, SliceRemoveProps DEF IsRemove
<1>3. g = [h EXCEPT ![n] = r]
  OBVIOUS
<1> HIDE DEF s, g
<1>4. r \in Node /\ r.kv = s /\ r.edges = h[n].edges /\ r.height = h[n].height
      /\ r.parent = h[n].parent /\ r.parent_idx = h[n].parent_idx
  BY <1>1, <1>2, WithKVProps
<1> HIDE DEF r
<1>5. /\ DOMAIN g = DOMAIN h /\ WellFormed(g, tops)
      /\ g[n] = r /\ \A m \in DOMAIN h : m # n => g[m] = h[m]
  BY <1>3, <1>4, SameLinks
<1> QED BY <1>2, <1>4, <1>5 DEF g

\* Handle<_, KV>::replace_kv and the writes through kv_mut.
LEMMA ReplaceKv1 ==
  ASSUME NEW h, NEW tops, WellFormed(h, tops), NEW n \in DOMAIN h,
         NEW idx \in 0 .. Len(h[n].kv) - 1, NEW kv \in KV
  PROVE  LET g == [h EXCEPT ![n] = replace_kv(@, idx, kv)]
         IN  /\ DOMAIN g = DOMAIN h /\ WellFormed(g, tops)
             /\ \A m \in DOMAIN h : g[m].height = h[m].height /\ Len(g[m].kv) = Len(h[m].kv)
             /\ \A m \in DOMAIN h \ {n} : g[m].kv = h[m].kv
<1> DEFINE r == replace_kv(h[n], idx, kv)
           g == [h EXCEPT ![n] = replace_kv(@, idx, kv)]
<1>1. HeapType(h) /\ h[n] \in Node
  BY HeapNode DEF WellFormed
<1>2. g = [h EXCEPT ![n] = r]
  OBVIOUS
<1>3. /\ r \in Node /\ Len(r.kv) = Len(h[n].kv) /\ r.edges = h[n].edges
      /\ r.height = h[n].height /\ r.parent = h[n].parent /\ r.parent_idx = h[n].parent_idx
  BY <1>1, ReplaceKvProps
<1> HIDE DEF r, g
<1>4. /\ DOMAIN g = DOMAIN h /\ WellFormed(g, tops)
      /\ g[n] = r /\ \A m \in DOMAIN h : m # n => g[m] = h[m]
  BY <1>2, <1>3, SameLinks
<1> QED BY <1>3, <1>4 DEF g

\* g is h with the pairs of n right of idx moved to the new node.
Halved(g, h, tops, n, idx, new) ==
  /\ DOMAIN g = DOMAIN h \cup {new} /\ WellFormed(g, tops \cup {new})
  /\ Len(g[n].kv) = idx /\ Len(g[new].kv) = Len(h[n].kv) - idx - 1
  /\ g[new].height = h[n].height
  /\ \A m \in DOMAIN h : g[m].height = h[m].height
  /\ \A m \in DOMAIN h \ {n} : g[m].kv = h[m].kv
  /\ h[n].kv[idx + 1] \in KV

\* Handle<Leaf, KV>::split.
LEMMA SplitLeaf ==
  ASSUME NEW h, NEW tops, WellFormed(h, tops), NEW n \in DOMAIN h, h[n].height = 0,
         NEW idx \in 0 .. Len(h[n].kv) - 1, NEW new \in NodeId, new \notin DOMAIN h
  PROVE  Halved(split_leaf(h, n, idx, new), h, tops, n, idx, new)
<1> SUFFICES LET g == split_leaf(h, n, idx, new)
             IN  /\ DOMAIN g = DOMAIN h \cup {new} /\ WellFormed(g, tops \cup {new})
                 /\ Len(g[n].kv) = idx /\ Len(g[new].kv) = Len(h[n].kv) - idx - 1
                 /\ g[new].height = 0
                 /\ \A m \in DOMAIN h : g[m].height = h[m].height
                 /\ \A m \in DOMAIN h \ {n} : g[m].kv = h[m].kv
                 /\ h[n].kv[idx + 1] \in KV
  BY DEF Halved
<1> DEFINE s == SubSeq(h[n].kv, 1, idx)
           t == SubSeq(h[n].kv, idx + 2, Len(h[n].kv))
           r == WithKV(h[n], s)
           q == new_leaf(t)
           k == [h EXCEPT ![n] = r]
           g == split_leaf(h, n, idx, new)
<1>1. HeapType(h) /\ h[n] \in Node /\ h[n].kv \in Seq(KV) /\ Len(h[n].kv) \in Nat
  BY HeapNode DEF WellFormed
<1>2. s \in Seq(KV) /\ Len(s) = idx
  BY <1>1, CutProps
<1>3. t \in Seq(KV) /\ Len(t) = Len(h[n].kv) - idx - 1
  BY <1>1, CutProps
<1>4. g = Allocate(k, new, q)
  BY DEF split_leaf, len
<1>5. h[n].kv[idx + 1] \in KV
  BY <1>1
<1> HIDE DEF s, t, g
<1>6. r \in Node /\ r.kv = s /\ r.edges = h[n].edges /\ r.height = h[n].height
      /\ r.parent = h[n].parent /\ r.parent_idx = h[n].parent_idx
  BY <1>1, <1>2, WithKVProps
<1>7. q \in Node /\ q.kv = t /\ Len(q.edges) = 0 /\ q.height = 0 /\ q.parent = Nil
  BY <1>3 DEF new_leaf, new_internal, Node
<1> HIDE DEF r, q
<1>8. /\ DOMAIN k = DOMAIN h /\ WellFormed(k, tops)
      /\ k[n] = r /\ \A m \in DOMAIN h : m # n => k[m] = h[m]
  BY <1>6, SameLinks
<1> HIDE DEF k
<1>9. WellFormed(g, tops \cup {new})
  BY <1>4, <1>7, <1>8, AddLeaf
<1>10. DOMAIN g = DOMAIN k \cup {new} /\ g[new] = q /\ \A m \in DOMAIN k : g[m] = k[m]
  <2>1. new \notin DOMAIN k
    BY <1>8
  <2> QED BY <1>4, <2>1 DEF Allocate
<1> QED BY <1>2, <1>3, <1>5, <1>6, <1>7, <1>8, <1>9, <1>10 DEF g

\* g is h without its root, whose child c is the new root.
Popped(g, h, tops, root, c) ==
  /\ DOMAIN g = DOMAIN h \ {root} /\ c \in DOMAIN g
  /\ WellFormed(g, (tops \ {root}) \cup {c})
  /\ \A m \in DOMAIN g : g[m].kv = h[m].kv /\ g[m].height = h[m].height

\* Root::pop_internal_level.
LEMMA PopInternalLevel ==
  ASSUME NEW h, NEW tops, WellFormed(h, tops), NEW root \in DOMAIN h, root \in tops,
         h[root].height > 0, Len(h[root].kv) = 0
  PROVE  Popped(pop_internal_level(h, root), h, tops, root, descend(h, root, 0))
<1> SUFFICES LET g == pop_internal_level(h, root)
                 c == descend(h, root, 0)
             IN  /\ DOMAIN g = DOMAIN h \ {root} /\ c \in DOMAIN g
                 /\ WellFormed(g, (tops \ {root}) \cup {c})
                 /\ \A m \in DOMAIN g : g[m].kv = h[m].kv /\ g[m].height = h[m].height
  BY DEF Popped
<1> DEFINE c == h[root].edges[1]
           r == clear_parent_link(h[c])
           k == [h EXCEPT ![c] = r]
           L == DOMAIN h \ {root}
           g == [m \in L |-> k[m]]
           T == (tops \ {root}) \cup {c}
<1>1. /\ HeapType(h) /\ Len(h[root].edges) = 1 /\ c \in DOMAIN h /\ h[c] \in Node
      /\ h[c].parent = root /\ h[root].parent = Nil /\ root # Nil
  <2>1. HeapType(h) /\ root # Nil /\ h[root].height \in Nat
    BY HeapNode DEF WellFormed
  <2>2. Len(h[root].edges) = 1
    <3>1. h[root].height # 0
      BY <2>1
    <3>2. Len(h[root].edges) = Len(h[root].kv) + 1
      BY <3>1, NodeArity
    <3> QED BY <3>2
  <2>3. c \in DOMAIN h /\ h[c].parent = root /\ h[root].parent = Nil
    BY <2>2, WellFormedFacts
  <2> QED BY <2>1, <2>2, <2>3, HeapNode
<1>2. /\ pop_internal_level(h, root) = g /\ descend(h, root, 0) = c
  <2>1. descend(h, root, 0) = c
    BY DEF descend
  <2> HIDE DEF c
  <2> QED BY <1>1, <2>1 DEF pop_internal_level, Deallocate
<1> HIDE DEF c
<1>3. /\ r \in Node /\ r.kv = h[c].kv /\ r.edges = h[c].edges /\ r.height = h[c].height
      /\ r.parent = Nil
  BY <1>1, ClearParentLinkProps
<1> HIDE DEF r
<1>4. DOMAIN k = DOMAIN h /\ HeapType(k) /\ k[c] = r /\ \A m \in DOMAIN h : m # c => k[m] = h[m]
  BY <1>1, <1>3, UpdateProps
<1> HIDE DEF k
<1>5. \A m \in DOMAIN h : k[m].kv = h[m].kv /\ k[m].edges = h[m].edges /\ k[m].height = h[m].height
  BY <1>3, <1>4
<1>6. ASSUME NEW n \in L, NEW i \in 1 .. Len(k[n].edges)
      PROVE  /\ k[n].edges[i] \in L /\ k[k[n].edges[i]].height = k[n].height - 1
             /\ LinkOK(k, n, i)
  <2>1. /\ k[n].edges[i] \in DOMAIN h /\ h[k[n].edges[i]].parent = n
        /\ h[k[n].edges[i]].parent_idx = i - 1
        /\ h[k[n].edges[i]].height = h[n].height - 1
    BY <1>5, WellFormedFacts
  <2>2. k[n].edges[i] # root /\ k[n].edges[i] # c
    <3>1. n # Nil
      BY <1>1, HeapNode
    <3> QED BY <1>1, <2>1, <3>1
  <2> QED BY <1>4, <1>5, <2>1, <2>2 DEF LinkOK
<1>7. Down(k, L)
  BY <1>6 DEF Down
<1>8. Arity(k, L)
  BY <1>5, WellFormedFacts, SMTT(30) DEF Arity
<1>9. Covered(k, L, T)
  <2> SUFFICES ASSUME NEW n \in L, n \notin T
               PROVE  \E m \in L : \E i \in 1 .. Len(k[m].edges) : k[m].edges[i] = n
    BY DEF Covered
  <2> DEFINE m == h[n].parent
             i == h[n].parent_idx + 1
  <2>1. m \in DOMAIN h /\ i \in 1 .. Len(h[m].edges) /\ h[m].edges[i] = n
    BY WellFormedFacts
  <2> HIDE DEF m, i
  <2>2. m # root
    <3>1. SUFFICES ASSUME m = root PROVE FALSE
      OBVIOUS
    <3>2. i = 1
      BY <1>1, <2>1, <3>1
    <3> QED BY <2>1, <3>1, <3>2 DEF c
  <2> QED BY <1>5, <2>1, <2>2
<1>10. \A n \in L \cap T : k[n].parent = Nil
  BY <1>3, <1>4, WellFormedFacts
<1>11. WellFormed(g, T)
  BY <1>4, <1>6, <1>7, <1>8, <1>9, <1>10, LinkedWellFormed
<1>12. c # root
  BY <1>1
<1>13. DOMAIN g = L /\ c \in L
  BY <1>1, <1>12
<1>14. \A m \in L : g[m].kv = h[m].kv /\ g[m].height = h[m].height
  BY <1>5
<1> HIDE DEF g
<1>15. /\ DOMAIN g = DOMAIN h \ {root} /\ c \in DOMAIN g
       /\ WellFormed(g, (tops \ {root}) \cup {c})
       /\ \A m \in DOMAIN g : g[m].kv = h[m].kv /\ g[m].height = h[m].height
  BY <1>11, <1>13, <1>14, Zenon
<1> QED BY ONLY <1>2, <1>15

\* g is h with a new root above old and e.
Grown(g, h, tops, old, e, new) ==
  /\ DOMAIN g = DOMAIN h \cup {new}
  /\ WellFormed(g, (tops \ {old, e}) \cup {new})
  /\ Len(g[new].kv) = 1 /\ g[new].height = h[old].height + 1
  /\ \A m \in DOMAIN h : g[m].kv = h[m].kv /\ g[m].height = h[m].height

\* Root::push_internal_level and the push of the right half of the old root.
LEMMA PushRootLevel ==
  ASSUME NEW h, NEW tops, WellFormed(h, tops), NEW old \in tops \cap DOMAIN h,
         NEW e \in tops \cap DOMAIN h, e # old, h[e].height = h[old].height,
         NEW new \in NodeId, new \notin DOMAIN h, NEW kv \in KV
  PROVE  Grown(push_root_level(h, old, new, kv, e), h, tops, old, e, new)
<1> SUFFICES LET g == push_root_level(h, old, new, kv, e)
             IN  /\ DOMAIN g = DOMAIN h \cup {new}
                 /\ WellFormed(g, (tops \ {old, e}) \cup {new})
                 /\ Len(g[new].kv) = 1 /\ g[new].height = h[old].height + 1
                 /\ \A m \in DOMAIN h : g[m].kv = h[m].kv /\ g[m].height = h[m].height
  BY DEF Grown
<1> DEFINE r == new_internal(h[old].height + 1, <<kv>>, <<old, e>>)
           k == Allocate(h, new, r)
           g == correct_childrens_parent_links(k, new, 0, 2)
           L == DOMAIN h \cup {new}
           T == (tops \ {old, e}) \cup {new}
<1>1. HeapType(h) /\ h[old].height \in Nat /\ old \in NodeId /\ e \in NodeId /\ new # Nil
  BY HeapNode, NilAssumption DEF WellFormed
<1>2. r \in Node /\ r.kv = <<kv>> /\ r.edges = <<old, e>> /\ r.height = h[old].height + 1
      /\ r.parent = Nil
  BY <1>1 DEF new_internal, Node
<1> HIDE DEF r
<1>3. HeapType(k)
  BY <1>1, <1>2, AllocateProps
<1>4. DOMAIN k = L /\ k[new] = r /\ \A m \in DOMAIN h : k[m] = h[m]
  BY DEF Allocate
<1>5. g = push_root_level(h, old, new, kv, e)
  BY DEF push_root_level, r
<1> HIDE DEF k
<1>6. descend(k, new, 0) = old /\ descend(k, new, 1) = e /\ Len(k[new].edges) = 2
      /\ k[new].edges[1] = old /\ k[new].edges[2] = e /\ Len(k[new].kv) = 1
  BY <1>2, <1>4, SMTT(30) DEF descend
<1>7. /\ DOMAIN g = DOMAIN k /\ HeapType(g)
      /\ \A m \in DOMAIN k : g[m].kv = k[m].kv /\ g[m].edges = k[m].edges /\ g[m].height = k[m].height
      /\ \A i \in 0 .. 2 - 1 : descend(k, new, i) \in DOMAIN k =>
           g[descend(k, new, i)].parent = new /\ g[descend(k, new, i)].parent_idx = i
      /\ \A m \in DOMAIN k : (\A i \in 0 .. 2 - 1 : descend(k, new, i) # m) => g[m] = k[m]
  <2>1. \A i, j \in 0 .. 2 - 1 : descend(k, new, i) = descend(k, new, j) => i = j
    BY <1>6
  <2>2. new \in DOMAIN k /\ 2 <= Len(k[new].edges)
    BY <1>4, <1>6
  <2>3. Relinked(g, k, new, 0, 2)
    BY <1>3, <2>1, <2>2, CorrectLinksProps
  <2> QED BY <2>3 DEF Relinked
<1>8. /\ g[old].parent = new /\ g[old].parent_idx = 0 /\ g[e].parent = new /\ g[e].parent_idx = 1
      /\ \A m \in L : m # old /\ m # e => g[m] = k[m]
  BY <1>4, <1>6, <1>7
<1> HIDE DEF g
<1>a. /\ \A m \in DOMAIN h : /\ g[m].kv = h[m].kv /\ g[m].edges = h[m].edges
                             /\ g[m].height = h[m].height
      /\ Len(g[new].edges) = 2 /\ g[new].edges[1] = old /\ g[new].edges[2] = e
      /\ Len(g[new].kv) = 1 /\ g[new].height = h[old].height + 1
  BY <1>2, <1>4, <1>6, <1>7
<1>9. ASSUME NEW n \in L, NEW i \in 1 .. Len(g[n].edges)
      PROVE  /\ g[n].edges[i] \in L /\ g[g[n].edges[i]].height = g[n].height - 1
             /\ LinkOK(g, n, i)
  <2>1. CASE n = new
    <3>0. Len(g[n].edges) = 2
      BY <1>a, <2>1
    <3>1. i = 1 \/ i = 2
      BY <3>0
    <3>2. g[n].edges[1] = old /\ g[n].edges[2] = e /\ g[n].height = h[old].height + 1
      BY <1>a, <2>1
    <3>3. g[old].height = h[old].height /\ g[e].height = h[old].height
      BY <1>a
    <3> QED BY <1>1, <1>8, <2>1, <3>1, <3>2, <3>3, SMTT(60) DEF LinkOK
  <2>2. CASE n \in DOMAIN h
    <3>1. g[n].edges = h[n].edges /\ g[n].height = h[n].height
      BY <1>a, <2>2
    <3>2. /\ h[n].edges[i] \in DOMAIN h /\ h[h[n].edges[i]].parent = n
          /\ h[h[n].edges[i]].parent_idx = i - 1
          /\ h[h[n].edges[i]].height = h[n].height - 1
      BY <2>2, <3>1, WellFormedFacts
    <3>3. h[n].edges[i] # old /\ h[n].edges[i] # e
      <4>1. n # Nil /\ h[old].parent = Nil /\ h[e].parent = Nil
        BY <1>1, <2>2, HeapNode, WellFormedFacts
      <4> QED BY <3>2, <4>1
    <3>4. g[h[n].edges[i]] = h[h[n].edges[i]]
      BY <1>4, <1>8, <3>2, <3>3
    <3> QED BY <3>1, <3>2, <3>4 DEF LinkOK
  <2> QED BY <2>1, <2>2
<1>10. Down(g, L)
  BY <1>9 DEF Down
<1>11. Arity(g, L)
  <2> SUFFICES ASSUME NEW m \in L
               PROVE  /\ g[m].height = 0 => Len(g[m].edges) = 0
                      /\ g[m].height # 0 => Len(g[m].edges) = Len(g[m].kv) + 1
    BY DEF Arity
  <2>1. CASE m = new
    <3>1. Len(g[m].edges) = 2 /\ Len(g[m].kv) = 1 /\ g[m].height = h[old].height + 1
      BY <1>a, <2>1
    <3> QED BY <1>1, <3>1
  <2>2. CASE m \in DOMAIN h
    <3>1. /\ h[m].height = 0 => Len(h[m].edges) = 0
          /\ h[m].height # 0 => Len(h[m].edges) = Len(h[m].kv) + 1
      BY <2>2, NodeArity
    <3>2. g[m].kv = h[m].kv /\ g[m].edges = h[m].edges /\ g[m].height = h[m].height
      BY <1>a, <2>2
    <3> QED BY ONLY <3>1, <3>2
  <2> QED BY <2>1, <2>2
<1>12. Covered(g, L, T)
  <2> SUFFICES ASSUME NEW n \in L, n \notin T
               PROVE  \E m \in L : \E i \in 1 .. Len(g[m].edges) : g[m].edges[i] = n
    BY DEF Covered
  <2>1. CASE n \in {old, e}
    <3>1. new \in L /\ 1 \in 1 .. Len(g[new].edges) /\ 2 \in 1 .. Len(g[new].edges)
          /\ g[new].edges[1] = old /\ g[new].edges[2] = e
      BY <1>a
    <3> QED BY <2>1, <3>1
  <2>2. CASE n \notin {old, e}
    <3>1. n \in DOMAIN h /\ n \notin tops
      BY <2>2
    <3> DEFINE m == h[n].parent
               i == h[n].parent_idx + 1
    <3>2. m \in DOMAIN h /\ i \in 1 .. Len(h[m].edges) /\ h[m].edges[i] = n
      BY <3>1, WellFormedFacts
    <3> HIDE DEF m, i
    <3> QED BY <1>a, <3>2
  <2> QED BY <2>1, <2>2
<1>13. \A n \in L \cap T : g[n].parent = Nil
  <2>1. \A n \in DOMAIN h \cap tops : h[n].parent = Nil
    BY WellFormedFacts
  <2>2. old # new /\ e # new /\ k[new].parent = Nil
    BY <1>2, <1>4
  <2> QED BY <1>4, <1>8, <2>1, <2>2
<1>14. WellFormed(g, T)
  <2>1. g = [m \in L |-> g[m]] /\ HeapType(g) /\ L \subseteq DOMAIN g
    BY <1>4, <1>7, SelfRestrict
  <2>2. \A n \in L : \A i \in 1 .. Len(g[n].edges) : LinkOK(g, n, i)
    BY <1>9
  <2> HIDE DEF L, T
  <2> QED BY <1>10, <1>11, <1>12, <1>13, <2>1, <2>2, LinkedWellFormed
<1> QED BY <1>4, <1>5, <1>7, <1>14, <1>a

\* Handle<Internal, KV>::split.
LEMMA SplitInternal ==
  ASSUME NEW h, NEW tops, WellFormed(h, tops), NEW p \in DOMAIN h, h[p].height # 0,
         NEW idx \in 0 .. Len(h[p].kv) - 1, NEW new \in NodeId, new \notin DOMAIN h
  PROVE  Halved(split_internal(h, p, idx, new), h, tops, p, idx, new)
<1> SUFFICES LET g == split_internal(h, p, idx, new)
             IN  /\ DOMAIN g = DOMAIN h \cup {new} /\ WellFormed(g, tops \cup {new})
                 /\ Len(g[p].kv) = idx /\ Len(g[new].kv) = Len(h[p].kv) - idx - 1
                 /\ g[new].height = h[p].height
                 /\ \A m \in DOMAIN h : g[m].height = h[m].height
                 /\ \A m \in DOMAIN h \ {p} : g[m].kv = h[m].kv
                 /\ h[p].kv[idx + 1] \in KV
  BY DEF Halved
<1> DEFINE E == h[p].edges
           n == Len(h[p].kv)
           S == SubSeq(h[p].kv, 1, idx)
           U == SubSeq(h[p].kv, idx + 2, n)
           P == SubSeq(E, 1, idx + 1)
           Q == SubSeq(E, idx + 2, n + 1)
           r == WithData(h[p], S, P)
           q == new_internal(h[p].height, U, Q)
           f == [h EXCEPT ![p] = r]
           k == Allocate(f, new, q)
           g == correct_childrens_parent_links(k, new, 0, n - idx)
           L == DOMAIN h \cup {new}
           T == tops \cup {new}
<1>1. HeapType(h) /\ h[p] \in Node /\ h[p].kv \in Seq(KV) /\ E \in Seq(NodeId) /\ n \in Nat
      /\ Len(E) = n + 1 /\ idx \in Nat /\ idx < n /\ h[p].height \in Nat /\ new # Nil
  BY HeapNode, NodeArity, NilAssumption DEF WellFormed
<1>2. S \in Seq(KV) /\ Len(S) = idx
  BY <1>1, CutProps
<1>3. U \in Seq(KV) /\ Len(U) = n - idx - 1
  BY <1>1, CutProps
<1>4. P \in Seq(NodeId) /\ Len(P) = idx + 1 /\ \A j \in 1 .. idx + 1 : P[j] = E[j]
  BY <1>1, CutProps
<1>5. Q \in Seq(NodeId) /\ Len(Q) = n - idx /\ \A j \in 1 .. n - idx : Q[j] = E[idx + 1 + j]
  BY <1>1, CutProps
<1>6. split_internal(h, p, idx, new) = g /\ h[p].kv[idx + 1] \in KV
  BY <1>1 DEF split_internal, len
<1>7. E = h[p].edges /\ n = Len(h[p].kv) /\ L = DOMAIN h \cup {new}
  OBVIOUS
<1> HIDE DEF E, n, S, U, P, Q
<1>8. r \in Node /\ r.kv = S /\ r.edges = P /\ r.height = h[p].height
      /\ r.parent = h[p].parent /\ r.parent_idx = h[p].parent_idx
  BY <1>1, <1>2, <1>4, WithDataProps
<1>9. q \in Node /\ q.kv = U /\ q.edges = Q /\ q.height = h[p].height /\ q.parent = Nil
  BY <1>1, <1>3, <1>5 DEF new_internal, Node
<1> HIDE DEF r, q
<1>10. DOMAIN f = DOMAIN h /\ HeapType(f) /\ f[p] = r /\ \A m \in DOMAIN h : m # p => f[m] = h[m]
  BY <1>1, <1>8, UpdateProps
<1> HIDE DEF f
<1>11. HeapType(k)
  BY <1>9, <1>10, AllocateProps
<1>12. DOMAIN k = L /\ k[new] = q /\ \A m \in DOMAIN h : k[m] = f[m]
  BY <1>10 DEF Allocate
<1> HIDE DEF k
<1>13. k[p] = r /\ \A m \in DOMAIN h : m # p => k[m] = h[m]
  BY <1>10, <1>12
\* The old place of each child of p.
<1>14. \A j \in 1 .. n + 1 : /\ E[j] \in DOMAIN h /\ h[E[j]].height = h[p].height - 1
                             /\ h[E[j]].parent = p /\ h[E[j]].parent_idx = j - 1
  BY <1>1, <1>7, WellFormedFacts
<1>15. \A j \in 1 .. n - idx : /\ Q[j] \in DOMAIN h /\ h[Q[j]].height = h[p].height - 1
                               /\ h[Q[j]].parent = p /\ h[Q[j]].parent_idx = idx + j
  <2> SUFFICES ASSUME NEW j \in 1 .. n - idx
               PROVE  /\ Q[j] \in DOMAIN h /\ h[Q[j]].height = h[p].height - 1
                      /\ h[Q[j]].parent = p /\ h[Q[j]].parent_idx = idx + j
    OBVIOUS
  <2>1. idx + 1 + j \in 1 .. n + 1 /\ (idx + 1 + j) - 1 = idx + j
    BY <1>1
  <2> QED BY <1>5, <1>14, <2>1
<1>16. \A i \in 0 .. (n - idx) - 1 : i + 1 \in 1 .. n - idx /\ descend(k, new, i) = Q[i + 1]
  <2>1. \A i \in 0 .. (n - idx) - 1 : i + 1 \in 1 .. n - idx
    BY <1>1
  <2> QED BY <1>9, <1>12, <2>1 DEF descend
<1>17. /\ DOMAIN g = DOMAIN k /\ HeapType(g)
       /\ \A m \in DOMAIN k : g[m].kv = k[m].kv /\ g[m].edges = k[m].edges /\ g[m].height = k[m].height
       /\ \A i \in 0 .. (n - idx) - 1 : descend(k, new, i) \in DOMAIN k =>
            g[descend(k, new, i)].parent = new /\ g[descend(k, new, i)].parent_idx = i
       /\ \A m \in DOMAIN k : (\A i \in 0 .. (n - idx) - 1 : descend(k, new, i) # m) => g[m] = k[m]
  <2>1. \A i, j \in 0 .. (n - idx) - 1 : descend(k, new, i) = descend(k, new, j) => i = j
    <3> SUFFICES ASSUME NEW i \in 0 .. (n - idx) - 1, NEW j \in 0 .. (n - idx) - 1,
                        Q[i + 1] = Q[j + 1]
                 PROVE  i = j
      BY <1>16
    <3>1. idx + (i + 1) = idx + (j + 1)
      BY <1>15, <1>16
    <3> QED BY <1>1, <3>1
  <2>2. new \in DOMAIN k /\ n - idx <= Len(k[new].edges) /\ n - idx \in Nat /\ 0 \in Nat
    BY <1>1, <1>5, <1>9, <1>12
  <2>3. Relinked(g, k, new, 0, n - idx)
    BY <1>11, <2>1, <2>2, CorrectLinksProps
  <2> QED BY <2>3 DEF Relinked
<1> HIDE DEF g
<1>18. /\ \A m \in DOMAIN h : g[m].height = h[m].height
       /\ \A m \in DOMAIN h \ {p} : g[m].kv = h[m].kv /\ g[m].edges = h[m].edges
       /\ g[p].kv = S /\ g[p].edges = P
       /\ g[new].kv = U /\ g[new].edges = Q /\ g[new].height = h[p].height
  BY <1>8, <1>9, <1>12, <1>13, <1>17
<1>19. \A j \in 1 .. n - idx : g[Q[j]].parent = new /\ g[Q[j]].parent_idx = j - 1
  <2> SUFFICES ASSUME NEW j \in 1 .. n - idx
               PROVE  g[Q[j]].parent = new /\ g[Q[j]].parent_idx = j - 1
    OBVIOUS
  <2>1. j - 1 \in 0 .. (n - idx) - 1 /\ (j - 1) + 1 = j
    BY <1>1
  <2>2. descend(k, new, j - 1) = Q[j]
    BY <1>16, <2>1
  <2> QED BY <1>12, <1>15, <1>17, <2>1, <2>2
<1>20. ASSUME NEW m \in L, \A j \in 1 .. n - idx : Q[j] # m
       PROVE  /\ m # new => g[m].parent = h[m].parent /\ g[m].parent_idx = h[m].parent_idx
              /\ m = new => g[m].parent = Nil
  <2>1. g[m] = k[m]
    BY <1>12, <1>16, <1>17, <1>20
  <2> QED BY <1>8, <1>9, <1>12, <1>13, <2>1
<1>21. ASSUME NEW m \in L, NEW i \in 1 .. Len(g[m].edges)
       PROVE  /\ g[m].edges[i] \in L /\ g[g[m].edges[i]].height = g[m].height - 1
              /\ LinkOK(g, m, i)
  <2>1. CASE m = new
    <3>1. i \in 1 .. n - idx /\ g[m].edges[i] = Q[i]
      BY <1>5, <1>18, <2>1
    <3> QED BY <1>15, <1>18, <1>19, <2>1, <3>1 DEF LinkOK
  <2>2. CASE m = p
    <3>1. i \in 1 .. idx + 1 /\ g[m].edges[i] = P[i]
      BY <1>4, <1>18, <2>2
    <3>2. i \in 1 .. n + 1 /\ g[m].edges[i] = E[i]
      BY <1>1, <1>4, <3>1
    <3>3. /\ E[i] \in DOMAIN h /\ h[E[i]].height = h[p].height - 1
          /\ h[E[i]].parent = p /\ h[E[i]].parent_idx = i - 1
      BY <1>14, <3>2
    <3>4. ASSUME NEW j \in 1 .. n - idx, Q[j] = E[i] PROVE FALSE
      <4>1. i - 1 = idx + j
        BY <1>15, <3>3, <3>4
      <4> QED BY <1>1, <3>1, <4>1
    <3>5. g[E[i]].parent = h[E[i]].parent /\ g[E[i]].parent_idx = h[E[i]].parent_idx
      BY <1>20, <3>3, <3>4
    <3> QED BY <1>18, <2>2, <3>2, <3>3, <3>5 DEF LinkOK
  <2>3. CASE m # new /\ m # p
    <3>1. m \in DOMAIN h /\ g[m].edges = h[m].edges /\ g[m].height = h[m].height
      BY <1>18, <2>3
    <3> DEFINE c == h[m].edges[i]
    <3>2. /\ c \in DOMAIN h /\ h[c].height = h[m].height - 1
          /\ h[c].parent = m /\ h[c].parent_idx = i - 1
      BY <3>1, WellFormedFacts
    <3>3. \A j \in 1 .. n - idx : Q[j] # c
      BY <1>15, <2>3, <3>2
    <3>4. g[c].parent = h[c].parent /\ g[c].parent_idx = h[c].parent_idx
      BY <1>20, <3>2, <3>3
    <3> QED BY <1>18, <3>1, <3>2, <3>4 DEF LinkOK
  <2> QED BY <2>1, <2>2, <2>3
<1>22. Down(g, L)
  BY <1>21 DEF Down
<1>23. Arity(g, L)
  <2> SUFFICES ASSUME NEW m \in L
               PROVE  /\ g[m].height = 0 => Len(g[m].edges) = 0
                      /\ g[m].height # 0 => Len(g[m].edges) = Len(g[m].kv) + 1
    BY DEF Arity
  <2>1. CASE m = new
    <3>1. Len(g[m].edges) = n - idx /\ Len(g[m].kv) = n - idx - 1 /\ g[m].height # 0
      BY <1>3, <1>5, <1>18, <2>1
    <3> QED BY <1>1, <3>1
  <2>2. CASE m = p
    BY <1>1, <1>2, <1>4, <1>18, <2>2
  <2>3. CASE m # new /\ m # p
    <3>1. m \in DOMAIN h /\ g[m].edges = h[m].edges /\ g[m].height = h[m].height /\ g[m].kv = h[m].kv
      BY <1>18, <2>3
    <3> QED BY <3>1, NodeArity
  <2> QED BY <2>1, <2>2, <2>3
<1>24. Covered(g, L, T)
  <2> SUFFICES ASSUME NEW c \in L, c \notin T
               PROVE  \E m \in L : \E i \in 1 .. Len(g[m].edges) : g[m].edges[i] = c
    BY DEF Covered
  <2> DEFINE m == h[c].parent
             i == h[c].parent_idx + 1
  <2>1. m \in DOMAIN h /\ i \in 1 .. Len(h[m].edges) /\ h[m].edges[i] = c
    BY WellFormedFacts
  <2> HIDE DEF m, i
  <2>2. CASE m # p
    BY <1>18, <2>1, <2>2
  <2>3. CASE m = p
    <3>1. i \in 1 .. n + 1 /\ E[i] = c
      BY <1>1, <1>7, <2>1, <2>3
    <3>2. CASE i <= idx + 1
      <4>1. i \in 1 .. idx + 1 /\ i \in 1 .. Len(g[p].edges)
        BY <1>1, <1>4, <1>18, <3>1, <3>2
      <4>2. g[p].edges[i] = c
        BY <1>4, <1>18, <3>1, <4>1
      <4> QED BY <4>1, <4>2
    <3>3. CASE i > idx + 1
      <4>1. i - (idx + 1) \in 1 .. n - idx /\ idx + 1 + (i - (idx + 1)) = i
        BY <1>1, <3>1, <3>3
      <4>2. Q[i - (idx + 1)] = c
        BY <1>5, <3>1, <4>1
      <4>3. g[new].edges = Q /\ i - (idx + 1) \in 1 .. Len(Q) /\ new \in L
        BY <1>5, <1>18, <4>1
      <4> QED BY <4>2, <4>3
    <3> QED BY <1>1, <3>1, <3>2, <3>3
  <2> QED BY <2>2, <2>3
<1>25. \A m \in L \cap T : g[m].parent = Nil
  <2> SUFFICES ASSUME NEW m \in L, m \in T PROVE g[m].parent = Nil
    OBVIOUS
  <2>1. CASE m = new
    <3>1. \A j \in 1 .. n - idx : Q[j] # m
      BY <1>15, <2>1
    <3> QED BY <1>20, <2>1, <3>1
  <2>2. CASE m # new
    <3>1. m \in DOMAIN h /\ h[m].parent = Nil /\ p # Nil
      BY <1>1, <2>2, WellFormedFacts, HeapNode
    <3>2. \A j \in 1 .. n - idx : Q[j] # m
      BY <1>15, <3>1
    <3> QED BY <1>20, <2>2, <3>1, <3>2
  <2> QED BY <2>1, <2>2
<1>26. WellFormed(g, T)
  <2>1. g = [m \in L |-> g[m]] /\ HeapType(g) /\ L \subseteq DOMAIN g
    BY <1>12, <1>17, SelfRestrict
  <2>2. \A m \in L : \A i \in 1 .. Len(g[m].edges) : LinkOK(g, m, i)
    BY <1>21
  <2> HIDE DEF L, T
  <2> QED BY <1>22, <1>23, <1>24, <1>25, <2>1, <2>2, LinkedWellFormed
<1> QED BY <1>2, <1>3, <1>6, <1>7, <1>12, <1>17, <1>18, <1>26

\* g is h with right and the pair of p before it merged into left.
Merged(g, h, tops, p, left, right) ==
  /\ DOMAIN g = DOMAIN h \ {right} /\ WellFormed(g, tops)
  /\ p \in DOMAIN g /\ left \in DOMAIN g /\ left # p /\ right # p
  /\ h[left].height = h[p].height - 1 /\ h[right].height = h[p].height - 1
  /\ Len(g[p].kv) = Len(h[p].kv) - 1
  /\ Len(g[left].kv) = Len(h[left].kv) + 1 + Len(h[right].kv)
  /\ \A m \in DOMAIN g : g[m].height = h[m].height
  /\ \A m \in DOMAIN g \ {p, left} : g[m].kv = h[m].kv

\* BalancingContext::do_merge.
LEMMA DoMerge ==
  ASSUME NEW h, NEW tops, WellFormed(h, tops), NEW p \in DOMAIN h, h[p].height # 0,
         NEW idx \in 0 .. Len(h[p].kv) - 1
  PROVE  Merged(do_merge(h, p, idx), h, tops, p, descend(h, p, idx), descend(h, p, idx + 1))
<1> SUFFICES LET g == do_merge(h, p, idx)
                 left == descend(h, p, idx)
                 right == descend(h, p, idx + 1)
             IN  /\ DOMAIN g = DOMAIN h \ {right} /\ WellFormed(g, tops)
                 /\ p \in DOMAIN g /\ left \in DOMAIN g /\ left # p /\ right # p
                 /\ h[left].height = h[p].height - 1 /\ h[right].height = h[p].height - 1
                 /\ Len(g[p].kv) = Len(h[p].kv) - 1
                 /\ Len(g[left].kv) = Len(h[left].kv) + 1 + Len(h[right].kv)
                 /\ \A m \in DOMAIN g : g[m].height = h[m].height
                 /\ \A m \in DOMAIN g \ {p, left} : g[m].kv = h[m].kv
  BY DEF Merged
<1> DEFINE E == h[p].edges
           n == Len(h[p].kv)
           left == E[idx + 1]
           right == E[idx + 2]
           A == h[left].edges
           C == h[right].edges
           a == Len(A)
           c == Len(C)
           S == slice_remove(h[p].kv, idx)
           R == slice_remove(E, idx + 1)
           U == h[left].kv \o <<h[p].kv[idx + 1]>> \o h[right].kv
           W == A \o C
           q == WithData(h[left], U, W)
           r == WithData(h[p], S, R)
           f == [h EXCEPT ![left] = q]
           k == [f EXCEPT ![p] = r]
           l == correct_childrens_parent_links(k, p, idx + 1, n)
           lo == Len(h[left].kv) + 1
           hi == Len(h[left].kv) + 1 + Len(h[right].kv) + 1
           g == IF h[p].height > 1 THEN correct_childrens_parent_links(l, left, lo, hi) ELSE l
           L == DOMAIN h \ {right}
<1>1. HeapType(h) /\ h[p] \in Node /\ h[p].kv \in Seq(KV) /\ E \in Seq(NodeId) /\ n \in Nat
      /\ Len(E) = n + 1 /\ idx \in Nat /\ idx < n /\ h[p].height \in Nat /\ p # Nil
  BY HeapNode, NodeArity DEF WellFormed
<1>2. \A j \in 1 .. n + 1 : /\ E[j] \in DOMAIN h /\ h[E[j]].height = h[p].height - 1
                            /\ h[E[j]].parent = p /\ h[E[j]].parent_idx = j - 1
  BY <1>1, WellFormedFacts
<1>3. /\ left \in DOMAIN h /\ h[left].height = h[p].height - 1
      /\ h[left].parent = p /\ h[left].parent_idx = idx
      /\ right \in DOMAIN h /\ h[right].height = h[p].height - 1
      /\ h[right].parent = p /\ h[right].parent_idx = idx + 1
  <2>1. idx + 1 \in 1 .. n + 1 /\ idx + 2 \in 1 .. n + 1 /\ (idx + 1) - 1 = idx
        /\ (idx + 2) - 1 = idx + 1
    BY <1>1
  <2> HIDE DEF E, n
  <2> QED BY <1>2, <2>1
<1>4. descend(h, p, idx) = left /\ descend(h, p, idx + 1) = right
  <2>1. (idx + 1) + 1 = idx + 2
    BY <1>1
  <2> QED BY <2>1 DEF descend
<1> HIDE DEF left, right
<1>5. left # right /\ left # p /\ right # p
  BY <1>1, <1>3
<1>6. /\ h[left] \in Node /\ h[left].kv \in Seq(KV) /\ A \in Seq(NodeId) /\ a \in Nat
      /\ Len(h[left].kv) \in Nat /\ h[left].height \in Nat
      /\ h[right].kv \in Seq(KV) /\ C \in Seq(NodeId) /\ c \in Nat
      /\ Len(h[right].kv) \in Nat /\ left # Nil /\ right # Nil
  BY <1>1, <1>3, HeapNode
<1>7. /\ h[p].height = 1 => a = 0 /\ c = 0
      /\ h[p].height # 1 => a = Len(h[left].kv) + 1 /\ c = Len(h[right].kv) + 1
  <2>1. /\ h[left].height = 0 => a = 0
        /\ h[left].height # 0 => a = Len(h[left].kv) + 1
    BY <1>3, NodeArity
  <2>2. /\ h[right].height = 0 => c = 0
        /\ h[right].height # 0 => c = Len(h[right].kv) + 1
    BY <1>3, NodeArity
  <2>3. /\ h[p].height = 1 => h[left].height = 0 /\ h[right].height = 0
        /\ h[p].height # 1 => h[left].height # 0 /\ h[right].height # 0
    BY <1>1, <1>3
  <2> QED BY <2>1, <2>2, <2>3
<1>8. do_merge(h, p, idx) = [m \in DOMAIN g \ {right} |-> g[m]]
  <2>1. k = [h EXCEPT ![left] = q, ![p] = r]
    OBVIOUS
  <2> QED BY <1>4, <1>5, <2>1 DEF do_merge, Deallocate, len
<1>9. /\ \A j \in 1 .. a : /\ A[j] \in DOMAIN h /\ h[A[j]].height = h[left].height - 1
                           /\ h[A[j]].parent = left /\ h[A[j]].parent_idx = j - 1
      /\ \A j \in 1 .. c : /\ C[j] \in DOMAIN h /\ h[C[j]].height = h[left].height - 1
                           /\ h[C[j]].parent = right /\ h[C[j]].parent_idx = j - 1
  BY <1>3, WellFormedFacts
<1>10. /\ E = h[p].edges /\ n = Len(h[p].kv) /\ A = h[left].edges /\ C = h[right].edges
       /\ a = Len(A) /\ c = Len(C) /\ lo = Len(h[left].kv) + 1
       /\ hi = Len(h[left].kv) + 1 + Len(h[right].kv) + 1 /\ L = DOMAIN h \ {right}
       /\ left = E[idx + 1] /\ right = E[idx + 2]
  BY DEF left, right
<1>11. S \in Seq(KV) /\ Len(S) = n - 1
  BY <1>1, SliceRemoveProps DEF IsRemove
<1>12. R \in Seq(NodeId) /\ IsRemove(R, E, idx + 1)
  BY <1>1, SliceRemoveProps
<1>13. U \in Seq(KV) /\ Len(U) = Len(h[left].kv) + 1 + Len(h[right].kv)
  <2>1. h[p].kv[idx + 1] \in KV
    BY <1>1
  <2> QED BY <1>6, <2>1
<1>14. W \in Seq(NodeId) /\ IsConcat(W, A, C)
  BY <1>6, ConcatProps
<1> HIDE DEF E, n, S, U, R, W, A, C, a, c, lo, hi, L
<1>15. /\ Len(R) = n
       /\ \A j \in 1 .. n : /\ j <= idx + 1 => R[j] = E[j]
                            /\ j > idx + 1 => R[j] = E[j + 1]
  <2>1. Len(E) - 1 = n
    BY <1>1
  <2> QED BY <1>12, <2>1 DEF IsRemove
<1>16. /\ Len(W) = a + c
       /\ \A j \in 1 .. a + c : /\ j <= a => W[j] = A[j]
                                /\ j > a => W[j] = C[j - a]
  <2>1. Len(A) = a /\ Len(C) = c
    BY <1>10
  <2> QED BY ONLY <1>14, <2>1 DEF IsConcat
<1>17. q \in Node /\ q.kv = U /\ q.edges = W /\ q.height = h[left].height
       /\ q.parent = h[left].parent /\ q.parent_idx = h[left].parent_idx
  <2>1. h[left] \in Node /\ U \in Seq(KV) /\ W \in Seq(NodeId)
    BY <1>6, <1>13, <1>14
  <2> QED BY <2>1, WithDataProps
<1>18. r \in Node /\ r.kv = S /\ r.edges = R /\ r.height = h[p].height
       /\ r.parent = h[p].parent /\ r.parent_idx = h[p].parent_idx
  BY <1>1, <1>11, <1>12, WithDataProps
<1> HIDE DEF q, r
<1>19. DOMAIN f = DOMAIN h /\ HeapType(f) /\ f[left] = q
       /\ \A m \in DOMAIN h : m # left => f[m] = h[m]
  BY <1>1, <1>3, <1>17, UpdateProps
<1> HIDE DEF f
<1>20. DOMAIN k = DOMAIN h /\ HeapType(k) /\ k[p] = r
       /\ \A m \in DOMAIN h : m # p => k[m] = f[m]
  BY <1>18, <1>19, UpdateProps
<1> HIDE DEF k
<1>21. /\ k[p].kv = S /\ k[p].edges = R /\ k[left].kv = U /\ k[left].edges = W
       /\ \A m \in DOMAIN h \ {p, left} : k[m].kv = h[m].kv /\ k[m].edges = h[m].edges
       /\ \A m \in DOMAIN h : /\ k[m].height = h[m].height /\ k[m].parent = h[m].parent
                              /\ k[m].parent_idx = h[m].parent_idx
  BY <1>3, <1>5, <1>17, <1>18, <1>19, <1>20
\* The children of p right of the merged ones, and where they were.
<1>22. \A i \in idx + 1 .. n - 1 :
         /\ descend(k, p, i) = R[i + 1] /\ R[i + 1] = E[i + 2]
         /\ E[i + 2] \in DOMAIN h /\ h[E[i + 2]].parent = p /\ h[E[i + 2]].parent_idx = i + 1
         /\ E[i + 2] # right
  <2> SUFFICES ASSUME NEW i \in idx + 1 .. n - 1
               PROVE  /\ descend(k, p, i) = R[i + 1] /\ R[i + 1] = E[i + 2]
                      /\ E[i + 2] \in DOMAIN h /\ h[E[i + 2]].parent = p
                      /\ h[E[i + 2]].parent_idx = i + 1 /\ E[i + 2] # right
    OBVIOUS
  <2>1. /\ i + 1 \in 1 .. n /\ i + 1 > idx + 1 /\ (i + 1) + 1 = i + 2 /\ i + 2 \in 1 .. n + 1
        /\ (i + 2) - 1 = i + 1 /\ i + 1 # idx + 1
    BY <1>1, SMTT(30)
  <2>2. R[i + 1] = E[i + 2]
    BY <1>15, <2>1
  <2>3. E[i + 2] \in DOMAIN h /\ h[E[i + 2]].parent = p /\ h[E[i + 2]].parent_idx = i + 1
    BY <1>2, <2>1
  <2> QED BY <1>3, <1>21, <2>1, <2>2, <2>3 DEF descend
<1>23. /\ DOMAIN l = DOMAIN k /\ HeapType(l)
       /\ \A m \in DOMAIN k : l[m].kv = k[m].kv /\ l[m].edges = k[m].edges /\ l[m].height = k[m].height
       /\ \A i \in idx + 1 .. n - 1 : descend(k, p, i) \in DOMAIN k =>
            l[descend(k, p, i)].parent = p /\ l[descend(k, p, i)].parent_idx = i
       /\ \A m \in DOMAIN k : (\A i \in idx + 1 .. n - 1 : descend(k, p, i) # m) => l[m] = k[m]
  <2>1. \A i, j \in idx + 1 .. n - 1 : descend(k, p, i) = descend(k, p, j) => i = j
    <3> SUFFICES ASSUME NEW i \in idx + 1 .. n - 1, NEW j \in idx + 1 .. n - 1,
                        E[i + 2] = E[j + 2]
                 PROVE  i = j
      BY <1>22
    <3>1. i + 1 = j + 1
      BY <1>22
    <3> QED BY <3>1
  <2>2. p \in DOMAIN k /\ n <= Len(k[p].edges) /\ idx + 1 \in Nat /\ n \in Nat
    BY <1>1, <1>15, <1>20, <1>21
  <2>3. Relinked(l, k, p, idx + 1, n)
    BY <1>20, <2>1, <2>2, CorrectLinksProps
  <2> QED BY <2>3 DEF Relinked
<1> HIDE DEF l
<1>24. /\ DOMAIN l = DOMAIN h /\ HeapType(l)
       /\ l[p].kv = S /\ l[p].edges = R /\ l[left].kv = U /\ l[left].edges = W
       /\ \A m \in DOMAIN h \ {p, left} : l[m].kv = h[m].kv /\ l[m].edges = h[m].edges
       /\ \A m \in DOMAIN h : l[m].height = h[m].height
  BY <1>3, <1>20, <1>21, <1>23
<1>25. /\ \A i \in idx + 1 .. n - 1 : l[E[i + 2]].parent = p /\ l[E[i + 2]].parent_idx = i
       /\ \A m \in DOMAIN h : (\A i \in idx + 1 .. n - 1 : E[i + 2] # m) =>
            l[m].parent = h[m].parent /\ l[m].parent_idx = h[m].parent_idx
  BY <1>20, <1>21, <1>22, <1>23
\* The children that the left node has taken over.
<1>26. /\ DOMAIN g = DOMAIN h /\ HeapType(g)
       /\ \A m \in DOMAIN h : g[m].kv = l[m].kv /\ g[m].edges = l[m].edges /\ g[m].height = l[m].height
       /\ \A j \in 1 .. c : g[C[j]].parent = left /\ g[C[j]].parent_idx = a + j - 1
       /\ \A m \in DOMAIN h : (\A j \in 1 .. c : C[j] # m) => g[m] = l[m]
  <2>1. CASE h[p].height = 1
    <3>1. g = l /\ c = 0
      BY <1>7, <2>1
    <3> HIDE DEF g
    <3> QED BY <1>24, <3>1
  <2>2. CASE h[p].height # 1
    <3>1. g = correct_childrens_parent_links(l, left, a, a + c)
      <4>1. h[p].height > 1
        BY <1>1, <2>2
      <4>2. a = Len(h[left].kv) + 1 /\ c = Len(h[right].kv) + 1
        BY <1>7, <2>2
      <4>3. Len(h[left].kv) \in Nat /\ Len(h[right].kv) \in Nat
        BY <1>6
      <4>4. lo = a /\ hi = a + c
        <5>1. PICK x \in Nat : x = Len(h[left].kv)
          BY <4>3
        <5>2. PICK y \in Nat : y = Len(h[right].kv)
          BY <4>3
        <5>3. a = x + 1 /\ c = y + 1 /\ lo = x + 1 /\ hi = x + 1 + y + 1
          BY <1>10, <4>2, <5>1, <5>2
        <5> QED BY ONLY <5>3
      <4>5. g = correct_childrens_parent_links(l, left, lo, hi)
        BY <4>1
      <4> HIDE DEF g
      <4> QED BY <4>4, <4>5
    <3> HIDE DEF g
    <3>2. \A i \in a .. (a + c) - 1 :
            /\ i + 1 \in 1 .. a + c /\ (i + 1) - a \in 1 .. c /\ i + 1 > a
            /\ descend(l, left, i) = C[(i + 1) - a]
      <4>1. \A i \in a .. (a + c) - 1 : i + 1 \in 1 .. a + c /\ (i + 1) - a \in 1 .. c /\ i + 1 > a
        BY <1>6
      <4>2. \A i \in a .. (a + c) - 1 : W[i + 1] = C[(i + 1) - a]
        BY <1>16, <4>1
      <4>3. \A i : descend(l, left, i) = W[i + 1]
        BY <1>24 DEF descend
      <4> QED BY ONLY <4>1, <4>2, <4>3
    <3>3. \A i, j \in a .. (a + c) - 1 : descend(l, left, i) = descend(l, left, j) => i = j
      <4> SUFFICES ASSUME NEW i \in a .. (a + c) - 1, NEW j \in a .. (a + c) - 1,
                          C[(i + 1) - a] = C[(j + 1) - a]
                   PROVE  i = j
        BY <3>2
      <4>1. ((i + 1) - a) - 1 = ((j + 1) - a) - 1
        BY <1>9, <3>2
      <4> QED BY <1>6, <4>1
    <3>4. left \in DOMAIN l /\ a + c <= Len(l[left].edges) /\ a \in Nat /\ a + c \in Nat
      BY <1>3, <1>6, <1>16, <1>24
    <3>5. /\ DOMAIN g = DOMAIN l /\ HeapType(g)
          /\ \A m \in DOMAIN l : g[m].kv = l[m].kv /\ g[m].edges = l[m].edges /\ g[m].height = l[m].height
          /\ \A i \in a .. (a + c) - 1 : descend(l, left, i) \in DOMAIN l =>
               g[descend(l, left, i)].parent = left /\ g[descend(l, left, i)].parent_idx = i
          /\ \A m \in DOMAIN l : (\A i \in a .. (a + c) - 1 : descend(l, left, i) # m) => g[m] = l[m]
      <4>1. HeapType(l)
        BY <1>24
      <4>2. Relinked(g, l, left, a, a + c)
        BY <3>1, <3>3, <3>4, <4>1, CorrectLinksProps
      <4> QED BY <4>2 DEF Relinked
    <3>6. ASSUME NEW j \in 1 .. c
          PROVE  g[C[j]].parent = left /\ g[C[j]].parent_idx = a + j - 1
      <4>1. a + j - 1 \in a .. (a + c) - 1 /\ ((a + j - 1) + 1) - a = j
        BY <1>6
      <4>2. descend(l, left, a + j - 1) = C[j]
        BY <3>2, <4>1
      <4>3. C[j] \in DOMAIN l
        BY <1>9, <1>24
      <4> QED BY <3>5, <4>1, <4>2, <4>3
    <3>7. ASSUME NEW m \in DOMAIN h, \A j \in 1 .. c : C[j] # m
          PROVE  g[m] = l[m]
      <4>1. \A i \in a .. (a + c) - 1 : descend(l, left, i) # m
        BY <3>2, <3>7
      <4> QED BY <1>24, <3>5, <4>1
    <3> QED BY <1>24, <3>5, <3>6, <3>7
  <2> QED BY <2>1, <2>2
<1> HIDE DEF g
<1>27. /\ g[p].kv = S /\ g[p].edges = R /\ g[left].kv = U /\ g[left].edges = W
       /\ \A m \in DOMAIN h \ {p, left} : g[m].kv = h[m].kv /\ g[m].edges = h[m].edges
       /\ \A m \in DOMAIN h : g[m].height = h[m].height
  BY <1>3, <1>24, <1>26
<1>28. \A i \in idx + 1 .. n - 1 : g[E[i + 2]].parent = p /\ g[E[i + 2]].parent_idx = i
  <2> SUFFICES ASSUME NEW i \in idx + 1 .. n - 1
               PROVE  g[E[i + 2]].parent = p /\ g[E[i + 2]].parent_idx = i
    OBVIOUS
  <2>1. E[i + 2] \in DOMAIN h /\ \A j \in 1 .. c : C[j] # E[i + 2]
    BY <1>5, <1>9, <1>22
  <2> QED BY <1>25, <1>26, <2>1
\* All other links are as they were.
<1>29. ASSUME NEW m \in DOMAIN h, h[m].parent # right,
              h[m].parent = p => h[m].parent_idx <= idx + 1
       PROVE  g[m].parent = h[m].parent /\ g[m].parent_idx = h[m].parent_idx
  <2>1. \A j \in 1 .. c : C[j] # m
    BY <1>9, <1>29
  <2>2. ASSUME NEW i \in idx + 1 .. n - 1, E[i + 2] = m PROVE FALSE
    <3>1. h[m].parent = p /\ h[m].parent_idx = i + 1
      BY <1>22, <2>2
    <3>2. ~(i + 1 <= idx + 1)
      BY <1>1
    <3> QED BY <1>29, <3>1, <3>2
  <2> QED BY <1>25, <1>26, <2>1, <2>2
<1>30. ASSUME NEW m \in L, NEW i \in 1 .. Len(g[m].edges)
       PROVE  /\ g[m].edges[i] \in L /\ g[g[m].edges[i]].height = g[m].height - 1
              /\ LinkOK(g, m, i)
  <2> DEFINE d == g[m].edges[i]
  <2> SUFFICES /\ d \in DOMAIN h /\ d # right /\ h[d].height = h[m].height - 1
               /\ g[d].parent = m /\ g[d].parent_idx = i - 1
    BY <1>10, <1>27 DEF LinkOK
  <2>1. CASE m = p
    <3>1. i \in 1 .. n /\ d = R[i]
      BY <1>15, <1>27, <2>1
    <3>2. CASE i <= idx + 1
      <4>1. i \in 1 .. n + 1 /\ i - 1 <= idx + 1 /\ i - 1 # idx + 1
        BY <1>1, <3>1, <3>2
      <4>2. d = E[i]
        BY <1>15, <3>1, <3>2
      <4>3. d \in DOMAIN h /\ h[d].height = h[p].height - 1 /\ h[d].parent = p /\ h[d].parent_idx = i - 1
        BY <1>2, <4>1, <4>2
      <4> HIDE DEF d
      <4> QED BY <1>3, <1>5, <1>29, <2>1, <4>1, <4>3
    <3>3. CASE i > idx + 1
      <4>1. i - 1 \in idx + 1 .. n - 1 /\ (i - 1) + 2 = i + 1 /\ i + 1 \in 1 .. n + 1
        BY <1>1, <3>1, <3>3
      <4>2. d = E[i + 1]
        BY <1>15, <3>1, <3>3
      <4>3. d \in DOMAIN h /\ h[d].height = h[p].height - 1
        BY <1>2, <4>1, <4>2
      <4>4. d # right
        BY <1>22, <4>1, <4>2
      <4>5. g[d].parent = p /\ g[d].parent_idx = i - 1
        BY <1>28, <4>1, <4>2
      <4> HIDE DEF d
      <4> QED BY <2>1, <4>3, <4>4, <4>5
    <3> QED BY <1>1, <3>1, <3>2, <3>3
  <2>2. CASE m = left
    <3>1. i \in 1 .. a + c /\ d = W[i]
      BY <1>16, <1>27, <2>2
    <3>2. CASE i <= a
      <4>1. i \in 1 .. a /\ d = A[i]
        BY <1>6, <1>16, <3>1, <3>2
      <4>2. /\ d \in DOMAIN h /\ h[d].height = h[left].height - 1
            /\ h[d].parent = left /\ h[d].parent_idx = i - 1
        BY <1>9, <4>1
      <4> HIDE DEF d
      <4> QED BY <1>3, <1>5, <1>29, <2>2, <4>2
    <3>3. CASE i > a
      <4>1. i - a \in 1 .. c /\ a + (i - a) - 1 = i - 1
        BY <1>6, <3>1, <3>3, SMTT(30)
      <4>2. d = C[i - a]
        BY <1>16, <3>1, <3>3
      <4>3. d \in DOMAIN h /\ h[d].height = h[left].height - 1 /\ h[d].parent = right
        BY <1>9, <4>1, <4>2
      <4>4. g[d].parent = left /\ g[d].parent_idx = i - 1
        BY <1>26, <4>1, <4>2
      <4> HIDE DEF d
      <4> QED BY <1>3, <1>5, <2>2, <4>3, <4>4
    <3> QED BY <1>6, <3>1, <3>2, <3>3
  <2>3. CASE m # p /\ m # left
    <3>1. m \in DOMAIN h /\ m # right /\ g[m].edges = h[m].edges
      BY <1>10, <1>27, <2>3
    <3>2. /\ d \in DOMAIN h /\ h[d].height = h[m].height - 1
          /\ h[d].parent = m /\ h[d].parent_idx = i - 1
      BY <3>1, WellFormedFacts
    <3> HIDE DEF d
    <3> QED BY <1>3, <1>29, <2>3, <3>1, <3>2
  <2> QED BY <2>1, <2>2, <2>3
<1>31. Down(g, L)
  BY <1>30 DEF Down
<1>32. Arity(g, L)
  <2> SUFFICES ASSUME NEW m \in L
               PROVE  /\ g[m].height = 0 => Len(g[m].edges) = 0
                      /\ g[m].height # 0 => Len(g[m].edges) = Len(g[m].kv) + 1
    BY DEF Arity
  <2>1. CASE m = p
    <3>1. g[m].height # 0 /\ Len(g[m].edges) = n /\ Len(g[m].kv) = n - 1
      BY <1>11, <1>15, <1>27, <2>1
    <3> QED BY <1>1, <3>1
  <2>2. CASE m = left
    <3>1. /\ g[m].height = h[p].height - 1 /\ Len(g[m].edges) = a + c
          /\ Len(g[m].kv) = Len(h[left].kv) + 1 + Len(h[right].kv)
      BY <1>3, <1>13, <1>16, <1>27, <2>2
    <3>2. PICK x \in Nat : x = Len(h[left].kv)
      BY <1>6
    <3>3. PICK y \in Nat : y = Len(h[right].kv)
      BY <1>6
    <3>4. CASE h[p].height = 1
      <4>1. a = 0 /\ c = 0 /\ g[m].height = 0
        BY <1>7, <3>1, <3>4
      <4>2. Len(g[m].edges) = 0
        BY <3>1, <4>1
      <4> QED BY <4>1, <4>2
    <3>5. CASE h[p].height # 1
      <4>1. a = x + 1 /\ c = y + 1 /\ g[m].height # 0
        BY <1>1, <1>7, <3>1, <3>2, <3>3, <3>5
      <4>2. Len(g[m].edges) = (x + 1) + (y + 1) /\ Len(g[m].kv) = x + 1 + y
        BY <3>1, <3>2, <3>3, <4>1
      <4> QED BY <4>1, <4>2
    <3> QED BY <3>4, <3>5
  <2>3. CASE m # p /\ m # left
    <3>1. m \in DOMAIN h /\ g[m].edges = h[m].edges /\ g[m].height = h[m].height /\ g[m].kv = h[m].kv
      BY <1>10, <1>27, <2>3
    <3> QED BY <3>1, NodeArity
  <2> QED BY <2>1, <2>2, <2>3
<1>33. Covered(g, L, tops)
  <2> SUFFICES ASSUME NEW d \in L, d \notin tops
               PROVE  \E m \in L : \E i \in 1 .. Len(g[m].edges) : g[m].edges[i] = d
    BY DEF Covered
  <2> DEFINE m == h[d].parent
             i == h[d].parent_idx + 1
  <2>1. m \in DOMAIN h /\ i \in 1 .. Len(h[m].edges) /\ h[m].edges[i] = d /\ d # right
    BY <1>10, WellFormedFacts
  <2> HIDE DEF m, i
  <2>2. p \in L /\ left \in L
    BY <1>3, <1>5, <1>10
  <2>3. CASE m = p
    <3>1. i \in 1 .. n + 1 /\ E[i] = d
      BY <1>1, <1>10, <2>1, <2>3
    <3>2. i # idx + 2
      BY <1>10, <2>1, <3>1
    <3>3. CASE i <= idx + 1
      <4>1. i \in 1 .. n
        BY <1>1, <3>1, <3>3
      <4>2. R[i] = d
        BY <1>15, <3>1, <3>3, <4>1
      <4> QED BY <1>15, <1>27, <2>2, <4>1, <4>2
    <3>4. CASE i > idx + 2
      <4>1. i - 1 \in 1 .. n /\ i - 1 > idx + 1 /\ (i - 1) + 1 = i
        BY <1>1, <3>1, <3>4
      <4>2. R[i - 1] = d
        BY <1>15, <3>1, <4>1
      <4> QED BY <1>15, <1>27, <2>2, <4>1, <4>2
    <3> QED BY <1>1, <3>1, <3>2, <3>3, <3>4, SMTT(30)
  <2>4. CASE m = left
    <3>0. i \in 1 .. a /\ A[i] = d
      BY <1>10, <2>1, <2>4
    <3>1. i \in 1 .. a + c /\ i <= a
      BY <1>6, <3>0
    <3>2. W[i] = d
      BY <1>16, <3>0, <3>1
    <3> QED BY <1>16, <1>27, <2>2, <3>1, <3>2
  <2>5. CASE m = right
    <3>1. i \in 1 .. c /\ C[i] = d
      BY <1>10, <2>1, <2>5
    <3>2. a + i \in 1 .. a + c /\ a + i > a /\ (a + i) - a = i
      BY <1>6, <3>1
    <3>3. W[a + i] = d
      BY <1>16, <3>1, <3>2
    <3> QED BY <1>16, <1>27, <2>2, <3>2, <3>3
  <2>6. CASE m # p /\ m # left /\ m # right
    BY <1>10, <1>27, <2>1, <2>6
  <2> QED BY <2>3, <2>4, <2>5, <2>6
<1>34. \A m \in L \cap tops : g[m].parent = Nil
  <2> SUFFICES ASSUME NEW m \in L, m \in tops PROVE g[m].parent = Nil
    OBVIOUS
  <2>1. m \in DOMAIN h /\ h[m].parent = Nil
    BY <1>10, WellFormedFacts
  <2> QED BY <1>1, <1>6, <1>29, <2>1
<1>35. WellFormed([m \in L |-> g[m]], tops)
  <2>1. HeapType(g) /\ L \subseteq DOMAIN g
    BY <1>10, <1>26, ZenonT(30)
  <2>2. \A m \in L : \A i \in 1 .. Len(g[m].edges) : LinkOK(g, m, i)
    BY <1>30
  <2> QED BY <1>31, <1>32, <1>33, <1>34, <2>1, <2>2, LinkedWellFormed
<1> DEFINE G == do_merge(h, p, idx)
<1>36. G = [m \in L |-> g[m]]
  BY <1>8, <1>10, <1>26, ZenonT(30)
<1> HIDE DEF G
<1>37. /\ DOMAIN G = L /\ WellFormed(G, tops) /\ p \in L /\ left \in L
       /\ Len(G[p].kv) = n - 1
       /\ Len(G[left].kv) = Len(h[left].kv) + 1 + Len(h[right].kv)
       /\ \A m \in L : G[m].height = h[m].height
       /\ \A m \in L \ {p, left} : G[m].kv = h[m].kv
  BY <1>3, <1>5, <1>10, <1>11, <1>13, <1>27, <1>35, <1>36
<1> QED BY <1>3, <1>4, <1>5, <1>10, <1>37 DEF G

\* The two children on either side of a pair.
LEMMA Siblings ==
  ASSUME NEW h, NEW tops, WellFormed(h, tops), NEW p \in DOMAIN h, h[p].height # 0,
         NEW idx \in 0 .. Len(h[p].kv) - 1,
         NEW left, left = descend(h, p, idx), NEW right, right = descend(h, p, idx + 1)
  PROVE  /\ left \in DOMAIN h /\ right \in DOMAIN h
         /\ left # right /\ left # p /\ right # p
         /\ h[left].height = h[p].height - 1 /\ h[right].height = h[p].height - 1
         /\ h[left].parent = p /\ h[left].parent_idx = idx
         /\ h[right].parent = p /\ h[right].parent_idx = idx + 1
<1> DEFINE E == h[p].edges
           n == Len(h[p].kv)
<1>1. n \in Nat /\ Len(E) = n + 1 /\ idx \in Nat /\ idx < n /\ h[p].height \in Nat
  BY NodeArity
<1>2. \A j \in 1 .. n + 1 : /\ E[j] \in DOMAIN h /\ h[E[j]].height = h[p].height - 1
                            /\ h[E[j]].parent = p /\ h[E[j]].parent_idx = j - 1
  BY <1>1, WellFormedFacts
<1>3. /\ idx + 1 \in 1 .. n + 1 /\ idx + 2 \in 1 .. n + 1 /\ (idx + 1) - 1 = idx
      /\ (idx + 2) - 1 = idx + 1 /\ (idx + 1) + 1 = idx + 2
  BY <1>1, SMTT(30)
<1>4. left = E[idx + 1] /\ right = E[idx + 2]
  BY <1>3 DEF descend
<1> HIDE DEF E, n
<1>5. /\ left \in DOMAIN h /\ h[left].height = h[p].height - 1
      /\ h[left].parent = p /\ h[left].parent_idx = idx
      /\ right \in DOMAIN h /\ h[right].height = h[p].height - 1
      /\ h[right].parent = p /\ h[right].parent_idx = idx + 1
  BY <1>2, <1>3, <1>4
<1> QED BY <1>1, <1>5

\* g is h after edges have moved, in order, between left and right, which then
\* have x and y edges.
MovedEdges(g, h, left, right, x, y) ==
  LET A == h[left].edges
      C == h[right].edges
  IN  /\ Len(g[left].edges) = x /\ Len(g[right].edges) = y /\ x + y = Len(A) + Len(C)
      /\ \A j \in 1 .. x : /\ j <= Len(A) => g[left].edges[j] = A[j]
                           /\ j > Len(A) => g[left].edges[j] = C[j - Len(A)]
      /\ \A j \in 1 .. y : /\ x + j <= Len(A) => g[right].edges[j] = A[x + j]
                           /\ x + j > Len(A) => g[right].edges[j] = C[x + j - Len(A)]

\* All other edges and links, all heights and the lengths of other nodes are the same.
OthersKept(g, h, left, right) ==
  /\ HeapType(g) /\ DOMAIN g = DOMAIN h
  /\ \A m \in DOMAIN h : g[m].height = h[m].height
  /\ \A m \in DOMAIN h \ {left, right} : g[m].edges = h[m].edges /\ Len(g[m].kv) = Len(h[m].kv)
  /\ \A m \in DOMAIN h : h[m].parent \notin {left, right} =>
       g[m].parent = h[m].parent /\ g[m].parent_idx = h[m].parent_idx

\* Moving children between two nodes of the same height, in order, keeps the
\* heap well-formed if their links are corrected.
LEMMA Redistribute ==
  ASSUME NEW h, NEW tops, WellFormed(h, tops), NEW left \in DOMAIN h, NEW right \in DOMAIN h,
         left # right, h[left].height = h[right].height, h[left].height # 0,
         NEW x \in Nat, x >= 1, NEW y \in Nat, y >= 1,
         NEW g, OthersKept(g, h, left, right), MovedEdges(g, h, left, right, x, y),
         \A j \in 1 .. x : LinkOK(g, left, j), \A j \in 1 .. y : LinkOK(g, right, j),
         Len(g[left].kv) = x - 1, Len(g[right].kv) = y - 1
  PROVE  WellFormed(g, tops)
<1> DEFINE L == DOMAIN h
           A == h[left].edges
           C == h[right].edges
           X == g[left].edges
           Y == g[right].edges
           a == Len(A)
           c == Len(C)
<1>1. a \in Nat /\ c \in Nat /\ left # Nil /\ right # Nil
  BY NodeArity, HeapNode DEF WellFormed
<1>2. /\ \A j \in 1 .. a : A[j] \in L /\ h[A[j]].height = h[left].height - 1
      /\ \A j \in 1 .. c : C[j] \in L /\ h[C[j]].height = h[left].height - 1
  BY WellFormedFacts
<1>3. \A j \in 1 .. x : /\ j <= a => X[j] = A[j]
                        /\ j > a => X[j] = C[j - a]
  BY DEF MovedEdges
<1>4. \A j \in 1 .. y : /\ x + j <= a => Y[j] = A[x + j]
                        /\ x + j > a => Y[j] = C[x + j - a]
  BY DEF MovedEdges
<1>5. /\ X = g[left].edges /\ Y = g[right].edges /\ A = h[left].edges /\ C = h[right].edges
      /\ a = Len(A) /\ c = Len(C) /\ Len(X) = x /\ Len(Y) = y
  BY DEF MovedEdges
<1>a. x + y = a + c
  BY DEF MovedEdges
<1>b. /\ \A j \in 1 .. x : LinkOK(g, left, j)
      /\ \A j \in 1 .. y : LinkOK(g, right, j)
  OBVIOUS
<1>c. /\ HeapType(g) /\ DOMAIN g = DOMAIN h
      /\ \A m \in DOMAIN h : g[m].height = h[m].height
      /\ \A m \in DOMAIN h \ {left, right} : g[m].edges = h[m].edges /\ Len(g[m].kv) = Len(h[m].kv)
      /\ \A m \in DOMAIN h : h[m].parent \notin {left, right} =>
           g[m].parent = h[m].parent /\ g[m].parent_idx = h[m].parent_idx
  BY DEF OthersKept
<1> HIDE DEF A, C, X, Y, a, c
<1>6. \A j \in 1 .. x : X[j] \in L /\ h[X[j]].height = h[left].height - 1
  <2> SUFFICES ASSUME NEW j \in 1 .. x PROVE X[j] \in L /\ h[X[j]].height = h[left].height - 1
    OBVIOUS
  <2>1. CASE j <= a
    <3>1. j \in 1 .. a /\ X[j] = A[j]
      BY <1>1, <1>3, <2>1
    <3> QED BY <1>2, <3>1
  <2>2. CASE j > a
    <3>1. j - a \in 1 .. c
      BY <1>1, <1>a, <2>2
    <3>2. X[j] = C[j - a]
      BY <1>3, <2>2
    <3> QED BY <1>2, <3>1, <3>2
  <2> QED BY <1>1, <2>1, <2>2
<1>7. \A j \in 1 .. y : Y[j] \in L /\ h[Y[j]].height = h[left].height - 1
  <2> SUFFICES ASSUME NEW j \in 1 .. y PROVE Y[j] \in L /\ h[Y[j]].height = h[left].height - 1
    OBVIOUS
  <2>1. CASE x + j <= a
    <3>1. x + j \in 1 .. a
      BY <1>1, <2>1
    <3>2. Y[j] = A[x + j]
      BY <1>4, <2>1
    <3> QED BY <1>2, <3>1, <3>2
  <2>2. CASE x + j > a
    <3>1. x + j - a \in 1 .. c
      BY <1>1, <1>a, <2>2
    <3>2. Y[j] = C[x + j - a]
      BY <1>4, <2>2
    <3> QED BY <1>2, <3>1, <3>2
  <2> QED BY <1>1, <2>1, <2>2
<1>8. ASSUME NEW m \in L, NEW i \in 1 .. Len(g[m].edges)
      PROVE  /\ g[m].edges[i] \in L /\ g[g[m].edges[i]].height = g[m].height - 1
             /\ LinkOK(g, m, i)
  <2>1. CASE m = left
    <3>1. i \in 1 .. x /\ g[m].edges[i] = X[i]
      BY <1>5, <2>1
    <3> QED BY <1>6, <1>b, <1>c, <2>1, <3>1
  <2>2. CASE m = right
    <3>1. i \in 1 .. y /\ g[m].edges[i] = Y[i]
      BY <1>5, <2>2
    <3> QED BY <1>7, <1>b, <1>c, <2>2, <3>1
  <2>3. CASE m # left /\ m # right
    <3>1. g[m].edges = h[m].edges
      BY <1>c, <2>3
    <3> DEFINE d == g[m].edges[i]
    <3>2. /\ d \in L /\ h[d].height = h[m].height - 1
          /\ h[d].parent = m /\ h[d].parent_idx = i - 1
      BY <3>1, WellFormedFacts
    <3>3. g[d].parent = m /\ g[d].parent_idx = i - 1
      <4> HIDE DEF d
      <4> QED BY <1>c, <2>3, <3>2
    <3> QED BY <1>c, <3>2, <3>3 DEF LinkOK
  <2> QED BY <2>1, <2>2, <2>3
<1>9. Down(g, L)
  BY <1>8 DEF Down
<1>10. Arity(g, L)
  <2> SUFFICES ASSUME NEW m \in L
               PROVE  /\ g[m].height = 0 => Len(g[m].edges) = 0
                      /\ g[m].height # 0 => Len(g[m].edges) = Len(g[m].kv) + 1
    BY DEF Arity
  <2>1. CASE m = left
    <3>1. g[m].height # 0 /\ Len(g[m].edges) = x /\ Len(g[m].kv) = x - 1
      BY <1>5, <1>c, <2>1
    <3> QED BY <3>1
  <2>2. CASE m = right
    <3>1. g[m].height # 0 /\ Len(g[m].edges) = y /\ Len(g[m].kv) = y - 1
      BY <1>5, <1>c, <2>2
    <3> QED BY <3>1
  <2>3. CASE m # left /\ m # right
    <3>1. g[m].edges = h[m].edges /\ g[m].height = h[m].height /\ Len(g[m].kv) = Len(h[m].kv)
      BY <1>c, <2>3
    <3> QED BY <3>1, NodeArity
  <2> QED BY <2>1, <2>2, <2>3
<1>11. Covered(g, L, tops)
  <2> SUFFICES ASSUME NEW d \in L, d \notin tops
               PROVE  \E m \in L : \E i \in 1 .. Len(g[m].edges) : g[m].edges[i] = d
    BY DEF Covered
  <2> DEFINE m == h[d].parent
             i == h[d].parent_idx + 1
  <2>1. m \in L /\ i \in 1 .. Len(h[m].edges) /\ h[m].edges[i] = d
    BY WellFormedFacts
  <2> HIDE DEF m, i
  <2>2. ASSUME NEW j \in 1 .. x, X[j] = d
        PROVE  \E u \in L : \E v \in 1 .. Len(g[u].edges) : g[u].edges[v] = d
    BY <1>5, <2>2
  <2>3. ASSUME NEW j \in 1 .. y, Y[j] = d
        PROVE  \E u \in L : \E v \in 1 .. Len(g[u].edges) : g[u].edges[v] = d
    BY <1>5, <2>3
  <2>4. CASE m = left
    <3>1. i \in 1 .. a /\ A[i] = d
      BY <1>5, <2>1, <2>4
    <3>2. CASE i <= x
      <4>1. i \in 1 .. x
        BY <1>1, <3>1, <3>2
      <4>2. X[i] = d
        BY <1>1, <1>3, <3>1, <4>1
      <4> QED BY <2>2, <4>1, <4>2
    <3>3. CASE i > x
      <4>1. i - x \in 1 .. y /\ x + (i - x) = i /\ x + (i - x) <= a
        BY <1>1, <1>a, <3>1, <3>3
      <4>2. Y[i - x] = d
        BY <1>4, <3>1, <4>1
      <4> QED BY <2>3, <4>1, <4>2
    <3> QED BY <3>1, <3>2, <3>3
  <2>5. CASE m = right
    <3>1. i \in 1 .. c /\ C[i] = d
      BY <1>5, <2>1, <2>5
    <3>2. CASE a + i <= x
      <4>1. a + i \in 1 .. x /\ a + i > a /\ (a + i) - a = i
        BY <1>1, <3>1, <3>2
      <4>2. X[a + i] = d
        BY <1>3, <3>1, <4>1
      <4> QED BY <2>2, <4>1, <4>2
    <3>3. CASE a + i > x
      <4>1. a + i - x \in 1 .. y /\ x + (a + i - x) > a /\ x + (a + i - x) - a = i
        BY <1>1, <1>a, <3>1, <3>3
      <4>2. Y[a + i - x] = d
        BY <1>4, <3>1, <4>1
      <4> QED BY <2>3, <4>1, <4>2
    <3> QED BY <1>1, <3>1, <3>2, <3>3
  <2>6. CASE m # left /\ m # right
    BY <1>c, <2>1, <2>6
  <2> QED BY <2>4, <2>5, <2>6
<1>12. \A m \in L \cap tops : g[m].parent = Nil
  <2> SUFFICES ASSUME NEW m \in L, m \in tops PROVE g[m].parent = Nil
    OBVIOUS
  <2>1. h[m].parent = Nil
    BY WellFormedFacts
  <2> QED BY <1>1, <1>c, <2>1
<1>13. g = [m \in L |-> g[m]] /\ L \subseteq DOMAIN g /\ HeapType(g)
  BY <1>c, SelfRestrict
<1>14. \A m \in L : \A i \in 1 .. Len(g[m].edges) : LinkOK(g, m, i)
  BY <1>8
<1> HIDE DEF L
<1> QED BY <1>9, <1>10, <1>11, <1>12, <1>13, <1>14, LinkedWellFormed

\* k is h with other pairs, and other edges in left and right.
LinksKept(k, h, left, right) ==
  /\ HeapType(k) /\ DOMAIN k = DOMAIN h
  /\ \A m \in DOMAIN h : /\ k[m].height = h[m].height /\ k[m].parent = h[m].parent
                         /\ k[m].parent_idx = h[m].parent_idx
  /\ \A m \in DOMAIN h \ {left, right} : k[m].edges = h[m].edges /\ Len(k[m].kv) = Len(h[m].kv)

\* Correcting the links of the children that left has got, and of all children
\* of right, makes the heap well-formed again.
LEMMA MoveEdges ==
  ASSUME NEW h, NEW tops, WellFormed(h, tops), NEW left \in DOMAIN h, NEW right \in DOMAIN h,
         left # right, h[left].height = h[right].height, h[left].height # 0,
         NEW x \in Nat, x >= 1, NEW y \in Nat, y >= 1,
         NEW k, LinksKept(k, h, left, right), MovedEdges(k, h, left, right, x, y),
         Len(k[left].kv) = x - 1, Len(k[right].kv) = y - 1,
         NEW lo \in Nat, lo <= x, lo <= Len(h[left].edges), lo = x \/ lo = Len(h[left].edges),
         NEW l, l = correct_childrens_parent_links(k, left, lo, x),
         NEW g, g = correct_childrens_parent_links(l, right, 0, y)
  PROVE  /\ WellFormed(g, tops) /\ DOMAIN g = DOMAIN h
         /\ \A m \in DOMAIN h : g[m].kv = k[m].kv /\ g[m].height = h[m].height
<1> DEFINE L == DOMAIN h
           A == h[left].edges
           C == h[right].edges
           X == k[left].edges
           Y == k[right].edges
           a == Len(A)
           c == Len(C)
<1>1. a \in Nat /\ c \in Nat
  BY NodeArity
<1>2. /\ \A j \in 1 .. a : A[j] \in L /\ h[A[j]].parent = left /\ h[A[j]].parent_idx = j - 1
      /\ \A j \in 1 .. c : C[j] \in L /\ h[C[j]].parent = right /\ h[C[j]].parent_idx = j - 1
  BY WellFormedFacts
<1>3. \A j \in 1 .. x : /\ j <= a => X[j] = A[j]
                        /\ j > a => X[j] = C[j - a]
  BY DEF MovedEdges
<1>4. \A j \in 1 .. y : /\ x + j <= a => Y[j] = A[x + j]
                        /\ x + j > a => Y[j] = C[x + j - a]
  BY DEF MovedEdges
<1>5. /\ X = k[left].edges /\ Y = k[right].edges /\ A = h[left].edges /\ C = h[right].edges
      /\ a = Len(A) /\ c = Len(C) /\ Len(X) = x /\ Len(Y) = y
  BY DEF MovedEdges
<1>6. x + y = a + c /\ lo <= a /\ (lo = x \/ lo = a)
  BY DEF MovedEdges
<1>7. /\ HeapType(k) /\ DOMAIN k = L
      /\ \A m \in L : /\ k[m].height = h[m].height /\ k[m].parent = h[m].parent
                      /\ k[m].parent_idx = h[m].parent_idx
      /\ \A m \in L \ {left, right} : k[m].edges = h[m].edges /\ Len(k[m].kv) = Len(h[m].kv)
  BY DEF LinksKept
<1> HIDE DEF A, C, X, Y, a, c
\* Where the children of the two nodes were.
<1>8. ASSUME NEW j \in 1 .. x
      PROVE  /\ X[j] \in L
             /\ j <= a => h[X[j]].parent = left /\ h[X[j]].parent_idx = j - 1
             /\ j > a => h[X[j]].parent = right /\ h[X[j]].parent_idx = j - a - 1
  <2>1. CASE j <= a
    <3>1. j \in 1 .. a
      BY <1>1, <2>1
    <3>2. X[j] = A[j]
      BY <1>3, <2>1
    <3> QED BY <1>1, <1>2, <2>1, <3>1, <3>2
  <2>2. CASE j > a
    <3>1. j - a \in 1 .. c
      BY <1>1, <1>6, <2>2
    <3>2. X[j] = C[j - a]
      BY <1>3, <2>2
    <3>3. ~(j <= a)
      BY <1>1, <2>2
    <3> QED BY <1>2, <2>2, <3>1, <3>2, <3>3
  <2> QED BY <1>1, <2>1, <2>2
<1>9. ASSUME NEW j \in 1 .. y
      PROVE  /\ Y[j] \in L
             /\ x + j <= a => h[Y[j]].parent = left /\ h[Y[j]].parent_idx = x + j - 1
             /\ x + j > a => h[Y[j]].parent = right /\ h[Y[j]].parent_idx = x + j - a - 1
  <2>1. CASE x + j <= a
    <3>1. x + j \in 1 .. a
      BY <1>1, <2>1
    <3>2. Y[j] = A[x + j]
      BY <1>4, <2>1
    <3>3. ~(x + j > a)
      BY <1>1, <2>1
    <3> QED BY <1>2, <3>1, <3>2, <3>3
  <2>2. CASE x + j > a
    <3>1. x + j - a \in 1 .. c
      BY <1>1, <1>6, <2>2, SMTT(30)
    <3>2. Y[j] = C[x + j - a]
      BY <1>4, <2>2
    <3>3. ~(x + j <= a)
      BY <1>1, <2>2
    <3>4. /\ Y[j] \in L /\ h[Y[j]].parent = right
          /\ h[Y[j]].parent_idx = (x + j - a) - 1
      BY <1>2, <3>1, <3>2
    <3> QED BY <1>1, <3>3, <3>4
  <2> QED BY <1>1, <2>1, <2>2
<1>10. \A i, j \in 1 .. x : X[i] = X[j] => i = j
  <2> SUFFICES ASSUME NEW i \in 1 .. x, NEW j \in 1 .. x, X[i] = X[j] PROVE i = j
    OBVIOUS
  <2> DEFINE q == h[X[i]].parent
             v == h[X[i]].parent_idx
  <2>1. (i <= a => q = left /\ v = i - 1) /\ (i > a => q = right /\ v = i - a - 1)
    BY <1>8
  <2>2. (j <= a => q = left /\ v = j - 1) /\ (j > a => q = right /\ v = j - a - 1)
    BY <1>8
  <2> HIDE DEF q, v
  <2> QED BY <1>1, <2>1, <2>2
<1>11. \A i, j \in 1 .. y : Y[i] = Y[j] => i = j
  <2> SUFFICES ASSUME NEW i \in 1 .. y, NEW j \in 1 .. y, Y[i] = Y[j] PROVE i = j
    OBVIOUS
  <2> DEFINE q == h[Y[i]].parent
             v == h[Y[i]].parent_idx
  <2>1. /\ x + i <= a => q = left /\ v = x + i - 1
        /\ x + i > a => q = right /\ v = x + i - a - 1
    BY <1>9
  <2>2. /\ x + j <= a => q = left /\ v = x + j - 1
        /\ x + j > a => q = right /\ v = x + j - a - 1
    BY <1>9
  <2> HIDE DEF q, v
  <2> QED BY <1>1, <2>1, <2>2, SMTT(60)
<1>12. ASSUME NEW i \in 1 .. x, NEW j \in 1 .. y, X[i] = Y[j] PROVE FALSE
  <2> DEFINE q == h[X[i]].parent
             v == h[X[i]].parent_idx
  <2>1. (i <= a => q = left /\ v = i - 1) /\ (i > a => q = right /\ v = i - a - 1)
    BY <1>8
  <2>2. /\ x + j <= a => q = left /\ v = x + j - 1
        /\ x + j > a => q = right /\ v = x + j - a - 1
    BY <1>9, <1>12
  <2> HIDE DEF q, v
  <2> QED BY <1>1, <2>1, <2>2, SMTT(30)
<1>13. Relinked(l, k, left, lo, x)
  <2>1. \A i \in lo .. x - 1 : i + 1 \in 1 .. x /\ descend(k, left, i) = X[i + 1]
    <3>1. \A i \in lo .. x - 1 : i + 1 \in 1 .. x
      OBVIOUS
    <3> QED BY <1>5, <3>1 DEF descend
  <2>2. \A i, j \in lo .. x - 1 : descend(k, left, i) = descend(k, left, j) => i = j
    <3> SUFFICES ASSUME NEW i \in lo .. x - 1, NEW j \in lo .. x - 1, X[i + 1] = X[j + 1]
                 PROVE  i = j
      BY <2>1
    <3>1. i + 1 = j + 1
      BY <1>10, <2>1
    <3> QED BY <3>1
  <2>3. HeapType(k) /\ left \in DOMAIN k /\ x <= Len(k[left].edges)
    BY <1>5, <1>7
  <2> QED BY <2>2, <2>3, CorrectLinksProps
<1>14. /\ DOMAIN l = L /\ HeapType(l)
       /\ \A m \in L : l[m].kv = k[m].kv /\ l[m].edges = k[m].edges /\ l[m].height = k[m].height
  BY <1>7, <1>13 DEF Relinked
<1>15. Relinked(g, l, right, 0, y)
  <2>0. l[right].edges = Y
    BY <1>5, <1>14
  <2>1. \A i \in 0 .. y - 1 : i + 1 \in 1 .. y /\ descend(l, right, i) = Y[i + 1]
    <3>1. \A i \in 0 .. y - 1 : i + 1 \in 1 .. y
      OBVIOUS
    <3> QED BY <2>0, <3>1 DEF descend
  <2>2. \A i, j \in 0 .. y - 1 : descend(l, right, i) = descend(l, right, j) => i = j
    <3> SUFFICES ASSUME NEW i \in 0 .. y - 1, NEW j \in 0 .. y - 1, Y[i + 1] = Y[j + 1]
                 PROVE  i = j
      BY <2>1
    <3>1. i + 1 = j + 1
      BY <1>11, <2>1
    <3> QED BY <3>1
  <2>3. HeapType(l) /\ right \in DOMAIN l /\ y <= Len(l[right].edges) /\ 0 \in Nat
    BY <1>5, <1>14, <2>0
  <2> QED BY <2>2, <2>3, CorrectLinksProps
<1>16. /\ DOMAIN g = L /\ HeapType(g)
       /\ \A m \in L : g[m].kv = k[m].kv /\ g[m].edges = k[m].edges /\ g[m].height = h[m].height
  BY <1>7, <1>14, <1>15 DEF Relinked
<1>17. ASSUME NEW j \in 1 .. y PROVE g[Y[j]].parent = right /\ g[Y[j]].parent_idx = j - 1
  <2>1. j - 1 \in 0 .. y - 1 /\ (j - 1) + 1 = j
    OBVIOUS
  <2>2. descend(l, right, j - 1) = Y[j]
    BY <1>5, <1>14, <2>1 DEF descend
  <2>3. Y[j] \in DOMAIN l
    BY <1>9, <1>14
  <2> QED BY <1>15, <2>1, <2>2, <2>3 DEF Relinked
<1>18. ASSUME NEW m \in L, \A j \in 1 .. y : Y[j] # m PROVE g[m] = l[m]
  <2>1. ASSUME NEW i \in 0 .. y - 1 PROVE descend(l, right, i) # m
    <3>1. i + 1 \in 1 .. y /\ l[right].edges = Y
      BY <1>5, <1>14
    <3> QED BY <1>18, <3>1 DEF descend
  <2> QED BY <1>14, <1>15, <2>1 DEF Relinked
<1>19. ASSUME NEW m \in L, \A j \in 1 .. x : lo < j => X[j] # m PROVE l[m] = k[m]
  <2>1. ASSUME NEW i \in lo .. x - 1 PROVE descend(k, left, i) # m
    <3>1. i + 1 \in 1 .. x /\ lo < i + 1
      OBVIOUS
    <3> QED BY <1>5, <1>19, <3>1 DEF descend
  <2> QED BY <1>7, <1>13, <2>1 DEF Relinked
<1>20. ASSUME NEW j \in 1 .. x PROVE g[X[j]].parent = left /\ g[X[j]].parent_idx = j - 1
  <2>1. X[j] \in L /\ \A i \in 1 .. y : Y[i] # X[j]
    BY <1>8, <1>12
  <2>2. g[X[j]] = l[X[j]]
    BY <1>18, <2>1
  <2>3. CASE lo < j
    <3>1. j - 1 \in lo .. x - 1 /\ (j - 1) + 1 = j
      BY <2>3
    <3>2. descend(k, left, j - 1) = X[j]
      BY <1>5, <3>1 DEF descend
    <3>3. l[X[j]].parent = left /\ l[X[j]].parent_idx = j - 1
      BY <1>7, <1>13, <2>1, <3>1, <3>2 DEF Relinked
    <3> QED BY <2>2, <3>3
  <2>4. CASE ~(lo < j)
    <3>1. j <= a
      BY <1>1, <1>6, <2>4
    <3>2. \A i \in 1 .. x : lo < i => X[i] # X[j]
      BY <1>10, <2>4
    <3>3. l[X[j]] = k[X[j]]
      BY <1>19, <2>1, <3>2
    <3>4. h[X[j]].parent = left /\ h[X[j]].parent_idx = j - 1
      BY <1>8, <3>1
    <3> QED BY <1>7, <2>1, <2>2, <3>3, <3>4
  <2> QED BY <2>3, <2>4
<1>21. ASSUME NEW m \in L, h[m].parent \notin {left, right}
       PROVE  g[m].parent = h[m].parent /\ g[m].parent_idx = h[m].parent_idx
  <2>1. \A j \in 1 .. y : Y[j] # m
    <3> SUFFICES ASSUME NEW j \in 1 .. y, Y[j] = m PROVE FALSE
      OBVIOUS
    <3>1. x + j <= a \/ x + j > a
      BY <1>1
    <3> QED BY <1>9, <1>21, <3>1
  <2>2. \A j \in 1 .. x : X[j] # m
    <3> SUFFICES ASSUME NEW j \in 1 .. x, X[j] = m PROVE FALSE
      OBVIOUS
    <3>1. j <= a \/ j > a
      BY <1>1
    <3> QED BY <1>8, <1>21, <3>1
  <2>3. g[m] = l[m] /\ l[m] = k[m]
    BY <1>18, <1>19, <2>1, <2>2
  <2> QED BY <1>7, <2>3
<1>22. OthersKept(g, h, left, right)
  <2>1. \A m \in L \ {left, right} : g[m].edges = h[m].edges /\ Len(g[m].kv) = Len(h[m].kv)
    BY <1>7, <1>16
  <2> QED BY <1>16, <1>21, <2>1 DEF OthersKept
<1>23. g[left].edges = X /\ g[right].edges = Y /\ Len(g[left].kv) = x - 1 /\ Len(g[right].kv) = y - 1
  BY <1>5, <1>16
<1>24. MovedEdges(g, h, left, right, x, y)
  BY <1>3, <1>4, <1>5, <1>6, <1>23, ZenonT(30) DEF MovedEdges
<1>25. /\ \A j \in 1 .. x : LinkOK(g, left, j)
       /\ \A j \in 1 .. y : LinkOK(g, right, j)
  BY <1>17, <1>20, <1>23 DEF LinkOK
<1>26. WellFormed(g, tops)
  BY <1>22, <1>23, <1>24, <1>25, Redistribute
<1> QED BY <1>16, <1>26

\* What a steal between the children left and right of p leaves behind: they
\* have x and y pairs, and no other node has other pairs.
Stolen(g, h, tops, p, left, right, x, y) ==
  /\ DOMAIN g = DOMAIN h /\ WellFormed(g, tops)
  /\ \A m \in DOMAIN h : g[m].height = h[m].height
  /\ \A m \in DOMAIN h \ {p, left, right} : g[m].kv = h[m].kv
  /\ Len(g[p].kv) = Len(h[p].kv)
  /\ Len(g[left].kv) = x /\ Len(g[right].kv) = y

\* An empty range of children has no links to correct.
LEMMA CorrectNone ==
  ASSUME NEW k, HeapType(k), NEW n, NEW i \in Nat
  PROVE  correct_childrens_parent_links(k, n, i, i) = k
<1>1. \A m : ~ \E j \in i .. i - 1 : descend(k, n, j) = m
  OBVIOUS
<1>2. k = [m \in DOMAIN k |-> k[m]]
  BY SelfRestrict
<1> QED BY <1>1, <1>2 DEF correct_childrens_parent_links

\* The sequences X and Y, of lengths x and y, hold together what A and C do, in
\* the same order.
Resplit(X, Y, A, C, x, y) ==
  /\ Len(X) = x /\ Len(Y) = y /\ x + y = Len(A) + Len(C)
  /\ \A j \in 1 .. x : /\ j <= Len(A) => X[j] = A[j]
                       /\ j > Len(A) => X[j] = C[j - Len(A)]
  /\ \A j \in 1 .. y : /\ x + j <= Len(A) => Y[j] = A[x + j]
                       /\ x + j > Len(A) => Y[j] = C[x + j - Len(A)]

\* g is h with other contents in three nodes.
Updated(g, h, a, b, c, q, r, s) ==
  /\ DOMAIN g = DOMAIN h /\ HeapType(g)
  /\ g[a] = q /\ g[b] = r /\ g[c] = s
  /\ \A m \in DOMAIN h \ {a, b, c} : g[m] = h[m]

\* Writing the parent and its two children leaves every other node.
LEMMA UpdatedThree ==
  ASSUME NEW h, HeapType(h), NEW a \in DOMAIN h, NEW b \in DOMAIN h, NEW c \in DOMAIN h,
         a # b, a # c, b # c, NEW q, q \in Node, NEW r, r \in Node, NEW s, s \in Node
  PROVE  Updated([h EXCEPT ![a] = q, ![b] = r, ![c] = s], h, a, b, c, q, r, s)
  BY DEF HeapType, Updated

\* The parent's node in a steal: another pair, everything else the same.
SameBut(s, node) ==
  /\ s \in Node /\ Len(s.kv) = Len(node.kv) /\ s.edges = node.edges
  /\ s.height = node.height /\ s.parent = node.parent /\ s.parent_idx = node.parent_idx

EdgesMoved(g, k, h, tops) ==
  /\ WellFormed(g, tops) /\ DOMAIN g = DOMAIN h
  /\ \A m \in DOMAIN h : g[m].kv = k[m].kv /\ g[m].height = h[m].height

\* The edges a steal moves between two siblings are relinked completely by
\* the two correction loops of bulk_steal_left and bulk_steal_right.
LEMMA MoveEdgesAtom ==
  ASSUME NEW h, NEW tops, WellFormed(h, tops), NEW left \in DOMAIN h, NEW right \in DOMAIN h,
         left # right, h[left].height = h[right].height, h[left].height # 0,
         NEW x \in Nat, x >= 1, NEW y \in Nat, y >= 1,
         NEW k, LinksKept(k, h, left, right), MovedEdges(k, h, left, right, x, y),
         Len(k[left].kv) = x - 1, Len(k[right].kv) = y - 1,
         NEW lo \in Nat, lo <= x, lo <= Len(h[left].edges), lo = x \/ lo = Len(h[left].edges)
  PROVE  EdgesMoved(correct_childrens_parent_links(correct_childrens_parent_links(k, left, lo, x),
                                                   right, 0, y), k, h, tops)
  BY MoveEdges DEF EdgesMoved

\* A steal between leaves keeps the heap well-formed.
LEMMA StealLeaf ==
  ASSUME NEW h, NEW tops, WellFormed(h, tops), NEW p \in DOMAIN h,
         NEW left \in DOMAIN h, NEW right \in DOMAIN h, left # right, left # p, right # p,
         h[left].height = 0, h[right].height = 0,
         NEW lkv, lkv \in Seq(KV), NEW rkv, rkv \in Seq(KV), NEW s, SameBut(s, h[p])
  PROVE  Stolen([h EXCEPT ![left] = WithKV(h[left], lkv), ![right] = WithKV(h[right], rkv),
                          ![p] = s],
                h, tops, p, left, right, Len(lkv), Len(rkv))
<1> DEFINE q == WithKV(h[left], lkv)
           r == WithKV(h[right], rkv)
           G == [h EXCEPT ![left] = q, ![right] = r, ![p] = s]
<1>1. HeapType(h) /\ h[left] \in Node /\ h[right] \in Node
  BY HeapNode DEF WellFormed
<1>2. /\ q \in Node /\ q.kv = lkv /\ q.edges = h[left].edges /\ q.height = h[left].height
      /\ q.parent = h[left].parent /\ q.parent_idx = h[left].parent_idx
  BY <1>1, WithKVProps
<1>3. /\ r \in Node /\ r.kv = rkv /\ r.edges = h[right].edges /\ r.height = h[right].height
      /\ r.parent = h[right].parent /\ r.parent_idx = h[right].parent_idx
  BY <1>1, WithKVProps
<1> HIDE DEF q, r
<1>4. s \in Node
  BY DEF SameBut
<1>5. Updated(G, h, left, right, p, q, r, s)
  BY <1>1, <1>2, <1>3, <1>4, UpdatedThree
<1> HIDE DEF G
<1>6. \A m \in DOMAIN h : /\ G[m].edges = h[m].edges /\ G[m].height = h[m].height
                          /\ G[m].parent = h[m].parent
                          /\ G[m].parent_idx = h[m].parent_idx
                          /\ h[m].height = 0 \/ Len(G[m].kv) = Len(h[m].kv)
  BY <1>2, <1>3, <1>5 DEF Updated, SameBut
<1>7. DOMAIN G = DOMAIN h /\ HeapType(G)
  BY <1>5 DEF Updated
<1>8. WellFormed(G, tops)
  BY <1>6, <1>7, KvOnly
<1>9. /\ Len(G[p].kv) = Len(h[p].kv) /\ Len(G[left].kv) = Len(lkv)
      /\ Len(G[right].kv) = Len(rkv)
  BY <1>2, <1>3, <1>5 DEF Updated, SameBut
<1>10. \A m \in DOMAIN h \ {p, left, right} : G[m].kv = h[m].kv
  BY <1>5 DEF Updated
<1>11. Stolen(G, h, tops, p, left, right, Len(lkv), Len(rkv))
  BY <1>6, <1>7, <1>8, <1>9, <1>10 DEF Stolen
<1> QED BY <1>11 DEF G, q, r

\* A steal between internal nodes keeps the heap well-formed.
LEMMA StealInternal ==
  ASSUME NEW h, NEW tops, WellFormed(h, tops), NEW p \in DOMAIN h,
         NEW left \in DOMAIN h, NEW right \in DOMAIN h, left # right, left # p, right # p,
         h[left].height = h[right].height, h[left].height # 0,
         NEW lkv, lkv \in Seq(KV), NEW rkv, rkv \in Seq(KV), NEW s, SameBut(s, h[p]),
         NEW X, X \in Seq(NodeId), NEW Y, Y \in Seq(NodeId),
         NEW x \in Nat, x >= 1, NEW y \in Nat, y >= 1, Len(lkv) = x - 1, Len(rkv) = y - 1,
         Resplit(X, Y, h[left].edges, h[right].edges, x, y),
         NEW lo \in Nat, lo <= x, lo <= Len(h[left].edges), lo = x \/ lo = Len(h[left].edges)
  PROVE  Stolen(correct_childrens_parent_links(
                  correct_childrens_parent_links(
                    [h EXCEPT ![left] = WithData(h[left], lkv, X),
                              ![right] = WithData(h[right], rkv, Y), ![p] = s],
                    left, lo, x),
                  right, 0, y),
                h, tops, p, left, right, x - 1, y - 1)
<1> DEFINE q == WithData(h[left], lkv, X)
           r == WithData(h[right], rkv, Y)
           k == [h EXCEPT ![left] = q, ![right] = r, ![p] = s]
           g == correct_childrens_parent_links(
                  correct_childrens_parent_links(k, left, lo, x), right, 0, y)
<1>1. HeapType(h) /\ h[left] \in Node /\ h[right] \in Node
  BY HeapNode DEF WellFormed
<1>2. /\ q \in Node /\ q.kv = lkv /\ q.edges = X /\ q.height = h[left].height
      /\ q.parent = h[left].parent /\ q.parent_idx = h[left].parent_idx
  BY <1>1, WithDataProps
<1>3. /\ r \in Node /\ r.kv = rkv /\ r.edges = Y /\ r.height = h[right].height
      /\ r.parent = h[right].parent /\ r.parent_idx = h[right].parent_idx
  BY <1>1, WithDataProps
<1> HIDE DEF q, r
<1>4. s \in Node
  BY DEF SameBut
<1>5. Updated(k, h, left, right, p, q, r, s)
  BY <1>1, <1>2, <1>3, <1>4, UpdatedThree
<1> HIDE DEF k
<1>6. LinksKept(k, h, left, right)
  <2>1. \A m \in DOMAIN h : /\ k[m].height = h[m].height /\ k[m].parent = h[m].parent
                            /\ k[m].parent_idx = h[m].parent_idx
    BY ONLY <1>2, <1>3, <1>5, SameBut(s, h[p]) DEF Updated, SameBut
  <2>2. \A m \in DOMAIN h \ {left, right} : k[m].edges = h[m].edges /\ Len(k[m].kv) = Len(h[m].kv)
    BY ONLY <1>5, SameBut(s, h[p]) DEF Updated, SameBut
  <2>3. HeapType(k) /\ DOMAIN k = DOMAIN h
    BY ONLY <1>5 DEF Updated
  <2> QED BY ONLY <2>1, <2>2, <2>3 DEF LinksKept
<1>7. k[left].edges = X /\ k[right].edges = Y /\ k[left].kv = lkv /\ k[right].kv = rkv
  BY ONLY <1>2, <1>3, <1>5 DEF Updated
<1>8. MovedEdges(k, h, left, right, x, y)
  BY ONLY <1>7, Resplit(X, Y, h[left].edges, h[right].edges, x, y) DEF Resplit, MovedEdges
<1>9. Len(k[left].kv) = x - 1 /\ Len(k[right].kv) = y - 1
  BY <1>7
<1>b. EdgesMoved(correct_childrens_parent_links(correct_childrens_parent_links(k, left, lo, x),
                                                right, 0, y), k, h, tops)
  BY ONLY <1>6, <1>8, <1>9, MoveEdgesAtom, WellFormed(h, tops), left \in DOMAIN h,
          right \in DOMAIN h, left # right, h[left].height = h[right].height,
          h[left].height # 0, x \in Nat, x >= 1, y \in Nat, y >= 1, lo \in Nat, lo <= x,
          lo <= Len(h[left].edges), lo = x \/ lo = Len(h[left].edges)
<1>10. /\ WellFormed(g, tops) /\ DOMAIN g = DOMAIN h
       /\ \A m \in DOMAIN h : g[m].kv = k[m].kv /\ g[m].height = h[m].height
  BY ONLY <1>b DEF EdgesMoved
<1> HIDE DEF g
<1>11. /\ Len(g[p].kv) = Len(h[p].kv) /\ Len(g[left].kv) = x - 1 /\ Len(g[right].kv) = y - 1
  BY ONLY <1>5, <1>9, <1>10, SameBut(s, h[p]), p \in DOMAIN h, left \in DOMAIN h,
          right \in DOMAIN h DEF Updated, SameBut
<1>12. \A m \in DOMAIN h \ {p, left, right} : g[m].kv = h[m].kv
  BY ONLY <1>5, <1>10 DEF Updated
<1>13. Stolen(g, h, tops, p, left, right, x - 1, y - 1)
  BY ONLY <1>10, <1>11, <1>12 DEF Stolen
<1> QED BY ONLY <1>13 DEF g, k, q, r

\* Moving the end of the left sequence to the front of the right one.
LEMMA ResplitLeft ==
  ASSUME NEW S, NEW A \in Seq(S), NEW C \in Seq(S), NEW x \in Nat, x <= Len(A)
  PROVE  /\ SubSeq(A, 1, x) \in Seq(S) /\ SubSeq(A, x + 1, Len(A)) \o C \in Seq(S)
         /\ Resplit(SubSeq(A, 1, x), SubSeq(A, x + 1, Len(A)) \o C, A, C,
                    x, Len(A) - x + Len(C))
<1> DEFINE X == SubSeq(A, 1, x)
           Q == SubSeq(A, x + 1, Len(A))
           Y == Q \o C
<1>1. PICK a \in Nat : a = Len(A)
  OBVIOUS
<1>2. PICK c \in Nat : c = Len(C)
  OBVIOUS
<1>3. X \in Seq(S) /\ Len(X) = x /\ \A j \in 1 .. x : X[j] = A[j]
  OBVIOUS
<1>4. Q \in Seq(S) /\ Len(Q) = a - x /\ \A j \in 1 .. a - x : Q[j] = A[x + j]
  BY <1>1, SMTT(60)
<1> HIDE DEF X, Q
<1>5. Y \in Seq(S) /\ IsConcat(Y, Q, C)
  BY <1>4, ConcatProps
<1> HIDE DEF Y
<1>6. /\ Len(Y) = (a - x) + c
      /\ \A j \in 1 .. (a - x) + c : /\ j <= a - x => Y[j] = Q[j]
                                     /\ j > a - x => Y[j] = C[j - (a - x)]
  BY <1>2, <1>4, <1>5 DEF IsConcat
<1>7. \A j \in 1 .. (a - x) + c : /\ x + j <= a => Y[j] = A[x + j]
                                  /\ x + j > a => Y[j] = C[x + j - a]
  <2> SUFFICES ASSUME NEW j \in 1 .. (a - x) + c
               PROVE  /\ x + j <= a => Y[j] = A[x + j]
                      /\ x + j > a => Y[j] = C[x + j - a]
    OBVIOUS
  <2>1. CASE x + j <= a
    BY <1>4, <1>6, <2>1
  <2>2. CASE x + j > a
    <3>1. j > a - x /\ j - (a - x) = x + j - a
      BY <2>2
    <3>2. Y[j] = C[j - (a - x)]
      BY <1>6, <3>1
    <3> QED BY <3>1, <3>2, <2>2
  <2> QED BY <2>1, <2>2
<1>8. x + ((a - x) + c) = a + c
  OBVIOUS
<1>9. Resplit(X, Y, A, C, x, (a - x) + c)
  BY <1>1, <1>2, <1>3, <1>6, <1>7, <1>8 DEF Resplit
<1> QED BY <1>1, <1>2, <1>3, <1>5, <1>9 DEF X, Y, Q

\* Moving the front of the right sequence to the end of the left one.
LEMMA ResplitRight ==
  ASSUME NEW S, NEW A \in Seq(S), NEW C \in Seq(S), NEW n \in Nat, n <= Len(C)
  PROVE  /\ A \o SubSeq(C, 1, n) \in Seq(S) /\ SubSeq(C, n + 1, Len(C)) \in Seq(S)
         /\ Resplit(A \o SubSeq(C, 1, n), SubSeq(C, n + 1, Len(C)), A, C,
                    Len(A) + n, Len(C) - n)
<1> DEFINE P == SubSeq(C, 1, n)
           X == A \o P
           Y == SubSeq(C, n + 1, Len(C))
<1>1. PICK a \in Nat : a = Len(A)
  OBVIOUS
<1>2. PICK c \in Nat : c = Len(C)
  OBVIOUS
<1>3. P \in Seq(S) /\ Len(P) = n /\ \A j \in 1 .. n : P[j] = C[j]
  OBVIOUS
<1>4. Y \in Seq(S) /\ Len(Y) = c - n /\ \A j \in 1 .. c - n : Y[j] = C[n + j]
  BY <1>2, SMTT(60)
<1> HIDE DEF P, Y
<1>5. X \in Seq(S) /\ IsConcat(X, A, P)
  BY <1>3, ConcatProps
<1> HIDE DEF X
<1>6. /\ Len(X) = a + n
      /\ \A j \in 1 .. a + n : /\ j <= a => X[j] = A[j]
                               /\ j > a => X[j] = P[j - a]
  BY <1>1, <1>3, <1>5 DEF IsConcat
<1>7. \A j \in 1 .. a + n : /\ j <= a => X[j] = A[j]
                            /\ j > a => X[j] = C[j - a]
  BY <1>3, <1>6
<1>8. \A j \in 1 .. c - n : /\ (a + n) + j <= a => Y[j] = A[(a + n) + j]
                            /\ (a + n) + j > a => Y[j] = C[(a + n) + j - a]
  <2> SUFFICES ASSUME NEW j \in 1 .. c - n
               PROVE  ~((a + n) + j <= a) /\ Y[j] = C[(a + n) + j - a]
    OBVIOUS
  <2>1. (a + n) + j - a = n + j /\ ~((a + n) + j <= a)
    OBVIOUS
  <2> QED BY <1>4, <2>1
<1>9. (a + n) + (c - n) = a + c
  OBVIOUS
<1>10. Resplit(X, Y, A, C, a + n, c - n)
  BY <1>1, <1>2, <1>4, <1>6, <1>7, <1>8, <1>9 DEF Resplit
<1> QED BY <1>1, <1>2, <1>4, <1>5, <1>10 DEF X, Y, P

\* BalancingContext::bulk_steal_left.
LEMMA BulkStealLeft ==
  ASSUME NEW h, NEW tops, WellFormed(h, tops), NEW p \in DOMAIN h, h[p].height # 0,
         NEW idx \in 0 .. Len(h[p].kv) - 1,
         NEW left, left = descend(h, p, idx), NEW right, right = descend(h, p, idx + 1),
         NEW count \in Nat, count >= 1, count <= Len(h[left].kv)
  PROVE  Stolen(bulk_steal_left(h, p, idx, count), h, tops, p, left, right,
                Len(h[left].kv) - count, Len(h[right].kv) + count)
<1>1. /\ left \in DOMAIN h /\ right \in DOMAIN h /\ left # right /\ left # p /\ right # p
      /\ h[left].height = h[right].height
  BY ONLY WellFormed(h, tops), p \in DOMAIN h, h[p].height # 0, idx \in 0 .. Len(h[p].kv) - 1,
          left = descend(h, p, idx), right = descend(h, p, idx + 1), Siblings
<1>2. /\ h[left].kv \in Seq(KV) /\ h[right].kv \in Seq(KV) /\ h[p].kv \in Seq(KV)
      /\ h[left].edges \in Seq(NodeId) /\ h[right].edges \in Seq(NodeId) /\ h[p] \in Node
  BY <1>1, HeapNode DEF WellFormed
<1>3. PICK u \in Nat : u = Len(h[left].kv)
  BY <1>2
<1>4. PICK v \in Nat : v = Len(h[right].kv)
  BY <1>2
<1>5. PICK w \in Nat : w = u - count
  BY <1>3
<1>6. w + 1 \in 1 .. u /\ u - (w + 1) = count - 1
  BY <1>3, <1>5
<1> DEFINE lkv == SubSeq(h[left].kv, 1, w)
           mkv == SubSeq(h[left].kv, w + 2, u)
           z == h[p].kv[idx + 1]
           rkv == mkv \o <<z>> \o h[right].kv
           s == replace_kv(h[p], idx, h[left].kv[w + 1])
           G == bulk_steal_left(h, p, idx, count)
<1>7. lkv \in Seq(KV) /\ Len(lkv) = w
  BY <1>2, <1>3, <1>6, SMTT(30)
<1>8. mkv \in Seq(KV) /\ Len(mkv) = count - 1
  BY <1>2, <1>3, <1>6
<1>9. h[left].kv[w + 1] \in KV /\ z \in KV
  BY <1>2, <1>3, <1>6, SMTT(30)
<1> HIDE DEF z, mkv, lkv
<1>10. rkv \in Seq(KV) /\ Len(rkv) = v + count
  <2> DEFINE b == h[right].kv
  <2>1. b \in Seq(KV) /\ v = Len(b)
    BY <1>2, <1>4
  <2> HIDE DEF b
  <2>2. mkv \o <<z>> \o b \in Seq(KV) /\ Len(mkv \o <<z>> \o b) = count - 1 + 1 + v
    BY <1>8, <1>9, <2>1, SMTT(30)
  <2>3. count - 1 + 1 + v = v + count
    OBVIOUS
  <2> QED BY <2>2, <2>3 DEF b
<1> HIDE DEF rkv
<1>11. SameBut(s, h[p])
  BY <1>2, <1>9, ReplaceKvProps, ZenonT(30) DEF SameBut
<1> HIDE DEF s
<1>12. CASE h[left].height = 0
  <2>1. G = [h EXCEPT ![left] = WithKV(h[left], lkv), ![right] = WithKV(h[right], rkv),
                      ![p] = s]
    BY <1>1, <1>3, <1>5, <1>12 DEF bulk_steal_left, IsLeaf, len, mkv, lkv, rkv, s, z
  <2>2. Stolen([h EXCEPT ![left] = WithKV(h[left], lkv), ![right] = WithKV(h[right], rkv),
                         ![p] = s],
               h, tops, p, left, right, Len(lkv), Len(rkv))
    BY ONLY <1>1, <1>7, <1>10, <1>11, <1>12, WellFormed(h, tops), p \in DOMAIN h, StealLeaf
  <2> QED BY ONLY <2>1, <2>2, <1>3, <1>4, <1>5, <1>7, <1>10
<1>13. CASE h[left].height # 0
  <2> DEFINE A == h[left].edges
             C == h[right].edges
             x == w + 1
             X == SubSeq(A, 1, x)
             Y == SubSeq(A, x + 1, Len(A)) \o C
             y == v + count + 1
             k == [h EXCEPT ![left] = WithData(h[left], lkv, X),
                            ![right] = WithData(h[right], rkv, Y), ![p] = s]
  <2>1. Len(A) = u + 1 /\ Len(C) = v + 1
    BY <1>1, <1>3, <1>4, <1>13, NodeArity
  <2>2. x \in Nat /\ y \in Nat /\ x >= 1 /\ y >= 1 /\ x <= Len(A) /\ y = Len(A) - x + Len(C)
        /\ w = x - 1 /\ v + count = y - 1 /\ w + 2 = x + 1
    BY ONLY <1>3, <1>4, <1>5, <2>1, u \in Nat, v \in Nat, w \in Nat, count \in Nat
  <2>3. G = correct_childrens_parent_links(k, right, 0, y)
    BY <1>1, <1>3, <1>4, <1>5, <1>13, <2>1, <2>2
       DEF bulk_steal_left, IsLeaf, len, mkv, lkv, rkv, s, z
  <2>4. A \in Seq(NodeId) /\ C \in Seq(NodeId)
    BY <1>2
  <2> HIDE DEF A, C, x, y, G
  <2>5. X \in Seq(NodeId) /\ Y \in Seq(NodeId) /\ Resplit(X, Y, A, C, x, y)
    BY <2>2, <2>4, ResplitLeft
  <2> HIDE DEF X, Y
  <2>6. SameBut(s, h[p]) /\ s \in Node
    BY <1>11 DEF SameBut
  <2>7. HeapType(k)
    <3>1. WithData(h[left], lkv, X) \in Node /\ WithData(h[right], rkv, Y) \in Node
      BY <1>1, <1>7, <1>10, <2>5, HeapNode, WithDataProps DEF WellFormed
    <3>2. HeapType(h)
      BY DEF WellFormed
    <3> HIDE DEF k
    <3>3. Updated(k, h, left, right, p, WithData(h[left], lkv, X), WithData(h[right], rkv, Y), s)
      BY <1>1, <2>6, <3>1, <3>2, UpdatedThree DEF k
    <3> QED BY <3>3 DEF Updated
  <2> HIDE DEF k
  <2>8. k = correct_childrens_parent_links(k, left, x, x)
    BY <2>2, <2>7, CorrectNone
  <2>9. Stolen(G, h, tops, p, left, right, x - 1, y - 1)
    <3>1. /\ x <= x /\ Len(lkv) = x - 1 /\ Len(rkv) = y - 1 /\ x <= Len(h[left].edges)
          /\ Resplit(X, Y, h[left].edges, h[right].edges, x, y)
      BY <1>7, <1>10, <2>2, <2>5 DEF A, C
    <3>2. Stolen(correct_childrens_parent_links(
                   correct_childrens_parent_links(
                     [h EXCEPT ![left] = WithData(h[left], lkv, X),
                               ![right] = WithData(h[right], rkv, Y), ![p] = s],
                     left, x, x),
                   right, 0, y),
                 h, tops, p, left, right, x - 1, y - 1)
      BY ONLY <1>1, <1>7, <1>10, <1>13, <2>2, <2>5, <2>6, <3>1,
              WellFormed(h, tops), p \in DOMAIN h, StealInternal, ZenonT(30)
    <3> QED BY ONLY <2>3, <2>8, <3>2 DEF k
  <2> QED BY ONLY <2>9, <2>2, <1>3, <1>4, <1>5 DEF G
<1> QED BY <1>12, <1>13

\* BalancingContext::bulk_steal_right.
LEMMA BulkStealRight ==
  ASSUME NEW h, NEW tops, WellFormed(h, tops), NEW p \in DOMAIN h, h[p].height # 0,
         NEW idx \in 0 .. Len(h[p].kv) - 1,
         NEW left, left = descend(h, p, idx), NEW right, right = descend(h, p, idx + 1),
         NEW count \in Nat, count >= 1, count <= Len(h[right].kv)
  PROVE  Stolen(bulk_steal_right(h, p, idx, count), h, tops, p, left, right,
                Len(h[left].kv) + count, Len(h[right].kv) - count)
<1>1. /\ left \in DOMAIN h /\ right \in DOMAIN h /\ left # right /\ left # p /\ right # p
      /\ h[left].height = h[right].height
  BY ONLY WellFormed(h, tops), p \in DOMAIN h, h[p].height # 0, idx \in 0 .. Len(h[p].kv) - 1,
          left = descend(h, p, idx), right = descend(h, p, idx + 1), Siblings
<1>2. /\ h[left].kv \in Seq(KV) /\ h[right].kv \in Seq(KV) /\ h[p].kv \in Seq(KV)
      /\ h[left].edges \in Seq(NodeId) /\ h[right].edges \in Seq(NodeId) /\ h[p] \in Node
  BY <1>1, HeapNode DEF WellFormed
<1>3. PICK u \in Nat : u = Len(h[left].kv)
  BY <1>2
<1>4. PICK v \in Nat : v = Len(h[right].kv)
  BY <1>2
<1>5. PICK w \in Nat : w = v - count
  BY <1>4
<1>6. count \in 1 .. v /\ count - 1 \in Nat
  BY <1>4
<1> DEFINE mkv == SubSeq(h[right].kv, 1, count - 1)
           rkv == SubSeq(h[right].kv, count + 1, v)
           z == h[p].kv[idx + 1]
           lkv == h[left].kv \o <<z>> \o mkv
           s == replace_kv(h[p], idx, h[right].kv[count])
           G == bulk_steal_right(h, p, idx, count)
<1>7. rkv \in Seq(KV) /\ Len(rkv) = w
  BY <1>2, <1>4, <1>5, <1>6
<1>8. mkv \in Seq(KV) /\ Len(mkv) = count - 1
  BY <1>2, <1>4, <1>6
<1>9. h[right].kv[count] \in KV /\ z \in KV
  BY <1>2, <1>4, <1>6
<1> HIDE DEF z, mkv, rkv
<1>10. lkv \in Seq(KV) /\ Len(lkv) = u + count
  <2> DEFINE b == h[left].kv
  <2>1. b \in Seq(KV) /\ u = Len(b)
    BY <1>2, <1>3
  <2> HIDE DEF b
  <2>2. b \o <<z>> \o mkv \in Seq(KV) /\ Len(b \o <<z>> \o mkv) = u + 1 + (count - 1)
    BY <1>8, <1>9, <2>1, SMTT(30)
  <2>3. u + 1 + (count - 1) = u + count
    OBVIOUS
  <2> QED BY <2>2, <2>3 DEF b
<1> HIDE DEF lkv
<1>11. SameBut(s, h[p])
  BY <1>2, <1>9, ReplaceKvProps, ZenonT(30) DEF SameBut
<1> HIDE DEF s
<1>12. CASE h[left].height = 0
  <2>1. G = [h EXCEPT ![left] = WithKV(h[left], lkv), ![right] = WithKV(h[right], rkv),
                      ![p] = s]
    BY <1>1, <1>4, <1>12 DEF bulk_steal_right, IsLeaf, len, mkv, lkv, rkv, s, z
  <2>2. Stolen([h EXCEPT ![left] = WithKV(h[left], lkv), ![right] = WithKV(h[right], rkv),
                         ![p] = s],
               h, tops, p, left, right, Len(lkv), Len(rkv))
    BY ONLY <1>1, <1>7, <1>10, <1>11, <1>12, WellFormed(h, tops), p \in DOMAIN h, StealLeaf
  <2> QED BY ONLY <2>1, <2>2, <1>3, <1>4, <1>5, <1>7, <1>10
<1>13. CASE h[left].height # 0
  <2> DEFINE A == h[left].edges
             C == h[right].edges
             x == u + count + 1
             X == A \o SubSeq(C, 1, count)
             Y == SubSeq(C, count + 1, Len(C))
             y == w + 1
             k == [h EXCEPT ![left] = WithData(h[left], lkv, X),
                            ![right] = WithData(h[right], rkv, Y), ![p] = s]
             g == correct_childrens_parent_links(
                    correct_childrens_parent_links(k, left, u + 1, x), right, 0, y)
  <2>1. Len(A) = u + 1 /\ Len(C) = v + 1
    BY <1>1, <1>3, <1>4, <1>13, NodeArity
  <2>2. x \in Nat /\ y \in Nat /\ x >= 1 /\ y >= 1 /\ count <= Len(C) /\ y = Len(C) - count
        /\ x = Len(A) + count /\ u + count = x - 1 /\ w = y - 1 /\ u + 1 \in Nat /\ u + 1 <= x
    BY <1>3, <1>4, <1>5, <2>1, SMTT(60)
  <2>3. G = g
    BY <1>1, <1>3, <1>4, <1>5, <1>13, <2>1, <2>2
       DEF bulk_steal_right, IsLeaf, len, mkv, lkv, rkv, s, z
  <2>4. A \in Seq(NodeId) /\ C \in Seq(NodeId)
    BY <1>2
  <2> HIDE DEF A, C, x, y, G
  <2>5. X \in Seq(NodeId) /\ Y \in Seq(NodeId) /\ Resplit(X, Y, A, C, x, y)
    BY ONLY <2>2, <2>4, ResplitRight, count \in Nat
  <2> HIDE DEF X, Y
  <2>6. /\ Len(lkv) = x - 1 /\ Len(rkv) = y - 1 /\ u + 1 <= Len(h[left].edges)
        /\ u + 1 = Len(h[left].edges)
        /\ Resplit(X, Y, h[left].edges, h[right].edges, x, y)
    BY <1>7, <1>10, <2>1, <2>2, <2>5 DEF A, C
  <2>7. Stolen(g, h, tops, p, left, right, x - 1, y - 1)
    BY ONLY <1>1, <1>7, <1>10, <1>11, <1>13, <2>2, <2>5, <2>6,
            WellFormed(h, tops), p \in DOMAIN h, StealInternal, ZenonT(30)
  <2> HIDE DEF g
  <2> QED BY ONLY <2>7, <2>3, <2>2, <1>3, <1>4, <1>5 DEF G
<1> QED BY <1>12, <1>13
-----------------------------------------------------------------------------
(* Finitely many nodes *)

\* A set of numbers has a least element.
LEMMA Least ==
  ASSUME NEW T, T \subseteq Nat, T # {}
  PROVE  \E x \in T : \A y \in T : x <= y
<1> DEFINE F == {0 .. n : n \in T}
           R == StrictSubsetOrdering(Nat)
<1>1. F \subseteq FiniteSubsetsOf(Nat)
  <2> SUFFICES ASSUME NEW n \in T
               PROVE  0 .. n \in SUBSET Nat /\ IsFiniteSet(0 .. n)
    BY DEF FiniteSubsetsOf
  <2>1. n \in Nat /\ n \in Int /\ 0 \in Int
    OBVIOUS
  <2>2. IsFiniteSet(0 .. n)
    BY <2>1, FS_Interval
  <2>3. 0 .. n \subseteq Nat
    BY <2>1
  <2> QED BY <2>2, <2>3
<1>2. F # {}
  OBVIOUS
<1>3. \E u \in F : \A v \in F : ~ (<<v, u>> \in R)
  <2> HIDE DEF F, R
  <2>1. IsWellFoundedOn(R, FiniteSubsetsOf(Nat))
    BY FS_StrictSubsetOrderingWellFounded DEF R
  <2> QED BY <1>1, <1>2, <2>1, WFMin
<1>4. PICK x \in T : \A v \in F : ~ (<<v, 0 .. x>> \in R)
  BY <1>3
<1>5. ASSUME NEW y \in T, y < x PROVE FALSE
  <2>1. 0 .. y \in F
    OBVIOUS
  <2>2. 0 .. y \subseteq 0 .. x /\ 0 .. y # 0 .. x
    <3>1. x \in 0 .. x /\ x \notin 0 .. y
      BY <1>5
    <3> QED BY <1>5, <3>1
  <2>3. <<0 .. y, 0 .. x>> \in R
    BY <2>2, SMT DEF StrictSubsetOrdering
  <2> QED BY <1>4, <2>1, <2>3
<1> QED BY <1>5

-----------------------------------------------------------------------------
(* Walks: a step at a time until there is nowhere to go *)

\* A finite set of numbers has a bound.
LEMMA FiniteHasBound ==
  ASSUME NEW S, S \subseteq Nat, IsFiniteSet(S)
  PROVE  \E top \in Nat : \A x \in S : x <= top
<1> DEFINE Under(T) == \E top \in Nat : \A x \in T : x <= top
           U == {T \in SUBSET S : ~Under(T)}
           R == StrictSubsetOrdering(S)
           F == FiniteSubsetsOf(S)
<1> SUFFICES ASSUME ~Under(S)
             PROVE  FALSE
  OBVIOUS
<1>1. \A T \in SUBSET S : T \in F
  <2> SUFFICES ASSUME NEW T \in SUBSET S
               PROVE  T \in F
    OBVIOUS
  <2> QED BY FS_Subset DEF FiniteSubsetsOf
<1>2. IsWellFoundedOn(R, F)
  BY FS_StrictSubsetOrderingWellFounded
<1>3. U \subseteq F /\ U # {}
  BY <1>1
<1>4. PICK T \in U : \A Y \in U : ~ (<<Y, T>> \in R)
  <2> HIDE DEF U, R, F
  <2> QED BY <1>2, <1>3, WFMin
<1>5. T # {}
  BY <1>4
<1>6. PICK x \in T : TRUE
  BY <1>5
<1>7. x \in Nat /\ T \subseteq S
  BY <1>4
<1>8. T \ {x} \notin U
  BY <1>4, <1>6, <1>7 DEF StrictSubsetOrdering
<1>9. PICK top \in Nat : \A y \in T \ {x} : y <= top
  BY <1>7, <1>8
<1>10. Under(T)
  <2>1. CASE x <= top
    BY <1>9, <2>1
  <2>2. CASE top <= x
    <3>1. \A y \in T : y <= x
      <4> SUFFICES ASSUME NEW y \in T
                   PROVE  y <= x
        OBVIOUS
      <4>1. y \in Nat
        BY <1>7
      <4>2. y = x \/ y <= top
        BY <1>9
      <4> QED BY <1>7, <1>9, <2>2, <4>1, <4>2
    <3> QED BY <1>7, <3>1
  <2> QED BY <1>7, <1>9, <2>1, <2>2
<1> QED BY <1>10

\* The heights of a heap have a bound.
Bounded(h) == \E top \in Nat : \A n \in DOMAIN h : h[n].height <= top

\* Finitely many nodes: finitely many heights.
LEMMA FiniteBounded ==
  ASSUME NEW h, HeapType(h), IsFiniteSet(DOMAIN h)
  PROVE  Bounded(h)
<1> DEFINE D == DOMAIN h
           f == [n \in D |-> h[n].height]
           S == {f[n] : n \in D}
<1>1. f \in Surjection(D, S)
  BY DEF Surjection
<1>2. S \subseteq Nat
  BY HeapNode
<1>3. IsFiniteSet(S)
  <2> HIDE DEF S, f, D
  <2> QED BY <1>1, FS_Surjection DEF D
<1>4. PICK top \in Nat : \A x \in S : x <= top
  <2> HIDE DEF S
  <2> QED BY <1>2, <1>3, FiniteHasBound
<1> QED BY <1>4 DEF Bounded

\* Without a root there is no node: each would have a parent, which is higher.
LEMMA NoRootNoNode ==
  ASSUME NEW h, NEW tops, WellFormed(h, tops), IsFiniteSet(DOMAIN h), tops \cap DOMAIN h = {}
  PROVE  DOMAIN h = {} /\ PairCount(h) = 0
<1>1. HeapType(h)
  BY DEF WellFormed
<1>2. PICK top \in Nat : \A n \in DOMAIN h : h[n].height <= top
  BY <1>1, FiniteBounded DEF Bounded
<1>3. SUFFICES ASSUME NEW m \in DOMAIN h
               PROVE  FALSE
  <2>1. UNION {{n} \X (1 .. len(h, n)) : n \in {}} = {}
    OBVIOUS
  <2> QED BY <2>1, FS_EmptySet DEF PairCount
<1> DEFINE U == {k \in Nat : \E n \in DOMAIN h : h[n].height + k = top}
<1>4. U # {}
  <2>1. m \in DOMAIN h /\ h[m].height \in Nat /\ h[m].height <= top
    BY <1>1, <1>2, HeapNode
  <2>2. top - h[m].height \in Nat /\ h[m].height + (top - h[m].height) = top
    BY <2>1
  <2> QED BY <2>1, <2>2
<1>5. PICK k \in U : \A j \in U : k <= j
  <2> HIDE DEF U
  <2>1. U \subseteq Nat
    BY DEF U
  <2> QED BY <1>4, <2>1, Least
<1>6. PICK n \in DOMAIN h : h[n].height + k = top
  OBVIOUS
<1>7. h[n].parent \in DOMAIN h /\ h[h[n].parent].height = h[n].height + 1
  BY <1>6, WellFormedFacts
<1>8. k \in Nat /\ h[n].height \in Nat /\ h[n].height + 1 <= top
  BY <1>1, <1>2, <1>6, <1>7, HeapNode
<1>9. k - 1 \in U
  <2>1. k - 1 \in Nat /\ h[h[n].parent].height + (k - 1) = top
    BY <1>6, <1>7, <1>8
  <2> QED BY <1>7, <2>1
<1> QED BY <1>5, <1>8, <1>9
-----------------------------------------------------------------------------
(* Counting the pairs *)

\* The places of a heap's pairs.
Places(h) == UNION {{n} \X (1 .. len(h, n)) : n \in DOMAIN h}

\* A heap in which pairs can be counted.
Countable(h) == IsFiniteSet(DOMAIN h) /\ \A n \in DOMAIN h : Len(h[n].kv) \in Nat

\* A well-formed heap of finitely many nodes is one.
LEMMA WellFormedCountable ==
  ASSUME NEW h, HeapType(h), IsFiniteSet(DOMAIN h)
  PROVE  Countable(h)
  BY HeapNode DEF Countable

\* The places one by one.
LEMMA PlacesOf ==
  ASSUME NEW h, NEW q
  PROVE  q \in Places(h) <=> \E n \in DOMAIN h : \E i \in 1 .. Len(h[n].kv) : q = <<n, i>>
  BY DEF Places, len

\* There are as many places as there are pairs, finitely many.
LEMMA PlacesFinite ==
  ASSUME NEW h, Countable(h)
  PROVE  IsFiniteSet(Places(h)) /\ PairCount(h) = Cardinality(Places(h)) /\ PairCount(h) \in Nat
<1> DEFINE D == DOMAIN h
           F == [n \in D |-> {n} \X (1 .. len(h, n))]
           T == {F[n] : n \in D}
<1>1. F \in Surjection(D, T)
  BY DEF Surjection
<1>2. IsFiniteSet(D)
  BY DEF Countable
<1>3. IsFiniteSet(T)
  <2> HIDE DEF F, T, D
  <2> QED BY <1>1, <1>2, FS_Surjection
<1>4. ASSUME NEW U \in T PROVE IsFiniteSet(U)
  <2>1. PICK n \in D : U = {n} \X (1 .. len(h, n))
    OBVIOUS
  <2>2. len(h, n) \in Int /\ 1 \in Int
    BY DEF Countable, len
  <2>3. IsFiniteSet(1 .. len(h, n)) /\ IsFiniteSet({n})
    BY <2>2, FS_Interval, FS_Singleton
  <2> QED BY <2>1, <2>3, FS_Product
<1>5. UNION T = Places(h)
  BY DEF Places
<1>6. IsFiniteSet(UNION T)
  <2> HIDE DEF T
  <2> QED BY <1>3, <1>4, FS_UNION
<1>7. PairCount(h) = Cardinality(Places(h))
  BY DEF PairCount, Places
<1> QED BY <1>5, <1>6, <1>7, FS_CardinalityType

\* The count is made of lengths.
LEMMA CountSame ==
  ASSUME NEW g, NEW h, DOMAIN g = DOMAIN h, \A n \in DOMAIN h : Len(g[n].kv) = Len(h[n].kv)
  PROVE  PairCount(g) = PairCount(h)
<1>1. Places(g) = Places(h)
  <2> SUFFICES ASSUME NEW q
               PROVE  q \in Places(g) <=> q \in Places(h)
    OBVIOUS
  <2> QED BY PlacesOf
<1> QED BY <1>1 DEF PairCount, Places

\* A node more.
LEMMA CountNew ==
  ASSUME NEW g, NEW h, NEW n, n \notin DOMAIN h, DOMAIN g = DOMAIN h \cup {n}, Countable(g),
         \A m \in DOMAIN h : Len(g[m].kv) = Len(h[m].kv)
  PROVE  PairCount(g) = PairCount(h) + Len(g[n].kv) /\ Countable(h) /\ PairCount(h) \in Nat
<1> DEFINE own == {n} \X (1 .. Len(g[n].kv))
<1>1. Countable(h)
  <2>1. IsFiniteSet(DOMAIN h)
    <3>1. IsFiniteSet(DOMAIN g) /\ DOMAIN h \in SUBSET (DOMAIN g)
      BY DEF Countable
    <3> QED BY <3>1, FS_Subset
  <2> QED BY <2>1 DEF Countable
<1>2. Places(g) = Places(h) \cup own
  <2> SUFFICES ASSUME NEW q
               PROVE  q \in Places(g) <=> q \in Places(h) \/ q \in own
    OBVIOUS
  <2> QED BY PlacesOf
<1>3. Places(h) \cap own = {}
  <2> SUFFICES ASSUME NEW q \in Places(h), q \in own
               PROVE  FALSE
    OBVIOUS
  <2> QED BY PlacesOf
<1>4. IsFiniteSet(own) /\ Cardinality(own) = Len(g[n].kv)
  <2>1. Len(g[n].kv) \in Nat
    BY DEF Countable
  <2>2. Len(g[n].kv) \in Int /\ 1 \in Int
    BY <2>1
  <2>3. /\ IsFiniteSet(1 .. Len(g[n].kv))
        /\ Cardinality(1 .. Len(g[n].kv)) = IF 1 > Len(g[n].kv) THEN 0 ELSE Len(g[n].kv) - 1 + 1
    BY ONLY <2>2, FS_Interval
  <2>4. Cardinality(1 .. Len(g[n].kv)) = Len(g[n].kv)
    BY <2>1, <2>3
  <2>5. IsFiniteSet({n}) /\ Cardinality({n}) = 1
    BY FS_Singleton
  <2>6. IsFiniteSet(own) /\ Cardinality(own) = Cardinality({n}) * Cardinality(1 .. Len(g[n].kv))
    BY <2>3, <2>5, FS_Product
  <2> QED BY <2>1, <2>4, <2>5, <2>6
<1> HIDE DEF own
<1>5. Cardinality(Places(g)) = Cardinality(Places(h)) + Cardinality(own) - Cardinality({})
  <2>1. IsFiniteSet(Places(h))
    BY <1>1, PlacesFinite
  <2> QED BY <1>2, <1>3, <1>4, <2>1, FS_Union
<1>6. Cardinality({}) = 0
  BY FS_EmptySet
<1>7. PairCount(g) = Cardinality(Places(g)) /\ PairCount(h) = Cardinality(Places(h))
      /\ PairCount(h) \in Nat
  BY <1>1, PlacesFinite
<1>8. Len(g[n].kv) \in Nat
  BY DEF Countable
<1> QED BY <1>1, <1>4, <1>5, <1>6, <1>7, <1>8

\* A node with another length.
LEMMA CountOne ==
  ASSUME NEW g, NEW h, NEW n \in DOMAIN h, DOMAIN g = DOMAIN h, Countable(h),
         Len(g[n].kv) \in Nat,
         \A m \in DOMAIN h \ {n} : Len(g[m].kv) = Len(h[m].kv)
  PROVE  /\ PairCount(g) = PairCount(h) - Len(h[n].kv) + Len(g[n].kv)
         /\ PairCount(h) \in Nat /\ Countable(g)
<1> DEFINE k == [m \in DOMAIN h \ {n} |-> h[m]]
<1>1. Countable(g)
  BY DEF Countable
<1>2. /\ n \notin DOMAIN k /\ DOMAIN h = DOMAIN k \cup {n} /\ DOMAIN g = DOMAIN k \cup {n}
      /\ \A m \in DOMAIN k : Len(g[m].kv) = Len(k[m].kv) /\ Len(h[m].kv) = Len(k[m].kv)
  OBVIOUS
<1> HIDE DEF k
<1>3. PairCount(h) = PairCount(k) + Len(h[n].kv) /\ PairCount(k) \in Nat
  BY <1>2, CountNew
<1>4. PairCount(g) = PairCount(k) + Len(g[n].kv)
  BY <1>1, <1>2, CountNew
<1>5. Len(h[n].kv) \in Nat
  BY DEF Countable
<1> QED BY <1>1, <1>3, <1>4, <1>5

\* g has d pairs more than h.
Tally(g, h, d) == Countable(g) /\ PairCount(g) = PairCount(h) + d

\* One change after another.
LEMMA TallyTwice ==
  ASSUME NEW f, NEW g, NEW h, Countable(h), NEW c \in Int, NEW d \in Int, Tally(f, g, c), Tally(g, h, d)
  PROVE  Tally(f, h, c + d)
<1>1. PairCount(h) \in Nat
  BY PlacesFinite
<1> QED BY <1>1 DEF Tally

\* Nothing but the places of pairs has changed.
LEMMA TallySame ==
  ASSUME NEW g, NEW h, Countable(h), DOMAIN g = DOMAIN h,
         \A n \in DOMAIN h : Len(g[n].kv) = Len(h[n].kv)
  PROVE  Tally(g, h, 0)
<1>1. PairCount(g) = PairCount(h) /\ PairCount(h) \in Nat
  BY CountSame, PlacesFinite
<1> QED BY <1>1 DEF Tally, Countable

\* One node has another length.
LEMMA TallyOne ==
  ASSUME NEW g, NEW h, Countable(h), DOMAIN g = DOMAIN h, NEW n, n \in DOMAIN h,
         NEW d \in Int, Len(g[n].kv) \in Nat, Len(g[n].kv) = Len(h[n].kv) + d,
         \A m \in DOMAIN h \ {n} : Len(g[m].kv) = Len(h[m].kv)
  PROVE  Tally(g, h, d)
<1>1. /\ PairCount(g) = PairCount(h) - Len(h[n].kv) + Len(g[n].kv)
      /\ PairCount(h) \in Nat /\ Countable(g)
  BY CountOne
<1>2. Len(h[n].kv) \in Nat
  BY DEF Countable
<1> QED BY <1>1, <1>2 DEF Tally

\* Two nodes have.
LEMMA TallyTwo ==
  ASSUME NEW g, NEW h, Countable(h), DOMAIN g = DOMAIN h,
         NEW a, a \in DOMAIN h, NEW b, b \in DOMAIN h, a # b,
         NEW c \in Int, Len(g[a].kv) \in Nat, Len(g[a].kv) = Len(h[a].kv) + c,
         NEW d \in Int, Len(g[b].kv) \in Nat, Len(g[b].kv) = Len(h[b].kv) + d,
         \A m \in DOMAIN h \ {a, b} : Len(g[m].kv) = Len(h[m].kv)
  PROVE  Tally(g, h, c + d)
<1> DEFINE k == [m \in DOMAIN h |-> IF m = b THEN g[m] ELSE h[m]]
<1>1. /\ DOMAIN k = DOMAIN h /\ k[b] = g[b] /\ k[a] = h[a]
      /\ \A m \in DOMAIN h \ {b} : k[m] = h[m]
  OBVIOUS
<1> HIDE DEF k
<1>2. Tally(k, h, d)
  BY <1>1, TallyOne
<1>3. Countable(k) /\ \A m \in DOMAIN k \ {a} : Len(g[m].kv) = Len(k[m].kv)
  BY <1>1, <1>2 DEF Tally
<1>4. Tally(g, k, c)
  BY <1>1, <1>3, TallyOne
<1> QED BY <1>2, <1>4, TallyTwice

\* An allocated node.
LEMMA TallyNew ==
  ASSUME NEW g, NEW h, Countable(h), NEW n, n \notin DOMAIN h, DOMAIN g = DOMAIN h \cup {n},
         Len(g[n].kv) \in Nat, \A m \in DOMAIN h : Len(g[m].kv) = Len(h[m].kv)
  PROVE  Tally(g, h, Len(g[n].kv))
<1>1. Countable(g)
  <2>1. IsFiniteSet(DOMAIN g)
    BY FS_AddElement DEF Countable
  <2>2. \A m \in DOMAIN g : Len(g[m].kv) \in Nat
    BY DEF Countable
  <2> QED BY <2>1, <2>2 DEF Countable
<1>2. PairCount(g) = PairCount(h) + Len(g[n].kv)
  BY <1>1, CountNew
<1> QED BY <1>1, <1>2 DEF Tally

\* A freed node.
LEMMA TallyGone ==
  ASSUME NEW g, NEW h, Countable(h), NEW n, n \in DOMAIN h, DOMAIN g = DOMAIN h \ {n},
         \A m \in DOMAIN g : Len(g[m].kv) = Len(h[m].kv),
         NEW d \in Int, Len(h[n].kv) + d = 0
  PROVE  Tally(g, h, d)
<1>1. PairCount(h) = PairCount(g) + Len(h[n].kv) /\ Countable(g) /\ PairCount(g) \in Nat
  <2>1. n \notin DOMAIN g /\ DOMAIN h = DOMAIN g \cup {n}
        /\ \A m \in DOMAIN g : Len(h[m].kv) = Len(g[m].kv)
    OBVIOUS
  <2> QED BY <2>1, CountNew
<1>2. Len(h[n].kv) \in Nat
  BY DEF Countable
<1> QED BY <1>1, <1>2 DEF Tally

\* An insertion counts.
LEMMA TallyInserted ==
  ASSUME NEW g, NEW h, NEW tops, NEW n, n \in DOMAIN h, Countable(h), Inserted(g, h, tops, n)
  PROVE  Tally(g, h, 1)
<1>1. /\ DOMAIN g = DOMAIN h /\ Len(g[n].kv) = Len(h[n].kv) + 1 /\ Len(h[n].kv) \in Nat
      /\ \A m \in DOMAIN h \ {n} : Len(g[m].kv) = Len(h[m].kv)
  BY DEF Inserted, Countable
<1>2. Len(g[n].kv) \in Nat
  BY <1>1
<1> QED BY <1>1, <1>2, TallyOne

\* A split takes its middle pair out of the nodes.
LEMMA TallyHalved ==
  ASSUME NEW g, NEW h, NEW tops, NEW n, n \in DOMAIN h, NEW new, new \notin DOMAIN h,
         Countable(h), NEW idx, idx \in 0 .. Len(h[n].kv) - 1, Halved(g, h, tops, n, idx, new)
  PROVE  Tally(g, h, - 1)
<1> DEFINE l == Len(h[n].kv)
           k == [m \in DOMAIN h |-> IF m = n THEN g[n] ELSE h[m]]
<1>1. l \in Nat /\ idx \in Nat /\ idx \in Int /\ idx <= l - 1
  BY DEF Countable
<1>2. /\ DOMAIN g = DOMAIN h \cup {new} /\ Len(g[n].kv) = idx
      /\ Len(g[new].kv) = l - idx - 1
      /\ \A m \in DOMAIN h \ {n} : g[m].kv = h[m].kv
  BY DEF Halved
<1>3. /\ DOMAIN k = DOMAIN h /\ k[n] = g[n]
      /\ \A m \in DOMAIN h \ {n} : k[m] = h[m]
  OBVIOUS
<1> HIDE DEF k
<1>4. Len(k[n].kv) = l + (idx - l) /\ idx - l \in Int /\ Len(k[n].kv) \in Nat
      /\ \A m \in DOMAIN h \ {n} : Len(k[m].kv) = Len(h[m].kv)
  BY <1>1, <1>2, <1>3
<1>5. Tally(k, h, idx - l)
  BY <1>3, <1>4, TallyOne
<1>6. Countable(k) /\ \A m \in DOMAIN k : Len(g[m].kv) = Len(k[m].kv)
  BY <1>2, <1>3, <1>5 DEF Tally
<1>7. Len(g[new].kv) \in Nat
  BY <1>1, <1>2
<1>8. Tally(g, k, Len(g[new].kv))
  BY <1>2, <1>3, <1>6, <1>7, TallyNew
<1>9. Tally(g, h, Len(g[new].kv) + (idx - l))
  <2>1. Len(g[new].kv) \in Int /\ idx - l \in Int
    BY <1>4, <1>7
  <2> HIDE DEF l
  <2> QED BY <1>5, <1>8, <2>1, TallyTwice
<1>10. Len(g[new].kv) + (idx - l) = - 1
  BY <1>1, <1>2
<1> QED BY <1>9, <1>10

\* A merge takes a pair from the parent and puts it between the children's.
LEMMA TallyMerged ==
  ASSUME NEW g, NEW h, NEW tops, NEW p, NEW left, NEW right, p \in DOMAIN h,
         left \in DOMAIN h, right \in DOMAIN h, left # right, Countable(h),
         Len(h[p].kv) >= 1, Merged(g, h, tops, p, left, right)
  PROVE  Tally(g, h, 0)
<1> DEFINE k == [m \in DOMAIN h |-> IF m = right THEN h[m] ELSE g[m]]
           r == Len(h[right].kv)
<1>1. Len(h[p].kv) \in Nat /\ Len(h[left].kv) \in Nat /\ r \in Nat
  BY DEF Countable
<1>2. /\ DOMAIN g = DOMAIN h \ {right} /\ left # p /\ right # p
      /\ Len(g[p].kv) = Len(h[p].kv) - 1 /\ Len(g[left].kv) = Len(h[left].kv) + 1 + r
      /\ \A m \in DOMAIN g \ {p, left} : g[m].kv = h[m].kv
  BY DEF Merged
<1>3. /\ DOMAIN k = DOMAIN h /\ k[right] = h[right]
      /\ \A m \in DOMAIN h \ {right} : k[m] = g[m]
  OBVIOUS
<1> HIDE DEF k
<1>4. /\ Len(k[p].kv) = Len(h[p].kv) + (- 1) /\ Len(k[p].kv) \in Nat /\ - 1 \in Int
      /\ Len(k[left].kv) = Len(h[left].kv) + (1 + r) /\ Len(k[left].kv) \in Nat
      /\ 1 + r \in Int
  <2>1. k[p] = g[p] /\ k[left] = g[left]
    BY <1>2, <1>3
  <2> HIDE DEF r
  <2>2. Len(k[p].kv) = Len(h[p].kv) + (- 1) /\ Len(k[p].kv) \in Nat /\ - 1 \in Int
    BY <1>1, <1>2, <2>1
  <2>3. Len(k[left].kv) = Len(h[left].kv) + (1 + r) /\ Len(k[left].kv) \in Nat
        /\ 1 + r \in Int
    <3>1. PICK a \in Nat : a = Len(h[left].kv)
      BY <1>1
    <3>2. PICK b \in Nat : b = r
      BY <1>1
    <3>3. Len(k[left].kv) = a + 1 + b
      BY <1>2, <2>1, <3>1, <3>2
    <3>4. a + 1 + b = a + (1 + b) /\ a + 1 + b \in Nat /\ 1 + b \in Int
      OBVIOUS
    <3> QED BY <3>1, <3>2, <3>3, <3>4
  <2> QED BY <2>2, <2>3
<1>5. \A m \in DOMAIN h \ {p, left} : Len(k[m].kv) = Len(h[m].kv)
  BY <1>2, <1>3
<1>6. Tally(k, h, (- 1) + (1 + r))
  BY <1>2, <1>3, <1>4, <1>5, TallyTwo
<1>7. Tally(g, k, - r)
  <2>1. Countable(k) /\ \A m \in DOMAIN g : Len(g[m].kv) = Len(k[m].kv)
    BY <1>2, <1>3, <1>6 DEF Tally
  <2>2. right \in DOMAIN k /\ DOMAIN g = DOMAIN k \ {right}
    BY <1>2, <1>3
  <2>3. Len(k[right].kv) + (- r) = 0 /\ - r \in Int
    BY <1>1, <1>3
  <2> HIDE DEF r
  <2> QED BY <2>1, <2>2, <2>3, TallyGone
<1> HIDE DEF r
<1>8. Tally(g, h, (- r) + ((- 1) + (1 + r)))
  <2>1. - r \in Int /\ (- 1) + (1 + r) \in Int
    BY <1>1
  <2> QED BY <1>6, <1>7, <2>1, TallyTwice
<1>9. (- r) + ((- 1) + (1 + r)) = 0
  BY <1>1
<1> QED BY <1>8, <1>9

\* A steal moves as many pairs into one child as out of the other.
LEMMA TallyStolen ==
  ASSUME NEW g, NEW h, NEW tops, NEW p, NEW left, NEW right, p \in DOMAIN h,
         left \in DOMAIN h, right \in DOMAIN h, left # right, p # left, p # right, Countable(h),
         NEW x \in Nat, NEW y \in Nat, x + y = Len(h[left].kv) + Len(h[right].kv),
         Stolen(g, h, tops, p, left, right, x, y)
  PROVE  Tally(g, h, 0)
<1> DEFINE a == Len(h[left].kv)
           b == Len(h[right].kv)
<1>1. a \in Nat /\ b \in Nat
  BY DEF Countable
<1>2. /\ DOMAIN g = DOMAIN h /\ Len(g[left].kv) = x /\ Len(g[right].kv) = y
      /\ \A m \in DOMAIN h \ {left, right} : Len(g[m].kv) = Len(h[m].kv)
  BY DEF Stolen
<1>3. x - a \in Int /\ y - b \in Int /\ x = a + (x - a) /\ y = b + (y - b)
      /\ (x - a) + (y - b) = 0
  <2> HIDE DEF a, b
  <2>1. x + y = a + b
    BY DEF a, b
  <2> QED BY <1>1, <2>1
<1>4. Tally(g, h, (x - a) + (y - b))
  BY <1>2, <1>3, TallyTwo
<1> QED BY <1>3, <1>4

\* A new root holds the one pair it is made for.
LEMMA TallyGrown ==
  ASSUME NEW g, NEW h, NEW tops, NEW old, NEW e, NEW new, new \notin DOMAIN h, Countable(h),
         Grown(g, h, tops, old, e, new)
  PROVE  Tally(g, h, 1)
<1>1. /\ DOMAIN g = DOMAIN h \cup {new} /\ Len(g[new].kv) = 1
      /\ \A m \in DOMAIN h : Len(g[m].kv) = Len(h[m].kv)
  BY DEF Grown
<1>2. Len(g[new].kv) \in Nat
  BY <1>1
<1>3. Tally(g, h, Len(g[new].kv))
  BY <1>1, <1>2, TallyNew
<1> QED BY <1>1, <1>3

\* A popped root has none.
LEMMA TallyPopped ==
  ASSUME NEW g, NEW h, NEW tops, NEW root, NEW c, root \in DOMAIN h, Len(h[root].kv) = 0,
         Countable(h), Popped(g, h, tops, root, c)
  PROVE  Tally(g, h, 0)
<1>1. DOMAIN g = DOMAIN h \ {root} /\ \A m \in DOMAIN g : Len(g[m].kv) = Len(h[m].kv)
  BY DEF Popped
<1> QED BY <1>1, TallyGone
-----------------------------------------------------------------------------
(* Places in a tree *)

\* An edge of a node.
EdgeOf(h, e) == e \in [node : DOMAIN h, idx : Nat] /\ e.idx <= Len(h[e.node].kv)

\* An edge of a leaf.
LeafEdge(h, e) ==
  /\ e \in [node : DOMAIN h, idx : Nat]
  /\ h[e.node].height = 0 /\ e.idx <= Len(h[e.node].kv)

-----------------------------------------------------------------------------
(* Walks through a tree *)

\* g gives for every point of S what base gives for the point of stop that the
\* walk by next comes to.
IsWalk(S, stop, next, base, g) ==
  g = [x \in S |-> IF x \in stop THEN base[x] ELSE g[next[x]]]

\* The measure mu falls along the walk.
Falls(S, stop, next, mu) ==
  next \in [S -> S] /\ mu \in [S -> Nat] /\ \A x \in S \ stop : mu[next[x]] < mu[x]

\* No step of the walk leaves P, and where it stops in P base leads into Q.
Leads(stop, next, base, P, Q) ==
  (\A x \in P \ stop : next[x] \in P) /\ (\A x \in P \cap stop : base[x] \in Q)

\* The same where the measure mu is below k.
WalkBelow(S, stop, next, base, mu, g, k) ==
  \A x \in S : mu[x] < k => g[x] = IF x \in stop THEN base[x] ELSE g[next[x]]

\* Two such functions agree where both are defined.
LEMMA WalkUnique ==
  ASSUME NEW S, NEW stop, NEW next \in [S -> S], NEW base, NEW mu \in [S -> Nat],
         \A x \in S \ stop : mu[next[x]] < mu[x],
         NEW f, NEW j \in Nat, WalkBelow(S, stop, next, base, mu, f, j),
         NEW g, NEW k \in Nat, WalkBelow(S, stop, next, base, mu, g, k),
         NEW y \in S, mu[y] < j, mu[y] < k
  PROVE  f[y] = g[y]
<1> DEFINE T == {n \in Nat : \E x \in S : mu[x] = n /\ n < j /\ n < k /\ f[x] # g[x]}
<1>1. T \subseteq Nat
  OBVIOUS
<1>2. CASE T = {}
  <2>1. mu[y] \in Nat /\ mu[y] \notin T
    BY <1>2
  <2> QED BY <2>1
<1>3. CASE T # {}
  <2> HIDE DEF T
  <2>1. PICK n \in T : \A m \in T : n <= m
    BY <1>1, <1>3, Least
  <2>2. PICK x \in S : mu[x] = n /\ n < j /\ n < k /\ f[x] # g[x]
    BY <2>1 DEF T
  <2>3. n \in Nat
    BY <1>1
  <2>4. /\ f[x] = IF x \in stop THEN base[x] ELSE f[next[x]]
        /\ g[x] = IF x \in stop THEN base[x] ELSE g[next[x]]
    BY <2>2 DEF WalkBelow
  <2>5. x \notin stop /\ f[next[x]] # g[next[x]]
    BY <2>2, <2>4
  <2>6. next[x] \in S /\ mu[next[x]] \in Nat /\ mu[next[x]] < n
    BY <2>2, <2>5
  <2>7. mu[next[x]] < j /\ mu[next[x]] < k
    BY <2>2, <2>3, <2>6
  <2>8. mu[next[x]] \in T
    BY <2>5, <2>6, <2>7 DEF T
  <2> QED BY <2>1, <2>3, <2>6, <2>8
<1> QED BY <1>2, <1>3

\* There is one up to every measure.
LEMMA WalkUpTo ==
  ASSUME NEW S, NEW stop, NEW next \in [S -> S], NEW base, NEW mu \in [S -> Nat],
         \A x \in S \ stop : mu[next[x]] < mu[x],
         NEW k \in Nat
  PROVE  \E g : WalkBelow(S, stop, next, base, mu, g, k)
<1> DEFINE T == {n \in Nat : ~ \E g : WalkBelow(S, stop, next, base, mu, g, n)}
<1>1. T \subseteq Nat
  OBVIOUS
<1>2. CASE T = {}
  BY <1>2
<1>3. CASE T # {}
  <2> HIDE DEF T
  <2>1. PICK n \in T : \A m \in T : n <= m
    BY <1>1, <1>3, Least
  <2>2. n \in Nat /\ ~ \E g : WalkBelow(S, stop, next, base, mu, g, n)
    BY <2>1 DEF T
  <2>3. CASE n = 0
    <3>1. WalkBelow(S, stop, next, base, mu, base, 0)
      BY DEF WalkBelow
    <3> QED BY <2>2, <2>3, <3>1
  <2>4. CASE n # 0
    <3>1. n - 1 \in Nat /\ n - 1 \notin T
      BY <2>1, <2>2, <2>4
    <3>2. PICK g : WalkBelow(S, stop, next, base, mu, g, n - 1)
      BY <3>1 DEF T
    <3> DEFINE f == [x \in S |-> IF x \in stop THEN base[x] ELSE g[next[x]]]
    <3>3. ASSUME NEW x \in S, mu[x] < n
          PROVE  f[x] = IF x \in stop THEN base[x] ELSE f[next[x]]
      <4>1. CASE x \in stop
        BY <4>1
      <4>2. CASE x \notin stop
        <5>1. next[x] \in S /\ mu[next[x]] \in Nat /\ mu[next[x]] < mu[x] /\ mu[x] \in Nat
          BY <4>2
        <5>2. mu[next[x]] < n - 1
          BY <2>2, <3>3, <5>1
        <5>3. g[next[x]] = IF next[x] \in stop THEN base[next[x]] ELSE g[next[next[x]]]
          BY <3>2, <5>1, <5>2 DEF WalkBelow
        <5>4. f[next[x]] = g[next[x]]
          BY <5>1, <5>3
        <5> QED BY <4>2, <5>4
      <4> QED BY <4>1, <4>2
    <3> HIDE DEF f
    <3>4. WalkBelow(S, stop, next, base, mu, f, n)
      BY <3>3 DEF WalkBelow
    <3> QED BY <2>2, <3>4
  <2> QED BY <2>3, <2>4
<1> QED BY <1>2, <1>3

\* So a walk along which a measure falls is well defined.
LEMMA WalkExists ==
  ASSUME NEW S, NEW stop, NEW next, NEW base, NEW mu, Falls(S, stop, next, mu)
  PROVE  \E g : IsWalk(S, stop, next, base, g)
<1> USE DEF Falls
<1> DEFINE Upto(k) == CHOOSE g : WalkBelow(S, stop, next, base, mu, g, k)
           w == [x \in S |-> Upto(mu[x] + 1)[x]]
<1>1. ASSUME NEW k \in Nat PROVE WalkBelow(S, stop, next, base, mu, Upto(k), k)
  BY WalkUpTo
<1> HIDE DEF Upto
<1>2. ASSUME NEW x \in S
      PROVE  w[x] = IF x \in stop THEN base[x] ELSE w[next[x]]
  <2>1. mu[x] \in Nat /\ mu[x] + 1 \in Nat /\ mu[x] < mu[x] + 1
    OBVIOUS
  <2> DEFINE f == Upto(mu[x] + 1)
  <2>2. WalkBelow(S, stop, next, base, mu, f, mu[x] + 1)
    BY <1>1, <2>1
  <2>3. w[x] = f[x]
    OBVIOUS
  <2>4. f[x] = IF x \in stop THEN base[x] ELSE f[next[x]]
    BY <2>1, <2>2 DEF WalkBelow
  <2>5. CASE x \in stop
    BY <2>3, <2>4, <2>5
  <2>6. CASE x \notin stop
    <3>1. next[x] \in S /\ mu[next[x]] \in Nat /\ mu[next[x]] < mu[x]
      BY <2>6
    <3> DEFINE y == next[x]
               g == Upto(mu[y] + 1)
    <3>2. mu[y] + 1 \in Nat /\ mu[y] < mu[y] + 1 /\ mu[y] < mu[x] + 1
      BY <2>1, <3>1
    <3>3. WalkBelow(S, stop, next, base, mu, g, mu[y] + 1)
      BY <1>1, <3>2
    <3>4. w[y] = g[y]
      BY <3>1
    <3> HIDE DEF w, f, g, y
    <3>5. y \in S
      BY <3>1 DEF y
    <3>6. f[y] = g[y]
      BY <2>1, <2>2, <3>2, <3>3, <3>5, WalkUnique
    <3> QED BY <2>3, <2>4, <2>6, <3>4, <3>6 DEF y
  <2> QED BY <2>5, <2>6
<1>3. IsWalk(S, stop, next, base, w)
  BY <1>2 DEF IsWalk
<1> QED BY <1>3

\* Where a walk leads, if what it does not leave is known.
LEMMA WalkLeads ==
  ASSUME NEW S, NEW stop, NEW next, NEW base, NEW mu, Falls(S, stop, next, mu),
         NEW w, IsWalk(S, stop, next, base, w),
         NEW P, P \subseteq S, NEW Q, Leads(stop, next, base, P, Q), NEW y \in P
  PROVE  w[y] \in Q
<1> USE DEF Falls, Leads
<1> DEFINE T == {n \in Nat : \E x \in P : mu[x] = n /\ w[x] \notin Q}
<1>1. T \subseteq Nat
  OBVIOUS
<1>2. \A x \in S : w[x] = IF x \in stop THEN base[x] ELSE w[next[x]]
  BY DEF IsWalk
<1>3. CASE T = {}
  <2>1. mu[y] \in Nat /\ mu[y] \notin T
    BY <1>3
  <2> QED BY <2>1
<1>4. CASE T # {}
  <2> HIDE DEF T
  <2>1. PICK n \in T : \A m \in T : n <= m
    BY <1>1, <1>4, Least
  <2>2. PICK x \in P : mu[x] = n /\ w[x] \notin Q
    BY <2>1 DEF T
  <2>3. x \notin stop /\ w[next[x]] \notin Q
    BY <1>2, <2>2
  <2>4. next[x] \in P /\ mu[next[x]] \in Nat /\ mu[next[x]] < n /\ n \in Nat
    BY <1>1, <2>2, <2>3
  <2>5. mu[next[x]] \in T
    BY <2>3, <2>4 DEF T
  <2> QED BY <2>1, <2>4, <2>5
<1> QED BY <1>3, <1>4

-----------------------------------------------------------------------------
(* Down to a leaf *)

\* first_leaf_edge finds the first edge of a leaf.
LEMMA FirstLeaf ==
  ASSUME NEW h, NEW tops, WellFormed(h, tops), NEW n \in DOMAIN h
  PROVE  LeafEdge(h, first_leaf_edge(h, n)) /\ first_leaf_edge(h, n).idx = 0
<1> DEFINE S == DOMAIN h
           stop == {m \in S : IsLeaf(h, m)}
           next == [m \in S |-> IF m \in stop THEN m ELSE descend(h, m, 0)]
           base == [m \in S |-> Handle(m, 0)]
           mu == [m \in S |-> h[m].height]
           Eq(f) == f = [m \in S |->
                           IF IsLeaf(h, m) THEN Handle(m, 0)
                           ELSE IF descend(h, m, 0) \in DOMAIN h THEN f[descend(h, m, 0)] ELSE NoHandle]
           first == CHOOSE f : Eq(f)
           Q == {e \in [node : S, idx : Nat] : LeafEdge(h, e) /\ e.idx = 0}
<1>1. \A m \in S : h[m].height \in Nat /\ Len(h[m].kv) \in Nat
  BY HeapNode DEF WellFormed
<1>2. ASSUME NEW m \in S, m \notin stop
      PROVE  descend(h, m, 0) \in S /\ h[descend(h, m, 0)].height < h[m].height
  <2>1. h[m].height # 0
    BY <1>2 DEF IsLeaf
  <2>2. Len(h[m].edges) = Len(h[m].kv) + 1
    BY <2>1, NodeArity
  <2>3. 1 \in 1 .. Len(h[m].edges)
    BY <1>1, <2>2
  <2> QED BY <1>1, <2>1, <2>3, WellFormedFacts DEF descend
<1>3. Falls(S, stop, next, mu)
  BY <1>1, <1>2 DEF Falls
<1>4. \A f : Eq(f) <=> IsWalk(S, stop, next, base, f)
  BY <1>2 DEF IsWalk
<1>5. \E f : IsWalk(S, stop, next, base, f)
  BY <1>3, WalkExists
<1>6. first_leaf_edge(h, n) = first[n]
  BY DEF first_leaf_edge
<1>7. IsWalk(S, stop, next, base, first)
  BY <1>4, <1>5
<1>8. Leads(stop, next, base, S, Q)
  BY <1>1, <1>2 DEF Leads, LeafEdge, Handle, IsLeaf
<1> HIDE DEF S, stop, next, base, mu, first, Q, Eq
<1>9. first[n] \in Q
  <2>1. n \in S /\ S \subseteq S
    BY DEF S
  <2> QED BY <1>3, <1>7, <1>8, <2>1, WalkLeads
<1> QED BY <1>6, <1>9 DEF Q

\* last_leaf_edge finds the last edge of a leaf.
LEMMA LastLeaf ==
  ASSUME NEW h, NEW tops, WellFormed(h, tops), NEW n \in DOMAIN h
  PROVE  LeafEdge(h, last_leaf_edge(h, n))
<1> DEFINE S == DOMAIN h
           stop == {m \in S : IsLeaf(h, m)}
           next == [m \in S |-> IF m \in stop THEN m ELSE descend(h, m, len(h, m))]
           base == [m \in S |-> Handle(m, len(h, m))]
           mu == [m \in S |-> h[m].height]
           Eq(f) == f = [m \in S |-> IF IsLeaf(h, m) THEN Handle(m, len(h, m))
                                     ELSE IF descend(h, m, len(h, m)) \in DOMAIN h
                                          THEN f[descend(h, m, len(h, m))] ELSE NoHandle]
           last == CHOOSE f : Eq(f)
           Q == {e \in [node : S, idx : Nat] : LeafEdge(h, e)}
<1>1. \A m \in S : h[m].height \in Nat /\ Len(h[m].kv) \in Nat
  BY HeapNode DEF WellFormed
<1>2. ASSUME NEW m \in S, m \notin stop
      PROVE  descend(h, m, len(h, m)) \in S /\ h[descend(h, m, len(h, m))].height < h[m].height
  <2>1. h[m].height # 0
    BY <1>2 DEF IsLeaf
  <2>2. Len(h[m].edges) = Len(h[m].kv) + 1
    BY <2>1, NodeArity
  <2>3. Len(h[m].kv) + 1 \in 1 .. Len(h[m].edges)
    BY <1>1, <2>2
  <2> QED BY <1>1, <2>1, <2>3, WellFormedFacts DEF descend, len
<1>3. Falls(S, stop, next, mu)
  BY <1>1, <1>2 DEF Falls
<1>4. \A f : Eq(f) <=> IsWalk(S, stop, next, base, f)
  BY <1>2 DEF IsWalk
<1>5. \E f : IsWalk(S, stop, next, base, f)
  BY <1>3, WalkExists
<1>6. last_leaf_edge(h, n) = last[n]
  BY DEF last_leaf_edge
<1>7. IsWalk(S, stop, next, base, last)
  BY <1>4, <1>5
<1>8. Leads(stop, next, base, S, Q)
  BY <1>1, <1>2 DEF Leads, LeafEdge, Handle, IsLeaf, len
<1> HIDE DEF S, stop, next, base, mu, last, Q, Eq
<1>9. last[n] \in Q
  <2>1. n \in S /\ S \subseteq S
    BY DEF S
  <2> QED BY <1>3, <1>7, <1>8, <2>1, WalkLeads
<1> QED BY <1>6, <1>9 DEF Q

-----------------------------------------------------------------------------
(* Up to a pair *)

\* No node exceeds its arrays.
Roomy(h) == \A n \in DOMAIN h : Len(h[n].kv) <= CAPACITY

\* ascend leads from a node to an edge of its parent.
LEMMA Ascended ==
  ASSUME NEW h, NEW tops, WellFormed(h, tops), NEW n \in DOMAIN h, h[n].parent # Nil
  PROVE  /\ EdgeOf(h, ascend(h, n)) /\ ascend(h, n).node \in DOMAIN h
         /\ h[ascend(h, n).node].height = h[n].height + 1
<1>1. /\ h[n].parent \in DOMAIN h
      /\ h[n].parent_idx + 1 \in 1 .. Len(h[h[n].parent].edges)
      /\ h[h[n].parent].height = h[n].height + 1
  BY WellFormedFacts
<1>2. h[n].height \in Nat /\ h[n].parent_idx \in Nat /\ Len(h[h[n].parent].kv) \in Nat
  BY <1>1, HeapNode DEF WellFormed
<1>3. Len(h[h[n].parent].edges) = Len(h[h[n].parent].kv) + 1
  BY <1>1, <1>2, NodeArity
<1> QED BY <1>1, <1>2, <1>3 DEF ascend, Handle, EdgeOf

\* The points of a climb, at which a pair is found and at which there is none.
LEMMA Climbs ==
  ASSUME NEW h, NEW tops, WellFormed(h, tops), Bounded(h), Roomy(h),
         NEW found, found \subseteq Handles(h),
         NEW base
  PROVE  LET stop == {x \in Handles(h) : x \in found \/ h[x.node].parent = Nil}
             next == [x \in Handles(h) |-> IF x \in stop THEN x ELSE ascend(h, x.node)]
         IN  /\ \E mu : Falls(Handles(h), stop, next, mu)
             /\ \A x \in Handles(h) : EdgeOf(h, x) /\ x \notin stop => EdgeOf(h, next[x])
<1> DEFINE S == Handles(h)
           stop == {x \in S : x \in found \/ h[x.node].parent = Nil}
           next == [x \in S |-> IF x \in stop THEN x ELSE ascend(h, x.node)]
<1>1. PICK top \in Nat : \A n \in DOMAIN h : h[n].height <= top
  BY DEF Bounded
<1> DEFINE mu == [x \in S |-> top - h[x.node].height]
<1>2. \A n \in DOMAIN h : h[n].height \in Nat /\ Len(h[n].kv) \in Nat /\ Len(h[n].kv) <= CAPACITY
  BY HeapNode DEF WellFormed, Roomy
<1>3. \A x \in S : x.node \in DOMAIN h
  BY DEF Handles
<1>4. ASSUME NEW x \in S, x \notin stop
      PROVE  /\ ascend(h, x.node) \in S /\ EdgeOf(h, ascend(h, x.node))
             /\ h[ascend(h, x.node).node].height = h[x.node].height + 1
  <2> DEFINE y == ascend(h, x.node)
  <2>1. /\ EdgeOf(h, y) /\ y.node \in DOMAIN h
        /\ h[y.node].height = h[x.node].height + 1
    BY <1>3, <1>4, Ascended
  <2>2. Len(h[y.node].kv) \in Nat /\ Len(h[y.node].kv) <= CAPACITY
    BY <1>2, <2>1
  <2> HIDE DEF y
  <2>3. y \in S
    BY <2>1, <2>2, BAssumption DEF EdgeOf, Handles, CAPACITY
  <2> QED BY <2>1, <2>3 DEF y
<1>5. \A x \in S : top - h[x.node].height \in Nat
  BY <1>1, <1>2, <1>3
<1>6. \A x \in S \ stop : mu[next[x]] < mu[x]
  <2> SUFFICES ASSUME NEW x \in S, x \notin stop
               PROVE  mu[next[x]] < mu[x]
    OBVIOUS
  <2> DEFINE y == ascend(h, x.node)
  <2>1. next[x] = y /\ y \in S /\ h[y.node].height = h[x.node].height + 1
    BY <1>4
  <2>2. mu[x] = top - h[x.node].height /\ mu[y] = top - h[y.node].height
    BY <2>1
  <2>3. h[x.node].height \in Nat
    BY <1>2, <1>3
  <2> QED BY <2>1, <2>2, <2>3
<1>7. Falls(S, stop, next, mu)
  <2>1. next \in [S -> S]
    BY <1>4
  <2>2. mu \in [S -> Nat]
    BY <1>5
  <2> HIDE DEF mu, next, stop, S
  <2> QED BY <1>6, <2>1, <2>2 DEF Falls
<1>8. \A x \in S : EdgeOf(h, x) /\ x \notin stop => EdgeOf(h, next[x])
  BY <1>4
<1> QED BY <1>7, <1>8

\* next_kv finds a pair of the tree or, after the last edge, none.
LEMMA NextKv ==
  ASSUME NEW h, NEW tops, WellFormed(h, tops), Bounded(h), Roomy(h), NEW e, EdgeOf(h, e)
  PROVE  next_kv(h, e) = NoHandle \/ PairIn(h, next_kv(h, e))
<1> DEFINE S == Handles(h)
           found == {x \in S : x.idx < len(h, x.node)}
           stop == {x \in S : x \in found \/ h[x.node].parent = Nil}
           next == [x \in S |-> IF x \in stop THEN x ELSE ascend(h, x.node)]
           base == [x \in S |-> IF x \in found THEN x ELSE NoHandle]
           Eq(f) == f = [x \in S |->
                           IF x.idx < len(h, x.node) THEN x
                           ELSE IF h[x.node].parent # Nil THEN f[ascend(h, x.node)] ELSE NoHandle]
           climb == CHOOSE f : Eq(f)
           P == {x \in S : EdgeOf(h, x)}
           Q == {x \in S : PairIn(h, x)} \cup {NoHandle}
<1>1. \A n \in DOMAIN h : Len(h[n].kv) \in Nat /\ Len(h[n].kv) <= CAPACITY
  BY HeapNode DEF WellFormed, Roomy
<1>2. \A x \in S : x.idx \in Nat /\ x.node \in DOMAIN h /\ len(h, x.node) \in Nat
  BY <1>1 DEF Handles, len
<1>3. /\ \E mu : Falls(S, stop, next, mu)
      /\ \A x \in S : EdgeOf(h, x) /\ x \notin stop => EdgeOf(h, next[x])
  <2>1. found \subseteq Handles(h)
    OBVIOUS
  <2> HIDE DEF found
  <2> QED BY <2>1, Climbs
<1>4. PICK mu : Falls(S, stop, next, mu)
  BY <1>3
<1>5. \A f : Eq(f) <=> IsWalk(S, stop, next, base, f)
  BY DEF IsWalk
<1>6. \E f : IsWalk(S, stop, next, base, f)
  BY <1>4, WalkExists
<1>7. next_kv(h, e) = climb[e]
  BY DEF next_kv
<1>8. IsWalk(S, stop, next, base, climb)
  BY <1>5, <1>6
<1>9. Leads(stop, next, base, P, Q)
  <2>1. next \in [S -> S]
    BY <1>4 DEF Falls
  <2>2. \A x \in P \ stop : next[x] \in P
    BY <1>3, <2>1
  <2>3. \A x \in P \cap stop : base[x] \in Q
    BY <1>2 DEF PairIn, EdgeOf, len
  <2> QED BY <2>2, <2>3 DEF Leads
<1>10. e \in P /\ P \subseteq S
  BY <1>1, BAssumption DEF EdgeOf, Handles, CAPACITY
<1> HIDE DEF S, found, stop, next, base, climb, P, Q, Eq
<1>11. climb[e] \in Q
  BY <1>4, <1>8, <1>9, <1>10, WalkLeads
<1> QED BY <1>7, <1>11 DEF Q

\* next_back_kv finds a pair of the tree or, before the first edge, none.
LEMMA NextBackKv ==
  ASSUME NEW h, NEW tops, WellFormed(h, tops), Bounded(h), Roomy(h), NEW e, EdgeOf(h, e)
  PROVE  next_back_kv(h, e) = NoHandle \/ PairIn(h, next_back_kv(h, e))
<1> DEFINE S == Handles(h)
           found == {x \in S : x.idx > 0}
           stop == {x \in S : x \in found \/ h[x.node].parent = Nil}
           next == [x \in S |-> IF x \in stop THEN x ELSE ascend(h, x.node)]
           base == [x \in S |-> IF x \in found THEN Handle(x.node, x.idx - 1) ELSE NoHandle]
           Eq(f) == f = [x \in S |->
                           IF x.idx > 0 THEN Handle(x.node, x.idx - 1)
                           ELSE IF h[x.node].parent # Nil THEN f[ascend(h, x.node)] ELSE NoHandle]
           climb == CHOOSE f : Eq(f)
           P == {x \in S : EdgeOf(h, x)}
           Q == {x \in S : PairIn(h, x)} \cup {NoHandle}
<1>1. \A n \in DOMAIN h : Len(h[n].kv) \in Nat /\ Len(h[n].kv) <= CAPACITY
  BY HeapNode DEF WellFormed, Roomy
<1>2. \A x \in S : x.idx \in Nat /\ x.idx <= CAPACITY /\ x.node \in DOMAIN h
  BY BAssumption DEF Handles, CAPACITY
<1>3. /\ \E mu : Falls(S, stop, next, mu)
      /\ \A x \in S : EdgeOf(h, x) /\ x \notin stop => EdgeOf(h, next[x])
  <2>1. found \subseteq Handles(h)
    OBVIOUS
  <2> HIDE DEF found
  <2> QED BY <2>1, Climbs
<1>4. PICK mu : Falls(S, stop, next, mu)
  BY <1>3
<1>5. \A f : Eq(f) <=> IsWalk(S, stop, next, base, f)
  BY DEF IsWalk
<1>6. \E f : IsWalk(S, stop, next, base, f)
  BY <1>4, WalkExists
<1>7. next_back_kv(h, e) = climb[e]
  BY DEF next_back_kv
<1>8. IsWalk(S, stop, next, base, climb)
  BY <1>5, <1>6
<1>9. Leads(stop, next, base, P, Q)
  <2>1. next \in [S -> S]
    BY <1>4 DEF Falls
  <2>2. \A x \in P \ stop : next[x] \in P
    BY <1>3, <2>1
  <2>3. ASSUME NEW x \in P, x \in found
        PROVE  Handle(x.node, x.idx - 1) \in Q
    <3>1. x.idx - 1 \in Nat /\ x.idx - 1 \in 0 .. CAPACITY
      BY <1>2, <2>3, BAssumption DEF CAPACITY
    <3>2. x.idx - 1 < Len(h[x.node].kv)
      BY <1>1, <1>2, <2>3 DEF EdgeOf
    <3> QED BY <1>2, <3>1, <3>2 DEF PairIn, Handle, Handles
  <2>4. \A x \in P \cap stop : base[x] \in Q
    BY <2>3
  <2> QED BY <2>2, <2>4 DEF Leads
<1>10. e \in P /\ P \subseteq S
  BY <1>1, BAssumption DEF EdgeOf, Handles, CAPACITY
<1> HIDE DEF S, found, stop, next, base, climb, P, Q, Eq
<1>11. climb[e] \in Q
  BY <1>4, <1>8, <1>9, <1>10, WalkLeads
<1> QED BY <1>7, <1>11 DEF Q

\* The edges in the leaves beside a pair.
LEMMA NextLeafEdge ==
  ASSUME NEW h, NEW tops, WellFormed(h, tops), NEW kv, PairIn(h, kv)
  PROVE  LeafEdge(h, next_leaf_edge(h, kv)) /\ LeafEdge(h, next_back_leaf_edge(h, kv))
<1>1. /\ kv.node \in DOMAIN h /\ kv.idx \in Nat /\ Len(h[kv.node].kv) \in Nat
      /\ kv.idx < Len(h[kv.node].kv)
  BY HeapNode DEF PairIn, WellFormed
<1>2. CASE IsLeaf(h, kv.node)
  BY <1>1, <1>2 DEF next_leaf_edge, next_back_leaf_edge, IsLeaf, LeafEdge, Handle, PairIn
<1>3. CASE ~IsLeaf(h, kv.node)
  <2>1. h[kv.node].height # 0
    BY <1>3 DEF IsLeaf
  <2>2. Len(h[kv.node].edges) = Len(h[kv.node].kv) + 1
    BY <1>1, <2>1, NodeArity
  <2>3. kv.idx + 1 \in 1 .. Len(h[kv.node].edges) /\ (kv.idx + 1) + 1 \in 1 .. Len(h[kv.node].edges)
    BY <1>1, <2>2
  <2>4. descend(h, kv.node, kv.idx) \in DOMAIN h /\ descend(h, kv.node, kv.idx + 1) \in DOMAIN h
    BY <1>1, <2>1, <2>3, WellFormedFacts DEF descend
  <2> QED BY <1>3, <2>4, FirstLeaf, LastLeaf DEF next_leaf_edge, next_back_leaf_edge
<1> QED BY <1>2, <1>3
-----------------------------------------------------------------------------
(* The right border of a tree *)

LastChild(h, m) == descend(h, m, Len(h[m].kv))

\* T has the last child of each of its internal nodes.
Closed(h, T) == \A m \in T \cap DOMAIN h : h[m].height # 0 => LastChild(h, m) \in T

\* n is not on the way from the root along the last edges.
OffBorder(h, rt, n) ==
  \E T \in SUBSET (DOMAIN h \cup {rt}) : rt \in T /\ n \notin T /\ Closed(h, T)

\* The last child of an internal node.
LEMMA LastChildFacts ==
  ASSUME NEW h, NEW tops, WellFormed(h, tops), NEW m \in DOMAIN h, h[m].height # 0
  PROVE  /\ LastChild(h, m) \in DOMAIN h /\ LastChild(h, m) \notin tops
         /\ h[LastChild(h, m)].parent = m /\ h[LastChild(h, m)].parent_idx = Len(h[m].kv)
         /\ h[LastChild(h, m)].height = h[m].height - 1
<1>1. Len(h[m].kv) \in Nat /\ Len(h[m].edges) = Len(h[m].kv) + 1
  BY NodeArity
<1>2. Len(h[m].kv) + 1 \in 1 .. Len(h[m].edges) /\ (Len(h[m].kv) + 1) - 1 = Len(h[m].kv)
  BY <1>1
<1>3. LastChild(h, m) = h[m].edges[Len(h[m].kv) + 1]
  BY DEF LastChild, descend
<1>4. /\ LastChild(h, m) \in DOMAIN h /\ h[LastChild(h, m)].parent = m
      /\ h[LastChild(h, m)].parent_idx = Len(h[m].kv)
      /\ h[LastChild(h, m)].height = h[m].height - 1
  BY <1>2, <1>3, WellFormedFacts
<1>5. m # Nil
  BY HeapNode DEF WellFormed
<1> QED BY <1>4, <1>5, WellFormedFacts

\* descend at an edge left of a pair leads off the border.
LEMMA BorderChild ==
  ASSUME NEW h, NEW tops, WellFormed(h, tops), NEW rt \in tops,
         NEW p \in DOMAIN h, h[p].height # 0, NEW i, i \in Nat, i < Len(h[p].kv)
  PROVE  OffBorder(h, rt, descend(h, p, i))
<1> DEFINE c == descend(h, p, i)
           T == (DOMAIN h \cup {rt}) \ {c}
<1>1. Len(h[p].kv) \in Nat /\ Len(h[p].edges) = Len(h[p].kv) + 1
  BY NodeArity
<1>2. i + 1 \in 1 .. Len(h[p].edges) /\ (i + 1) - 1 = i
  BY <1>1
<1>3. h[c].parent = p /\ h[c].parent_idx = i /\ c \in DOMAIN h
  BY <1>2, WellFormedFacts DEF descend
<1>4. c # rt
  <2>1. p # Nil
    BY HeapNode DEF WellFormed
  <2> QED BY <1>3, <2>1, WellFormedFacts
<1> HIDE DEF c
<1>5. Closed(h, T)
  <2> SUFFICES ASSUME NEW m \in DOMAIN h, h[m].height # 0
               PROVE  LastChild(h, m) \in DOMAIN h /\ LastChild(h, m) # c
    BY DEF Closed
  <2>1. /\ LastChild(h, m) \in DOMAIN h /\ h[LastChild(h, m)].parent = m
        /\ h[LastChild(h, m)].parent_idx = Len(h[m].kv)
    BY LastChildFacts
  <2>2. ASSUME LastChild(h, m) = c PROVE FALSE
    <3>1. m = p /\ i = Len(h[p].kv)
      BY <1>3, <2>1, <2>2
    <3> QED BY <3>1
  <2> QED BY <2>1, <2>2
<1>6. rt \in T /\ c \notin T /\ T \in SUBSET (DOMAIN h \cup {rt})
  BY <1>4
<1> QED BY <1>5, <1>6 DEF OffBorder, c

\* Below a node off the border there is nothing on it.
LEMMA BorderDown ==
  ASSUME NEW h, NEW tops, WellFormed(h, tops), NEW rt \in tops, NEW n \in DOMAIN h,
         h[n].height # 0, OffBorder(h, rt, n)
  PROVE  OffBorder(h, rt, LastChild(h, n))
<1> DEFINE c == LastChild(h, n)
<1>1. PICK T \in SUBSET (DOMAIN h \cup {rt}) : rt \in T /\ n \notin T /\ Closed(h, T)
  BY DEF OffBorder
<1>2. c \notin tops /\ h[c].parent = n
  BY LastChildFacts
<1> HIDE DEF c
<1>3. Closed(h, T \ {c})
  <2> SUFFICES ASSUME NEW m \in T \cap DOMAIN h, h[m].height # 0
               PROVE  LastChild(h, m) \in T \ {c}
    BY DEF Closed
  <2>1. LastChild(h, m) \in T /\ h[LastChild(h, m)].parent = m
    BY <1>1, LastChildFacts DEF Closed
  <2> QED BY <1>1, <1>2, <2>1
<1>4. T \ {c} \in SUBSET (DOMAIN h \cup {rt}) /\ rt \in T \ {c}
  BY <1>1, <1>2
<1> QED BY <1>3, <1>4 DEF OffBorder, c

-----------------------------------------------------------------------------
(* The right border in merges and steals *)

\* g has the nodes of h, with the same contents and heights: only links differ.
SameNodes(g, h) ==
  /\ DOMAIN g = DOMAIN h /\ HeapType(g)
  /\ \A m \in DOMAIN h : g[m].kv = h[m].kv /\ g[m].edges = h[m].edges
                         /\ g[m].height = h[m].height

\* correct_childrens_parent_links writes links and nothing else, whatever
\* range it is given.
LEMMA RelinkKeeps ==
  ASSUME NEW h, HeapType(h), NEW n \in DOMAIN h, NEW lo \in Nat, NEW hi \in Int
  PROVE  SameNodes(correct_childrens_parent_links(h, n, lo, hi), h)
<1> DEFINE g == correct_childrens_parent_links(h, n, lo, hi)
           D(m) == \E i \in lo .. hi - 1 : descend(h, n, i) = m
           I(m) == CHOOSE i \in lo .. hi - 1 : descend(h, n, i) = m
<1>1. DOMAIN g = DOMAIN h /\ g = [m \in DOMAIN g |-> g[m]]
  BY DEF correct_childrens_parent_links
<1>2. \A m \in DOMAIN h : g[m] = IF D(m) THEN set_parent_link(h[m], n, I(m)) ELSE h[m]
  BY DEF correct_childrens_parent_links
<1>3. \A m : D(m) => I(m) \in Nat
  OBVIOUS
<1>4. \A m \in DOMAIN h : h[m] \in Node /\ n \in NodeId
  BY DEF HeapType
<1> HIDE DEF g, I, D
<1>5. \A m \in DOMAIN h : /\ g[m] \in Node
                          /\ g[m].kv = h[m].kv /\ g[m].edges = h[m].edges
                          /\ g[m].height = h[m].height
  <2> SUFFICES ASSUME NEW m \in DOMAIN h
               PROVE  /\ g[m] \in Node
                      /\ g[m].kv = h[m].kv /\ g[m].edges = h[m].edges
                      /\ g[m].height = h[m].height
    OBVIOUS
  <2>1. CASE D(m)
    <3>1. g[m] = set_parent_link(h[m], n, I(m)) /\ I(m) \in Nat /\ h[m] \in Node /\ n \in NodeId
      BY <1>2, <1>3, <1>4, <2>1
    <3> QED BY ONLY <3>1, SetParentLinkProps
  <2>2. CASE ~D(m)
    BY <1>2, <1>4, <2>2
  <2> QED BY <2>1, <2>2
<1>6. HeapType(g)
  BY <1>1, <1>5 DEF HeapType
<1>7. SameNodes(g, h)
  BY <1>1, <1>5, <1>6 DEF SameNodes
<1> QED BY <1>7 DEF g

\* The last children after do_merge: right's becomes left's, and left takes
\* right's place.
MergedBorder(g, h, left, rgt) ==
  \A m \in DOMAIN g : h[m].height # 0 =>
    LastChild(g, m) = IF m = left THEN LastChild(h, rgt)
                      ELSE IF LastChild(h, m) = rgt THEN left ELSE LastChild(h, m)

EdgesMerged(g, h, p, idx, left, rgt) ==
  /\ \A m \in DOMAIN g \ {p, left} : g[m].edges = h[m].edges
  /\ g[p].edges = slice_remove(h[p].edges, idx + 1)
  /\ g[left].edges = h[left].edges \o h[rgt].edges

\* What do_merge does to the edges of the nodes.
LEMMA MergeEdges ==
  ASSUME NEW h, NEW tops, WellFormed(h, tops), NEW p \in DOMAIN h, h[p].height # 0,
         NEW idx \in 0 .. Len(h[p].kv) - 1,
         NEW left, left = descend(h, p, idx), NEW rgt, rgt = descend(h, p, idx + 1),
         NEW g, g = do_merge(h, p, idx)
  PROVE  EdgesMerged(g, h, p, idx, left, rgt)
<1> DEFINE S == slice_remove(h[p].kv, idx)
           R == slice_remove(h[p].edges, idx + 1)
           U == h[left].kv \o <<h[p].kv[idx + 1]>> \o h[rgt].kv
           W == h[left].edges \o h[rgt].edges
           q == WithData(h[left], U, W)
           r == WithData(h[p], S, R)
           k == [h EXCEPT ![left] = q, ![p] = r]
           l == correct_childrens_parent_links(k, p, idx + 1, Len(h[p].kv))
           lo == Len(h[left].kv) + 1
           hi == Len(h[left].kv) + 1 + Len(h[rgt].kv) + 1
           f == IF h[p].height > 1 THEN correct_childrens_parent_links(l, left, lo, hi) ELSE l
<1>1. /\ left \in DOMAIN h /\ rgt \in DOMAIN h /\ left # rgt /\ left # p /\ rgt # p
  BY Siblings
<1>2. HeapType(h) /\ Len(h[p].kv) \in Nat /\ idx \in Nat /\ idx < Len(h[p].kv)
      /\ Len(h[left].kv) \in Nat /\ Len(h[rgt].kv) \in Nat
  BY <1>1, NodeArity DEF WellFormed
<1>3. /\ h[p] \in Node /\ h[p].kv \in Seq(KV) /\ h[p].edges \in Seq(NodeId)
      /\ h[left] \in Node /\ h[left].kv \in Seq(KV) /\ h[left].edges \in Seq(NodeId)
      /\ h[rgt].kv \in Seq(KV) /\ h[rgt].edges \in Seq(NodeId)
      /\ Len(h[p].edges) = Len(h[p].kv) + 1
  BY <1>1, <1>2, HeapNode, NodeArity
<1>4. S \in Seq(KV) /\ R \in Seq(NodeId)
  <2>1. idx + 1 \in 0 .. Len(h[p].edges) - 1
    BY <1>2, <1>3
  <2>2. R \in Seq(NodeId)
    BY ONLY <1>3, <2>1, SliceRemoveProps
  <2>3. S \in Seq(KV)
    BY <1>3, SliceRemoveProps
  <2> QED BY <2>2, <2>3
<1>5. U \in Seq(KV) /\ W \in Seq(NodeId)
  <2>1. h[p].kv[idx + 1] \in KV
    BY <1>2, <1>3
  <2> QED BY <1>3, <2>1
<1>6. DOMAIN g = DOMAIN h \ {rgt} /\ \A m \in DOMAIN g : g[m] = f[m]
  <2>1. k = [h EXCEPT ![left] = WithData(@, U, W), ![p] = WithData(@, S, R)]
    BY <1>1
  <2>2. DOMAIN g = DOMAIN h \ {rgt}
    <3>1. Merged(g, h, tops, p, left, rgt)
      BY DoMerge
    <3> QED BY <3>1 DEF Merged
  <2>3. g = Deallocate(f, rgt)
    BY <2>1 DEF do_merge, len
  <2> HIDE DEF f
  <2>4. g = [m \in DOMAIN f \ {rgt} |-> f[m]]
    BY <2>3 DEF Deallocate
  <2> QED BY <2>2, <2>4
<1> HIDE DEF S, R, U, W
<1>7. q \in Node /\ q.edges = W /\ r \in Node /\ r.edges = R
  <2>1. q \in Node /\ q.edges = W
    BY ONLY <1>3, <1>5, WithDataProps, ZenonT(40)
  <2>2. r \in Node /\ r.edges = R
    BY ONLY <1>3, <1>4, WithDataProps
  <2> QED BY <2>1, <2>2
<1> HIDE DEF q, r
<1>8. HeapType(k) /\ DOMAIN k = DOMAIN h /\ k[left] = q /\ k[p] = r
      /\ \A m \in DOMAIN h \ {p, left} : k[m] = h[m]
  <2>1. HeapType(k)
    BY <1>1, <1>2, <1>7 DEF HeapType
  <2> QED BY <1>1, <2>1
<1> HIDE DEF k
<1>9. SameNodes(l, k)
  <2>1. HeapType(k) /\ p \in DOMAIN k /\ idx + 1 \in Nat /\ Len(h[p].kv) \in Int
    BY <1>2, <1>8
  <2> QED BY ONLY <2>1, RelinkKeeps
<1> HIDE DEF l
<1>10. \A m \in DOMAIN h : f[m].edges = k[m].edges
  <2>1. HeapType(l) /\ DOMAIN l = DOMAIN h /\ \A m \in DOMAIN h : l[m].edges = k[m].edges
    BY <1>8, <1>9 DEF SameNodes
  <2>2. lo \in Nat /\ hi \in Int
    BY <1>2
  <2> HIDE DEF lo, hi
  <2>3. SameNodes(correct_childrens_parent_links(l, left, lo, hi), l)
    BY <1>1, <2>1, <2>2, RelinkKeeps
  <2> QED BY <2>1, <2>3 DEF SameNodes
<1> HIDE DEF f
<1>11. left \in DOMAIN g /\ p \in DOMAIN g
  BY <1>1, <1>6
<1> QED BY <1>1, <1>6, <1>7, <1>8, <1>10, <1>11 DEF R, W, EdgesMerged

\* do_merge keeps the right border, but for the freed node.
LEMMA MergeBorder ==
  ASSUME NEW h, NEW tops, WellFormed(h, tops), NEW p \in DOMAIN h, h[p].height # 0,
         NEW idx \in 0 .. Len(h[p].kv) - 1
  PROVE  MergedBorder(do_merge(h, p, idx), h, descend(h, p, idx), descend(h, p, idx + 1))
<1> DEFINE left == descend(h, p, idx)
           rgt == descend(h, p, idx + 1)
           g == do_merge(h, p, idx)
           n == Len(h[p].kv)
           E == h[p].edges
<1>1. /\ left \in DOMAIN h /\ rgt \in DOMAIN h /\ left # rgt /\ left # p /\ rgt # p
      /\ h[left].height = h[p].height - 1 /\ h[rgt].height = h[p].height - 1
      /\ h[left].parent = p /\ h[left].parent_idx = idx
      /\ h[rgt].parent = p /\ h[rgt].parent_idx = idx + 1
  BY Siblings
<1>2. Merged(g, h, tops, p, left, rgt)
  BY DoMerge
<1>3. /\ \A m \in DOMAIN g \ {p, left} : g[m].edges = h[m].edges
      /\ g[p].edges = slice_remove(E, idx + 1)
      /\ g[left].edges = h[left].edges \o h[rgt].edges
  <2>1. EdgesMerged(g, h, p, idx, left, rgt)
    BY MergeEdges
  <2> QED BY <2>1 DEF EdgesMerged
<1>4. /\ DOMAIN g = DOMAIN h \ {rgt} /\ p \in DOMAIN g /\ left \in DOMAIN g
      /\ Len(g[p].kv) = n - 1
      /\ Len(g[left].kv) = Len(h[left].kv) + 1 + Len(h[rgt].kv)
      /\ \A m \in DOMAIN g \ {p, left} : g[m].kv = h[m].kv
  BY <1>2 DEF Merged
<1>5. HeapType(h) /\ n \in Nat /\ idx \in Nat /\ idx < n /\ Len(E) = n + 1 /\ E \in Seq(NodeId)
  BY HeapNode, NodeArity DEF WellFormed
<1>6. E[idx + 1] = left /\ E[(idx + 1) + 1] = rgt
  BY DEF descend
<1> HIDE DEF left, rgt, g
<1>7. LastChild(h, p) = E[n + 1]
  BY DEF LastChild, descend
<1>8. LastChild(g, p) = IF LastChild(h, p) = rgt THEN left ELSE LastChild(h, p)
  <2>1. IsRemove(slice_remove(E, idx + 1), E, idx + 1)
    BY <1>5, SliceRemoveProps
  <2> DEFINE R == slice_remove(E, idx + 1)
  <2>2. /\ n \in 1 .. Len(E) - 1
        /\ n <= idx + 1 => R[n] = E[n]
        /\ n > idx + 1 => R[n] = E[n + 1]
    BY <1>5, <2>1 DEF IsRemove
  <2>3. LastChild(g, p) = R[n]
    <3>1. (n - 1) + 1 = n
      BY <1>5
    <3> QED BY <1>3, <1>4, <3>1 DEF LastChild, descend
  <2> HIDE DEF R
  <2>4. CASE n = idx + 1
    BY <1>6, <1>7, <2>2, <2>3, <2>4
  <2>5. CASE n # idx + 1
    <3>1. n > idx + 1
      BY <1>5, <2>5
    <3>2. LastChild(h, p) # rgt
      <4>1. h[LastChild(h, p)].parent_idx = n
        BY LastChildFacts
      <4> QED BY <1>1, <2>5, <4>1
    <3> QED BY <1>7, <2>2, <2>3, <3>1, <3>2
  <2> QED BY <2>4, <2>5
<1>9. h[left].height # 0 => LastChild(g, left) = LastChild(h, rgt)
  <2> SUFFICES ASSUME h[left].height # 0 PROVE LastChild(g, left) = LastChild(h, rgt)
    OBVIOUS
  <2> DEFINE A == h[left].edges
             C == h[rgt].edges
             a == Len(h[left].kv)
             c == Len(h[rgt].kv)
  <2>1. /\ A \in Seq(NodeId) /\ C \in Seq(NodeId) /\ a \in Nat /\ c \in Nat
        /\ Len(A) = a + 1 /\ Len(C) = c + 1
    BY <1>1, <1>5, HeapNode, NodeArity
  <2>2. LastChild(g, left) = (A \o C)[(a + 1 + c) + 1]
    BY <1>3, <1>4 DEF LastChild, descend
  <2>3. LastChild(h, rgt) = C[c + 1]
    BY DEF LastChild, descend
  <2> HIDE DEF A, C, a, c
  <2>4. IsConcat(A \o C, A, C)
    BY <2>1, ConcatProps
  <2>5. PICK j \in Nat : j = (a + 1 + c) + 1
    BY <2>1
  <2>6. j \in 1 .. Len(A) + Len(C) /\ j > Len(A) /\ j - Len(A) = c + 1
    BY <2>1, <2>5
  <2>7. (A \o C)[j] = C[j - Len(A)]
    BY <2>4, <2>6 DEF IsConcat
  <2> QED BY <2>2, <2>3, <2>5, <2>6, <2>7
<1>10. ASSUME NEW m \in DOMAIN g \ {p, left}, h[m].height # 0
       PROVE  LastChild(g, m) = LastChild(h, m) /\ LastChild(h, m) # rgt
  <2>1. LastChild(g, m) = LastChild(h, m)
    BY <1>3, <1>4 DEF LastChild, descend
  <2>2. h[LastChild(h, m)].parent = m
    BY <1>4, <1>10, LastChildFacts
  <2> QED BY <1>1, <2>1, <2>2
<1>11. MergedBorder(g, h, left, rgt)
  BY <1>1, <1>8, <1>9, <1>10 DEF MergedBorder
<1> QED BY <1>11 DEF g, left, rgt

\* A node off the border stays off it in a merge, and so do the pairs of the
\* right child, which move into the left one.
LEMMA BorderMerge ==
  ASSUME NEW h, NEW tops, WellFormed(h, tops), NEW rt \in tops, NEW p \in DOMAIN h,
         h[p].height # 0, NEW idx \in 0 .. Len(h[p].kv) - 1,
         NEW left, left = descend(h, p, idx), NEW rgt, rgt = descend(h, p, idx + 1),
         NEW n \in DOMAIN h, n # left, OffBorder(h, rt, n)
  PROVE  OffBorder(do_merge(h, p, idx), rt, IF n = rgt THEN left ELSE n)
<1> DEFINE g == do_merge(h, p, idx)
<1>1. /\ left \in DOMAIN h /\ rgt \in DOMAIN h /\ left # rgt /\ left # p /\ rgt # p
      /\ h[left].height = h[p].height - 1 /\ h[rgt].height = h[p].height - 1
      /\ h[left].parent = p /\ h[left].parent_idx = idx
      /\ h[rgt].parent = p /\ h[rgt].parent_idx = idx + 1
  BY Siblings
<1>2. MergedBorder(g, h, left, rgt) /\ Merged(g, h, tops, p, left, rgt)
  BY MergeBorder, DoMerge
<1>3. DOMAIN g = DOMAIN h \ {rgt} /\ \A m \in DOMAIN g : g[m].height = h[m].height
  BY <1>2 DEF Merged
<1>4. PICK T \in SUBSET (DOMAIN h \cup {rt}) : rt \in T /\ n \notin T /\ Closed(h, T)
  BY DEF OffBorder
<1>5. rt # left /\ rt # rgt
  <2>1. p # Nil
    BY HeapNode DEF WellFormed
  <2>2. rt \in DOMAIN h => h[rt].parent = Nil
    BY WellFormedFacts
  <2> QED BY <1>1, <2>1, <2>2
<1> DEFINE K == IF rgt \in T THEN {left} ELSE {}
           V == (T \ {left, rgt}) \cup K
<1> HIDE DEF g
<1>6. V \in SUBSET (DOMAIN g \cup {rt}) /\ rt \in V
  BY <1>1, <1>3, <1>4, <1>5
<1>7. (IF n = rgt THEN left ELSE n) \notin V
  BY <1>4
<1>8. \A m \in DOMAIN h : h[m].height # 0 => LastChild(h, m) # left
  <2> SUFFICES ASSUME NEW m \in DOMAIN h, h[m].height # 0, LastChild(h, m) = left
               PROVE  FALSE
    OBVIOUS
  <2>1. h[left].parent = m /\ h[left].parent_idx = Len(h[m].kv)
    BY LastChildFacts
  <2>2. idx = Len(h[p].kv) /\ Len(h[p].kv) \in Nat
    BY <1>1, <2>1, NodeArity
  <2> QED BY <2>2
<1>9. Closed(g, V)
  <2> SUFFICES ASSUME NEW m \in V \cap DOMAIN g, g[m].height # 0 PROVE LastChild(g, m) \in V
    BY DEF Closed
  <2>1. m \in DOMAIN g /\ h[m].height # 0 /\ m \in DOMAIN h
    BY <1>3, <1>6
  <2>2. CASE m = left
    <3>1. rgt \in T /\ h[rgt].height # 0
      BY <1>1, <2>1, <2>2
    <3>2. LastChild(h, rgt) \in T /\ h[LastChild(h, rgt)].parent = rgt
      BY <1>1, <1>4, <3>1, LastChildFacts DEF Closed
    <3>3. LastChild(g, m) = LastChild(h, rgt)
      BY <1>2, <2>1, <2>2 DEF MergedBorder
    <3> QED BY <1>1, <3>2, <3>3
  <2>3. CASE m # left
    <3>1. m \in T
      BY <2>3
    <3>2. LastChild(h, m) \in T /\ LastChild(h, m) # left
      BY <1>4, <1>8, <2>1, <3>1 DEF Closed
    <3>3. LastChild(g, m) = IF LastChild(h, m) = rgt THEN left ELSE LastChild(h, m)
      BY <1>2, <2>1, <2>3 DEF MergedBorder
    <3> QED BY <3>2, <3>3
  <2> QED BY <2>2, <2>3
<1> HIDE DEF V
<1>10. OffBorder(g, rt, IF n = rgt THEN left ELSE n)
  BY <1>6, <1>7, <1>9 DEF OffBorder
<1> QED BY <1>10 DEF g

Fields == {"kv", "edges", "height", "parent", "parent_idx"}

\* Every node of the heap has the fields of Node, whatever they hold.
HasFields(h) == \A m \in DOMAIN h : DOMAIN h[m] = Fields

SameEdges(g, h) ==
  /\ DOMAIN g = DOMAIN h /\ HasFields(g)
  /\ \A m \in DOMAIN h : g[m].edges = h[m].edges

\* A heap has the fields of its type.
LEMMA TypeFields ==
  ASSUME NEW h, HeapType(h)
  PROVE  HasFields(h)
  BY DEF HeapType, HasFields, Fields, Node

\* set_parent_link, WithKV and WithData keep the fields that they do not write.
LEMMA FieldProps ==
  ASSUME NEW r, DOMAIN r = Fields, NEW a, NEW b
  PROVE  /\ DOMAIN set_parent_link(r, a, b) = Fields
         /\ set_parent_link(r, a, b).edges = r.edges
         /\ DOMAIN WithData(r, a, b) = Fields /\ WithData(r, a, b).edges = b
         /\ DOMAIN WithKV(r, a) = Fields /\ WithKV(r, a).edges = r.edges
         /\ DOMAIN replace_kv(r, a, b) = Fields /\ replace_kv(r, a, b).edges = r.edges
  BY DEF Fields, set_parent_link, WithData, WithKV, replace_kv

\* correct_childrens_parent_links writes no edge.
LEMMA RelinkEdges ==
  ASSUME NEW h, HasFields(h), NEW n, NEW lo, NEW hi
  PROVE  SameEdges(correct_childrens_parent_links(h, n, lo, hi), h)
<1> DEFINE g == correct_childrens_parent_links(h, n, lo, hi)
           D(m) == \E i \in lo .. hi - 1 : descend(h, n, i) = m
           I(m) == CHOOSE i \in lo .. hi - 1 : descend(h, n, i) = m
<1>1. DOMAIN g = DOMAIN h
  BY DEF correct_childrens_parent_links
<1>2. \A m \in DOMAIN h : g[m] = IF D(m) THEN set_parent_link(h[m], n, I(m)) ELSE h[m]
  BY DEF correct_childrens_parent_links
<1> HIDE DEF g, I, D
<1>3. \A m \in DOMAIN h : DOMAIN g[m] = Fields /\ g[m].edges = h[m].edges
  <2> SUFFICES ASSUME NEW m \in DOMAIN h
               PROVE  DOMAIN g[m] = Fields /\ g[m].edges = h[m].edges
    OBVIOUS
  <2>1. DOMAIN h[m] = Fields
    BY DEF HasFields
  <2>2. CASE D(m)
    <3>1. g[m] = set_parent_link(h[m], n, I(m))
      BY <1>2, <2>2
    <3> QED BY ONLY <2>1, <3>1, FieldProps
  <2>3. CASE ~D(m)
    BY <1>2, <2>1, <2>3
  <2> QED BY <2>2, <2>3
<1>4. SameEdges(g, h)
  BY <1>1, <1>3 DEF SameEdges, HasFields
<1> QED BY <1>4 DEF g

\* Only left's last child changes in a steal between left and right.
StealBorder(g, h, left) ==
  \A m \in DOMAIN h \ {left} : h[m].height # 0 => LastChild(g, m) = LastChild(h, m)

EdgesStolen(k, h, left, rgt, Y) ==
  /\ HasFields(k) /\ DOMAIN k = DOMAIN h /\ k[rgt].edges = Y
  /\ \A m \in DOMAIN h \ {left, rgt} : k[m].edges = h[m].edges

\* What becomes of the edges of the parent and its children: left is cut or
\* extended to X, right's edges become Y, and links are corrected.
LEMMA StealEdges ==
  ASSUME NEW h, HasFields(h), NEW p \in DOMAIN h, NEW left \in DOMAIN h, NEW rgt \in DOMAIN h,
         left # rgt, left # p, rgt # p,
         NEW lkv, NEW rkv, NEW X, NEW Y, NEW i, NEW kv,
         NEW k, k = [h EXCEPT ![left] = WithData(h[left], lkv, X),
                              ![rgt] = WithData(h[rgt], rkv, Y),
                              ![p] = replace_kv(h[p], i, kv)]
  PROVE  EdgesStolen(k, h, left, rgt, Y)
<1> DEFINE q == WithData(h[left], lkv, X)
           r == WithData(h[rgt], rkv, Y)
           s == replace_kv(h[p], i, kv)
<1>1. /\ DOMAIN q = Fields /\ DOMAIN r = Fields /\ r.edges = Y
      /\ DOMAIN s = Fields /\ s.edges = h[p].edges
  BY FieldProps DEF HasFields
<1> HIDE DEF q, r, s
<1>2. DOMAIN k = DOMAIN h /\ k[left] = q /\ k[rgt] = r /\ k[p] = s
      /\ \A m \in DOMAIN h \ {left, rgt, p} : k[m] = h[m]
  BY DEF q, r, s
<1> QED BY <1>1, <1>2 DEF HasFields, EdgesStolen

\* A steal that leaves right a suffix of its edges, or adds to their front,
\* keeps the last child of right, and so the right border but for left.
LEMMA StealKeepsLast ==
  ASSUME NEW h, NEW tops, WellFormed(h, tops), NEW p \in DOMAIN h, NEW left \in DOMAIN h,
         NEW rgt \in DOMAIN h, left # rgt, left # p, rgt # p,
         NEW x, NEW y, NEW g, Stolen(g, h, tops, p, left, rgt, x, y),
         \A m \in DOMAIN h \ {left, rgt} : h[m].height # 0 => g[m].edges = h[m].edges,
         h[rgt].height # 0 => g[rgt].edges[y + 1] = h[rgt].edges[Len(h[rgt].kv) + 1]
  PROVE  StealBorder(g, h, left)
<1> SUFFICES ASSUME NEW m \in DOMAIN h \ {left}, h[m].height # 0
             PROVE  LastChild(g, m) = LastChild(h, m)
  BY DEF StealBorder
<1>1. CASE m = rgt
  BY <1>1 DEF LastChild, descend, Stolen
<1>2. CASE m # rgt
  <2>1. Len(g[m].kv) = Len(h[m].kv)
    BY <1>2 DEF Stolen
  <2> QED BY <1>2, <2>1 DEF LastChild, descend
<1> QED BY <1>1, <1>2

\* A steal between leaves writes no edge at all.
LEMMA StealLeafEdges ==
  ASSUME NEW h, HasFields(h), NEW p \in DOMAIN h, NEW left \in DOMAIN h, NEW rgt \in DOMAIN h,
         left # rgt, left # p, rgt # p, NEW lkv, NEW rkv, NEW i, NEW kv,
         NEW k, k = [h EXCEPT ![left] = WithKV(h[left], lkv),
                              ![rgt] = WithKV(h[rgt], rkv),
                              ![p] = replace_kv(h[p], i, kv)]
  PROVE  \A m \in DOMAIN h : k[m].edges = h[m].edges
<1> DEFINE q == WithKV(h[left], lkv)
           r == WithKV(h[rgt], rkv)
           s == replace_kv(h[p], i, kv)
<1>1. q.edges = h[left].edges /\ r.edges = h[rgt].edges /\ s.edges = h[p].edges
  BY FieldProps DEF HasFields
<1> HIDE DEF q, r, s
<1>2. k[left] = q /\ k[rgt] = r /\ k[p] = s
      /\ \A m \in DOMAIN h \ {left, rgt, p} : k[m] = h[m]
  BY DEF q, r, s
<1> QED BY <1>1, <1>2

\* The end of A in front of C ends as C does.
LEMMA SuffixBefore ==
  ASSUME NEW S, NEW A \in Seq(S), NEW C \in Seq(S), NEW a \in Nat, Len(A) = a + 1,
         NEW c \in Nat, Len(C) = c + 1, NEW n \in Nat, n <= a
  PROVE  (SubSeq(A, (a - n) + 2, a + 1) \o C)[c + n + 1] = C[c + 1]
<1>1. PICK u \in Nat : u = (a - n) + 2
  OBVIOUS
<1>2. PICK v \in Nat : v = a + 1
  OBVIOUS
<1>3. 1 <= u /\ u <= v + 1 /\ v <= Len(A) /\ v - u + 1 = n
  BY <1>1, <1>2
<1> DEFINE Q == SubSeq(A, u, v)
<1>4. Q \in Seq(S) /\ Len(Q) = n
  BY <1>3, CutProps
<1> HIDE DEF Q
<1>5. IsConcat(Q \o C, Q, C)
  BY <1>4, ConcatProps
<1>6. PICK j \in Nat : j = c + n + 1
  OBVIOUS
<1>7. j \in 1 .. Len(Q) + Len(C) /\ j > Len(Q) /\ j - Len(Q) = c + 1
  BY <1>4, <1>6
<1>8. (Q \o C)[j] = C[c + 1]
  BY <1>5, <1>7 DEF IsConcat
<1> QED BY <1>1, <1>2, <1>6, <1>8 DEF Q

\* A suffix of C ends as C does.
LEMMA SuffixOf ==
  ASSUME NEW S, NEW C \in Seq(S), NEW c \in Nat, Len(C) = c + 1, NEW n \in Nat, n <= c
  PROVE  SubSeq(C, n + 1, c + 1)[c - n + 1] = C[c + 1]
<1>1. PICK u \in Nat : u = n + 1
  OBVIOUS
<1>2. PICK v \in Nat : v = c + 1
  OBVIOUS
<1>3. PICK j \in Nat : j = c - n + 1
  OBVIOUS
<1>4. 1 <= u /\ u <= v + 1 /\ v <= Len(C) /\ j \in 1 .. v - u + 1 /\ u + j - 1 = v
  BY <1>1, <1>2, <1>3
<1>5. SubSeq(C, u, v)[j] = C[u + j - 1]
  BY <1>4, CutProps
<1> QED BY <1>1, <1>2, <1>3, <1>4, <1>5

\* bulk_steal_left puts left's last edges in front of right's.
LEMMA StealLeftBorder ==
  ASSUME NEW h, NEW tops, WellFormed(h, tops), NEW p \in DOMAIN h, h[p].height # 0,
         NEW idx \in 0 .. Len(h[p].kv) - 1,
         NEW left, left = descend(h, p, idx), NEW rgt, rgt = descend(h, p, idx + 1),
         NEW count \in Nat, count >= 1, count <= Len(h[left].kv),
         NEW g, g = bulk_steal_left(h, p, idx, count)
  PROVE  StealBorder(g, h, left)
<1>1. /\ left \in DOMAIN h /\ rgt \in DOMAIN h /\ left # rgt /\ left # p /\ rgt # p
      /\ h[left].height = h[p].height - 1 /\ h[rgt].height = h[p].height - 1
  BY Siblings
<1>2. HeapType(h) /\ HasFields(h)
  BY TypeFields DEF WellFormed
<1> DEFINE a == Len(h[left].kv)
           c == Len(h[rgt].kv)
<1>3. Stolen(g, h, tops, p, left, rgt, a - count, c + count)
  BY BulkStealLeft
<1> DEFINE w == a - count
           lkv == SubSeq(h[left].kv, 1, w)
           rkv == SubSeq(h[left].kv, w + 2, a) \o <<h[p].kv[idx + 1]>> \o h[rgt].kv
           X == SubSeq(h[left].edges, 1, w + 1)
           Q == SubSeq(h[left].edges, w + 2, a + 1)
           Y == Q \o h[rgt].edges
           kv == h[left].kv[w + 1]
<1>4. CASE h[left].height = 0
  <2>1. g = [h EXCEPT ![left] = WithKV(h[left], lkv), ![rgt] = WithKV(h[rgt], rkv),
                      ![p] = replace_kv(h[p], idx, kv)]
    BY <1>1, <1>4 DEF bulk_steal_left, IsLeaf, len
  <2> HIDE DEF lkv, rkv, kv, a, c
  <2>2. \A m \in DOMAIN h : g[m].edges = h[m].edges
    BY ONLY <1>1, <1>2, <2>1, p \in DOMAIN h, StealLeafEdges
  <2>3. h[rgt].height = 0
    BY <1>1, <1>4
  <2> QED BY <1>1, <1>3, <2>2, <2>3, StealKeepsLast
<1>5. CASE h[left].height # 0
  <2> DEFINE k == [h EXCEPT ![left] = WithData(h[left], lkv, X),
                            ![rgt] = WithData(h[rgt], rkv, Y),
                            ![p] = replace_kv(h[p], idx, kv)]
  <2>1. g = correct_childrens_parent_links(k, rgt, 0, c + count + 1)
    BY <1>1, <1>5 DEF bulk_steal_left, IsLeaf, len
  <2>2. /\ a \in Nat /\ c \in Nat /\ Len(h[left].edges) = a + 1
        /\ Len(h[rgt].edges) = c + 1 /\ h[left].edges \in Seq(NodeId)
        /\ h[rgt].edges \in Seq(NodeId) /\ count <= a
    BY <1>1, <1>2, <1>5, HeapNode, NodeArity
  <2>3. Y[c + count + 1] = h[rgt].edges[c + 1]
    <3> DEFINE A == h[left].edges
               C == h[rgt].edges
    <3>1. /\ A \in Seq(NodeId) /\ C \in Seq(NodeId) /\ a \in Nat /\ c \in Nat
          /\ Len(A) = a + 1 /\ Len(C) = c + 1 /\ count <= a
      BY <2>2
    <3>2. Y = SubSeq(A, (a - count) + 2, a + 1) \o C
      OBVIOUS
    <3> HIDE DEF a, c, A, C, Y
    <3>3. (SubSeq(A, (a - count) + 2, a + 1) \o C)[c + count + 1] = C[c + 1]
      BY ONLY <3>1, count \in Nat, SuffixBefore
    <3> QED BY <3>2, <3>3 DEF C
  <2> HIDE DEF lkv, rkv, kv, a, c, X, Y
  <2>k. EdgesStolen(k, h, left, rgt, Y)
    BY ONLY <1>1, <1>2, p \in DOMAIN h, StealEdges
  <2> HIDE DEF k
  <2>4. /\ HasFields(k) /\ DOMAIN k = DOMAIN h /\ k[rgt].edges = Y
        /\ \A m \in DOMAIN h \ {left, rgt} : k[m].edges = h[m].edges
    BY <2>k DEF EdgesStolen
  <2>5. \A m \in DOMAIN h : g[m].edges = k[m].edges
    BY <2>1, <2>4, RelinkEdges DEF SameEdges
  <2>6. \A m \in DOMAIN h \ {left, rgt} : h[m].height # 0 => g[m].edges = h[m].edges
    BY <2>4, <2>5
  <2>7. g[rgt].edges[c + count + 1] = h[rgt].edges[Len(h[rgt].kv) + 1]
    BY <1>1, <2>3, <2>4, <2>5 DEF c
  <2> QED BY ONLY WellFormed(h, tops), p \in DOMAIN h, <1>1, <1>3, <2>6, <2>7, StealKeepsLast
<1> QED BY <1>4, <1>5

\* bulk_steal_right takes right's first edges.
LEMMA StealRightBorder ==
  ASSUME NEW h, NEW tops, WellFormed(h, tops), NEW p \in DOMAIN h, h[p].height # 0,
         NEW idx \in 0 .. Len(h[p].kv) - 1,
         NEW left, left = descend(h, p, idx), NEW rgt, rgt = descend(h, p, idx + 1),
         NEW count \in Nat, count >= 1, count <= Len(h[rgt].kv),
         NEW g, g = bulk_steal_right(h, p, idx, count)
  PROVE  StealBorder(g, h, left)
<1>1. /\ left \in DOMAIN h /\ rgt \in DOMAIN h /\ left # rgt /\ left # p /\ rgt # p
      /\ h[left].height = h[p].height - 1 /\ h[rgt].height = h[p].height - 1
  BY Siblings
<1>2. HeapType(h) /\ HasFields(h)
  BY TypeFields DEF WellFormed
<1> DEFINE a == Len(h[left].kv)
           c == Len(h[rgt].kv)
<1>3. Stolen(g, h, tops, p, left, rgt, a + count, c - count)
  BY BulkStealRight
<1> DEFINE lkv == h[left].kv \o <<h[p].kv[idx + 1]>> \o SubSeq(h[rgt].kv, 1, count - 1)
           rkv == SubSeq(h[rgt].kv, count + 1, c)
           X == h[left].edges \o SubSeq(h[rgt].edges, 1, count)
           Y == SubSeq(h[rgt].edges, count + 1, c + 1)
           kv == h[rgt].kv[count]
<1>4. CASE h[left].height = 0
  <2>1. g = [h EXCEPT ![left] = WithKV(h[left], lkv), ![rgt] = WithKV(h[rgt], rkv),
                      ![p] = replace_kv(h[p], idx, kv)]
    BY <1>1, <1>4 DEF bulk_steal_right, IsLeaf, len
  <2> HIDE DEF lkv, rkv, kv, a, c
  <2>2. \A m \in DOMAIN h : g[m].edges = h[m].edges
    BY ONLY <1>1, <1>2, <2>1, p \in DOMAIN h, StealLeafEdges
  <2>3. h[rgt].height = 0
    BY <1>1, <1>4
  <2> QED BY <1>1, <1>3, <2>2, <2>3, StealKeepsLast
<1>5. CASE h[left].height # 0
  <2> DEFINE k == [h EXCEPT ![left] = WithData(h[left], lkv, X),
                            ![rgt] = WithData(h[rgt], rkv, Y),
                            ![p] = replace_kv(h[p], idx, kv)]
             l == correct_childrens_parent_links(k, left, a + 1, a + count + 1)
  <2>1. g = correct_childrens_parent_links(l, rgt, 0, c - count + 1)
    BY <1>1, <1>5 DEF bulk_steal_right, IsLeaf, len
  <2>2. /\ c \in Nat /\ Len(h[rgt].edges) = c + 1 /\ h[rgt].edges \in Seq(NodeId)
        /\ count <= c
    BY <1>1, <1>2, <1>5, HeapNode, NodeArity
  <2>3. Y[c - count + 1] = h[rgt].edges[c + 1]
    <3> HIDE DEF c
    <3> QED BY <2>2, SuffixOf
  <2> HIDE DEF lkv, rkv, kv, a, c, X, Y
  <2>k. EdgesStolen(k, h, left, rgt, Y)
    BY ONLY <1>1, <1>2, p \in DOMAIN h, StealEdges
  <2> HIDE DEF k
  <2>4. /\ HasFields(k) /\ DOMAIN k = DOMAIN h /\ k[rgt].edges = Y
        /\ \A m \in DOMAIN h \ {left, rgt} : k[m].edges = h[m].edges
    BY <2>k DEF EdgesStolen
  <2>5. DOMAIN l = DOMAIN h /\ HasFields(l) /\ \A m \in DOMAIN h : l[m].edges = k[m].edges
    BY <2>4, RelinkEdges DEF SameEdges
  <2> HIDE DEF l
  <2>6. \A m \in DOMAIN h : g[m].edges = k[m].edges
    BY <2>1, <2>5, RelinkEdges DEF SameEdges
  <2>7. \A m \in DOMAIN h \ {left, rgt} : h[m].height # 0 => g[m].edges = h[m].edges
    BY <2>4, <2>6
  <2>8. g[rgt].edges[c - count + 1] = h[rgt].edges[Len(h[rgt].kv) + 1]
    BY <1>1, <2>3, <2>4, <2>6 DEF c
  <2> QED BY ONLY WellFormed(h, tops), p \in DOMAIN h, <1>1, <1>3, <2>7, <2>8, StealKeepsLast
<1> QED BY <1>4, <1>5

\* A node off the border stays off it in a steal.
LEMMA BorderSteal ==
  ASSUME NEW h, NEW tops, WellFormed(h, tops), NEW rt \in tops, NEW p \in DOMAIN h,
         h[p].height # 0, NEW idx \in 0 .. Len(h[p].kv) - 1,
         NEW left, left = descend(h, p, idx),
         NEW g, DOMAIN g = DOMAIN h, \A m \in DOMAIN h : g[m].height = h[m].height,
         StealBorder(g, h, left), NEW n, OffBorder(h, rt, n)
  PROVE  OffBorder(g, rt, n)
<1>1. /\ left \in DOMAIN h /\ h[left].parent = p /\ h[left].parent_idx = idx
  BY Siblings
<1>2. PICK T \in SUBSET (DOMAIN h \cup {rt}) : rt \in T /\ n \notin T /\ Closed(h, T)
  BY DEF OffBorder
<1>3. rt # left
  <2>1. p # Nil
    BY HeapNode DEF WellFormed
  <2>2. rt \in DOMAIN h => h[rt].parent = Nil
    BY WellFormedFacts
  <2> QED BY <1>1, <2>1, <2>2
<1>4. \A m \in DOMAIN h : h[m].height # 0 => LastChild(h, m) # left
  <2> SUFFICES ASSUME NEW m \in DOMAIN h, h[m].height # 0, LastChild(h, m) = left
               PROVE  FALSE
    OBVIOUS
  <2>1. h[left].parent = m /\ h[left].parent_idx = Len(h[m].kv)
    BY LastChildFacts
  <2>2. idx = Len(h[p].kv) /\ Len(h[p].kv) \in Nat
    BY <1>1, <2>1, NodeArity
  <2> QED BY <2>2
<1>5. Closed(g, T \ {left})
  <2> SUFFICES ASSUME NEW m \in (T \ {left}) \cap DOMAIN g, g[m].height # 0
               PROVE  LastChild(g, m) \in T \ {left}
    BY DEF Closed
  <2>1. h[m].height # 0 /\ LastChild(g, m) = LastChild(h, m)
    BY DEF StealBorder
  <2>2. LastChild(h, m) \in T /\ LastChild(h, m) # left
    BY <1>2, <1>4, <2>1 DEF Closed
  <2> QED BY <2>1, <2>2
<1>6. rt \in T \ {left} /\ n \notin T \ {left} /\ T \ {left} \in SUBSET (DOMAIN g \cup {rt})
  BY <1>2, <1>3
<1> QED BY <1>5, <1>6 DEF OffBorder
-----------------------------------------------------------------------------
(* Pillars *)

\* g is h with a pillar of empty nodes at the addresses at, from the leaf up.
WithPillar(g, h, at) ==
  /\ DOMAIN g = DOMAIN h \cup {at[i] : i \in 1 .. Len(at)}
  /\ \A m \in DOMAIN h : g[m] = h[m]
  /\ \A i \in 1 .. Len(at) :
       /\ g[at[i]] \in Node /\ at[i] \in NodeId \ DOMAIN h
       /\ g[at[i]].kv = <<>> /\ g[at[i]].height = i - 1
       /\ g[at[i]].edges = IF i = 1 THEN <<>> ELSE <<at[i - 1]>>
       /\ g[at[i]].parent = IF i = Len(at) THEN Nil ELSE at[i + 1]
       /\ g[at[i]].parent_idx = 0

\* The nodes of a new pillar.
LEMMA NewPillarNodes ==
  ASSUME NEW h, NEW at, Free(h, at), NEW g, g = new_pillar(h, at)
  PROVE  WithPillar(g, h, at)
<1> DEFINE N(i) == [new_internal(i - 1, <<>>, IF i = 1 THEN <<>> ELSE <<at[i - 1]>>)
                      EXCEPT !.parent = IF i = Len(at) THEN Nil ELSE at[i + 1]]
           I(m) == CHOOSE j \in 1 .. Len(at) : at[j] = m
           D == DOMAIN h \cup {at[i] : i \in 1 .. Len(at)}
<1>1. /\ at \in Seq(NodeId \ DOMAIN h) /\ Len(at) \in Nat
      /\ \A i, j \in 1 .. Len(at) : at[i] = at[j] => i = j
      /\ \A i \in 1 .. Len(at) : at[i] \in NodeId \ DOMAIN h
  BY DEF Free
<1>2. DOMAIN g = D /\ \A m \in D : g[m] = IF m \in DOMAIN h THEN h[m] ELSE N(I(m))
  BY DEF new_pillar
<1>3. ASSUME NEW i \in 1 .. Len(at)
      PROVE  I(at[i]) = i
  BY <1>1
<1>4. ASSUME NEW i \in 1 .. Len(at)
      PROVE  /\ N(i) \in Node /\ N(i).kv = <<>> /\ N(i).height = i - 1
             /\ N(i).edges = IF i = 1 THEN <<>> ELSE <<at[i - 1]>>
             /\ N(i).parent = IF i = Len(at) THEN Nil ELSE at[i + 1]
             /\ N(i).parent_idx = 0
  <2> DEFINE e == IF i = 1 THEN <<>> ELSE <<at[i - 1]>>
             p == IF i = Len(at) THEN Nil ELSE at[i + 1]
  <2>1. e \in Seq(NodeId)
    <3>1. CASE i = 1
      BY <3>1
    <3>2. CASE i # 1
      <4>1. at[i - 1] \in NodeId
        BY <1>1, <3>2
      <4> QED BY <3>2, <4>1
    <3> QED BY <3>1, <3>2
  <2>2. p \in NodeId \cup {Nil}
    BY <1>1
  <2>3. i - 1 \in Nat /\ <<>> \in Seq(KV)
    OBVIOUS
  <2> HIDE DEF e, p
  <2>4. N(i) = [kv |-> <<>>, edges |-> e, height |-> i - 1, parent |-> p, parent_idx |-> 0]
    BY DEF new_internal, e, p
  <2> HIDE DEF N
  <2>5. /\ N(i) \in Node /\ N(i).kv = <<>> /\ N(i).height = i - 1 /\ N(i).edges = e
        /\ N(i).parent = p /\ N(i).parent_idx = 0
    BY ONLY <2>1, <2>2, <2>3, <2>4 DEF Node
  <2> QED BY <2>5 DEF e, p
<1> HIDE DEF N, I
<1>5. \A i \in 1 .. Len(at) : g[at[i]] = N(i)
  BY <1>1, <1>2, <1>3
<1> QED BY <1>1, <1>2, <1>4, <1>5 DEF WithPillar

\* A new pillar is a tree of its own.
LEMMA NewPillar ==
  ASSUME NEW h, NEW tops, WellFormed(h, tops), tops \subseteq DOMAIN h \cup {Nil},
         NEW at, Free(h, at), Len(at) >= 1, NEW g, g = new_pillar(h, at)
  PROVE  WithPillar(g, h, at) /\ WellFormed(g, tops \cup {at[Len(at)]})
<1> DEFINE L == DOMAIN g
           A == {at[i] : i \in 1 .. Len(at)}
           T == tops \cup {at[Len(at)]}
<1>1. WithPillar(g, h, at)
  BY NewPillarNodes
<1>2. /\ Len(at) \in Nat /\ \A i, j \in 1 .. Len(at) : at[i] = at[j] => i = j
  BY DEF Free
<1>3. HeapType(h) /\ \A m \in DOMAIN h : m # Nil
  BY HeapNode DEF WellFormed
<1>4. /\ L = DOMAIN h \cup A /\ \A m \in DOMAIN h : g[m] = h[m]
      /\ \A i \in 1 .. Len(at) : at[i] \in L /\ at[i] \notin DOMAIN h /\ at[i] # Nil
  <2>1. L = DOMAIN h \cup A /\ \A m \in DOMAIN h : g[m] = h[m]
    BY <1>1 DEF WithPillar
  <2>2. \A i \in 1 .. Len(at) : at[i] \in NodeId \ DOMAIN h
    BY <1>1 DEF WithPillar
  <2> QED BY <2>1, <2>2, NilAssumption
<1>5. HeapType(g)
  <2>1. g = [m \in DOMAIN g |-> g[m]]
    BY DEF new_pillar
  <2>2. ASSUME NEW m \in L
        PROVE  m \in NodeId /\ g[m] \in Node
    <3>1. CASE m \in DOMAIN h
      BY <1>3, <1>4, <3>1 DEF HeapType
    <3>2. CASE m \in A
      <4>1. PICK i \in 1 .. Len(at) : m = at[i]
        BY <3>2
      <4>2. g[at[i]] \in Node /\ at[i] \in NodeId \ DOMAIN h
        BY <1>1 DEF WithPillar
      <4> QED BY <4>1, <4>2
    <3> QED BY <1>4, <3>1, <3>2
  <2> QED BY <2>1, <2>2 DEF HeapType
<1>6. \A i \in 1 .. Len(at) :
        /\ Len(g[at[i]].edges) = IF i = 1 THEN 0 ELSE 1
        /\ i # 1 => g[at[i]].edges[1] = at[i - 1]
  <2> SUFFICES ASSUME NEW i \in 1 .. Len(at)
               PROVE  /\ Len(g[at[i]].edges) = IF i = 1 THEN 0 ELSE 1
                      /\ i # 1 => g[at[i]].edges[1] = at[i - 1]
    OBVIOUS
  <2>1. g[at[i]].edges = IF i = 1 THEN <<>> ELSE <<at[i - 1]>>
    BY <1>1 DEF WithPillar
  <2> QED BY <2>1
<1>7. Down(g, L)
  <2> SUFFICES ASSUME NEW n \in L, NEW i \in 1 .. Len(g[n].edges)
               PROVE  g[n].edges[i] \in L /\ g[g[n].edges[i]].height = g[n].height - 1
    BY DEF Down
  <2>1. CASE n \in DOMAIN h
    BY <1>4, <2>1, WellFormedFacts
  <2>2. CASE n \in A
    <3>1. PICK j \in 1 .. Len(at) : n = at[j]
      BY <2>2
    <3>2. j # 1 /\ i = 1 /\ g[n].edges[i] = at[j - 1] /\ j - 1 \in 1 .. Len(at)
      BY <1>2, <1>6, <3>1
    <3>3. g[at[j]].height = j - 1 /\ g[at[j - 1]].height = (j - 1) - 1
      BY <1>1, <3>2 DEF WithPillar
    <3> QED BY <1>2, <1>4, <3>1, <3>2, <3>3
  <2> QED BY <1>4, <2>1, <2>2
<1>8. Arity(g, L)
  <2> SUFFICES ASSUME NEW n \in L
               PROVE  /\ g[n].height = 0 => Len(g[n].edges) = 0
                      /\ g[n].height # 0 => Len(g[n].edges) = Len(g[n].kv) + 1
    BY DEF Arity
  <2>1. CASE n \in DOMAIN h
    BY <1>4, <2>1, WellFormedFacts
  <2>2. CASE n \in A
    <3>1. PICK j \in 1 .. Len(at) : n = at[j]
      BY <2>2
    <3>2. g[n].kv = <<>> /\ g[n].height = j - 1
      BY <1>1, <3>1 DEF WithPillar
    <3>3. Len(g[n].kv) = 0 /\ Len(g[n].edges) = IF j = 1 THEN 0 ELSE 1
      BY <1>6, <3>1, <3>2
    <3> QED BY <1>2, <3>2, <3>3
  <2> QED BY <1>4, <2>1, <2>2
<1>9. Covered(g, L, T)
  <2> SUFFICES ASSUME NEW n \in L, n \notin T
               PROVE  \E m \in L : \E i \in 1 .. Len(g[m].edges) : g[m].edges[i] = n
    BY DEF Covered
  <2>1. CASE n \in DOMAIN h
    <3>1. /\ h[n].parent \in DOMAIN h /\ h[n].parent_idx + 1 \in 1 .. Len(h[h[n].parent].edges)
          /\ h[h[n].parent].edges[h[n].parent_idx + 1] = n
      BY <2>1, WellFormedFacts
    <3> QED BY <1>4, <3>1
  <2>2. CASE n \in A
    <3>1. PICK j \in 1 .. Len(at) : n = at[j]
      BY <2>2
    <3>2. j + 1 \in 1 .. Len(at) /\ (j + 1) - 1 = j /\ j + 1 # 1
      BY <1>2, <3>1
    <3>3. at[j + 1] \in L /\ 1 \in 1 .. Len(g[at[j + 1]].edges) /\ g[at[j + 1]].edges[1] = n
      BY <1>4, <1>6, <3>1, <3>2
    <3> QED BY <3>3
  <2> QED BY <1>4, <2>1, <2>2
<1>10. \A n \in L \cap T : g[n].parent = Nil
  <2> SUFFICES ASSUME NEW n \in L \cap T
               PROVE  g[n].parent = Nil
    OBVIOUS
  <2>1. CASE n \in DOMAIN h
    <3>1. n \in tops
      BY <1>2, <1>4, <2>1
    <3> QED BY <1>4, <2>1, <3>1, WellFormedFacts
  <2>2. CASE n \notin DOMAIN h
    <3>1. n = at[Len(at)] /\ Len(at) \in 1 .. Len(at)
      BY <1>2, <1>3, <1>4, <2>2
    <3> QED BY <1>1, <3>1 DEF WithPillar
  <2> QED BY <2>1, <2>2
<1>11. \A n \in L : \A i \in 1 .. Len(g[n].edges) : LinkOK(g, n, i)
  <2> SUFFICES ASSUME NEW n \in L, NEW i \in 1 .. Len(g[n].edges)
               PROVE  LinkOK(g, n, i)
    OBVIOUS
  <2>1. CASE n \in DOMAIN h
    <3>1. g[n] = h[n] /\ i \in 1 .. Len(h[n].edges)
      BY <1>4, <2>1
    <3>2. /\ h[n].edges[i] \in DOMAIN h /\ h[h[n].edges[i]].parent = n
          /\ h[h[n].edges[i]].parent_idx = i - 1
      BY <2>1, <3>1, WellFormedFacts
    <3>3. g[h[n].edges[i]] = h[h[n].edges[i]]
      BY <1>4, <3>2
    <3> QED BY <3>1, <3>2, <3>3 DEF LinkOK
  <2>2. CASE n \in A
    <3>1. PICK j \in 1 .. Len(at) : n = at[j]
      BY <2>2
    <3>2. /\ i = 1 /\ g[n].edges[i] = at[j - 1] /\ j - 1 \in 1 .. Len(at) /\ j - 1 # Len(at)
          /\ (j - 1) + 1 = j
      BY <1>2, <1>6, <3>1
    <3>3. g[at[j - 1]].parent = at[j] /\ g[at[j - 1]].parent_idx = 0
      BY <1>1, <3>2 DEF WithPillar
    <3> QED BY <3>1, <3>2, <3>3 DEF LinkOK
  <2> QED BY <1>4, <2>1, <2>2
<1>12. g = [m \in L |-> g[m]]
  BY DEF new_pillar
<1> HIDE DEF L, T
<1>13. L \subseteq DOMAIN g
  BY DEF L
<1>14. WellFormed(g, T)
  BY ONLY <1>5, <1>7, <1>8, <1>9, <1>10, <1>11, <1>12, <1>13, LinkedWellFormed
<1> QED BY <1>1, <1>14 DEF T

\* A pillar has no pairs.
LEMMA TallyPillar ==
  ASSUME NEW g, NEW h, NEW at, Countable(h), at \in Seq(NodeId), WithPillar(g, h, at)
  PROVE  Tally(g, h, 0)
<1> DEFINE A == {at[i] : i \in 1 .. Len(at)}
<1>1. Len(at) \in Nat
  OBVIOUS
<1>2. IsFiniteSet(A)
  <2>1. IsFiniteSet(1 .. Len(at))
    BY <1>1, FS_Interval
  <2>2. at \in Surjection(1 .. Len(at), A)
    BY DEF Surjection
  <2> QED BY <2>1, <2>2, FS_Surjection
<1>3. Countable(g)
  <2>1. IsFiniteSet(DOMAIN g)
    <3>1. DOMAIN g = DOMAIN h \cup A /\ IsFiniteSet(DOMAIN h)
      BY DEF WithPillar, Countable
    <3>2. IsFiniteSet(DOMAIN h \cup A)
      BY <1>2, <3>1, FS_Union
    <3> QED BY <3>1, <3>2
  <2>2. ASSUME NEW n \in DOMAIN g
        PROVE  Len(g[n].kv) \in Nat
    <3>1. CASE n \in DOMAIN h
      BY <3>1 DEF WithPillar, Countable
    <3>2. CASE n \in A
      <4>1. PICK i \in 1 .. Len(at) : n = at[i]
        BY <3>2
      <4>2. g[n].kv = <<>>
        BY <4>1 DEF WithPillar
      <4> QED BY <4>2
    <3> QED BY <3>1, <3>2 DEF WithPillar
  <2> QED BY <2>1, <2>2 DEF Countable
<1>4. Places(g) = Places(h)
  <2> SUFFICES ASSUME NEW q
               PROVE  q \in Places(g) <=> q \in Places(h)
    OBVIOUS
  <2>1. q \in Places(g) <=> \E n \in DOMAIN g : \E i \in 1 .. Len(g[n].kv) : q = <<n, i>>
    BY PlacesOf
  <2>2. q \in Places(h) <=> \E n \in DOMAIN h : \E i \in 1 .. Len(h[n].kv) : q = <<n, i>>
    BY PlacesOf
  <2>3. ASSUME NEW n \in DOMAIN g \ DOMAIN h
        PROVE  Len(g[n].kv) = 0
    <3>1. DOMAIN g = DOMAIN h \cup A
      BY DEF WithPillar
    <3>2. PICK i \in 1 .. Len(at) : n = at[i]
      BY <3>1
    <3>3. g[n].kv = <<>>
      BY <3>2 DEF WithPillar
    <3> QED BY <3>3
  <2> QED BY <2>1, <2>2, <2>3 DEF WithPillar
<1> QED BY <1>3, <1>4, PlacesFinite DEF Tally

-----------------------------------------------------------------------------
(* The right border: the path from the root down the last edges *)

\* D is a path from rt down the last edges to a leaf.
Border(h, rt, D) ==
  /\ D \subseteq DOMAIN h /\ rt \in D
  /\ \A m \in D : h[m].height # 0 => LastChild(h, m) \in D
  /\ \A m \in D \ {rt} : \E p \in D : h[p].height # 0 /\ LastChild(h, p) = m
  /\ \A m, n \in D : h[m].height = h[n].height => m = n
  /\ \A m \in D : h[m].height <= h[rt].height

\* A border stays one while its nodes keep their heights and last children.
LEMMA BorderSame ==
  ASSUME NEW h, NEW g, NEW rt, NEW D, Border(h, rt, D), D \subseteq DOMAIN g,
         \A m \in D : g[m].height = h[m].height,
         \A m \in D : h[m].height # 0 => LastChild(g, m) = LastChild(h, m)
  PROVE  Border(g, rt, D)
<1>1. \A m \in D : g[m].height # 0 => LastChild(g, m) \in D
  BY DEF Border
<1>2. \A m \in D \ {rt} : \E p \in D : g[p].height # 0 /\ LastChild(g, p) = m
  BY DEF Border
<1>3. /\ D \subseteq DOMAIN g /\ rt \in D
      /\ \A m, n \in D : g[m].height = g[n].height => m = n
      /\ \A m \in D : g[m].height <= g[rt].height
  BY DEF Border
<1> QED BY <1>1, <1>2, <1>3 DEF Border

\* A leaf alone is a border.
LEMMA BorderLeaf ==
  ASSUME NEW h, NEW n \in DOMAIN h, h[n].height = 0
  PROVE  Border(h, n, {n})
BY DEF Border

\* The parent of a border node other than the root is on the border.
LEMMA BorderParent ==
  ASSUME NEW h, NEW tops, WellFormed(h, tops), NEW rt \in tops, NEW D, Border(h, rt, D),
         NEW m \in D
  PROVE  /\ m = rt => h[m].parent = Nil
         /\ m # rt => /\ h[m].parent \in D /\ h[m].parent # Nil
                      /\ h[h[m].parent].height # 0 /\ LastChild(h, h[m].parent) = m
                      /\ h[h[m].parent].height = h[m].height + 1
<1>1. CASE m = rt
  BY <1>1, WellFormedFacts DEF Border
<1>2. CASE m # rt
  <2>1. PICK p \in D : h[p].height # 0 /\ LastChild(h, p) = m
    BY <1>2 DEF Border
  <2>2. p \in DOMAIN h
    BY DEF Border
  <2>3. h[m].parent = p /\ h[m].height = h[p].height - 1
    BY <2>1, <2>2, LastChildFacts
  <2>4. h[p].height \in Nat /\ p # Nil
    BY <2>2, HeapNode DEF WellFormed
  <2> QED BY <1>2, <2>1, <2>3, <2>4
<1> QED BY <1>1, <1>2

\* The children left of a border node's last child are off the border.
LEMMA BorderLeft ==
  ASSUME NEW h, NEW tops, WellFormed(h, tops), NEW rt \in tops, NEW D, Border(h, rt, D),
         NEW p \in DOMAIN h, h[p].height # 0, NEW i \in Nat, i < Len(h[p].kv)
  PROVE  descend(h, p, i) \notin D
<1> DEFINE c == descend(h, p, i)
<1>1. Len(h[p].kv) \in Nat /\ Len(h[p].edges) = Len(h[p].kv) + 1
  BY NodeArity
<1>2. i + 1 \in 1 .. Len(h[p].edges) /\ (i + 1) - 1 = i
  BY <1>1
<1>3. h[c].parent = p /\ h[c].parent_idx = i /\ c \in DOMAIN h
  BY <1>2, WellFormedFacts DEF descend
<1>4. p # Nil
  BY HeapNode DEF WellFormed
<1> HIDE DEF c
<1>5. ASSUME c \in D
      PROVE  FALSE
  <2>1. LastChild(h, p) = c
    BY <1>3, <1>4, <1>5, BorderParent
  <2>2. h[c].parent_idx = Len(h[p].kv)
    BY <2>1, LastChildFacts
  <2> QED BY <1>1, <1>3, <2>2
<1> QED BY <1>5 DEF c

\* The addresses at, from the leaf up, hold empty nodes, each above the one before.
Pillar(g, at) ==
  /\ Len(at) \in Nat \ {0}
  /\ \A i \in 1 .. Len(at) :
       /\ at[i] \in DOMAIN g /\ g[at[i]].kv = <<>> /\ g[at[i]].height = i - 1
       /\ g[at[i]].edges = IF i = 1 THEN <<>> ELSE <<at[i - 1]>>

\* D is the border up to p, and p's last child is the top of the pillar at: so
\* the border goes on down the pillar.
LEMMA BorderGraft ==
  ASSUME NEW g, NEW rt, NEW D, NEW p, NEW at,
         D \subseteq DOMAIN g, rt \in D, p \in D,
         \A m \in D : g[m].height \in Nat,
         \A m \in D \ {p} : LastChild(g, m) \in D,
         \A m \in D \ {rt} : \E q \in D \ {p} : LastChild(g, q) = m,
         \A m, n \in D : g[m].height = g[n].height => m = n,
         \A m \in D : g[m].height <= g[rt].height,
         Pillar(g, at), \A m \in D : g[m].height >= Len(at), LastChild(g, p) = at[Len(at)]
  PROVE  Border(g, rt, D \cup {at[i] : i \in 1 .. Len(at)})
<1> DEFINE A == {at[i] : i \in 1 .. Len(at)}
           E == D \cup A
<1>0. /\ Len(at) \in Nat /\ Len(at) # 0
      /\ \A i \in 1 .. Len(at) : at[i] \in DOMAIN g
      /\ \A i \in 1 .. Len(at) : g[at[i]].height = i - 1
  BY DEF Pillar
<1>1. ASSUME NEW i \in 1 .. Len(at), i # 1
      PROVE  LastChild(g, at[i]) = at[i - 1] /\ i - 1 \in 1 .. Len(at)
  <2>1. g[at[i]].kv = <<>> /\ g[at[i]].edges = <<at[i - 1]>>
    BY <1>1 DEF Pillar
  <2> QED BY <1>0, <1>1, <2>1 DEF LastChild, descend
<1>2. ASSUME NEW m \in E, g[m].height # 0
      PROVE  LastChild(g, m) \in E
  <2>1. CASE m \in D
    <3>1. CASE m = p
      BY <1>0, <3>1
    <3>2. CASE m # p
      BY <2>1, <3>2
    <3> QED BY <3>1, <3>2
  <2>2. CASE m \in A
    <3>1. PICK i \in 1 .. Len(at) : m = at[i]
      BY <2>2
    <3>2. g[m].height = i - 1 /\ i \in Int
      BY <1>0, <3>1
    <3>3. i # 1
      BY <1>2, <3>2
    <3> QED BY <1>1, <3>1, <3>3
  <2> QED BY <2>1, <2>2
<1>3. ASSUME NEW m \in E, m # rt
      PROVE  \E q \in E : g[q].height # 0 /\ LastChild(g, q) = m
  <2>1. CASE m \in D
    <3>1. PICK q \in D \ {p} : LastChild(g, q) = m
      BY <1>3, <2>1
    <3>2. g[q].height # 0
      BY <1>0, <3>1
    <3> QED BY <3>1, <3>2
  <2>2. CASE m \in A
    <3>1. PICK i \in 1 .. Len(at) : m = at[i]
      BY <2>2
    <3>2. CASE i = Len(at)
      <4>1. g[p].height # 0
        BY <1>0
      <4> QED BY <3>1, <3>2, <4>1
    <3>3. CASE i # Len(at)
      <4>1. i + 1 \in 1 .. Len(at) /\ i + 1 # 1 /\ (i + 1) - 1 = i
        BY <1>0, <3>3
      <4>2. LastChild(g, at[i + 1]) = at[i] /\ g[at[i + 1]].height = i
        BY <1>0, <1>1, <4>1
      <4>3. at[i + 1] \in E /\ i # 0
        BY <1>0, <4>1
      <4> QED BY <3>1, <4>2, <4>3
    <3> QED BY <3>2, <3>3
  <2> QED BY <2>1, <2>2
<1>4. ASSUME NEW m \in E, NEW n \in E, g[m].height = g[n].height
      PROVE  m = n
  <2>1. ASSUME NEW i \in 1 .. Len(at)
        PROVE  g[at[i]].height = i - 1 /\ i - 1 < Len(at)
    BY <1>0
  <2>2. CASE m \in D /\ n \in D
    BY <1>4, <2>2
  <2>3. CASE m \in D /\ n \in A
    <3>1. PICK i \in 1 .. Len(at) : n = at[i]
      BY <2>3
    <3>2. g[m].height \in Nat /\ g[m].height >= Len(at)
      BY <2>3
    <3> QED BY <1>4, <2>1, <3>1, <3>2
  <2>4. CASE m \in A /\ n \in D
    <3>1. PICK i \in 1 .. Len(at) : m = at[i]
      BY <2>4
    <3>2. g[n].height \in Nat /\ g[n].height >= Len(at)
      BY <2>4
    <3> QED BY <1>4, <2>1, <3>1, <3>2
  <2>5. CASE m \in A /\ n \in A
    <3>1. PICK i \in 1 .. Len(at) : m = at[i]
      BY <2>5
    <3>2. PICK j \in 1 .. Len(at) : n = at[j]
      BY <2>5
    <3>3. i = j
      BY <1>4, <2>1, <3>1, <3>2
    <3> QED BY <3>1, <3>2, <3>3
  <2> QED BY <2>2, <2>3, <2>4, <2>5
<1>5. ASSUME NEW m \in E
      PROVE  g[m].height <= g[rt].height
  <2>1. CASE m \in D
    BY <2>1
  <2>2. CASE m \in A
    <3>1. PICK i \in 1 .. Len(at) : m = at[i]
      BY <2>2
    <3>2. g[m].height = i - 1 /\ g[rt].height \in Nat /\ g[rt].height >= Len(at)
      BY <1>0, <3>1
    <3> QED BY <3>2
  <2> QED BY <2>1, <2>2
<1>6. E \subseteq DOMAIN g /\ rt \in E
  BY <1>0
<1> HIDE DEF E
<1>7. Border(g, rt, E)
  BY <1>2, <1>3, <1>4, <1>5, <1>6 DEF Border
<1> QED BY <1>7 DEF E, A

-----------------------------------------------------------------------------
(* Sequences put together *)

\* n sequences over S.
Parts(S, ss, n) == n \in Nat /\ \A i \in 1 .. n : ss[i] \in Seq(S)

\* f is ss concatenated up to each of its first n members.
Flat(S, ss, n, f) ==
  \A i \in 1 .. n : f[i] \in Seq(S) /\ f[i] = IF i = 1 THEN ss[i] ELSE f[i - 1] \o ss[i]

\* One more.
LEMMA FlatMore ==
  ASSUME NEW S, NEW ss, NEW n \in Nat, n # 0, ss[n] \in Seq(S), NEW f, Flat(S, ss, n - 1, f),
         NEW g, g = [i \in 1 .. n |-> IF i < n THEN f[i] ELSE IF n = 1 THEN ss[1] ELSE f[n - 1] \o ss[n]]
  PROVE  Flat(S, ss, n, g)
<1> SUFFICES ASSUME NEW i \in 1 .. n
             PROVE  g[i] \in Seq(S) /\ g[i] = IF i = 1 THEN ss[i] ELSE g[i - 1] \o ss[i]
  BY DEF Flat
<1>1. CASE i < n
  <2>1. i \in 1 .. n - 1 /\ g[i] = f[i] /\ (i # 1 => g[i - 1] = f[i - 1])
    BY <1>1
  <2> QED BY <2>1 DEF Flat
<1>2. CASE i = n /\ n = 1
  BY <1>2
<1>3. CASE i = n /\ n # 1
  <2>0. n - 1 \in 1 .. n - 1 /\ n - 1 \in 1 .. n /\ n - 1 < n /\ n \in 1 .. n /\ ~(n < n)
    BY <1>3
  <2>1. n - 1 \in 1 .. n - 1 /\ g[n - 1] = f[n - 1] /\ g[n] = f[n - 1] \o ss[n]
    BY <1>3, <2>0
  <2>2. f[n - 1] \in Seq(S)
    BY <2>1 DEF Flat
  <2>3. f[n - 1] \o ss[n] \in Seq(S)
    BY <2>2
  <2> QED BY <1>3, <2>1, <2>3
<1> QED BY <1>1, <1>2, <1>3

\* There is such an f.
LEMMA FlatExists ==
  ASSUME NEW S, NEW ss, NEW k, Parts(S, ss, k)
  PROVE  \E f : Flat(S, ss, k, f)
<1> DEFINE T == {n \in Nat : n <= k /\ ~ \E f : Flat(S, ss, n, f)}
<1>0. k \in Nat
  BY DEF Parts
<1>1. CASE T = {}
  BY <1>0, <1>1
<1>2. CASE T # {}
  <2>1. T \subseteq Nat
    OBVIOUS
  <2> HIDE DEF T
  <2>2. PICK n \in T : \A m \in T : n <= m
    BY <1>2, <2>1, Least
  <2>3. n \in Nat /\ n <= k /\ ~ \E f : Flat(S, ss, n, f)
    BY <2>2 DEF T
  <2>4. n # 0
    <3>1. Flat(S, ss, 0, <<>>)
      BY DEF Flat
    <3> QED BY <2>3, <3>1
  <2>5. n - 1 \in Nat /\ n - 1 <= k /\ n - 1 \notin T
    BY <1>0, <2>2, <2>3, <2>4
  <2>6. PICK f : Flat(S, ss, n - 1, f)
    BY <2>5 DEF T
  <2>7. n \in 1 .. k
    BY <1>0, <2>3, <2>4
  <2>8. ss[n] \in Seq(S)
    BY <2>7 DEF Parts
  <2> QED BY <2>3, <2>4, <2>6, <2>8, FlatMore
<1> QED BY <1>1, <1>2

\* So FlattenSeq is the last of them.
LEMMA FlattenIs ==
  ASSUME NEW S, NEW ss, NEW n, Parts(S, ss, n), n = Len(ss), n # 0
  PROVE  \E f : Flat(S, ss, n, f) /\ Seqs!FlattenSeq(ss) = f[n]
<1> DEFINE Eq(f) == f = [i \in 1 .. n |-> IF i = 1 THEN ss[i] ELSE f[i - 1] \o ss[i]]
           c == CHOOSE f : Eq(f)
<1>1. n \in Nat
  BY DEF Parts
<1>2. PICK f : Flat(S, ss, n, f)
  BY FlatExists
<1> DEFINE g == [i \in 1 .. n |-> f[i]]
<1>3. Eq(g)
  <2> SUFFICES ASSUME NEW i \in 1 .. n
               PROVE  g[i] = IF i = 1 THEN ss[i] ELSE g[i - 1] \o ss[i]
    OBVIOUS
  <2>1. i # 1 => g[i - 1] = f[i - 1]
    BY <1>1
  <2> QED BY <1>2, <2>1 DEF Flat
<1> HIDE DEF g
<1>4. Eq(c)
  BY <1>3
<1>5. Seqs!FlattenSeq(ss) = c[n]
  BY DEF Seqs!FlattenSeq
<1> HIDE DEF c
<1>6. \A i \in 1 .. n : c[i] = IF i = 1 THEN ss[i] ELSE c[i - 1] \o ss[i]
  BY <1>4
<1> DEFINE T == {k \in Nat : k \in 1 .. n /\ c[k] \notin Seq(S)}
<1>7. T = {}
  <2>1. SUFFICES ASSUME T # {} PROVE FALSE
    OBVIOUS
  <2>2. T \subseteq Nat
    OBVIOUS
  <2> HIDE DEF T
  <2>3. PICK k \in T : \A m \in T : k <= m
    BY <2>1, <2>2, Least
  <2>4. k \in Nat /\ k \in 1 .. n /\ c[k] \notin Seq(S)
    BY <2>3 DEF T
  <2>5. ss[k] \in Seq(S)
    BY <2>4 DEF Parts
  <2>6. k # 1 /\ c[k] = c[k - 1] \o ss[k]
    BY <1>6, <2>4, <2>5
  <2>7. k - 1 \in Nat /\ k - 1 \in 1 .. n /\ k - 1 \notin T
    BY <1>1, <2>3, <2>4, <2>6
  <2>8. c[k - 1] \in Seq(S)
    BY <2>7 DEF T
  <2>9. c[k - 1] \o ss[k] \in Seq(S)
    BY <2>5, <2>8
  <2> QED BY <2>4, <2>6, <2>9
<1>8. \A i \in 1 .. n : c[i] \in Seq(S)
  BY <1>1, <1>7
<1> QED BY <1>5, <1>6, <1>8 DEF Flat

\* b begins with a.
Begins(b, a) == Len(a) <= Len(b) /\ \A t \in 1 .. Len(a) : b[t] = a[t]

\* What is in front stays there.
LEMMA PrefixConcat ==
  ASSUME NEW S, NEW a \in Seq(S), NEW b \in Seq(S), NEW c \in Seq(S), Begins(b, a)
  PROVE  Begins(b \o c, a)
<1>1. Len(a) \in Nat /\ Len(b) \in Nat /\ Len(c) \in Nat
  OBVIOUS
<1>2. IsConcat(b \o c, b, c)
  BY ConcatProps
<1>3. \A t \in 1 .. Len(a) : t \in 1 .. Len(b) + Len(c) /\ t <= Len(b)
  BY <1>1 DEF Begins
<1> QED BY <1>1, <1>2, <1>3 DEF IsConcat, Begins

\* What has been put together stays in front.
LEMMA FlatPrefix ==
  ASSUME NEW S, NEW ss, NEW n, Parts(S, ss, n), NEW f, Flat(S, ss, n, f),
         NEW i \in 1 .. n, NEW k \in 1 .. n, i <= k
  PROVE  Begins(f[k], f[i])
<1> DEFINE Good(m) == Begins(f[m], f[i])
           T == {m \in Nat : m \in i .. n /\ ~Good(m)}
<1>0. n \in Nat /\ k \in Nat /\ k \in i .. n /\ i \in Nat /\ f[i] \in Seq(S)
  BY DEF Parts, Flat
<1>1. CASE T = {}
  <2>1. k \notin T
    BY <1>1
  <2> QED BY <1>0, <2>1
<1>2. CASE T # {}
  <2>1. T \subseteq Nat
    OBVIOUS
  <2> HIDE DEF T
  <2>2. PICK m \in T : \A x \in T : m <= x
    BY <1>2, <2>1, Least
  <2>3. m \in Nat /\ m \in i .. n /\ ~Good(m)
    BY <2>2 DEF T
  <2>4. m # i
    BY <1>0, <2>3 DEF Begins
  <2>5. m - 1 \in i .. n /\ m - 1 \in Nat /\ m - 1 \notin T
    BY <1>0, <2>2, <2>3, <2>4
  <2>6. Good(m - 1)
    BY <2>5 DEF T
  <2>7. m \in 1 .. n /\ m - 1 \in 1 .. n /\ m # 1
    BY <1>0, <2>3, <2>4, <2>5
  <2>8. f[m] = f[m - 1] \o ss[m] /\ f[m - 1] \in Seq(S)
    BY <2>7 DEF Flat
  <2>9. ss[m] \in Seq(S)
    BY <2>7 DEF Parts
  <2>10. Good(m)
    BY <1>0, <2>6, <2>8, <2>9, PrefixConcat
  <2> QED BY <2>3, <2>10
<1> QED BY <1>1, <1>2

\* off adds up the lengths of n sequences, with w for what is between two of them.
Sums(below, n, w, off) ==
  /\ off \in [0 .. n -> Nat] /\ off[0] = 0
  /\ \A j \in 1 .. n : off[j] = off[j - 1] + Len(below[j]) + w

LEMMA SumsExist ==
  ASSUME NEW S, NEW below, NEW k, Parts(S, below, k), NEW w \in Nat
  PROVE  \E off : Sums(below, k, w, off)
<1> DEFINE T == {n \in Nat : n <= k /\ ~ \E off : Sums(below, n, w, off)}
<1>0. k \in Nat
  BY DEF Parts
<1>1. CASE T = {}
  BY <1>0, <1>1
<1>2. CASE T # {}
  <2>1. T \subseteq Nat
    OBVIOUS
  <2> HIDE DEF T
  <2>2. PICK n \in T : \A m \in T : n <= m
    BY <1>2, <2>1, Least
  <2>3. n \in Nat /\ n <= k /\ ~ \E off : Sums(below, n, w, off)
    BY <2>2 DEF T
  <2>4. n # 0
    <3>1. Sums(below, 0, w, [i \in 0 .. 0 |-> 0])
      BY DEF Sums
    <3> QED BY <2>3, <3>1
  <2>5. n - 1 \in Nat /\ n - 1 <= k /\ n - 1 \notin T
    BY <1>0, <2>2, <2>3, <2>4
  <2>6. PICK off : Sums(below, n - 1, w, off)
    BY <2>5 DEF T
  <2>7. Len(below[n]) \in Nat
    <3>1. n \in 1 .. k
      BY <1>0, <2>3, <2>4
    <3>2. below[n] \in Seq(S)
      BY <3>1 DEF Parts
    <3> QED BY <3>2
  <2> DEFINE g == [i \in 0 .. n |-> IF i < n THEN off[i] ELSE off[n - 1] + Len(below[n]) + w]
  <2>8. Sums(below, n, w, g)
    <3>1. off \in [0 .. n - 1 -> Nat] /\ off[0] = 0
      BY <2>6 DEF Sums
    <3>2. off[n - 1] + Len(below[n]) + w \in Nat
      BY <2>3, <2>4, <2>7, <3>1
    <3>3. g \in [0 .. n -> Nat] /\ g[0] = 0
      BY <2>3, <2>4, <3>1, <3>2
    <3>4. ASSUME NEW j \in 1 .. n PROVE g[j] = g[j - 1] + Len(below[j]) + w
      <4>1. g[j - 1] = off[j - 1]
        BY <2>3
      <4>2. CASE j < n
        <5>1. g[j] = off[j] /\ j \in 1 .. n - 1
          BY <2>3, <4>2
        <5> QED BY <2>6, <4>1, <5>1 DEF Sums
      <4>3. CASE j = n
        BY <2>3, <4>1, <4>3
      <4> QED BY <2>3, <4>2, <4>3
    <3> HIDE DEF g
    <3> QED BY <3>3, <3>4 DEF Sums
  <2> QED BY <2>3, <2>8
<1> QED BY <1>1, <1>2

\* The k + 1 sequences below with the k sequences own between them.
Mixed(own, below, k, i) == IF i % 2 = 1 THEN below[(i + 1) \div 2] ELSE own[i \div 2]

LEMMA Halves ==
  ASSUME NEW j \in Int
  PROVE  (2 * j) % 2 = 0 /\ (2 * j) \div 2 = j /\ (2 * j - 1) % 2 = 1 /\ (2 * j - 1 + 1) \div 2 = j
  OBVIOUS

\* What b is, if the sequences below are laid out at off with own between them.
Laid(S, own, w, below, k, off, b) ==
  /\ b \in Seq(S) /\ Len(b) + w = off[k + 1]
  /\ \A j \in 1 .. k + 1 : \A t \in 1 .. Len(below[j]) : b[off[j - 1] + t] = below[j][t]
  /\ \A j \in 1 .. k : w = 1 => b[off[j]] = own[j][1]

\* Counting on from p.
LEMMA Shift ==
  ASSUME NEW p \in Nat, NEW n \in Nat, NEW t \in 1 .. n
  PROVE  p + t \in 1 .. p + n /\ p + t > p /\ p + t - p = t /\ p + t \in Nat
  OBVIOUS

\* The second part of a concatenation.
LEMMA ConcatTail ==
  ASSUME NEW b, NEW a, NEW c, IsConcat(b, a, c), Len(a) \in Nat, Len(c) \in Nat
  PROVE  \A t \in 1 .. Len(c) : b[Len(a) + t] = c[t]
<1> TAKE t \in 1 .. Len(c)
<1> DEFINE q == Len(a) + t
<1>1. q \in 1 .. Len(a) + Len(c) /\ q > Len(a) /\ q - Len(a) = t
  BY Shift
<1> HIDE DEF q
<1>2. b[q] = c[q - Len(a)]
  BY <1>1 DEF IsConcat
<1> QED BY <1>1, <1>2 DEF q

\* b is the n sequences ss one after the other; P[i] is where the i-th ends.
EndToEnd(ss, n, b, P) ==
  /\ Sums(ss, n, 0, P) /\ Len(b) = P[n]
  /\ \A i \in 1 .. n : \A t \in 1 .. Len(ss[i]) : b[P[i - 1] + t] = ss[i][t]

\* A concatenation, by the lengths of what has been put together.
LEMMA FlattenLaid ==
  ASSUME NEW S, NEW ss, NEW n, Parts(S, ss, n), n = Len(ss), n # 0
  PROVE  Seqs!FlattenSeq(ss) \in Seq(S) /\ \E P : EndToEnd(ss, n, Seqs!FlattenSeq(ss), P)
<1> DEFINE b == Seqs!FlattenSeq(ss)
<1>1. PICK f : Flat(S, ss, n, f) /\ b = f[n]
  BY FlattenIs
<1> HIDE DEF b
<1>2. n \in Nat /\ n \in 1 .. n
  BY DEF Parts
<1>3. b \in Seq(S)
  BY <1>1, <1>2 DEF Flat
<1> DEFINE P == [i \in 0 .. n |-> IF i = 0 THEN 0 ELSE Len(f[i])]
<1>4. \A i \in 1 .. n : ss[i] \in Seq(S) /\ Len(ss[i]) \in Nat
  <2>1. \A s \in Seq(S) : Len(s) \in Nat
    OBVIOUS
  <2> QED BY <2>1 DEF Parts
<1>5. \A i \in 1 .. n : P[i] = Len(f[i]) /\ Len(f[i]) \in Nat
  <2>1. \A s \in Seq(S) : Len(s) \in Nat
    OBVIOUS
  <2> QED BY <1>1, <1>2, <2>1 DEF Flat
<1>6. P \in [0 .. n -> Nat] /\ P[0] = 0
  BY <1>2, <1>5
<1> HIDE DEF P
<1>7. ASSUME NEW i \in 1 .. n
      PROVE  /\ P[i] = P[i - 1] + Len(ss[i]) /\ P[i - 1] \in Nat
             /\ \A t \in 1 .. Len(ss[i]) : f[i][P[i - 1] + t] = ss[i][t]
  <2>0. Len(ss[i]) \in Nat
    BY <1>4
  <2>1. CASE i = 1
    <3>1. f[i] = ss[i]
      BY <1>1, <2>1 DEF Flat
    <3>2. P[i - 1] = 0
      BY <1>6, <2>1
    <3>3. P[i] = Len(ss[i])
      BY <1>5, <3>1
    <3> QED BY <2>0, <3>1, <3>2, <3>3
  <2>2. CASE i # 1
    <3>1. i - 1 \in 1 .. n
      BY <1>2, <2>2
    <3>2. f[i] = f[i - 1] \o ss[i] /\ f[i - 1] \in Seq(S)
      BY <1>1, <2>2, <3>1 DEF Flat
    <3>3. ss[i] \in Seq(S)
      BY <1>4
    <3>4. IsConcat(f[i], f[i - 1], ss[i])
      BY <3>2, <3>3, ConcatProps
    <3>5. P[i - 1] = Len(f[i - 1]) /\ P[i - 1] \in Nat
      BY <1>5, <3>1
    <3>6. P[i] = P[i - 1] + Len(ss[i])
      BY <1>5, <3>4, <3>5 DEF IsConcat
    <3>7. \A t \in 1 .. Len(ss[i]) : f[i][P[i - 1] + t] = ss[i][t]
      <4>1. Len(f[i - 1]) \in Nat
        BY <3>5
      <4> DEFINE y == f[i - 1]
                 z == f[i]
      <4>2. IsConcat(z, y, ss[i]) /\ Len(y) \in Nat /\ Len(ss[i]) \in Nat
        BY <2>0, <3>4, <4>1
      <4> HIDE DEF y, z
      <4>3. \A t \in 1 .. Len(ss[i]) : z[Len(y) + t] = ss[i][t]
        BY <4>2, ConcatTail
      <4> QED BY <3>5, <4>3 DEF y, z
    <3> QED BY <3>5, <3>6, <3>7
  <2> QED BY <2>1, <2>2
<1>8. Sums(ss, n, 0, P)
  <2>1. \A i \in 1 .. n : P[i] = P[i - 1] + Len(ss[i]) + 0
    BY <1>4, <1>7
  <2> QED BY <1>6, <2>1 DEF Sums
<1>9. Len(b) = P[n]
  BY <1>1, <1>2, <1>5
<1>10. ASSUME NEW i \in 1 .. n, NEW t \in 1 .. Len(ss[i])
       PROVE  b[P[i - 1] + t] = ss[i][t]
  <2>1. Begins(b, f[i])
    <3>1. i <= n
      BY <1>2
    <3> QED BY <1>1, <1>2, <3>1, FlatPrefix
  <2>2. f[i][P[i - 1] + t] = ss[i][t]
    BY <1>7
  <2>3. P[i - 1] + t \in 1 .. Len(f[i])
    <3>1. Len(f[i]) = P[i - 1] + Len(ss[i]) /\ P[i - 1] \in Nat /\ Len(ss[i]) \in Nat
      BY <1>4, <1>5, <1>7
    <3> QED BY <3>1
  <2> QED BY <2>1, <2>2, <2>3 DEF Begins
<1>11. EndToEnd(ss, n, b, P)
  BY <1>8, <1>9, <1>10 DEF EndToEnd
<1> QED BY <1>3, <1>11 DEF b

\* The 2 * k + 1 sequences ss are those below and those of own in turn.
Alternate(ss, own, below, k) ==
  /\ \A j \in 1 .. k + 1 : /\ 2 * j - 1 \in 1 .. 2 * k + 1 /\ 2 * j - 1 - 1 = 2 * (j - 1)
                           /\ ss[2 * j - 1] = below[j]
  /\ \A j \in 1 .. k : 2 * j \in 1 .. 2 * k + 1 /\ ss[2 * j] = own[j]

LEMMA MixedAlternate ==
  ASSUME NEW k \in Nat, NEW own, NEW below
  PROVE  Alternate([i \in 1 .. 2 * k + 1 |-> Mixed(own, below, k, i)], own, below, k)
<1> DEFINE ss == [i \in 1 .. 2 * k + 1 |-> Mixed(own, below, k, i)]
<1>1. ASSUME NEW j \in 1 .. k + 1
      PROVE  /\ 2 * j - 1 \in 1 .. 2 * k + 1 /\ 2 * j - 1 - 1 = 2 * (j - 1)
             /\ ss[2 * j - 1] = below[j]
  <2>1. (2 * j - 1) % 2 = 1 /\ (2 * j - 1 + 1) \div 2 = j
    BY Halves
  <2>2. 2 * j - 1 \in 1 .. 2 * k + 1 /\ 2 * j - 1 - 1 = 2 * (j - 1)
    OBVIOUS
  <2>3. Mixed(own, below, k, 2 * j - 1) = below[j]
    BY <2>1 DEF Mixed
  <2> QED BY <2>2, <2>3
<1>2. ASSUME NEW j \in 1 .. k
      PROVE  2 * j \in 1 .. 2 * k + 1 /\ ss[2 * j] = own[j]
  <2>1. (2 * j) % 2 = 0 /\ (2 * j) \div 2 = j
    BY Halves
  <2>2. 2 * j \in 1 .. 2 * k + 1
    OBVIOUS
  <2>3. Mixed(own, below, k, 2 * j) = own[j]
    BY <2>1 DEF Mixed
  <2> QED BY <2>2, <2>3
<1> HIDE DEF ss
<1> QED BY <1>1, <1>2 DEF Alternate, ss

\* P adds up the lengths of ss as off does those of the sequences below.
Agree(P, off, k, w) ==
  /\ \A j \in 0 .. k : P[2 * j] = off[j]
  /\ \A j \in 1 .. k + 1 : P[2 * j - 1] + w = off[j]

LEMMA MixedLength ==
  ASSUME NEW S, NEW k \in Nat, NEW own, NEW w \in Nat, \A i \in 1 .. k : Len(own[i]) = w,
         NEW below, Parts(S, below, k + 1), NEW off, Sums(below, k + 1, w, off),
         NEW ss, Alternate(ss, own, below, k),
         NEW N, N = 2 * k + 1, NEW P, Sums(ss, N, 0, P)
  PROVE  Agree(P, off, k, w)
<1> DEFINE T == {j \in Nat : j <= k /\ P[2 * j] # off[j]}
<1>1. /\ \A j \in 1 .. k + 1 : ss[2 * j - 1] = below[j] /\ 2 * j - 1 - 1 = 2 * (j - 1) /\ 2 * j - 1 \in 1 .. N
      /\ \A j \in 1 .. k : ss[2 * j] = own[j] /\ 2 * j \in 1 .. N
  BY DEF Alternate
<1>2. /\ \A j \in 1 .. k + 1 : Len(below[j]) \in Nat
      /\ \A j \in 0 .. k + 1 : off[j] \in Nat
      /\ \A j \in 1 .. k + 1 : off[j] = off[j - 1] + Len(below[j]) + w
      /\ off[0] = 0 /\ P[0] = 0
      /\ \A i \in 0 .. N : P[i] \in Nat
      /\ \A i \in 1 .. N : P[i] = P[i - 1] + Len(ss[i]) + 0
  <2>1. \A s \in Seq(S) : Len(s) \in Nat
    OBVIOUS
  <2> QED BY <2>1 DEF Sums, Parts
<1>3. ASSUME NEW j \in 1 .. k + 1
      PROVE  P[2 * j - 1] = P[2 * (j - 1)] + Len(below[j]) + 0
  <2> DEFINE x == 2 * j - 1
             y == x - 1
  <2>1. x \in 1 .. N /\ ss[x] = below[j] /\ y = 2 * (j - 1)
    BY <1>1
  <2>2. P[x] = P[y] + Len(ss[x]) + 0
    BY <1>2, <2>1
  <2> HIDE DEF x, y
  <2>3. P[x] = P[2 * (j - 1)] + Len(below[j]) + 0
    BY <2>1, <2>2
  <2> QED BY <2>3 DEF x
<1>4. ASSUME NEW j \in 1 .. k
      PROVE  P[2 * j] = P[2 * j - 1] + w + 0
  <2> DEFINE x == 2 * j
             y == x - 1
  <2>1. x \in 1 .. N /\ ss[x] = own[j] /\ Len(own[j]) = w
    BY <1>1
  <2>2. P[x] = P[y] + Len(ss[x]) + 0
    BY <1>2, <2>1
  <2> HIDE DEF x, y
  <2>3. P[x] = P[y] + w + 0
    BY <2>1, <2>2
  <2> QED BY <2>3 DEF x, y
<1>5. T = {}
  <2>1. SUFFICES ASSUME T # {} PROVE FALSE
    OBVIOUS
  <2>2. T \subseteq Nat
    OBVIOUS
  <2> HIDE DEF T
  <2>3. PICK j \in T : \A x \in T : j <= x
    BY <2>1, <2>2, Least
  <2>4. j \in Nat /\ j <= k /\ P[2 * j] # off[j]
    BY <2>3 DEF T
  <2>5. j # 0
    <3>1. SUFFICES ASSUME j = 0 PROVE FALSE
      OBVIOUS
    <3>2. P[2 * j] = P[0]
      BY <3>1
    <3> QED BY <1>2, <2>4, <3>1, <3>2
  <2>6. j - 1 \in Nat /\ j - 1 \notin T /\ j - 1 <= k /\ j \in 1 .. k /\ j \in 1 .. k + 1
        /\ j - 1 \in 0 .. k + 1 /\ j \in 0 .. k + 1
    BY <2>3, <2>4, <2>5
  <2>7. P[2 * (j - 1)] = off[j - 1]
    BY <2>6 DEF T
  <2>8. P[2 * j - 1] = off[j - 1] + Len(below[j]) + 0
    BY <1>3, <2>6, <2>7
  <2>9. P[2 * j] = off[j - 1] + Len(below[j]) + 0 + w + 0
    BY <1>4, <2>6, <2>8
  <2>10. off[j] = off[j - 1] + Len(below[j]) + w /\ off[j - 1] \in Nat /\ Len(below[j]) \in Nat
    BY <1>2, <2>6
  <2> QED BY <2>4, <2>9, <2>10
<1>6. \A j \in 0 .. k : P[2 * j] = off[j]
  BY <1>5
<1>7. ASSUME NEW j \in 1 .. k + 1 PROVE P[2 * j - 1] + w = off[j]
  <2>1. j - 1 \in 0 .. k /\ j - 1 \in 0 .. k + 1
    OBVIOUS
  <2>2. P[2 * j - 1] = off[j - 1] + Len(below[j]) + 0
    BY <1>3, <1>6, <2>1
  <2> QED BY <1>2, <2>1, <2>2
<1> QED BY <1>6, <1>7 DEF Agree

\* Where they are laid out.
LEMMA BetweenLaid ==
  ASSUME NEW S, NEW k \in Nat, NEW own, Parts(S, own, k), Len(own) = k, NEW w \in Nat,
         \A i \in 1 .. k : Len(own[i]) = w,
         NEW below, Parts(S, below, k + 1), Len(below) = k + 1,
         NEW off, Sums(below, k + 1, w, off)
  PROVE  Laid(S, own, w, below, k, off, Between(own, below))
<1> DEFINE N == 2 * k + 1
           ss == [i \in 1 .. N |-> Mixed(own, below, k, i)]
           b == Seqs!FlattenSeq(ss)
<1>1. Between(own, below) = b
  <2>1. Len(own) + Len(below) = N
    OBVIOUS
  <2> QED BY <2>1 DEF Between, Mixed
<1>2. Parts(S, ss, N) /\ Len(ss) = N /\ N # 0
  <2>1. ASSUME NEW i \in 1 .. N PROVE ss[i] \in Seq(S)
    <3>1. CASE i % 2 = 1
      <4>1. (i + 1) \div 2 \in 1 .. k + 1
        BY <3>1
      <4> QED BY <3>1, <4>1 DEF Parts, Mixed
    <3>2. CASE i % 2 # 1
      <4>1. i \div 2 \in 1 .. k
        BY <3>2
      <4> QED BY <3>2, <4>1 DEF Parts, Mixed
    <3> QED BY <3>1, <3>2
  <2>2. N \in Nat /\ N # 0
    OBVIOUS
  <2> QED BY <2>1, <2>2 DEF Parts
<1>3. Alternate(ss, own, below, k)
  BY MixedAlternate
<1> HIDE DEF ss
<1>5. b \in Seq(S) /\ \E P : EndToEnd(ss, N, b, P)
  <2> HIDE DEF N
  <2> QED BY <1>2, FlattenLaid DEF b
<1>11. PICK P : EndToEnd(ss, N, b, P)
  BY <1>5
<1>4. /\ Sums(ss, N, 0, P) /\ Len(b) = P[N]
      /\ \A i \in 1 .. N : \A t \in 1 .. Len(ss[i]) : b[P[i - 1] + t] = ss[i][t]
  BY <1>11 DEF EndToEnd
<1> HIDE DEF b
<1>6. Agree(P, off, k, w)
  BY <1>3, <1>4, MixedLength
<1>7. /\ \A j \in 1 .. k + 1 : ss[2 * j - 1] = below[j] /\ 2 * j - 1 - 1 = 2 * (j - 1) /\ 2 * j - 1 \in 1 .. N
      /\ \A j \in 1 .. k : ss[2 * j] = own[j] /\ 2 * j \in 1 .. N
  BY <1>3 DEF Alternate
<1>8. Len(b) + w = off[k + 1]
  <2>1. k + 1 \in 1 .. k + 1 /\ N = 2 * (k + 1) - 1
    OBVIOUS
  <2> QED BY <1>4, <1>6, <2>1 DEF Agree
<1> HIDE DEF N
<1>9. ASSUME NEW j \in 1 .. k + 1, NEW t \in 1 .. Len(below[j])
      PROVE  b[off[j - 1] + t] = below[j][t]
  <2>1. j - 1 \in 0 .. k
    OBVIOUS
  <2>2. P[2 * j - 1 - 1] = off[j - 1]
    BY <1>6, <1>7, <2>1 DEF Agree
  <2>3. 2 * j - 1 \in 1 .. N /\ ss[2 * j - 1] = below[j]
    BY <1>7
  <2>4. \A x \in 1 .. N : \A t1 \in 1 .. Len(ss[x]) : b[P[x - 1] + t1] = ss[x][t1]
    BY <1>4
  <2>5. b[P[2 * j - 1 - 1] + t] = ss[2 * j - 1][t]
    BY <2>3, <2>4
  <2> QED BY <2>2, <2>3, <2>5
<1>10. ASSUME NEW j \in 1 .. k, w = 1 PROVE b[off[j]] = own[j][1]
  <2> DEFINE x == 2 * j
             y == x - 1
  <2> HIDE DEF b, N, x, y
  <2>1. 1 \in 1 .. Len(own[j]) /\ j \in 1 .. k + 1
    <3>1. Len(own[j]) = 1
      BY <1>10
    <3> QED BY <3>1
  <2> USE DEF x, y
  <2>2. x \in 1 .. N /\ ss[x] = own[j]
    BY <1>7
  <2>3. b[P[y] + 1] = ss[x][1]
    BY <1>4, <2>1, <2>2
  <2>4. P[y] + w = off[j]
    BY <1>6, <2>1 DEF Agree
  <2> HIDE DEF x, y
  <2> QED BY <1>10, <2>2, <2>3, <2>4
<1> QED BY <1>1, <1>5, <1>8, <1>9, <1>10 DEF Laid

-----------------------------------------------------------------------------
(* The trees gone through in order *)

\* What comes below m, given what comes below its children.
StepAt(h, leaf, own, g, m) ==
  IF IsLeaf(h, m) THEN leaf[m]
  ELSE Between(own[m], [i \in 1 .. Len(h[m].edges) |-> g[h[m].edges[i]]])

\* f goes through the trees of h.
InOrderBy(h, leaf, own, f) == f = [m \in DOMAIN h |-> StepAt(h, leaf, own, f, m)]

\* The same children, the same step.
LEMMA StepSame ==
  ASSUME NEW h, NEW leaf, NEW own, NEW f, NEW g, NEW m,
         \A i \in 1 .. Len(h[m].edges) : f[h[m].edges[i]] = g[h[m].edges[i]]
  PROVE  StepAt(h, leaf, own, f, m) = StepAt(h, leaf, own, g, m)
<1>1. [i \in 1 .. Len(h[m].edges) |-> f[h[m].edges[i]]]
        = [i \in 1 .. Len(h[m].edges) |-> g[h[m].edges[i]]]
  OBVIOUS
<1> QED BY <1>1 DEF StepAt

\* Such a walk exists, whatever the leaves and the inner nodes bring along.
LEMMA OrderExists ==
  ASSUME NEW h, NEW tops, WellFormed(h, tops), Bounded(h), NEW leaf, NEW own
  PROVE  \E f : InOrderBy(h, leaf, own, f)
<1> DEFINE Good(k, g) == \A m \in DOMAIN h : h[m].height < k => g[m] = StepAt(h, leaf, own, g, m)
           T == {k \in Nat : ~ \E g : Good(k, g)}
<1>1. \A m \in DOMAIN h : /\ h[m].height \in Nat
                          /\ \A i \in 1 .. Len(h[m].edges) : /\ h[m].edges[i] \in DOMAIN h
                                                             /\ h[h[m].edges[i]].height = h[m].height - 1
  BY NodeArity, WellFormedFacts
<1>2. ASSUME NEW k \in Nat, NEW g, Good(k, g)
      PROVE  \E f : Good(k + 1, f)
  <2> DEFINE f == [m \in DOMAIN h |-> IF h[m].height < k THEN g[m] ELSE StepAt(h, leaf, own, g, m)]
  <2> SUFFICES ASSUME NEW m \in DOMAIN h, h[m].height < k + 1
               PROVE  f[m] = StepAt(h, leaf, own, f, m)
    OBVIOUS
  <2>1. \A i \in 1 .. Len(h[m].edges) : g[h[m].edges[i]] = f[h[m].edges[i]]
    BY <1>1
  <2>2. StepAt(h, leaf, own, g, m) = StepAt(h, leaf, own, f, m)
    <3> HIDE DEF f
    <3> QED BY <2>1, StepSame
  <2>3. f[m] = StepAt(h, leaf, own, g, m)
    BY <1>2
  <2> QED BY <2>2, <2>3
<1>3. T = {}
  <2>1. SUFFICES ASSUME T # {} PROVE FALSE
    OBVIOUS
  <2>2. T \subseteq Nat
    OBVIOUS
  <2> HIDE DEF T
  <2>3. PICK k \in T : \A x \in T : k <= x
    BY <2>1, <2>2, Least
  <2>4. k \in Nat /\ ~ \E g : Good(k, g)
    BY <2>3 DEF T
  <2>5. k # 0
    <3>1. Good(0, h)
      BY <1>1
    <3> QED BY <2>4, <3>1
  <2>6. k - 1 \in Nat /\ k - 1 \notin T
    BY <2>3, <2>4, <2>5
  <2>7. PICK g : Good(k - 1, g)
    BY <2>6 DEF T
  <2>8. k - 1 + 1 = k
    BY <2>4
  <2> HIDE DEF Good
  <2> QED BY <1>2, <2>4, <2>6, <2>7, <2>8
<1>4. PICK top \in Nat : \A n \in DOMAIN h : h[n].height <= top
  BY DEF Bounded
<1>5. PICK g : Good(top + 1, g)
  <2>1. top + 1 \in Nat
    OBVIOUS
  <2> HIDE DEF Good
  <2> QED BY <1>3, <2>1
<1> DEFINE f == [m \in DOMAIN h |-> g[m]]
<1>7. ASSUME NEW m \in DOMAIN h PROVE f[m] = StepAt(h, leaf, own, f, m)
  <2>1. g[m] = StepAt(h, leaf, own, g, m)
    BY <1>1, <1>4, <1>5
  <2>2. \A i \in 1 .. Len(h[m].edges) : g[h[m].edges[i]] = f[h[m].edges[i]]
    BY <1>1
  <2> HIDE DEF f
  <2>3. StepAt(h, leaf, own, g, m) = StepAt(h, leaf, own, f, m)
    BY <2>2, StepSame
  <2> QED BY <2>1, <2>3 DEF f
<1> QED BY <1>7 DEF InOrderBy

\* The pairs of a leaf and of an internal node, and their edges.
PairsOfLeaf(h) == [m \in DOMAIN h |-> [i \in 1 .. len(h, m) |-> Handle(m, i - 1)]]
InnerPairs(h) == [m \in DOMAIN h |-> [i \in 1 .. len(h, m) |-> <<Handle(m, i - 1)>>]]
EdgesOfLeaf(h) == [m \in DOMAIN h |-> [i \in 1 .. len(h, m) + 1 |-> Handle(m, i - 1)]]
NoPairs(h) == [m \in DOMAIN h |-> [i \in 1 .. len(h, m) |-> <<>>]]

\* The recursion of ElementsBelow and LeafEdges.
LEMMA OrderSteps ==
  ASSUME NEW h, NEW tops, WellFormed(h, tops), Bounded(h)
  PROVE  \E e, l : \A m \in DOMAIN h :
           /\ ElementsBelow(h, m) = e[m] /\ e[m] = StepAt(h, PairsOfLeaf(h), InnerPairs(h), e, m)
           /\ LeafEdges(h, m) = l[m] /\ l[m] = StepAt(h, EdgesOfLeaf(h), NoPairs(h), l, m)
<1> DEFINE EqE(f) == f = [m \in DOMAIN h |->
                            IF IsLeaf(h, m) THEN [i \in 1 .. len(h, m) |-> Handle(m, i - 1)]
                            ELSE Between([i \in 1 .. len(h, m) |-> <<Handle(m, i - 1)>>],
                                         [i \in 1 .. Len(h[m].edges) |-> f[h[m].edges[i]]])]
           EqL(f) == f = [m \in DOMAIN h |->
                            IF IsLeaf(h, m) THEN [i \in 1 .. len(h, m) + 1 |-> Handle(m, i - 1)]
                            ELSE Between([i \in 1 .. len(h, m) |-> <<>>],
                                         [i \in 1 .. Len(h[m].edges) |-> f[h[m].edges[i]]])]
           e == CHOOSE f : EqE(f)
           l == CHOOSE f : EqL(f)
<1>1. \A f : EqE(f) <=> InOrderBy(h, PairsOfLeaf(h), InnerPairs(h), f)
  BY DEF InOrderBy, StepAt, PairsOfLeaf, InnerPairs
<1>2. \A f : EqL(f) <=> InOrderBy(h, EdgesOfLeaf(h), NoPairs(h), f)
  BY DEF InOrderBy, StepAt, EdgesOfLeaf, NoPairs
<1>3. \A n : ElementsBelow(h, n) = e[n]
  BY DEF ElementsBelow
<1>4. \A n : LeafEdges(h, n) = l[n]
  BY DEF LeafEdges
<1> HIDE DEF EqE, EqL
<1>5. EqE(e) /\ EqL(l)
  <2>1. \E f : EqE(f)
    BY <1>1, OrderExists
  <2>2. \E f : EqL(f)
    BY <1>2, OrderExists
  <2> QED BY <2>1, <2>2
<1>6. /\ e = [m \in DOMAIN h |-> StepAt(h, PairsOfLeaf(h), InnerPairs(h), e, m)]
      /\ l = [m \in DOMAIN h |-> StepAt(h, EdgesOfLeaf(h), NoPairs(h), l, m)]
  BY <1>1, <1>2, <1>5 DEF InOrderBy
<1> HIDE DEF e, l
<1>7. \A m \in DOMAIN h : /\ e[m] = StepAt(h, PairsOfLeaf(h), InnerPairs(h), e, m)
                          /\ l[m] = StepAt(h, EdgesOfLeaf(h), NoPairs(h), l, m)
  <2> TAKE m \in DOMAIN h
  <2>1. e[m] = StepAt(h, PairsOfLeaf(h), InnerPairs(h), e, m)
    BY <1>6
  <2>2. l[m] = StepAt(h, EdgesOfLeaf(h), NoPairs(h), l, m)
    BY <1>6
  <2> QED BY <2>1, <2>2
<1>8. \A m \in DOMAIN h :
           /\ ElementsBelow(h, m) = e[m] /\ e[m] = StepAt(h, PairsOfLeaf(h), InnerPairs(h), e, m)
           /\ LeafEdges(h, m) = l[m] /\ l[m] = StepAt(h, EdgesOfLeaf(h), NoPairs(h), l, m)
  BY <1>3, <1>4, <1>7
<1> QED BY <1>8

\* A node of a set of nodes below which there is no other of the set.
LEMMA LowestOf ==
  ASSUME NEW h, NEW tops, WellFormed(h, tops), NEW T, T \subseteq DOMAIN h, T # {}
  PROVE  \E m \in T : \A i \in 1 .. Len(h[m].edges) : h[m].edges[i] \notin T
<1> DEFINE H == {h[m].height : m \in T}
<1>1. \A m \in T : /\ h[m].height \in Nat
                   /\ \A i \in 1 .. Len(h[m].edges) : h[h[m].edges[i]].height = h[m].height - 1
  BY NodeArity, WellFormedFacts
<1>2. H \subseteq Nat /\ H # {}
  BY <1>1
<1>3. PICK k \in H : \A x \in H : k <= x
  <2> HIDE DEF H
  <2> QED BY <1>2, Least
<1>4. PICK m \in T : h[m].height = k
  OBVIOUS
<1>5. ASSUME NEW i \in 1 .. Len(h[m].edges), h[m].edges[i] \in T PROVE FALSE
  <2>1. h[h[m].edges[i]].height \in H
    BY <1>5
  <2>2. /\ k <= h[h[m].edges[i]].height /\ h[m].height = k /\ h[m].height \in Nat
        /\ h[h[m].edges[i]].height = h[m].height - 1
    BY <1>1, <1>3, <1>4, <2>1
  <2> QED BY <2>2
<1> QED BY <1>5

\* A node of a set of nodes above which there is no other of the set.
LEMMA HighestOf ==
  ASSUME NEW h, NEW tops, WellFormed(h, tops), Bounded(h), NEW T, T \subseteq DOMAIN h, T # {}
  PROVE  \E m \in T : m \in tops \/ h[m].parent \notin T
<1>1. PICK top \in Nat : \A n \in DOMAIN h : h[n].height <= top
  BY DEF Bounded
<1> DEFINE H == {top - h[m].height : m \in T}
<1>2. \A m \in T : /\ h[m].height \in Nat /\ h[m].height <= top
                   /\ m \notin tops => h[h[m].parent].height = h[m].height + 1
  BY <1>1, NodeArity, WellFormedFacts
<1>3. H \subseteq Nat /\ H # {}
  BY <1>2
<1>4. PICK k \in H : \A x \in H : k <= x
  <2> HIDE DEF H
  <2> QED BY <1>3, Least
<1>5. PICK m \in T : top - h[m].height = k
  OBVIOUS
<1>6. ASSUME m \notin tops, h[m].parent \in T PROVE FALSE
  <2>1. top - h[h[m].parent].height \in H
    BY <1>6
  <2>2. /\ k <= top - h[h[m].parent].height /\ k = top - h[m].height /\ h[m].height \in Nat
        /\ h[h[m].parent].height = h[m].height + 1
    BY <1>2, <1>4, <1>5, <1>6, <2>1
  <2> QED BY <2>2
<1> QED BY <1>6

Spots(h) == [node : DOMAIN h, idx : Nat]

\* The sequences of a node.
Sequences(h, n) ==
  /\ ElementsBelow(h, n) \in Seq(Spots(h)) /\ LeafEdges(h, n) \in Seq(Spots(h))
  /\ Len(ElementsBelow(h, n)) \in Nat
  /\ Len(LeafEdges(h, n)) = Len(ElementsBelow(h, n)) + 1

\* The sequences of an internal node are those of its children, each shifted by off.
LaidOut(h, n, off) ==
  /\ off \in [0 .. Len(h[n].kv) + 1 -> Nat] /\ off[0] = 0
  /\ Len(ElementsBelow(h, n)) + 1 = off[Len(h[n].kv) + 1]
  /\ \A j \in 1 .. Len(h[n].kv) + 1 :
       /\ off[j] = off[j - 1] + Len(ElementsBelow(h, h[n].edges[j])) + 1
       /\ \A t \in 1 .. Len(ElementsBelow(h, h[n].edges[j])) :
            ElementsBelow(h, n)[off[j - 1] + t] = ElementsBelow(h, h[n].edges[j])[t]
       /\ \A t \in 1 .. Len(LeafEdges(h, h[n].edges[j])) :
            LeafEdges(h, n)[off[j - 1] + t] = LeafEdges(h, h[n].edges[j])[t]
  /\ \A j \in 1 .. Len(h[n].kv) : ElementsBelow(h, n)[off[j]] = Handle(n, j - 1)

LEMMA LeafSequences ==
  ASSUME NEW h, NEW tops, WellFormed(h, tops), Bounded(h), NEW n \in DOMAIN h, h[n].height = 0
  PROVE  /\ Sequences(h, n) /\ Len(ElementsBelow(h, n)) = Len(h[n].kv)
         /\ \A i \in 1 .. Len(h[n].kv) : ElementsBelow(h, n)[i] = Handle(n, i - 1)
         /\ \A i \in 1 .. Len(h[n].kv) + 1 : LeafEdges(h, n)[i] = Handle(n, i - 1)
<1> DEFINE k == Len(h[n].kv)
           e == [i \in 1 .. k |-> Handle(n, i - 1)]
           l == [i \in 1 .. k + 1 |-> Handle(n, i - 1)]
<1>1. k \in Nat
  BY NodeArity
<1>2. ElementsBelow(h, n) = e /\ LeafEdges(h, n) = l
  BY OrderSteps DEF StepAt, PairsOfLeaf, EdgesOfLeaf, IsLeaf, len
<1> HIDE DEF k
<1>3. \A i \in 1 .. k + 1 : Handle(n, i - 1) \in Spots(h)
  BY <1>1 DEF Handle, Spots
<1>4. e \in Seq(Spots(h)) /\ Len(e) = k /\ l \in Seq(Spots(h)) /\ Len(l) = k + 1
  BY <1>1, <1>3
<1> QED BY <1>1, <1>2, <1>4 DEF Sequences, k

LEMMA InnerSequences ==
  ASSUME NEW h, NEW tops, WellFormed(h, tops), Bounded(h), NEW n \in DOMAIN h, h[n].height # 0,
         \A i \in 1 .. Len(h[n].edges) : Sequences(h, h[n].edges[i])
  PROVE  Sequences(h, n) /\ \E off : LaidOut(h, n, off)
<1> DEFINE k == Len(h[n].kv)
           E == [i \in 1 .. k + 1 |-> ElementsBelow(h, h[n].edges[i])]
           L == [i \in 1 .. k + 1 |-> LeafEdges(h, h[n].edges[i])]
           own == [i \in 1 .. k |-> <<Handle(n, i - 1)>>]
           none == [i \in 1 .. k |-> <<>>]
<1>1. k \in Nat /\ Len(h[n].edges) = k + 1
  BY NodeArity
<1>2. \A i \in 1 .. k + 1 : h[n].edges[i] \in DOMAIN h
  BY <1>1, WellFormedFacts
<1>3. ElementsBelow(h, n) = Between(own, E) /\ LeafEdges(h, n) = Between(none, L)
  <2>1. PICK e, l : \A m \in DOMAIN h :
           /\ ElementsBelow(h, m) = e[m] /\ e[m] = StepAt(h, PairsOfLeaf(h), InnerPairs(h), e, m)
           /\ LeafEdges(h, m) = l[m] /\ l[m] = StepAt(h, EdgesOfLeaf(h), NoPairs(h), l, m)
    BY OrderSteps
  <2>2. /\ ElementsBelow(h, n) = Between(own, [i \in 1 .. Len(h[n].edges) |-> e[h[n].edges[i]]])
        /\ LeafEdges(h, n) = Between(none, [i \in 1 .. Len(h[n].edges) |-> l[h[n].edges[i]]])
    BY <2>1 DEF StepAt, IsLeaf, InnerPairs, NoPairs, len
  <2>3. /\ [i \in 1 .. Len(h[n].edges) |-> e[h[n].edges[i]]] = E
        /\ [i \in 1 .. Len(h[n].edges) |-> l[h[n].edges[i]]] = L
    BY <1>1, <1>2, <2>1
  <2> QED BY <2>2, <2>3
<1>4. Parts(Spots(h), E, k + 1) /\ Len(E) = k + 1 /\ Parts(Spots(h), L, k + 1) /\ Len(L) = k + 1
  BY <1>1 DEF Parts, Sequences
<1>5. /\ Parts(Spots(h), own, k) /\ Len(own) = k /\ \A i \in 1 .. k : Len(own[i]) = 1 /\ own[i][1] = Handle(n, i - 1)
  <2>1. \A i \in 1 .. k : Handle(n, i - 1) \in Spots(h)
    BY <1>1 DEF Spots, Handle
  <2> QED BY <1>1, <2>1 DEF Parts
<1>6. Parts(Spots(h), none, k) /\ Len(none) = k /\ \A i \in 1 .. k : Len(none[i]) = 0
  BY <1>1 DEF Parts
<1>7. \A i \in 1 .. k + 1 : /\ E[i] = ElementsBelow(h, h[n].edges[i]) /\ L[i] = LeafEdges(h, h[n].edges[i])
                            /\ Len(E[i]) \in Nat /\ Len(L[i]) = Len(E[i]) + 1
  BY <1>1 DEF Sequences
<1> HIDE DEF k, E, L, own, none
<1>8. PICK off : Sums(E, k + 1, 1, off)
  BY <1>4, SumsExist
<1>9. Sums(L, k + 1, 0, off)
  <2>1. /\ off \in [0 .. k + 1 -> Nat] /\ off[0] = 0
        /\ \A j \in 1 .. k + 1 : off[j] = off[j - 1] + Len(E[j]) + 1
    BY <1>8 DEF Sums
  <2>2. ASSUME NEW j \in 1 .. k + 1 PROVE off[j] = off[j - 1] + Len(L[j]) + 0
    <3>1. off[j] = off[j - 1] + Len(E[j]) + 1 /\ Len(E[j]) \in Nat /\ Len(L[j]) = Len(E[j]) + 1
      BY <1>7, <2>1
    <3>2. off[j - 1] \in Nat
      BY <1>1, <2>1
    <3> QED BY <3>1, <3>2
  <2> QED BY <2>1, <2>2 DEF Sums
<1>10. Laid(Spots(h), own, 1, E, k, off, Between(own, E))
  BY <1>1, <1>4, <1>5, <1>8, BetweenLaid
<1>11. Laid(Spots(h), none, 0, L, k, off, Between(none, L))
  BY <1>1, <1>4, <1>6, <1>9, BetweenLaid
<1>12. /\ ElementsBelow(h, n) \in Seq(Spots(h)) /\ LeafEdges(h, n) \in Seq(Spots(h))
       /\ Len(ElementsBelow(h, n)) + 1 = off[k + 1] /\ Len(LeafEdges(h, n)) + 0 = off[k + 1]
  BY <1>3, <1>10, <1>11 DEF Laid
<1>13. Sequences(h, n)
  <2>1. \A s \in Seq(Spots(h)) : Len(s) \in Nat
    OBVIOUS
  <2>2. Len(ElementsBelow(h, n)) \in Nat /\ Len(LeafEdges(h, n)) \in Nat
    BY <1>12, <2>1
  <2> QED BY <1>12, <2>2 DEF Sequences
<1>14. LaidOut(h, n, off)
  <2>1. \A j \in 1 .. k + 1 : \A t \in 1 .. Len(E[j]) : ElementsBelow(h, n)[off[j - 1] + t] = E[j][t]
    BY <1>3, <1>10 DEF Laid
  <2>2. \A j \in 1 .. k + 1 : \A t \in 1 .. Len(L[j]) : LeafEdges(h, n)[off[j - 1] + t] = L[j][t]
    BY <1>3, <1>11 DEF Laid
  <2>3. \A j \in 1 .. k : ElementsBelow(h, n)[off[j]] = Handle(n, j - 1)
    BY <1>3, <1>5, <1>10 DEF Laid
  <2>4. /\ off \in [0 .. k + 1 -> Nat] /\ off[0] = 0
        /\ \A j \in 1 .. k + 1 : off[j] = off[j - 1] + Len(E[j]) + 1
    BY <1>8 DEF Sums
  <2>5. \A j \in 1 .. k + 1 :
           /\ off[j] = off[j - 1] + Len(ElementsBelow(h, h[n].edges[j])) + 1
           /\ \A t \in 1 .. Len(ElementsBelow(h, h[n].edges[j])) :
                ElementsBelow(h, n)[off[j - 1] + t] = ElementsBelow(h, h[n].edges[j])[t]
           /\ \A t \in 1 .. Len(LeafEdges(h, h[n].edges[j])) :
                LeafEdges(h, n)[off[j - 1] + t] = LeafEdges(h, h[n].edges[j])[t]
    <3> TAKE j \in 1 .. k + 1
    <3>1. /\ E[j] = ElementsBelow(h, h[n].edges[j]) /\ L[j] = LeafEdges(h, h[n].edges[j])
          /\ off[j] = off[j - 1] + Len(E[j]) + 1
      BY <1>7, <2>4
    <3>2. \A t \in 1 .. Len(E[j]) : ElementsBelow(h, n)[off[j - 1] + t] = E[j][t]
      BY <2>1
    <3>3. \A t \in 1 .. Len(L[j]) : LeafEdges(h, n)[off[j - 1] + t] = L[j][t]
      BY <2>2
    <3> QED BY <3>1, <3>2, <3>3
  <2> QED BY <1>12, <2>3, <2>4, <2>5 DEF LaidOut, k
<1> QED BY <1>13, <1>14

\* All nodes have them.
LEMMA AllSequences ==
  ASSUME NEW h, NEW tops, WellFormed(h, tops), Bounded(h)
  PROVE  \A n \in DOMAIN h : /\ Sequences(h, n)
                             /\ h[n].height # 0 => \E off : LaidOut(h, n, off)
<1> DEFINE T == {n \in DOMAIN h : ~Sequences(h, n)}
<1>1. T = {}
  <2>1. SUFFICES ASSUME T # {} PROVE FALSE
    OBVIOUS
  <2>2. T \subseteq DOMAIN h
    OBVIOUS
  <2> HIDE DEF T
  <2>3. PICK n \in T : \A i \in 1 .. Len(h[n].edges) : h[n].edges[i] \notin T
    BY <2>1, <2>2, LowestOf
  <2>4. n \in DOMAIN h /\ ~Sequences(h, n)
    BY <2>3 DEF T
  <2>5. \A i \in 1 .. Len(h[n].edges) : h[n].edges[i] \in DOMAIN h
    BY <2>4, WellFormedFacts
  <2>6. \A i \in 1 .. Len(h[n].edges) : Sequences(h, h[n].edges[i])
    BY <2>3, <2>5 DEF T
  <2> QED BY <2>4, <2>6, LeafSequences, InnerSequences
<1> TAKE n \in DOMAIN h
<1>2. \A m \in DOMAIN h : Sequences(h, m)
  BY <1>1
<1>3. \A i \in 1 .. Len(h[n].edges) : h[n].edges[i] \in DOMAIN h
  BY WellFormedFacts
<1> QED BY <1>2, <1>3, InnerSequences

-----------------------------------------------------------------------------
(* What one step of a walk does *)

\* Parent links stay in the heap and go up, and edges that are in the heap go down.  Unlike in a
\* well-formed heap, nodes below may be gone.
Stepped(h) ==
  /\ Bounded(h) /\ Roomy(h)
  /\ \A n \in DOMAIN h :
       /\ h[n].height \in Nat /\ Len(h[n].kv) \in Nat
       /\ h[n].parent # Nil => /\ h[n].parent \in DOMAIN h /\ h[n].parent_idx \in 0 .. CAPACITY
                               /\ h[h[n].parent].height > h[n].height
       /\ \A i \in 1 .. Len(h[n].kv) + 1 : h[n].height # 0 /\ h[n].edges[i] \in DOMAIN h =>
            h[h[n].edges[i]].height < h[n].height

LEMMA WellFormedStepped ==
  ASSUME NEW h, NEW tops, WellFormed(h, tops), Bounded(h), Roomy(h), Nil \notin DOMAIN h
  PROVE  Stepped(h)
<1>1. ASSUME NEW n \in DOMAIN h
      PROVE  h[n].parent # Nil => /\ h[n].parent \in DOMAIN h /\ h[n].parent_idx \in 0 .. CAPACITY
                                  /\ h[h[n].parent].height > h[n].height
  <2> SUFFICES ASSUME h[n].parent # Nil
               PROVE  /\ h[n].parent \in DOMAIN h /\ h[n].parent_idx \in 0 .. CAPACITY
                      /\ h[h[n].parent].height > h[n].height
    OBVIOUS
  <2>1. /\ EdgeOf(h, ascend(h, n)) /\ ascend(h, n).node \in DOMAIN h
        /\ h[ascend(h, n).node].height = h[n].height + 1
    BY Ascended
  <2>2. /\ h[n].parent \in DOMAIN h /\ h[n].parent_idx \in Nat
        /\ h[n].parent_idx <= Len(h[h[n].parent].kv) /\ h[h[n].parent].height = h[n].height + 1
    BY <2>1 DEF ascend, Handle, EdgeOf
  <2>3. Len(h[h[n].parent].kv) \in Nat /\ Len(h[h[n].parent].kv) <= CAPACITY /\ h[n].height \in Nat
    BY <2>2, NodeArity DEF Roomy
  <2> QED BY <2>2, <2>3, BAssumption DEF CAPACITY
<1>2. ASSUME NEW n \in DOMAIN h, NEW i \in 1 .. Len(h[n].kv) + 1, h[n].height # 0
      PROVE  h[h[n].edges[i]].height < h[n].height
  <2>1. i \in 1 .. Len(h[n].edges) /\ h[n].height \in Nat
    BY <1>2, NodeArity
  <2>2. h[h[n].edges[i]].height = h[n].height - 1
    BY <2>1, WellFormedFacts
  <2> QED BY <2>1, <2>2
<1>3. \A n \in DOMAIN h : h[n].height \in Nat /\ Len(h[n].kv) \in Nat
  BY NodeArity
<1> QED BY <1>1, <1>2, <1>3 DEF Stepped

\* The handles at which a climb ends, and where it goes from the others.
Stops(h, found) == {x \in Handles(h) : x \in found \/ h[x.node].parent = Nil}
Ups(h, found) == [x \in Handles(h) |-> IF x \in Stops(h, found) THEN x ELSE ascend(h, x.node)]

LEMMA ClimbFalls ==
  ASSUME NEW h, Stepped(h), NEW found
  PROVE  /\ \E mu : Falls(Handles(h), Stops(h, found), Ups(h, found), mu)
         /\ \A x \in Handles(h) \ Stops(h, found) : ascend(h, x.node) \in Handles(h)
<1>1. PICK top \in Nat : \A n \in DOMAIN h : h[n].height <= top
  BY DEF Bounded, Stepped
<1> DEFINE mu == [x \in Handles(h) |-> top - h[x.node].height]
<1>2. \A x \in Handles(h) : x.node \in DOMAIN h
  BY DEF Handles
<1>3. ASSUME NEW x \in Handles(h), x \notin Stops(h, found)
      PROVE  /\ ascend(h, x.node) \in Handles(h)
             /\ h[ascend(h, x.node).node].height > h[x.node].height
  <2>1. x.node \in DOMAIN h /\ h[x.node].parent # Nil
    BY <1>2, <1>3 DEF Stops
  <2>2. /\ h[x.node].parent \in DOMAIN h /\ h[x.node].parent_idx \in 0 .. CAPACITY
        /\ h[h[x.node].parent].height > h[x.node].height
    BY <2>1 DEF Stepped
  <2> QED BY <2>2 DEF ascend, Handle, Handles
<1>4. \A x \in Handles(h) : h[x.node].height \in Nat /\ h[x.node].height <= top
  BY <1>1, <1>2 DEF Stepped
<1>5. mu \in [Handles(h) -> Nat]
  BY <1>1, <1>4
<1>6. Ups(h, found) \in [Handles(h) -> Handles(h)]
  BY <1>3 DEF Ups
<1>7. ASSUME NEW x \in Handles(h) \ Stops(h, found) PROVE mu[Ups(h, found)[x]] < mu[x]
  <2> DEFINE y == ascend(h, x.node)
  <2>1. Ups(h, found)[x] = y /\ y \in Handles(h) /\ h[y.node].height > h[x.node].height
    BY <1>3 DEF Ups
  <2> HIDE DEF y
  <2>2. mu[x] = top - h[x.node].height /\ mu[y] = top - h[y.node].height
    BY <2>1
  <2> QED BY <1>1, <1>4, <2>1, <2>2
<1> HIDE DEF mu
<1>8. Falls(Handles(h), Stops(h, found), Ups(h, found), mu)
  BY <1>5, <1>6, <1>7 DEF Falls
<1> QED BY <1>3, <1>8

\* A walk that gathers something on its way.
Gathers(S, stop, next, acc, g) ==
  g = [x \in S |-> IF x \in stop THEN acc[x] ELSE acc[x] \cup g[next[x]]]

LEMMA GatherExists ==
  ASSUME NEW S, NEW stop, NEW next, NEW acc, NEW mu, Falls(S, stop, next, mu)
  PROVE  \E g : Gathers(S, stop, next, acc, g)
<1> DEFINE at(g, x) == IF x \in stop THEN acc[x] ELSE acc[x] \cup g[next[x]]
           Good(k, g) == \A x \in S : mu[x] < k => g[x] = at(g, x)
           T == {k \in Nat : ~ \E g : Good(k, g)}
<1>1. next \in [S -> S] /\ mu \in [S -> Nat] /\ \A x \in S \ stop : mu[next[x]] < mu[x]
  BY DEF Falls
<1>2. ASSUME NEW k \in Nat, NEW g, Good(k, g)
      PROVE  \E f : Good(k + 1, f)
  <2> DEFINE f == [x \in S |-> IF mu[x] < k THEN g[x] ELSE at(g, x)]
  <2> SUFFICES ASSUME NEW x \in S, mu[x] < k + 1
               PROVE  f[x] = at(f, x)
    OBVIOUS
  <2>1. f[x] = at(g, x)
    BY <1>2
  <2>2. CASE x \in stop
    BY <2>1, <2>2
  <2>3. CASE x \notin stop
    <3>1. next[x] \in S /\ mu[next[x]] < k
      BY <1>1, <2>3
    <3>2. f[next[x]] = g[next[x]]
      BY <3>1
    <3> QED BY <2>1, <2>3, <3>2
  <2> QED BY <2>2, <2>3
<1>3. T = {}
  <2>1. SUFFICES ASSUME T # {} PROVE FALSE
    OBVIOUS
  <2>2. T \subseteq Nat
    OBVIOUS
  <2> HIDE DEF T
  <2>3. PICK k \in T : \A x \in T : k <= x
    BY <2>1, <2>2, Least
  <2>4. k \in Nat /\ ~ \E g : Good(k, g)
    BY <2>3 DEF T
  <2>5. k # 0
    <3>1. Good(0, mu)
      BY <1>1
    <3> QED BY <2>4, <3>1
  <2>6. k - 1 \in Nat /\ k - 1 \notin T
    BY <2>3, <2>4, <2>5
  <2>7. PICK g : Good(k - 1, g)
    BY <2>6 DEF T
  <2>8. k - 1 + 1 = k
    BY <2>4
  <2> HIDE DEF Good
  <2> QED BY <1>2, <2>4, <2>6, <2>7, <2>8
<1> DEFINE some(k) == CHOOSE g : Good(k, g)
<1>4. \A k \in Nat : Good(k, some(k))
  <2> HIDE DEF Good
  <2> QED BY <1>3
<1> HIDE DEF some
\* two of them agree
<1>5. ASSUME NEW f, NEW j \in Nat, Good(j, f), NEW g, NEW k \in Nat, Good(k, g)
      PROVE  \A x \in S : mu[x] < j /\ mu[x] < k => f[x] = g[x]
  <2> DEFINE D == {mu[x] : x \in {y \in S : mu[y] < j /\ mu[y] < k /\ f[y] # g[y]}}
  <2>1. SUFFICES ASSUME D # {} PROVE FALSE
    OBVIOUS
  <2>2. D \subseteq Nat
    BY <1>1
  <2>3. PICK d \in D : \A x \in D : d <= x
    <3> HIDE DEF D
    <3> QED BY <2>1, <2>2, Least
  <2>4. PICK x \in S : d = mu[x] /\ mu[x] < j /\ mu[x] < k /\ f[x] # g[x]
    BY <2>3
  <2>5. f[x] = at(f, x) /\ g[x] = at(g, x)
    BY <1>5, <2>4
  <2>6. x \notin stop
    BY <2>4, <2>5
  <2>7. next[x] \in S /\ mu[next[x]] < mu[x] /\ mu[next[x]] \in Nat /\ mu[x] \in Nat
    BY <1>1, <2>6
  <2>8. mu[next[x]] \notin D
    BY <2>3, <2>4, <2>7
  <2>9. mu[next[x]] < j /\ mu[next[x]] < k
    BY <2>4, <2>7
  <2>10. f[next[x]] = g[next[x]]
    BY <2>7, <2>8, <2>9
  <2> QED BY <2>4, <2>5, <2>6, <2>10
<1> DEFINE r == [x \in S |-> some(mu[x] + 1)[x]]
<1>6. ASSUME NEW x \in S PROVE r[x] = at(r, x)
  <2> DEFINE k == mu[x] + 1
  <2>1. mu[x] \in Nat /\ k \in Nat /\ mu[x] < k
    BY <1>1
  <2>2. some(k)[x] = at(some(k), x)
    BY <1>4, <2>1
  <2>3. CASE x \in stop
    BY <2>2, <2>3
  <2>4. CASE x \notin stop
    <3> DEFINE y == next[x]
    <3>1. y \in S /\ mu[y] < mu[x] /\ mu[y] \in Nat /\ mu[y] + 1 \in Nat /\ mu[y] < mu[y] + 1 /\ mu[y] < k
      BY <1>1, <2>1, <2>4
    <3>2. Good(mu[y] + 1, some(mu[y] + 1)) /\ Good(k, some(k))
      BY <1>4, <2>1, <3>1
    <3> HIDE DEF Good, y, k
    <3>3. some(mu[y] + 1)[y] = some(k)[y]
      BY <1>5, <2>1, <3>1, <3>2
    <3> QED BY <2>2, <2>4, <3>1, <3>3 DEF y, k
  <2> QED BY <2>3, <2>4
<1>7. Gathers(S, stop, next, acc, r)
  BY <1>6 DEF Gathers
<1> QED BY <1>7

LEMMA NextKvStep ==
  ASSUME NEW h, Stepped(h), NEW e \in Handles(h)
  PROVE  next_kv(h, e) = IF e.idx < len(h, e.node) THEN e
                         ELSE IF h[e.node].parent # Nil THEN next_kv(h, ascend(h, e.node)) ELSE NoHandle
<1> DEFINE S == Handles(h)
           found == {x \in S : x.idx < len(h, x.node)}
           stop == Stops(h, found)
           next == Ups(h, found)
           base == [x \in S |-> IF x.idx < len(h, x.node) THEN x ELSE NoHandle]
           at(f, x) == IF x.idx < len(h, x.node) THEN x
                       ELSE IF h[x.node].parent # Nil THEN f[ascend(h, x.node)] ELSE NoHandle
           Eq(f) == f = [x \in S |-> at(f, x)]
           climb == CHOOSE f : Eq(f)
<1>1. \E mu : Falls(S, stop, next, mu)
  <2> HIDE DEF found
  <2> QED BY ClimbFalls
<1>2. PICK f : IsWalk(S, stop, next, base, f)
  BY <1>1, WalkExists
<1>3. ASSUME NEW x \in S PROVE f[x] = at(f, x)
  <2>1. f[x] = IF x \in stop THEN base[x] ELSE f[next[x]]
    BY <1>2 DEF IsWalk
  <2>2. x \in stop <=> x.idx < len(h, x.node) \/ h[x.node].parent = Nil
    BY DEF Stops
  <2>3. x \notin stop => next[x] = ascend(h, x.node)
    BY DEF Ups
  <2> QED BY <2>1, <2>2, <2>3
<1>4. Eq([x \in S |-> f[x]])
  <2> DEFINE g == [x \in S |-> f[x]]
  <2>1. ASSUME NEW x \in S PROVE g[x] = at(g, x)
    <3>1. ~(x.idx < len(h, x.node)) /\ h[x.node].parent # Nil => ascend(h, x.node) \in S
      <4>1. x \in S \ stop <=> ~(x.idx < len(h, x.node)) /\ h[x.node].parent # Nil
        BY DEF Stops
      <4> HIDE DEF found
      <4> QED BY <4>1, ClimbFalls
    <3> QED BY <1>3, <3>1
  <2> QED BY <2>1
<1>5. \A x : next_kv(h, x) = climb[x]
  BY DEF next_kv
<1> HIDE DEF Eq
<1>6. Eq(climb)
  BY <1>4
<1> HIDE DEF climb
<1>7. climb[e] = at(climb, e)
  BY <1>6 DEF Eq
<1> QED BY <1>5, <1>7

LEMMA NextBackKvStep ==
  ASSUME NEW h, Stepped(h), NEW e \in Handles(h)
  PROVE  next_back_kv(h, e) = IF e.idx > 0 THEN Handle(e.node, e.idx - 1)
                              ELSE IF h[e.node].parent # Nil THEN next_back_kv(h, ascend(h, e.node))
                              ELSE NoHandle
<1> DEFINE S == Handles(h)
           found == {x \in S : x.idx > 0}
           stop == Stops(h, found)
           next == Ups(h, found)
           base == [x \in S |-> IF x.idx > 0 THEN Handle(x.node, x.idx - 1) ELSE NoHandle]
           at(f, x) == IF x.idx > 0 THEN Handle(x.node, x.idx - 1)
                       ELSE IF h[x.node].parent # Nil THEN f[ascend(h, x.node)] ELSE NoHandle
           Eq(f) == f = [x \in S |-> at(f, x)]
           climb == CHOOSE f : Eq(f)
<1>1. \E mu : Falls(S, stop, next, mu)
  <2> HIDE DEF found
  <2> QED BY ClimbFalls
<1>2. PICK f : IsWalk(S, stop, next, base, f)
  BY <1>1, WalkExists
<1>3. ASSUME NEW x \in S PROVE f[x] = at(f, x)
  <2>1. f[x] = IF x \in stop THEN base[x] ELSE f[next[x]]
    BY <1>2 DEF IsWalk
  <2>2. x \in stop <=> x.idx > 0 \/ h[x.node].parent = Nil
    BY DEF Stops
  <2>3. x \notin stop => next[x] = ascend(h, x.node)
    BY DEF Ups
  <2> QED BY <2>1, <2>2, <2>3
<1>4. Eq([x \in S |-> f[x]])
  <2> DEFINE g == [x \in S |-> f[x]]
  <2>1. ASSUME NEW x \in S PROVE g[x] = at(g, x)
    <3>1. ~(x.idx > 0) /\ h[x.node].parent # Nil => ascend(h, x.node) \in S
      <4>1. x \in S \ stop <=> ~(x.idx > 0) /\ h[x.node].parent # Nil
        BY DEF Stops
      <4> HIDE DEF found
      <4> QED BY <4>1, ClimbFalls
    <3> QED BY <1>3, <3>1
  <2> QED BY <2>1
<1>5. \A x : next_back_kv(h, x) = climb[x]
  BY DEF next_back_kv
<1> HIDE DEF Eq
<1>6. Eq(climb)
  BY <1>4
<1> HIDE DEF climb
<1>7. climb[e] = at(climb, e)
  BY <1>6 DEF Eq
<1> QED BY <1>5, <1>7

LEMMA LeftBehindStep ==
  ASSUME NEW h, Stepped(h), NEW e \in Handles(h)
  PROVE  LeftBehind(h, e) = IF e.idx < len(h, e.node) THEN {}
                            ELSE {e.node} \cup (IF h[e.node].parent = Nil THEN {}
                                                ELSE LeftBehind(h, ascend(h, e.node)))
<1> DEFINE S == Handles(h)
           found == {x \in S : x.idx < len(h, x.node)}
           stop == Stops(h, found)
           next == Ups(h, found)
           acc == [x \in S |-> IF x.idx < len(h, x.node) THEN {} ELSE {x.node}]
           at(f, x) == IF x.idx < len(h, x.node) THEN {}
                       ELSE {x.node} \cup (IF h[x.node].parent = Nil THEN {} ELSE f[ascend(h, x.node)])
           Eq(f) == f = [x \in S |-> at(f, x)]
           climb == CHOOSE f : Eq(f)
<1>1. \E mu : Falls(S, stop, next, mu)
  <2> HIDE DEF found
  <2> QED BY ClimbFalls
<1>2. PICK f : Gathers(S, stop, next, acc, f)
  BY <1>1, GatherExists
<1>3. ASSUME NEW x \in S PROVE f[x] = at(f, x)
  <2>1. f[x] = IF x \in stop THEN acc[x] ELSE acc[x] \cup f[next[x]]
    BY <1>2 DEF Gathers
  <2>2. x \in stop <=> x.idx < len(h, x.node) \/ h[x.node].parent = Nil
    BY DEF Stops
  <2>3. x \notin stop => next[x] = ascend(h, x.node)
    BY DEF Ups
  <2> QED BY <2>1, <2>2, <2>3
<1>4. Eq([x \in S |-> f[x]])
  <2> DEFINE g == [x \in S |-> f[x]]
  <2>1. ASSUME NEW x \in S PROVE g[x] = at(g, x)
    <3>1. ~(x.idx < len(h, x.node)) /\ h[x.node].parent # Nil => ascend(h, x.node) \in S
      <4>1. x \in S \ stop <=> ~(x.idx < len(h, x.node)) /\ h[x.node].parent # Nil
        BY DEF Stops
      <4> HIDE DEF found
      <4> QED BY <4>1, ClimbFalls
    <3> QED BY <1>3, <3>1
  <2> QED BY <2>1
<1>5. \A x : LeftBehind(h, x) = climb[x]
  BY DEF LeftBehind
<1> HIDE DEF Eq
<1>6. Eq(climb)
  BY <1>4
<1> HIDE DEF climb
<1>7. climb[e] = at(climb, e)
  BY <1>6 DEF Eq
<1> QED BY <1>5, <1>7

LEMMA LeftBehindBackStep ==
  ASSUME NEW h, Stepped(h), NEW e \in Handles(h)
  PROVE  LeftBehindBack(h, e) = IF e.idx > 0 THEN {}
                                ELSE {e.node} \cup (IF h[e.node].parent = Nil THEN {}
                                                    ELSE LeftBehindBack(h, ascend(h, e.node)))
<1> DEFINE S == Handles(h)
           found == {x \in S : x.idx > 0}
           stop == Stops(h, found)
           next == Ups(h, found)
           acc == [x \in S |-> IF x.idx > 0 THEN {} ELSE {x.node}]
           at(f, x) == IF x.idx > 0 THEN {}
                       ELSE {x.node} \cup (IF h[x.node].parent = Nil THEN {} ELSE f[ascend(h, x.node)])
           Eq(f) == f = [x \in S |-> at(f, x)]
           climb == CHOOSE f : Eq(f)
<1>1. \E mu : Falls(S, stop, next, mu)
  <2> HIDE DEF found
  <2> QED BY ClimbFalls
<1>2. PICK f : Gathers(S, stop, next, acc, f)
  BY <1>1, GatherExists
<1>3. ASSUME NEW x \in S PROVE f[x] = at(f, x)
  <2>1. f[x] = IF x \in stop THEN acc[x] ELSE acc[x] \cup f[next[x]]
    BY <1>2 DEF Gathers
  <2>2. x \in stop <=> x.idx > 0 \/ h[x.node].parent = Nil
    BY DEF Stops
  <2>3. x \notin stop => next[x] = ascend(h, x.node)
    BY DEF Ups
  <2> QED BY <2>1, <2>2, <2>3
<1>4. Eq([x \in S |-> f[x]])
  <2> DEFINE g == [x \in S |-> f[x]]
  <2>1. ASSUME NEW x \in S PROVE g[x] = at(g, x)
    <3>1. ~(x.idx > 0) /\ h[x.node].parent # Nil => ascend(h, x.node) \in S
      <4>1. x \in S \ stop <=> ~(x.idx > 0) /\ h[x.node].parent # Nil
        BY DEF Stops
      <4> HIDE DEF found
      <4> QED BY <4>1, ClimbFalls
    <3> QED BY <1>3, <3>1
  <2> QED BY <2>1
<1>5. \A x : LeftBehindBack(h, x) = climb[x]
  BY DEF LeftBehindBack
<1> HIDE DEF Eq
<1>6. Eq(climb)
  BY <1>4
<1> HIDE DEF climb
<1>7. climb[e] = at(climb, e)
  BY <1>6 DEF Eq
<1> QED BY <1>5, <1>7

\* The nodes without a parent, and the way up from the others.
LEMMA PileStep ==
  ASSUME NEW h, Stepped(h), NEW n \in DOMAIN h
  PROVE  Pile(h, n) = {n} \cup (IF h[n].parent = Nil THEN {} ELSE Pile(h, h[n].parent))
<1> DEFINE S == DOMAIN h
           stop == {m \in S : h[m].parent = Nil}
           next == [m \in S |-> IF h[m].parent = Nil THEN m ELSE h[m].parent]
           acc == [m \in S |-> {m}]
           at(f, m) == {m} \cup (IF h[m].parent = Nil THEN {} ELSE f[h[m].parent])
           Eq(f) == f = [m \in S |-> at(f, m)]
           up == CHOOSE f : Eq(f)
<1>1. PICK top \in Nat : \A m \in DOMAIN h : h[m].height <= top
  BY DEF Bounded, Stepped
<1> DEFINE mu == [m \in S |-> top - h[m].height]
<1>2. Falls(S, stop, next, mu)
  <2>1. next \in [S -> S]
    BY DEF Stepped
  <2>2. mu \in [S -> Nat]
    BY <1>1 DEF Stepped
  <2>3. ASSUME NEW m \in S \ stop PROVE mu[next[m]] < mu[m]
    <3>1. h[m].parent \in S /\ h[h[m].parent].height > h[m].height /\ next[m] = h[m].parent
      BY DEF Stepped
    <3>2. h[h[m].parent].height \in Nat /\ h[m].height \in Nat
      BY <3>1 DEF Stepped
    <3> QED BY <1>1, <3>1, <3>2
  <2> HIDE DEF S, stop, next, mu
  <2> QED BY <2>1, <2>2, <2>3 DEF Falls
<1>3. PICK f : Gathers(S, stop, next, acc, f)
  BY <1>2, GatherExists
<1>4. \A m \in S : f[m] = at(f, m)
  BY <1>3 DEF Gathers
<1>5. Eq([m \in S |-> f[m]])
  <2> DEFINE g == [m \in S |-> f[m]]
  <2>1. ASSUME NEW m \in S PROVE g[m] = at(g, m)
    <3>1. h[m].parent # Nil => h[m].parent \in S
      BY DEF Stepped
    <3> QED BY <1>4, <3>1
  <2> QED BY <2>1
<1>6. \A m : Pile(h, m) = up[m]
  BY DEF Pile
<1> HIDE DEF Eq
<1>7. Eq(up)
  BY <1>5
<1> HIDE DEF up
<1>8. up[n] = at(up, n)
  BY <1>7 DEF Eq
<1> QED BY <1>6, <1>8

LEMMA FirstLeafStep ==
  ASSUME NEW h, Stepped(h), NEW n \in DOMAIN h
  PROVE  first_leaf_edge(h, n) = IF IsLeaf(h, n) THEN Handle(n, 0)
                                 ELSE IF descend(h, n, 0) \in DOMAIN h
                                 THEN first_leaf_edge(h, descend(h, n, 0)) ELSE NoHandle
<1> DEFINE S == DOMAIN h
           stop == {m \in S : IsLeaf(h, m) \/ descend(h, m, 0) \notin S}
           next == [m \in S |-> IF m \in stop THEN m ELSE descend(h, m, 0)]
           base == [m \in S |-> IF IsLeaf(h, m) THEN Handle(m, 0) ELSE NoHandle]
           mu == [m \in S |-> h[m].height]
           at(f, m) == IF IsLeaf(h, m) THEN Handle(m, 0)
                       ELSE IF descend(h, m, 0) \in DOMAIN h THEN f[descend(h, m, 0)] ELSE NoHandle
           Eq(f) == f = [m \in S |-> at(f, m)]
           first == CHOOSE f : Eq(f)
<1>1. Falls(S, stop, next, mu)
  <2>1. next \in [S -> S] /\ mu \in [S -> Nat]
    BY DEF Stepped
  <2>2. ASSUME NEW m \in S \ stop PROVE mu[next[m]] < mu[m]
    <3>1. 1 \in 1 .. Len(h[m].kv) + 1 /\ h[m].height # 0 /\ descend(h, m, 0) = h[m].edges[1]
      BY DEF Stepped, IsLeaf, descend
    <3>2. h[h[m].edges[1]].height < h[m].height
      BY <3>1 DEF Stepped
    <3> QED BY <3>1, <3>2
  <2> HIDE DEF S, stop, next, mu
  <2> QED BY <2>1, <2>2 DEF Falls
<1>2. PICK f : IsWalk(S, stop, next, base, f)
  BY <1>1, WalkExists
<1>3. ASSUME NEW m \in S PROVE f[m] = at(f, m)
  <2>1. f[m] = IF m \in stop THEN base[m] ELSE f[next[m]]
    BY <1>2 DEF IsWalk
  <2> QED BY <2>1
<1>4. Eq([m \in S |-> f[m]])
  BY <1>3
<1>5. \A m : first_leaf_edge(h, m) = first[m]
  BY DEF first_leaf_edge
<1> HIDE DEF Eq
<1>6. Eq(first)
  BY <1>4
<1> HIDE DEF first
<1>7. first[n] = at(first, n)
  BY <1>6 DEF Eq
<1> QED BY <1>5, <1>7

LEMMA LastLeafStep ==
  ASSUME NEW h, Stepped(h), NEW n \in DOMAIN h
  PROVE  last_leaf_edge(h, n) = IF IsLeaf(h, n) THEN Handle(n, len(h, n))
                                ELSE IF descend(h, n, len(h, n)) \in DOMAIN h
                                THEN last_leaf_edge(h, descend(h, n, len(h, n))) ELSE NoHandle
<1> DEFINE S == DOMAIN h
           stop == {m \in S : IsLeaf(h, m) \/ descend(h, m, len(h, m)) \notin S}
           next == [m \in S |-> IF m \in stop THEN m ELSE descend(h, m, len(h, m))]
           base == [m \in S |-> IF IsLeaf(h, m) THEN Handle(m, len(h, m)) ELSE NoHandle]
           mu == [m \in S |-> h[m].height]
           at(f, m) == IF IsLeaf(h, m) THEN Handle(m, len(h, m))
                       ELSE IF descend(h, m, len(h, m)) \in DOMAIN h
                       THEN f[descend(h, m, len(h, m))] ELSE NoHandle
           Eq(f) == f = [m \in S |-> at(f, m)]
           last == CHOOSE f : Eq(f)
<1>1. Falls(S, stop, next, mu)
  <2>1. next \in [S -> S] /\ mu \in [S -> Nat]
    BY DEF Stepped
  <2>2. ASSUME NEW m \in S \ stop PROVE mu[next[m]] < mu[m]
    <3>1. Len(h[m].kv) \in Nat
      BY DEF Stepped
    <3>2. /\ Len(h[m].kv) + 1 \in 1 .. Len(h[m].kv) + 1 /\ h[m].height # 0
          /\ descend(h, m, len(h, m)) = h[m].edges[Len(h[m].kv) + 1]
      BY <3>1 DEF IsLeaf, descend, len
    <3>3. h[h[m].edges[Len(h[m].kv) + 1]].height < h[m].height
      BY <3>2 DEF Stepped
    <3> QED BY <3>2, <3>3
  <2> HIDE DEF S, stop, next, mu
  <2> QED BY <2>1, <2>2 DEF Falls
<1>2. PICK f : IsWalk(S, stop, next, base, f)
  BY <1>1, WalkExists
<1>3. ASSUME NEW m \in S PROVE f[m] = at(f, m)
  <2>1. f[m] = IF m \in stop THEN base[m] ELSE f[next[m]]
    BY <1>2 DEF IsWalk
  <2> QED BY <2>1
<1>4. Eq([m \in S |-> f[m]])
  BY <1>3
<1>5. \A m : last_leaf_edge(h, m) = last[m]
  BY DEF last_leaf_edge
<1> HIDE DEF Eq
<1>6. Eq(last)
  BY <1>4
<1> HIDE DEF last
<1>7. last[n] = at(last, n)
  BY <1>6 DEF Eq
<1> QED BY <1>5, <1>7

-----------------------------------------------------------------------------
(* The walks follow the order *)

\* A set of separate trees whose nodes fit their arrays.
Grove(h, tops) == WellFormed(h, tops) /\ Bounded(h) /\ Roomy(h)

LEMMA GroveStepped ==
  ASSUME NEW h, NEW tops, Grove(h, tops)
  PROVE  /\ WellFormed(h, tops) /\ Bounded(h) /\ Roomy(h) /\ Stepped(h) /\ Nil \notin DOMAIN h
         /\ \A n \in DOMAIN h : /\ Sequences(h, n) /\ h[n].height \in Nat
                                /\ Len(h[n].kv) \in Nat /\ Len(h[n].kv) <= CAPACITY
                                /\ h[n].height # 0 => \E off : LaidOut(h, n, off)
<1>1. WellFormed(h, tops) /\ Bounded(h) /\ Roomy(h)
  BY DEF Grove
<1>2. Nil \notin DOMAIN h
  BY <1>1, NilAssumption DEF WellFormed, HeapType
<1> QED BY <1>1, <1>2, WellFormedStepped, AllSequences, NodeArity DEF Roomy

\* The children of an internal node.
LEMMA Children ==
  ASSUME NEW h, NEW tops, Grove(h, tops), NEW n \in DOMAIN h, h[n].height # 0,
         NEW j \in 1 .. Len(h[n].kv) + 1
  PROVE  /\ h[n].edges[j] \in DOMAIN h /\ h[n].edges[j] # Nil
         /\ h[h[n].edges[j]].parent = n /\ h[h[n].edges[j]].parent_idx = j - 1
         /\ ascend(h, h[n].edges[j]) = Handle(n, j - 1)
         /\ descend(h, n, j - 1) = h[n].edges[j]
         /\ Len(ElementsBelow(h, h[n].edges[j])) \in Nat
         /\ Len(LeafEdges(h, h[n].edges[j])) = Len(ElementsBelow(h, h[n].edges[j])) + 1
<1>1. WellFormed(h, tops) /\ Nil \notin DOMAIN h
  BY GroveStepped
<1>2. j \in 1 .. Len(h[n].edges)
  BY <1>1, NodeArity
<1>3. /\ h[n].edges[j] \in DOMAIN h /\ h[h[n].edges[j]].parent = n
      /\ h[h[n].edges[j]].parent_idx = j - 1
  BY <1>1, <1>2, WellFormedFacts
<1>4. Sequences(h, h[n].edges[j])
  BY <1>3, GroveStepped
<1>5. j - 1 + 1 = j
  OBVIOUS
<1> QED BY <1>1, <1>3, <1>4, <1>5 DEF ascend, descend, Sequences

\* Where an item of an internal node comes from.
Stairs(k, off, w) ==
  /\ off \in [0 .. k + 1 -> Nat] /\ off[0] = 0
  /\ \A j \in 1 .. k + 1 : w[j] \in Nat /\ off[j] = off[j - 1] + w[j] + 1

\* i lies on one of the stairs.
OnStair(k, off, w, i) == \E j \in 1 .. k + 1 : \E t \in 1 .. w[j] + 1 : i = off[j - 1] + t

LEMMA Locate ==
  ASSUME NEW k \in Nat, NEW off, NEW w, Stairs(k, off, w), NEW i \in 1 .. off[k + 1]
  PROVE  OnStair(k, off, w, i)
<1> DEFINE T == {j \in Nat : j <= k + 1 /\ i <= off[j]}
<1> USE DEF Stairs
<1>1. off[k + 1] \in Nat
  OBVIOUS
<1>2. k + 1 \in T
  BY <1>1
<1>3. T \subseteq Nat /\ T # {}
  BY <1>2
<1> HIDE DEF T
<1>4. PICK j \in T : \A x \in T : j <= x
  BY <1>3, Least
<1>5. j \in Nat /\ j <= k + 1 /\ i <= off[j]
  BY <1>4 DEF T
<1>6. j # 0
  BY <1>5
<1>7. j - 1 \in Nat /\ j - 1 <= k + 1 /\ j - 1 \notin T /\ j \in 1 .. k + 1 /\ j - 1 \in 0 .. k + 1
  BY <1>4, <1>5, <1>6
<1>8. ~(i <= off[j - 1])
  BY <1>7 DEF T
<1>9. off[j - 1] \in Nat /\ w[j] \in Nat /\ off[j] = off[j - 1] + w[j] + 1
  <2>1. \A x \in 0 .. k + 1 : off[x] \in Nat
    OBVIOUS
  <2>2. \A x \in 1 .. k + 1 : w[x] \in Nat /\ off[x] = off[x - 1] + w[x] + 1
    OBVIOUS
  <2>3. w[j] \in Nat /\ off[j] = off[j - 1] + w[j] + 1
    BY <1>7, <2>2
  <2> DEFINE y == j - 1
  <2>4. y \in 0 .. k + 1
    BY <1>7
  <2> HIDE DEF y
  <2>5. off[y] \in Nat
    BY <2>1, <2>4
  <2> QED BY <2>3, <2>5 DEF y
<1>10. i - off[j - 1] \in 1 .. w[j] + 1 /\ i = off[j - 1] + (i - off[j - 1])
  <2> DEFINE x == off[j - 1]
             y == off[j]
             v == w[j]
  <2>1. i \in Nat /\ i <= y
    BY <1>1, <1>5
  <2>2. ~(i <= x) /\ x \in Nat /\ v \in Nat /\ y = x + v + 1
    BY <1>8, <1>9
  <2> HIDE DEF x, y, v
  <2>3. i - x \in 1 .. v + 1 /\ i = x + (i - x)
    BY <2>1, <2>2
  <2> QED BY <2>3 DEF x, v
<1> QED BY <1>7, <1>10 DEF OnStair

\* The walks go from item to item of the sequences of n.
Linked(h, E, L, i) ==
  /\ next_kv(h, L[i]) = E[i] /\ next_leaf_edge(h, E[i]) = L[i + 1]
  /\ next_back_kv(h, L[i + 1]) = E[i] /\ next_back_leaf_edge(h, E[i]) = L[i]

Walked(h, n) ==
  LET E == ElementsBelow(h, n)
      L == LeafEdges(h, n)
  IN  /\ \A i \in 1 .. Len(E) : PairIn(h, E[i]) /\ Linked(h, E, L, i)
      /\ \A i \in 1 .. Len(E) + 1 : LeafEdge(h, L[i])
      /\ L[1] = first_leaf_edge(h, n) /\ L[Len(E) + 1] = last_leaf_edge(h, n)
      /\ next_kv(h, L[Len(E) + 1])
           = IF h[n].parent = Nil THEN NoHandle ELSE next_kv(h, ascend(h, n))
      /\ next_back_kv(h, L[1])
           = IF h[n].parent = Nil THEN NoHandle ELSE next_back_kv(h, ascend(h, n))

LEMMA LeafWalked ==
  ASSUME NEW h, NEW tops, Grove(h, tops), NEW n \in DOMAIN h, h[n].height = 0
  PROVE  Walked(h, n)
<1> DEFINE E == ElementsBelow(h, n)
           L == LeafEdges(h, n)
           k == Len(h[n].kv)
<1>1. k \in Nat /\ k <= CAPACITY /\ IsLeaf(h, n) /\ Stepped(h)
  BY GroveStepped DEF IsLeaf
<1>2. /\ Len(E) = k /\ \A i \in 1 .. k : E[i] = Handle(n, i - 1)
      /\ \A i \in 1 .. k + 1 : L[i] = Handle(n, i - 1)
  BY GroveStepped, LeafSequences
<1> HIDE DEF E, L
<1>3. \A i \in 0 .. k : /\ Handle(n, i) \in Handles(h) /\ Handle(n, i) \in [node : DOMAIN h, idx : Nat]
                        /\ Handle(n, i).node = n /\ Handle(n, i).idx = i
  BY <1>1, BAssumption DEF Handle, Handles, CAPACITY
<1>4. len(h, n) = k
  BY DEF len
<1> HIDE DEF k
<1>5. ASSUME NEW i \in 1 .. k PROVE PairIn(h, E[i]) /\ Linked(h, E, L, i)
  <2>1. i - 1 \in 0 .. k /\ i \in 0 .. k /\ i + 1 \in 1 .. k + 1 /\ i \in 1 .. k + 1 /\ i + 1 - 1 = i
        /\ i - 1 < k /\ i > 0 /\ i - 1 + 1 = i
    BY <1>1
  <2>2. E[i] = Handle(n, i - 1) /\ L[i] = Handle(n, i - 1) /\ L[i + 1] = Handle(n, i)
    BY <1>2, <2>1
  <2>3. next_kv(h, Handle(n, i - 1)) = Handle(n, i - 1)
    BY <1>1, <1>3, <1>4, <2>1, NextKvStep
  <2>4. next_back_kv(h, Handle(n, i)) = Handle(n, i - 1)
    BY <1>1, <1>3, <2>1, NextBackKvStep
  <2>5. /\ next_leaf_edge(h, Handle(n, i - 1)) = Handle(n, i)
        /\ next_back_leaf_edge(h, Handle(n, i - 1)) = Handle(n, i - 1)
    BY <1>1, <1>3, <2>1 DEF next_leaf_edge, next_back_leaf_edge
  <2>6. PairIn(h, Handle(n, i - 1))
    BY <1>3, <2>1 DEF PairIn, k
  <2> QED BY <2>2, <2>3, <2>4, <2>5, <2>6 DEF Linked
<1>6. ASSUME NEW i \in 1 .. k + 1 PROVE LeafEdge(h, L[i])
  <2>1. i - 1 \in 0 .. k /\ i - 1 <= k
    BY <1>1
  <2> QED BY <1>2, <1>3, <2>1 DEF LeafEdge, k
<1>7. 1 \in 1 .. k + 1 /\ k + 1 \in 1 .. k + 1 /\ 1 - 1 = 0 /\ k + 1 - 1 = k /\ 0 \in 0 .. k /\ k \in 0 .. k
      /\ ~(k < k) /\ ~(0 > 0)
  BY <1>1
<1>8. L[1] = Handle(n, 0) /\ L[k + 1] = Handle(n, k)
  BY <1>2, <1>7
<1>9. L[1] = first_leaf_edge(h, n) /\ L[k + 1] = last_leaf_edge(h, n)
  BY <1>1, <1>4, <1>8, FirstLeafStep, LastLeafStep
<1>10. next_kv(h, L[k + 1]) = IF h[n].parent = Nil THEN NoHandle ELSE next_kv(h, ascend(h, n))
  BY <1>1, <1>3, <1>4, <1>7, <1>8, NextKvStep
<1>11. next_back_kv(h, L[1]) = IF h[n].parent = Nil THEN NoHandle ELSE next_back_kv(h, ascend(h, n))
  BY <1>1, <1>3, <1>7, <1>8, NextBackKvStep
<1> QED BY <1>2, <1>5, <1>6, <1>9, <1>10, <1>11 DEF Walked, E, L

LEMMA InnerWalked ==
  ASSUME NEW h, NEW tops, Grove(h, tops), NEW n \in DOMAIN h, h[n].height # 0,
         \A j \in 1 .. Len(h[n].kv) + 1 : Walked(h, h[n].edges[j])
  PROVE  Walked(h, n)
<1> DEFINE E == ElementsBelow(h, n)
           L == LeafEdges(h, n)
           k == Len(h[n].kv)
           c == [j \in 1 .. k + 1 |-> h[n].edges[j]]
           EC == [j \in 1 .. k + 1 |-> ElementsBelow(h, c[j])]
           LC == [j \in 1 .. k + 1 |-> LeafEdges(h, c[j])]
           w == [j \in 1 .. k + 1 |-> Len(EC[j])]
<1>1. /\ k \in Nat /\ k <= CAPACITY /\ ~IsLeaf(h, n) /\ Stepped(h) /\ Nil \notin DOMAIN h
      /\ n # Nil /\ Len(E) \in Nat /\ len(h, n) = k
  BY GroveStepped DEF IsLeaf, Sequences, len
<1>2. PICK off : LaidOut(h, n, off)
  BY GroveStepped
<1>3. \A j \in 1 .. k + 1 : /\ c[j] = h[n].edges[j] /\ c[j] \in DOMAIN h
                            /\ h[c[j]].parent = n /\ ascend(h, c[j]) = Handle(n, j - 1)
                            /\ descend(h, n, j - 1) = c[j] /\ w[j] \in Nat
  BY Children
<1>4. /\ off \in [0 .. k + 1 -> Nat] /\ off[0] = 0 /\ Len(E) + 1 = off[k + 1]
      /\ \A j \in 1 .. k + 1 : off[j] = off[j - 1] + w[j] + 1
      /\ \A j \in 1 .. k + 1 : \A t \in 1 .. w[j] : E[off[j - 1] + t] = EC[j][t]
      /\ \A j \in 1 .. k + 1 : \A t \in 1 .. w[j] + 1 : L[off[j - 1] + t] = LC[j][t]
      /\ \A j \in 1 .. k : E[off[j]] = Handle(n, j - 1)
  <2>1. \A j \in 1 .. k + 1 : /\ EC[j] = ElementsBelow(h, h[n].edges[j]) /\ LC[j] = LeafEdges(h, h[n].edges[j])
                              /\ w[j] = Len(ElementsBelow(h, h[n].edges[j]))
                              /\ w[j] + 1 = Len(LeafEdges(h, h[n].edges[j]))
    BY Children
  <2> HIDE DEF EC, LC, w, c
  <2>2. off \in [0 .. k + 1 -> Nat] /\ off[0] = 0 /\ Len(E) + 1 = off[k + 1]
    BY <1>2 DEF LaidOut
  <2>3. ASSUME NEW j \in 1 .. k
        PROVE  E[off[j]] = Handle(n, j - 1)
    BY <1>2 DEF LaidOut
  <2>4. ASSUME NEW j \in 1 .. k + 1
        PROVE  /\ off[j] = off[j - 1] + w[j] + 1
               /\ \A t \in 1 .. w[j] : E[off[j - 1] + t] = EC[j][t]
               /\ \A t \in 1 .. w[j] + 1 : L[off[j - 1] + t] = LC[j][t]
    <3> DEFINE x == h[n].edges[j]
               p == off[j - 1]
    <3>1. /\ off[j] = p + Len(ElementsBelow(h, x)) + 1
          /\ \A t \in 1 .. Len(ElementsBelow(h, x)) : E[p + t] = ElementsBelow(h, x)[t]
          /\ \A t \in 1 .. Len(LeafEdges(h, x)) : L[p + t] = LeafEdges(h, x)[t]
      BY <1>2 DEF LaidOut
    <3>2. /\ EC[j] = ElementsBelow(h, x) /\ LC[j] = LeafEdges(h, x)
          /\ w[j] = Len(ElementsBelow(h, x)) /\ w[j] + 1 = Len(LeafEdges(h, x))
      BY <2>1
    <3> HIDE DEF x, p, E, L
    <3>3. /\ off[j] = p + w[j] + 1
          /\ \A t \in 1 .. w[j] : E[p + t] = EC[j][t]
          /\ \A t \in 1 .. w[j] + 1 : L[p + t] = LC[j][t]
      BY <3>1, <3>2
    <3> QED BY <3>3 DEF p
  <2> HIDE DEF E, L, k
  <2> QED BY <2>2, <2>3, <2>4
<1>5. ASSUME NEW j \in 1 .. k + 1
      PROVE  /\ \A t \in 1 .. w[j] : PairIn(h, EC[j][t]) /\ Linked(h, EC[j], LC[j], t)
             /\ \A t \in 1 .. w[j] + 1 : LeafEdge(h, LC[j][t])
             /\ LC[j][1] = first_leaf_edge(h, c[j]) /\ LC[j][w[j] + 1] = last_leaf_edge(h, c[j])
             /\ next_kv(h, LC[j][w[j] + 1]) = next_kv(h, Handle(n, j - 1))
             /\ next_back_kv(h, LC[j][1]) = next_back_kv(h, Handle(n, j - 1))
  <2>1. EC[j] = ElementsBelow(h, c[j]) /\ LC[j] = LeafEdges(h, c[j]) /\ w[j] = Len(EC[j])
    OBVIOUS
  <2>2. Walked(h, c[j]) /\ h[c[j]].parent = n /\ ascend(h, c[j]) = Handle(n, j - 1)
    BY <1>3
  <2> HIDE DEF EC, LC, w, c
  <2> QED BY <1>1, <2>1, <2>2 DEF Walked
<1> HIDE DEF E, L, EC, LC, w, c
<1>20. ASSUME NEW j \in 1 .. k + 1, NEW t \in 1 .. w[j] + 1, NEW p, p = off[j - 1] + t
       PROVE  L[p] = LC[j][t]
  BY <1>4, <1>20
<1>6. \A i \in 0 .. k : /\ Handle(n, i) \in Handles(h) /\ Handle(n, i) \in [node : DOMAIN h, idx : Nat]
                        /\ Handle(n, i).node = n /\ Handle(n, i).idx = i
  BY <1>1, BAssumption DEF Handle, Handles, CAPACITY
<1>7. ASSUME NEW i \in 1 .. off[k + 1]
      PROVE  \E j \in 1 .. k + 1 : \E t \in 1 .. w[j] + 1 : i = off[j - 1] + t
  <2>1. Stairs(k, off, w)
    BY <1>3, <1>4 DEF Stairs
  <2>2. k \in Nat
    BY <1>1
  <2> HIDE DEF k
  <2>3. OnStair(k, off, w, i)
    BY <2>1, <2>2, Locate
  <2> QED BY <2>3 DEF OnStair
<1>8. k + 1 \in 1 .. k + 1 /\ 1 \in 1 .. k + 1 /\ k + 1 \in 0 .. k + 1 /\ 0 \in 0 .. k /\ k \in 0 .. k
      /\ off[k + 1] \in Nat
  BY <1>1, <1>4
\* an edge is that of a child
<1>9. ASSUME NEW i \in 1 .. Len(E) + 1 PROVE LeafEdge(h, L[i])
  <2>1. i \in 1 .. off[k + 1]
    BY <1>1, <1>4, <1>8
  <2>2. PICK j \in 1 .. k + 1 : \E t \in 1 .. w[j] + 1 : i = off[j - 1] + t
    BY <1>7, <2>1
  <2>3. PICK t \in 1 .. w[j] + 1 : i = off[j - 1] + t
    BY <2>2
  <2> QED BY <1>4, <1>5, <2>3
\* a pair of the node itself
<1>10. ASSUME NEW j \in 1 .. k
       PROVE  PairIn(h, E[off[j]]) /\ Linked(h, E, L, off[j])
  <2>1. j \in 1 .. k + 1 /\ j + 1 \in 1 .. k + 1 /\ j - 1 \in 0 .. k /\ j - 1 < k /\ j \in 0 .. k /\ j > 0
        /\ j + 1 - 1 = j /\ j - 1 \in 0 .. k + 1
    BY <1>1
  <2>2. E[off[j]] = Handle(n, j - 1)
    BY <1>4
  <2>3. off[j - 1] \in Nat /\ w[j] \in Nat /\ off[j] = off[j - 1] + (w[j] + 1) /\ w[j] + 1 \in 1 .. w[j] + 1
    <3>1. off[j - 1] \in Nat
      BY <1>4, <2>1
    <3>2. w[j] \in Nat
      BY <1>3, <2>1
    <3>3. off[j] = off[j - 1] + w[j] + 1
      BY <1>4, <2>1
    <3> QED BY <3>1, <3>2, <3>3
  <2>4. L[off[j]] = LC[j][w[j] + 1]
    <3> DEFINE x == off[j]
               y == w[j] + 1
    <3>1. y \in 1 .. w[j] + 1 /\ x = off[j - 1] + y
      BY <2>3
    <3> HIDE DEF x, y
    <3>2. L[x] = LC[j][y]
      BY <1>20, <2>1, <3>1
    <3> QED BY <3>2 DEF x, y
  <2>5. w[j + 1] \in Nat /\ 1 \in 1 .. w[j + 1] + 1
    BY <1>3, <2>1
  <2>6. L[off[j] + 1] = LC[j + 1][1]
    BY <1>4, <2>1, <2>5
  <2>7. L[off[j]] = last_leaf_edge(h, c[j]) /\ next_kv(h, L[off[j]]) = next_kv(h, Handle(n, j - 1))
    BY <1>5, <2>1, <2>4
  <2>8. /\ L[off[j] + 1] = first_leaf_edge(h, c[j + 1])
        /\ next_back_kv(h, L[off[j] + 1]) = next_back_kv(h, Handle(n, j))
    BY <1>5, <2>1, <2>6
  <2>9. next_kv(h, Handle(n, j - 1)) = Handle(n, j - 1)
    BY <1>1, <1>6, <2>1, NextKvStep
  <2>10. next_back_kv(h, Handle(n, j)) = Handle(n, j - 1)
    BY <1>1, <1>6, <2>1, NextBackKvStep
  <2>11. descend(h, n, j - 1) = c[j] /\ descend(h, n, j) = c[j + 1]
    BY <1>3, <2>1
  <2>12. Handle(n, j - 1).node = n /\ Handle(n, j - 1).idx = j - 1 /\ j - 1 + 1 = j
    BY <1>6, <2>1
  <2>13. /\ next_leaf_edge(h, Handle(n, j - 1)) = first_leaf_edge(h, c[j + 1])
         /\ next_back_leaf_edge(h, Handle(n, j - 1)) = last_leaf_edge(h, c[j])
    BY <1>1, <2>11, <2>12 DEF next_leaf_edge, next_back_leaf_edge
  <2>14. PairIn(h, Handle(n, j - 1))
    BY <1>6, <2>1 DEF PairIn, k
  <2> QED BY <2>2, <2>7, <2>8, <2>9, <2>10, <2>13, <2>14 DEF Linked
\* a pair of a child
<1>11. ASSUME NEW j \in 1 .. k + 1, NEW t \in 1 .. w[j]
       PROVE  PairIn(h, E[off[j - 1] + t]) /\ Linked(h, E, L, off[j - 1] + t)
  <2>1. j - 1 \in 0 .. k + 1 /\ off[j - 1] \in Nat /\ w[j] \in Nat
    BY <1>3, <1>4
  <2>2. t \in 1 .. w[j] + 1 /\ t + 1 \in 1 .. w[j] + 1 /\ off[j - 1] + t + 1 = off[j - 1] + (t + 1)
    BY <2>1
  <2>3. E[off[j - 1] + t] = EC[j][t] /\ L[off[j - 1] + t] = LC[j][t]
    BY <1>4, <2>2
  <2>4. L[off[j - 1] + t + 1] = LC[j][t + 1]
    BY <1>4, <2>2
  <2>5. PairIn(h, EC[j][t]) /\ Linked(h, EC[j], LC[j], t)
    BY <1>5
  <2> QED BY <2>3, <2>4, <2>5 DEF Linked
<1>12. ASSUME NEW i \in 1 .. Len(E) PROVE PairIn(h, E[i]) /\ Linked(h, E, L, i)
  <2>1. i \in 1 .. off[k + 1] /\ i < off[k + 1]
    BY <1>1, <1>4, <1>8
  <2>6. PICK j \in 1 .. k + 1 : \E t \in 1 .. w[j] + 1 : i = off[j - 1] + t
    BY <1>7, <2>1
  <2>2. PICK t \in 1 .. w[j] + 1 : i = off[j - 1] + t
    BY <2>6
  <2>3. j - 1 \in 0 .. k + 1 /\ off[j - 1] \in Nat /\ w[j] \in Nat /\ off[j] = off[j - 1] + w[j] + 1
    <3>1. j - 1 \in 0 .. k + 1
      BY <1>1
    <3>2. off[j - 1] \in Nat
      BY <1>4, <3>1
    <3>3. w[j] \in Nat
      BY <1>3
    <3>4. off[j] = off[j - 1] + w[j] + 1
      BY <1>4
    <3> QED BY <3>1, <3>2, <3>3, <3>4
  <2>4. CASE t \in 1 .. w[j]
    BY <1>11, <2>2, <2>4
  <2>5. CASE t = w[j] + 1
    <3>1. i = off[j]
      BY <2>2, <2>3, <2>5
    <3>2. j # k + 1
      BY <2>1, <3>1
    <3>3. j \in 1 .. k
      BY <1>1, <3>2
    <3> QED BY <1>10, <3>1, <3>3
  <2> QED BY <2>3, <2>4, <2>5
<1>13. L[1] = LC[1][1]
  <2>1. w[1] \in Nat /\ 1 \in 1 .. w[1] + 1 /\ 0 + 1 = 1
    BY <1>3, <1>8
  <2>2. off[1 - 1] = 0
    BY <1>4
  <2>3. L[off[1 - 1] + 1] = LC[1][1]
    BY <1>4, <1>8, <2>1
  <2> QED BY <2>1, <2>2, <2>3
<1>14. L[Len(E) + 1] = LC[k + 1][w[k + 1] + 1]
  <2>1. w[k + 1] \in Nat /\ w[k + 1] + 1 \in 1 .. w[k + 1] + 1 /\ k + 1 - 1 \in 0 .. k + 1
    BY <1>1, <1>3, <1>8
  <2>2. off[k + 1 - 1] \in Nat
    BY <1>4, <2>1
  <2> DEFINE j == k + 1
             x == Len(E) + 1
             y == w[j] + 1
  <2>3. j \in 1 .. k + 1 /\ y \in 1 .. w[j] + 1
    BY <1>8, <2>1
  <2>4. off[j] = off[j - 1] + w[j] + 1 /\ x = off[j]
    BY <1>4, <2>3
  <2>5. x = off[j - 1] + y
    BY <2>1, <2>2, <2>4
  <2> HIDE DEF j, x, y
  <2>6. L[x] = LC[j][y]
    BY <1>20, <2>3, <2>5
  <2> QED BY <2>6 DEF j, x, y
<1>15. descend(h, n, 0) = c[1] /\ descend(h, n, k) = c[k + 1] /\ c[1] \in DOMAIN h /\ c[k + 1] \in DOMAIN h
  <2>1. 1 - 1 = 0 /\ k + 1 - 1 = k
    BY <1>1
  <2> QED BY <1>3, <1>8, <2>1
<1>16. L[1] = first_leaf_edge(h, n)
  BY <1>1, <1>5, <1>8, <1>13, <1>15, FirstLeafStep
<1>17. L[Len(E) + 1] = last_leaf_edge(h, n)
  BY <1>1, <1>5, <1>8, <1>14, <1>15, LastLeafStep
<1>18. next_kv(h, L[Len(E) + 1]) = IF h[n].parent = Nil THEN NoHandle ELSE next_kv(h, ascend(h, n))
  <2>1. next_kv(h, L[Len(E) + 1]) = next_kv(h, Handle(n, k))
    <3>1. k + 1 - 1 = k
      BY <1>1
    <3> QED BY <1>5, <1>8, <1>14, <3>1
  <2>2. ~(k < k)
    BY <1>1
  <2> QED BY <1>1, <1>6, <1>8, <2>1, <2>2, NextKvStep
<1>19. next_back_kv(h, L[1]) = IF h[n].parent = Nil THEN NoHandle ELSE next_back_kv(h, ascend(h, n))
  <2>1. next_back_kv(h, L[1]) = next_back_kv(h, Handle(n, 0))
    <3>1. 1 - 1 = 0
      OBVIOUS
    <3> QED BY <1>5, <1>8, <1>13, <3>1
  <2>2. ~(0 > 0)
    OBVIOUS
  <2> QED BY <1>1, <1>6, <1>8, <2>1, <2>2, NextBackKvStep
<1> QED BY <1>9, <1>12, <1>16, <1>17, <1>18, <1>19 DEF Walked, E, L

\* So they do in every node of a grove.
LEMMA AllWalked ==
  ASSUME NEW h, NEW tops, Grove(h, tops)
  PROVE  \A n \in DOMAIN h : Walked(h, n)
<1> DEFINE T == {n \in DOMAIN h : ~Walked(h, n)}
<1>1. SUFFICES ASSUME T # {} PROVE FALSE
  OBVIOUS
<1>2. T \subseteq DOMAIN h
  OBVIOUS
<1> HIDE DEF T
<1>3. PICK n \in T : \A i \in 1 .. Len(h[n].edges) : h[n].edges[i] \notin T
  BY <1>1, <1>2, LowestOf DEF Grove
<1>4. n \in DOMAIN h /\ ~Walked(h, n)
  BY <1>3 DEF T
<1>5. CASE h[n].height # 0
  <2>1. \A j \in 1 .. Len(h[n].kv) + 1 : h[n].edges[j] \in DOMAIN h
    BY <1>4, <1>5, Children
  <2>2. Len(h[n].edges) = Len(h[n].kv) + 1
    BY <1>4, <1>5, NodeArity DEF Grove
  <2>3. \A j \in 1 .. Len(h[n].kv) + 1 : Walked(h, h[n].edges[j])
    BY <1>3, <2>1, <2>2 DEF T
  <2> QED BY <1>4, <1>5, <2>3, InnerWalked
<1> QED BY <1>4, <1>5, LeafWalked

-----------------------------------------------------------------------------
(* One tree and the sequences of its root *)

OneTree(h, r) == Grove(h, {r}) /\ r \in DOMAIN h

\* The sequences of the root, and the walks from item to item and off the ends.
Ordered(h, E, L, N) ==
  /\ N \in Nat /\ Len(E) = N /\ Len(L) = N + 1 /\ E \in Seq(Spots(h)) /\ L \in Seq(Spots(h))
  /\ \A i \in 1 .. N : PairIn(h, E[i]) /\ Linked(h, E, L, i)
  /\ \A i \in 1 .. N + 1 : LeafEdge(h, L[i])
  /\ next_kv(h, L[N + 1]) = NoHandle /\ next_back_kv(h, L[1]) = NoHandle

LEMMA RootOrdered ==
  ASSUME NEW h, NEW r, OneTree(h, r)
  PROVE  /\ Ordered(h, ElementsBelow(h, r), LeafEdges(h, r), Len(ElementsBelow(h, r)))
         /\ LeafEdges(h, r)[1] = first_leaf_edge(h, r)
         /\ LeafEdges(h, r)[Len(ElementsBelow(h, r)) + 1] = last_leaf_edge(h, r)
<1>1. Grove(h, {r}) /\ r \in DOMAIN h
  BY DEF OneTree
<1>2. h[r].parent = Nil
  BY <1>1, GroveStepped, WellFormedFacts
<1>3. Sequences(h, r) /\ Walked(h, r)
  BY <1>1, GroveStepped, AllWalked
<1> QED BY <1>2, <1>3 DEF Sequences, Walked, Ordered

LEMMA PairNotNil ==
  ASSUME NEW h, NEW x, PairIn(h, x), Nil \notin DOMAIN h
  PROVE  x # NoHandle
BY DEF PairIn, NoHandle, Handle

\* No leaf edge comes twice: the walks from there would be the same, and one of
\* them would end earlier.
LEMMA EdgesDiffer ==
  ASSUME NEW h, NEW E, NEW L, NEW N, Ordered(h, E, L, N), Nil \notin DOMAIN h,
         NEW i \in 1 .. N + 1, NEW j \in 1 .. N + 1, L[i] = L[j]
  PROVE  i = j
<1>1. N \in Nat
  BY DEF Ordered
<1> DEFINE Same(d, x) == x \in 1 .. N + 1 /\ x < N + 1 - d /\ L[x] = L[N + 1 - d]
           T == {d \in Nat : d <= N /\ \E x \in 1 .. N + 1 : Same(d, x)}
<1>2. T = {}
  <2>1. SUFFICES ASSUME T # {} PROVE FALSE
    OBVIOUS
  <2>2. T \subseteq Nat
    OBVIOUS
  <2> HIDE DEF T
  <2>3. PICK d \in T : \A x \in T : d <= x
    BY <2>1, <2>2, Least
  <2>4. d \in Nat /\ d <= N /\ \E x \in 1 .. N + 1 : Same(d, x)
    BY <2>3 DEF T
  <2> HIDE DEF Same
  <2>5. PICK x \in 1 .. N + 1 : Same(d, x)
    BY <2>4
  <2> DEFINE y == N + 1 - d
  <2>6. x < y /\ L[x] = L[y] /\ y \in 1 .. N + 1 /\ x \in 1 .. N
    BY <1>1, <2>4, <2>5 DEF Same
  <2> HIDE DEF y
  <2>7. PairIn(h, E[x]) /\ Linked(h, E, L, x)
    BY <2>6 DEF Ordered
  <2>8. y # N + 1
    BY <2>6, <2>7, PairNotNil DEF Ordered, Linked
  <2>9. y \in 1 .. N
    BY <1>1, <2>6, <2>8
  <2>10. Linked(h, E, L, y)
    BY <2>9 DEF Ordered
  <2>11. L[x + 1] = L[y + 1]
    BY <2>6, <2>7, <2>10 DEF Linked
  <2>12. d - 1 \in Nat /\ d - 1 <= N /\ y + 1 = N + 1 - (d - 1) /\ x + 1 \in 1 .. N + 1 /\ x + 1 < y + 1
    BY <1>1, <2>4, <2>6, <2>9 DEF y
  <2>13. Same(d - 1, x + 1)
    BY <2>11, <2>12 DEF Same
  <2>14. d - 1 \in T
    BY <2>12, <2>13 DEF T
  <2>15. ~(d <= d - 1)
    BY <2>4
  <2> QED BY <2>3, <2>14, <2>15
<1>3. ASSUME NEW x \in 1 .. N + 1, NEW y \in 1 .. N + 1, x < y, L[x] = L[y]
      PROVE  FALSE
  <2>1. N + 1 - y \in Nat /\ N + 1 - y <= N /\ N + 1 - (N + 1 - y) = y
    BY <1>1
  <2>2. Same(N + 1 - y, x)
    BY <1>3, <2>1
  <2> QED BY <1>2, <2>1, <2>2
<1>4. i < j \/ j < i \/ i = j
  BY <1>1
<1> QED BY <1>3, <1>4

LEMMA ElementsDiffer ==
  ASSUME NEW h, NEW E, NEW L, NEW N, Ordered(h, E, L, N), Nil \notin DOMAIN h,
         NEW i \in 1 .. N, NEW j \in 1 .. N, E[i] = E[j]
  PROVE  i = j
<1>1. N \in Nat /\ Linked(h, E, L, i) /\ Linked(h, E, L, j)
  BY DEF Ordered
<1>2. L[i] = L[j]
  BY <1>1 DEF Linked
<1>3. i \in 1 .. N + 1 /\ j \in 1 .. N + 1
  BY <1>1
<1> QED BY <1>2, <1>3, EdgesDiffer

\* The sequences of m are a stretch of those of the root, after lo pairs.
Stretch(h, r, m, lo) ==
  /\ lo \in Nat /\ lo + Len(ElementsBelow(h, m)) <= Len(ElementsBelow(h, r))
  /\ \A t \in 1 .. Len(ElementsBelow(h, m)) : ElementsBelow(h, r)[lo + t] = ElementsBelow(h, m)[t]
  /\ \A t \in 1 .. Len(ElementsBelow(h, m)) + 1 : LeafEdges(h, r)[lo + t] = LeafEdges(h, m)[t]

\* The stairs of an internal node.
LEMMA StairsOf ==
  ASSUME NEW h, NEW tops, Grove(h, tops), NEW n \in DOMAIN h, h[n].height # 0, NEW off, LaidOut(h, n, off)
  PROVE  Stairs(Len(h[n].kv), off, [j \in 1 .. Len(h[n].kv) + 1 |-> Len(ElementsBelow(h, h[n].edges[j]))])
<1>1. \A j \in 1 .. Len(h[n].kv) + 1 : Len(ElementsBelow(h, h[n].edges[j])) \in Nat
  BY Children
<1>2. \A j \in 1 .. Len(h[n].kv) + 1 : off[j] = off[j - 1] + Len(ElementsBelow(h, h[n].edges[j])) + 1
  BY DEF LaidOut
<1>3. off \in [0 .. Len(h[n].kv) + 1 -> Nat] /\ off[0] = 0
  BY DEF LaidOut
<1> QED BY <1>1, <1>2, <1>3 DEF Stairs

LEMMA StairsRise ==
  ASSUME NEW k \in Nat, NEW off, NEW w, Stairs(k, off, w), NEW i \in 0 .. k + 1, NEW j \in 0 .. k + 1, i <= j
  PROVE  off[i] \in Nat /\ off[j] \in Nat /\ off[i] <= off[j] /\ (i < j => off[i] < off[j])
<1> DEFINE T == {x \in Nat : i <= x /\ x <= k + 1 /\ ~(off[i] <= off[x] /\ (i < x => off[i] < off[x]))}
<1>1. T = {}
  <2>1. SUFFICES ASSUME T # {} PROVE FALSE
    OBVIOUS
  <2>2. T \subseteq Nat
    OBVIOUS
  <2> HIDE DEF T
  <2>3. PICK x \in T : \A y \in T : x <= y
    BY <2>1, <2>2, Least
  <2>4. x \in Nat /\ i <= x /\ x <= k + 1 /\ ~(off[i] <= off[x] /\ (i < x => off[i] < off[x]))
    BY <2>3 DEF T
  <2>5. off[i] \in Nat
    BY DEF Stairs
  <2>6. x # i
    BY <2>4, <2>5
  <2>7. x - 1 \in Nat /\ i <= x - 1 /\ x - 1 <= k + 1 /\ ~(x <= x - 1) /\ x \in 1 .. k + 1 /\ x - 1 \in 0 .. k + 1
    BY <2>4, <2>6
  <2>8. x - 1 \notin T
    BY <2>3, <2>7
  <2>9. off[i] <= off[x - 1]
    BY <2>7, <2>8 DEF T
  <2>10. off[x] = off[x - 1] + w[x] + 1 /\ w[x] \in Nat /\ off[x - 1] \in Nat
    BY <2>7 DEF Stairs
  <2> QED BY <2>4, <2>5, <2>9, <2>10
<1>2. off[i] \in Nat /\ off[j] \in Nat
  BY DEF Stairs
<1> QED BY <1>1, <1>2

\* The stretch of a child within that of its parent.
LEMMA StretchOfChild ==
  ASSUME NEW h, NEW r, OneTree(h, r), NEW n \in DOMAIN h, h[n].height # 0, NEW lo, Stretch(h, r, n, lo),
         NEW off, LaidOut(h, n, off), NEW j \in 1 .. Len(h[n].kv) + 1
  PROVE  Stretch(h, r, h[n].edges[j], lo + off[j - 1])
<1> DEFINE k == Len(h[n].kv)
           w == [i \in 1 .. k + 1 |-> Len(ElementsBelow(h, h[n].edges[i]))]
           E == ElementsBelow(h, n)
           L == LeafEdges(h, n)
           x == h[n].edges[j]
           EC == ElementsBelow(h, x)
           LC == LeafEdges(h, x)
           p == off[j - 1]
           y == Len(EC)
<1>1. Grove(h, {r}) /\ k \in Nat
  BY GroveStepped DEF OneTree
<1>2. Stairs(k, off, w)
  BY <1>1, StairsOf
<1>3. j \in 0 .. k + 1 /\ k + 1 \in 0 .. k + 1 /\ j <= k + 1 /\ j - 1 \in 0 .. k + 1
  BY <1>1
<1>4. off[j] <= off[k + 1] /\ off[j] \in Nat /\ off[k + 1] \in Nat /\ p \in Nat
  <2> HIDE DEF k, w
  <2>1. p \in Nat
    BY <1>2, <1>3 DEF Stairs
  <2> HIDE DEF p
  <2> QED BY <1>1, <1>2, <1>3, <2>1, StairsRise
<1>5. y \in Nat /\ Len(LC) = y + 1
  BY <1>1, Children
<1>6. off[j] = p + y + 1 /\ Len(E) + 1 = off[k + 1]
  BY DEF LaidOut
<1>7. /\ \A t \in 1 .. y : E[p + t] = EC[t]
      /\ \A t \in 1 .. Len(LC) : L[p + t] = LC[t]
  BY DEF LaidOut
<1>8. Sequences(h, n) /\ Sequences(h, r)
  BY <1>1, GroveStepped DEF OneTree
<1>9. Len(E) \in Nat /\ Len(ElementsBelow(h, r)) \in Nat
  BY <1>8 DEF Sequences
<1> DEFINE ER == ElementsBelow(h, r)
           LR == LeafEdges(h, r)
<1>10. /\ lo \in Nat /\ lo + Len(E) <= Len(ER)
       /\ \A t \in 1 .. Len(E) : ER[lo + t] = E[t]
       /\ \A t \in 1 .. Len(E) + 1 : LR[lo + t] = L[t]
  BY DEF Stretch
<1> HIDE DEF k, w, E, L, EC, LC, p, y, ER, LR, x
<1>11. p + y <= Len(E) /\ lo + p + y <= Len(ER) /\ lo + p \in Nat
  BY <1>4, <1>5, <1>6, <1>9, <1>10
<1>12. ASSUME NEW t \in 1 .. y PROVE ER[lo + p + t] = EC[t]
  <2>1. p + t \in 1 .. Len(E) /\ lo + p + t = lo + (p + t)
    BY <1>4, <1>5, <1>9, <1>10, <1>11
  <2> QED BY <1>7, <1>10, <2>1
<1>13. ASSUME NEW t \in 1 .. y + 1 PROVE LR[lo + p + t] = LC[t]
  <2>1. p + t \in 1 .. Len(E) + 1 /\ lo + p + t = lo + (p + t) /\ t \in 1 .. Len(LC)
    BY <1>4, <1>5, <1>9, <1>10, <1>11
  <2> QED BY <1>7, <1>10, <2>1
<1>14. Stretch(h, r, x, lo + p)
  BY <1>11, <1>12, <1>13 DEF Stretch, y, EC, LC, ER, LR
<1> QED BY <1>14 DEF x, p

LEMMA AllStretch ==
  ASSUME NEW h, NEW r, OneTree(h, r)
  PROVE  \A m \in DOMAIN h : \E lo : Stretch(h, r, m, lo)
<1> DEFINE T == {m \in DOMAIN h : \A lo : ~Stretch(h, r, m, lo)}
<1>1. SUFFICES ASSUME T # {} PROVE FALSE
  OBVIOUS
<1>2. T \subseteq DOMAIN h
  OBVIOUS
<1> HIDE DEF T
<1>3. Grove(h, {r}) /\ WellFormed(h, {r}) /\ Bounded(h)
  BY GroveStepped DEF OneTree
<1>4. PICK m \in T : m \in {r} \/ h[m].parent \notin T
  BY <1>1, <1>2, <1>3, HighestOf
<1>5. m \in DOMAIN h /\ \A lo : ~Stretch(h, r, m, lo)
  BY <1>4 DEF T
<1>6. CASE m = r
  <2>1. Sequences(h, r)
    BY <1>3, <1>5, <1>6, GroveStepped
  <2>2. Stretch(h, r, r, 0)
    BY <2>1 DEF Stretch, Sequences
  <2> QED BY <1>5, <1>6, <2>2
<1>7. CASE m # r
  <2> DEFINE p == h[m].parent
             j == h[m].parent_idx + 1
  <2>1. p \in DOMAIN h /\ h[m].parent_idx \in Nat /\ h[m].parent_idx < Len(h[p].edges) /\ h[p].edges[j] = m
    BY <1>3, <1>5, <1>7, WellFormedFacts
  <2>2. Len(h[p].kv) \in Nat /\ (h[p].height = 0 => Len(h[p].edges) = 0)
        /\ (h[p].height # 0 => Len(h[p].edges) = Len(h[p].kv) + 1)
    BY <1>3, <2>1, NodeArity
  <2>3. h[p].height # 0 /\ j \in 1 .. Len(h[p].kv) + 1
    BY <2>1, <2>2
  <2>4. p \notin T
    BY <1>4, <1>7
  <2>5. PICK lo : Stretch(h, r, p, lo)
    BY <2>1, <2>4 DEF T
  <2>6. PICK off : LaidOut(h, p, off)
    BY <1>3, <2>1, <2>3, GroveStepped
  <2>7. Stretch(h, r, h[p].edges[j], lo + off[j - 1])
    BY <2>1, <2>3, <2>5, <2>6, StretchOfChild
  <2> QED BY <1>5, <2>1, <2>7
<1> QED BY <1>6, <1>7

\* The pairs of a node are in its own sequence.
LEMMA OwnElement ==
  ASSUME NEW h, NEW tops, Grove(h, tops), NEW x, PairIn(h, x)
  PROVE  \E t \in 1 .. Len(ElementsBelow(h, x.node)) : ElementsBelow(h, x.node)[t] = x
<1> DEFINE m == x.node
           i == x.idx + 1
           k == Len(h[m].kv)
<1>1. m \in DOMAIN h /\ x = Handle(m, x.idx) /\ i \in Nat /\ i >= 1 /\ i - 1 = x.idx /\ x.idx < k
  BY DEF PairIn, Handle
<1>2. WellFormed(h, tops) /\ Bounded(h)
  BY GroveStepped
<1>3. k \in Nat /\ Sequences(h, m)
  BY <1>1, GroveStepped
<1>5. i \in 1 .. k
  BY <1>1, <1>3
<1>6. CASE h[m].height = 0
  <2>1. /\ Len(ElementsBelow(h, m)) = k
        /\ \A t \in 1 .. k : ElementsBelow(h, m)[t] = Handle(m, t - 1)
    BY <1>1, <1>2, <1>6, LeafSequences
  <2>2. i \in 1 .. Len(ElementsBelow(h, m)) /\ ElementsBelow(h, m)[i] = Handle(m, i - 1)
    BY <1>5, <2>1
  <2> QED BY <1>1, <2>2
<1>7. CASE h[m].height # 0
  <2>1. PICK off : LaidOut(h, m, off)
    BY <1>1, <1>7, GroveStepped
  <2> DEFINE w == [j \in 1 .. k + 1 |-> Len(ElementsBelow(h, h[m].edges[j]))]
  <2>2. Stairs(k, off, w)
    BY <1>1, <1>7, <2>1, StairsOf
  <2>3. ElementsBelow(h, m)[off[i]] = Handle(m, i - 1)
    BY <1>5, <2>1 DEF LaidOut
  <2>4. Len(ElementsBelow(h, m)) + 1 = off[k + 1] /\ off[0] = 0
    BY <2>1 DEF LaidOut
  <2> HIDE DEF k, w
  <2>5. 0 \in 0 .. k + 1 /\ i \in 0 .. k + 1 /\ k + 1 \in 0 .. k + 1 /\ i < k + 1 /\ 0 < i /\ i <= k + 1 /\ 0 <= i
    BY <1>3, <1>5
  <2>6. off[0] < off[i] /\ off[i] < off[k + 1] /\ off[i] \in Nat /\ off[k + 1] \in Nat
    BY <1>3, <2>2, <2>5, StairsRise
  <2>7. off[i] \in 1 .. Len(ElementsBelow(h, m))
    BY <1>3, <2>4, <2>6 DEF Sequences
  <2> QED BY <1>1, <2>3, <2>7
<1> QED BY <1>6, <1>7

\* Every pair of a tree is in the sequence of its root, and so is every leaf edge.
LEMMA ElementsComplete ==
  ASSUME NEW h, NEW r, OneTree(h, r), NEW x, PairIn(h, x)
  PROVE  \E i \in 1 .. Len(ElementsBelow(h, r)) : ElementsBelow(h, r)[i] = x
<1>1. x.node \in DOMAIN h
  BY DEF PairIn
<1>2. Sequences(h, x.node) /\ Sequences(h, r)
  BY <1>1, GroveStepped DEF OneTree
<1>3. PICK lo : Stretch(h, r, x.node, lo)
  BY <1>1, AllStretch
<1>4. PICK t \in 1 .. Len(ElementsBelow(h, x.node)) : ElementsBelow(h, x.node)[t] = x
  BY OwnElement DEF OneTree
<1>5. lo + t \in 1 .. Len(ElementsBelow(h, r)) /\ ElementsBelow(h, r)[lo + t] = x
  BY <1>2, <1>3, <1>4 DEF Stretch, Sequences
<1> QED BY <1>5

LEMMA EdgesComplete ==
  ASSUME NEW h, NEW r, OneTree(h, r), NEW x, LeafEdge(h, x)
  PROVE  \E i \in 1 .. Len(ElementsBelow(h, r)) + 1 : LeafEdges(h, r)[i] = x
<1> DEFINE m == x.node
           i == x.idx + 1
           k == Len(h[m].kv)
<1>1. m \in DOMAIN h /\ h[m].height = 0 /\ x = Handle(m, x.idx) /\ i \in Nat /\ i >= 1 /\ i - 1 = x.idx /\ x.idx <= k
  BY DEF LeafEdge, Handle, IsLeaf
<1>2. Grove(h, {r}) /\ WellFormed(h, {r}) /\ Bounded(h)
  BY GroveStepped DEF OneTree
<1>3. k \in Nat /\ Sequences(h, m) /\ Sequences(h, r)
  BY <1>1, <1>2, GroveStepped DEF OneTree
<1>4. PICK lo : Stretch(h, r, m, lo)
  BY <1>1, AllStretch
<1>5. i \in 1 .. k + 1
  BY <1>1, <1>3
<1>6. i \in 1 .. Len(ElementsBelow(h, m)) + 1 /\ LeafEdges(h, m)[i] = x
  BY <1>1, <1>2, <1>5, LeafSequences
<1>7. lo + i \in 1 .. Len(ElementsBelow(h, r)) + 1 /\ LeafEdges(h, r)[lo + i] = x
  BY <1>3, <1>4, <1>6 DEF Stretch, Sequences
<1> QED BY <1>7

\* The sequence of the root has as many items as the map has pairs.
LEMMA ElementsCounted ==
  ASSUME NEW h, NEW r, OneTree(h, r), Countable(h)
  PROVE  PairCount(h) = Len(ElementsBelow(h, r))
<1> DEFINE E == ElementsBelow(h, r)
           L == LeafEdges(h, r)
           N == Len(E)
           f == [i \in 1 .. N |-> <<E[i].node, E[i].idx + 1>>]
<1>1. Ordered(h, E, L, N) /\ Nil \notin DOMAIN h
  BY RootOrdered, GroveStepped DEF OneTree
<1>2. N \in Nat /\ \A i \in 1 .. N : PairIn(h, E[i])
  BY <1>1 DEF Ordered
<1>3. \A i \in 1 .. N : /\ E[i] = [node |-> E[i].node, idx |-> E[i].idx] /\ E[i].node \in DOMAIN h
                        /\ E[i].idx \in Nat /\ E[i].idx < Len(h[E[i].node].kv)
  BY <1>2 DEF PairIn
<1>4. \A n \in DOMAIN h : Len(h[n].kv) \in Nat
  BY DEF Countable
<1> HIDE DEF E, N
<1>5. ASSUME NEW i \in 1 .. N PROVE f[i] \in Places(h)
  <2> DEFINE n == E[i].node
             d == E[i].idx
             l == Len(h[n].kv)
  <2>1. n \in DOMAIN h /\ d \in Nat /\ d < l
    BY <1>3
  <2>2. l \in Nat
    BY <1>4, <2>1
  <2>3. f[i] = <<n, d + 1>>
    OBVIOUS
  <2> HIDE DEF l, d, n
  <2>4. d + 1 \in 1 .. l
    BY <2>1, <2>2
  <2> HIDE DEF f
  <2> QED BY <2>1, <2>3, <2>4, PlacesOf DEF l
<1>6. ASSUME NEW i \in 1 .. N, NEW j \in 1 .. N, f[i] = f[j] PROVE i = j
  <2>1. E[i].node = E[j].node /\ E[i].idx + 1 = E[j].idx + 1
    BY <1>6
  <2>2. E[i].idx = E[j].idx
    <3> DEFINE c == E[i].idx
               d == E[j].idx
    <3>1. c \in Nat /\ d \in Nat /\ c + 1 = d + 1
      BY <1>3, <2>1
    <3> HIDE DEF c, d
    <3>2. c = d
      BY <3>1
    <3> QED BY <3>2 DEF c, d
  <2>3. E[i] = E[j]
    BY <1>3, <2>1, <2>2
  <2> QED BY <1>1, <2>3, ElementsDiffer
<1>7. ASSUME NEW q \in Places(h) PROVE \E i \in 1 .. N : f[i] = q
  <2>1. PICK n \in DOMAIN h : \E j \in 1 .. Len(h[n].kv) : q = <<n, j>>
    BY PlacesOf
  <2>2. PICK j \in 1 .. Len(h[n].kv) : q = <<n, j>>
    BY <2>1
  <2>3. j - 1 \in Nat /\ j - 1 < Len(h[n].kv) /\ j - 1 + 1 = j
    BY <1>4
  <2>4. PairIn(h, Handle(n, j - 1)) /\ Handle(n, j - 1).node = n /\ Handle(n, j - 1).idx = j - 1
    BY <2>3 DEF PairIn, Handle
  <2>5. PICK i \in 1 .. N : E[i] = Handle(n, j - 1)
    BY <2>4, ElementsComplete DEF E, N
  <2> QED BY <2>2, <2>3, <2>4, <2>5
<1>8. f \in Bijection(1 .. N, Places(h))
  <2>1. f = [i \in 1 .. N |-> f[i]]
    OBVIOUS
  <2> HIDE DEF f
  <2>2. f \in [1 .. N -> Places(h)]
    BY <1>5, <2>1
  <2> QED BY <1>6, <1>7, <2>2 DEF Bijection, Injection, Surjection, IsInjective
<1> HIDE DEF f
<1>9. Cardinality(Places(h)) = N
  BY <1>2, <1>8, FS_CountingElements DEF ExistsBijection
<1> QED BY <1>9, PlacesFinite DEF N, E

\* The number of pairs before a leaf edge.
LEMMA BeforeEdge ==
  ASSUME NEW h, NEW r, OneTree(h, r), NEW i \in 1 .. Len(ElementsBelow(h, r)) + 1
  PROVE  Before(h, r, LeafEdges(h, r)[i]) = i - 1
<1> DEFINE L == LeafEdges(h, r)
           N == Len(ElementsBelow(h, r))
           x == CHOOSE j \in 1 .. Len(L) : L[j] = L[i]
<1>1. Ordered(h, ElementsBelow(h, r), L, N) /\ Nil \notin DOMAIN h
  BY RootOrdered, GroveStepped DEF OneTree
<1>2. Len(L) = N + 1
  BY <1>1 DEF Ordered
<1> HIDE DEF L, N
<1>3. i \in 1 .. Len(L)
  BY <1>2 DEF N
<1>4. x \in 1 .. Len(L) /\ L[x] = L[i]
  BY <1>3
<1> HIDE DEF x
<1>5. x = i
  BY <1>1, <1>2, <1>3, <1>4, EdgesDiffer
<1>6. Before(h, r, L[i]) = x - 1
  BY DEF Before, x, L
<1> QED BY <1>5, <1>6 DEF L

\* A legal map is empty or one tree, whose pairs are counted.
LEMMA LegalOrder ==
  ASSUME NEW m, LegalMap(m)
  PROVE  /\ m.root = Nil => DOMAIN m.heap = {} /\ m.length = 0
         /\ m.root # Nil => OneTree(m.heap, m.root) /\ m.length = Len(ElementsBelow(m.heap, m.root))
<1> DEFINE h == m.heap
           r == m.root
<1>1. /\ IsFiniteSet(DOMAIN h) /\ r \in DOMAIN h \cup {Nil} /\ WellFormed(h, {r})
      /\ LegalLens(h, {r}) /\ m.length = PairCount(h)
  BY DEF LegalMap
<1> HIDE DEF h, r
<1>2. HeapType(h) /\ Nil \notin DOMAIN h
  BY <1>1, NilAssumption DEF WellFormed, HeapType
<1>3. Countable(h)
  BY <1>1, <1>2, WellFormedCountable
<1>4. Bounded(h)
  BY <1>1, <1>2, FiniteBounded
<1>5. Roomy(h)
  BY <1>1 DEF LegalLens, Roomy, len
<1>6. CASE r = Nil
  <2>1. {r} \cap DOMAIN h = {}
    BY <1>2, <1>6
  <2>2. DOMAIN h = {} /\ PairCount(h) = 0
    BY <1>1, <2>1, NoRootNoNode
  <2> QED BY <1>1, <1>6, <2>2 DEF h, r
<1>7. CASE r # Nil
  <2>1. OneTree(h, r)
    BY <1>1, <1>4, <1>5, <1>7 DEF OneTree, Grove
  <2>2. PairCount(h) = Len(ElementsBelow(h, r))
    BY <1>3, <2>1, ElementsCounted
  <2> QED BY <1>1, <1>7, <2>1, <2>2 DEF h, r
<1> QED BY <1>6, <1>7 DEF h, r

-----------------------------------------------------------------------------
(* Where the subtrees lie in the order *)

\* The numbers of the first and the last leaf edge below m.
FirstAt(h, r, m) == Before(h, r, first_leaf_edge(h, m))
LastAt(h, r, m) == Before(h, r, last_leaf_edge(h, m))

LEMMA StretchAt ==
  ASSUME NEW h, NEW r, OneTree(h, r), NEW m \in DOMAIN h, NEW lo, Stretch(h, r, m, lo)
  PROVE  /\ FirstAt(h, r, m) = lo /\ LastAt(h, r, m) = lo + Len(ElementsBelow(h, m))
         /\ LeafEdges(h, r)[lo + 1] = first_leaf_edge(h, m)
         /\ LeafEdges(h, r)[lo + Len(ElementsBelow(h, m)) + 1] = last_leaf_edge(h, m)
<1> DEFINE w == Len(ElementsBelow(h, m))
           N == Len(ElementsBelow(h, r))
           L == LeafEdges(h, r)
<1>1. Sequences(h, m) /\ Sequences(h, r) /\ Walked(h, m)
  BY GroveStepped, AllWalked DEF OneTree
<1>2. w \in Nat /\ N \in Nat /\ lo \in Nat /\ lo + w <= N
  BY <1>1 DEF Sequences, Stretch
<1>3. \A t \in 1 .. w + 1 : L[lo + t] = LeafEdges(h, m)[t]
  BY DEF Stretch
<1>4. LeafEdges(h, m)[1] = first_leaf_edge(h, m) /\ LeafEdges(h, m)[w + 1] = last_leaf_edge(h, m)
  BY <1>1 DEF Walked
<1> HIDE DEF w, L
<1>5. 1 \in 1 .. w + 1 /\ w + 1 \in 1 .. w + 1 /\ lo + (w + 1) = lo + w + 1
  BY <1>2
<1>6. L[lo + 1] = first_leaf_edge(h, m) /\ L[lo + w + 1] = last_leaf_edge(h, m)
  BY <1>3, <1>4, <1>5
<1>7. lo + 1 \in 1 .. N + 1 /\ lo + w + 1 \in 1 .. N + 1 /\ lo + 1 - 1 = lo /\ lo + w + 1 - 1 = lo + w
  BY <1>2
<1>8. Before(h, r, L[lo + 1]) = lo /\ Before(h, r, L[lo + w + 1]) = lo + w
  <2> DEFINE a == lo + 1
             b == lo + w + 1
  <2>1. a \in 1 .. N + 1 /\ b \in 1 .. N + 1 /\ a - 1 = lo /\ b - 1 = lo + w
    BY <1>2, <1>7
  <2> HIDE DEF a, b
  <2>2. Before(h, r, L[a]) = a - 1 /\ Before(h, r, L[b]) = b - 1
    BY <2>1, BeforeEdge DEF L
  <2> QED BY <2>1, <2>2 DEF a, b
<1> QED BY <1>6, <1>8 DEF FirstAt, LastAt, w, L

\* Every node has its stretch.
LEMMA NodeSpan ==
  ASSUME NEW h, NEW r, OneTree(h, r), NEW m \in DOMAIN h
  PROVE  /\ Stretch(h, r, m, FirstAt(h, r, m))
         /\ FirstAt(h, r, m) \in Nat /\ LastAt(h, r, m) \in Nat
         /\ LastAt(h, r, m) = FirstAt(h, r, m) + Len(ElementsBelow(h, m))
         /\ FirstAt(h, r, m) <= LastAt(h, r, m)
         /\ LastAt(h, r, m) <= Len(ElementsBelow(h, r))
         /\ LeafEdges(h, r)[FirstAt(h, r, m) + 1] = first_leaf_edge(h, m)
         /\ LeafEdges(h, r)[LastAt(h, r, m) + 1] = last_leaf_edge(h, m)
<1>1. PICK lo : Stretch(h, r, m, lo)
  BY AllStretch
<1>2. /\ FirstAt(h, r, m) = lo /\ LastAt(h, r, m) = lo + Len(ElementsBelow(h, m))
      /\ LeafEdges(h, r)[lo + 1] = first_leaf_edge(h, m)
      /\ LeafEdges(h, r)[lo + Len(ElementsBelow(h, m)) + 1] = last_leaf_edge(h, m)
  BY <1>1, StretchAt
<1>3. lo \in Nat /\ lo + Len(ElementsBelow(h, m)) <= Len(ElementsBelow(h, r))
  BY <1>1 DEF Stretch
<1>4. Len(ElementsBelow(h, m)) \in Nat
  BY GroveStepped DEF OneTree, Sequences
<1> QED BY <1>1, <1>2, <1>3, <1>4

\* The children of a node have stretches side by side, a pair of the node between them.
LEMMA ChildSpan ==
  ASSUME NEW h, NEW r, OneTree(h, r), NEW n \in DOMAIN h, h[n].height # 0, NEW off, LaidOut(h, n, off)
  PROVE  LET k == Len(h[n].kv)
             lo == FirstAt(h, r, n)
         IN  /\ k \in Nat /\ off \in [0 .. k + 1 -> Nat] /\ off[0] = 0 /\ lo \in Nat
             /\ LastAt(h, r, n) = lo + off[k + 1] - 1
             /\ \A j \in 1 .. k + 1 :
                  /\ FirstAt(h, r, h[n].edges[j]) = lo + off[j - 1]
                  /\ LastAt(h, r, h[n].edges[j]) = lo + off[j] - 1
             /\ \A i, j \in 0 .. k + 1 : i <= j => off[i] <= off[j] /\ (i < j => off[i] < off[j])
<1> DEFINE k == Len(h[n].kv)
           lo == FirstAt(h, r, n)
           w == [j \in 1 .. k + 1 |-> Len(ElementsBelow(h, h[n].edges[j]))]
<1>1. Grove(h, {r}) /\ k \in Nat
  BY GroveStepped DEF OneTree
<1>2. Stairs(k, off, w)
  BY <1>1, StairsOf
<1>3. lo \in Nat /\ LastAt(h, r, n) = lo + Len(ElementsBelow(h, n)) /\ Stretch(h, r, n, lo)
      /\ Len(ElementsBelow(h, n)) \in Nat
  <2>1. Sequences(h, n)
    BY <1>1, GroveStepped
  <2> QED BY <2>1, NodeSpan DEF Sequences
<1>4. Len(ElementsBelow(h, n)) + 1 = off[k + 1]
  BY DEF LaidOut
<1>5. off \in [0 .. k + 1 -> Nat] /\ off[0] = 0
  BY DEF LaidOut
<1>6. LastAt(h, r, n) = lo + off[k + 1] - 1
  <2> DEFINE e == Len(ElementsBelow(h, n))
             o == off[k + 1]
  <2>1. e \in Nat /\ e + 1 = o /\ LastAt(h, r, n) = lo + e
    BY <1>3, <1>4
  <2> HIDE DEF e, o, lo
  <2>2. LastAt(h, r, n) = lo + o - 1
    BY <1>3, <2>1
  <2> QED BY <2>2 DEF o
<1>7. ASSUME NEW j \in 1 .. k + 1
      PROVE  /\ FirstAt(h, r, h[n].edges[j]) = lo + off[j - 1]
             /\ LastAt(h, r, h[n].edges[j]) = lo + off[j] - 1
  <2> DEFINE c == h[n].edges[j]
             p == off[j - 1]
             o == off[j]
             y == Len(ElementsBelow(h, c))
  <2>1. Stretch(h, r, c, lo + p)
    BY <1>3, StretchOfChild
  <2>2. c \in DOMAIN h /\ y \in Nat
    BY <1>1, Children
  <2>3. o = p + y + 1
    BY DEF LaidOut
  <2>4. j - 1 \in 0 .. k + 1
    BY <1>1
  <2>5. p \in Nat
    BY <1>5, <2>4
  <2>6. FirstAt(h, r, c) = lo + p /\ LastAt(h, r, c) = lo + p + y
    <3> HIDE DEF c, p, lo
    <3> QED BY <2>1, <2>2, StretchAt DEF y
  <2> HIDE DEF c, p, lo, y, o
  <2>7. FirstAt(h, r, c) = lo + p /\ LastAt(h, r, c) = lo + o - 1
    BY <1>3, <2>2, <2>3, <2>5, <2>6
  <2> QED BY <2>7 DEF c, p, o
<1>8. ASSUME NEW i \in 0 .. k + 1, NEW j \in 0 .. k + 1, i <= j
      PROVE  off[i] <= off[j] /\ (i < j => off[i] < off[j])
  <2> HIDE DEF k, w
  <2> QED BY <1>1, <1>2, <1>8, StairsRise
<1> HIDE DEF k, lo, w
<1>9. \A i, j \in 0 .. k + 1 : i <= j => off[i] <= off[j] /\ (i < j => off[i] < off[j])
  BY <1>8
<1> QED BY <1>1, <1>3, <1>5, <1>6, <1>7, <1>9 DEF k, lo

\* A node lies within its parent, and shares an end with it at its first or last edge only.
LEMMA ParentSpan ==
  ASSUME NEW h, NEW r, OneTree(h, r), NEW m \in DOMAIN h, m # r
  PROVE  LET p == h[m].parent
             i == h[m].parent_idx
         IN  /\ p \in DOMAIN h /\ p # Nil /\ h[p].height # 0 /\ i \in 0 .. Len(h[p].kv)
             /\ h[p].edges[i + 1] = m
             /\ FirstAt(h, r, p) <= FirstAt(h, r, m) /\ LastAt(h, r, m) <= LastAt(h, r, p)
             /\ i = 0 => FirstAt(h, r, m) = FirstAt(h, r, p)
             /\ i # 0 => FirstAt(h, r, m) > FirstAt(h, r, p)
             /\ i = Len(h[p].kv) => LastAt(h, r, m) = LastAt(h, r, p)
             /\ i # Len(h[p].kv) => LastAt(h, r, m) < LastAt(h, r, p)
<1> DEFINE p == h[m].parent
           i == h[m].parent_idx
           k == Len(h[p].kv)
           lo == FirstAt(h, r, p)
<1>1. Grove(h, {r}) /\ WellFormed(h, {r}) /\ Nil \notin DOMAIN h
  BY GroveStepped DEF OneTree
<1>2. p \in DOMAIN h /\ i \in Nat /\ i < Len(h[p].edges) /\ h[p].edges[i + 1] = m
  BY <1>1, WellFormedFacts
<1>3. k \in Nat /\ (h[p].height = 0 => Len(h[p].edges) = 0) /\ (h[p].height # 0 => Len(h[p].edges) = k + 1)
  BY <1>1, <1>2, NodeArity
<1>4. h[p].height # 0 /\ i \in 0 .. k /\ i + 1 \in 1 .. k + 1 /\ i + 1 - 1 = i
  BY <1>2, <1>3
<1>5. PICK off : LaidOut(h, p, off)
  BY <1>1, <1>2, <1>4, GroveStepped
<1>6. /\ off \in [0 .. k + 1 -> Nat] /\ off[0] = 0 /\ lo \in Nat
      /\ LastAt(h, r, p) = lo + off[k + 1] - 1
      /\ FirstAt(h, r, m) = lo + off[i] /\ LastAt(h, r, m) = lo + off[i + 1] - 1
      /\ \A a, b \in 0 .. k + 1 : a <= b => off[a] <= off[b] /\ (a < b => off[a] < off[b])
  <2>1. /\ off \in [0 .. k + 1 -> Nat] /\ off[0] = 0 /\ lo \in Nat
        /\ LastAt(h, r, p) = lo + off[k + 1] - 1
        /\ \A j \in 1 .. k + 1 : /\ FirstAt(h, r, h[p].edges[j]) = lo + off[j - 1]
                                 /\ LastAt(h, r, h[p].edges[j]) = lo + off[j] - 1
        /\ \A a, b \in 0 .. k + 1 : a <= b => off[a] <= off[b] /\ (a < b => off[a] < off[b])
    <3> HIDE DEF p
    <3> QED BY <1>2, <1>4, <1>5, ChildSpan
  <2> HIDE DEF p, i, k, lo
  <2>2. FirstAt(h, r, h[p].edges[i + 1]) = lo + off[i] /\ LastAt(h, r, h[p].edges[i + 1]) = lo + off[i + 1] - 1
    BY <1>4, <2>1
  <2> QED BY <1>2, <2>1, <2>2
<1> HIDE DEF p, i, k, lo
<1>7. 0 \in 0 .. k + 1 /\ i \in 0 .. k + 1 /\ i + 1 \in 0 .. k + 1 /\ k + 1 \in 0 .. k + 1 /\ i + 1 <= k + 1 /\ 0 <= i
  BY <1>3, <1>4
<1>8. off[i] \in Nat /\ off[i + 1] \in Nat /\ off[k + 1] \in Nat /\ off[0] <= off[i] /\ off[i + 1] <= off[k + 1]
  BY <1>6, <1>7
<1>9. i # 0 => off[0] < off[i]
  BY <1>4, <1>6, <1>7
<1>10. i # k => off[i + 1] < off[k + 1]
  <2>1. i # k => i + 1 < k + 1
    BY <1>3, <1>4
  <2> QED BY <1>6, <1>7, <2>1
<1>11. lo <= FirstAt(h, r, m) /\ LastAt(h, r, m) <= LastAt(h, r, p)
  BY <1>6, <1>8
<1>12. i = 0 => FirstAt(h, r, m) = lo
  BY <1>6
<1>13. i # 0 => FirstAt(h, r, m) > lo
  BY <1>6, <1>8, <1>9
<1>14. i = k => LastAt(h, r, m) = LastAt(h, r, p)
  BY <1>6
<1>15. i # k => LastAt(h, r, m) < LastAt(h, r, p)
  BY <1>6, <1>8, <1>10
<1>16. p # Nil
  BY <1>1, <1>2
<1> QED BY <1>2, <1>4, <1>11, <1>12, <1>13, <1>14, <1>15, <1>16 DEF p, i, k, lo

-----------------------------------------------------------------------------
(* The nodes around a leaf edge *)

\* The parent of the last child is left behind with it, and so on up.
LEMMA LastHandle ==
  ASSUME NEW h, NEW tops, Grove(h, tops), NEW n \in DOMAIN h, NEW i \in 0 .. Len(h[n].kv)
  PROVE  /\ Handle(n, i) \in Handles(h) /\ Handle(n, i).node = n /\ Handle(n, i).idx = i
         /\ len(h, n) = Len(h[n].kv) /\ Stepped(h)
<1>1. Len(h[n].kv) \in Nat /\ Len(h[n].kv) <= CAPACITY /\ Stepped(h)
  BY GroveStepped
<1> QED BY <1>1, BAssumption DEF Handle, Handles, CAPACITY, len

LEMMA LeftBehindAtEnd ==
  ASSUME NEW h, NEW r, OneTree(h, r), NEW n \in DOMAIN h
  PROVE  LeftBehind(h, Handle(n, Len(h[n].kv)))
           = {n} \cup (IF n = r THEN {} ELSE LeftBehind(h, Handle(h[n].parent, h[n].parent_idx)))
<1>1. Grove(h, {r}) /\ WellFormed(h, {r}) /\ Nil \notin DOMAIN h
  BY GroveStepped DEF OneTree
<1>2. Len(h[n].kv) \in Nat
  BY <1>1, GroveStepped
<1> DEFINE k == Len(h[n].kv)
<1>3. k \in 0 .. k /\ ~(k < k)
  BY <1>2
<1>4. /\ Handle(n, k) \in Handles(h) /\ Handle(n, k).node = n /\ Handle(n, k).idx = k
      /\ len(h, n) = k /\ Stepped(h)
  BY <1>1, <1>3, LastHandle
<1>5. h[n].parent = Nil <=> n = r
  <2>1. n = r => h[n].parent = Nil
    BY <1>1, WellFormedFacts
  <2>2. n # r => h[n].parent \in DOMAIN h
    BY <1>1, WellFormedFacts
  <2> QED BY <1>1, <2>1, <2>2
<1> HIDE DEF k
<1> QED BY <1>3, <1>4, <1>5, LeftBehindStep DEF ascend, k

LEMMA LeftBehindAtStart ==
  ASSUME NEW h, NEW r, OneTree(h, r), NEW n \in DOMAIN h
  PROVE  LeftBehindBack(h, Handle(n, 0))
           = {n} \cup (IF n = r THEN {} ELSE LeftBehindBack(h, Handle(h[n].parent, h[n].parent_idx)))
<1>1. Grove(h, {r}) /\ WellFormed(h, {r}) /\ Nil \notin DOMAIN h
  BY GroveStepped DEF OneTree
<1>2. Len(h[n].kv) \in Nat
  BY <1>1, GroveStepped
<1>3. 0 \in 0 .. Len(h[n].kv) /\ ~(0 > 0)
  BY <1>2
<1>4. Handle(n, 0) \in Handles(h) /\ Handle(n, 0).node = n /\ Handle(n, 0).idx = 0 /\ Stepped(h)
  BY <1>1, <1>3, LastHandle
<1>5. h[n].parent = Nil <=> n = r
  <2>1. n = r => h[n].parent = Nil
    BY <1>1, WellFormedFacts
  <2>2. n # r => h[n].parent \in DOMAIN h
    BY <1>1, WellFormedFacts
  <2> QED BY <1>1, <2>1, <2>2
<1> QED BY <1>3, <1>4, <1>5, LeftBehindBackStep DEF ascend

\* Only nodes that end here are left behind at the last edge of a node.
LEMMA LeftBehindEnds ==
  ASSUME NEW h, NEW r, OneTree(h, r)
  PROVE  \A n \in DOMAIN h : LeftBehind(h, Handle(n, Len(h[n].kv)))
                               \subseteq {m \in DOMAIN h : LastAt(h, r, m) = LastAt(h, r, n)}
<1> DEFINE here(n) == {m \in DOMAIN h : LastAt(h, r, m) = LastAt(h, r, n)}
           T == {n \in DOMAIN h : ~(LeftBehind(h, Handle(n, Len(h[n].kv))) \subseteq here(n))}
<1>1. SUFFICES ASSUME T # {} PROVE FALSE
  OBVIOUS
<1>2. Grove(h, {r}) /\ WellFormed(h, {r}) /\ Bounded(h)
  BY GroveStepped DEF OneTree
<1>3. T \subseteq DOMAIN h
  OBVIOUS
<1> HIDE DEF T
<1>4. PICK n \in T : n \in {r} \/ h[n].parent \notin T
  BY <1>1, <1>2, <1>3, HighestOf
<1>5. n \in DOMAIN h /\ ~(LeftBehind(h, Handle(n, Len(h[n].kv))) \subseteq here(n))
  BY <1>4 DEF T
<1>6. LeftBehind(h, Handle(n, Len(h[n].kv)))
        = {n} \cup (IF n = r THEN {} ELSE LeftBehind(h, Handle(h[n].parent, h[n].parent_idx)))
  BY <1>5, LeftBehindAtEnd
<1>7. n # r
  BY <1>5, <1>6
<1> DEFINE p == h[n].parent
           i == h[n].parent_idx
<1>8. /\ p \in DOMAIN h /\ i \in 0 .. Len(h[p].kv)
      /\ i = Len(h[p].kv) => LastAt(h, r, n) = LastAt(h, r, p)
  BY <1>5, <1>7, ParentSpan
<1>9. p \notin T
  BY <1>4, <1>7
<1>10. CASE i = Len(h[p].kv)
  <2>1. LeftBehind(h, Handle(p, i)) \subseteq here(p) /\ here(p) = here(n)
    BY <1>8, <1>9, <1>10 DEF T
  <2> QED BY <1>5, <1>6, <1>7, <2>1
<1>11. CASE i # Len(h[p].kv)
  <2>1. /\ Handle(p, i) \in Handles(h) /\ Handle(p, i).node = p /\ Handle(p, i).idx = i
        /\ len(h, p) = Len(h[p].kv) /\ Stepped(h)
    BY <1>2, <1>8, LastHandle
  <2>2. i < Len(h[p].kv)
    BY <1>8, <1>11
  <2>3. LeftBehind(h, Handle(p, i)) = {}
    BY <2>1, <2>2, LeftBehindStep
  <2> QED BY <1>5, <1>6, <1>7, <2>3
<1> QED BY <1>10, <1>11

\* At the last leaf edge below a node all nodes down to it are left behind.
LEMMA LeftBehindDown ==
  ASSUME NEW h, NEW r, OneTree(h, r)
  PROVE  \A n \in DOMAIN h : LeftBehind(h, Handle(n, Len(h[n].kv))) \subseteq LeftBehind(h, last_leaf_edge(h, n))
<1> DEFINE T == {n \in DOMAIN h : ~(LeftBehind(h, Handle(n, Len(h[n].kv)))
                                     \subseteq LeftBehind(h, last_leaf_edge(h, n)))}
<1>1. SUFFICES ASSUME T # {} PROVE FALSE
  OBVIOUS
<1>2. Grove(h, {r}) /\ WellFormed(h, {r}) /\ Stepped(h)
  BY GroveStepped DEF OneTree
<1>3. T \subseteq DOMAIN h
  OBVIOUS
<1> HIDE DEF T
<1>4. PICK n \in T : \A i \in 1 .. Len(h[n].edges) : h[n].edges[i] \notin T
  BY <1>1, <1>2, <1>3, LowestOf
<1> DEFINE k == Len(h[n].kv)
<1>5. /\ n \in DOMAIN h /\ k \in Nat /\ len(h, n) = k
      /\ ~(LeftBehind(h, Handle(n, k)) \subseteq LeftBehind(h, last_leaf_edge(h, n)))
  BY <1>2, <1>4, GroveStepped DEF T, len
<1>6. last_leaf_edge(h, n) = IF IsLeaf(h, n) THEN Handle(n, k)
                             ELSE IF descend(h, n, k) \in DOMAIN h
                             THEN last_leaf_edge(h, descend(h, n, k)) ELSE NoHandle
  BY <1>2, <1>5, LastLeafStep
<1>7. h[n].height # 0
  BY <1>5, <1>6 DEF IsLeaf
<1> DEFINE c == h[n].edges[k + 1]
<1>8. k + 1 \in 1 .. k + 1 /\ k + 1 - 1 = k
  BY <1>5
<1>9. c \in DOMAIN h /\ h[c].parent = n /\ h[c].parent_idx = k /\ descend(h, n, k) = c
  BY <1>2, <1>5, <1>7, <1>8, Children
<1>10. c \notin T
  <2>1. k + 1 \in 1 .. Len(h[n].edges)
    BY <1>2, <1>5, <1>7, <1>8, NodeArity
  <2> QED BY <1>4, <2>1
<1>11. last_leaf_edge(h, n) = last_leaf_edge(h, c)
  BY <1>6, <1>7, <1>9 DEF IsLeaf
<1>12. c # r
  <2>1. n # Nil
    BY <1>5, GroveStepped DEF OneTree
  <2>2. c = r => h[c].parent = Nil
    BY <1>2, <1>9, WellFormedFacts
  <2> QED BY <1>9, <2>1, <2>2
<1>13. LeftBehind(h, Handle(c, Len(h[c].kv))) = {c} \cup LeftBehind(h, Handle(n, k))
  BY <1>9, <1>12, LeftBehindAtEnd
<1>14. LeftBehind(h, Handle(c, Len(h[c].kv))) \subseteq LeftBehind(h, last_leaf_edge(h, c))
  BY <1>9, <1>10 DEF T
<1> QED BY <1>5, <1>11, <1>13, <1>14

\* On the way up from leaf edge number a, counted from 0, exactly the nodes that
\* end there are left behind.
LEMMA LeftBehindIs ==
  ASSUME NEW h, NEW r, OneTree(h, r), NEW a \in 0 .. Len(ElementsBelow(h, r))
  PROVE  LeftBehind(h, LeafEdges(h, r)[a + 1]) = {m \in DOMAIN h : LastAt(h, r, m) = a}
<1> DEFINE e == LeafEdges(h, r)[a + 1]
           n == e.node
           N == Len(ElementsBelow(h, r))
           L == LeafEdges(h, r)
<1>1. Grove(h, {r}) /\ Stepped(h) /\ Ordered(h, ElementsBelow(h, r), L, N) /\ Nil \notin DOMAIN h
  BY GroveStepped, RootOrdered DEF OneTree
<1>2. N \in Nat /\ a + 1 \in 1 .. N + 1 /\ a + 1 - 1 = a /\ a \in Nat
  BY <1>1 DEF Ordered
<1>3. LeafEdge(h, e)
  BY <1>1, <1>2 DEF Ordered
<1>4. /\ n \in DOMAIN h /\ e = Handle(n, e.idx) /\ e.idx \in Nat /\ e.idx <= Len(h[n].kv) /\ IsLeaf(h, n)
      /\ Len(h[n].kv) \in Nat /\ len(h, n) = Len(h[n].kv)
  BY <1>1, <1>3, GroveStepped DEF LeafEdge, Handle, IsLeaf, len
<1>5. e.idx \in 0 .. Len(h[n].kv)
  BY <1>4
<1>6. e \in Handles(h)
  BY <1>1, <1>4, <1>5, LastHandle
<1>7. Before(h, r, e) = a
  BY <1>2, BeforeEdge
<1>8. last_leaf_edge(h, n) = Handle(n, Len(h[n].kv))
  BY <1>1, <1>4, LastLeafStep
<1>9. CASE e.idx < Len(h[n].kv)
  <2>1. LeftBehind(h, e) = {}
    BY <1>1, <1>4, <1>6, <1>9, LeftBehindStep
  <2>2. ASSUME NEW m \in DOMAIN h, LastAt(h, r, m) = a
        PROVE  FALSE
    <3>1. last_leaf_edge(h, m) = e
      BY <2>2, NodeSpan
    <3>2. LeftBehind(h, Handle(m, Len(h[m].kv))) \subseteq {}
      BY <2>1, <3>1, LeftBehindDown
    <3>3. m \in LeftBehind(h, Handle(m, Len(h[m].kv)))
      BY LeftBehindAtEnd
    <3> QED BY <3>2, <3>3
  <2> QED BY <2>1, <2>2
<1>10. CASE e.idx = Len(h[n].kv)
  <2>1. e = last_leaf_edge(h, n) /\ LastAt(h, r, n) = a
    BY <1>4, <1>7, <1>8, <1>10 DEF LastAt
  <2>2. LeftBehind(h, e) \subseteq {m \in DOMAIN h : LastAt(h, r, m) = a}
    BY <1>4, <1>8, <2>1, LeftBehindEnds
  <2>3. ASSUME NEW m \in DOMAIN h, LastAt(h, r, m) = a
        PROVE  m \in LeftBehind(h, e)
    <3>1. last_leaf_edge(h, m) = e
      BY <2>3, NodeSpan
    <3>2. m \in LeftBehind(h, Handle(m, Len(h[m].kv)))
      BY LeftBehindAtEnd
    <3> QED BY <3>1, <3>2, LeftBehindDown
  <2> QED BY <2>2, <2>3
<1> QED BY <1>4, <1>9, <1>10

\* The mirror image of these facts.
LEMMA LeftBehindBackEnds ==
  ASSUME NEW h, NEW r, OneTree(h, r)
  PROVE  \A n \in DOMAIN h : LeftBehindBack(h, Handle(n, 0))
                               \subseteq {m \in DOMAIN h : FirstAt(h, r, m) = FirstAt(h, r, n)}
<1> DEFINE here(n) == {m \in DOMAIN h : FirstAt(h, r, m) = FirstAt(h, r, n)}
           T == {n \in DOMAIN h : ~(LeftBehindBack(h, Handle(n, 0)) \subseteq here(n))}
<1>1. SUFFICES ASSUME T # {} PROVE FALSE
  OBVIOUS
<1>2. Grove(h, {r}) /\ WellFormed(h, {r}) /\ Bounded(h)
  BY GroveStepped DEF OneTree
<1>3. T \subseteq DOMAIN h
  OBVIOUS
<1> HIDE DEF T
<1>4. PICK n \in T : n \in {r} \/ h[n].parent \notin T
  BY <1>1, <1>2, <1>3, HighestOf
<1>5. n \in DOMAIN h /\ ~(LeftBehindBack(h, Handle(n, 0)) \subseteq here(n))
  BY <1>4 DEF T
<1>6. LeftBehindBack(h, Handle(n, 0))
        = {n} \cup (IF n = r THEN {} ELSE LeftBehindBack(h, Handle(h[n].parent, h[n].parent_idx)))
  BY <1>5, LeftBehindAtStart
<1>7. n # r
  BY <1>5, <1>6
<1> DEFINE p == h[n].parent
           i == h[n].parent_idx
<1>8. p \in DOMAIN h /\ i \in 0 .. Len(h[p].kv) /\ (i = 0 => FirstAt(h, r, n) = FirstAt(h, r, p))
  BY <1>5, <1>7, ParentSpan
<1>9. p \notin T
  BY <1>4, <1>7
<1>10. CASE i = 0
  <2>1. LeftBehindBack(h, Handle(p, i)) \subseteq here(p) /\ here(p) = here(n)
    BY <1>8, <1>9, <1>10 DEF T
  <2> QED BY <1>5, <1>6, <1>7, <2>1
<1>11. CASE i # 0
  <2>1. Handle(p, i) \in Handles(h) /\ Handle(p, i).node = p /\ Handle(p, i).idx = i /\ Stepped(h)
    BY <1>2, <1>8, LastHandle
  <2>2. i > 0
    BY <1>8, <1>11
  <2>3. LeftBehindBack(h, Handle(p, i)) = {}
    BY <2>1, <2>2, LeftBehindBackStep
  <2> QED BY <1>5, <1>6, <1>7, <2>3
<1> QED BY <1>10, <1>11

LEMMA LeftBehindBackDown ==
  ASSUME NEW h, NEW r, OneTree(h, r)
  PROVE  \A n \in DOMAIN h : LeftBehindBack(h, Handle(n, 0)) \subseteq LeftBehindBack(h, first_leaf_edge(h, n))
<1> DEFINE T == {n \in DOMAIN h : ~(LeftBehindBack(h, Handle(n, 0))
                                     \subseteq LeftBehindBack(h, first_leaf_edge(h, n)))}
<1>1. SUFFICES ASSUME T # {} PROVE FALSE
  OBVIOUS
<1>2. Grove(h, {r}) /\ WellFormed(h, {r}) /\ Stepped(h)
  BY GroveStepped DEF OneTree
<1>3. T \subseteq DOMAIN h
  OBVIOUS
<1> HIDE DEF T
<1>4. PICK n \in T : \A i \in 1 .. Len(h[n].edges) : h[n].edges[i] \notin T
  BY <1>1, <1>2, <1>3, LowestOf
<1>5. /\ n \in DOMAIN h /\ Len(h[n].kv) \in Nat
      /\ ~(LeftBehindBack(h, Handle(n, 0)) \subseteq LeftBehindBack(h, first_leaf_edge(h, n)))
  BY <1>2, <1>4, GroveStepped DEF T
<1>6. first_leaf_edge(h, n) = IF IsLeaf(h, n) THEN Handle(n, 0)
                              ELSE IF descend(h, n, 0) \in DOMAIN h
                              THEN first_leaf_edge(h, descend(h, n, 0)) ELSE NoHandle
  BY <1>2, <1>5, FirstLeafStep
<1>7. h[n].height # 0
  BY <1>5, <1>6 DEF IsLeaf
<1> DEFINE c == h[n].edges[1]
<1>8. 1 \in 1 .. Len(h[n].kv) + 1 /\ 1 - 1 = 0
  BY <1>5
<1>9. c \in DOMAIN h /\ h[c].parent = n /\ h[c].parent_idx = 0 /\ descend(h, n, 0) = c
  BY <1>2, <1>5, <1>7, <1>8, Children
<1>10. c \notin T
  <2>1. 1 \in 1 .. Len(h[n].edges)
    BY <1>2, <1>5, <1>7, <1>8, NodeArity
  <2> QED BY <1>4, <2>1
<1>11. first_leaf_edge(h, n) = first_leaf_edge(h, c)
  BY <1>6, <1>7, <1>9 DEF IsLeaf
<1>12. c # r
  <2>1. n # Nil
    BY <1>5, GroveStepped DEF OneTree
  <2>2. c = r => h[c].parent = Nil
    BY <1>2, <1>9, WellFormedFacts
  <2> QED BY <1>9, <2>1, <2>2
<1>13. LeftBehindBack(h, Handle(c, 0)) = {c} \cup LeftBehindBack(h, Handle(n, 0))
  BY <1>9, <1>12, LeftBehindAtStart
<1>14. LeftBehindBack(h, Handle(c, 0)) \subseteq LeftBehindBack(h, first_leaf_edge(h, c))
  BY <1>9, <1>10 DEF T
<1> QED BY <1>5, <1>11, <1>13, <1>14

LEMMA LeftBehindBackIs ==
  ASSUME NEW h, NEW r, OneTree(h, r), NEW b \in 0 .. Len(ElementsBelow(h, r))
  PROVE  LeftBehindBack(h, LeafEdges(h, r)[b + 1]) = {m \in DOMAIN h : FirstAt(h, r, m) = b}
<1> DEFINE e == LeafEdges(h, r)[b + 1]
           n == e.node
           N == Len(ElementsBelow(h, r))
           L == LeafEdges(h, r)
<1>1. Grove(h, {r}) /\ Stepped(h) /\ Ordered(h, ElementsBelow(h, r), L, N) /\ Nil \notin DOMAIN h
  BY GroveStepped, RootOrdered DEF OneTree
<1>2. N \in Nat /\ b + 1 \in 1 .. N + 1 /\ b + 1 - 1 = b /\ b \in Nat
  BY <1>1 DEF Ordered
<1>3. LeafEdge(h, e)
  BY <1>1, <1>2 DEF Ordered
<1>4. /\ n \in DOMAIN h /\ e = Handle(n, e.idx) /\ e.idx \in Nat /\ e.idx <= Len(h[n].kv) /\ IsLeaf(h, n)
      /\ Len(h[n].kv) \in Nat
  BY <1>1, <1>3, GroveStepped DEF LeafEdge, Handle, IsLeaf
<1>5. e.idx \in 0 .. Len(h[n].kv)
  BY <1>4
<1>6. e \in Handles(h)
  BY <1>1, <1>4, <1>5, LastHandle
<1>7. Before(h, r, e) = b
  BY <1>2, BeforeEdge
<1>8. first_leaf_edge(h, n) = Handle(n, 0)
  BY <1>1, <1>4, FirstLeafStep
<1>9. CASE e.idx > 0
  <2>1. LeftBehindBack(h, e) = {}
    BY <1>1, <1>4, <1>6, <1>9, LeftBehindBackStep
  <2>2. ASSUME NEW m \in DOMAIN h, FirstAt(h, r, m) = b
        PROVE  FALSE
    <3>1. first_leaf_edge(h, m) = e
      BY <2>2, NodeSpan
    <3>2. LeftBehindBack(h, Handle(m, 0)) \subseteq {}
      BY <2>1, <3>1, LeftBehindBackDown
    <3>3. m \in LeftBehindBack(h, Handle(m, 0))
      BY LeftBehindAtStart
    <3> QED BY <3>2, <3>3
  <2> QED BY <2>1, <2>2
<1>10. CASE e.idx = 0
  <2>1. e = first_leaf_edge(h, n) /\ FirstAt(h, r, n) = b
    BY <1>4, <1>7, <1>8, <1>10 DEF FirstAt
  <2>2. LeftBehindBack(h, e) \subseteq {m \in DOMAIN h : FirstAt(h, r, m) = b}
    BY <1>4, <1>8, <2>1, LeftBehindBackEnds
  <2>3. ASSUME NEW m \in DOMAIN h, FirstAt(h, r, m) = b
        PROVE  m \in LeftBehindBack(h, e)
    <3>1. first_leaf_edge(h, m) = e
      BY <2>3, NodeSpan
    <3>2. m \in LeftBehindBack(h, Handle(m, 0))
      BY LeftBehindAtStart
    <3> QED BY <3>1, <3>2, LeftBehindBackDown
  <2> QED BY <2>2, <2>3
<1> QED BY <1>4, <1>9, <1>10

\* A node and all nodes above it: those whose stretch includes its own.
NodesAt(h, r, a) == {m \in DOMAIN h : FirstAt(h, r, m) <= a /\ a <= LastAt(h, r, m)}

LEMMA PileAt ==
  ASSUME NEW h, NEW r, OneTree(h, r), NEW n \in DOMAIN h
  PROVE  Pile(h, n) = {n} \cup (IF n = r THEN {} ELSE Pile(h, h[n].parent))
<1>1. Grove(h, {r}) /\ WellFormed(h, {r}) /\ Nil \notin DOMAIN h /\ Stepped(h)
  BY GroveStepped DEF OneTree
<1>2. n = r => h[n].parent = Nil
  BY <1>1, WellFormedFacts
<1>3. n # r => h[n].parent \in DOMAIN h
  BY <1>1, WellFormedFacts
<1> QED BY <1>1, <1>2, <1>3, PileStep

LEMMA PileAbove ==
  ASSUME NEW h, NEW r, OneTree(h, r)
  PROVE  \A n \in DOMAIN h : Pile(h, n) \subseteq
           {m \in DOMAIN h : FirstAt(h, r, m) <= FirstAt(h, r, n) /\ LastAt(h, r, n) <= LastAt(h, r, m)}
<1> DEFINE over(n) == {m \in DOMAIN h : FirstAt(h, r, m) <= FirstAt(h, r, n) /\ LastAt(h, r, n) <= LastAt(h, r, m)}
           T == {n \in DOMAIN h : ~(Pile(h, n) \subseteq over(n))}
<1>1. SUFFICES ASSUME T # {} PROVE FALSE
  OBVIOUS
<1>2. Grove(h, {r}) /\ WellFormed(h, {r}) /\ Bounded(h)
  BY GroveStepped DEF OneTree
<1>3. T \subseteq DOMAIN h
  OBVIOUS
<1> HIDE DEF T
<1>4. PICK n \in T : n \in {r} \/ h[n].parent \notin T
  BY <1>1, <1>2, <1>3, HighestOf
<1>5. n \in DOMAIN h /\ ~(Pile(h, n) \subseteq over(n))
  BY <1>4 DEF T
<1>6. \A m \in DOMAIN h : FirstAt(h, r, m) \in Nat /\ LastAt(h, r, m) \in Nat
  BY NodeSpan
<1>7. n \in over(n)
  BY <1>5, <1>6
<1>8. n # r /\ Pile(h, n) = {n} \cup Pile(h, h[n].parent)
  <2>1. Pile(h, n) = {n} \cup (IF n = r THEN {} ELSE Pile(h, h[n].parent))
    BY <1>5, PileAt
  <2> QED BY <1>5, <1>7, <2>1
<1> DEFINE p == h[n].parent
<1>9. p \in DOMAIN h /\ FirstAt(h, r, p) <= FirstAt(h, r, n) /\ LastAt(h, r, n) <= LastAt(h, r, p)
  BY <1>5, <1>8, ParentSpan
<1>10. Pile(h, p) \subseteq over(p)
  BY <1>4, <1>8, <1>9 DEF T
<1>11. over(p) \subseteq over(n)
  BY <1>5, <1>6, <1>9
<1> QED BY <1>5, <1>7, <1>8, <1>10, <1>11

LEMMA PileDown ==
  ASSUME NEW h, NEW r, OneTree(h, r)
  PROVE  \A n \in DOMAIN h : \A t \in 1 .. Len(ElementsBelow(h, n)) + 1 :
           Pile(h, n) \subseteq Pile(h, LeafEdges(h, n)[t].node)
<1> DEFINE low(n) == \A t \in 1 .. Len(ElementsBelow(h, n)) + 1 : Pile(h, n) \subseteq Pile(h, LeafEdges(h, n)[t].node)
           T == {n \in DOMAIN h : ~low(n)}
<1>1. SUFFICES ASSUME T # {} PROVE FALSE
  OBVIOUS
<1>2. Grove(h, {r}) /\ WellFormed(h, {r}) /\ Bounded(h) /\ Nil \notin DOMAIN h
  BY GroveStepped DEF OneTree
<1>3. T \subseteq DOMAIN h
  OBVIOUS
<1> HIDE DEF T
<1>4. PICK n \in T : \A i \in 1 .. Len(h[n].edges) : h[n].edges[i] \notin T
  BY <1>1, <1>2, <1>3, LowestOf
<1> DEFINE k == Len(h[n].kv)
<1>5. n \in DOMAIN h /\ ~low(n) /\ k \in Nat
  BY <1>2, <1>4, GroveStepped DEF T
<1> HIDE DEF low
<1>6. PICK t \in 1 .. Len(ElementsBelow(h, n)) + 1 : ~(Pile(h, n) \subseteq Pile(h, LeafEdges(h, n)[t].node))
  BY <1>5 DEF low
<1>7. CASE h[n].height = 0
  <2>1. Len(ElementsBelow(h, n)) = k /\ \A i \in 1 .. k + 1 : LeafEdges(h, n)[i] = Handle(n, i - 1)
    BY <1>2, <1>5, <1>7, LeafSequences
  <2>3. t \in 1 .. k + 1
    BY <2>1
  <2>4. LeafEdges(h, n)[t] = Handle(n, t - 1)
    BY <2>1, <2>3
  <2>2. LeafEdges(h, n)[t].node = n
    BY <2>4 DEF Handle
  <2> QED BY <1>6, <2>2
<1>8. CASE h[n].height # 0
  <2> DEFINE w == [j \in 1 .. k + 1 |-> Len(ElementsBelow(h, h[n].edges[j]))]
  <2>1. PICK off : LaidOut(h, n, off)
    BY <1>2, <1>5, <1>8, GroveStepped
  <2>2. Stairs(k, off, w)
    BY <1>2, <1>5, <1>8, <2>1, StairsOf
  <2>3. Len(ElementsBelow(h, n)) + 1 = off[k + 1]
    BY <2>1 DEF LaidOut
  <2>4. PICK j \in 1 .. k + 1 : \E s \in 1 .. w[j] + 1 : t = off[j - 1] + s
    <3>1. t \in 1 .. off[k + 1]
      BY <1>6, <2>3
    <3> HIDE DEF w, k
    <3>2. OnStair(k, off, w, t)
      BY <1>5, <2>2, <3>1, Locate
    <3> QED BY <3>2 DEF OnStair
  <2>5. PICK s \in 1 .. w[j] + 1 : t = off[j - 1] + s
    BY <2>4
  <2> DEFINE c == h[n].edges[j]
  <2>6. c \in DOMAIN h /\ h[c].parent = n /\ Len(ElementsBelow(h, c)) \in Nat
        /\ Len(LeafEdges(h, c)) = Len(ElementsBelow(h, c)) + 1
    BY <1>2, <1>5, <1>8, Children
  <2>7. w[j] = Len(ElementsBelow(h, c))
    OBVIOUS
  <2>8. LeafEdges(h, n)[t] = LeafEdges(h, c)[s]
    <3>1. \A y \in 1 .. Len(LeafEdges(h, c)) : LeafEdges(h, n)[off[j - 1] + y] = LeafEdges(h, c)[y]
      BY <2>1 DEF LaidOut
    <3>2. s \in 1 .. Len(LeafEdges(h, c))
      BY <2>6, <2>7
    <3> QED BY <2>5, <3>1, <3>2
  <2>9. j \in 1 .. Len(h[n].edges)
    BY <1>2, <1>5, <1>8, NodeArity
  <2>10. low(c)
    BY <1>4, <2>6, <2>9 DEF T
  <2>11. Pile(h, c) \subseteq Pile(h, LeafEdges(h, c)[s].node)
    BY <2>7, <2>10 DEF low
  <2>12. c # r
    <3>1. c = r => h[c].parent = Nil
      BY <1>2, <2>6, WellFormedFacts
    <3> QED BY <1>2, <1>5, <2>6, <3>1
  <2>13. Pile(h, c) = {c} \cup Pile(h, n)
    BY <2>6, <2>12, PileAt
  <2> QED BY <1>6, <2>8, <2>11, <2>13
<1> QED BY <1>7, <1>8

\* The leaf at edge number a and the nodes above it are those around that edge.
LEMMA PileIs ==
  ASSUME NEW h, NEW r, OneTree(h, r), NEW a \in 0 .. Len(ElementsBelow(h, r))
  PROVE  /\ Pile(h, LeafEdges(h, r)[a + 1].node) = NodesAt(h, r, a)
         /\ LeafEdges(h, r)[a + 1].node \in NodesAt(h, r, a)
<1> DEFINE e == LeafEdges(h, r)[a + 1]
           n == e.node
           N == Len(ElementsBelow(h, r))
<1>1. Ordered(h, ElementsBelow(h, r), LeafEdges(h, r), N)
  BY RootOrdered
<1>2. N \in Nat /\ a + 1 \in 1 .. N + 1 /\ a \in Nat
  BY <1>1 DEF Ordered
<1>3. LeafEdge(h, e)
  BY <1>1, <1>2 DEF Ordered
<1>4. n \in DOMAIN h /\ e = Handle(n, e.idx) /\ e.idx \in Nat /\ e.idx <= Len(h[n].kv) /\ h[n].height = 0
  BY <1>3 DEF LeafEdge, Handle
\* the leaf's own stretch
<1>5. FirstAt(h, r, n) <= a /\ a <= LastAt(h, r, n)
  <2> DEFINE k == Len(h[n].kv)
             lo == FirstAt(h, r, n)
             i == e.idx + 1
  <2>1. Len(ElementsBelow(h, n)) = k /\ \A y \in 1 .. k + 1 : LeafEdges(h, n)[y] = Handle(n, y - 1)
    BY <1>4, LeafSequences, GroveStepped DEF OneTree
  <2>2. /\ Stretch(h, r, n, lo) /\ lo \in Nat /\ LastAt(h, r, n) = lo + k /\ LastAt(h, r, n) <= N /\ k \in Nat
    <3>1. k \in Nat
      BY <1>4, GroveStepped, WellFormedFacts DEF OneTree
    <3>2. /\ Stretch(h, r, n, lo) /\ lo \in Nat /\ LastAt(h, r, n) <= N
          /\ LastAt(h, r, n) = lo + Len(ElementsBelow(h, n))
      BY <1>4, NodeSpan
    <3> QED BY <2>1, <3>1, <3>2
  <2>3. i \in 1 .. k + 1 /\ i - 1 = e.idx
    <3>1. \A x, y \in Nat : x <= y => x + 1 \in 1 .. y + 1 /\ x + 1 - 1 = x
      OBVIOUS
    <3> HIDE DEF e
    <3>2. e.idx \in Nat /\ e.idx <= k /\ k \in Nat
      BY <1>4, <2>2, Zenon
    <3> HIDE DEF k
    <3> QED BY <3>1, <3>2
  <2>4. LeafEdges(h, r)[lo + i] = LeafEdges(h, n)[i]
    <3>1. \A x \in 1 .. k + 1 : LeafEdges(h, r)[lo + x] = LeafEdges(h, n)[x]
      BY <2>1, <2>2 DEF Stretch
    <3> HIDE DEF lo, i, k
    <3> QED BY <2>3, <3>1
  <2>5. LeafEdges(h, n)[i] = e
    <3>1. LeafEdges(h, n)[i] = Handle(n, i - 1)
      BY <2>1, <2>3
    <3> QED BY <1>4, <2>3, <3>1
  <2> HIDE DEF lo, i, k
  <2>6. lo + i \in 1 .. N + 1
    BY <1>2, <2>2, <2>3
  <2>7. lo + i = a + 1
    <3> DEFINE x == lo + i
               y == a + 1
    <3>1. x \in 1 .. N + 1 /\ y \in 1 .. N + 1 /\ LeafEdges(h, r)[x] = LeafEdges(h, r)[y]
      BY <1>2, <2>4, <2>5, <2>6
    <3>2. Nil \notin DOMAIN h
      BY GroveStepped DEF OneTree
    <3> HIDE DEF x, y
    <3>3. x = y
      BY <1>1, <3>1, <3>2, EdgesDiffer
    <3> QED BY <3>3 DEF x, y
  <2>8. lo <= a /\ a <= lo + k
    BY <1>2, <2>2, <2>3, <2>7
  <2> QED BY <2>2, <2>8 DEF lo
<1>6. ASSUME NEW m \in Pile(h, n) PROVE m \in NodesAt(h, r, a)
  <2>1. m \in DOMAIN h /\ FirstAt(h, r, m) <= FirstAt(h, r, n) /\ LastAt(h, r, n) <= LastAt(h, r, m)
    BY <1>4, PileAbove
  <2>2. /\ FirstAt(h, r, m) \in Nat /\ LastAt(h, r, m) \in Nat
        /\ FirstAt(h, r, n) \in Nat /\ LastAt(h, r, n) \in Nat
    BY <1>4, <2>1, NodeSpan
  <2>3. FirstAt(h, r, m) <= a /\ a <= LastAt(h, r, m)
    BY <1>2, <1>5, <2>1, <2>2
  <2> QED BY <2>1, <2>3 DEF NodesAt
<1>7. ASSUME NEW m \in NodesAt(h, r, a) PROVE m \in Pile(h, n)
  <2> DEFINE lo == FirstAt(h, r, m)
             w == Len(ElementsBelow(h, m))
  <2>1. m \in DOMAIN h /\ lo <= a /\ a <= LastAt(h, r, m)
    BY DEF NodesAt
  <2>2. /\ Stretch(h, r, m, lo) /\ lo \in Nat /\ LastAt(h, r, m) \in Nat /\ LastAt(h, r, m) = lo + w
    BY <2>1, NodeSpan
  <2>3. w \in Nat
    BY <2>1, GroveStepped DEF OneTree, Sequences
  <2> DEFINE t == a + 1 - lo
  <2> HIDE DEF lo, w
  <2>4. t \in 1 .. w + 1 /\ lo + t = a + 1
    BY <1>2, <2>1, <2>2, <2>3
  <2>5. LeafEdges(h, r)[lo + t] = LeafEdges(h, m)[t]
    <3> HIDE DEF t
    <3> QED BY <2>2, <2>4 DEF Stretch, w
  <2>6. LeafEdges(h, m)[t] = e
    BY <2>4, <2>5
  <2>7. Pile(h, m) \subseteq Pile(h, n)
    <3> HIDE DEF t
    <3>1. Pile(h, m) \subseteq Pile(h, LeafEdges(h, m)[t].node)
      BY <2>1, <2>4, PileDown DEF w
    <3> QED BY <2>6, <3>1
  <2>8. m \in Pile(h, m)
    BY <2>1, PileAt
  <2> QED BY <2>7, <2>8
<1>8. n \in NodesAt(h, r, a)
  BY <1>4, <1>5 DEF NodesAt
<1> QED BY <1>6, <1>7, <1>8

-----------------------------------------------------------------------------
(* Trees of which nodes have been freed *)

\* What is left of a tree when the ends of an iterator have come to the leaf edges
\* a and b: the nodes that do not end before a or begin after b.
KeptNodes(h, r, a, b) == {m \in DOMAIN h : a <= LastAt(h, r, m) /\ FirstAt(h, r, m) <= b}

Remains(g, h, r, a, b) == g = [m \in KeptNodes(h, r, a, b) |-> h[m]]

\* With a node its parent is left, so that the walks up go on.
LEMMA RemainsStepped ==
  ASSUME NEW h, NEW r, OneTree(h, r), NEW a \in Nat, NEW b \in Nat, NEW g, Remains(g, h, r, a, b)
  PROVE  /\ DOMAIN g = KeptNodes(h, r, a, b) /\ DOMAIN g \subseteq DOMAIN h /\ \A m \in DOMAIN g : g[m] = h[m]
         /\ \A m \in DOMAIN g : /\ m # r => h[m].parent \in DOMAIN g
                                /\ h[m].parent = Nil <=> m = r
         /\ Stepped(g) /\ Nil \notin DOMAIN h
<1>1. Grove(h, {r}) /\ WellFormed(h, {r}) /\ Stepped(h) /\ Nil \notin DOMAIN h /\ Bounded(h) /\ Roomy(h)
  BY GroveStepped DEF OneTree
<1>2. DOMAIN g = KeptNodes(h, r, a, b) /\ DOMAIN g \subseteq DOMAIN h /\ \A m \in DOMAIN g : g[m] = h[m]
  BY DEF Remains, KeptNodes
<1>3. ASSUME NEW m \in DOMAIN g, m # r
      PROVE  h[m].parent \in DOMAIN g /\ h[m].parent \in DOMAIN h
  <2> DEFINE p == h[m].parent
  <2>1. /\ p \in DOMAIN h /\ FirstAt(h, r, p) <= FirstAt(h, r, m) /\ LastAt(h, r, m) <= LastAt(h, r, p)
    BY <1>2, <1>3, ParentSpan
  <2>2. /\ FirstAt(h, r, p) \in Nat /\ LastAt(h, r, p) \in Nat
        /\ FirstAt(h, r, m) \in Nat /\ LastAt(h, r, m) \in Nat
    BY <1>2, <2>1, NodeSpan
  <2>3. a <= LastAt(h, r, m) /\ FirstAt(h, r, m) <= b
    BY <1>2 DEF KeptNodes
  <2>4. a <= LastAt(h, r, p) /\ FirstAt(h, r, p) <= b
    BY <2>1, <2>2, <2>3
  <2> QED BY <1>2, <2>1, <2>4 DEF KeptNodes
<1>4. ASSUME NEW m \in DOMAIN g
      PROVE  h[m].parent = Nil <=> m = r
  <2>1. m = r => h[m].parent = Nil
    BY <1>1, <1>2, WellFormedFacts
  <2> QED BY <1>1, <1>3, <2>1
<1>5. Bounded(g) /\ Roomy(g)
  BY <1>1, <1>2 DEF Bounded, Roomy
<1>6. ASSUME NEW m \in DOMAIN g
      PROVE  /\ g[m].height \in Nat /\ Len(g[m].kv) \in Nat
             /\ g[m].parent # Nil => /\ g[m].parent \in DOMAIN g /\ g[m].parent_idx \in 0 .. CAPACITY
                                     /\ g[g[m].parent].height > g[m].height
             /\ \A i \in 1 .. Len(g[m].kv) + 1 : g[m].height # 0 /\ g[m].edges[i] \in DOMAIN g =>
                  g[g[m].edges[i]].height < g[m].height
  <2>1. /\ h[m].height \in Nat /\ Len(h[m].kv) \in Nat
        /\ h[m].parent # Nil => /\ h[m].parent \in DOMAIN h /\ h[m].parent_idx \in 0 .. CAPACITY
                                /\ h[h[m].parent].height > h[m].height
        /\ \A i \in 1 .. Len(h[m].kv) + 1 : h[m].height # 0 /\ h[m].edges[i] \in DOMAIN h =>
             h[h[m].edges[i]].height < h[m].height
    BY <1>1, <1>2 DEF Stepped
  <2>2. g[m] = h[m] /\ (h[m].parent # Nil => h[m].parent \in DOMAIN g)
    BY <1>2, <1>3, <1>4
  <2> QED BY <1>2, <2>1, <2>2
<1>7. Stepped(g)
  BY <1>5, <1>6 DEF Stepped
<1> QED BY <1>1, <1>2, <1>3, <1>4, <1>7

\* Of spots in a heap that can be climbed, one has its parent's spot outside.
LEMMA HighestSpot ==
  ASSUME NEW h, Stepped(h), NEW T, T \subseteq Handles(h), T # {}
  PROVE  \E x \in T : h[x.node].parent = Nil \/ ascend(h, x.node) \notin T
<1>1. SUFFICES ASSUME \A x \in T : h[x.node].parent # Nil /\ ascend(h, x.node) \in T
               PROVE  FALSE
  OBVIOUS
<1>2. PICK top \in Nat : \A m \in DOMAIN h : h[m].height <= top
  BY DEF Bounded, Stepped
<1> DEFINE D == {d \in Nat : \E x \in T : d = top - h[x.node].height}
<1>3. \A x \in T : x.node \in DOMAIN h /\ h[x.node].height \in Nat /\ h[x.node].height <= top
                   /\ top - h[x.node].height \in Nat
  BY <1>2 DEF Stepped, Handles
<1>4. D \subseteq Nat /\ D # {}
  BY <1>3
<1> HIDE DEF D
<1>5. PICK d \in D : \A y \in D : d <= y
  BY <1>4, Least
<1>6. PICK x \in T : d = top - h[x.node].height
  BY <1>5 DEF D
<1> DEFINE u == ascend(h, x.node)
<1>7. u \in T /\ u.node = h[x.node].parent /\ h[x.node].parent # Nil
  BY <1>1, <1>6 DEF ascend, Handle
<1>8. h[u.node].height > h[x.node].height
  BY <1>3, <1>6, <1>7 DEF Stepped
<1>9. top - h[u.node].height \in D
  BY <1>3, <1>7 DEF D
<1>10. d <= top - h[u.node].height
  BY <1>5, <1>9
<1> QED BY <1>3, <1>6, <1>7, <1>8, <1>10

\* The spots of what is left, and the way up from there.
LEMMA RemainsSpots ==
  ASSUME NEW h, NEW r, OneTree(h, r), NEW a \in Nat, NEW b \in Nat, NEW g, Remains(g, h, r, a, b),
         NEW x \in Handles(g)
  PROVE  /\ x \in Handles(h) /\ x.node \in DOMAIN g /\ len(g, x.node) = len(h, x.node)
         /\ g[x.node].parent = h[x.node].parent /\ ascend(g, x.node) = ascend(h, x.node)
         /\ Stepped(g) /\ Stepped(h)
         /\ h[x.node].parent # Nil => ascend(h, x.node) \in Handles(g)
<1>1. /\ DOMAIN g \subseteq DOMAIN h /\ \A m \in DOMAIN g : g[m] = h[m]
      /\ Stepped(g) /\ Nil \notin DOMAIN h
  BY RemainsStepped
<1>2. Stepped(h)
  BY GroveStepped DEF OneTree
<1>3. x.node \in DOMAIN g /\ x \in Handles(h)
  BY <1>1 DEF Handles
<1>4. g[x.node] = h[x.node]
  BY <1>1, <1>3
<1>5. h[x.node].parent # Nil => h[x.node].parent \in DOMAIN g /\ h[x.node].parent_idx \in 0 .. CAPACITY
  BY <1>1, <1>3, <1>4 DEF Stepped
<1>6. h[x.node].parent # Nil => ascend(h, x.node) \in Handles(g)
  BY <1>5 DEF ascend, Handle, Handles
<1> QED BY <1>1, <1>2, <1>3, <1>4, <1>6 DEF len, ascend

\* The walks up are the same in what is left.
LEMMA RemainsNextKv ==
  ASSUME NEW h, NEW r, OneTree(h, r), NEW a \in Nat, NEW b \in Nat, NEW g, Remains(g, h, r, a, b)
  PROVE  \A x \in Handles(g) : next_kv(g, x) = next_kv(h, x)
<1> DEFINE T == {x \in Handles(g) : next_kv(g, x) # next_kv(h, x)}
<1>1. SUFFICES ASSUME T # {} PROVE FALSE
  OBVIOUS
<1>2. T \subseteq Handles(g) /\ Stepped(g)
  BY RemainsStepped
<1> HIDE DEF T
<1>3. PICK x \in T : g[x.node].parent = Nil \/ ascend(g, x.node) \notin T
  BY <1>1, <1>2, HighestSpot
<1>4. x \in Handles(g) /\ next_kv(g, x) # next_kv(h, x)
  BY <1>3 DEF T
<1>5. /\ x \in Handles(h) /\ len(g, x.node) = len(h, x.node)
      /\ g[x.node].parent = h[x.node].parent /\ ascend(g, x.node) = ascend(h, x.node)
      /\ Stepped(g) /\ Stepped(h)
      /\ h[x.node].parent # Nil => ascend(h, x.node) \in Handles(g)
  BY <1>4, RemainsSpots
<1>6. g[x.node].parent # Nil => next_kv(g, ascend(g, x.node)) = next_kv(h, ascend(h, x.node))
  BY <1>3, <1>5 DEF T
<1>7. next_kv(g, x) = IF x.idx < len(g, x.node) THEN x
                      ELSE IF g[x.node].parent # Nil THEN next_kv(g, ascend(g, x.node)) ELSE NoHandle
  BY <1>4, <1>5, NextKvStep
<1>8. next_kv(h, x) = IF x.idx < len(h, x.node) THEN x
                      ELSE IF h[x.node].parent # Nil THEN next_kv(h, ascend(h, x.node)) ELSE NoHandle
  BY <1>5, NextKvStep
<1> QED BY <1>4, <1>5, <1>6, <1>7, <1>8

LEMMA RemainsNextBackKv ==
  ASSUME NEW h, NEW r, OneTree(h, r), NEW a \in Nat, NEW b \in Nat, NEW g, Remains(g, h, r, a, b)
  PROVE  \A x \in Handles(g) : next_back_kv(g, x) = next_back_kv(h, x)
<1> DEFINE T == {x \in Handles(g) : next_back_kv(g, x) # next_back_kv(h, x)}
<1>1. SUFFICES ASSUME T # {} PROVE FALSE
  OBVIOUS
<1>2. T \subseteq Handles(g) /\ Stepped(g)
  BY RemainsStepped
<1> HIDE DEF T
<1>3. PICK x \in T : g[x.node].parent = Nil \/ ascend(g, x.node) \notin T
  BY <1>1, <1>2, HighestSpot
<1>4. x \in Handles(g) /\ next_back_kv(g, x) # next_back_kv(h, x)
  BY <1>3 DEF T
<1>5. /\ x \in Handles(h)
      /\ g[x.node].parent = h[x.node].parent /\ ascend(g, x.node) = ascend(h, x.node)
      /\ Stepped(g) /\ Stepped(h)
      /\ h[x.node].parent # Nil => ascend(h, x.node) \in Handles(g)
  BY <1>4, RemainsSpots
<1>6. g[x.node].parent # Nil => next_back_kv(g, ascend(g, x.node)) = next_back_kv(h, ascend(h, x.node))
  BY <1>3, <1>5 DEF T
<1>7. next_back_kv(g, x) = IF x.idx > 0 THEN Handle(x.node, x.idx - 1)
                           ELSE IF g[x.node].parent # Nil THEN next_back_kv(g, ascend(g, x.node)) ELSE NoHandle
  BY <1>4, <1>5, NextBackKvStep
<1>8. next_back_kv(h, x) = IF x.idx > 0 THEN Handle(x.node, x.idx - 1)
                           ELSE IF h[x.node].parent # Nil THEN next_back_kv(h, ascend(h, x.node)) ELSE NoHandle
  BY <1>5, NextBackKvStep
<1> QED BY <1>4, <1>5, <1>6, <1>7, <1>8

LEMMA RemainsLeftBehind ==
  ASSUME NEW h, NEW r, OneTree(h, r), NEW a \in Nat, NEW b \in Nat, NEW g, Remains(g, h, r, a, b)
  PROVE  \A x \in Handles(g) : LeftBehind(g, x) = LeftBehind(h, x) /\ LeftBehindBack(g, x) = LeftBehindBack(h, x)
<1> DEFINE T == {x \in Handles(g) : ~(LeftBehind(g, x) = LeftBehind(h, x) /\ LeftBehindBack(g, x) = LeftBehindBack(h, x))}
<1>1. SUFFICES ASSUME T # {} PROVE FALSE
  OBVIOUS
<1>2. T \subseteq Handles(g) /\ Stepped(g)
  BY RemainsStepped
<1> HIDE DEF T
<1>3. PICK x \in T : g[x.node].parent = Nil \/ ascend(g, x.node) \notin T
  BY <1>1, <1>2, HighestSpot
<1>4. x \in Handles(g) /\ ~(LeftBehind(g, x) = LeftBehind(h, x) /\ LeftBehindBack(g, x) = LeftBehindBack(h, x))
  BY <1>3 DEF T
<1>5. /\ x \in Handles(h) /\ len(g, x.node) = len(h, x.node)
      /\ g[x.node].parent = h[x.node].parent /\ ascend(g, x.node) = ascend(h, x.node)
      /\ Stepped(g) /\ Stepped(h)
      /\ h[x.node].parent # Nil => ascend(h, x.node) \in Handles(g)
  BY <1>4, RemainsSpots
<1>6. g[x.node].parent # Nil => /\ LeftBehind(g, ascend(g, x.node)) = LeftBehind(h, ascend(h, x.node))
                                /\ LeftBehindBack(g, ascend(g, x.node)) = LeftBehindBack(h, ascend(h, x.node))
  BY <1>3, <1>5 DEF T
<1>7. LeftBehind(g, x) = IF x.idx < len(g, x.node) THEN {}
                         ELSE {x.node} \cup (IF g[x.node].parent = Nil THEN {}
                                             ELSE LeftBehind(g, ascend(g, x.node)))
  BY <1>4, <1>5, LeftBehindStep
<1>8. LeftBehind(h, x) = IF x.idx < len(h, x.node) THEN {}
                         ELSE {x.node} \cup (IF h[x.node].parent = Nil THEN {}
                                             ELSE LeftBehind(h, ascend(h, x.node)))
  BY <1>5, LeftBehindStep
<1>9. LeftBehindBack(g, x) = IF x.idx > 0 THEN {}
                             ELSE {x.node} \cup (IF g[x.node].parent = Nil THEN {}
                                                 ELSE LeftBehindBack(g, ascend(g, x.node)))
  BY <1>4, <1>5, LeftBehindBackStep
<1>10. LeftBehindBack(h, x) = IF x.idx > 0 THEN {}
                              ELSE {x.node} \cup (IF h[x.node].parent = Nil THEN {}
                                                  ELSE LeftBehindBack(h, ascend(h, x.node)))
  BY <1>5, LeftBehindBackStep
<1> QED BY <1>4, <1>5, <1>6, <1>7, <1>8, <1>9, <1>10

LEMMA RemainsPile ==
  ASSUME NEW h, NEW r, OneTree(h, r), NEW a \in Nat, NEW b \in Nat, NEW g, Remains(g, h, r, a, b)
  PROVE  \A n \in DOMAIN g : Pile(g, n) = Pile(h, n)
<1> DEFINE T == {n \in DOMAIN g : Pile(g, n) # Pile(h, n)}
<1>1. SUFFICES ASSUME T # {} PROVE FALSE
  OBVIOUS
<1>2. /\ DOMAIN g \subseteq DOMAIN h /\ (\A m \in DOMAIN g : g[m] = h[m]) /\ Stepped(g) /\ Nil \notin DOMAIN h
      /\ \A m \in DOMAIN g : m # r => h[m].parent \in DOMAIN g
  BY RemainsStepped
<1>3. Grove(h, {r}) /\ WellFormed(h, {r}) /\ Bounded(h) /\ Stepped(h)
  BY GroveStepped DEF OneTree
<1>4. T \subseteq DOMAIN h
  BY <1>2
<1> HIDE DEF T
<1>5. PICK n \in T : n \in {r} \/ h[n].parent \notin T
  BY <1>1, <1>3, <1>4, HighestOf
<1>6. n \in DOMAIN g /\ n \in DOMAIN h /\ g[n] = h[n] /\ Pile(g, n) # Pile(h, n)
  BY <1>2, <1>5 DEF T
<1>7. Pile(g, n) = {n} \cup (IF g[n].parent = Nil THEN {} ELSE Pile(g, g[n].parent))
  BY <1>2, <1>6, PileStep
<1>8. Pile(h, n) = {n} \cup (IF h[n].parent = Nil THEN {} ELSE Pile(h, h[n].parent))
  BY <1>3, <1>6, PileStep
<1>9. n = r => h[n].parent = Nil
  BY <1>3, <1>6, WellFormedFacts
<1>10. n # r => Pile(g, h[n].parent) = Pile(h, h[n].parent)
  BY <1>2, <1>5, <1>6 DEF T
<1> QED BY <1>6, <1>7, <1>8, <1>9, <1>10

\* So are the walks down that lead between the two ends.
LEMMA RemainsFirstLeaf ==
  ASSUME NEW h, NEW r, OneTree(h, r), NEW a \in Nat, NEW b \in Nat, NEW g, Remains(g, h, r, a, b)
  PROVE  \A n \in DOMAIN h : a <= FirstAt(h, r, n) /\ FirstAt(h, r, n) <= b =>
           n \in DOMAIN g /\ first_leaf_edge(g, n) = first_leaf_edge(h, n)
<1> DEFINE T == {n \in DOMAIN h : a <= FirstAt(h, r, n) /\ FirstAt(h, r, n) <= b /\
                   ~(n \in DOMAIN g /\ first_leaf_edge(g, n) = first_leaf_edge(h, n))}
<1>1. SUFFICES ASSUME T # {} PROVE FALSE
  OBVIOUS
<1>2. /\ DOMAIN g = KeptNodes(h, r, a, b) /\ (\A m \in DOMAIN g : g[m] = h[m]) /\ Stepped(g) /\ Nil \notin DOMAIN h
  BY RemainsStepped
<1>3. Grove(h, {r}) /\ WellFormed(h, {r}) /\ Stepped(h)
  BY GroveStepped DEF OneTree
<1>4. T \subseteq DOMAIN h
  OBVIOUS
<1> HIDE DEF T
<1>5. PICK n \in T : \A i \in 1 .. Len(h[n].edges) : h[n].edges[i] \notin T
  BY <1>1, <1>3, <1>4, LowestOf
<1>6. /\ n \in DOMAIN h /\ a <= FirstAt(h, r, n) /\ FirstAt(h, r, n) <= b
      /\ ~(n \in DOMAIN g /\ first_leaf_edge(g, n) = first_leaf_edge(h, n))
  BY <1>5 DEF T
<1>7. FirstAt(h, r, n) \in Nat /\ LastAt(h, r, n) \in Nat /\ FirstAt(h, r, n) <= LastAt(h, r, n)
  BY <1>6, NodeSpan
<1>8. n \in DOMAIN g /\ g[n] = h[n]
  <2>1. a <= LastAt(h, r, n)
    BY <1>6, <1>7
  <2> QED BY <1>2, <1>6, <2>1 DEF KeptNodes
<1>9. first_leaf_edge(h, n) = IF IsLeaf(h, n) THEN Handle(n, 0)
                              ELSE IF descend(h, n, 0) \in DOMAIN h
                              THEN first_leaf_edge(h, descend(h, n, 0)) ELSE NoHandle
  BY <1>3, <1>6, FirstLeafStep
<1>10. first_leaf_edge(g, n) = IF IsLeaf(g, n) THEN Handle(n, 0)
                               ELSE IF descend(g, n, 0) \in DOMAIN g
                               THEN first_leaf_edge(g, descend(g, n, 0)) ELSE NoHandle
  BY <1>2, <1>8, FirstLeafStep
<1>11. h[n].height # 0
  BY <1>6, <1>8, <1>9, <1>10 DEF IsLeaf
<1> DEFINE c == h[n].edges[1]
<1>12. Len(h[n].kv) \in Nat
  BY <1>3, <1>6, GroveStepped
<1>13. 1 \in 1 .. Len(h[n].kv) + 1 /\ 1 - 1 = 0
  BY <1>12
<1>14. c \in DOMAIN h /\ h[c].parent = n /\ h[c].parent_idx = 0 /\ descend(h, n, 0) = c
  BY <1>3, <1>6, <1>11, <1>13, Children
<1>15. c # r
  <2>1. c = r => h[c].parent = Nil
    BY <1>3, <1>14, WellFormedFacts
  <2> QED BY <1>2, <1>6, <1>14, <2>1
<1>16. FirstAt(h, r, c) = FirstAt(h, r, n)
  BY <1>14, <1>15, ParentSpan
<1>17. c \notin T
  <2>1. 1 \in 1 .. Len(h[n].edges)
    BY <1>3, <1>6, <1>11, <1>13, NodeArity
  <2> QED BY <1>5, <2>1
<1>18. c \in DOMAIN g /\ first_leaf_edge(g, c) = first_leaf_edge(h, c)
  BY <1>6, <1>14, <1>16, <1>17 DEF T
<1>19. descend(g, n, 0) = c /\ IsLeaf(g, n) = IsLeaf(h, n)
  BY <1>8, <1>14 DEF descend, IsLeaf
<1> QED BY <1>6, <1>8, <1>9, <1>10, <1>14, <1>18, <1>19

LEMMA RemainsLastLeaf ==
  ASSUME NEW h, NEW r, OneTree(h, r), NEW a \in Nat, NEW b \in Nat, NEW g, Remains(g, h, r, a, b)
  PROVE  \A n \in DOMAIN h : a <= LastAt(h, r, n) /\ LastAt(h, r, n) <= b =>
           n \in DOMAIN g /\ last_leaf_edge(g, n) = last_leaf_edge(h, n)
<1> DEFINE T == {n \in DOMAIN h : a <= LastAt(h, r, n) /\ LastAt(h, r, n) <= b /\
                   ~(n \in DOMAIN g /\ last_leaf_edge(g, n) = last_leaf_edge(h, n))}
<1>1. SUFFICES ASSUME T # {} PROVE FALSE
  OBVIOUS
<1>2. /\ DOMAIN g = KeptNodes(h, r, a, b) /\ (\A m \in DOMAIN g : g[m] = h[m]) /\ Stepped(g) /\ Nil \notin DOMAIN h
  BY RemainsStepped
<1>3. Grove(h, {r}) /\ WellFormed(h, {r}) /\ Stepped(h)
  BY GroveStepped DEF OneTree
<1>4. T \subseteq DOMAIN h
  OBVIOUS
<1> HIDE DEF T
<1>5. PICK n \in T : \A i \in 1 .. Len(h[n].edges) : h[n].edges[i] \notin T
  BY <1>1, <1>3, <1>4, LowestOf
<1>6. /\ n \in DOMAIN h /\ a <= LastAt(h, r, n) /\ LastAt(h, r, n) <= b
      /\ ~(n \in DOMAIN g /\ last_leaf_edge(g, n) = last_leaf_edge(h, n))
  BY <1>5 DEF T
<1>7. FirstAt(h, r, n) \in Nat /\ LastAt(h, r, n) \in Nat /\ FirstAt(h, r, n) <= LastAt(h, r, n)
  BY <1>6, NodeSpan
<1>8. n \in DOMAIN g /\ g[n] = h[n]
  <2>1. FirstAt(h, r, n) <= b
    BY <1>6, <1>7
  <2> QED BY <1>2, <1>6, <2>1 DEF KeptNodes
<1> DEFINE k == Len(h[n].kv)
<1>9. last_leaf_edge(h, n) = IF IsLeaf(h, n) THEN Handle(n, k)
                             ELSE IF descend(h, n, k) \in DOMAIN h
                             THEN last_leaf_edge(h, descend(h, n, k)) ELSE NoHandle
  BY <1>3, <1>6, LastLeafStep DEF len
<1>10. last_leaf_edge(g, n) = IF IsLeaf(g, n) THEN Handle(n, k)
                              ELSE IF descend(g, n, k) \in DOMAIN g
                              THEN last_leaf_edge(g, descend(g, n, k)) ELSE NoHandle
  BY <1>2, <1>8, LastLeafStep DEF len
<1>11. h[n].height # 0
  BY <1>6, <1>8, <1>9, <1>10 DEF IsLeaf
<1> DEFINE c == h[n].edges[k + 1]
<1>12. k \in Nat
  BY <1>3, <1>6, GroveStepped
<1>13. k + 1 \in 1 .. k + 1 /\ k + 1 - 1 = k
  BY <1>12
<1>14. c \in DOMAIN h /\ h[c].parent = n /\ h[c].parent_idx = k /\ descend(h, n, k) = c
  BY <1>3, <1>6, <1>11, <1>13, Children
<1>15. c # r
  <2>1. c = r => h[c].parent = Nil
    BY <1>3, <1>14, WellFormedFacts
  <2> QED BY <1>2, <1>6, <1>14, <2>1
<1>16. LastAt(h, r, c) = LastAt(h, r, n)
  BY <1>14, <1>15, ParentSpan
<1>17. c \notin T
  <2>1. k + 1 \in 1 .. Len(h[n].edges)
    BY <1>3, <1>6, <1>11, <1>13, NodeArity
  <2> QED BY <1>5, <2>1
<1>18. c \in DOMAIN g /\ last_leaf_edge(g, c) = last_leaf_edge(h, c)
  BY <1>6, <1>14, <1>16, <1>17 DEF T
<1>19. descend(g, n, k) = c /\ IsLeaf(g, n) = IsLeaf(h, n)
  BY <1>8, <1>14 DEF descend, IsLeaf
<1> QED BY <1>6, <1>8, <1>9, <1>10, <1>14, <1>18, <1>19

\* A pair is within the stretch of its node.
LEMMA ElementWithin ==
  ASSUME NEW h, NEW r, OneTree(h, r), NEW i \in 1 .. Len(ElementsBelow(h, r))
  PROVE  LET m == ElementsBelow(h, r)[i].node
         IN  m \in DOMAIN h /\ FirstAt(h, r, m) < i /\ i <= LastAt(h, r, m)
<1> DEFINE E == ElementsBelow(h, r)
           N == Len(E)
           x == E[i]
           m == x.node
<1>1. Grove(h, {r}) /\ Ordered(h, E, LeafEdges(h, r), N) /\ Nil \notin DOMAIN h
  BY RootOrdered, GroveStepped DEF OneTree
<1>2. PairIn(h, x) /\ N \in Nat
  BY <1>1 DEF Ordered
<1>3. m \in DOMAIN h
  BY <1>2 DEF PairIn
<1> DEFINE lo == FirstAt(h, r, m)
           w == Len(ElementsBelow(h, m))
<1>4. Stretch(h, r, m, lo) /\ lo \in Nat /\ LastAt(h, r, m) = lo + w /\ LastAt(h, r, m) <= N
  BY <1>3, NodeSpan
<1>5. w \in Nat
  BY <1>1, <1>3, GroveStepped DEF Sequences
<1>6. PICK t \in 1 .. w : ElementsBelow(h, m)[t] = x
  BY <1>1, <1>2, OwnElement
<1>7. E[lo + t] = x
  BY <1>4, <1>6 DEF Stretch
<1> HIDE DEF lo, w, N, E
<1> DEFINE y == lo + t
<1>8. y \in 1 .. N /\ lo < y /\ y <= lo + w
  BY <1>2, <1>4, <1>5, <1>6
<1>9. E[y] = E[i]
  BY <1>7
<1> HIDE DEF y
<1>10. y = i
  BY <1>1, <1>8, <1>9, ElementsDiffer DEF N, E
<1> QED BY <1>3, <1>4, <1>8, <1>10 DEF lo, E

-----------------------------------------------------------------------------
(* One end of an iterator moves *)

\* The edge and the pair that the front comes to.
LEMMA FrontMoves ==
  ASSUME NEW h, NEW r, OneTree(h, r), NEW a \in Nat, NEW b \in Nat,
         a < b, b <= Len(ElementsBelow(h, r)), NEW g, Remains(g, h, r, a, b)
  PROVE  LET E == ElementsBelow(h, r)
             L == LeafEdges(h, r)
         IN  /\ next_kv(g, L[a + 1]) = E[a + 1] /\ E[a + 1] # NoHandle
             /\ next_leaf_edge(g, E[a + 1]) = L[a + 2]
             /\ Remains(DeallocateAll(g, LeftBehind(g, L[a + 1])), h, r, a + 1, b)
<1> DEFINE E == ElementsBelow(h, r)
           L == LeafEdges(h, r)
           N == Len(E)
           i == a + 1
           e == L[i]
           x == E[i]
           c == descend(h, x.node, x.idx + 1)
<1>1. Grove(h, {r}) /\ Ordered(h, E, L, N) /\ Nil \notin DOMAIN h /\ Roomy(h)
  BY RootOrdered, GroveStepped DEF OneTree
<1>2. N \in Nat /\ i \in 1 .. N /\ i \in 1 .. N + 1 /\ i + 1 \in 1 .. N + 1 /\ a \in 0 .. N /\ i + 1 - 1 = i /\ i + 1 = a + 2
      /\ a <= i /\ i <= b /\ i \in Nat
  BY <1>1 DEF Ordered
<1>3. DOMAIN g = KeptNodes(h, r, a, b) /\ \A m \in DOMAIN g : g[m] = h[m]
  BY RemainsStepped
<1>4. LeafEdge(h, e) /\ PairIn(h, x) /\ next_kv(h, e) = x /\ next_leaf_edge(h, x) = L[i + 1]
  <2> HIDE DEF E, L, N, i
  <2> QED BY <1>1, <1>2 DEF Ordered, Linked
<1>5. e.node \in NodesAt(h, r, a) /\ LeftBehind(h, e) = {m \in DOMAIN h : LastAt(h, r, m) = a}
  BY <1>2, PileIs, LeftBehindIs
<1>6. \A m \in DOMAIN h : FirstAt(h, r, m) \in Nat /\ LastAt(h, r, m) \in Nat
  BY NodeSpan
<1>7. x.node \in DOMAIN h /\ FirstAt(h, r, x.node) < i /\ i <= LastAt(h, r, x.node)
  BY <1>2, ElementWithin
<1>8. c \in DOMAIN h /\ h[x.node].height # 0 /\ first_leaf_edge(h, c) = L[i + 1] => FirstAt(h, r, c) = i
  <2> DEFINE j == i + 1
  <2>1. j \in 1 .. N + 1 /\ j - 1 = i
    BY <1>2
  <2> HIDE DEF j
  <2>2. Before(h, r, L[j]) = i
    BY <2>1, BeforeEdge
  <2> QED BY <2>2 DEF FirstAt, j
<1> HIDE DEF E, L, N, i, e, x, c
<1>9. e.node \in DOMAIN g
  <2>1. e.node \in DOMAIN h /\ FirstAt(h, r, e.node) <= a /\ a <= LastAt(h, r, e.node)
    BY <1>5 DEF NodesAt
  <2>2. FirstAt(h, r, e.node) <= b
    BY <1>6, <2>1
  <2> QED BY <1>3, <2>1, <2>2 DEF KeptNodes
<1>10. x.node \in DOMAIN g
  <2>1. FirstAt(h, r, x.node) <= b /\ a <= LastAt(h, r, x.node)
    BY <1>2, <1>6, <1>7
  <2> QED BY <1>3, <1>7, <2>1 DEF KeptNodes
<1>11. e \in Handles(g)
  <2>1. e \in [node : DOMAIN h, idx : Nat] /\ e.idx <= Len(h[e.node].kv) /\ Len(h[e.node].kv) <= CAPACITY
    BY <1>1, <1>4 DEF LeafEdge, Roomy
  <2>2. Len(h[e.node].kv) \in Nat
    BY <1>1, <2>1, GroveStepped
  <2>3. e.idx \in 0 .. CAPACITY
    BY <2>1, <2>2, BAssumption DEF CAPACITY
  <2> QED BY <1>9, <2>1, <2>3 DEF Handles
<1>12. next_kv(g, e) = x /\ LeftBehind(g, e) = LeftBehind(h, e)
  BY <1>4, <1>11, RemainsNextKv, RemainsLeftBehind
<1>13. next_leaf_edge(g, x) = L[i + 1]
  <2>1. g[x.node] = h[x.node]
    BY <1>3, <1>10
  <2>2. CASE IsLeaf(h, x.node)
    BY <1>4, <2>1, <2>2 DEF next_leaf_edge, IsLeaf
  <2>3. CASE ~IsLeaf(h, x.node)
    <3>1. first_leaf_edge(h, c) = L[i + 1]
      BY <1>4, <2>3 DEF next_leaf_edge, c
    <3>2. next_leaf_edge(g, x) = first_leaf_edge(g, c)
      BY <2>1, <2>3 DEF next_leaf_edge, c, IsLeaf, descend
    <3>3. x.idx \in Nat /\ x.idx < Len(h[x.node].kv) /\ Len(h[x.node].kv) \in Nat
      BY <1>1, <1>4, <1>7, GroveStepped DEF PairIn
    <3>4. x.idx + 2 \in 1 .. Len(h[x.node].kv) + 1 /\ x.idx + 1 + 1 = x.idx + 2
      BY <3>3
    <3>5. h[x.node].edges[x.idx + 2] \in DOMAIN h
      BY <1>1, <1>7, <2>3, <3>4, Children DEF IsLeaf
    <3>6. c \in DOMAIN h
      BY <3>4, <3>5 DEF c, descend
    <3>7. FirstAt(h, r, c) = i
      BY <1>8, <2>3, <3>1, <3>6 DEF IsLeaf
    <3>8. first_leaf_edge(g, c) = first_leaf_edge(h, c)
      BY <1>2, <3>6, <3>7, RemainsFirstLeaf
    <3> QED BY <3>1, <3>2, <3>8
  <2> QED BY <2>2, <2>3
<1>14. Remains(DeallocateAll(g, LeftBehind(g, e)), h, r, i, b)
  <2>1. DOMAIN g \ LeftBehind(g, e) = KeptNodes(h, r, i, b)
    <3>1. \A m \in DOMAIN h : a <= LastAt(h, r, m) /\ LastAt(h, r, m) # a <=> i <= LastAt(h, r, m)
      BY <1>6 DEF i
    <3> QED BY <1>3, <1>5, <1>12, <3>1 DEF KeptNodes
  <2>2. \A m \in KeptNodes(h, r, i, b) : g[m] = h[m]
    BY <1>3, <2>1
  <2> QED BY <2>1, <2>2 DEF Remains, DeallocateAll
<1>15. x # NoHandle
  BY <1>1, <1>4, PairNotNil
<1> QED BY <1>2, <1>12, <1>13, <1>14, <1>15 DEF x, e, i, E, L

LEMMA BackMoves ==
  ASSUME NEW h, NEW r, OneTree(h, r), NEW a \in Nat, NEW b \in Nat,
         a < b, b <= Len(ElementsBelow(h, r)), NEW g, Remains(g, h, r, a, b)
  PROVE  LET E == ElementsBelow(h, r)
             L == LeafEdges(h, r)
         IN  /\ next_back_kv(g, L[b + 1]) = E[b] /\ E[b] # NoHandle
             /\ next_back_leaf_edge(g, E[b]) = L[b]
             /\ Remains(DeallocateAll(g, LeftBehindBack(g, L[b + 1])), h, r, a, b - 1)
<1> DEFINE E == ElementsBelow(h, r)
           L == LeafEdges(h, r)
           N == Len(E)
           e == L[b + 1]
           x == E[b]
           c == descend(h, x.node, x.idx)
<1>1. Grove(h, {r}) /\ Ordered(h, E, L, N) /\ Nil \notin DOMAIN h /\ Roomy(h)
  BY RootOrdered, GroveStepped DEF OneTree
<1>2. N \in Nat /\ b \in 1 .. N /\ b \in 1 .. N + 1 /\ b + 1 \in 1 .. N + 1 /\ b \in 0 .. N
      /\ a <= b - 1 /\ b - 1 <= b /\ b - 1 \in Nat
  BY <1>1 DEF Ordered
<1>3. DOMAIN g = KeptNodes(h, r, a, b) /\ \A m \in DOMAIN g : g[m] = h[m]
  BY RemainsStepped
<1>4. LeafEdge(h, e) /\ PairIn(h, x) /\ next_back_kv(h, e) = x /\ next_back_leaf_edge(h, x) = L[b]
  <2> HIDE DEF E, L, N
  <2> QED BY <1>1, <1>2 DEF Ordered, Linked
<1>5. e.node \in NodesAt(h, r, b) /\ LeftBehindBack(h, e) = {m \in DOMAIN h : FirstAt(h, r, m) = b}
  BY <1>2, PileIs, LeftBehindBackIs
<1>6. \A m \in DOMAIN h : FirstAt(h, r, m) \in Nat /\ LastAt(h, r, m) \in Nat
  BY NodeSpan
<1>7. x.node \in DOMAIN h /\ FirstAt(h, r, x.node) < b /\ b <= LastAt(h, r, x.node)
  BY <1>2, ElementWithin
<1>8. c \in DOMAIN h /\ h[x.node].height # 0 /\ last_leaf_edge(h, c) = L[b] => LastAt(h, r, c) = b - 1
  <2>1. Before(h, r, L[b]) = b - 1
    BY <1>2, BeforeEdge
  <2> QED BY <2>1 DEF LastAt
<1> HIDE DEF E, L, N, e, x, c
<1>9. e.node \in DOMAIN g
  <2>1. e.node \in DOMAIN h /\ FirstAt(h, r, e.node) <= b /\ b <= LastAt(h, r, e.node)
    BY <1>5 DEF NodesAt
  <2>2. a <= LastAt(h, r, e.node)
    BY <1>6, <2>1
  <2> QED BY <1>3, <2>1, <2>2 DEF KeptNodes
<1>10. x.node \in DOMAIN g
  <2>1. FirstAt(h, r, x.node) <= b /\ a <= LastAt(h, r, x.node)
    BY <1>2, <1>6, <1>7
  <2> QED BY <1>3, <1>7, <2>1 DEF KeptNodes
<1>11. e \in Handles(g)
  <2>1. e \in [node : DOMAIN h, idx : Nat] /\ e.idx <= Len(h[e.node].kv) /\ Len(h[e.node].kv) <= CAPACITY
    BY <1>1, <1>4 DEF LeafEdge, Roomy
  <2>2. Len(h[e.node].kv) \in Nat
    BY <1>1, <2>1, GroveStepped
  <2>3. e.idx \in 0 .. CAPACITY
    BY <2>1, <2>2, BAssumption DEF CAPACITY
  <2> QED BY <1>9, <2>1, <2>3 DEF Handles
<1>12. next_back_kv(g, e) = x /\ LeftBehindBack(g, e) = LeftBehindBack(h, e)
  BY <1>4, <1>11, RemainsNextBackKv, RemainsLeftBehind
<1>13. next_back_leaf_edge(g, x) = L[b]
  <2>1. g[x.node] = h[x.node]
    BY <1>3, <1>10
  <2>2. CASE IsLeaf(h, x.node)
    BY <1>4, <2>1, <2>2 DEF next_back_leaf_edge, IsLeaf
  <2>3. CASE ~IsLeaf(h, x.node)
    <3>1. last_leaf_edge(h, c) = L[b]
      BY <1>4, <2>3 DEF next_back_leaf_edge, c
    <3>2. next_back_leaf_edge(g, x) = last_leaf_edge(g, c)
      BY <2>1, <2>3 DEF next_back_leaf_edge, c, IsLeaf, descend
    <3>3. x.idx \in Nat /\ x.idx < Len(h[x.node].kv) /\ Len(h[x.node].kv) \in Nat
      BY <1>1, <1>4, <1>7, GroveStepped DEF PairIn
    <3>4. x.idx + 1 \in 1 .. Len(h[x.node].kv) + 1
      BY <3>3
    <3>5. h[x.node].edges[x.idx + 1] \in DOMAIN h
      BY <1>1, <1>7, <2>3, <3>4, Children DEF IsLeaf
    <3>6. c \in DOMAIN h
      BY <3>5 DEF c, descend
    <3>7. LastAt(h, r, c) = b - 1
      BY <1>8, <2>3, <3>1, <3>6 DEF IsLeaf
    <3>8. last_leaf_edge(g, c) = last_leaf_edge(h, c)
      BY <1>2, <3>6, <3>7, RemainsLastLeaf
    <3> QED BY <3>1, <3>2, <3>8
  <2> QED BY <2>2, <2>3
<1>14. Remains(DeallocateAll(g, LeftBehindBack(g, e)), h, r, a, b - 1)
  <2>1. DOMAIN g \ LeftBehindBack(g, e) = KeptNodes(h, r, a, b - 1)
    <3>1. \A m \in DOMAIN h : FirstAt(h, r, m) <= b /\ FirstAt(h, r, m) # b <=> FirstAt(h, r, m) <= b - 1
      BY <1>6
    <3> QED BY <1>3, <1>5, <1>12, <3>1 DEF KeptNodes
  <2>2. \A m \in KeptNodes(h, r, a, b - 1) : g[m] = h[m]
    BY <1>3, <2>1
  <2> QED BY <2>1, <2>2 DEF Remains, DeallocateAll
<1>15. x # NoHandle
  BY <1>1, <1>4, PairNotNil
<1> QED BY <1>12, <1>13, <1>14, <1>15 DEF x, e, E, L

\* Where the ends have met there is only the leaf and what is above it.
LEMMA LastPile ==
  ASSUME NEW h, NEW r, OneTree(h, r), NEW a \in 0 .. Len(ElementsBelow(h, r)), NEW g, Remains(g, h, r, a, a)
  PROVE  DOMAIN DeallocateAll(g, Pile(g, LeafEdges(h, r)[a + 1].node)) = {}
<1> DEFINE n == LeafEdges(h, r)[a + 1].node
<1>0. a \in Nat
  BY RootOrdered DEF Ordered
<1>1. Pile(h, n) = NodesAt(h, r, a) /\ n \in NodesAt(h, r, a)
  BY PileIs
<1>2. DOMAIN g = NodesAt(h, r, a)
  <2>1. DOMAIN g = KeptNodes(h, r, a, a)
    BY <1>0, RemainsStepped
  <2>2. KeptNodes(h, r, a, a) = NodesAt(h, r, a)
    BY DEF KeptNodes, NodesAt
  <2> QED BY <2>1, <2>2
<1>3. Pile(g, n) = Pile(h, n)
  BY <1>0, <1>1, <1>2, RemainsPile
<1> QED BY <1>1, <1>2, <1>3 DEF DeallocateAll

\* The ends of an iterator before it has moved.
LEMMA EndsFound ==
  ASSUME NEW h, NEW r, OneTree(h, r), NEW a \in Nat, NEW b \in Nat, a <= b,
         b <= Len(ElementsBelow(h, r)), NEW g, Remains(g, h, r, a, b)
  PROVE  /\ a = 0 => first_leaf_edge(g, r) = LeafEdges(h, r)[1]
         /\ b = Len(ElementsBelow(h, r)) => last_leaf_edge(g, r) = LeafEdges(h, r)[b + 1]
<1> DEFINE N == Len(ElementsBelow(h, r))
           L == LeafEdges(h, r)
<1>1. /\ Ordered(h, ElementsBelow(h, r), L, N) /\ r \in DOMAIN h
      /\ L[1] = first_leaf_edge(h, r) /\ L[N + 1] = last_leaf_edge(h, r)
  BY RootOrdered DEF OneTree
<1>2. N \in Nat /\ 1 \in 1 .. N + 1 /\ N + 1 \in 1 .. N + 1 /\ 1 - 1 = 0 /\ N + 1 - 1 = N
  BY <1>1 DEF Ordered
<1>3. FirstAt(h, r, r) = 0
  <2>1. Before(h, r, L[1]) = 0
    BY <1>2, BeforeEdge
  <2> QED BY <1>1, <2>1 DEF FirstAt
<1>4. LastAt(h, r, r) = N
  <2> DEFINE j == N + 1
  <2>1. j \in 1 .. N + 1 /\ j - 1 = N
    BY <1>2
  <2> HIDE DEF j
  <2>2. Before(h, r, L[j]) = N
    BY <2>1, BeforeEdge
  <2> QED BY <1>1, <2>2 DEF LastAt, j
<1>5. a = 0 => first_leaf_edge(g, r) = first_leaf_edge(h, r)
  BY <1>1, <1>3, RemainsFirstLeaf
<1>6. b = N => last_leaf_edge(g, r) = last_leaf_edge(h, r)
  BY <1>1, <1>4, RemainsLastLeaf
<1> QED BY <1>1, <1>5, <1>6

\* A stretch of the sequence, and what is left of it after a step of either end.
LEMMA StretchTaken ==
  ASSUME NEW S, NEW E, NEW a, NEW b, NEW s, E \in Seq(S), a \in Nat, b \in Nat, a < b, b <= Len(E),
         s = SubSeq(E, a + 1, b)
  PROVE  /\ s # <<>> /\ Head(s) = E[a + 1] /\ Tail(s) = SubSeq(E, a + 1 + 1, b)
         /\ s[Len(s)] = E[b] /\ SubSeq(s, 1, Len(s) - 1) = SubSeq(E, a + 1, b - 1)
<1>1. s \in Seq(S) /\ Len(s) = b - a /\ b - a \in Nat /\ b - a >= 1
  OBVIOUS
<1>2. \A i \in 1 .. b - a : s[i] = E[a + i]
  OBVIOUS
<1>3. s # <<>> /\ Head(s) = E[a + 1] /\ s[Len(s)] = E[b]
  <2>1. 1 \in 1 .. b - a /\ b - a \in 1 .. b - a /\ a + (b - a) = b
    BY <1>1
  <2> QED BY <1>1, <1>2, <2>1
<1>4. Tail(s) = SubSeq(E, a + 1 + 1, b)
  <2> DEFINE t == SubSeq(E, a + 1 + 1, b)
  <2>1. t \in Seq(S) /\ Len(t) = b - a - 1 /\ \A i \in 1 .. b - a - 1 : t[i] = E[a + 1 + i]
    BY <1>1
  <2>2. Tail(s) \in Seq(S) /\ Len(Tail(s)) = b - a - 1 /\ \A i \in 1 .. b - a - 1 : Tail(s)[i] = s[i + 1]
    BY <1>1, <1>3
  <2> HIDE DEF t
  <2>3. \A i \in 1 .. b - a - 1 : Tail(s)[i] = t[i]
    <3> TAKE i \in 1 .. b - a - 1
    <3> DEFINE j == i + 1
    <3>1. j \in 1 .. b - a /\ a + j = a + 1 + i
      BY <1>1
    <3>2. s[j] = E[a + j]
      BY <1>2, <3>1
    <3>3. Tail(s)[i] = s[j]
      BY <2>2
    <3>4. t[i] = E[a + 1 + i]
      BY <2>1
    <3> HIDE DEF j
    <3>5. s[j] = E[a + 1 + i]
      BY <3>1, <3>2, Zenon
    <3> QED BY <3>3, <3>4, <3>5, Zenon
  <2>4. Tail(s) = t
    <3> DEFINE u == Tail(s)
    <3>1. u \in Seq(S) /\ t \in Seq(S) /\ Len(u) = Len(t) /\ \A i \in 1 .. Len(u) : u[i] = t[i]
      BY <2>1, <2>2, <2>3
    <3> HIDE DEF u
    <3>2. u = t
      BY ONLY <3>1, SeqEqual
    <3> QED BY <3>2 DEF u
  <2> QED BY <2>4 DEF t
<1>5. SubSeq(s, 1, Len(s) - 1) = SubSeq(E, a + 1, b - 1)
  <2> DEFINE t == SubSeq(E, a + 1, b - 1)
             u == SubSeq(s, 1, Len(s) - 1)
  <2>1. t \in Seq(S) /\ Len(t) = b - a - 1 /\ \A i \in 1 .. b - a - 1 : t[i] = E[a + i]
    BY <1>1
  <2>2. u \in Seq(S) /\ Len(u) = b - a - 1 /\ \A i \in 1 .. b - a - 1 : u[i] = s[i]
    BY <1>1
  <2> HIDE DEF t, u
  <2>3. \A i \in 1 .. b - a - 1 : u[i] = t[i]
    BY <1>1, <1>2, <2>1, <2>2
  <2>4. u \in Seq(S) /\ t \in Seq(S) /\ Len(u) = Len(t) /\ \A i \in 1 .. Len(u) : u[i] = t[i]
    BY <2>1, <2>2, <2>3
  <2>5. u = t
    BY ONLY <2>4, SeqEqual
  <2> QED BY <2>5 DEF u, t
<1> QED BY <1>3, <1>4, <1>5
=============================================================================
