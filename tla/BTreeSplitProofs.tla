---------------------------- MODULE BTreeSplitProofs ----------------------------
(***************************************************************************)
(* split_off keeps two well-formed trees at every step, and leaves two     *)
(* legal ones, whatever the comparator answers.  The nodes that may be too *)
(* short always lie on the two ways down along the cut; the repair goes    *)
(* down such a way, and merges or stocks up each node from a sibling that  *)
(* is not on it.                                                           *)
(***************************************************************************)
EXTENDS BTreeSplit, BTreeNavigateProofs

\* The child of m on the side of the cut: the last one in the left tree, the
\* first one in the right tree.
EndChild(h, m, last) == IF last THEN LastChild(h, m) ELSE descend(h, m, 0)

\* A way down from top along the cut: each node of D but top is the end child of another.
Chain(h, D, top, last) ==
  /\ top \in D /\ D \subseteq DOMAIN h
  /\ \A m \in D \ {top} : /\ h[m].height < h[top].height
                          /\ \E p \in D : h[p].height # 0 /\ EndChild(h, p, last) = m

\* All nodes but those in S, and the two roots, have the minimum.
Sized(h, tops, S) ==
  \A n \in DOMAIN h : /\ Len(h[n].kv) <= CAPACITY
                      /\ n \notin tops \cup S => Len(h[n].kv) >= MIN_LEN

\* A chain stays one while the end children on it do.
LEMMA ChainSame ==
  ASSUME NEW h, NEW g, NEW D, NEW top, NEW last, Chain(h, D, top, last), D \subseteq DOMAIN g,
         \A m \in D : g[m].height = h[m].height,
         \A m \in D : h[m].height # 0 /\ EndChild(h, m, last) \in D =>
                       EndChild(g, m, last) = EndChild(h, m, last)
  PROVE  Chain(g, D, top, last)
<1>1. top \in D
  BY DEF Chain
<1>2. ASSUME NEW m \in D \ {top}
      PROVE  /\ g[m].height < g[top].height
             /\ \E p \in D : g[p].height # 0 /\ EndChild(g, p, last) = m
  <2>1. h[m].height < h[top].height
    BY DEF Chain
  <2>2. PICK p \in D : h[p].height # 0 /\ EndChild(h, p, last) = m
    BY DEF Chain
  <2>3. g[p].height # 0 /\ EndChild(g, p, last) = m
    BY <2>2
  <2> QED BY <1>1, <2>1, <2>3
<1> QED BY <1>1, <1>2 DEF Chain

\* The first child of a node is one of its children.
LEMMA FirstChildFacts ==
  ASSUME NEW h, NEW tops, WellFormed(h, tops), NEW m \in DOMAIN h, h[m].height # 0
  PROVE  /\ descend(h, m, 0) \in DOMAIN h /\ descend(h, m, 0) \notin tops
         /\ h[descend(h, m, 0)].parent = m /\ h[descend(h, m, 0)].parent_idx = 0
         /\ h[descend(h, m, 0)].height = h[m].height - 1
<1> DEFINE c == descend(h, m, 0)
<1>1. Len(h[m].kv) \in Nat /\ Len(h[m].edges) = Len(h[m].kv) + 1
  BY NodeArity
<1>2. 1 \in 1 .. Len(h[m].edges) /\ c = h[m].edges[1]
  BY <1>1 DEF descend
<1> HIDE DEF c
<1>3. c \in DOMAIN h /\ h[c].parent = m /\ h[c].parent_idx = 0 /\ h[c].height = h[m].height - 1
  BY <1>2, WellFormedFacts
<1>4. c \notin tops
  <2>1. m # Nil
    BY HeapNode DEF WellFormed
  <2> QED BY <1>3, <2>1, WellFormedFacts
<1> QED BY <1>3, <1>4 DEF c

\* The end child of a node is one of its children.
LEMMA EndChildFacts ==
  ASSUME NEW h, NEW tops, WellFormed(h, tops), NEW m \in DOMAIN h, h[m].height # 0,
         NEW last \in BOOLEAN
  PROVE  LET c == EndChild(h, m, last)
         IN  /\ c \in DOMAIN h /\ c \notin tops
             /\ h[c].parent = m /\ h[c].height = h[m].height - 1
             /\ h[c].parent_idx = IF last THEN Len(h[m].kv) ELSE 0
<1>1. CASE last
  BY <1>1, LastChildFacts DEF EndChild
<1>2. CASE ~last
  BY <1>2, FirstChildFacts DEF EndChild
<1> QED BY <1>1, <1>2

\* A node has the same end child only once.
LEMMA EndChildOnce ==
  ASSUME NEW h, NEW tops, WellFormed(h, tops), NEW last \in BOOLEAN,
         NEW m \in DOMAIN h, h[m].height # 0, NEW p \in DOMAIN h, h[p].height # 0,
         EndChild(h, m, last) = EndChild(h, p, last)
  PROVE  m = p
<1>1. h[EndChild(h, m, last)].parent = m
  BY EndChildFacts
<1>2. h[EndChild(h, p, last)].parent = p
  BY EndChildFacts
<1> QED BY <1>1, <1>2

\* The way goes on from the end child when its first node is left.
LEMMA ChainDown ==
  ASSUME NEW h, NEW tops, WellFormed(h, tops), NEW last \in BOOLEAN, NEW D, NEW n,
         Chain(h, D, n, last), h[n].height # 0, NEW c, c = EndChild(h, n, last)
  PROVE  Chain(h, (D \ {n}) \cup {c}, c, last)
<1>1. n \in D /\ D \subseteq DOMAIN h
  BY DEF Chain
<1>2. c \in DOMAIN h /\ h[c].parent = n /\ h[c].height = h[n].height - 1
  BY <1>1, EndChildFacts
<1>h. \A m \in DOMAIN h : h[m].height \in Nat
  BY HeapNode DEF WellFormed
<1>3. ASSUME NEW m \in D \ {n}, m # c
      PROVE  /\ h[m].height < h[c].height
             /\ \E p \in (D \ {n}) \cup {c} : h[p].height # 0 /\ EndChild(h, p, last) = m
  <2>1. PICK p \in D : h[p].height # 0 /\ EndChild(h, p, last) = m
    BY <1>3 DEF Chain
  <2>2. p # n
    BY <1>3, <2>1
  <2>3. h[p].height < h[n].height
    BY <2>1, <2>2 DEF Chain
  <2>4. h[m].height = h[p].height - 1
    BY <1>1, <2>1, EndChildFacts
  <2>5. h[m].height < h[c].height
    BY <1>1, <1>2, <1>3, <1>h, <2>1, <2>3, <2>4
  <2> QED BY <2>1, <2>2, <2>5
<1> QED BY <1>1, <1>2, <1>3 DEF Chain

-----------------------------------------------------------------------------
(* What the operations do to edges *)

\* pop_internal_level writes no edge of a node that stays.
LEMMA PopEdges ==
  ASSUME NEW h, HasFields(h), NEW rt, NEW g, g = pop_internal_level(h, rt)
  PROVE  \A m \in DOMAIN h \ {rt} : g[m].edges = h[m].edges
<1> DEFINE c == descend(h, rt, 0)
           k == [h EXCEPT ![c] = clear_parent_link(@)]
<1>1. \A m \in DOMAIN h \ {rt} : g[m] = k[m]
  BY DEF pop_internal_level, Deallocate
<1>2. \A m \in DOMAIN h : k[m] = IF m = c THEN clear_parent_link(h[m]) ELSE h[m]
  OBVIOUS
<1>3. \A m \in DOMAIN h : clear_parent_link(h[m]).edges = h[m].edges
  BY DEF clear_parent_link, HasFields, Fields
<1> HIDE DEF k, c
<1> QED BY <1>1, <1>2, <1>3

\* A merge keeps the first child of every node that stays.
LEMMA MergeFirst ==
  ASSUME NEW h, NEW tops, WellFormed(h, tops), NEW p \in DOMAIN h, h[p].height # 0,
         NEW idx \in 0 .. Len(h[p].kv) - 1,
         NEW left, left = descend(h, p, idx), NEW rgt, rgt = descend(h, p, idx + 1),
         NEW g, EdgesMerged(g, h, p, idx, left, rgt), NEW m \in DOMAIN g, m \in DOMAIN h,
         h[m].height # 0
  PROVE  descend(g, m, 0) = descend(h, m, 0)
<1>1. /\ left \in DOMAIN h /\ rgt \in DOMAIN h /\ left # p
  BY Siblings
<1>2. /\ Len(h[m].edges) \in Nat /\ Len(h[m].edges) >= 1
      /\ h[m].edges \in Seq(NodeId) /\ h[rgt].edges \in Seq(NodeId)
  <2>1. HeapType(h)
    BY DEF WellFormed
  <2>2. h[m].edges \in Seq(NodeId) /\ h[rgt].edges \in Seq(NodeId)
    BY <1>1, <2>1, HeapNode
  <2>3. Len(h[m].kv) \in Nat /\ Len(h[m].edges) = Len(h[m].kv) + 1
    BY NodeArity
  <2> QED BY <2>2, <2>3
<1>3. CASE m \notin {p, left}
  BY <1>3 DEF EdgesMerged, descend
<1>4. CASE m = p
  <2> DEFINE A == h[p].edges
  <2>1. /\ A \in Seq(NodeId) /\ Len(A) = Len(h[p].kv) + 1 /\ Len(h[p].kv) \in Nat
        /\ g[p].edges = slice_remove(A, idx + 1)
    BY <1>2, <1>4, NodeArity DEF EdgesMerged
  <2> HIDE DEF A
  <2>2. idx + 1 \in 0 .. Len(A) - 1 /\ 1 \in 1 .. Len(A) - 1
    BY <2>1
  <2>3. IsRemove(slice_remove(A, idx + 1), A, idx + 1)
    BY <2>1, <2>2, SliceRemoveProps
  <2>4. slice_remove(A, idx + 1)[1] = A[1]
    BY <2>2, <2>3 DEF IsRemove
  <2> QED BY <1>4, <2>1, <2>4 DEF descend, A
<1>5. CASE m = left
  <2> DEFINE A == h[left].edges
             C == h[rgt].edges
  <2>1. /\ A \in Seq(NodeId) /\ Len(A) \in Nat /\ Len(A) >= 1 /\ C \in Seq(NodeId)
        /\ g[left].edges = A \o C /\ Len(C) \in Nat
    BY <1>2, <1>5 DEF EdgesMerged
  <2> HIDE DEF A, C
  <2>2. IsConcat(A \o C, A, C)
    BY <2>1, ConcatProps
  <2>3. (A \o C)[1] = A[1]
    BY <2>1, <2>2 DEF IsConcat
  <2> QED BY <1>5, <2>1, <2>3 DEF descend, A
<1> QED BY <1>3, <1>4, <1>5

\* bulk_steal_left writes the edges of the two children only.
LEMMA StealLeftOthers ==
  ASSUME NEW h, NEW tops, WellFormed(h, tops), NEW p \in DOMAIN h, h[p].height # 0,
         NEW idx \in 0 .. Len(h[p].kv) - 1,
         NEW left, left = descend(h, p, idx), NEW rgt, rgt = descend(h, p, idx + 1),
         NEW count, NEW g, g = bulk_steal_left(h, p, idx, count)
  PROVE  \A m \in DOMAIN h \ {left, rgt} : g[m].edges = h[m].edges
<1>1. /\ left \in DOMAIN h /\ rgt \in DOMAIN h /\ left # rgt /\ left # p /\ rgt # p
  BY Siblings
<1>2. HasFields(h)
  BY TypeFields DEF WellFormed
<1> DEFINE a == Len(h[left].kv)
           c == Len(h[rgt].kv)
           w == a - count
           lkv == SubSeq(h[left].kv, 1, w)
           rkv == SubSeq(h[left].kv, w + 2, a) \o <<h[p].kv[idx + 1]>> \o h[rgt].kv
           X == SubSeq(h[left].edges, 1, w + 1)
           Y == SubSeq(h[left].edges, w + 2, a + 1) \o h[rgt].edges
           kv == h[left].kv[w + 1]
<1>3. CASE h[left].height = 0
  <2>1. g = [h EXCEPT ![left] = WithKV(h[left], lkv), ![rgt] = WithKV(h[rgt], rkv),
                      ![p] = replace_kv(h[p], idx, kv)]
    BY <1>1, <1>3 DEF bulk_steal_left, IsLeaf, len
  <2> HIDE DEF lkv, rkv, kv, a, c
  <2>2. \A m \in DOMAIN h : g[m].edges = h[m].edges
    BY ONLY <1>1, <1>2, <2>1, p \in DOMAIN h, StealLeafEdges
  <2> QED BY <2>2
<1>4. CASE h[left].height # 0
  <2> DEFINE k == [h EXCEPT ![left] = WithData(h[left], lkv, X),
                            ![rgt] = WithData(h[rgt], rkv, Y),
                            ![p] = replace_kv(h[p], idx, kv)]
  <2>1. g = correct_childrens_parent_links(k, rgt, 0, c + count + 1)
    BY <1>1, <1>4 DEF bulk_steal_left, IsLeaf, len
  <2> HIDE DEF lkv, rkv, kv, a, c, X, Y
  <2>2. EdgesStolen(k, h, left, rgt, Y)
    BY ONLY <1>1, <1>2, p \in DOMAIN h, StealEdges
  <2> HIDE DEF k
  <2>3. /\ HasFields(k) /\ DOMAIN k = DOMAIN h
        /\ \A m \in DOMAIN h \ {left, rgt} : k[m].edges = h[m].edges
    BY <2>2 DEF EdgesStolen
  <2>4. \A m \in DOMAIN h : g[m].edges = k[m].edges
    BY <2>1, <2>3, RelinkEdges DEF SameEdges
  <2> QED BY <2>3, <2>4
<1> QED BY <1>3, <1>4

\* bulk_steal_right does so too, and keeps left's first child.
LEMMA StealRightOthers ==
  ASSUME NEW h, NEW tops, WellFormed(h, tops), NEW p \in DOMAIN h, h[p].height # 0,
         NEW idx \in 0 .. Len(h[p].kv) - 1,
         NEW left, left = descend(h, p, idx), NEW rgt, rgt = descend(h, p, idx + 1),
         NEW count \in Nat, count >= 1, count <= Len(h[rgt].kv),
         NEW g, g = bulk_steal_right(h, p, idx, count)
  PROVE  /\ \A m \in DOMAIN h \ {left, rgt} : g[m].edges = h[m].edges
         /\ h[left].height # 0 => descend(g, left, 0) = descend(h, left, 0)
<1>1. /\ left \in DOMAIN h /\ rgt \in DOMAIN h /\ left # rgt /\ left # p /\ rgt # p
      /\ h[left].height = h[p].height - 1 /\ h[rgt].height = h[p].height - 1
  BY Siblings
<1>2. HeapType(h) /\ HasFields(h)
  BY TypeFields DEF WellFormed
<1> DEFINE a == Len(h[left].kv)
           c == Len(h[rgt].kv)
           lkv == h[left].kv \o <<h[p].kv[idx + 1]>> \o SubSeq(h[rgt].kv, 1, count - 1)
           rkv == SubSeq(h[rgt].kv, count + 1, c)
           X == h[left].edges \o SubSeq(h[rgt].edges, 1, count)
           Y == SubSeq(h[rgt].edges, count + 1, c + 1)
           kv == h[rgt].kv[count]
<1>3. CASE h[left].height = 0
  <2>1. g = [h EXCEPT ![left] = WithKV(h[left], lkv), ![rgt] = WithKV(h[rgt], rkv),
                      ![p] = replace_kv(h[p], idx, kv)]
    BY <1>1, <1>3 DEF bulk_steal_right, IsLeaf, len
  <2> HIDE DEF lkv, rkv, kv, a, c
  <2>2. \A m \in DOMAIN h : g[m].edges = h[m].edges
    BY ONLY <1>1, <1>2, <2>1, p \in DOMAIN h, StealLeafEdges
  <2> QED BY <1>3, <2>2
<1>4. CASE h[left].height # 0
  <2> DEFINE k == [h EXCEPT ![left] = WithData(h[left], lkv, X),
                            ![rgt] = WithData(h[rgt], rkv, Y),
                            ![p] = replace_kv(h[p], idx, kv)]
             l == correct_childrens_parent_links(k, left, a + 1, a + count + 1)
  <2>1. g = correct_childrens_parent_links(l, rgt, 0, c - count + 1)
    BY <1>1, <1>4 DEF bulk_steal_right, IsLeaf, len
  <2>2. X[1] = h[left].edges[1]
    <3> DEFINE A == h[left].edges
               C == h[rgt].edges
    <3>1. /\ A \in Seq(NodeId) /\ C \in Seq(NodeId) /\ a \in Nat /\ c \in Nat
          /\ Len(A) = a + 1 /\ Len(C) = c + 1 /\ count <= c
      BY <1>1, <1>2, <1>4, HeapNode, NodeArity
    <3>2. X = A \o SubSeq(C, 1, count)
      OBVIOUS
    <3> HIDE DEF A, C, a, c, X
    <3>3. SubSeq(C, 1, count) \in Seq(NodeId)
      <4>1. 1 <= 1 /\ 1 <= count + 1 /\ count <= Len(C)
        BY <3>1
      <4> QED BY <3>1, <4>1, CutProps
    <3>4. IsConcat(A \o SubSeq(C, 1, count), A, SubSeq(C, 1, count))
      BY <3>1, <3>3, ConcatProps
    <3>5. 1 \in 1 .. Len(A) + Len(SubSeq(C, 1, count)) /\ 1 <= Len(A)
      BY <3>1, <3>3
    <3>6. X[1] = A[1]
      BY <3>2, <3>4, <3>5 DEF IsConcat
    <3> QED BY <3>6 DEF A
  <2> HIDE DEF lkv, rkv, kv, a, c, X, Y
  <2>3. EdgesStolen(k, h, left, rgt, Y)
    BY ONLY <1>1, <1>2, p \in DOMAIN h, StealEdges
  <2>4. k[left].edges = X
    <3>1. k[left] = WithData(h[left], lkv, X)
      BY <1>1
    <3>2. DOMAIN h[left] = Fields
      BY <1>1, <1>2 DEF HasFields
    <3> HIDE DEF k
    <3> QED BY <3>1, <3>2, FieldProps
  <2> HIDE DEF k
  <2>5. /\ HasFields(k) /\ DOMAIN k = DOMAIN h
        /\ \A m \in DOMAIN h \ {left, rgt} : k[m].edges = h[m].edges
    BY <2>3 DEF EdgesStolen
  <2>6. DOMAIN l = DOMAIN h /\ HasFields(l) /\ \A m \in DOMAIN h : l[m].edges = k[m].edges
    BY <2>5, RelinkEdges DEF SameEdges
  <2> HIDE DEF l
  <2>7. \A m \in DOMAIN h : g[m].edges = k[m].edges
    BY <2>1, <2>6, RelinkEdges DEF SameEdges
  <2>8. descend(g, left, 0) = descend(h, left, 0)
    BY <1>1, <2>2, <2>4, <2>7 DEF descend
  <2> QED BY <2>5, <2>7, <2>8
<1> QED BY <1>3, <1>4

-----------------------------------------------------------------------------
(* move_suffix *)

\* g is h after the pairs and edges of n right of idx were moved to the node to.
Suffixed(g, h, n, idx, to) ==
  /\ DOMAIN g = DOMAIN h
  /\ \A m \in DOMAIN h : g[m].height = h[m].height
  /\ \A m \in DOMAIN h \ {n, to} : g[m].kv = h[m].kv /\ g[m].edges = h[m].edges
  /\ Len(g[n].kv) = idx /\ Len(g[to].kv) = Len(h[n].kv) - idx
  /\ h[n].height # 0 => /\ LastChild(g, n) = descend(h, n, idx)
                        /\ descend(g, to, 0) = descend(h, to, 0)

\* The edges of two nodes after some of n's have gone behind the only edge of the other.
SuffixEdges(X, Y, A, C, idx) ==
  /\ Len(X) = idx + 1 /\ Len(Y) = Len(A) - idx /\ Len(C) = 1
  /\ \A j \in 1 .. idx + 1 : X[j] = A[j]
  /\ Y[1] = C[1]
  /\ \A j \in 2 .. Len(A) - idx : Y[j] = A[idx + j]

CutEdges(X, Y, A, C, a, idx) ==
  /\ Len(C) = 1 /\ a \in Nat /\ Len(A) = a + 1 /\ idx \in 0 .. a
  /\ X = SubSeq(A, 1, idx + 1)
  /\ Y = SubSeq(C, 1, 1) \o SubSeq(A, idx + 2, a + 1)

\* What the two slices of move_suffix hold.
LEMMA SuffixEdgesOf ==
  ASSUME NEW S, NEW A \in Seq(S), NEW C \in Seq(S), NEW X, NEW Y, NEW a, NEW idx,
         CutEdges(X, Y, A, C, a, idx)
  PROVE  X \in Seq(S) /\ Y \in Seq(S) /\ SuffixEdges(X, Y, A, C, idx)
<1>0. Len(C) = 1 /\ a \in Nat /\ Len(A) = a + 1 /\ idx \in 0 .. a
  BY DEF CutEdges
<1> DEFINE P == SubSeq(C, 1, 1)
           Q == SubSeq(A, idx + 2, a + 1)
<1>1. X \in Seq(S) /\ Len(X) = idx + 1 /\ \A j \in 1 .. idx + 1 : X[j] = A[j]
  <2>0. X = SubSeq(A, 1, idx + 1)
    BY DEF CutEdges
  <2>1. PICK v \in Nat : v = idx + 1
    BY <1>0
  <2>2. 1 <= 1 /\ 1 <= v + 1 /\ v <= Len(A)
    BY <1>0, <2>1
  <2>3. /\ SubSeq(A, 1, v) \in Seq(S) /\ Len(SubSeq(A, 1, v)) = v - 1 + 1
        /\ \A j \in 1 .. v - 1 + 1 : SubSeq(A, 1, v)[j] = A[1 + j - 1]
    BY <1>0, <2>2, CutProps
  <2>4. v - 1 + 1 = idx + 1 /\ \A j \in 1 .. idx + 1 : 1 + j - 1 = j
    BY <1>0, <2>1
  <2> QED BY <1>0, <2>0, <2>1, <2>3, <2>4
<1>2. P \in Seq(S) /\ Len(P) = 1 /\ P[1] = C[1]
  <2>1. PICK v \in Nat : v = 1
    OBVIOUS
  <2>2. 1 <= v /\ v <= v + 1 /\ v <= Len(C)
    BY <1>0, <2>1
  <2>3. /\ SubSeq(C, v, v) \in Seq(S) /\ Len(SubSeq(C, v, v)) = v - v + 1
        /\ \A j \in 1 .. v - v + 1 : SubSeq(C, v, v)[j] = C[v + j - 1]
    BY <1>0, <2>2, CutProps
  <2>4. P = SubSeq(C, v, v)
    BY <1>0, <2>1
  <2> HIDE DEF P
  <2> QED BY <1>0, <2>1, <2>3, <2>4
<1>3. Q \in Seq(S) /\ Len(Q) = a - idx /\ \A j \in 1 .. a - idx : Q[j] = A[idx + 1 + j]
  <2>1. PICK u \in Nat : u = idx + 2
    BY <1>0
  <2>2. PICK v \in Nat : v = a + 1
    BY <1>0
  <2>3. 1 <= u /\ u <= v + 1 /\ v <= Len(A)
    BY <1>0, <2>1, <2>2
  <2>4. /\ SubSeq(A, u, v) \in Seq(S) /\ Len(SubSeq(A, u, v)) = v - u + 1
        /\ \A j \in 1 .. v - u + 1 : SubSeq(A, u, v)[j] = A[u + j - 1]
    BY <1>0, <2>3, CutProps
  <2>5. Q = SubSeq(A, u, v)
    BY <1>0, <2>1, <2>2
  <2>6. v - u + 1 = a - idx /\ \A j \in 1 .. a - idx : u + j - 1 = idx + 1 + j
    BY <1>0, <2>1, <2>2
  <2> HIDE DEF Q
  <2> QED BY <1>0, <2>4, <2>5, <2>6
<1>4. Y = P \o Q
  BY DEF CutEdges
<1> HIDE DEF P, Q
<1>5. Y \in Seq(S) /\ IsConcat(Y, P, Q)
  BY <1>0, <1>2, <1>3, <1>4, ConcatProps
<1>6. /\ Len(Y) = 1 + (a - idx) /\ Y[1] = C[1]
      /\ \A j \in 2 .. 1 + (a - idx) : Y[j] = Q[j - 1]
  BY <1>0, <1>2, <1>3, <1>5 DEF IsConcat
<1>7. \A j \in 2 .. 1 + (a - idx) : j - 1 \in 1 .. a - idx /\ idx + 1 + (j - 1) = idx + j
  BY <1>0
<1>8. \A j \in 2 .. 1 + (a - idx) : Y[j] = A[idx + j]
  BY <1>0, <1>3, <1>6, <1>7
<1>9. Len(A) - idx = 1 + (a - idx)
  BY <1>0
<1>10. Len(Y) = Len(A) - idx /\ \A j \in 2 .. Len(A) - idx : Y[j] = A[idx + j]
  BY <1>6, <1>8, <1>9
<1> QED BY <1>0, <1>1, <1>5, <1>6, <1>10 DEF SuffixEdges

\* move_suffix between two nodes of the same height, of which one is empty.
LEMMA MoveSuffix ==
  ASSUME NEW h, NEW tops, WellFormed(h, tops), NEW n \in DOMAIN h, NEW to \in DOMAIN h,
         n # to, h[n].height = h[to].height, Len(h[to].kv) = 0, NEW idx \in 0 .. Len(h[n].kv),
         NEW g, g = move_suffix(h, n, idx, to)
  PROVE  WellFormed(g, tops) /\ Suffixed(g, h, n, idx, to)
<1> DEFINE a == Len(h[n].kv)
           L == DOMAIN h
           kv == SubSeq(h[n].kv, idx + 1, a)
           pre == SubSeq(h[n].kv, 1, idx)
           A == h[n].edges
           C == h[to].edges
           X == SubSeq(A, 1, idx + 1)
           Y == SubSeq(C, 1, 1) \o SubSeq(A, idx + 2, a + 1)
<1>1. /\ HeapType(h) /\ a \in Nat /\ h[n] \in Node /\ h[to] \in Node
      /\ h[n].kv \in Seq(KV) /\ A \in Seq(NodeId) /\ C \in Seq(NodeId)
      /\ \A m \in L : h[m].height \in Nat /\ Len(h[m].edges) \in Nat
  <2>1. HeapType(h)
    BY DEF WellFormed
  <2> QED BY <2>1, HeapNode
<1>2. kv \in Seq(KV) /\ Len(kv) = a - idx
  <2>1. PICK u \in Nat : u = idx + 1
    OBVIOUS
  <2>2. 1 <= u /\ u <= a + 1 /\ a <= Len(h[n].kv) /\ a - u + 1 = a - idx
    BY <1>1, <2>1
  <2>3. SubSeq(h[n].kv, u, a) \in Seq(KV) /\ Len(SubSeq(h[n].kv, u, a)) = a - u + 1
    BY <1>1, <2>2, CutProps
  <2> QED BY <2>1, <2>2, <2>3
<1>3. pre \in Seq(KV) /\ Len(pre) = idx
  <2>1. PICK v \in Nat : v = idx
    OBVIOUS
  <2>2. 1 <= 1 /\ 1 <= v + 1 /\ v <= Len(h[n].kv) /\ v - 1 + 1 = v
    BY <1>1, <2>1
  <2>3. SubSeq(h[n].kv, 1, v) \in Seq(KV) /\ Len(SubSeq(h[n].kv, 1, v)) = v - 1 + 1
    BY <1>1, <2>2, CutProps
  <2> QED BY <2>1, <2>2, <2>3
<1>4. CASE h[n].height = 0
  <2> DEFINE q == WithKV(h[n], pre)
             r == WithKV(h[to], kv)
             k == [h EXCEPT ![n] = q, ![to] = r]
  <2>1. g = k
    BY <1>4 DEF move_suffix, IsLeaf, len
  <2> HIDE DEF kv, pre
  <2>2. /\ q \in Node /\ q.kv = pre /\ q.edges = h[n].edges /\ q.height = h[n].height
        /\ q.parent = h[n].parent /\ q.parent_idx = h[n].parent_idx
    BY <1>1, <1>3, WithKVProps
  <2>3. /\ r \in Node /\ r.kv = kv /\ r.edges = h[to].edges /\ r.height = h[to].height
        /\ r.parent = h[to].parent /\ r.parent_idx = h[to].parent_idx
    BY <1>1, <1>2, WithKVProps
  <2> HIDE DEF q, r
  <2>4. /\ DOMAIN k = DOMAIN h /\ k[n] = q /\ k[to] = r
        /\ \A m \in DOMAIN h \ {n, to} : k[m] = h[m]
    OBVIOUS
  <2>5. HeapType(k)
    BY <1>1, <2>2, <2>3 DEF HeapType
  <2> HIDE DEF k
  <2>6. WellFormed(k, tops)
    <3>1. ASSUME NEW m \in DOMAIN h
          PROVE  /\ k[m].edges = h[m].edges /\ k[m].height = h[m].height
                 /\ k[m].parent = h[m].parent /\ k[m].parent_idx = h[m].parent_idx
                 /\ h[m].height = 0 \/ Len(k[m].kv) = Len(h[m].kv)
      BY <1>4, <2>2, <2>3, <2>4
    <3> QED BY <2>4, <2>5, <3>1, KvOnly
  <2>7. Suffixed(k, h, n, idx, to)
    BY <1>2, <1>3, <1>4, <2>2, <2>3, <2>4 DEF Suffixed
  <2> QED BY <2>1, <2>6, <2>7
<1>5. CASE h[n].height # 0
  <2> DEFINE q == WithData(h[n], pre, X)
             r == WithData(h[to], kv, Y)
             k == [h EXCEPT ![n] = q, ![to] = r]
  <2>1. g = correct_childrens_parent_links(k, to, 1, Len(kv) + 1)
    BY <1>5 DEF move_suffix, IsLeaf, len
  <2>2. Len(A) = a + 1 /\ Len(C) = 1
    <3>1. Len(A) = a + 1
      BY <1>5, NodeArity
    <3>2. h[to].height # 0
      BY <1>5
    <3>3. Len(C) = Len(h[to].kv) + 1
      BY <3>2, NodeArity
    <3> QED BY <3>1, <3>3
  <2>3. X \in Seq(NodeId) /\ Y \in Seq(NodeId) /\ SuffixEdges(X, Y, A, C, idx)
    <3>1. CutEdges(X, Y, A, C, a, idx)
      BY <1>1, <2>2 DEF CutEdges
    <3> HIDE DEF X, Y, A, C, a
    <3>2. A \in Seq(NodeId) /\ C \in Seq(NodeId)
      BY ONLY <1>1
    <3> QED BY ONLY <3>1, <3>2, SuffixEdgesOf
  <2> HIDE DEF kv, pre, X, Y
  <2>4. /\ q \in Node /\ q.kv = pre /\ q.edges = X /\ q.height = h[n].height
        /\ q.parent = h[n].parent /\ q.parent_idx = h[n].parent_idx
    BY <1>1, <1>3, <2>3, WithDataProps
  <2>5. /\ r \in Node /\ r.kv = kv /\ r.edges = Y /\ r.height = h[to].height
        /\ r.parent = h[to].parent /\ r.parent_idx = h[to].parent_idx
    BY <1>1, <1>2, <2>3, WithDataProps
  <2> HIDE DEF q, r
  <2>6. /\ DOMAIN k = L /\ k[n] = q /\ k[to] = r
        /\ \A m \in L \ {n, to} : k[m] = h[m]
    OBVIOUS
  <2>7. HeapType(k)
    BY <1>1, <2>4, <2>5 DEF HeapType
  <2> HIDE DEF k
  <2>8. \A m \in L : /\ k[m].height = h[m].height /\ k[m].parent = h[m].parent
                     /\ k[m].parent_idx = h[m].parent_idx
    BY <2>4, <2>5, <2>6
  <2>9. /\ Len(X) = idx + 1 /\ Len(Y) = a + 1 - idx
        /\ \A j \in 1 .. idx + 1 : X[j] = A[j]
        /\ Y[1] = C[1]
        /\ \A j \in 2 .. a + 1 - idx : Y[j] = A[idx + j]
    BY <2>2, <2>3 DEF SuffixEdges
  \* Each edge was there before, at one place.
  <2> DEFINE At(m, i) == IF m = to /\ i >= 2 THEN <<n, idx + i>> ELSE <<m, i>>
  <2>10. ASSUME NEW m \in L, NEW i \in 1 .. Len(k[m].edges)
         PROVE  /\ i \in Nat
                /\ At(m, i)[1] \in L /\ At(m, i)[2] \in 1 .. Len(h[At(m, i)[1]].edges)
                /\ k[m].edges[i] = h[At(m, i)[1]].edges[At(m, i)[2]]
                /\ h[At(m, i)[1]].height = h[m].height
    <3>1. CASE m = to /\ i >= 2
      <4>1. i \in 2 .. a + 1 - idx /\ idx + i \in 1 .. Len(A) /\ i \in Nat
        BY <1>1, <2>2, <2>5, <2>6, <2>9, <3>1
      <4>2. k[m].edges[i] = A[idx + i]
        BY <2>5, <2>6, <2>9, <3>1, <4>1
      <4> QED BY <3>1, <4>1, <4>2
    <3>2. CASE m = to /\ ~(i >= 2)
      <4>1. i = 1 /\ k[m].edges[i] = C[1]
        BY <2>5, <2>6, <2>9, <3>2
      <4> QED BY <2>2, <3>2, <4>1
    <3>3. CASE m = n
      <4>1. i \in 1 .. idx + 1 /\ k[m].edges[i] = A[i] /\ i \in 1 .. Len(A)
        BY <1>1, <2>2, <2>4, <2>6, <2>9, <3>3
      <4> QED BY <3>3, <4>1
    <3>4. CASE m # n /\ m # to
      <4>1. k[m].edges = h[m].edges
        BY <2>6, <3>4
      <4> QED BY <3>4, <4>1
    <3> QED BY <3>1, <3>2, <3>3, <3>4
  <2>11. ASSUME NEW m \in L, NEW i \in 1 .. Len(k[m].edges),
                NEW x \in L, NEW j \in 1 .. Len(k[x].edges), At(m, i) = At(x, j)
         PROVE  m = x /\ i = j
    <3>1. i \in Nat /\ j \in Nat
      BY <2>10
    <3>2. Len(k[n].edges) = idx + 1
      BY <2>4, <2>6, <2>9
    <3>3. CASE m = to /\ i >= 2 /\ ~(x = to /\ j >= 2)
      <4>1. x = n /\ j = idx + i
        BY <2>11, <3>3
      <4> QED BY <3>1, <3>2, <3>3, <4>1
    <3>4. CASE x = to /\ j >= 2 /\ ~(m = to /\ i >= 2)
      <4>1. m = n /\ i = idx + j
        BY <2>11, <3>4
      <4> QED BY <3>1, <3>2, <3>4, <4>1
    <3>5. CASE m = to /\ i >= 2 /\ x = to /\ j >= 2
      <4>1. idx + i = idx + j
        BY <2>11, <3>5
      <4> QED BY <3>1, <3>5, <4>1
    <3>6. CASE ~(m = to /\ i >= 2) /\ ~(x = to /\ j >= 2)
      BY <2>11, <3>6
    <3> QED BY <3>3, <3>4, <3>5, <3>6
  <2>12. ASSUME NEW m \in L, NEW i \in 1 .. Len(k[m].edges)
         PROVE  /\ k[m].edges[i] \in L /\ k[m].edges[i] \notin tops
                /\ h[k[m].edges[i]].height = h[m].height - 1
                /\ h[k[m].edges[i]].parent = At(m, i)[1]
                /\ h[k[m].edges[i]].parent_idx = At(m, i)[2] - 1
    <3> DEFINE o == At(m, i)[1]
               j == At(m, i)[2]
               c == k[m].edges[i]
    <3>1. /\ o \in L /\ j \in 1 .. Len(h[o].edges) /\ c = h[o].edges[j]
          /\ h[o].height = h[m].height
      BY <2>10
    <3> HIDE DEF o, j, c, At
    <3>2. c \in L /\ h[c].height = h[o].height - 1 /\ h[c].parent = o /\ h[c].parent_idx = j - 1
      BY <3>1, WellFormedFacts
    <3>3. o # Nil
      BY <1>1, <3>1, HeapNode
    <3>4. c \notin tops
      BY <3>2, <3>3, WellFormedFacts
    <3>5. c \in L /\ c \notin tops /\ h[c].height = h[m].height - 1
          /\ h[c].parent = o /\ h[c].parent_idx = j - 1
      BY <3>1, <3>2, <3>4
    <3> QED BY <3>5 DEF o, j, c
  <2>13. Down(k, L)
    BY <2>8, <2>12 DEF Down
  <2>14. Unique(k, L)
    <3> SUFFICES ASSUME NEW m \in L, NEW x \in L, NEW i \in 1 .. Len(k[m].edges),
                        NEW j \in 1 .. Len(k[x].edges), k[m].edges[i] = k[x].edges[j]
                 PROVE  m = x /\ i = j
      BY DEF Unique
    <3>0. /\ h[k[m].edges[i]].parent = At(m, i)[1] /\ h[k[m].edges[i]].parent_idx = At(m, i)[2] - 1
          /\ h[k[x].edges[j]].parent = At(x, j)[1] /\ h[k[x].edges[j]].parent_idx = At(x, j)[2] - 1
      <4> HIDE DEF At
      <4> QED BY <2>12
    <3>1. At(m, i)[1] = At(x, j)[1] /\ At(m, i)[2] - 1 = At(x, j)[2] - 1
      <4> HIDE DEF At
      <4> QED BY <3>0
    <3>2. At(m, i)[2] \in Int /\ At(x, j)[2] \in Int
      BY <2>10
    <3>3. At(m, i)[2] = At(x, j)[2]
      <4> HIDE DEF At
      <4> QED BY <3>1, <3>2
    <3>4. At(m, i) = At(x, j)
      BY <3>1, <3>3
    <3> HIDE DEF At
    <3> QED BY <2>11, <3>4
  <2>15. Arity(k, L)
    <3> SUFFICES ASSUME NEW m \in L
                 PROVE  /\ k[m].height = 0 => Len(k[m].edges) = 0
                        /\ k[m].height # 0 => Len(k[m].edges) = Len(k[m].kv) + 1
      BY DEF Arity
    <3>1. CASE m = n
      BY <1>3, <1>5, <2>4, <2>6, <2>9, <3>1
    <3>2. CASE m = to
      <4>1. Len(k[m].edges) = a + 1 - idx /\ Len(k[m].kv) = a - idx /\ k[m].height # 0
        BY <1>2, <1>5, <2>5, <2>6, <2>9, <3>2
      <4> QED BY <1>1, <4>1
    <3>3. CASE m # n /\ m # to
      <4>1. k[m] = h[m]
        BY <2>6, <3>3
      <4> QED BY <4>1, NodeArity
    <3> QED BY <3>1, <3>2, <3>3
  <2>16. TopsFree(k, L, tops)
    <3> SUFFICES ASSUME NEW m \in L \cap tops
                 PROVE  /\ k[m].parent = Nil
                        /\ \A x \in L : \A i \in 1 .. Len(k[x].edges) : k[x].edges[i] # m
      BY DEF TopsFree
    <3>1. k[m].parent = Nil
      BY <2>8, WellFormedFacts
    <3> HIDE DEF At
    <3> QED BY <2>12, <3>1
  <2>17. Covered(k, L, tops)
    <3> SUFFICES ASSUME NEW c \in L \ tops
                 PROVE  \E m \in L : \E i \in 1 .. Len(k[m].edges) : k[m].edges[i] = c
      BY DEF Covered
    <3> DEFINE p == h[c].parent
               j == h[c].parent_idx + 1
    <3>1. p \in L /\ j \in 1 .. Len(h[p].edges) /\ h[p].edges[j] = c
      BY WellFormedFacts
    <3> HIDE DEF p, j
    <3>2. CASE p = n /\ j > idx + 1
      <4>1. PICK i \in Int : i = j - idx
        BY <3>1, <1>1
      <4>2. i \in 2 .. a + 1 - idx /\ idx + i = j
        BY <1>1, <2>2, <3>1, <3>2, <4>1
      <4>3. i \in 1 .. Len(k[to].edges) /\ k[to].edges[i] = A[j]
        BY <1>1, <2>5, <2>6, <2>9, <4>2
      <4> QED BY <3>1, <3>2, <4>3
    <3>3. CASE p = n /\ ~(j > idx + 1)
      <4>1. j \in 1 .. idx + 1
        BY <1>1, <3>1, <3>3
      <4>2. j \in 1 .. Len(k[n].edges) /\ k[n].edges[j] = A[j]
        BY <2>4, <2>6, <2>9, <4>1
      <4> QED BY <3>1, <3>3, <4>2
    <3>4. CASE p = to
      <4>1. j = 1 /\ C[1] = c
        BY <2>2, <3>1, <3>4
      <4>2. 1 \in 1 .. Len(k[to].edges) /\ k[to].edges[1] = C[1]
        BY <1>1, <2>5, <2>6, <2>9
      <4> QED BY <4>1, <4>2
    <3>5. CASE p # n /\ p # to
      <4>1. k[p].edges = h[p].edges
        BY <2>6, <3>1, <3>5
      <4> QED BY <3>1, <4>1
    <3> QED BY <3>2, <3>3, <3>4, <3>5
  <2>18. Skeleton(k, L, tops)
    BY <2>6, <2>7, <2>13, <2>14, <2>15, <2>16, <2>17 DEF Skeleton
  <2> DEFINE hi == Len(kv) + 1
  <2>19. hi \in Nat /\ Len(k[to].edges) = hi
    <3>1. a \in Nat /\ idx \in 0 .. a /\ Len(kv) = a - idx
      BY <1>1, <1>2
    <3>2. Len(k[to].edges) = Len(Y)
      BY <2>5, <2>6
    <3>3. Len(Y) = a + 1 - idx
      BY <2>9
    <3> HIDE DEF a
    <3> QED BY <3>1, <3>2, <3>3
  <2>20. g = correct_childrens_parent_links(k, to, 1, hi)
    BY <2>1
  <2> HIDE DEF hi
  <2>21. /\ DOMAIN g = DOMAIN k /\ Skeleton(g, L, tops)
         /\ \A m \in DOMAIN k : g[m].kv = k[m].kv /\ g[m].edges = k[m].edges
                                /\ g[m].height = k[m].height
         /\ \A m \in L : \A i \in 1 .. Len(k[m].edges) :
              (m = to /\ 1 < i /\ i <= hi) \/ LinkOK(k, m, i) => LinkOK(g, m, i)
    <3>1. 1 \in Nat
      OBVIOUS
    <3> QED BY <2>18, <2>19, <2>20, <3>1, CorrectShape
  <2>22. ASSUME NEW m \in L, NEW i \in 1 .. Len(g[m].edges)
         PROVE  LinkOK(g, m, i)
    <3>1. i \in 1 .. Len(k[m].edges)
      BY <2>6, <2>21
    <3>2. CASE m = to /\ i >= 2
      <4>1. 1 < i /\ i <= hi
        BY <2>10, <2>19, <3>1, <3>2
      <4> QED BY <2>21, <3>1, <3>2, <4>1
    <3>3. CASE ~(m = to /\ i >= 2)
      <4> DEFINE c == k[m].edges[i]
      <4>1. At(m, i) = <<m, i>>
        BY <3>3
      <4>2. c \in L /\ h[c].parent = m /\ h[c].parent_idx = i - 1
        BY <2>12, <3>1, <4>1
      <4>3. LinkOK(k, m, i)
        BY <2>8, <4>2 DEF LinkOK
      <4> QED BY <2>21, <3>1, <4>3
    <3> QED BY <3>2, <3>3
  <2>23. WellFormed(g, tops)
    <3>1. HeapType(g)
      BY <2>21 DEF Skeleton
    <3>2. g = [m \in L |-> g[m]]
      BY <2>6, <2>21, <3>1, SelfRestrict
    <3> QED BY <2>21, <2>22, <3>2, ShapeWellFormed
  <2>24. Suffixed(g, h, n, idx, to)
    <3>1. /\ DOMAIN g = DOMAIN h
          /\ \A m \in DOMAIN h : g[m].height = h[m].height
          /\ \A m \in DOMAIN h \ {n, to} : g[m].kv = h[m].kv /\ g[m].edges = h[m].edges
      BY <2>6, <2>8, <2>21
    <3>2. Len(g[n].kv) = idx /\ Len(g[to].kv) = Len(h[n].kv) - idx
      BY <1>2, <1>3, <2>4, <2>5, <2>6, <2>21
    <3>3. LastChild(g, n) = descend(h, n, idx)
      <4>1. g[n].edges = X /\ X[idx + 1] = A[idx + 1]
        <5>1. idx + 1 \in 1 .. idx + 1
          OBVIOUS
        <5> QED BY <2>4, <2>6, <2>9, <2>21, <5>1
      <4> QED BY <3>2, <4>1 DEF LastChild, descend
    <3>4. descend(g, to, 0) = descend(h, to, 0)
      <4>1. g[to].edges = Y /\ Y[1] = C[1]
        BY <2>5, <2>6, <2>9, <2>21
      <4> QED BY <4>1 DEF descend
    <3> QED BY <3>1, <3>2, <3>3, <3>4 DEF Suffixed
  <2> QED BY <2>23, <2>24
<1> QED BY <1>4, <1>5

-----------------------------------------------------------------------------
(* Two chains *)

\* The parent of a node of a chain is on it.
LEMMA ChainParent ==
  ASSUME NEW h, NEW tops, WellFormed(h, tops), NEW last \in BOOLEAN, NEW D, NEW top,
         Chain(h, D, top, last), NEW m \in D, m # top
  PROVE  /\ h[m].parent \in D /\ h[h[m].parent].height # 0
         /\ EndChild(h, h[m].parent, last) = m /\ m \notin tops
<1>1. PICK p \in D : h[p].height # 0 /\ EndChild(h, p, last) = m
  BY DEF Chain
<1>2. p \in DOMAIN h
  BY DEF Chain
<1>3. h[EndChild(h, p, last)].parent = p /\ EndChild(h, p, last) \notin tops
  BY <1>1, <1>2, EndChildFacts
<1> QED BY <1>1, <1>3

\* A child of a node off a chain from a root is off it.
LEMMA ChainOff ==
  ASSUME NEW h, NEW tops, WellFormed(h, tops), NEW last \in BOOLEAN, NEW O, NEW top \in tops,
         Chain(h, O, top, last), NEW m, m \notin tops, h[m].parent \notin O
  PROVE  m \notin O
<1> SUFFICES ASSUME m \in O
             PROVE  FALSE
  OBVIOUS
<1> QED BY ChainParent

\* The nodes of O are as they were.
Kept(g, h, O) ==
  \A m \in O : /\ m \in DOMAIN g
               /\ g[m].kv = h[m].kv /\ g[m].edges = h[m].edges /\ g[m].height = h[m].height

\* A way down stays one when its nodes do.
LEMMA ChainKept ==
  ASSUME NEW h, NEW g, NEW O, NEW top, NEW last, Chain(h, O, top, last), Kept(g, h, O)
  PROVE  Chain(g, O, top, last)
<1>1. \A m \in O : EndChild(g, m, last) = EndChild(h, m, last)
  BY DEF Kept, EndChild, LastChild, descend
<1>2. O \subseteq DOMAIN g /\ \A m \in O : g[m].height = h[m].height
  BY DEF Kept
<1> QED BY <1>1, <1>2, ChainSame

\* A chain of one node.
LEMMA ChainOne ==
  ASSUME NEW h, NEW n \in DOMAIN h, NEW last
  PROVE  Chain(h, {n}, n, last)
BY DEF Chain

\* A chain goes on from its lowest node to that node's end child.
LEMMA ChainGrow ==
  ASSUME NEW h, NEW tops, WellFormed(h, tops), NEW last \in BOOLEAN, NEW D, NEW top,
         Chain(h, D, top, last), NEW n \in D, h[n].height # 0,
         NEW c, c = EndChild(h, n, last)
  PROVE  Chain(h, D \cup {c}, top, last)
<1>1. D \subseteq DOMAIN h /\ top \in D
  BY DEF Chain
<1>2. c \in DOMAIN h /\ h[c].height = h[n].height - 1
  BY <1>1, EndChildFacts
<1>3. h[n].height <= h[top].height /\ h[n].height \in Nat /\ h[top].height \in Nat
  <2>1. h[n].height \in Nat /\ h[top].height \in Nat
    BY <1>1, NodeArity
  <2>2. n = top \/ h[n].height < h[top].height
    BY DEF Chain
  <2> QED BY <2>1, <2>2
<1>4. h[c].height < h[top].height
  BY <1>2, <1>3
<1>5. ASSUME NEW m \in (D \cup {c}) \ {top}
      PROVE  /\ h[m].height < h[top].height
             /\ \E p \in D \cup {c} : h[p].height # 0 /\ EndChild(h, p, last) = m
  <2>1. CASE m = c
    BY <1>4, <2>1
  <2>2. CASE m \in D
    BY <1>5, <2>2 DEF Chain
  <2> QED BY <2>1, <2>2
<1> QED BY <1>1, <1>2, <1>5 DEF Chain

\* Two chains that share no node: along the border in repair, from n down, and
\* along the other one.
Two(h, D, n, last, O, other) ==
  Chain(h, D, n, last) /\ Chain(h, O, other, ~last) /\ D \cap O = {}

\* The next node of the border and its sibling, around the pair idx.
Ends(h, tops, D, n, idx, O, c, sib) ==
  /\ n \in DOMAIN h /\ n \notin O
  /\ idx \in 0 .. Len(h[n].kv) - 1 /\ {c, sib} = {descend(h, n, idx), descend(h, n, idx + 1)}
  /\ c \in DOMAIN h /\ sib \in DOMAIN h /\ c # sib /\ c # n /\ sib # n
  /\ c \notin tops /\ sib \notin tops
  /\ h[c].height = h[n].height - 1 /\ h[sib].height = h[n].height - 1
  /\ c \notin O /\ sib \notin O /\ sib \notin D

\* The two children around the end pair of the node: c is on the way, sib is on neither.
LEMMA EndsOf ==
  ASSUME NEW h, NEW tops, WellFormed(h, tops), NEW last \in BOOLEAN, NEW D, NEW n, NEW O,
         NEW other \in tops, Two(h, D, n, last, O, other), h[n].height # 0, Len(h[n].kv) > 0,
         NEW idx, idx = IF last THEN Len(h[n].kv) - 1 ELSE 0,
         NEW c, c = EndChild(h, n, last),
         NEW sib, sib = descend(h, n, IF last THEN idx ELSE idx + 1)
  PROVE  /\ Ends(h, tops, D, n, idx, O, c, sib)
         /\ c = descend(h, n, IF last THEN idx + 1 ELSE idx)
<1>1. n \in D /\ D \subseteq DOMAIN h /\ n \notin O /\ n \in DOMAIN h
  BY DEF Two, Chain
<1>2. Len(h[n].kv) \in Nat
  BY <1>1, NodeArity
<1>3. idx \in 0 .. Len(h[n].kv) - 1 /\ (last => idx + 1 = Len(h[n].kv)) /\ (~last => idx = 0)
  BY <1>2
<1>4. c = descend(h, n, IF last THEN idx + 1 ELSE idx)
  BY <1>3 DEF EndChild, LastChild
<1> DEFINE l == descend(h, n, idx)
           r == descend(h, n, idx + 1)
<1>5. /\ l \in DOMAIN h /\ r \in DOMAIN h /\ l # r /\ l # n /\ r # n
      /\ h[l].height = h[n].height - 1 /\ h[r].height = h[n].height - 1
      /\ h[l].parent = n /\ h[r].parent = n
  BY <1>1, <1>3, Siblings
<1>6. (last => c = r /\ sib = l) /\ (~last => c = l /\ sib = r)
  BY <1>4
<1> HIDE DEF l, r
<1>7. n # Nil
  BY <1>1, HeapNode DEF WellFormed
<1>8. l \notin tops /\ r \notin tops
  BY <1>5, <1>7, WellFormedFacts
<1>9. l \notin O /\ r \notin O
  <2> DEFINE z == ~last
  <2>1. Chain(h, O, other, z)
    BY DEF Two
  <2>2. z \in BOOLEAN
    OBVIOUS
  <2> HIDE DEF z
  <2>3. h[l].parent \notin O /\ h[r].parent \notin O
    BY <1>1, <1>5
  <2>4. l \notin O
    BY <1>8, <2>1, <2>2, <2>3, ChainOff
  <2>5. r \notin O
    BY <1>8, <2>1, <2>2, <2>3, ChainOff
  <2> QED BY <2>4, <2>5
<1>10. sib \notin D
  <2> SUFFICES ASSUME sib \in D
               PROVE  FALSE
    OBVIOUS
  <2>1. sib # n /\ h[sib].parent = n /\ sib # c
    BY <1>5, <1>6
  <2>2. Chain(h, D, n, last)
    BY DEF Two
  <2>3. EndChild(h, h[sib].parent, last) = sib
    BY <2>1, <2>2, ChainParent
  <2> QED BY <2>1, <2>3
<1>11. {c, sib} = {l, r} /\ c # sib /\ c # n /\ sib # n
  BY <1>5, <1>6
<1> QED BY <1>1, <1>3, <1>4, <1>5, <1>6, <1>8, <1>9, <1>10, <1>11 DEF Ends, l, r

\* The sizes along the way of the repair: n can give a pair, unless it is a root.
Sizes(h, tops, D, n, O) ==
  /\ Sized(h, tops, (D \ {n}) \cup O)
  /\ n \in tops => Len(h[n].kv) > 0
  /\ n \notin tops => Len(h[n].kv) > MIN_LEN

\* What a step of the repair keeps.
Keeps(g, h, tops, O) ==
  /\ WellFormed(g, tops) /\ DOMAIN g \subseteq DOMAIN h /\ tops \subseteq DOMAIN g
  /\ Kept(g, h, O)

\* The chain below n, from n's end child.
LEMMA Below ==
  ASSUME NEW h, NEW tops, WellFormed(h, tops), NEW last \in BOOLEAN, NEW D, NEW n, NEW O,
         NEW other, Two(h, D, n, last, O, other), h[n].height # 0,
         NEW c, c = EndChild(h, n, last), c \notin O, c # n, NEW E, E = (D \ {n}) \cup {c}
  PROVE  Two(h, E, c, last, O, other) /\ n \notin E
<1>1. Chain(h, D, n, last) /\ Chain(h, O, other, ~last) /\ D \cap O = {}
  BY DEF Two
<1>2. Chain(h, E, c, last)
  BY <1>1, ChainDown
<1>3. E \cap O = {} /\ n \notin E
  BY <1>1
<1> QED BY <1>1, <1>2, <1>3 DEF Two

-----------------------------------------------------------------------------
(* fix_right_border and fix_left_border, one level *)

\* idx is the pair of n whose children are its end child c and the sibling sib.
EndPair(h, n, last, idx, c, sib) ==
  /\ idx = IF last THEN Len(h[n].kv) - 1 ELSE 0
  /\ c = EndChild(h, n, last)
  /\ sib = descend(h, n, IF last THEN idx ELSE idx + 1)

\* The nodes around n on the border, when the repair is at n.
Around(h, tops, D, n, last, O, other, idx, c, sib) ==
  /\ Ends(h, tops, D, n, idx, O, c, sib)
  /\ c = descend(h, n, IF last THEN idx + 1 ELSE idx)
  /\ Len(h[n].kv) \in Nat /\ Len(h[n].kv) > 0
  /\ Len(h[c].kv) \in Nat /\ Len(h[c].kv) <= CAPACITY
  /\ Len(h[sib].kv) \in Nat /\ Len(h[sib].kv) <= CAPACITY /\ Len(h[sib].kv) >= MIN_LEN
  /\ Two(h, (D \ {n}) \cup {c}, c, last, O, other)

\* So what the repair finds at a node of the way.
LEMMA AtNode ==
  ASSUME NEW h, NEW tops, WellFormed(h, tops), NEW last \in BOOLEAN, NEW D, NEW n, NEW O,
         NEW other \in tops, Two(h, D, n, last, O, other), h[n].height # 0,
         Sizes(h, tops, D, n, O), NEW idx, NEW c, NEW sib, EndPair(h, n, last, idx, c, sib)
  PROVE  Around(h, tops, D, n, last, O, other, idx, c, sib)
<1>0. /\ idx = IF last THEN Len(h[n].kv) - 1 ELSE 0
      /\ c = EndChild(h, n, last)
      /\ sib = descend(h, n, IF last THEN idx ELSE idx + 1)
  BY DEF EndPair
<1>1. n \in DOMAIN h
  BY DEF Two, Chain
<1>2. Len(h[n].kv) \in Nat /\ Len(h[n].kv) > 0
  <2>1. Len(h[n].kv) \in Nat
    BY <1>1, NodeArity
  <2> QED BY <2>1, Minimum DEF Sizes
<1>3. Ends(h, tops, D, n, idx, O, c, sib) /\ c = descend(h, n, IF last THEN idx + 1 ELSE idx)
  BY <1>0, <1>2, EndsOf
<1>4. /\ c \in DOMAIN h /\ sib \in DOMAIN h /\ c \notin O /\ c # n
      /\ sib \notin tops /\ sib \notin O /\ sib \notin D
  BY <1>3 DEF Ends
<1>5. Len(h[c].kv) \in Nat /\ Len(h[sib].kv) \in Nat
  BY <1>4, NodeArity
<1>6. /\ Len(h[c].kv) <= CAPACITY /\ Len(h[sib].kv) <= CAPACITY /\ Len(h[sib].kv) >= MIN_LEN
  BY <1>4 DEF Sizes, Sized
<1> DEFINE E == (D \ {n}) \cup {c}
<1>7. Two(h, E, c, last, O, other)
  <2>1. E = (D \ {n}) \cup {c}
    OBVIOUS
  <2> HIDE DEF E
  <2> QED BY <1>0, <1>4, <2>1, Below
<1> QED BY <1>2, <1>3, <1>5, <1>6, <1>7 DEF Around

\* The next node and its sibling are merged.
LEMMA MergeLevel ==
  ASSUME NEW h, NEW tops, WellFormed(h, tops), NEW last \in BOOLEAN, NEW D, NEW n, NEW O,
         NEW other \in tops, tops \subseteq DOMAIN h,
         Two(h, D, n, last, O, other), h[n].height # 0, Sizes(h, tops, D, n, O),
         NEW idx, idx = IF last THEN Len(h[n].kv) - 1 ELSE 0, can_merge(h, n, idx),
         NEW left, left = descend(h, n, idx), NEW g, g = do_merge(h, n, idx)
  PROVE  /\ Keeps(g, h, tops, O)
         /\ \E E : Two(g, E, left, last, O, other) /\ Sizes(g, tops, E, left, O)
<1> DEFINE c == EndChild(h, n, last)
           sib == descend(h, n, IF last THEN idx ELSE idx + 1)
           rgt == descend(h, n, idx + 1)
           F == (D \ {n}) \cup {c}
<1>1. /\ Ends(h, tops, D, n, idx, O, c, sib)
      /\ c = descend(h, n, IF last THEN idx + 1 ELSE idx)
      /\ Len(h[n].kv) \in Nat /\ Len(h[n].kv) > 0
      /\ Len(h[c].kv) \in Nat
      /\ Len(h[sib].kv) \in Nat /\ Len(h[sib].kv) >= MIN_LEN
      /\ Two(h, F, c, last, O, other)
  <2>1. EndPair(h, n, last, idx, c, sib)
    BY DEF EndPair
  <2> HIDE DEF c, sib
  <2>2. Around(h, tops, D, n, last, O, other, idx, c, sib)
    BY <2>1, AtNode
  <2> QED BY <2>2 DEF Around
<1>2. /\ (last => c = rgt /\ sib = left) /\ (~last => c = left /\ sib = rgt)
  BY <1>1
<1> HIDE DEF c, sib
<1>3. /\ n \in DOMAIN h /\ idx \in 0 .. Len(h[n].kv) - 1 /\ n \notin O
      /\ c \in DOMAIN h /\ sib \in DOMAIN h /\ c # sib /\ c # n /\ sib # n
      /\ c \notin tops /\ sib \notin tops /\ c \notin O /\ sib \notin O /\ sib \notin D
      /\ h[c].height = h[n].height - 1 /\ h[sib].height = h[n].height - 1
  BY <1>1 DEF Ends
<1>4. /\ left \in DOMAIN h /\ rgt \in DOMAIN h /\ left # rgt /\ left # n /\ rgt # n
      /\ left \notin tops /\ rgt \notin tops /\ left \notin O /\ rgt \notin O
      /\ h[left].height = h[c].height
  <2> HIDE DEF rgt
  <2>1. CASE last
    BY <1>2, <1>3, <2>1
  <2>2. CASE ~last
    BY <1>2, <1>3, <2>2
  <2> QED BY <2>1, <2>2
<1> DEFINE both == Len(h[left].kv) + 1 + Len(h[rgt].kv)
<1>m. both \in Nat /\ both <= CAPACITY /\ both > MIN_LEN
  <2>1. both <= CAPACITY
    BY DEF can_merge, len
  <2>2. PICK x \in Nat : x = Len(h[c].kv)
    BY <1>1
  <2>3. PICK y \in Nat : y = Len(h[sib].kv) /\ y >= MIN_LEN
    BY <1>1
  <2>4. (Len(h[left].kv) = x /\ Len(h[rgt].kv) = y) \/ (Len(h[left].kv) = y /\ Len(h[rgt].kv) = x)
    BY <1>2, <2>2, <2>3
  <2>5. both = x + 1 + y
    <3>1. both = x + 1 + y \/ both = y + 1 + x
      BY <2>4
    <3>2. y + 1 + x = x + 1 + y
      OBVIOUS
    <3> HIDE DEF both
    <3> QED BY <3>1, <3>2
  <2> HIDE DEF both
  <2> QED BY <2>1, <2>3, <2>5, Minimum
<1>5. Merged(g, h, tops, n, left, rgt)
  BY <1>3, DoMerge
<1>6. EdgesMerged(g, h, n, idx, left, rgt)
  BY <1>3, MergeEdges
<1>7. /\ DOMAIN g = DOMAIN h \ {rgt} /\ WellFormed(g, tops)
      /\ Len(g[n].kv) = Len(h[n].kv) - 1
      /\ Len(g[left].kv) = both
      /\ \A m \in DOMAIN g : g[m].height = h[m].height
      /\ \A m \in DOMAIN g \ {n, left} : g[m].kv = h[m].kv
      /\ \A m \in DOMAIN g \ {n, left} : g[m].edges = h[m].edges
  BY <1>5, <1>6 DEF Merged, EdgesMerged
<1> HIDE DEF both
<1>8. Chain(h, F, c, last) /\ F \cap O = {} /\ Chain(h, O, other, ~last)
  BY <1>1 DEF Two
<1>9. O \subseteq DOMAIN h /\ F \subseteq DOMAIN h /\ D \subseteq DOMAIN h /\ n \in D
  BY <1>8 DEF Chain, Two
<1>10. Kept(g, h, O)
  BY <1>3, <1>4, <1>7, <1>9 DEF Kept
<1>11. Keeps(g, h, tops, O)
  BY <1>4, <1>7, <1>10 DEF Keeps
<1>12. Chain(g, O, other, ~last)
  <2> DEFINE z == ~last
  <2>1. Chain(h, O, other, z)
    BY <1>8
  <2> HIDE DEF z
  <2>2. Chain(g, O, other, z)
    BY <1>10, <2>1, ChainKept
  <2> QED BY <2>2 DEF z
<1> DEFINE E == (F \ {rgt}) \cup {left}
<1>13. Chain(g, E, left, last)
  <2>1. CASE ~last
    <3>1. rgt \notin F /\ left \in F
      BY <1>2, <1>3, <2>1
    <3>2. E = F
      BY <3>1
    <3>3. F \subseteq DOMAIN g
      BY <1>7, <1>9, <3>1
    <3>4. ASSUME NEW m \in F, h[m].height # 0
          PROVE  EndChild(g, m, last) = EndChild(h, m, last)
      <4>1. descend(g, m, 0) = descend(h, m, 0)
        BY <1>3, <1>6, <1>9, <3>3, <3>4, MergeFirst
      <4> QED BY <2>1, <4>1 DEF EndChild
    <3>5. \A m \in F : g[m].height = h[m].height
      BY <1>7, <3>3
    <3> HIDE DEF F, E
    <3>6. Chain(g, F, c, last)
      BY ONLY <1>8, <3>3, <3>4, <3>5, ChainSame
    <3> QED BY <1>2, <2>1, <3>2, <3>6
  <2>2. CASE last
    <3>1. MergedBorder(g, h, left, rgt)
      BY <1>3, MergeBorder
    <3>2. c = rgt /\ left \notin F /\ rgt \in F
      BY <1>2, <1>3, <2>2
    <3>3. E \subseteq DOMAIN g /\ left \in E
      BY <1>4, <1>7, <1>9
    <3>4. ASSUME NEW m \in E \ {left}
          PROVE  /\ g[m].height < g[left].height
                 /\ \E p \in E : g[p].height # 0 /\ EndChild(g, p, last) = m
      <4>1. m \in F /\ m # c
        BY <3>2, <3>4
      <4>2. h[m].height < h[c].height
        BY <1>8, <4>1 DEF Chain
      <4>3. PICK p \in F : h[p].height # 0 /\ LastChild(h, p) = m
        BY <1>8, <2>2, <4>1 DEF Chain, EndChild
      <4>4. g[m].height < g[left].height
        BY <1>4, <1>7, <3>3, <4>2
      <4>5. CASE p = rgt
        <5>1. h[left].height # 0
          BY <1>4, <3>2, <4>3, <4>5
        <5>2. LastChild(g, left) = m
          BY <3>1, <3>3, <4>3, <4>5, <5>1 DEF MergedBorder
        <5>3. g[left].height # 0
          BY <1>7, <3>3, <5>1
        <5> QED BY <2>2, <3>3, <4>4, <5>2, <5>3 DEF EndChild
      <4>6. CASE p # rgt
        <5>1. p \in E /\ p # left
          BY <3>2, <4>3, <4>6
        <5>2. LastChild(g, p) = m
          BY <3>1, <3>2, <3>3, <4>1, <4>3, <5>1 DEF MergedBorder
        <5>3. g[p].height # 0
          BY <1>7, <3>3, <4>3, <5>1
        <5> QED BY <2>2, <4>4, <5>1, <5>2, <5>3 DEF EndChild
      <4> QED BY <4>5, <4>6
    <3> HIDE DEF E
    <3> QED BY <3>3, <3>4 DEF Chain
  <2> QED BY <2>1, <2>2
<1>14. Two(g, E, left, last, O, other)
  <2>1. E \cap O = {}
    BY <1>4, <1>8
  <2> QED BY <1>12, <1>13, <2>1 DEF Two
<1>15. ASSUME NEW m \in DOMAIN g
       PROVE  /\ Len(g[m].kv) <= CAPACITY
              /\ m \notin tops \cup ((E \ {left}) \cup O) => Len(g[m].kv) >= MIN_LEN
  <2>1. CASE m = left
    <3>1. Len(g[m].kv) = both
      BY <1>7, <2>1
    <3> HIDE DEF E
    <3> QED BY <1>m, <3>1, Minimum
  <2>2. CASE m = n
    <3>1. Len(h[n].kv) <= CAPACITY
      BY <1>3 DEF Sizes, Sized
    <3>2. n \notin tops => Len(h[n].kv) > MIN_LEN
      BY DEF Sizes
    <3> QED BY <1>1, <1>7, <2>2, <3>1, <3>2, Minimum
  <2>3. CASE m # left /\ m # n
    <3>1. g[m].kv = h[m].kv /\ m \in DOMAIN h /\ m # rgt
      BY <1>7, <2>3
    <3>2. m \in (D \ {n}) \cup O => m \in (E \ {left}) \cup O
      BY <2>3, <3>1
    <3>3. /\ Len(h[m].kv) <= CAPACITY
          /\ m \notin tops \cup ((D \ {n}) \cup O) => Len(h[m].kv) >= MIN_LEN
      BY <3>1 DEF Sizes, Sized
    <3> HIDE DEF E
    <3> QED BY <3>1, <3>2, <3>3
  <2> QED BY <2>1, <2>2, <2>3
<1>16. Sizes(g, tops, E, left, O)
  <2>1. Sized(g, tops, (E \ {left}) \cup O)
    BY <1>15 DEF Sized
  <2>2. Len(g[left].kv) > MIN_LEN
    BY <1>7, <1>m
  <2> HIDE DEF E
  <2> QED BY <1>4, <2>1, <2>2 DEF Sizes
<1> HIDE DEF E
<1> QED BY <1>11, <1>14, <1>16

\* The next node has enough already.
LEMMA StayLevel ==
  ASSUME NEW h, NEW tops, WellFormed(h, tops), NEW last \in BOOLEAN, NEW D, NEW n, NEW O,
         NEW other \in tops, tops \subseteq DOMAIN h,
         Two(h, D, n, last, O, other), h[n].height # 0, Sizes(h, tops, D, n, O),
         NEW c, c = EndChild(h, n, last), MIN_LEN + 1 - Len(h[c].kv) <= 0
  PROVE  /\ Keeps(h, h, tops, O)
         /\ \E E : Two(h, E, c, last, O, other) /\ Sizes(h, tops, E, c, O)
<1> DEFINE idx == IF last THEN Len(h[n].kv) - 1 ELSE 0
           sib == descend(h, n, IF last THEN idx ELSE idx + 1)
           E == (D \ {n}) \cup {c}
<1>1. /\ Ends(h, tops, D, n, idx, O, c, sib)
      /\ Len(h[n].kv) \in Nat /\ Len(h[c].kv) \in Nat
      /\ Two(h, E, c, last, O, other)
  <2>1. EndPair(h, n, last, idx, c, sib)
    BY DEF EndPair
  <2> HIDE DEF idx, sib
  <2>2. Around(h, tops, D, n, last, O, other, idx, c, sib)
    BY <2>1, AtNode
  <2> QED BY <2>2 DEF Around
<1> HIDE DEF idx, sib
<1>2. c \notin tops
  BY <1>1 DEF Ends
<1>3. Len(h[c].kv) > MIN_LEN
  <2>1. PICK x \in Nat : x = Len(h[c].kv)
    BY <1>1
  <2>2. MIN_LEN + 1 - x <= 0
    BY <2>1
  <2> QED BY <2>1, <2>2, Minimum
<1>4. Sized(h, tops, (E \ {c}) \cup O)
  <2> SUFFICES ASSUME NEW m \in DOMAIN h
               PROVE  /\ Len(h[m].kv) <= CAPACITY
                      /\ m \notin tops \cup ((E \ {c}) \cup O) => Len(h[m].kv) >= MIN_LEN
    BY DEF Sized
  <2>1. /\ Len(h[m].kv) <= CAPACITY
        /\ m \notin tops \cup ((D \ {n}) \cup O) => Len(h[m].kv) >= MIN_LEN
    BY DEF Sizes, Sized
  <2>2. CASE m = c
    <3>1. Len(h[m].kv) >= MIN_LEN
      BY <1>1, <1>3, <2>2, Minimum
    <3> QED BY <2>1, <3>1
  <2>3. CASE m # c
    BY <2>1, <2>3
  <2> QED BY <2>2, <2>3
<1>5. Keeps(h, h, tops, O)
  <2>1. O \subseteq DOMAIN h
    BY DEF Two, Chain
  <2> QED BY <2>1 DEF Keeps, Kept
<1> HIDE DEF E
<1> QED BY <1>1, <1>2, <1>3, <1>4, <1>5 DEF Sizes

\* The sibling has what the next node lacks, and more than that.
LEMMA SiblingHas ==
  ASSUME NEW x \in Nat, NEW y \in Nat, ~(x + 1 + y <= CAPACITY), MIN_LEN + 1 - x > 0
  PROVE  /\ MIN_LEN + 1 - x \in Nat /\ MIN_LEN + 1 - x >= 1 /\ MIN_LEN + 1 - x <= y
         /\ y - (MIN_LEN + 1 - x) \in Nat /\ y - (MIN_LEN + 1 - x) >= MIN_LEN
         /\ x + (MIN_LEN + 1 - x) = MIN_LEN + 1
BY Minimum

\* The next node gets from its sibling what it lacks.
LEMMA StealLevel ==
  ASSUME NEW h, NEW tops, WellFormed(h, tops), NEW last \in BOOLEAN, NEW D, NEW n, NEW O,
         NEW other \in tops, tops \subseteq DOMAIN h,
         Two(h, D, n, last, O, other), h[n].height # 0, Sizes(h, tops, D, n, O),
         NEW idx, idx = IF last THEN Len(h[n].kv) - 1 ELSE 0, ~can_merge(h, n, idx),
         NEW c, c = EndChild(h, n, last),
         NEW count, count = MIN_LEN + 1 - Len(h[c].kv), count > 0,
         NEW g, g = IF last THEN bulk_steal_left(h, n, idx, count)
                    ELSE bulk_steal_right(h, n, idx, count)
  PROVE  /\ Keeps(g, h, tops, O)
         /\ \E E : Two(g, E, c, last, O, other) /\ Sizes(g, tops, E, c, O)
<1> DEFINE sib == descend(h, n, IF last THEN idx ELSE idx + 1)
           left == descend(h, n, idx)
           rgt == descend(h, n, idx + 1)
           E == (D \ {n}) \cup {c}
           x == Len(h[c].kv)
           y == Len(h[sib].kv)
<1>1. /\ Ends(h, tops, D, n, idx, O, c, sib)
      /\ c = descend(h, n, IF last THEN idx + 1 ELSE idx)
      /\ Len(h[n].kv) \in Nat
      /\ x \in Nat /\ y \in Nat /\ y <= CAPACITY
      /\ Two(h, E, c, last, O, other)
  <2>1. EndPair(h, n, last, idx, c, sib)
    BY DEF EndPair
  <2> HIDE DEF sib
  <2>2. Around(h, tops, D, n, last, O, other, idx, c, sib)
    BY <2>1, AtNode
  <2> QED BY <2>2 DEF Around
<1>2. /\ (last => c = rgt /\ sib = left) /\ (~last => c = left /\ sib = rgt)
  BY <1>1
<1>3. /\ n \in DOMAIN h /\ idx \in 0 .. Len(h[n].kv) - 1 /\ n \notin O
      /\ c \in DOMAIN h /\ sib \in DOMAIN h /\ c # sib /\ c # n /\ sib # n
      /\ c \notin tops /\ sib \notin tops /\ c \notin O /\ sib \notin O /\ sib \notin D
      /\ h[c].height = h[n].height - 1 /\ h[sib].height = h[n].height - 1
  BY <1>1 DEF Ends
<1>4. /\ count \in Nat /\ count >= 1 /\ count <= y
      /\ y - count \in Nat /\ y - count >= MIN_LEN /\ x + count = MIN_LEN + 1
  <2>1. ~(x + 1 + y <= CAPACITY)
    <3>1. ~(Len(h[left].kv) + 1 + Len(h[rgt].kv) <= CAPACITY)
      BY DEF can_merge, len
    <3>2. CASE last
      <4>1. ~(y + 1 + x <= CAPACITY)
        BY <1>2, <3>1, <3>2
      <4> HIDE DEF x, y
      <4> QED BY <1>1, <4>1, Minimum
    <3>3. CASE ~last
      BY <1>2, <3>1, <3>3
    <3> QED BY <3>2, <3>3
  <2>2. count = MIN_LEN + 1 - x
    OBVIOUS
  <2> HIDE DEF x, y
  <2> QED BY <1>1, <2>1, <2>2, SiblingHas
<1> DEFINE u == y - count
           v == x + count
<1>5. u \in Nat /\ v \in Nat /\ u >= MIN_LEN /\ u <= y /\ v = MIN_LEN + 1 /\ v > MIN_LEN
  <2>1. u = y - count /\ v = x + count
    OBVIOUS
  <2> HIDE DEF x, y, u, v
  <2>2. x \in Nat /\ y \in Nat
    BY <1>1
  <2> QED BY ONLY <1>4, <2>1, <2>2, Minimum
<1>6. /\ DOMAIN g = DOMAIN h /\ WellFormed(g, tops)
      /\ \A m \in DOMAIN h : g[m].height = h[m].height
      /\ \A m \in DOMAIN h \ {n, c, sib} : g[m].kv = h[m].kv
      /\ Len(g[n].kv) = Len(h[n].kv)
      /\ Len(g[sib].kv) = u /\ Len(g[c].kv) = v
  <2>1. CASE last
    <3>1. g = bulk_steal_left(h, n, idx, count) /\ sib = left /\ c = rgt
      BY <1>2, <2>1
    <3>2. count <= Len(h[left].kv)
      BY <1>4, <3>1
    <3> DEFINE p == Len(h[left].kv) - count
               q == Len(h[rgt].kv) + count
    <3>3. Stolen(bulk_steal_left(h, n, idx, count), h, tops, n, left, rgt, p, q)
      BY <1>3, <1>4, <3>2, BulkStealLeft
    <3>4. p = u /\ q = v
      BY <3>1
    <3> HIDE DEF p, q, u, v
    <3>5. Stolen(g, h, tops, n, left, rgt, u, v)
      BY <3>1, <3>3, <3>4
    <3> HIDE DEF left, rgt
    <3> QED BY <3>1, <3>5 DEF Stolen
  <2>2. CASE ~last
    <3>1. g = bulk_steal_right(h, n, idx, count) /\ sib = rgt /\ c = left
      BY <1>2, <2>2
    <3>2. count <= Len(h[rgt].kv)
      BY <1>4, <3>1
    <3> DEFINE p == Len(h[left].kv) + count
               q == Len(h[rgt].kv) - count
    <3>3. Stolen(bulk_steal_right(h, n, idx, count), h, tops, n, left, rgt, p, q)
      BY <1>3, <1>4, <3>2, BulkStealRight
    <3>4. p = v /\ q = u
      BY <3>1
    <3> HIDE DEF p, q, u, v
    <3>5. Stolen(g, h, tops, n, left, rgt, v, u)
      BY <3>1, <3>3, <3>4
    <3> HIDE DEF left, rgt
    <3> QED BY <3>1, <3>5 DEF Stolen
  <2> QED BY <2>1, <2>2
<1>7. /\ \A m \in DOMAIN h \ {c, sib} : g[m].edges = h[m].edges
      /\ h[c].height # 0 => EndChild(g, c, last) = EndChild(h, c, last)
  <2>1. CASE last
    <3>1. g = bulk_steal_left(h, n, idx, count) /\ sib = left /\ c = rgt
      BY <1>2, <2>1
    <3>2. \A m \in DOMAIN h \ {left, rgt} : g[m].edges = h[m].edges
      BY <1>3, <3>1, StealLeftOthers
    <3>3. count <= Len(h[left].kv)
      BY <1>4, <3>1
    <3>4. StealBorder(g, h, left)
      BY <1>3, <1>4, <3>1, <3>3, StealLeftBorder
    <3> HIDE DEF left, rgt, sib
    <3> QED BY <1>3, <2>1, <3>1, <3>2, <3>4 DEF StealBorder, EndChild
  <2>2. CASE ~last
    <3>1. g = bulk_steal_right(h, n, idx, count) /\ sib = rgt /\ c = left
      BY <1>2, <2>2
    <3>2. count <= Len(h[rgt].kv)
      BY <1>4, <3>1
    <3>3. /\ \A m \in DOMAIN h \ {left, rgt} : g[m].edges = h[m].edges
          /\ h[left].height # 0 => descend(g, left, 0) = descend(h, left, 0)
      BY <1>3, <1>4, <3>1, <3>2, StealRightOthers
    <3> HIDE DEF left, rgt, sib
    <3> QED BY <2>2, <3>1, <3>3 DEF EndChild
  <2> QED BY <2>1, <2>2
<1> HIDE DEF sib, left, rgt
<1>8. Chain(h, E, c, last) /\ E \cap O = {} /\ Chain(h, O, other, ~last)
  BY <1>1 DEF Two
<1>9. O \subseteq DOMAIN h /\ E \subseteq DOMAIN h /\ n \in D
  BY <1>8 DEF Chain, Two
<1>10. Kept(g, h, O)
  BY <1>3, <1>6, <1>7, <1>9 DEF Kept
<1>11. Keeps(g, h, tops, O)
  BY <1>6, <1>10 DEF Keeps
<1>12. Chain(g, O, other, ~last)
  <2> DEFINE z == ~last
  <2>1. Chain(h, O, other, z)
    BY <1>8
  <2> HIDE DEF z
  <2>2. Chain(g, O, other, z)
    BY <1>10, <2>1, ChainKept
  <2> QED BY <2>2 DEF z
<1>13. sib \notin E /\ n \notin E
  BY <1>3
<1> HIDE DEF u, v
<1>14. Chain(g, E, c, last)
  <2>1. ASSUME NEW m \in E, h[m].height # 0
        PROVE  EndChild(g, m, last) = EndChild(h, m, last)
    <3>1. CASE m = c
      BY <1>7, <2>1, <3>1
    <3>2. CASE m # c
      <4>1. m \in DOMAIN h \ {n, c, sib}
        BY <1>9, <1>13, <3>2
      <4>2. g[m].kv = h[m].kv /\ g[m].edges = h[m].edges
        BY <1>6, <1>7, <4>1
      <4> QED BY <4>2 DEF EndChild, LastChild, descend
    <3> QED BY <3>1, <3>2
  <2>2. E \subseteq DOMAIN g /\ \A m \in E : g[m].height = h[m].height
    BY <1>6, <1>9
  <2> HIDE DEF E
  <2> QED BY ONLY <1>8, <2>1, <2>2, ChainSame
<1>15. Two(g, E, c, last, O, other)
  BY <1>8, <1>12, <1>14 DEF Two
<1>16. ASSUME NEW m \in DOMAIN g
       PROVE  /\ Len(g[m].kv) <= CAPACITY
              /\ m \notin tops \cup ((E \ {c}) \cup O) => Len(g[m].kv) >= MIN_LEN
  <2>1. CASE m = sib
    <3>1. Len(g[m].kv) = u /\ u <= CAPACITY
      <4>1. u <= CAPACITY
        <5> HIDE DEF y
        <5> QED BY <1>1, <1>5, Minimum
      <4> QED BY <1>6, <2>1, <4>1
    <3> QED BY <1>5, <3>1
  <2>2. CASE m = c
    <3>1. Len(g[m].kv) = v
      BY <1>6, <2>2
    <3> QED BY <1>5, <3>1, Minimum
  <2>3. CASE m # sib /\ m # c
    <3>1. Len(g[m].kv) = Len(h[m].kv) /\ m \in DOMAIN h
      BY <1>6, <2>3
    <3>2. /\ Len(h[m].kv) <= CAPACITY
          /\ m \notin tops \cup ((D \ {n}) \cup O) => Len(h[m].kv) >= MIN_LEN
      BY <3>1 DEF Sizes, Sized
    <3>3. m \in (D \ {n}) \cup O => m \in (E \ {c}) \cup O
      BY <2>3
    <3> HIDE DEF E
    <3> QED BY <3>1, <3>2, <3>3
  <2> QED BY <2>1, <2>2, <2>3
<1>17. Sizes(g, tops, E, c, O)
  <2>1. Sized(g, tops, (E \ {c}) \cup O)
    BY <1>16 DEF Sized
  <2>2. Len(g[c].kv) > MIN_LEN
    BY <1>5, <1>6
  <2> HIDE DEF E
  <2> QED BY <1>3, <2>1, <2>2 DEF Sizes
<1> HIDE DEF E
<1> QED BY <1>11, <1>15, <1>17

-----------------------------------------------------------------------------
(* fix_top *)

\* A tree with the root top is to be repaired along its border, or has been.
AtTop(h, top, last, other, O) ==
  \E D : Two(h, D, top, last, O, other) /\ Sized(h, {top, other}, D \cup O)

AtTopAgain(h, top, last, other, O) ==
  Chain(h, O, other, ~last) /\ top \notin O /\ Sized(h, {top, other}, O)

\* Another root after an empty one was popped.
PoppedTo(g, h, top, c, other, O) ==
  /\ DOMAIN g = DOMAIN h \ {top} /\ WellFormed(g, {c, other})
  /\ c \in DOMAIN g /\ other \in DOMAIN g /\ c # other /\ Kept(g, h, O)

\* fix_top leaves a tree with one level less, and both ways as they were.
LEMMA PopLevel ==
  ASSUME NEW h, NEW top \in DOMAIN h, NEW other \in DOMAIN h, top # other,
         WellFormed(h, {top, other}), NEW last \in BOOLEAN,
         h[top].height > 0, Len(h[top].kv) = 0,
         NEW O, Chain(h, O, other, ~last), top \notin O,
         NEW c, c = descend(h, top, 0), NEW g, g = pop_internal_level(h, top)
  PROVE  /\ PoppedTo(g, h, top, c, other, O)
         /\ AtTop(h, top, last, other, O) => AtTop(g, c, last, other, O)
         /\ AtTopAgain(h, top, last, other, O) => AtTopAgain(g, c, last, other, O)
<1> DEFINE T == {top, other}
<1>1. WellFormed(h, T) /\ top \in T /\ other \in T
  OBVIOUS
<1>2. Popped(g, h, T, top, c)
  <2> HIDE DEF T
  <2> QED BY <1>1, PopInternalLevel
<1>3. /\ DOMAIN g = DOMAIN h \ {top} /\ c \in DOMAIN g /\ WellFormed(g, {c, other})
      /\ \A m \in DOMAIN g : g[m].kv = h[m].kv /\ g[m].height = h[m].height
  <2>1. (T \ {top}) \cup {c} = {c, other}
    OBVIOUS
  <2> HIDE DEF T
  <2> QED BY <1>2, <2>1 DEF Popped
<1>4. \A m \in DOMAIN h \ {top} : g[m].edges = h[m].edges
  <2>1. HasFields(h)
    BY TypeFields DEF WellFormed
  <2> QED BY <2>1, PopEdges
<1>5. h[top].height # 0 /\ c = EndChild(h, top, last)
  <2>1. h[top].height # 0
    BY <1>1, NodeArity
  <2> QED BY <2>1 DEF EndChild, LastChild
<1> HIDE DEF T
<1>6. c \in DOMAIN h /\ c \notin T /\ h[c].parent = top
  BY <1>1, <1>5, EndChildFacts
<1>7. O \subseteq DOMAIN h
  BY DEF Chain
<1>8. c \notin O
  <2> DEFINE z == ~last
  <2>1. Chain(h, O, other, z) /\ z \in BOOLEAN
    <3>1. Chain(h, O, other, z)
      OBVIOUS
    <3>2. z \in BOOLEAN
      OBVIOUS
    <3> QED BY <3>1, <3>2
  <2> HIDE DEF z
  <2> QED BY <1>1, <1>6, <2>1, ChainOff
<1>9. Kept(g, h, O)
  BY <1>3, <1>4, <1>7 DEF Kept
<1>10. Chain(g, O, other, ~last)
  <2> DEFINE z == ~last
  <2>1. Chain(h, O, other, z)
    OBVIOUS
  <2> HIDE DEF z
  <2>2. Chain(g, O, other, z)
    BY <1>9, <2>1, ChainKept
  <2> QED BY <2>2 DEF z
<1>11. PoppedTo(g, h, top, c, other, O)
  <2>1. other \in T
    BY <1>1
  <2> QED BY <1>3, <1>6, <1>9, <2>1 DEF PoppedTo
<1>12. ASSUME AtTop(h, top, last, other, O)
       PROVE  AtTop(g, c, last, other, O)
  <2>1. PICK D : Two(h, D, top, last, O, other) /\ Sized(h, {top, other}, D \cup O)
    BY <1>12 DEF AtTop
  <2> DEFINE E == (D \ {top}) \cup {c}
  <2>2. E = (D \ {top}) \cup {c}
    OBVIOUS
  <2> HIDE DEF E
  <2>3. Two(h, E, c, last, O, other) /\ top \notin E
    <3>1. c # top
      BY <1>1, <1>6
    <3> QED BY <1>1, <1>5, <1>8, <2>1, <2>2, <3>1, Below
  <2>4. E \cap O = {} /\ Chain(h, E, c, last) /\ E \subseteq DOMAIN h
    BY <2>3 DEF Two, Chain
  <2>5. Chain(g, E, c, last)
    <3>1. Kept(g, h, E)
      BY <1>3, <1>4, <2>3, <2>4 DEF Kept
    <3> QED BY <2>4, <3>1, ChainKept
  <2>6. Two(g, E, c, last, O, other)
    BY <1>10, <2>4, <2>5 DEF Two
  <2>7. Sized(g, {c, other}, E \cup O)
    <3>1. ASSUME NEW m \in DOMAIN g
          PROVE  /\ Len(g[m].kv) <= CAPACITY
                 /\ m \notin {c, other} \cup (E \cup O) => Len(g[m].kv) >= MIN_LEN
      <4>1. m \in DOMAIN h /\ m # top /\ g[m].kv = h[m].kv
        BY <1>3
      <4>2. m \notin {c, other} \cup (E \cup O) => m \notin {top, other} \cup (D \cup O)
        BY <2>2, <4>1
      <4> QED BY <2>1, <4>1, <4>2 DEF Sized
    <3> QED BY <3>1 DEF Sized
  <2> QED BY <2>6, <2>7 DEF AtTop
<1>13. ASSUME AtTopAgain(h, top, last, other, O)
       PROVE  AtTopAgain(g, c, last, other, O)
  <2>1. Sized(h, {top, other}, O)
    BY <1>13 DEF AtTopAgain
  <2>2. Sized(g, {c, other}, O)
    <3>1. ASSUME NEW m \in DOMAIN g
          PROVE  /\ Len(g[m].kv) <= CAPACITY
                 /\ m \notin {c, other} \cup O => Len(g[m].kv) >= MIN_LEN
      <4>1. m \in DOMAIN h /\ m # top /\ g[m].kv = h[m].kv
        BY <1>3
      <4>2. m \notin {c, other} \cup O => m \notin {top, other} \cup O
        BY <4>1
      <4> QED BY <2>1, <4>1, <4>2 DEF Sized
    <3> QED BY <3>1 DEF Sized
  <2> QED BY <1>8, <1>10, <2>2 DEF AtTopAgain
<1> QED BY <1>11, <1>12, <1>13

\* After fix_top: the border begins at the root, unless the tree is a leaf.
LEMMA TopBorder ==
  ASSUME NEW h, NEW top \in DOMAIN h, NEW other, WellFormed(h, {top, other}),
         NEW last \in BOOLEAN, NEW O, AtTop(h, top, last, other, O)
  PROVE  /\ Len(h[top].kv) > 0 =>
              \E D : Two(h, D, top, last, O, other) /\ Sizes(h, {top, other}, D, top, O)
         /\ h[top].height = 0 => AtTopAgain(h, top, last, other, O)
<1> DEFINE T == {top, other}
<1>1. PICK D : Two(h, D, top, last, O, other) /\ Sized(h, T, D \cup O)
  BY DEF AtTop
<1>2. top \in T /\ top \in D /\ top \notin O /\ Chain(h, D, top, last) /\ Chain(h, O, other, ~last)
  BY <1>1 DEF Two, Chain
<1> HIDE DEF T
<1>3. Sized(h, T, (D \ {top}) \cup O)
  BY <1>1, <1>2 DEF Sized
<1>4. ASSUME Len(h[top].kv) > 0
      PROVE  Sizes(h, T, D, top, O)
  BY <1>2, <1>3, <1>4 DEF Sizes
<1>5. ASSUME h[top].height = 0
      PROVE  AtTopAgain(h, top, last, other, O)
  <2>1. \A m \in D \ {top} : FALSE
    <3> SUFFICES ASSUME NEW m \in D \ {top}
                 PROVE  FALSE
      OBVIOUS
    <3>1. h[m].height < 0 /\ m \in DOMAIN h
      BY <1>2, <1>5 DEF Chain
    <3>2. h[m].height \in Nat
      BY <3>1, NodeArity
    <3> QED BY <3>1, <3>2
  <2>2. Sized(h, T, O)
    BY <1>3, <2>1 DEF Sized
  <2> QED BY <1>2, <2>2 DEF AtTopAgain, T
<1> QED BY <1>1, <1>4, <1>5 DEF T

\* At the lowest node of the border.
LEMMA BorderOver ==
  ASSUME NEW h, NEW tops, WellFormed(h, tops), NEW top \in tops,
         NEW last \in BOOLEAN, NEW O, NEW D, NEW n, NEW other, tops = {top, other}, top # other,
         Two(h, D, n, last, O, other), Sizes(h, tops, D, n, O), top \notin O, h[n].height = 0
  PROVE  AtTopAgain(h, top, last, other, O)
<1>1. Chain(h, D, n, last) /\ Chain(h, O, other, ~last)
  BY DEF Two
<1>2. \A m \in D \ {n} : FALSE
  <2> SUFFICES ASSUME NEW m \in D \ {n}
               PROVE  FALSE
    OBVIOUS
  <2>1. h[m].height < 0 /\ m \in DOMAIN h
    BY <1>1 DEF Chain
  <2>2. h[m].height \in Nat
    BY <2>1, NodeArity
  <2> QED BY <2>1, <2>2
<1>3. Sized(h, tops, O)
  BY <1>2 DEF Sizes, Sized
<1> QED BY <1>1, <1>3 DEF AtTopAgain

-----------------------------------------------------------------------------
(* The cut *)

\* Between two levels of the cut: D is the way from the left root to n, E is the
\* pillar, which is empty from the node to at n's level downwards.
Cutting(h, D, E, left, rgt, n, to) ==
  /\ Chain(h, D, left, TRUE) /\ n \in D /\ \A m \in D : h[m].height >= h[n].height
  /\ Chain(h, E, rgt, FALSE) /\ to \in E
  /\ \A m \in E : h[m].height # 0 => descend(h, m, 0) \in E
  /\ \A m \in E : h[m].height <= h[to].height => Len(h[m].kv) = 0
  /\ D \cap E = {} /\ h[n].height = h[to].height
  /\ Sized(h, {left, rgt}, D \cup E)

\* One level of the cut: the pillar gets the suffix, and both ways go one level down.
LEMMA CutLevel ==
  ASSUME NEW h, NEW left, NEW rgt, WellFormed(h, {left, rgt}), NEW D, NEW E, NEW n, NEW to,
         Cutting(h, D, E, left, rgt, n, to), NEW idx \in 0 .. Len(h[n].kv),
         NEW g, g = move_suffix(h, n, idx, to)
  PROVE  /\ WellFormed(g, {left, rgt}) /\ DOMAIN g = DOMAIN h
         /\ h[n].height = 0 => \E O : AtTop(g, left, TRUE, rgt, O)
         /\ h[n].height # 0 =>
              \E X, Y : Cutting(g, X, Y, left, rgt, descend(h, n, idx), descend(h, to, 0))
<1> DEFINE T == {left, rgt}
<1>1. /\ Chain(h, D, left, TRUE) /\ n \in D /\ \A m \in D : h[m].height >= h[n].height
      /\ Chain(h, E, rgt, FALSE) /\ to \in E
      /\ \A m \in E : h[m].height # 0 => descend(h, m, 0) \in E
      /\ \A m \in E : h[m].height <= h[to].height => Len(h[m].kv) = 0
      /\ D \cap E = {} /\ h[n].height = h[to].height /\ Sized(h, T, D \cup E)
  BY DEF Cutting
<1>2. /\ D \subseteq DOMAIN h /\ E \subseteq DOMAIN h /\ left \in D /\ rgt \in E
      /\ n \in DOMAIN h /\ to \in DOMAIN h /\ n # to /\ n \notin E /\ to \notin D
  BY <1>1 DEF Chain
<1>3. WellFormed(h, T) /\ left \in T /\ rgt \in T
  OBVIOUS
<1> HIDE DEF T
<1>4. \A m \in DOMAIN h : h[m].height \in Nat /\ Len(h[m].kv) \in Nat
  BY <1>3, NodeArity
<1>5. Len(h[to].kv) = 0
  BY <1>1, <1>2, <1>4
<1>6. WellFormed(g, T) /\ Suffixed(g, h, n, idx, to)
  BY <1>1, <1>2, <1>3, <1>5, MoveSuffix
<1>7. /\ DOMAIN g = DOMAIN h
      /\ \A m \in DOMAIN h : g[m].height = h[m].height
      /\ \A m \in DOMAIN h \ {n, to} : g[m].kv = h[m].kv /\ g[m].edges = h[m].edges
      /\ Len(g[n].kv) = idx /\ Len(g[to].kv) = Len(h[n].kv) - idx
      /\ h[n].height # 0 => /\ LastChild(g, n) = descend(h, n, idx)
                            /\ descend(g, to, 0) = descend(h, to, 0)
  BY <1>6 DEF Suffixed
<1>8. Chain(g, D, left, TRUE)
  <2>1. ASSUME NEW m \in D, h[m].height # 0, EndChild(h, m, TRUE) \in D
        PROVE  EndChild(g, m, TRUE) = EndChild(h, m, TRUE)
    <3>1. m # n
      <4> SUFFICES ASSUME m = n
                   PROVE  FALSE
        OBVIOUS
      <4>1. h[EndChild(h, n, TRUE)].height = h[n].height - 1
        BY <1>2, <1>3, <2>1, LastChildFacts DEF EndChild
      <4>2. h[EndChild(h, n, TRUE)].height >= h[n].height
        BY <1>1, <2>1
      <4>3. PICK x \in Nat : x = h[n].height
        BY <1>2, <1>4
      <4>4. x - 1 >= x
        BY <4>1, <4>2, <4>3
      <4> QED BY <4>3, <4>4
    <3>2. g[m].kv = h[m].kv /\ g[m].edges = h[m].edges
      BY <1>2, <1>7, <3>1
    <3> QED BY <3>2 DEF EndChild, LastChild, descend
  <2> QED BY <1>1, <1>2, <1>7, <2>1, ChainSame
<1>9. \A m \in E : h[m].height # 0 => descend(g, m, 0) = descend(h, m, 0)
  <2> SUFFICES ASSUME NEW m \in E, h[m].height # 0
               PROVE  descend(g, m, 0) = descend(h, m, 0)
    OBVIOUS
  <2>1. CASE m = to
    BY <1>1, <1>7, <2>1
  <2>2. CASE m # to
    <3>1. g[m].edges = h[m].edges
      BY <1>2, <1>7, <2>2
    <3> QED BY <3>1 DEF descend
  <2> QED BY <2>1, <2>2
<1>10. Chain(g, E, rgt, FALSE)
  <2>1. ASSUME NEW m \in E, h[m].height # 0
        PROVE  EndChild(g, m, FALSE) = EndChild(h, m, FALSE)
    BY <1>9, <2>1 DEF EndChild
  <2> QED BY <1>1, <1>2, <1>7, <2>1, ChainSame
<1>11. Sized(g, T, D \cup E)
  <2> SUFFICES ASSUME NEW m \in DOMAIN g
               PROVE  /\ Len(g[m].kv) <= CAPACITY
                      /\ m \notin T \cup (D \cup E) => Len(g[m].kv) >= MIN_LEN
    BY DEF Sized
  <2>1. CASE m = n \/ m = to
    <3>1. Len(h[n].kv) <= CAPACITY /\ Len(h[n].kv) \in Nat
      BY <1>1, <1>2, <1>4 DEF Sized
    <3>2. Len(g[m].kv) = idx \/ Len(g[m].kv) = Len(h[n].kv) - idx
      BY <1>7, <2>1
    <3>3. Len(g[m].kv) <= CAPACITY
      BY <3>1, <3>2, Minimum
    <3>4. m \in D \cup E
      BY <1>1, <2>1
    <3> QED BY <3>3, <3>4
  <2>2. CASE m # n /\ m # to
    BY <1>1, <1>7, <2>2 DEF Sized
  <2> QED BY <2>1, <2>2
<1>12. h[n].height = 0 => \E O : AtTop(g, left, TRUE, rgt, O)
  <2>1. Two(g, D, left, TRUE, E, rgt)
    BY <1>1, <1>8, <1>10 DEF Two
  <2> QED BY <1>11, <2>1 DEF AtTop, T
<1>13. ASSUME h[n].height # 0
       PROVE  \E X, Y : Cutting(g, X, Y, left, rgt, descend(h, n, idx), descend(h, to, 0))
  <2> DEFINE c == descend(h, n, idx)
             d == descend(h, to, 0)
             X == D \cup {c}
  <2>1. c = EndChild(g, n, TRUE) /\ g[n].height # 0
    BY <1>2, <1>7, <1>13 DEF EndChild
  <2>2. d = EndChild(g, to, FALSE) /\ d = EndChild(h, to, FALSE) /\ h[to].height # 0
    BY <1>1, <1>7, <1>13 DEF EndChild
  <2>3. d \in E
    BY <1>1, <2>2
  <2> HIDE DEF c, d
  <2>4. /\ c \in DOMAIN g /\ g[c].height = g[n].height - 1 /\ g[c].parent = n /\ c \notin T
    BY <1>2, <1>6, <1>7, <2>1, LastChildFacts DEF EndChild
  <2>5. d \in DOMAIN h /\ h[d].height = h[to].height - 1
    BY <1>2, <1>3, <2>2, FirstChildFacts DEF EndChild
  <2>6. Chain(g, X, left, TRUE)
    BY <1>1, <1>6, <1>8, <2>1, ChainGrow
  <2>7. \A m \in X : g[m].height >= g[c].height
    <3>1. \A m \in D : g[m].height >= g[n].height /\ g[m].height \in Nat
      BY <1>1, <1>2, <1>4, <1>7
    <3>2. g[c].height \in Nat
      BY <1>4, <1>7, <2>4
    <3> QED BY <1>1, <2>4, <3>1, <3>2
  <2>8. X \cap E = {}
    <3>1. c \notin E
      <4>1. g[c].parent \notin E
        BY <1>2, <2>4
      <4> QED BY <1>3, <1>6, <1>10, <2>4, <4>1, ChainOff
    <3> QED BY <1>1, <3>1
  <2>9. \A m \in E : g[m].height # 0 => descend(g, m, 0) \in E
    BY <1>1, <1>2, <1>7, <1>9
  <2>10. ASSUME NEW m \in E, g[m].height <= g[d].height
         PROVE  Len(g[m].kv) = 0
    <3>1. h[m].height <= h[to].height - 1 /\ h[m].height \in Nat /\ h[to].height \in Nat
      BY <1>2, <1>4, <1>7, <2>5, <2>10
    <3>2. m # to /\ m # n /\ h[m].height <= h[to].height
      BY <1>2, <3>1
    <3>3. g[m].kv = h[m].kv
      BY <1>2, <1>7, <3>2
    <3> QED BY <1>1, <3>2, <3>3
  <2>11. g[c].height = g[d].height
    BY <1>1, <1>2, <1>7, <2>4, <2>5
  <2>12. Sized(g, T, X \cup E)
    BY <1>11 DEF Sized
  <2> HIDE DEF X
  <2>13. c \in X
    BY DEF X
  <2>14. Cutting(g, X, E, left, rgt, c, d)
    BY <1>10, <2>3, <2>6, <2>7, <2>8, <2>9, <2>10, <2>11, <2>12, <2>13 DEF Cutting, T
  <2> QED BY <2>14 DEF c, d
<1> QED BY <1>6, <1>7, <1>12, <1>13 DEF T

\* The cut begins at the root, with an empty pillar as high as the tree.
LEMMA PillarCut ==
  ASSUME NEW h, NEW rt \in DOMAIN h, WellFormed(h, {rt}), LegalLens(h, {rt}),
         NEW at, Free(h, at), Len(at) = h[rt].height + 1, NEW g, g = new_pillar(h, at)
  PROVE  LET to == at[Len(at)]
         IN  /\ DOMAIN g = DOMAIN h \cup {at[i] : i \in 1 .. Len(at)}
             /\ WellFormed(g, {rt, to}) /\ to \in DOMAIN g /\ to # rt
             /\ \E D, E : Cutting(g, D, E, rt, to, rt, to)
<1> DEFINE k == Len(at)
           to == at[k]
           E == {at[i] : i \in 1 .. k}
           T == {rt}
<1>1. h[rt].height \in Nat /\ k \in Nat /\ k = h[rt].height + 1 /\ k >= 1 /\ k \in 1 .. k
  <2>1. h[rt].height \in Nat
    BY NodeArity
  <2> QED BY <2>1
<1>2. WithPillar(g, h, at) /\ WellFormed(g, {rt, to})
  <2>1. WellFormed(h, T) /\ T \subseteq DOMAIN h \cup {Nil} /\ T \cup {to} = {rt, to}
    OBVIOUS
  <2> HIDE DEF T
  <2>2. WithPillar(g, h, at) /\ WellFormed(g, T \cup {to})
    BY <1>1, <2>1, NewPillar
  <2> QED BY <2>1, <2>2
<1> DEFINE Off(m) == m \in DOMAIN g /\ m \notin DOMAIN h
           Level(i) == /\ g[at[i]].kv = <<>> /\ g[at[i]].height = i - 1
                       /\ i # 1 => g[at[i]].edges = <<at[i - 1]>>
<1>3. /\ DOMAIN g = DOMAIN h \cup E
      /\ \A m \in DOMAIN h : g[m] = h[m]
      /\ \A i \in 1 .. k : Off(at[i])
      /\ \A i \in 1 .. k : Level(i)
  BY <1>2 DEF WithPillar
<1> HIDE DEF Off, Level
<1> DEFINE En(m) == \E i \in 1 .. k : m = at[i]
<1>13. (\A i \in 1 .. k : at[i] \in E) /\ (\A m \in E : En(m))
  OBVIOUS
<1> HIDE DEF E
<1>4. to \in E /\ to \in DOMAIN g /\ to # rt /\ E \cap DOMAIN h = {} /\ g[to].height = k - 1
  <2>1. to \in E /\ Off(to) /\ Level(k)
    BY <1>1, <1>3, <1>13
  <2>3. to \in DOMAIN g /\ to \notin DOMAIN h /\ g[to].height = k - 1
    BY <2>1 DEF Off, Level
  <2>2. \A m \in E : m \notin DOMAIN h
    <3>1. \A m \in E : Off(m)
      BY <1>3, <1>13
    <3> QED BY <3>1 DEF Off
  <2> QED BY <2>1, <2>2, <2>3
<1>5. \A m \in E : Len(g[m].kv) = 0 /\ g[m].height \in Nat
  <2> SUFFICES ASSUME NEW i \in 1 .. k
               PROVE  Len(g[at[i]].kv) = 0 /\ g[at[i]].height \in Nat
    BY <1>13
  <2>2. Level(i)
    BY <1>3
  <2>1. g[at[i]].kv = <<>> /\ g[at[i]].height = i - 1 /\ i - 1 \in Nat
    BY <2>2 DEF Level
  <2> QED BY <2>1
<1>6. \A m \in E : g[m].height # 0 => descend(g, m, 0) \in E
  <2> SUFFICES ASSUME NEW i \in 1 .. k, g[at[i]].height # 0
               PROVE  descend(g, at[i], 0) \in E
    BY <1>13
  <2>4. Level(i)
    BY <1>3
  <2>1. i # 1
    BY <2>4 DEF Level
  <2>2. g[at[i]].edges = <<at[i - 1]>> /\ i - 1 \in 1 .. k
    BY <1>1, <2>1, <2>4 DEF Level
  <2>3. descend(g, at[i], 0) = at[i - 1]
    BY <2>2 DEF descend
  <2> QED BY <1>13, <2>2, <2>3
<1>7. Chain(g, E, to, FALSE)
  <2> SUFFICES ASSUME NEW m \in E \ {to}
               PROVE  /\ g[m].height < g[to].height
                      /\ \E p \in E : g[p].height # 0 /\ EndChild(g, p, FALSE) = m
    <3>1. E \subseteq DOMAIN g
      BY <1>3
    <3> QED BY <1>4, <3>1 DEF Chain
  <2> PICK i \in 1 .. k : m = at[i]
    BY <1>13
  <2>1. i # k /\ i + 1 \in 1 .. k /\ i + 1 # 1 /\ (i + 1) - 1 = i
    BY <1>1
  <2>2. g[at[i]].height < g[to].height
    <3>1. g[at[i]].height = i - 1
      <4>1. Level(i)
        BY <1>3
      <4> QED BY <4>1 DEF Level
    <3>2. i - 1 < k - 1
      BY <1>1, <2>1
    <3> QED BY <1>4, <3>1, <3>2
  <2> DEFINE j == i + 1
  <2>5. j \in 1 .. k /\ j # 1 /\ j - 1 = i
    BY <2>1
  <2>3. at[j] \in E /\ g[at[j]].height = i /\ g[at[j]].edges = <<at[i]>>
    <3> HIDE DEF j
    <3>1. Level(j) /\ at[j] \in E
      BY <1>3, <1>13, <2>5
    <3> QED BY <2>5, <3>1 DEF Level
  <2>4. g[at[i + 1]].height # 0 /\ EndChild(g, at[i + 1], FALSE) = at[i]
    BY <2>3 DEF EndChild, descend
  <2> QED BY <2>2, <2>3, <2>4
<1>8. Chain(g, T, rt, TRUE)
  <2>1. rt \in DOMAIN g
    BY <1>3
  <2> QED BY <2>1 DEF Chain
<1>9. Sized(g, {rt, to}, T \cup E)
  <2> SUFFICES ASSUME NEW m \in DOMAIN g
               PROVE  /\ Len(g[m].kv) <= CAPACITY
                      /\ m \notin {rt, to} \cup (T \cup E) => Len(g[m].kv) >= MIN_LEN
    BY DEF Sized
  <2>1. CASE m \in DOMAIN h
    <3>1. g[m] = h[m]
      BY <1>3, <2>1
    <3> QED BY <2>1, <3>1 DEF LegalLens, len
  <2>2. CASE m \in E
    BY <1>5, <2>2, Minimum
  <2> QED BY <1>3, <2>1, <2>2
<1>10. g[rt].height = g[to].height
  BY <1>1, <1>3, <1>4
<1>11. rt \in T /\ T \cap E = {} /\ \A m \in T : g[m].height >= g[rt].height
  <2>1. g[rt].height \in Nat
    BY <1>1, <1>3
  <2> QED BY <1>4, <2>1
<1> HIDE DEF T, to
<1>12. Cutting(g, T, E, rt, to, rt, to)
  BY <1>4, <1>5, <1>6, <1>7, <1>8, <1>9, <1>10, <1>11 DEF Cutting
<1> QED BY <1>2, <1>3, <1>4, <1>12 DEF E, to

-----------------------------------------------------------------------------
(* One of the two maps is dropped *)

\* RootAbove climbs from parent to parent.
LEMMA RootAboveOf ==
  ASSUME NEW tops, WellFormed(heap, tops), IsFiniteSet(DOMAIN heap), NEW n \in DOMAIN heap
  PROVE  RootAbove(n) = IF heap[n].parent = Nil THEN n ELSE RootAbove(heap[n].parent)
<1>1. HeapType(heap)
  BY DEF WellFormed
<1>2. PICK top \in Nat : \A m \in DOMAIN heap : heap[m].height <= top
  BY <1>1, FiniteBounded DEF Bounded
<1> DEFINE S == DOMAIN heap
           stop == {m \in S : heap[m].parent = Nil}
           next == [m \in S |-> IF m \in stop THEN m ELSE heap[m].parent]
           base == [m \in S |-> m]
           mu == [m \in S |-> top - heap[m].height]
           Eq(f) == f = [m \in S |-> IF heap[m].parent = Nil THEN m ELSE f[heap[m].parent]]
           up == CHOOSE f : Eq(f)
<1>3. ASSUME NEW m \in S, m \notin stop
      PROVE  heap[m].parent \in S /\ heap[heap[m].parent].height = heap[m].height + 1
  <2>1. m \notin tops
    BY <1>3, WellFormedFacts
  <2> QED BY <2>1, WellFormedFacts
<1>4. \A m \in S : heap[m].height \in Nat /\ top - heap[m].height \in Nat
  <2>1. \A m \in S : heap[m].height \in Nat
    BY NodeArity
  <2> QED BY <1>2, <2>1
<1>5. Falls(S, stop, next, mu)
  BY <1>3, <1>4 DEF Falls
<1>6. \A f : Eq(f) <=> IsWalk(S, stop, next, base, f)
  BY DEF IsWalk
<1>7. \E f : IsWalk(S, stop, next, base, f)
  BY <1>5, WalkExists
<1>8. \A m : RootAbove(m) = up[m]
  BY DEF RootAbove
<1>9. Eq(up)
  BY <1>6, <1>7
<1> HIDE DEF up
<1>10. up[n] = IF heap[n].parent = Nil THEN n ELSE up[heap[n].parent]
  BY <1>9
<1> QED BY <1>8, <1>10

\* What is left of the heap when all trees but one are dropped is a legal map.
LEMMA KeepTree ==
  ASSUME NEW tops, WellFormed(heap, tops), LegalLens(heap, tops), IsFiniteSet(DOMAIN heap),
         NEW r \in tops, NEW g,
         g = [m \in {n \in DOMAIN heap : RootAbove(n) = r} |-> heap[m]]
  PROVE  /\ DOMAIN g \subseteq DOMAIN heap /\ (r \in DOMAIN heap => r \in DOMAIN g)
         /\ WellFormed(g, {r}) /\ LegalLens(g, {r})
<1> DEFINE L == {n \in DOMAIN heap : RootAbove(n) = r}
           T == {r}
<1>1. /\ \A n \in DOMAIN heap :
            RootAbove(n) = IF heap[n].parent = Nil THEN n ELSE RootAbove(heap[n].parent)
      /\ HeapType(heap) /\ \A n \in DOMAIN heap : n # Nil
  BY RootAboveOf, HeapNode DEF WellFormed
<1>2. DOMAIN g = L /\ L \subseteq DOMAIN heap /\ g = [m \in L |-> heap[m]]
      /\ \A n \in L : g[n] = heap[n] /\ RootAbove(n) = r
  OBVIOUS
<1>3. r \in DOMAIN heap => r \in L /\ heap[r].parent = Nil
  BY <1>1, WellFormedFacts
<1>4. ASSUME NEW n \in L, NEW i \in 1 .. Len(heap[n].edges)
      PROVE  /\ heap[n].edges[i] \in L
             /\ heap[heap[n].edges[i]].height = heap[n].height - 1
             /\ LinkOK(heap, n, i)
  <2> DEFINE c == heap[n].edges[i]
  <2>1. c \in DOMAIN heap /\ heap[c].height = heap[n].height - 1 /\ heap[c].parent = n
        /\ heap[c].parent_idx = i - 1
    BY <1>2, WellFormedFacts
  <2>2. RootAbove(c) = RootAbove(n)
    BY <1>1, <1>2, <2>1
  <2> QED BY <1>2, <2>1, <2>2 DEF LinkOK
<1>5. ASSUME NEW n \in L, n # r
      PROVE  n \notin tops /\ \E m \in L : \E i \in 1 .. Len(heap[m].edges) : heap[m].edges[i] = n
  <2>1. heap[n].parent # Nil /\ RootAbove(heap[n].parent) = r
    BY <1>1, <1>2, <1>5
  <2>2. n \notin tops
    BY <1>2, <2>1, WellFormedFacts
  <2>3. /\ heap[n].parent \in DOMAIN heap
        /\ heap[n].parent_idx + 1 \in 1 .. Len(heap[heap[n].parent].edges)
        /\ heap[heap[n].parent].edges[heap[n].parent_idx + 1] = n
    BY <1>2, <2>2, WellFormedFacts
  <2>4. heap[n].parent \in L
    BY <2>1, <2>3
  <2> QED BY <2>2, <2>3, <2>4
<1> HIDE DEF L
<1>6. Down(heap, L)
  BY <1>4 DEF Down
<1>7. Arity(heap, L)
  BY <1>2, NodeArity DEF Arity
<1>8. Covered(heap, L, T)
  BY <1>5 DEF Covered
<1>9. \A n \in L \cap T : heap[n].parent = Nil
  BY <1>2, <1>3
<1>10. \A n \in L : \A i \in 1 .. Len(heap[n].edges) : LinkOK(heap, n, i)
  BY <1>4
<1> HIDE DEF T
<1>11. WellFormed(g, T)
  BY ONLY <1>1, <1>2, <1>6, <1>7, <1>8, <1>9, <1>10, LinkedWellFormed
<1>12. LegalLens(g, T)
  <2> SUFFICES ASSUME NEW n \in L
               PROVE  /\ len(g, n) <= CAPACITY /\ (n \notin T => len(g, n) >= MIN_LEN)
                      /\ (IsLeaf(g, n) \/ len(g, n) >= 1)
    BY <1>2 DEF LegalLens
  <2>1. n \in DOMAIN heap /\ g[n] = heap[n]
    BY <1>2
  <2>2. n \notin T => n \notin tops
    BY <1>5 DEF T
  <2> QED BY <2>1, <2>2 DEF LegalLens, len, IsLeaf
<1> QED BY <1>2, <1>3, <1>11, <1>12 DEF T

-----------------------------------------------------------------------------
(* Both borders are repaired *)

\* A tree whose root has a pair, unless it is a leaf.
Solid(h, n) == h[n].height = 0 \/ Len(h[n].kv) >= 1

\* When only roots are excepted, and those are solid, the two trees are legal.
LEMMA BothRepaired ==
  ASSUME NEW h, NEW top \in DOMAIN h, NEW other \in DOMAIN h, WellFormed(h, {top, other}),
         NEW O, O \subseteq {top, other}, Sized(h, {top, other}, O),
         Solid(h, top), Solid(h, other)
  PROVE  LegalLens(h, {top, other})
<1> SUFFICES ASSUME NEW n \in DOMAIN h
             PROVE  /\ Len(h[n].kv) <= CAPACITY
                    /\ n \notin {top, other} => Len(h[n].kv) >= MIN_LEN
                    /\ h[n].height = 0 \/ Len(h[n].kv) >= 1
  BY DEF LegalLens, len, IsLeaf
<1>1. Len(h[n].kv) \in Nat
  BY NodeArity
<1>2. /\ Len(h[n].kv) <= CAPACITY
      /\ n \notin {top, other} => Len(h[n].kv) >= MIN_LEN
  BY DEF Sized
<1>3. n \in {top, other} => h[n].height = 0 \/ Len(h[n].kv) >= 1
  BY DEF Solid
<1> QED BY <1>1, <1>2, <1>3, Minimum

-----------------------------------------------------------------------------
(* The repair of one border, step by step *)

\* Two trees, of which the one at top is being repaired.
Ready(h, top, last, other) ==
  /\ top \in DOMAIN h /\ other \in DOMAIN h /\ top # other
  /\ WellFormed(h, {top, other}) /\ last \in BOOLEAN

\* The right tree comes second, when of the left one only the root may be short.
Rest(h, last, other, O) == ~last => O = {other} /\ Solid(h, other)

\* How far the repair is.
Phase(p, h, top, last, other, n) ==
  /\ p = "top" => \E O : Rest(h, last, other, O) /\ AtTop(h, top, last, other, O)
  /\ p = "border" => \E O, D : /\ Rest(h, last, other, O) /\ top \notin O
                               /\ Two(h, D, n, last, O, other)
                               /\ Sizes(h, {top, other}, D, n, O)
  /\ p = "top_again" => \E O : Rest(h, last, other, O) /\ AtTopAgain(h, top, last, other, O)

\* What keeps the nodes of the other way down keeps its state.
LEMMA RestKept ==
  ASSUME NEW h, NEW g, NEW last, NEW other, NEW O, Rest(h, last, other, O), Kept(g, h, O)
  PROVE  Rest(g, last, other, O)
  BY DEF Rest, Kept, Solid

\* An empty root is popped.
Pop(p, h, top, last, other, n, c, g) ==
  /\ Ready(h, top, last, other)
  /\ p \in {"top", "top_again"} /\ Phase(p, h, top, last, other, n)
  /\ h[top].height > 0 /\ Len(h[top].kv) = 0
  /\ c = descend(h, top, 0) /\ g = pop_internal_level(h, top)

\* fix_top, before and after the border.
LEMMA PhasePop ==
  ASSUME NEW p, NEW h, NEW top, NEW last, NEW other, NEW n, NEW c, NEW g,
         Pop(p, h, top, last, other, n, c, g), NEW m
  PROVE  Ready(g, c, last, other) /\ Phase(p, g, c, last, other, m) /\ DOMAIN g \subseteq DOMAIN h
<1> USE DEF Pop
<1>1. /\ top \in DOMAIN h /\ other \in DOMAIN h /\ top # other
      /\ WellFormed(h, {top, other}) /\ last \in BOOLEAN
  BY DEF Ready
<1>2. PICK O : /\ Rest(h, last, other, O) /\ Chain(h, O, other, ~last) /\ top \notin O
               /\ p = "top" => AtTop(h, top, last, other, O)
               /\ p = "top_again" => AtTopAgain(h, top, last, other, O)
  <2>1. CASE p = "top"
    <3>1. PICK O : Rest(h, last, other, O) /\ AtTop(h, top, last, other, O)
      BY <2>1 DEF Phase
    <3>2. Chain(h, O, other, ~last) /\ top \notin O
      BY <3>1 DEF AtTop, Two, Chain
    <3> QED BY <2>1, <3>1, <3>2
  <2>2. CASE p = "top_again"
    <3>1. PICK O : Rest(h, last, other, O) /\ AtTopAgain(h, top, last, other, O)
      BY <2>2 DEF Phase
    <3>2. Chain(h, O, other, ~last) /\ top \notin O
      BY <3>1 DEF AtTopAgain
    <3> QED BY <2>2, <3>1, <3>2
  <2> QED BY <2>1, <2>2
<1>3. /\ PoppedTo(g, h, top, c, other, O)
      /\ AtTop(h, top, last, other, O) => AtTop(g, c, last, other, O)
      /\ AtTopAgain(h, top, last, other, O) => AtTopAgain(g, c, last, other, O)
  BY <1>1, <1>2, PopLevel
<1>4. /\ DOMAIN g = DOMAIN h \ {top} /\ WellFormed(g, {c, other})
      /\ c \in DOMAIN g /\ other \in DOMAIN g /\ c # other /\ Kept(g, h, O)
  BY <1>3 DEF PoppedTo
<1>5. Rest(g, last, other, O)
  BY <1>2, <1>4, RestKept
<1>6. Phase(p, g, c, last, other, m)
  BY <1>2, <1>3, <1>5 DEF Phase
<1> QED BY <1>1, <1>4, <1>6 DEF Ready

\* fix_top is done: down the border, or already at its end.
LEMMA PhaseBorder ==
  ASSUME NEW h, NEW top, NEW last, NEW other, Ready(h, top, last, other),
         NEW n, Phase("top", h, top, last, other, n),
         h[top].height = 0 \/ Len(h[top].kv) > 0
  PROVE  Phase(IF Len(h[top].kv) > 0 THEN "border" ELSE "top_again", h, top, last, other, top)
<1>1. /\ top \in DOMAIN h /\ other \in DOMAIN h /\ top # other
      /\ WellFormed(h, {top, other}) /\ last \in BOOLEAN
  BY DEF Ready
<1>2. PICK O : Rest(h, last, other, O) /\ AtTop(h, top, last, other, O)
  BY DEF Phase
<1>3. /\ Len(h[top].kv) > 0 =>
           \E D : Two(h, D, top, last, O, other) /\ Sizes(h, {top, other}, D, top, O)
      /\ h[top].height = 0 => AtTopAgain(h, top, last, other, O)
  BY <1>1, <1>2, TopBorder
<1>4. CASE Len(h[top].kv) > 0
  <2>1. PICK D : Two(h, D, top, last, O, other) /\ Sizes(h, {top, other}, D, top, O)
    BY <1>3, <1>4
  <2>2. top \notin O
    BY <2>1 DEF Two, Chain
  <2>3. Phase("border", h, top, last, other, top)
    BY <1>2, <2>1, <2>2 DEF Phase
  <2> QED BY <1>4, <2>3
<1>5. CASE ~(Len(h[top].kv) > 0)
  <2>1. Phase("top_again", h, top, last, other, top)
    BY <1>2, <1>3, <1>5 DEF Phase
  <2> QED BY <1>5, <2>1
<1> QED BY <1>4, <1>5

\* One level of the border: a merge, nothing, or a steal.
Level(h, top, last, other, n, idx, c, count, g, m) ==
  /\ Ready(h, top, last, other) /\ Phase("border", h, top, last, other, n) /\ h[n].height # 0
  /\ idx = IF last THEN Len(h[n].kv) - 1 ELSE 0
  /\ c = EndChild(h, n, last)
  /\ count = MIN_LEN + 1 - Len(h[c].kv)
  /\ \/ can_merge(h, n, idx) /\ g = do_merge(h, n, idx) /\ m = descend(h, n, idx)
     \/ ~can_merge(h, n, idx) /\ m = c /\ count <= 0 /\ g = h
     \/ ~can_merge(h, n, idx) /\ m = c /\ count > 0
        /\ g = IF last THEN bulk_steal_left(h, n, idx, count)
               ELSE bulk_steal_right(h, n, idx, count)

\* fix_right_child and fix_left_child take the repair one level down.
LEMMA PhaseLevel ==
  ASSUME NEW h, NEW top, NEW last, NEW other, NEW n, NEW idx, NEW c, NEW count, NEW g, NEW m,
         Level(h, top, last, other, n, idx, c, count, g, m)
  PROVE  Ready(g, top, last, other) /\ Phase("border", g, top, last, other, m)
         /\ DOMAIN g \subseteq DOMAIN h
<1> USE DEF Level
<1> DEFINE T == {top, other}
<1>1. /\ top \in DOMAIN h /\ other \in DOMAIN h /\ top # other
      /\ WellFormed(h, T) /\ last \in BOOLEAN /\ T \subseteq DOMAIN h /\ other \in T
  BY DEF Ready
<1>2. PICK O, D : /\ Rest(h, last, other, O) /\ top \notin O
                  /\ Two(h, D, n, last, O, other) /\ Sizes(h, T, D, n, O)
  BY DEF Phase
<1> HIDE DEF T
<1>3. /\ Keeps(g, h, T, O)
      /\ \E E : Two(g, E, m, last, O, other) /\ Sizes(g, T, E, m, O)
  <2>1. CASE can_merge(h, n, idx)
    <3>1. g = do_merge(h, n, idx) /\ m = descend(h, n, idx)
      BY <2>1
    <3> QED BY <1>1, <1>2, <2>1, <3>1, MergeLevel
  <2>2. CASE ~can_merge(h, n, idx) /\ count <= 0
    <3>1. g = h /\ m = c
      <4>1. ~(count > 0)
        <5>1. n \in DOMAIN h
          BY <1>2 DEF Two, Chain
        <5>2. c \in DOMAIN h
          BY <1>1, <5>1, EndChildFacts
        <5>3. PICK x \in Nat : x = Len(h[c].kv)
          BY <1>1, <5>2, NodeArity
        <5>4. count = MIN_LEN + 1 - x
          BY <5>3
        <5>5. count \in Int
          BY ONLY <5>3, <5>4, Minimum
        <5> QED BY ONLY <2>2, <5>5
      <4> QED BY <2>2, <4>1
    <3>2. /\ Keeps(h, h, T, O)
          /\ \E E : Two(h, E, c, last, O, other) /\ Sizes(h, T, E, c, O)
      BY <1>1, <1>2, <2>2, StayLevel
    <3> QED BY <3>1, <3>2
  <2>3. CASE ~can_merge(h, n, idx) /\ ~(count <= 0)
    <3>1. /\ m = c /\ count > 0
          /\ g = IF last THEN bulk_steal_left(h, n, idx, count)
                 ELSE bulk_steal_right(h, n, idx, count)
      BY <2>3
    <3> QED BY <1>1, <1>2, <2>3, <3>1, StealLevel
  <2> QED BY <2>1, <2>2, <2>3
<1>4. /\ WellFormed(g, T) /\ DOMAIN g \subseteq DOMAIN h /\ T \subseteq DOMAIN g /\ Kept(g, h, O)
  BY <1>3 DEF Keeps
<1>5. Rest(g, last, other, O)
  BY <1>2, <1>4, RestKept
<1>6. Phase("border", g, top, last, other, m)
  BY <1>2, <1>3, <1>5 DEF Phase, T
<1> QED BY <1>1, <1>4, <1>6 DEF Ready, T

\* The leaf of the border is reached.
LEMMA PhaseOver ==
  ASSUME NEW h, NEW top, NEW last, NEW other, Ready(h, top, last, other),
         NEW n, Phase("border", h, top, last, other, n), h[n].height = 0, NEW m
  PROVE  Phase("top_again", h, top, last, other, m)
<1> DEFINE T == {top, other}
<1>1. WellFormed(h, T) /\ last \in BOOLEAN /\ top # other /\ top \in T /\ T = {top, other}
  BY DEF Ready
<1>2. PICK O, D : /\ Rest(h, last, other, O) /\ top \notin O
                  /\ Two(h, D, n, last, O, other) /\ Sizes(h, T, D, n, O)
  BY DEF Phase
<1> HIDE DEF T
<1>3. AtTopAgain(h, top, last, other, O)
  BY <1>1, <1>2, BorderOver
<1> QED BY <1>2, <1>3 DEF Phase

\* After the left border the right one is repaired.
LEMMA PhaseTurn ==
  ASSUME NEW h, NEW top, NEW other, Ready(h, top, TRUE, other), NEW n,
         Phase("top_again", h, top, TRUE, other, n), Solid(h, top), NEW m
  PROVE  Ready(h, other, FALSE, top) /\ Phase("top", h, other, FALSE, top, m)
<1>1. /\ top \in DOMAIN h /\ other \in DOMAIN h /\ top # other /\ WellFormed(h, {top, other})
  BY DEF Ready
<1>2. PICK O : AtTopAgain(h, top, TRUE, other, O)
  BY DEF Phase
<1>3. Chain(h, O, other, FALSE) /\ top \notin O /\ Sized(h, {top, other}, O)
  BY <1>2 DEF AtTopAgain
<1> DEFINE P == {top}
<1>4. Chain(h, P, top, TRUE) /\ P = {top} /\ O \cap P = {}
  BY <1>1, <1>3, ChainOne
<1>5. {other, top} = {top, other}
  OBVIOUS
<1> HIDE DEF P
<1>6. Sized(h, {other, top}, O \cup P)
  BY <1>3, <1>5 DEF Sized
<1>7. Two(h, O, other, FALSE, P, top)
  BY <1>3, <1>4 DEF Two
<1>8. AtTop(h, other, FALSE, top, P)
  BY <1>6, <1>7 DEF AtTop
<1>9. Rest(h, FALSE, top, P)
  BY <1>4 DEF Rest
<1>10. Phase("top", h, other, FALSE, top, m)
  BY <1>8, <1>9 DEF Phase
<1> QED BY <1>1, <1>5, <1>10 DEF Ready

\* After the right border both trees are legal.
LEMMA PhaseEnd ==
  ASSUME NEW h, NEW top, NEW other, Ready(h, top, FALSE, other), NEW n,
         Phase("top_again", h, top, FALSE, other, n), Solid(h, top)
  PROVE  LegalLens(h, {top, other})
<1>1. /\ top \in DOMAIN h /\ other \in DOMAIN h /\ top # other /\ WellFormed(h, {top, other})
  BY DEF Ready
<1>2. PICK O : Rest(h, FALSE, other, O) /\ AtTopAgain(h, top, FALSE, other, O)
  BY DEF Phase
<1>3. O \subseteq {top, other} /\ Solid(h, other) /\ Sized(h, {top, other}, O)
  BY <1>2 DEF Rest, AtTopAgain
<1> QED BY <1>1, <1>3, BothRepaired

-----------------------------------------------------------------------------
(* The inductive invariant *)

\* The root of the tree that is not being repaired.
Other == IF OnRight THEN root ELSE right

\* An allocator with finitely many nodes; two trees, whose roots are known.
Trees ==
  /\ IsFiniteSet(DOMAIN heap)
  /\ WellFormed(heap, {root, right}) /\ {root, right} \subseteq DOMAIN heap \cup {Nil}

\* Between two calls.
AtRest ==
  /\ LegalLens(heap, {root, right})
  /\ root = Nil => length = 0
  /\ right = Nil => right_length = 0

Apart == root \in DOMAIN heap /\ right \in DOMAIN heap /\ root # right

SplitInv ==
  /\ Trees
  /\ pc = "idle" => right = Nil
  /\ pc \in {"idle", "done"} => AtRest
  /\ pc \in {"cut", "top", "border", "top_again", "measure"} => Apart
  /\ pc = "cut" => \E D, E : Cutting(heap, D, E, root, right, cur, cur_right)
  /\ pc \in {"top", "border", "top_again"} => Phase(pc, heap, Top, ~OnRight, Other, cur)
  /\ pc = "measure" => LegalLens(heap, {root, right})

\* No tree in a heap has the null pointer for its root.
LEMMA NilOrNot ==
  ASSUME NEW h, NEW S, HeapType(h)
  PROVE  /\ Nil \notin DOMAIN h
         /\ WellFormed(h, S) <=> WellFormed(h, S \cup {Nil})
         /\ LegalLens(h, S) <=> LegalLens(h, S \cup {Nil})
<1>1. \A n \in DOMAIN h : n # Nil
  BY HeapNode
<1>2. S \cap DOMAIN h = (S \cup {Nil}) \cap DOMAIN h
  BY <1>1
<1>3. WellFormed(h, S) <=> WellFormed(h, S \cup {Nil})
  <2> DEFINE T == S \cup {Nil}
  <2>1. S \cap DOMAIN h = T \cap DOMAIN h
    BY <1>2
  <2> HIDE DEF T
  <2>2. WellFormed(h, S) => WellFormed(h, T)
    BY <2>1, TopsExt
  <2>3. WellFormed(h, T) => WellFormed(h, S)
    BY <2>1, TopsExt
  <2> QED BY <2>2, <2>3 DEF T
<1>4. LegalLens(h, S) <=> LegalLens(h, S \cup {Nil})
  BY <1>1 DEF LegalLens
<1> QED BY <1>1, <1>3, <1>4

\* The call begins with a legal map.
LEMMA SplitInvInit == Init => SplitInv
<1> SUFFICES ASSUME Init
             PROVE  SplitInv
  OBVIOUS
<1>1. PICK m \in Maps : heap = m.heap /\ root = m.root /\ length = m.length
  BY DEF Init
<1>2. right = Nil /\ right_length = 0 /\ pc = "idle"
  BY DEF Init
<1>3. /\ IsFiniteSet(DOMAIN heap) /\ root \in DOMAIN heap \cup {Nil}
      /\ WellFormed(heap, {root}) /\ LegalLens(heap, {root}) /\ length = PairCount(heap)
  BY <1>1, MapsAssumption DEF LegalMap
<1>4. {root} \cup {Nil} = {root, right}
  BY <1>2
<1>5. HeapType(heap)
  BY <1>3 DEF WellFormed
<1>6. WellFormed(heap, {root, right}) /\ LegalLens(heap, {root, right}) /\ Nil \notin DOMAIN heap
  BY <1>3, <1>4, <1>5, NilOrNot
<1>7. root = Nil => length = 0
  <2> DEFINE T == {root}
  <2> SUFFICES ASSUME root = Nil
               PROVE  length = 0
    OBVIOUS
  <2>1. WellFormed(heap, T) /\ T \cap DOMAIN heap = {}
    BY <1>3, <1>6
  <2> HIDE DEF T
  <2> QED BY <1>3, <2>1, NoRootNoNode
<1> QED BY <1>2, <1>3, <1>6, <1>7 DEF SplitInv, Trees, AtRest

\* Nothing to split.
LEMMA StepEmpty ==
  ASSUME SplitInv, SplitEmpty
  PROVE  SplitInv'
<1>1. /\ pc = "idle" /\ pc' = "done" /\ right = Nil /\ right' = right /\ right_length' = 0
      /\ UNCHANGED <<heap, root, length>> /\ Trees /\ AtRest
  BY DEF SplitInv, SplitEmpty
<1>2. Trees' /\ AtRest'
  BY <1>1 DEF Trees, AtRest
<1> QED BY <1>1, <1>2 DEF SplitInv

\* The pillar is made.
LEMMA StepSplitBegin ==
  ASSUME SplitInv, NEW k, SplitBegin(k)
  PROVE  SplitInv'
<1> DEFINE at == Fresh(heap, heap[root].height + 1)
           to == at[Len(at)]
           T == {root}
<1>1. /\ pc = "idle" /\ length > 0 /\ CanAllocateAll(heap, heap[root].height + 1)
      /\ heap' = new_pillar(heap, at) /\ right' = to /\ cur_right' = to
      /\ cur' = root /\ root' = root /\ pc' = "cut"
  BY DEF SplitBegin
<1>2. Free(heap, at) /\ Len(at) = heap[root].height + 1
  BY <1>1 DEF CanAllocateAll
<1> HIDE DEF at
<1>3. /\ Trees /\ AtRest /\ right = Nil
  BY <1>1 DEF SplitInv
<1>4. HeapType(heap) /\ IsFiniteSet(DOMAIN heap)
  BY <1>3 DEF Trees, WellFormed
<1>5. root \in DOMAIN heap
  BY <1>1, <1>3 DEF Trees, AtRest
<1>6. WellFormed(heap, T) /\ LegalLens(heap, T)
  <2>1. T \cup {Nil} = {root, right}
    BY <1>3
  <2> HIDE DEF T
  <2> QED BY <1>3, <1>4, <2>1, NilOrNot DEF Trees, AtRest
<1> DEFINE g == new_pillar(heap, at)
<1>7. /\ DOMAIN g = DOMAIN heap \cup {at[i] : i \in 1 .. Len(at)}
      /\ WellFormed(g, {root, to}) /\ to \in DOMAIN g /\ to # root
      /\ \E D, E : Cutting(g, D, E, root, to, root, to)
  BY ONLY <1>2, <1>5, <1>6, PillarCut
<1>8. IsFiniteSet(DOMAIN g)
  <2>1. WithPillar(g, heap, at) /\ at \in Seq(NodeId)
    BY <1>2, NewPillarNodes DEF Free
  <2>2. Countable(heap)
    BY <1>4, WellFormedCountable
  <2> HIDE DEF g
  <2>3. Tally(g, heap, 0)
    BY <2>1, <2>2, TallyPillar
  <2> QED BY <2>3 DEF Tally, Countable
<1>9. heap' = g
  BY <1>1
<1> HIDE DEF g, to
<1>10. Trees' /\ Apart'
  BY <1>1, <1>5, <1>7, <1>8, <1>9 DEF Trees, Apart
<1>11. \E D, E : Cutting(heap', D, E, root', right', cur', cur_right')
  BY <1>1, <1>7, <1>9
<1> QED BY <1>1, <1>10, <1>11 DEF SplitInv

\* A level is cut.
LEMMA StepSplitLevel ==
  ASSUME SplitInv, SplitLevel
  PROVE  SplitInv'
<1>1. PICK idx \in CutIndices :
        /\ heap' = move_suffix(heap, cur, idx, cur_right)
        /\ heap[cur].height = 0 => pc' = "top" /\ cur' = root /\ cur_right' = Nil
        /\ heap[cur].height # 0 => /\ cur' = descend(heap, cur, idx)
                                   /\ cur_right' = descend(heap, cur_right, 0)
                                   /\ pc' = pc
  BY DEF SplitLevel, IsLeaf
<1>2. pc = "cut" /\ UNCHANGED <<root, right>>
  BY DEF SplitLevel
<1>3. Trees /\ Apart
  BY <1>2 DEF SplitInv
<1>4. PICK D, E : Cutting(heap, D, E, root, right, cur, cur_right)
  BY <1>2 DEF SplitInv
<1>5. cur \in DOMAIN heap /\ Len(heap[cur].kv) \in Nat
  <2>1. cur \in DOMAIN heap
    BY <1>4 DEF Cutting, Chain
  <2> DEFINE T == {root, right}
  <2>2. WellFormed(heap, T)
    BY <1>3 DEF Trees
  <2> HIDE DEF T
  <2> QED BY <2>1, <2>2, NodeArity
<1>6. idx \in 0 .. Len(heap[cur].kv)
  <2>1. idx \in KVResults(heap[cur].kv, key) \cup EdgeResults(heap[cur].kv, key)
    BY DEF CutIndices
  <2>2. idx \in 0 .. Len(heap[cur].kv) - 1 \/ idx \in 0 .. Len(heap[cur].kv)
    <3>1. CASE idx \in KVResults(heap[cur].kv, key)
      BY ONLY <3>1, Zenon DEF KVResults
    <3>2. CASE idx \in EdgeResults(heap[cur].kv, key)
      BY ONLY <3>2, Zenon DEF EdgeResults
    <3> QED BY <2>1, <3>1, <3>2
  <2> QED BY ONLY <1>5, <2>2
<1> DEFINE g == move_suffix(heap, cur, idx, cur_right)
<1>7. /\ WellFormed(g, {root, right}) /\ DOMAIN g = DOMAIN heap
      /\ heap[cur].height = 0 => \E O : AtTop(g, root, TRUE, right, O)
      /\ heap[cur].height # 0 =>
           \E X, Y : Cutting(g, X, Y, root, right, descend(heap, cur, idx),
                             descend(heap, cur_right, 0))
  <2>1. WellFormed(heap, {root, right})
    BY <1>3 DEF Trees
  <2> QED BY ONLY <1>4, <1>6, <2>1, CutLevel
<1>8. heap' = g
  BY <1>1
<1> HIDE DEF g
<1>9. Trees' /\ Apart'
  BY <1>2, <1>3, <1>7, <1>8 DEF Trees, Apart
<1>10. CASE heap[cur].height = 0
  <2>1. pc' = "top" /\ cur_right' = Nil
    BY <1>1, <1>10
  <2>2. ~OnRight' /\ Top' = root' /\ Other' = right'
    BY <2>1 DEF OnRight, Top, Other
  <2>3. PICK O : AtTop(g, root, TRUE, right, O)
    BY <1>7, <1>10
  <2>4. Rest(g, TRUE, right, O)
    BY DEF Rest
  <2>5. Phase("top", g, root, TRUE, right, cur')
    BY <2>3, <2>4 DEF Phase
  <2>6. (~OnRight)' = TRUE
    BY <2>2
  <2>7. Phase(pc', heap', Top', ~OnRight', Other', cur')
    BY <1>2, <1>8, <2>1, <2>2, <2>5, <2>6
  <2> QED BY <1>9, <2>1, <2>7 DEF SplitInv
<1>11. CASE heap[cur].height # 0
  <2>1. pc' = "cut" /\ \E X, Y : Cutting(heap', X, Y, root', right', cur', cur_right')
    BY <1>1, <1>2, <1>7, <1>8, <1>11
  <2> QED BY <1>9, <2>1 DEF SplitInv
<1> QED BY <1>10, <1>11


\* What SplitInv says while a border is repaired.
LEMMA RepairReady ==
  ASSUME SplitInv, pc \in {"top", "border", "top_again"}
  PROVE  /\ Ready(heap, Top, ~OnRight, Other) /\ Phase(pc, heap, Top, ~OnRight, Other, cur)
         /\ IsFiniteSet(DOMAIN heap) /\ {Top, Other} = {root, right} /\ Nil \notin DOMAIN heap
<1>1. /\ WellFormed(heap, {root, right}) /\ IsFiniteSet(DOMAIN heap) /\ Apart
      /\ Phase(pc, heap, Top, ~OnRight, Other, cur)
  BY DEF SplitInv, Trees
<1>2. HeapType(heap)
  BY <1>1 DEF WellFormed
<1>3. Nil \notin DOMAIN heap
  BY <1>2, HeapNode
<1>4. {Top, Other} = {root, right} /\ Top \in DOMAIN heap /\ Other \in DOMAIN heap /\ Top # Other
  BY <1>1 DEF Top, Other, Apart
<1>5. (~OnRight) \in BOOLEAN
  BY DEF OnRight
<1> QED BY <1>1, <1>3, <1>4, <1>5 DEF Ready

\* What a step of the repair has to show.
LEMMA RepairInv ==
  ASSUME SplitInv, pc \in {"top", "border", "top_again"},
         pc' \in {"top", "border", "top_again"},
         Ready(heap', Top', ~OnRight', Other'), Phase(pc', heap', Top', ~OnRight', Other', cur'),
         DOMAIN heap' \subseteq DOMAIN heap
  PROVE  SplitInv'
<1>1. IsFiniteSet(DOMAIN heap')
  <2>1. IsFiniteSet(DOMAIN heap)
    BY DEF SplitInv, Trees
  <2> QED BY <2>1, FS_Subset
<1>2. /\ Top' \in DOMAIN heap' /\ Other' \in DOMAIN heap' /\ Top' # Other'
      /\ WellFormed(heap', {Top', Other'})
  BY DEF Ready
<1>3. /\ root' \in DOMAIN heap' /\ right' \in DOMAIN heap' /\ root' # right'
      /\ {Top', Other'} = {root', right'}
  BY <1>2 DEF Top, Other
<1>4. Trees' /\ Apart'
  BY <1>1, <1>2, <1>3 DEF Trees, Apart
<1> QED BY <1>4 DEF SplitInv

\* An empty root is popped.
LEMMA StepPop ==
  ASSUME SplitInv, FixTop
  PROVE  SplitInv'
<1> DEFINE c == descend(heap, Top, 0)
           g == pop_internal_level(heap, Top)
<1>1. /\ pc \in {"top", "top_again"} /\ heap[Top].height > 0 /\ Len(heap[Top].kv) = 0
      /\ heap' = g /\ pc' = pc
      /\ OnRight => right' = c /\ cur_right' = c /\ root' = root
      /\ ~OnRight => root' = c /\ right' = right /\ cur_right' = cur_right
  BY DEF FixTop, len
<1>2. /\ Ready(heap, Top, ~OnRight, Other) /\ Phase(pc, heap, Top, ~OnRight, Other, cur)
      /\ {Top, Other} = {root, right} /\ Nil \notin DOMAIN heap
  BY <1>1, RepairReady
<1> DEFINE last == ~OnRight
           top == Top
           other == Other
           m == cur'
<1>3. /\ Ready(g, c, last, other) /\ Phase(pc, g, c, last, other, m)
      /\ DOMAIN g \subseteq DOMAIN heap
  <2>1. /\ Ready(heap, top, last, other) /\ Phase(pc, heap, top, last, other, cur)
        /\ c = descend(heap, top, 0) /\ g = pop_internal_level(heap, top)
        /\ heap[top].height > 0 /\ Len(heap[top].kv) = 0
    BY <1>1, <1>2
  <2> HIDE DEF c, g, last, top, other, m
  <2>2. Pop(pc, heap, top, last, other, cur, c, g)
    BY <1>1, <2>1 DEF Pop
  <2> QED BY ONLY <2>2, PhasePop
<1> HIDE DEF c, g, m
<1>4. c # Nil
  <2>1. c \in DOMAIN heap
    BY <1>3 DEF Ready
  <2> QED BY <1>2, <2>1
<1>5. (OnRight' <=> OnRight) /\ Top' = c /\ Other' = Other
  <2>1. CASE OnRight
    BY <1>1, <1>4, <2>1 DEF OnRight, Top, Other
  <2>2. CASE ~OnRight
    BY <1>1, <2>2 DEF OnRight, Top, Other
  <2> QED BY <2>1, <2>2
<1>6. (~OnRight') = ~OnRight
  BY <1>5 DEF OnRight
<1>7. Ready(heap', Top', ~OnRight', Other') /\ Phase(pc', heap', Top', ~OnRight', Other', cur')
  BY <1>1, <1>3, <1>5, <1>6 DEF m
<1> QED BY <1>1, <1>3, <1>7, RepairInv

\* The steps at which the roots stay.
LEMMA SameRoots ==
  ASSUME UNCHANGED <<root, right, cur_right>>
  PROVE  Top' = Top /\ Other' = Other /\ (~OnRight') = ~OnRight
  BY DEF Top, Other, OnRight

\* The border is begun at the root.
LEMMA StepBorder ==
  ASSUME SplitInv, FixBorder
  PROVE  SplitInv'
<1>1. /\ pc = "top" /\ (heap[Top].height = 0 \/ Len(heap[Top].kv) > 0)
      /\ pc' = (IF Len(heap[Top].kv) > 0 THEN "border" ELSE "top_again")
      /\ cur' = Top /\ UNCHANGED <<heap, root, right, cur_right>>
  BY DEF FixBorder, len
<1>2. Ready(heap, Top, ~OnRight, Other) /\ Phase("top", heap, Top, ~OnRight, Other, cur)
  BY <1>1, RepairReady
<1> DEFINE last == ~OnRight
           top == Top
           other == Other
           p == IF Len(heap[top].kv) > 0 THEN "border" ELSE "top_again"
<1>3. Phase(p, heap, top, last, other, top)
  <2>1. /\ Ready(heap, top, last, other) /\ Phase("top", heap, top, last, other, cur)
        /\ (heap[top].height = 0 \/ Len(heap[top].kv) > 0)
    BY <1>1, <1>2
  <2> HIDE DEF last, top, other
  <2> QED BY <2>1, PhaseBorder
<1>4. pc' = p /\ pc' \in {"top", "border", "top_again"}
  BY <1>1
<1> HIDE DEF p
<1>5. Top' = Top /\ Other' = Other /\ (~OnRight') = ~OnRight
  BY <1>1, SameRoots
<1>6. Ready(heap', Top', ~OnRight', Other') /\ Phase(pc', heap', Top', ~OnRight', Other', cur')
  BY <1>1, <1>2, <1>3, <1>4, <1>5
<1> QED BY <1>1, <1>4, <1>6, RepairInv

\* A level of the border is repaired.
LEMMA StepLevel ==
  ASSUME SplitInv, FixChildMerge \/ FixChildSteal
  PROVE  SplitInv'
<1> DEFINE last == ~OnRight
           top == Top
           other == Other
           idx == ChildKV
           c == Child
           count == Missing
           g == heap'
           m == cur'
<1>1. /\ pc = "border" /\ pc' = pc /\ heap[cur].height # 0 /\ UNCHANGED <<root, right, cur_right>>
      /\ \/ can_merge(heap, cur, idx) /\ g = do_merge(heap, cur, idx)
            /\ m = descend(heap, cur, idx)
         \/ ~can_merge(heap, cur, idx) /\ m = c
            /\ g = CASE count <= 0 -> heap
                     [] count > 0 /\ OnRight -> bulk_steal_right(heap, cur, idx, count)
                     [] count > 0 /\ ~OnRight -> bulk_steal_left(heap, cur, idx, count)
  BY DEF FixChildMerge, FixChildSteal, IsLeaf
<1>2. /\ Ready(heap, top, last, other) /\ Phase("border", heap, top, last, other, cur)
  BY <1>1, RepairReady
<1>3. /\ idx = IF last THEN Len(heap[cur].kv) - 1 ELSE 0
      /\ c = EndChild(heap, cur, last)
      /\ count = MIN_LEN + 1 - Len(heap[c].kv)
  BY DEF ChildKV, Child, Missing, EndChild, LastChild, len
<1>4. count \in Int
  <2>1. PICK O, D : Two(heap, D, cur, last, O, other)
    BY <1>2 DEF Phase
  <2>2. cur \in DOMAIN heap
    BY <2>1 DEF Two, Chain
  <2> DEFINE T == {top, other}
  <2>3. WellFormed(heap, T) /\ last \in BOOLEAN
    BY <1>2 DEF Ready
  <2> HIDE DEF T, c, last, count
  <2>4. c \in DOMAIN heap
    BY <1>1, <1>3, <2>2, <2>3, EndChildFacts
  <2>5. Len(heap[c].kv) \in Nat
    BY <2>3, <2>4, NodeArity
  <2> QED BY <1>3, <2>5, Minimum
<1>5. \/ can_merge(heap, cur, idx) /\ g = do_merge(heap, cur, idx)
         /\ m = descend(heap, cur, idx)
      \/ ~can_merge(heap, cur, idx) /\ m = c /\ count <= 0 /\ g = heap
      \/ ~can_merge(heap, cur, idx) /\ m = c /\ count > 0
         /\ g = IF last THEN bulk_steal_left(heap, cur, idx, count)
                ELSE bulk_steal_right(heap, cur, idx, count)
  <2> HIDE DEF idx, c, count, g, m
  <2>1. CASE count <= 0
    BY <1>1, <2>1
  <2>2. CASE ~(count <= 0)
    <3>1. count > 0
      BY <1>4, <2>2
    <3> QED BY <1>1, <2>2, <3>1
  <2> QED BY <2>1, <2>2
<1>6. Ready(g, top, last, other) /\ Phase("border", g, top, last, other, m)
      /\ DOMAIN g \subseteq DOMAIN heap
  <2> HIDE DEF last, top, other, idx, c, count, g, m
  <2>1. Level(heap, top, last, other, cur, idx, c, count, g, m)
    BY <1>1, <1>2, <1>3, <1>5 DEF Level
  <2> QED BY ONLY <2>1, PhaseLevel
<1>7. Top' = Top /\ Other' = Other /\ (~OnRight') = ~OnRight
  BY <1>1, SameRoots
<1>8. Ready(heap', Top', ~OnRight', Other') /\ Phase(pc', heap', Top', ~OnRight', Other', cur')
  BY <1>1, <1>6, <1>7
<1> QED BY <1>1, <1>6, <1>8, RepairInv

\* The border is done.
LEMMA StepBorderDone ==
  ASSUME SplitInv, FixBorderDone
  PROVE  SplitInv'
<1>1. /\ pc = "border" /\ heap[cur].height = 0 /\ pc' = "top_again" /\ cur' = Top
      /\ UNCHANGED <<heap, root, right, cur_right>>
  BY DEF FixBorderDone, IsLeaf
<1>2. Ready(heap, Top, ~OnRight, Other) /\ Phase("border", heap, Top, ~OnRight, Other, cur)
  BY <1>1, RepairReady
<1> DEFINE last == ~OnRight
           top == Top
           other == Other
<1>3. Phase("top_again", heap, top, last, other, top)
  <2>1. Ready(heap, top, last, other) /\ Phase("border", heap, top, last, other, cur)
    BY <1>2
  <2> HIDE DEF last, top, other
  <2> QED BY <1>1, <2>1, PhaseOver
<1>4. Top' = Top /\ Other' = Other /\ (~OnRight') = ~OnRight
  BY <1>1, SameRoots
<1>5. Ready(heap', Top', ~OnRight', Other') /\ Phase(pc', heap', Top', ~OnRight', Other', cur')
  BY <1>1, <1>2, <1>3, <1>4
<1> QED BY <1>1, <1>5, RepairInv

\* One of the trees is done.
LEMMA StepTopDone ==
  ASSUME SplitInv, FixTopDone
  PROVE  SplitInv'
<1>1. /\ pc = "top_again" /\ (heap[Top].height = 0 \/ Len(heap[Top].kv) > 0)
      /\ UNCHANGED <<heap, root, right>>
      /\ OnRight => pc' = "measure" /\ cur_right' = Nil
      /\ ~OnRight => pc' = "top" /\ cur_right' = right
  BY DEF FixTopDone, len
<1>2. /\ Ready(heap, Top, ~OnRight, Other) /\ Phase("top_again", heap, Top, ~OnRight, Other, cur)
      /\ {Top, Other} = {root, right} /\ Nil \notin DOMAIN heap
  BY <1>1, RepairReady
<1>3. Solid(heap, Top)
  <2>1. Top \in DOMAIN heap /\ WellFormed(heap, {Top, Other})
    BY <1>2 DEF Ready
  <2> DEFINE T == {Top, Other}
  <2>2. WellFormed(heap, T)
    BY <2>1
  <2> HIDE DEF T
  <2>3. Len(heap[Top].kv) \in Nat
    BY <2>1, <2>2, NodeArity
  <2> QED BY <1>1, <2>3 DEF Solid
<1>4. CASE OnRight
  <2>1. (~OnRight) = FALSE
    BY <1>4
  <2>2. Ready(heap, Top, FALSE, Other) /\ Phase("top_again", heap, Top, FALSE, Other, cur)
    BY <1>2, <2>1
  <2>3. LegalLens(heap, {Top, Other})
    BY <1>3, <2>2, PhaseEnd
  <2>4. pc' = "measure" /\ Trees /\ Apart /\ LegalLens(heap, {root, right})
    BY <1>1, <1>2, <1>4, <2>3 DEF SplitInv
  <2>5. Trees' /\ Apart' /\ LegalLens(heap', {root', right'})
    BY <1>1, <2>4 DEF Trees, Apart
  <2> QED BY <2>4, <2>5 DEF SplitInv
<1>5. CASE ~OnRight
  <2>1. (~OnRight) = TRUE /\ Top = root /\ Other = right
    BY <1>5 DEF Top, Other
  <2>2. Ready(heap, root, TRUE, right) /\ Phase("top_again", heap, root, TRUE, right, cur)
    BY <1>2, <2>1
  <2>3. Solid(heap, root)
    BY <1>3, <2>1
  <2> DEFINE m == cur'
  <2>4. Ready(heap, right, FALSE, root) /\ Phase("top", heap, right, FALSE, root, m)
    <3> HIDE DEF m
    <3> QED BY <2>2, <2>3, PhaseTurn
  <2>5. right # Nil
    BY <1>2, <2>2 DEF Ready
  <2>6. OnRight' /\ Top' = right /\ Other' = root /\ pc' = "top"
    BY <1>1, <1>5, <2>5 DEF OnRight, Top, Other
  <2>7. (~OnRight') = FALSE
    BY <2>6
  <2>8. Ready(heap', Top', ~OnRight', Other') /\ Phase(pc', heap', Top', ~OnRight', Other', cur')
    BY <1>1, <2>4, <2>6, <2>7
  <2> QED BY <1>1, <2>6, <2>8, RepairInv
<1> QED BY <1>4, <1>5

\* The lengths are counted.
LEMMA StepMeasure ==
  ASSUME SplitInv, CalcSplitLength
  PROVE  SplitInv'
<1>1. pc = "measure" /\ pc' = "done" /\ UNCHANGED <<heap, root, right>>
  BY DEF CalcSplitLength
<1>2. Trees /\ Apart /\ LegalLens(heap, {root, right})
  BY <1>1 DEF SplitInv
<1>3. root # Nil /\ right # Nil
  <2>1. HeapType(heap)
    BY <1>2 DEF Trees, WellFormed
  <2>2. Nil \notin DOMAIN heap
    BY <2>1, HeapNode
  <2> QED BY <1>2, <2>2 DEF Apart
<1>4. Trees' /\ AtRest'
  BY <1>1, <1>2, <1>3 DEF Trees, AtRest
<1> QED BY <1>1, <1>4 DEF SplitInv

\* One of the maps is dropped.
LEMMA StepKeep ==
  ASSUME SplitInv, NEW r, NEW count,
         (r = root /\ count = length) \/ (r = right /\ count = right_length),
         Keep(r, count)
  PROVE  SplitInv'
<1> DEFINE g == [m \in {n \in DOMAIN heap : RootAbove(n) = r} |-> heap[m]]
           T == {root, right}
<1>1. /\ pc = "done" /\ heap' = g /\ root' = r /\ length' = count
      /\ right' = Nil /\ right_length' = 0 /\ pc' = "idle"
  BY DEF Keep
<1>2. Trees /\ AtRest
  BY <1>1 DEF SplitInv
<1>3. /\ WellFormed(heap, T) /\ LegalLens(heap, T) /\ IsFiniteSet(DOMAIN heap) /\ r \in T
      /\ r \in DOMAIN heap \cup {Nil}
  BY <1>2 DEF Trees, AtRest
<1> HIDE DEF T
<1>4. /\ DOMAIN g \subseteq DOMAIN heap /\ (r \in DOMAIN heap => r \in DOMAIN g)
      /\ WellFormed(g, {r}) /\ LegalLens(g, {r})
  BY ONLY <1>3, KeepTree
<1>5. heap' = g
  BY <1>1
<1> HIDE DEF g
<1>6. WellFormed(g, {r, Nil}) /\ LegalLens(g, {r, Nil})
  <2> DEFINE S == {r}
  <2>1. WellFormed(g, S) /\ LegalLens(g, S) /\ S \cup {Nil} = {r, Nil}
    BY <1>4
  <2>2. HeapType(g)
    BY <1>4 DEF WellFormed
  <2> HIDE DEF S
  <2> QED BY <2>1, <2>2, NilOrNot
<1>7. IsFiniteSet(DOMAIN g)
  BY <1>3, <1>4, FS_Subset
<1>8. r = Nil => count = 0
  BY <1>2 DEF AtRest
<1>9. Trees' /\ AtRest'
  BY <1>1, <1>3, <1>4, <1>5, <1>6, <1>7, <1>8 DEF Trees, AtRest
<1> QED BY <1>1, <1>9 DEF SplitInv

\* Every step keeps SplitInv.
LEMMA SplitInvNext == SplitInv /\ [Next]_vars => SplitInv'
<1> SUFFICES ASSUME SplitInv, [Next]_vars
             PROVE  SplitInv'
  OBVIOUS
<1>1. CASE SplitEmpty
  BY <1>1, StepEmpty
<1>2. ASSUME NEW k \in Query, SplitBegin(k)
      PROVE  SplitInv'
  BY <1>2, StepSplitBegin
<1>3. CASE SplitLevel
  BY <1>3, StepSplitLevel
<1>4. CASE CompPanics
  <2>1. pc' = "panicked" /\ UNCHANGED <<heap, root, right>> /\ Trees
    BY <1>4 DEF CompPanics, SplitInv
  <2>2. Trees'
    BY <2>1 DEF Trees
  <2> QED BY <2>1, <2>2 DEF SplitInv
<1>5. CASE FixTop
  BY <1>5, StepPop
<1>6. CASE FixBorder
  BY <1>6, StepBorder
<1>7. CASE FixChildMerge \/ FixChildSteal
  BY <1>7, StepLevel
<1>8. CASE FixBorderDone
  BY <1>8, StepBorderDone
<1>9. CASE FixTopDone
  BY <1>9, StepTopDone
<1>10. CASE CalcSplitLength
  BY <1>10, StepMeasure
<1>11. CASE Keep(root, length)
  BY <1>11, StepKeep
<1>12. CASE Keep(right, right_length)
  BY <1>12, StepKeep
<1>13. CASE UNCHANGED vars
  BY <1>13 DEF vars, SplitInv, Trees, AtRest, Apart, Top, Other, OnRight
<1> QED BY <1>1, <1>2, <1>3, <1>4, <1>5, <1>6, <1>7, <1>8, <1>9, <1>10, <1>11, <1>12, <1>13
        DEF Next, Fix

-----------------------------------------------------------------------------
(* The theorems *)

\* SplitInv holds in every state of a call of split_off.
THEOREM SplitInvariance == Spec => []SplitInv
<1> QED BY SplitInvInit, SplitInvNext, PTL DEF Spec

\* At every step of the cut and the repair, and wherever a panic of the
\* comparator ends the call, there are two trees with correct links.
THEOREM SplitKeepsTwoTrees == Spec => []TwoTrees
<1>1. SplitInv => TwoTrees
  BY DEF SplitInv, Trees, TwoTrees
<1> QED BY <1>1, SplitInvariance, PTL

\* The repair of the two borders leaves no node underfull and no internal root
\* empty, in either of the maps that split_off returns.
THEOREM SplitIsLegal == Spec => []BothLegal
<1>1. SplitInv => BothLegal
  BY DEF SplitInv, AtRest, BothLegal
<1> QED BY <1>1, SplitInvariance, PTL

\* The assertions of move_suffix and of fix.rs hold, and every steal on the way
\* down a border finds enough in the sibling.
THEOREM BorderAssertsHold == Spec => []BorderAsserts
<1>1. ASSUME SplitInv, pc = "cut"
      PROVE  len(heap, cur_right) = 0 /\ heap[cur].height = heap[cur_right].height
  <2>1. PICK D, E : Cutting(heap, D, E, root, right, cur, cur_right)
    BY <1>1 DEF SplitInv
  <2>2. /\ cur_right \in E /\ E \subseteq DOMAIN heap
        /\ \A m \in E : heap[m].height <= heap[cur_right].height => Len(heap[m].kv) = 0
        /\ heap[cur].height = heap[cur_right].height
    BY <2>1 DEF Cutting, Chain
  <2> DEFINE T == {root, right}
  <2>3. WellFormed(heap, T)
    BY <1>1 DEF SplitInv, Trees
  <2> HIDE DEF T
  <2>4. heap[cur_right].height \in Nat
    BY <2>2, <2>3, NodeArity
  <2>5. heap[cur_right].height <= heap[cur_right].height
    BY <2>4
  <2> QED BY <2>2, <2>5 DEF len
<1>2. ASSUME SplitInv, pc = "border"
      PROVE  /\ IF cur = Top THEN len(heap, cur) > 0 ELSE len(heap, cur) > MIN_LEN
             /\ ~IsLeaf(heap, cur) =>
                  /\ len(heap, Sibling) >= MIN_LEN
                  /\ can_merge(heap, cur, ChildKV) \/ Missing <= len(heap, Sibling)
  <2> DEFINE last == ~OnRight
             top == Top
             other == Other
             T == {top, other}
             idx == ChildKV
             c == Child
             sib == Sibling
  <2>1. Ready(heap, top, last, other) /\ Phase("border", heap, top, last, other, cur)
    BY <1>2, RepairReady
  <2>2. PICK O, D : Two(heap, D, cur, last, O, other) /\ Sizes(heap, T, D, cur, O)
    BY <2>1 DEF Phase
  <2>3. cur # other
    <3>1. cur \in D /\ other \in O /\ D \cap O = {}
      BY <2>2 DEF Two, Chain
    <3> QED BY <3>1
  <2>4. IF cur = top THEN len(heap, cur) > 0 ELSE len(heap, cur) > MIN_LEN
    BY <2>2, <2>3 DEF Sizes, len
  <2>5. ASSUME heap[cur].height # 0
        PROVE  /\ len(heap, sib) >= MIN_LEN
               /\ can_merge(heap, cur, idx) \/ MIN_LEN + 1 - len(heap, c) <= len(heap, sib)
    <3>1. EndPair(heap, cur, last, idx, c, sib)
      BY DEF EndPair, EndChild, LastChild, ChildKV, Child, Sibling, len
    <3>2. WellFormed(heap, T) /\ last \in BOOLEAN /\ other \in T
      BY <2>1 DEF Ready
    <3> HIDE DEF T, last, top, other, idx, c, sib
    <3>3. Around(heap, T, D, cur, last, O, other, idx, c, sib)
      BY <2>2, <2>5, <3>1, <3>2, AtNode
    <3>4. /\ {c, sib} = {descend(heap, cur, idx), descend(heap, cur, idx + 1)} /\ c # sib
          /\ c = descend(heap, cur, IF last THEN idx + 1 ELSE idx)
          /\ Len(heap[c].kv) \in Nat /\ Len(heap[sib].kv) \in Nat /\ Len(heap[sib].kv) >= MIN_LEN
      BY <3>3 DEF Around, Ends
    <3>5. ASSUME ~can_merge(heap, cur, idx)
          PROVE  MIN_LEN + 1 - Len(heap[c].kv) <= Len(heap[sib].kv)
      <4>1. PICK x \in Nat : x = Len(heap[c].kv)
        BY <3>4
      <4>2. PICK y \in Nat : y = Len(heap[sib].kv)
        BY <3>4
      <4>3. ~(x + 1 + y <= CAPACITY)
        <5>1. \/ c = descend(heap, cur, idx) /\ sib = descend(heap, cur, idx + 1)
              \/ sib = descend(heap, cur, idx) /\ c = descend(heap, cur, idx + 1)
          BY <3>4
        <5>2. ~(x + 1 + y <= CAPACITY) \/ ~(y + 1 + x <= CAPACITY)
          BY <3>5, <4>1, <4>2, <5>1 DEF can_merge, len
        <5>3. x + 1 + y = y + 1 + x
          OBVIOUS
        <5> QED BY <5>2, <5>3
      <4>4. CASE MIN_LEN + 1 - x > 0
        BY <4>1, <4>2, <4>3, <4>4, SiblingHas
      <4>5. CASE ~(MIN_LEN + 1 - x > 0)
        <5>1. PICK z \in Nat : z = MIN_LEN
          BY Minimum
        <5>2. ~(z + 1 - x > 0)
          BY <4>5, <5>1
        <5>3. z + 1 - x <= y
          BY ONLY <5>2
        <5> QED BY <4>1, <4>2, <5>1, <5>3
      <4> QED BY <4>4, <4>5
    <3> QED BY <3>4, <3>5 DEF len
  <2> QED BY <2>4, <2>5 DEF IsLeaf, Missing
<1>3. SplitInv => BorderAsserts
  BY <1>1, <1>2 DEF BorderAsserts
<1> QED BY <1>3, SplitInvariance, PTL
=============================================================================
