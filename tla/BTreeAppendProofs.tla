---------------------------- MODULE BTreeAppendProofs ----------------------------
(***************************************************************************)
(* append leaves a map that can be dropped at every step, and a legal one  *)
(* when it ends, whatever the comparator answers and whenever it panics.   *)
(* While the tree is built, every node off its right border is full; that  *)
(* is what lets fix_right_border_of_plentiful stock up the border with one *)
(* steal at each level.                                                    *)
(***************************************************************************)
EXTENDS BTreeAppend, BTreeNavigateProofs

\* internal_push makes the pushed edge the node's last child.
LEMMA PushEdges ==
  ASSUME NEW h, NEW tops, WellFormed(h, tops), NEW p \in DOMAIN h, h[p].height # 0,
         NEW kv \in KV, NEW e \in NodeId, NEW g, g = internal_push(h, p, kv, e),
         Len(g[p].kv) = Len(h[p].kv) + 1
  PROVE  /\ LastChild(g, p) = e
         /\ \A m \in DOMAIN h \ {p} : g[m].edges = h[m].edges
<1> DEFINE n == Len(h[p].kv)
           X == slice_insert(h[p].edges, n + 1, e)
           k == [h EXCEPT ![p] = WithData(@, slice_insert(@.kv, n, kv), X)]
<1>1. HeapType(h) /\ HasFields(h)
  BY TypeFields DEF WellFormed
<1>2. /\ n \in Nat /\ h[p].edges \in Seq(NodeId) /\ Len(h[p].edges) = n + 1
  BY <1>1, HeapNode, NodeArity
<1>3. X[n + 2] = e
  <2>1. IsInsert(X, h[p].edges, n + 1, e)
    BY <1>2, SliceInsertProps
  <2> HIDE DEF X
  <2>2. n + 2 \in 1 .. Len(h[p].edges) + 1 /\ n + 2 = (n + 1) + 1
    BY <1>2
  <2> QED BY <2>1, <2>2 DEF IsInsert
<1>4. g = correct_childrens_parent_links(k, p, n + 1, n + 2)
  BY DEF internal_push, internal_insert_fit, len
<1> HIDE DEF X
<1>5. /\ DOMAIN k = DOMAIN h /\ HasFields(k) /\ k[p].edges = X
      /\ \A m \in DOMAIN h \ {p} : k[m] = h[m]
  <2>1. /\ DOMAIN k = DOMAIN h /\ k[p] = WithData(h[p], slice_insert(h[p].kv, n, kv), X)
        /\ \A m \in DOMAIN h \ {p} : k[m] = h[m]
    OBVIOUS
  <2>2. DOMAIN h[p] = Fields
    BY <1>1 DEF HasFields
  <2>3. DOMAIN k[p] = Fields /\ k[p].edges = X
    BY <2>1, <2>2, FieldProps
  <2> HIDE DEF k
  <2> QED BY <1>1, <2>1, <2>3 DEF HasFields
<1> HIDE DEF k
<1>6. \A m \in DOMAIN h : g[m].edges = k[m].edges
  BY <1>4, <1>5, RelinkEdges DEF SameEdges
<1>7. LastChild(g, p) = X[n + 2]
  BY <1>2, <1>5, <1>6 DEF LastChild, descend
<1> QED BY <1>3, <1>5, <1>6, <1>7

\* A new root has the pushed edge as its last child.
LEMMA RootEdges ==
  ASSUME NEW h, HeapType(h), NEW old \in DOMAIN h, NEW new, new \notin DOMAIN h,
         NEW kv, NEW e, NEW g, g = push_root_level(h, old, new, kv, e),
         Len(g[new].kv) = 1
  PROVE  /\ LastChild(g, new) = e
         /\ \A m \in DOMAIN h : g[m].edges = h[m].edges
<1> DEFINE r == new_internal(h[old].height + 1, <<kv>>, <<old, e>>)
           k == Allocate(h, new, r)
<1>1. g = correct_childrens_parent_links(k, new, 0, 2)
  BY DEF push_root_level
<1>2. /\ DOMAIN k = DOMAIN h \cup {new} /\ k[new] = r
      /\ \A m \in DOMAIN h : k[m] = h[m]
  BY DEF Allocate
<1>3. DOMAIN r = Fields /\ r.edges = <<old, e>>
  BY DEF new_internal, Fields
<1> HIDE DEF k, r
<1>4. HasFields(k)
  BY <1>2, <1>3, TypeFields DEF HasFields
<1>5. \A m \in DOMAIN k : g[m].edges = k[m].edges
  BY <1>1, <1>4, RelinkEdges DEF SameEdges
<1> QED BY <1>2, <1>3, <1>5 DEF LastChild, descend

\* k of the addresses are as free as all.
LEMMA FreePrefix ==
  ASSUME NEW h, NEW at, Free(h, at), NEW k \in 0 .. Len(at)
  PROVE  /\ Free(h, SubSeq(at, 1, k)) /\ Len(SubSeq(at, 1, k)) = k
         /\ \A i \in 1 .. k : SubSeq(at, 1, k)[i] = at[i]
<1>1. /\ at \in Seq(NodeId \ DOMAIN h) /\ Len(at) \in Nat
      /\ \A i, j \in 1 .. Len(at) : at[i] = at[j] => i = j
  BY DEF Free
<1>2. /\ SubSeq(at, 1, k) \in Seq(NodeId \ DOMAIN h) /\ Len(SubSeq(at, 1, k)) = k - 1 + 1
      /\ \A j \in 1 .. k - 1 + 1 : SubSeq(at, 1, k)[j] = at[1 + j - 1]
  <2>1. 1 \in Nat /\ k \in Nat /\ 1 <= 1 /\ 1 <= k + 1 /\ k <= Len(at)
    BY <1>1
  <2> QED BY <1>1, <2>1, CutProps
<1>3. k \in Nat /\ k <= Len(at)
  BY <1>1
<1>4. /\ Len(SubSeq(at, 1, k)) = k /\ \A i \in 1 .. k : SubSeq(at, 1, k)[i] = at[i]
  BY <1>2, <1>3
<1>5. \A i, j \in 1 .. k : at[i] = at[j] => i = j
  BY <1>1, <1>3
<1> QED BY <1>2, <1>4, <1>5 DEF Free

-----------------------------------------------------------------------------
(* The nearest ancestor with room *)

\* The nodes of D below a height are full.
FullBelow(h, D, k) == \A m \in D : h[m].height < k => Len(h[m].kv) >= CAPACITY

\* n is open: it is on the border D, above a leaf, with room, and all of the
\* border below it is full; or it is Nil, and all of the border is.
IsOpen(h, D, n) ==
  IF n = Nil THEN \A m \in D : Len(h[m].kv) >= CAPACITY
  ELSE /\ n \in D /\ h[n].height # 0 /\ Len(h[n].kv) < CAPACITY
       /\ FullBelow(h, D, h[n].height)

\* The walk of bulk_push from the last leaf, when that is full, comes to the open node.
LEMMA OpenNodeFound ==
  ASSUME NEW h, NEW rt, WellFormed(h, {rt}), Bounded(h), NEW D, Border(h, rt, D),
         NEW n \in D, h[n].height = 0, Len(h[n].kv) >= CAPACITY
  PROVE  IsOpen(h, D, OpenNode(h, n))
<1>a. ASSUME NEW m \in D
      PROVE  /\ m = rt => h[m].parent = Nil
             /\ m # rt => /\ h[m].parent \in D /\ h[m].parent # Nil
                          /\ h[h[m].parent].height # 0
                          /\ h[h[m].parent].height = h[m].height + 1
  <2>1. rt \in {rt}
    OBVIOUS
  <2> QED BY ONLY WellFormed(h, {rt}), Border(h, rt, D), m \in D, <2>1, BorderParent
<1> DEFINE S == DOMAIN h
           par(m) == h[m].parent
           stop == {m \in S : par(m) = Nil \/ len(h, par(m)) < CAPACITY}
           next == [m \in S |-> IF m \in stop THEN m ELSE par(m)]
           base == [m \in S |-> par(m)]
           Eq(f) == f = [m \in S |-> LET p == h[m].parent
                                     IN  IF p = Nil \/ len(h, p) < CAPACITY THEN p ELSE f[p]]
           up == CHOOSE f : Eq(f)
           P == {m \in D : FullBelow(h, D, h[m].height + 1)}
           Q == {x \in D \cup {Nil} : IsOpen(h, D, x)}
<1>1. D \subseteq S /\ rt \in D
  BY DEF Border
<1>2. \A m \in S : h[m].height \in Nat /\ Len(h[m].kv) \in Nat /\ m # Nil
  BY HeapNode DEF WellFormed
<1>3. ASSUME NEW m \in S, par(m) # Nil
      PROVE  par(m) \in S /\ h[par(m)].height = h[m].height + 1
  BY <1>3, WellFormedFacts
<1>4. PICK top \in Nat : \A m \in S : h[m].height <= top
  BY DEF Bounded
<1> DEFINE mu == [m \in S |-> top - h[m].height]
<1>5. Falls(S, stop, next, mu)
  <2>1. next \in [S -> S]
    BY <1>3
  <2>2. mu \in [S -> Nat]
    BY <1>2, <1>4
  <2>3. ASSUME NEW x \in S \ stop
        PROVE  mu[next[x]] < mu[x]
    <3>1. next[x] = par(x) /\ par(x) \in S /\ h[par(x)].height = h[x].height + 1
      BY <1>3, <2>3
    <3> QED BY <1>2, <1>4, <3>1
  <2> QED BY <2>1, <2>2, <2>3 DEF Falls
<1>6. \A f : Eq(f) <=> IsWalk(S, stop, next, base, f)
  BY DEF IsWalk
<1>7. OpenNode(h, n) = up[n]
  BY DEF OpenNode
<1>8. IsWalk(S, stop, next, base, up)
  BY <1>5, <1>6, WalkExists
<1>9. ASSUME NEW m \in D
      PROVE  /\ m = rt => par(m) = Nil
             /\ m # rt => par(m) \in D /\ par(m) # Nil /\ h[par(m)].height = h[m].height + 1
                          /\ h[par(m)].height # 0
  BY <1>a, <1>9
<1>10. \A m, x \in D : h[m].height = h[x].height => m = x
  BY DEF Border
<1>11. Leads(stop, next, base, P, Q)
  <2>1. ASSUME NEW x \in P \ stop
        PROVE  next[x] \in P
    <3>1. next[x] = par(x) /\ par(x) # Nil /\ ~(Len(h[par(x)].kv) < CAPACITY)
      BY <1>1, <2>1 DEF len
    <3>2. par(x) \in D /\ h[par(x)].height = h[x].height + 1
      BY <1>9, <2>1, <3>1
    <3>3. Len(h[par(x)].kv) >= CAPACITY
      BY <1>1, <1>2, <3>1, <3>2, BAssumption DEF CAPACITY
    <3>4. FullBelow(h, D, h[par(x)].height + 1)
      <4> SUFFICES ASSUME NEW m \in D, h[m].height < h[par(x)].height + 1
                   PROVE  Len(h[m].kv) >= CAPACITY
        BY DEF FullBelow
      <4>1. CASE h[m].height < h[x].height + 1
        BY <2>1, <4>1 DEF FullBelow
      <4>2. CASE ~(h[m].height < h[x].height + 1)
        <5>1. h[m].height = h[par(x)].height
          BY <1>1, <1>2, <3>2, <4>2
        <5> QED BY <1>10, <3>2, <3>3, <5>1
      <4> QED BY <4>1, <4>2
    <3> QED BY <3>1, <3>2, <3>4
  <2>2. ASSUME NEW x \in P \cap stop
        PROVE  base[x] \in Q
    <3>1. base[x] = par(x) /\ x \in D /\ FullBelow(h, D, h[x].height + 1)
      BY <1>1, <2>2
    <3>2. CASE par(x) = Nil
      <4>1. x = rt
        BY <1>9, <3>1, <3>2
      <4>2. \A m \in D : h[m].height < h[x].height + 1
        BY <1>1, <1>2, <4>1 DEF Border
      <4> QED BY <3>1, <3>2, <4>2 DEF FullBelow, IsOpen
    <3>3. CASE par(x) # Nil
      <4>1. par(x) \in D /\ h[par(x)].height = h[x].height + 1 /\ h[par(x)].height # 0
        BY <1>9, <3>1, <3>3
      <4>2. Len(h[par(x)].kv) < CAPACITY
        BY <2>2, <3>3 DEF len
      <4> QED BY <3>1, <3>3, <4>1, <4>2 DEF IsOpen
    <3> QED BY <3>2, <3>3
  <2> QED BY <2>1, <2>2 DEF Leads
<1>12. n \in P
  <2> SUFFICES ASSUME NEW m \in D, h[m].height < h[n].height + 1
               PROVE  Len(h[m].kv) >= CAPACITY
    BY DEF FullBelow
  <2>1. h[m].height = h[n].height
    BY <1>1, <1>2
  <2> QED BY <1>10, <2>1
<1>13. P \subseteq S
  BY <1>1
<1> HIDE DEF S, par, stop, next, base, up, P, Q, mu, Eq
<1>14. up[n] \in Q
  BY <1>5, <1>8, <1>11, <1>12, <1>13, WalkLeads
<1> QED BY <1>7, <1>14 DEF Q

-----------------------------------------------------------------------------
(* A tree that is being built *)

\* The nodes off the border D are full.
Full(h, D) == \A m \in DOMAIN h \ D : Len(h[m].kv) >= CAPACITY

\* A tree with the root rt that is being built at the leaf n: all is full but
\* for its right border.
Built(h, rt, n) ==
  /\ rt \in DOMAIN h /\ WellFormed(h, {rt}) /\ Countable(h) /\ Roomy(h)
  /\ h[rt].height = 0 \/ Len(h[rt].kv) >= 1
  /\ h[n].height = 0
  /\ \E D : Border(h, rt, D) /\ n \in D /\ Full(h, D)

\* A new pillar stands beside the tree at rt.
Beside(k, h, rt, s) ==
  /\ WellFormed(k, {rt, s[Len(s)]}) /\ Tally(k, h, 0) /\ Pillar(k, s)
  /\ DOMAIN k = DOMAIN h \cup {s[i] : i \in 1 .. Len(s)}
  /\ \A m \in DOMAIN h : k[m] = h[m]
  /\ \A i \in 1 .. Len(s) : s[i] \in NodeId \ DOMAIN h

\* The new pillar is beside the tree: its nodes are none of the old ones.
LEMMA PillarBeside ==
  ASSUME NEW h, NEW rt \in DOMAIN h, WellFormed(h, {rt}), Countable(h),
         NEW s, Free(h, s), Len(s) >= 1, NEW k, k = new_pillar(h, s)
  PROVE  Beside(k, h, rt, s)
<1>1. WithPillar(k, h, s) /\ WellFormed(k, {rt} \cup {s[Len(s)]})
  <2>1. {rt} \subseteq DOMAIN h \cup {Nil}
    OBVIOUS
  <2> QED BY <2>1, NewPillar
<1>2. {rt} \cup {s[Len(s)]} = {rt, s[Len(s)]}
  OBVIOUS
<1>3. s \in Seq(NodeId) /\ Len(s) \in Nat /\ Len(s) # 0
  BY DEF Free
<1>4. Tally(k, h, 0)
  BY <1>1, <1>3, TallyPillar
<1>5. /\ DOMAIN k = DOMAIN h \cup {s[i] : i \in 1 .. Len(s)}
      /\ \A m \in DOMAIN h : k[m] = h[m]
      /\ \A i \in 1 .. Len(s) : s[i] \in NodeId \ DOMAIN h
  BY <1>1 DEF WithPillar
<1>6. Pillar(k, s)
  <2>1. \A i \in 1 .. Len(s) :
          /\ k[s[i]].kv = <<>> /\ k[s[i]].height = i - 1
          /\ k[s[i]].edges = IF i = 1 THEN <<>> ELSE <<s[i - 1]>>
    BY <1>1 DEF WithPillar
  <2>2. \A i \in 1 .. Len(s) : s[i] \in DOMAIN k
    BY <1>5
  <2> QED BY <1>3, <2>1, <2>2 DEF Pillar
<1> QED BY <1>1, <1>2, <1>4, <1>5, <1>6 DEF Beside

\* A pillar keeps its nodes while their pairs, edges and heights stay.
LEMMA PillarSame ==
  ASSUME NEW g, NEW k, NEW s, Pillar(k, s), DOMAIN k \subseteq DOMAIN g,
         \A i \in 1 .. Len(s) : /\ g[s[i]].kv = k[s[i]].kv /\ g[s[i]].height = k[s[i]].height
                                /\ g[s[i]].edges = k[s[i]].edges
  PROVE  Pillar(g, s)
BY DEF Pillar

\* All nodes are full: the pair becomes the one of a new root, between the old
\* tree and a pillar of the same height.
LEMMA PushUpRoot ==
  ASSUME NEW h, NEW rt, NEW n, Built(h, rt, n), \A m \in DOMAIN h : Len(h[m].kv) >= CAPACITY,
         NEW s, Free(h, s), Len(s) = h[rt].height + 1,
         NEW new \in NodeId \ DOMAIN h, \A i \in 1 .. Len(s) : s[i] # new,
         NEW kv \in KV,
         NEW g, g = push_root_level(new_pillar(h, s), rt, new, kv, s[Len(s)])
  PROVE  Built(g, new, s[1]) /\ Tally(g, h, 1)
<1> DEFINE k == new_pillar(h, s)
           e == s[Len(s)]
           A == {s[i] : i \in 1 .. Len(s)}
<1>1. /\ rt \in DOMAIN h /\ WellFormed(h, {rt}) /\ Countable(h) /\ Roomy(h)
  BY DEF Built
<1>c. CAPACITY \in Nat /\ CAPACITY >= 1
  BY BAssumption DEF CAPACITY
<1>2. h[rt].height \in Nat
  BY <1>1, HeapNode DEF WellFormed
<1>3. Beside(k, h, rt, s)
  BY <1>1, <1>2, PillarBeside
<1> HIDE DEF k
<1>4. /\ WellFormed(k, {rt, e}) /\ Tally(k, h, 0) /\ Pillar(k, s)
      /\ DOMAIN k = DOMAIN h \cup A /\ \A m \in DOMAIN h : k[m] = h[m]
      /\ \A i \in 1 .. Len(s) : s[i] \in NodeId \ DOMAIN h
  BY <1>3 DEF Beside
<1>5. Len(s) \in Nat \ {0} /\ \A i \in 1 .. Len(s) : k[s[i]].height = i - 1 /\ k[s[i]].kv = <<>>
  BY <1>4 DEF Pillar
<1>6. /\ e \in DOMAIN k /\ e # rt /\ e \notin DOMAIN h /\ k[e].height = k[rt].height
      /\ rt \in DOMAIN k /\ new \notin DOMAIN k /\ k[rt].height = h[rt].height
  <2>1. Len(s) \in 1 .. Len(s)
    BY <1>5
  <2>2. e \in A /\ k[e].height = Len(s) - 1 /\ e \notin DOMAIN h
    BY <1>4, <1>5, <2>1
  <2> QED BY <1>1, <1>2, <1>4, <2>2
<1> HIDE DEF e
<1>7. Grown(g, k, {rt, e}, rt, e, new)
  <2>1. rt \in {rt, e} \cap DOMAIN k /\ e \in {rt, e} \cap DOMAIN k /\ new \in NodeId
    BY <1>6
  <2>2. g = push_root_level(k, rt, new, kv, e)
    BY DEF k, e
  <2> QED BY ONLY <1>4, <1>6, <2>1, <2>2, kv \in KV, PushRootLevel
<1>8. /\ DOMAIN g = DOMAIN k \cup {new} /\ WellFormed(g, {new})
      /\ Len(g[new].kv) = 1 /\ g[new].height = k[rt].height + 1
      /\ \A m \in DOMAIN k : g[m].kv = k[m].kv /\ g[m].height = k[m].height
  <2>1. ({rt, e} \ {rt, e}) \cup {new} = {new}
    OBVIOUS
  <2> QED BY <1>7, <2>1 DEF Grown
<1>9. LastChild(g, new) = e /\ \A m \in DOMAIN k : g[m].edges = k[m].edges
  <2>1. HeapType(k)
    BY <1>4 DEF WellFormed
  <2>2. g = push_root_level(k, rt, new, kv, e)
    BY DEF k, e
  <2> QED BY ONLY <1>6, <1>8, <2>1, <2>2, RootEdges
<1>10. Countable(g) /\ Tally(g, h, 1)
  <2>1. Countable(k)
    BY <1>4 DEF Tally
  <2>2. Tally(g, k, 1)
    BY <1>6, <1>7, <2>1, TallyGrown
  <2>3. Tally(g, h, 1 + 0)
    BY <1>1, <1>4, <2>2, TallyTwice
  <2> QED BY <2>3 DEF Tally
<1>11. Border(g, new, {new} \cup A)
  <2>1. Pillar(g, s)
    <3>1. \A i \in 1 .. Len(s) : s[i] \in DOMAIN k
      BY <1>4
    <3> QED BY <1>4, <1>8, <1>9, <3>1, PillarSame
  <2>2. g[new].height = Len(s) /\ g[new].height \in Nat
    BY <1>2, <1>6, <1>8
  <2>3. LastChild(g, new) = s[Len(s)]
    BY <1>9 DEF e
  <2>4. {new} \subseteq DOMAIN g /\ new \in {new}
    BY <1>8
  <2> DEFINE N == {new}
  <2>5. /\ N \subseteq DOMAIN g /\ new \in N
        /\ \A m \in N : g[m].height \in Nat
        /\ \A m \in N \ {new} : LastChild(g, m) \in N
        /\ \A m \in N \ {new} : \E q \in N \ {new} : LastChild(g, q) = m
        /\ \A m, x \in N : g[m].height = g[x].height => m = x
        /\ \A m \in N : g[m].height <= g[new].height
        /\ \A m \in N : g[m].height >= Len(s)
    BY <2>2, <2>4
  <2> HIDE DEF N
  <2>6. Border(g, new, N \cup {s[i] : i \in 1 .. Len(s)})
    BY ONLY <2>1, <2>3, <2>5, BorderGraft
  <2> QED BY <2>6 DEF N
<1>12. Full(g, {new} \cup A)
  <2> SUFFICES ASSUME NEW m \in DOMAIN g, m # new, m \notin A
               PROVE  Len(g[m].kv) >= CAPACITY
    BY DEF Full
  <2>1. m \in DOMAIN h /\ g[m].kv = h[m].kv
    BY <1>4, <1>8
  <2> QED BY <2>1
<1>13. Roomy(g)
  <2> SUFFICES ASSUME NEW m \in DOMAIN g
               PROVE  Len(g[m].kv) <= CAPACITY
    BY DEF Roomy
  <2>1. CASE m = new
    BY <1>8, <1>c, <2>1
  <2>2. CASE m \in DOMAIN h
    BY <1>1, <1>4, <1>8, <2>2 DEF Roomy
  <2>3. CASE m \in A
    <3>1. PICK i \in 1 .. Len(s) : m = s[i]
      BY <2>3
    <3>2. k[m].kv = <<>> /\ m \in DOMAIN k
      BY <1>4, <1>5, <3>1
    <3>3. g[m].kv = <<>>
      BY <1>8, <3>2
    <3> QED BY <1>c, <3>3
  <2> QED BY <1>4, <1>8, <2>1, <2>2, <2>3
<1>14. s[1] \in {new} \cup A /\ g[s[1]].height = 0
  <2>1. 1 \in 1 .. Len(s)
    BY <1>5
  <2>2. s[1] \in A /\ s[1] \in DOMAIN k /\ k[s[1]].height = 0
    BY <1>4, <1>5, <2>1
  <2> QED BY <1>8, <2>2
<1>15. new \in DOMAIN g /\ Len(g[new].kv) >= 1
  BY <1>8
<1> HIDE DEF A
<1> QED BY <1>8, <1>10, <1>11, <1>12, <1>13, <1>14, <1>15 DEF Built

\* The pair goes to an open node, below which all is full, with a pillar to its right.
LEMMA PushUpOpen ==
  ASSUME NEW h, NEW rt, WellFormed(h, {rt}), rt \in DOMAIN h, Countable(h), Roomy(h),
         NEW D, Border(h, rt, D), Full(h, D), h[rt].height = 0 \/ Len(h[rt].kv) >= 1,
         NEW p, p # Nil, IsOpen(h, D, p),
         NEW s, Free(h, s), Len(s) = h[p].height,
         NEW kv \in KV,
         NEW g, g = internal_push(new_pillar(h, s), p, kv, s[Len(s)])
  PROVE  Built(g, rt, s[1]) /\ Tally(g, h, 1)
<1> DEFINE k == new_pillar(h, s)
           e == s[Len(s)]
           A == {s[i] : i \in 1 .. Len(s)}
           E == {m \in D : h[m].height >= h[p].height}
<1>c. CAPACITY \in Nat /\ CAPACITY >= 1
  BY BAssumption DEF CAPACITY
<1>1. /\ p \in D /\ h[p].height # 0 /\ Len(h[p].kv) < CAPACITY
      /\ FullBelow(h, D, h[p].height)
  BY DEF IsOpen
<1>2. /\ D \subseteq DOMAIN h /\ rt \in D /\ p \in DOMAIN h
      /\ \A m \in D : h[m].height <= h[rt].height
      /\ \A m, x \in D : h[m].height = h[x].height => m = x
  BY <1>1 DEF Border
<1>3. \A m \in DOMAIN h : h[m].height \in Nat /\ Len(h[m].kv) \in Nat
  BY HeapNode DEF WellFormed
<1>4. Beside(k, h, rt, s)
  <2>1. Len(s) >= 1
    BY <1>1, <1>2, <1>3
  <2> QED BY <2>1, PillarBeside
<1> HIDE DEF k
<1>5. /\ WellFormed(k, {rt, e}) /\ Tally(k, h, 0) /\ Pillar(k, s)
      /\ DOMAIN k = DOMAIN h \cup A /\ \A m \in DOMAIN h : k[m] = h[m]
      /\ \A i \in 1 .. Len(s) : s[i] \in NodeId \ DOMAIN h
  BY <1>4 DEF Beside
<1>6. /\ Len(s) \in Nat \ {0}
      /\ \A i \in 1 .. Len(s) : k[s[i]].height = i - 1 /\ k[s[i]].kv = <<>>
  BY <1>5 DEF Pillar
<1>7. /\ e \in DOMAIN k /\ e # rt /\ e # p /\ e \notin DOMAIN h /\ e \in NodeId
      /\ p \in DOMAIN k /\ k[p] = h[p] /\ k[e].height = k[p].height - 1
  <2>1. Len(s) \in 1 .. Len(s)
    BY <1>6
  <2>2. e \in A /\ k[e].height = Len(s) - 1 /\ e \notin DOMAIN h /\ e \in NodeId
    BY <1>5, <1>6, <2>1
  <2> QED BY <1>2, <1>5, <2>2
<1> HIDE DEF e
<1>8. Inserted(g, k, {rt, e} \ {e}, p)
  <2>1. g = internal_insert_fit(k, p, Len(k[p].kv), kv, e)
    BY DEF k, e, internal_push, len
  <2>2. /\ k[p].height > 0 /\ Len(k[p].kv) \in 0 .. Len(k[p].kv) /\ e \in {rt, e} \cap DOMAIN k
    BY <1>1, <1>2, <1>3, <1>7
  <2> DEFINE T == {rt, e}
             idx == Len(k[p].kv)
  <2>3. WellFormed(k, T) /\ e \in T \cap DOMAIN k /\ idx \in 0 .. Len(k[p].kv)
    BY <1>5, <2>2
  <2> HIDE DEF T, idx
  <2>4. Inserted(internal_insert_fit(k, p, idx, kv, e), k, T \ {e}, p)
    BY ONLY <1>7, <2>2, <2>3, kv \in KV, InternalInsertFit
  <2> QED BY <2>1, <2>4 DEF T, idx
<1>9. /\ DOMAIN g = DOMAIN k /\ WellFormed(g, {rt}) /\ Len(g[p].kv) = Len(h[p].kv) + 1
      /\ \A m \in DOMAIN k : g[m].height = k[m].height
      /\ \A m \in DOMAIN k \ {p} : g[m].kv = k[m].kv
  <2>1. {rt, e} \ {e} = {rt}
    BY <1>7
  <2> QED BY <1>7, <1>8, <2>1 DEF Inserted
<1>10. LastChild(g, p) = e /\ \A m \in DOMAIN k \ {p} : g[m].edges = k[m].edges
  <2>1. g = internal_push(k, p, kv, e)
    BY DEF k, e
  <2>2. k[p].height # 0 /\ Len(g[p].kv) = Len(k[p].kv) + 1
    BY <1>1, <1>7, <1>9
  <2> DEFINE T == {rt, e}
  <2>3. WellFormed(k, T)
    BY <1>5
  <2> HIDE DEF T
  <2> QED BY ONLY <1>7, <2>1, <2>2, <2>3, kv \in KV, PushEdges
<1>11. Countable(g) /\ Tally(g, h, 1)
  <2>1. Countable(k)
    BY <1>5 DEF Tally
  <2>2. Tally(g, k, 1)
    BY <1>7, <1>8, <2>1, TallyInserted
  <2>3. Tally(g, h, 1 + 0)
    BY <1>5, <2>2, TallyTwice
  <2> QED BY <2>3 DEF Tally
<1>12. \A m \in DOMAIN h : g[m].height = h[m].height
  BY <1>5, <1>9
<1>13. \A m \in DOMAIN h \ {p} : g[m].kv = h[m].kv /\ g[m].edges = h[m].edges
  BY <1>5, <1>9, <1>10
<1>14. Border(g, rt, E \cup A)
  <2>1. Pillar(g, s)
    <3>1. \A i \in 1 .. Len(s) : s[i] \in DOMAIN k \ {p}
      BY <1>2, <1>5
    <3> QED BY <1>5, <1>9, <1>10, <3>1, PillarSame
  <2>2. \A m \in D \ {p} : LastChild(g, m) = LastChild(h, m)
    BY <1>2, <1>13 DEF LastChild, descend
  <2>3. ASSUME NEW m \in E \ {p}
        PROVE  LastChild(g, m) \in E
    <3>1. m \in D /\ h[m].height > h[p].height /\ h[m].height # 0
      BY <1>1, <1>2, <1>3
    <3>2. LastChild(h, m) \in D
      BY <3>1 DEF Border
    <3>3. h[LastChild(h, m)].height = h[m].height - 1
      BY <1>2, <3>1, LastChildFacts
    <3>4. h[LastChild(h, m)].height >= h[p].height
      BY <1>2, <1>3, <3>1, <3>3
    <3> QED BY <2>2, <3>1, <3>2, <3>4
  <2>4. ASSUME NEW m \in E \ {rt}
        PROVE  \E q \in E \ {p} : LastChild(g, q) = m
    <3>1. PICK q \in D : h[q].height # 0 /\ LastChild(h, q) = m
      BY DEF Border
    <3>2. h[m].height = h[q].height - 1
      BY <1>2, <3>1, LastChildFacts
    <3>3. q \in E /\ q # p
      BY <1>2, <1>3, <3>2
    <3> QED BY <2>2, <3>1, <3>3
  <2>5. \A m \in E : g[m].height = h[m].height /\ h[m].height \in Nat /\ m \in D
    BY <1>2, <1>3, <1>12
  <2>6. /\ E \subseteq DOMAIN g /\ rt \in E /\ p \in E
        /\ \A m \in E : g[m].height \in Nat
        /\ \A m, x \in E : g[m].height = g[x].height => m = x
        /\ \A m \in E : g[m].height <= g[rt].height
        /\ \A m \in E : g[m].height >= Len(s)
    BY <1>1, <1>2, <1>3, <1>5, <1>9, <1>12, <2>5
  <2>7. LastChild(g, p) = s[Len(s)]
    BY <1>10 DEF e
  <2> HIDE DEF E
  <2> QED BY ONLY <2>1, <2>3, <2>4, <2>6, <2>7, BorderGraft
<1>15. Full(g, E \cup A)
  <2> SUFFICES ASSUME NEW m \in DOMAIN g, m \notin E, m \notin A
               PROVE  Len(g[m].kv) >= CAPACITY
    BY DEF Full
  <2>1. m \in DOMAIN h /\ m # p /\ g[m].kv = h[m].kv
    BY <1>1, <1>2, <1>3, <1>5, <1>9, <1>13
  <2>2. CASE m \in D
    BY <1>1, <1>2, <1>3, <2>1, <2>2 DEF FullBelow
  <2>3. CASE m \notin D
    BY <2>1, <2>3 DEF Full
  <2> QED BY <2>2, <2>3
<1>16. Roomy(g)
  <2> SUFFICES ASSUME NEW m \in DOMAIN g
               PROVE  Len(g[m].kv) <= CAPACITY
    BY DEF Roomy
  <2>1. CASE m = p
    BY <1>1, <1>2, <1>3, <1>9, <1>c, <2>1
  <2>2. CASE m # p /\ m \in DOMAIN h
    BY <1>13, <2>2 DEF Roomy
  <2>3. CASE m \in A
    <3>1. PICK i \in 1 .. Len(s) : m = s[i]
      BY <2>3
    <3>2. g[m].kv = <<>>
      BY <1>2, <1>5, <1>6, <1>9, <3>1
    <3> QED BY <1>c, <3>2
  <2> QED BY <1>5, <1>9, <2>1, <2>2, <2>3
<1>17. s[1] \in E \cup A /\ g[s[1]].height = 0
  <2>1. 1 \in 1 .. Len(s)
    BY <1>6
  <2>2. s[1] \in A /\ s[1] \in DOMAIN k /\ k[s[1]].height = 0
    BY <1>5, <1>6, <2>1
  <2> QED BY <1>9, <2>2
<1>18. rt \in DOMAIN g /\ (g[rt].height = 0 \/ Len(g[rt].kv) >= 1)
  <2>1. rt \in DOMAIN g /\ g[rt].height = h[rt].height
    BY <1>2, <1>5, <1>9, <1>12
  <2>2. CASE rt = p
    BY <1>2, <1>3, <1>9, <2>1, <2>2
  <2>3. CASE rt # p
    BY <1>13, <2>1, <2>3
  <2> QED BY <2>2, <2>3
<1> HIDE DEF A, E
<1> QED BY <1>9, <1>11, <1>14, <1>15, <1>16, <1>17, <1>18 DEF Built

\* The pair goes to the last leaf.
LEMMA PushLeafBuilt ==
  ASSUME NEW h, NEW rt, NEW n, Built(h, rt, n), Len(h[n].kv) < CAPACITY, NEW kv \in KV,
         NEW g, g = leaf_push(h, n, kv)
  PROVE  Built(g, rt, n) /\ Tally(g, h, 1)
<1>1. /\ rt \in DOMAIN h /\ WellFormed(h, {rt}) /\ Countable(h) /\ Roomy(h)
      /\ h[rt].height = 0 \/ Len(h[rt].kv) >= 1
      /\ h[n].height = 0
  BY DEF Built
<1>2. PICK D : Border(h, rt, D) /\ n \in D /\ Full(h, D)
  BY DEF Built
<1>3. D \subseteq DOMAIN h /\ n \in DOMAIN h
  BY <1>2 DEF Border
<1>4. \A m \in DOMAIN h : Len(h[m].kv) \in Nat
  BY <1>1, HeapNode DEF WellFormed
<1>5. Inserted(g, h, {rt}, n)
  <2>1. g = leaf_insert_fit(h, n, Len(h[n].kv), kv)
    BY DEF leaf_push, len
  <2>2. Len(h[n].kv) \in 0 .. Len(h[n].kv)
    BY <1>3, <1>4
  <2> DEFINE T == {rt}
             idx == Len(h[n].kv)
  <2>3. WellFormed(h, T) /\ idx \in 0 .. Len(h[n].kv)
    BY <1>1, <2>2
  <2> HIDE DEF T, idx
  <2>4. Inserted(leaf_insert_fit(h, n, idx, kv), h, T, n)
    BY ONLY <1>1, <1>3, <2>3, kv \in KV, LeafInsertFit
  <2> QED BY <2>1, <2>4 DEF T, idx
<1>6. Tally(g, h, 1)
  BY <1>1, <1>3, <1>5, TallyInserted
<1>7. /\ DOMAIN g = DOMAIN h /\ WellFormed(g, {rt}) /\ Len(g[n].kv) = Len(h[n].kv) + 1
      /\ \A m \in DOMAIN h : g[m].height = h[m].height
      /\ \A m \in DOMAIN h \ {n} : g[m].kv = h[m].kv
  BY <1>5 DEF Inserted
<1>8. \A m \in DOMAIN h \ {n} : g[m] = h[m]
  BY DEF leaf_push, leaf_insert_fit
<1>9. Border(g, rt, D)
  <2>1. \A m \in D : h[m].height # 0 => LastChild(g, m) = LastChild(h, m)
    BY <1>1, <1>3, <1>8 DEF LastChild, descend
  <2> QED BY <1>2, <1>3, <1>7, <2>1, BorderSame
<1>10. Full(g, D)
  BY <1>2, <1>7 DEF Full
<1>11. Roomy(g)
  <2>1. CAPACITY \in Nat
    BY BAssumption DEF CAPACITY
  <2> QED BY <1>1, <1>3, <1>4, <1>7, <2>1 DEF Roomy
<1>12. g[rt].height = 0 \/ Len(g[rt].kv) >= 1
  BY <1>1, <1>7
<1>13. Countable(g)
  BY <1>6 DEF Tally
<1> QED BY <1>1, <1>2, <1>3, <1>6, <1>7, <1>9, <1>10, <1>11, <1>12, <1>13 DEF Built

-----------------------------------------------------------------------------
(* Stocking up the right border *)

\* The border is stocked up from the root down to n; below n, all nodes off the
\* border are still full.
Stocked(h, rt, n, D) ==
  /\ Border(h, rt, D) /\ n \in D
  /\ \A m \in DOMAIN h : m # rt /\ h[m].height >= h[n].height => Len(h[m].kv) >= MIN_LEN
  /\ \A m \in DOMAIN h \ D : h[m].height < h[n].height => Len(h[m].kv) >= CAPACITY

Mended(h, rt, n) ==
  /\ rt \in DOMAIN h /\ WellFormed(h, {rt}) /\ Countable(h) /\ Roomy(h)
  /\ h[rt].height = 0 \/ Len(h[rt].kv) >= 1
  /\ \E D : Stocked(h, rt, n, D)

\* A tree that has just been built is to be stocked up from its root.
LEMMA BuiltMended ==
  ASSUME NEW h, NEW rt, NEW n, Built(h, rt, n)
  PROVE  Mended(h, rt, rt)
<1>1. PICK D : Border(h, rt, D) /\ n \in D /\ Full(h, D)
  BY DEF Built
<1>2. /\ rt \in DOMAIN h /\ WellFormed(h, {rt}) /\ Countable(h) /\ Roomy(h)
      /\ h[rt].height = 0 \/ Len(h[rt].kv) >= 1
  BY DEF Built
<1>3. \A m \in DOMAIN h : h[m].height \in Nat /\ Len(h[m].kv) \in Nat
  BY <1>2, HeapNode DEF WellFormed
<1>4. ASSUME NEW m \in DOMAIN h, m # rt, h[m].height >= h[rt].height
      PROVE  Len(h[m].kv) >= MIN_LEN
  <2>1. m \notin D
    <3>1. ASSUME m \in D
          PROVE  FALSE
      <4>1. h[m].height <= h[rt].height /\ rt \in D
        BY <1>1, <3>1 DEF Border
      <4>2. h[m].height = h[rt].height
        BY <1>2, <1>3, <1>4, <4>1
      <4> QED BY <1>1, <1>4, <3>1, <4>1, <4>2 DEF Border
    <3> QED BY <3>1
  <2>2. Len(h[m].kv) >= CAPACITY
    BY <1>1, <2>1 DEF Full
  <2> QED BY <1>3, <2>2, Minimum
<1>5. Stocked(h, rt, rt, D)
  BY <1>1, <1>4 DEF Stocked, Full, Border
<1> QED BY <1>2, <1>5 DEF Mended

\* The border node n has a last pair, and the children at its sides are these.
LEMMA LastChildren ==
  ASSUME NEW h, NEW rt, NEW n, Mended(h, rt, n), h[n].height # 0,
         NEW i, i = Len(h[n].kv) - 1
  PROVE  /\ n \in DOMAIN h /\ i \in 0 .. Len(h[n].kv) - 1
         /\ descend(h, n, i + 1) = LastChild(h, n)
         /\ descend(h, n, i) \in DOMAIN h /\ Len(h[descend(h, n, i)].kv) >= 2 * MIN_LEN + 1
         /\ Len(h[descend(h, n, i)].kv) \in Nat
<1>1. /\ rt \in DOMAIN h /\ WellFormed(h, {rt}) /\ (h[rt].height = 0 \/ Len(h[rt].kv) >= 1)
  BY DEF Mended
<1>2. PICK D : Stocked(h, rt, n, D)
  BY DEF Mended
<1>3. \A m \in DOMAIN h : h[m].height \in Nat /\ Len(h[m].kv) \in Nat
  BY <1>1, HeapNode DEF WellFormed
<1>4. /\ n \in DOMAIN h /\ Border(h, rt, D)
      /\ n # rt => Len(h[n].kv) >= MIN_LEN
      /\ \A m \in DOMAIN h \ D : h[m].height < h[n].height => Len(h[m].kv) >= CAPACITY
  BY <1>2, <1>3 DEF Stocked, Border
<1>5. i \in Nat /\ i < Len(h[n].kv) /\ i + 1 = Len(h[n].kv)
  BY <1>1, <1>3, <1>4, Minimum
<1>6. i \in 0 .. Len(h[n].kv) - 1 /\ descend(h, n, i + 1) = LastChild(h, n)
  BY <1>5 DEF LastChild
<1> DEFINE l == descend(h, n, i)
<1>7. l \in DOMAIN h /\ h[l].height = h[n].height - 1
  BY <1>1, <1>4, <1>6, Siblings
<1>8. l \notin D
  <2> DEFINE T == {rt}
  <2>1. WellFormed(h, T) /\ rt \in T
    BY <1>1
  <2> HIDE DEF T
  <2> QED BY ONLY <1>4, <1>5, <2>1, h[n].height # 0, BorderLeft
<1> HIDE DEF l
<1>9. Len(h[l].kv) >= CAPACITY /\ Len(h[l].kv) \in Nat
  BY <1>3, <1>4, <1>7, <1>8
<1>10. Len(h[l].kv) >= 2 * MIN_LEN + 1
  BY <1>9, Minimum
<1> QED BY <1>4, <1>6, <1>7, <1>9, <1>10 DEF l

\* A last child that has enough is left as it is.
LEMMA MendPlentiful ==
  ASSUME NEW h, NEW rt, NEW n, Mended(h, rt, n), h[n].height # 0,
         Len(h[LastChild(h, n)].kv) >= MIN_LEN
  PROVE  Mended(h, rt, LastChild(h, n))
<1> DEFINE c == LastChild(h, n)
<1>1. /\ rt \in DOMAIN h /\ WellFormed(h, {rt})
      /\ Countable(h) /\ Roomy(h) /\ (h[rt].height = 0 \/ Len(h[rt].kv) >= 1)
  BY DEF Mended
<1>2. PICK D : Stocked(h, rt, n, D)
  BY DEF Mended
<1>3. /\ Border(h, rt, D) /\ n \in D /\ D \subseteq DOMAIN h
      /\ \A m \in DOMAIN h : m # rt /\ h[m].height >= h[n].height => Len(h[m].kv) >= MIN_LEN
      /\ \A m \in DOMAIN h \ D : h[m].height < h[n].height => Len(h[m].kv) >= CAPACITY
      /\ \A m, x \in D : h[m].height = h[x].height => m = x
  BY <1>2 DEF Stocked, Border
<1>4. \A m \in DOMAIN h : h[m].height \in Nat /\ Len(h[m].kv) \in Nat
  BY <1>1, HeapNode DEF WellFormed
<1>5. c \in D /\ h[c].height = h[n].height - 1
  <2>1. c \in D
    BY <1>3 DEF Border
  <2> QED BY <1>1, <1>3, <2>1, LastChildFacts
<1> HIDE DEF c
<1>6. ASSUME NEW m \in DOMAIN h, m # rt, h[m].height >= h[c].height
      PROVE  Len(h[m].kv) >= MIN_LEN
  <2>1. CASE h[m].height >= h[n].height
    BY <1>3, <1>6, <2>1
  <2>2. CASE ~(h[m].height >= h[n].height) /\ m \in D
    <3>1. h[m].height = h[c].height
      BY <1>3, <1>4, <1>5, <1>6, <2>2
    <3> QED BY <1>3, <1>5, <2>2, <3>1 DEF c
  <2>3. CASE ~(h[m].height >= h[n].height) /\ m \notin D
    <3>1. Len(h[m].kv) >= CAPACITY
      BY <1>3, <1>4, <2>3
    <3> QED BY <1>4, <3>1, Minimum
  <2> QED BY <2>1, <2>2, <2>3
<1>7. ASSUME NEW m \in DOMAIN h \ D, h[m].height < h[c].height
      PROVE  Len(h[m].kv) >= CAPACITY
  BY <1>3, <1>4, <1>5, <1>7
<1>8. Stocked(h, rt, c, D)
  BY <1>3, <1>5, <1>6, <1>7 DEF Stocked
<1> QED BY <1>1, <1>8 DEF Mended, c

\* An underfull last child gets what it lacks from its full sibling.
LEMMA MendSteal ==
  ASSUME NEW h, NEW rt, NEW n, Mended(h, rt, n), h[n].height # 0,
         NEW i, i = Len(h[n].kv) - 1, NEW c, c = descend(h, n, i + 1),
         ~(Len(h[c].kv) >= MIN_LEN),
         NEW g, g = bulk_steal_left(h, n, i, MIN_LEN - Len(h[c].kv))
  PROVE  Mended(g, rt, c) /\ Tally(g, h, 0)
<1> DEFINE l == descend(h, n, i)
           count == MIN_LEN - Len(h[c].kv)
<1>1. /\ rt \in DOMAIN h /\ WellFormed(h, {rt})
      /\ Countable(h) /\ Roomy(h) /\ (h[rt].height = 0 \/ Len(h[rt].kv) >= 1)
  BY DEF Mended
<1>2. PICK D : Stocked(h, rt, n, D)
  BY DEF Mended
<1>3. /\ Border(h, rt, D) /\ n \in D /\ D \subseteq DOMAIN h /\ rt \in D
      /\ \A m \in DOMAIN h : m # rt /\ h[m].height >= h[n].height => Len(h[m].kv) >= MIN_LEN
      /\ \A m \in DOMAIN h \ D : h[m].height < h[n].height => Len(h[m].kv) >= CAPACITY
      /\ \A m, x \in D : h[m].height = h[x].height => m = x
  BY <1>2 DEF Stocked, Border
<1>4. \A m \in DOMAIN h : h[m].height \in Nat /\ Len(h[m].kv) \in Nat
  BY <1>1, HeapNode DEF WellFormed
<1>5. /\ n \in DOMAIN h /\ i \in 0 .. Len(h[n].kv) - 1 /\ c = LastChild(h, n)
      /\ l \in DOMAIN h /\ Len(h[l].kv) >= 2 * MIN_LEN + 1 /\ Len(h[l].kv) \in Nat
  BY LastChildren
<1>6. /\ c \in DOMAIN h /\ l # c /\ l # n /\ c # n
      /\ h[l].height = h[n].height - 1 /\ h[c].height = h[n].height - 1
  BY <1>1, <1>5, Siblings
<1>7. c \in D /\ l \notin D
  <2>1. c \in D
    BY <1>3, <1>5 DEF Border
  <2> QED BY <1>3, <1>6, <2>1
<1> HIDE DEF l
<1> DEFINE v == Len(h[c].kv)
           w == Len(h[l].kv)
<1>s. /\ v \in Nat /\ w \in Nat /\ w >= 2 * MIN_LEN + 1 /\ v < MIN_LEN
      /\ MIN_LEN \in Nat
  <2>1. v \in Nat /\ w \in Nat /\ w >= 2 * MIN_LEN + 1
    BY <1>4, <1>5, <1>6
  <2>2. ~(v >= MIN_LEN) /\ MIN_LEN \in Nat
    BY Minimum
  <2> HIDE DEF v, w
  <2> QED BY <2>1, <2>2
<1>8. count \in Nat /\ count >= 1 /\ count <= Len(h[l].kv) /\ count <= MIN_LEN
  <2> HIDE DEF v, w
  <2>1. count \in Nat /\ count >= 1 /\ count <= w /\ count <= MIN_LEN
    <3>1. count = MIN_LEN - v
      BY DEF v
    <3> HIDE DEF count
    <3> QED BY <1>s, <3>1
  <2> QED BY <2>1 DEF w
<1> DEFINE x == Len(h[l].kv) - count
           y == Len(h[c].kv) + count
<1>9. /\ x \in Nat /\ y \in Nat /\ x + y = Len(h[l].kv) + Len(h[c].kv)
      /\ x >= MIN_LEN /\ x <= Len(h[l].kv) /\ y = MIN_LEN
  <2>1. x = w - count /\ y = v + count /\ count = MIN_LEN - v
    OBVIOUS
  <2> HIDE DEF x, y, count, v, w
  <2>2. /\ x \in Nat /\ y \in Nat /\ x + y = w + v
        /\ x >= MIN_LEN /\ x <= w /\ y = MIN_LEN
    BY <1>s, <2>1
  <2> QED BY <2>2 DEF v, w
<1> HIDE DEF v, w
<1>10. g = bulk_steal_left(h, n, i, count)
  OBVIOUS
<1> HIDE DEF count
<1> DEFINE T == {rt}
<1>11. WellFormed(h, T)
  BY <1>1
<1> HIDE DEF T
<1>12. Stolen(g, h, T, n, l, c, x, y)
  <2>1. l = descend(h, n, i)
    BY DEF l
  <2> QED BY ONLY <1>5, <1>8, <1>10, <1>11, <2>1, c = descend(h, n, i + 1), h[n].height # 0,
                  BulkStealLeft
<1>13. StealBorder(g, h, l)
  <2>1. l = descend(h, n, i)
    BY DEF l
  <2> QED BY ONLY <1>5, <1>8, <1>10, <1>11, <2>1, c = descend(h, n, i + 1), h[n].height # 0,
                  StealLeftBorder
<1>14. Tally(g, h, 0)
  BY ONLY <1>1, <1>5, <1>6, <1>9, <1>12, TallyStolen
<1> HIDE DEF x, y
<1>15. /\ DOMAIN g = DOMAIN h /\ WellFormed(g, {rt})
       /\ \A m \in DOMAIN h : g[m].height = h[m].height
       /\ \A m \in DOMAIN h \ {n, l, c} : g[m].kv = h[m].kv
       /\ Len(g[n].kv) = Len(h[n].kv) /\ Len(g[l].kv) = x /\ Len(g[c].kv) = y
  BY <1>12 DEF Stolen, T
<1>16. Border(g, rt, D)
  <2>1. \A m \in D : h[m].height # 0 => LastChild(g, m) = LastChild(h, m)
    BY <1>3, <1>7, <1>13 DEF StealBorder
  <2>2. D \subseteq DOMAIN g /\ \A m \in D : g[m].height = h[m].height
    BY <1>3, <1>15
  <2> QED BY ONLY <1>3, <2>1, <2>2, BorderSame
<1>17. Len(g[n].kv) \in Nat /\ \A m \in DOMAIN h \ {l, c} : Len(g[m].kv) = Len(h[m].kv)
  BY <1>4, <1>5, <1>15
<1>18. ASSUME NEW m \in DOMAIN h, m # rt, h[m].height >= h[c].height
       PROVE  Len(g[m].kv) >= MIN_LEN
  <2>1. CASE m = l \/ m = c
    <3>1. x >= MIN_LEN /\ y >= MIN_LEN
      BY <1>9, Minimum
    <3>2. Len(g[m].kv) = x \/ Len(g[m].kv) = y
      BY <1>15, <2>1
    <3> QED BY <3>1, <3>2
  <2>2. CASE m # l /\ m # c /\ h[m].height >= h[n].height
    BY <1>3, <1>17, <1>18, <2>2
  <2>3. CASE m # l /\ m # c /\ ~(h[m].height >= h[n].height)
    <3>1. h[m].height = h[c].height
      BY <1>4, <1>5, <1>6, <1>18, <2>3
    <3>2. m \notin D
      BY <1>3, <1>7, <2>3, <3>1
    <3>3. Len(h[m].kv) >= CAPACITY
      BY <1>3, <1>4, <1>5, <2>3, <3>2
    <3> QED BY <1>4, <1>17, <2>3, <3>3, Minimum
  <2> QED BY <2>1, <2>2, <2>3
<1>19. ASSUME NEW m \in DOMAIN h \ D, h[m].height < h[c].height
       PROVE  Len(g[m].kv) >= CAPACITY
  <2>1. m # l /\ m # c /\ h[m].height < h[n].height
    BY <1>4, <1>5, <1>6, <1>19
  <2> QED BY <1>3, <1>17, <2>1
<1>20. Stocked(g, rt, c, D)
  <2>1. \A m \in DOMAIN g : m # rt /\ g[m].height >= g[c].height => Len(g[m].kv) >= MIN_LEN
    <3>1. DOMAIN g = DOMAIN h /\ \A m \in DOMAIN h : g[m].height = h[m].height
      BY <1>15
    <3> QED BY <1>6, <1>18, <3>1
  <2>2. \A m \in DOMAIN g \ D : g[m].height < g[c].height => Len(g[m].kv) >= CAPACITY
    <3>1. DOMAIN g = DOMAIN h /\ \A m \in DOMAIN h : g[m].height = h[m].height
      BY <1>15
    <3> QED BY <1>6, <1>19, <3>1
  <2> QED BY <1>7, <1>16, <2>1, <2>2 DEF Stocked
<1>21. Roomy(g)
  <2> SUFFICES ASSUME NEW m \in DOMAIN h
               PROVE  Len(g[m].kv) <= CAPACITY
    BY <1>15 DEF Roomy
  <2>1. CASE m = l
    BY <1>1, <1>4, <1>5, <1>9, <1>15, <2>1, Minimum DEF Roomy
  <2>2. CASE m = c
    BY <1>9, <1>15, <2>2, Minimum
  <2>3. CASE m # l /\ m # c
    BY <1>1, <1>17, <2>3 DEF Roomy
  <2> QED BY <2>1, <2>2, <2>3
<1>22. g[rt].height = 0 \/ Len(g[rt].kv) >= 1
  <2>1. rt # l /\ rt # c
    <3>1. rt # l
      BY <1>3, <1>7
    <3>2. h[n].height <= h[rt].height
      BY <1>3 DEF Border
    <3>3. h[c].height < h[rt].height
      BY <1>1, <1>4, <1>5, <1>6, <3>2
    <3> QED BY <1>1, <1>4, <3>1, <3>3
  <2> QED BY <1>1, <1>15, <1>17, <2>1
<1>23. rt \in DOMAIN g /\ Countable(g)
  BY <1>1, <1>14, <1>15 DEF Tally
<1> QED BY <1>14, <1>15, <1>20, <1>21, <1>22, <1>23 DEF Mended

\* A tree that is stocked up down to its leaves is legal.
LEMMA MendedLegal ==
  ASSUME NEW h, NEW rt, NEW n, Mended(h, rt, n), h[n].height = 0
  PROVE  LegalLens(h, {rt})
<1>1. /\ WellFormed(h, {rt}) /\ Roomy(h) /\ (h[rt].height = 0 \/ Len(h[rt].kv) >= 1)
  BY DEF Mended
<1>2. \A m \in DOMAIN h : h[m].height \in Nat /\ Len(h[m].kv) \in Nat
  BY <1>1, HeapNode DEF WellFormed
<1>3. \A m \in DOMAIN h : m # rt => Len(h[m].kv) >= MIN_LEN
  BY <1>2 DEF Mended, Stocked
<1> QED BY <1>1, <1>2, <1>3, Minimum DEF LegalLens, Roomy, len, IsLeaf

-----------------------------------------------------------------------------
(* The inductive invariant *)

Types ==
  /\ a \in Seq(KV) /\ b \in Seq(KV)
  /\ peeked # None => peeked[1][2] \in KV
  /\ pc = "push" => hand[1] \in KV

\* Self as far as it is built, and counted.
Counted ==
  /\ root \in DOMAIN heap \cup {Nil}
  /\ WellFormed(heap, {root}) /\ Countable(heap) /\ length = PairCount(heap)

AppendInv ==
  /\ Types /\ Counted
  /\ pc = "idle" => root = Nil
  /\ pc \in {"merge", "push"} => Built(heap, root, cur)
  /\ pc = "fix" => Mended(heap, root, cur)
  /\ pc = "done" => LegalLens(heap, {root})

\* Without a root there is no node.
LEMMA NoTree ==
  ASSUME Counted, root = Nil
  PROVE  DOMAIN heap = {} /\ LegalLens(heap, {root})
<1>1. WellFormed(heap, {root}) /\ IsFiniteSet(DOMAIN heap)
  BY DEF Counted, Countable
<1>2. {root} \cap DOMAIN heap = {}
  BY <1>1, HeapNode DEF WellFormed
<1>3. DOMAIN heap = {}
  BY <1>1, <1>2, NoRootNoNode
<1> QED BY <1>3 DEF LegalLens

\* What the merge gives is a pair, and what it leaves of the iterators is pairs.
LEMMA Items ==
  ASSUME Types
  PROVE  /\ a_next # None => a_next[1] \in KV
         /\ b_next # None => b_next[1] \in KV
         /\ LeftOf("A", a) \in Seq(KV) /\ LeftOf("B", b) \in Seq(KV)
<1>1. ASSUME NEW s \in Seq(KV), NEW side, ItemOf(side, s) # None
      PROVE  ItemOf(side, s)[1] \in KV
  <2>1. CASE Peeked(side)
    BY <2>1 DEF Peeked, ItemOf, Some, Types
  <2>2. CASE ~Peeked(side)
    <3>1. s # <<>> /\ ItemOf(side, s) = Some(Head(s))
      BY <1>1, <2>2 DEF ItemOf, NextOf
    <3>2. Head(s) \in KV
      BY <3>1
    <3> QED BY <3>1, <3>2 DEF Some
  <2> QED BY <2>1, <2>2
<1>2. ASSUME NEW s \in Seq(KV), NEW side
      PROVE  LeftOf(side, s) \in Seq(KV)
  BY DEF LeftOf
<1> QED BY <1>1, <1>2 DEF Types, a_next, b_next

-----------------------------------------------------------------------------
(* The steps *)

\* Nothing has been built.
LEMMA AppendInvInit == Init => AppendInv
<1> SUFFICES ASSUME Init
             PROVE  AppendInv
  OBVIOUS
<1>1. /\ a \in Seq(KV) /\ b \in Seq(KV) /\ peeked = None /\ pc = "idle"
      /\ DOMAIN heap = {} /\ heap = [n \in {} |-> new_leaf(<<>>)] /\ root = Nil /\ length = 0
  BY GivenAssumption DEF Init
<1>2. WellFormed(heap, {root})
  BY <1>1 DEF WellFormed, HeapType, EdgesLinked, ParentsLinked, Levelled
<1>3. IsFiniteSet(DOMAIN heap)
  BY <1>1, FS_EmptySet
<1>4. Countable(heap) /\ PairCount(heap) = 0
  <2>1. {root} \cap DOMAIN heap = {}
    BY <1>1
  <2> QED BY <1>1, <1>2, <1>3, <2>1, NoRootNoNode DEF Countable
<1> QED BY <1>1, <1>2, <1>4 DEF AppendInv, Types, Counted

\* Nothing is built when one of the maps is empty.
LEMMA StepIdle ==
  ASSUME AppendInv, AppendNothing \/ AppendSwap
  PROVE  AppendInv'
<1>1. /\ Types /\ Counted /\ root = Nil /\ UNCHANGED <<peeked, hand, heap, root, length, cur>>
      /\ a' \in Seq(KV) /\ b' \in Seq(KV) /\ pc' = "done"
  BY DEF AppendInv, Types, AppendNothing, AppendSwap, sources, tree
<1>2. LegalLens(heap, {root})
  BY <1>1, NoTree
<1> QED BY <1>1, <1>2 DEF AppendInv, Types, Counted

\* A tree of one empty leaf is begun.
LEMMA StepBegin ==
  ASSUME AppendInv, AppendBegin
  PROVE  AppendInv'
<1> DEFINE n == FreshNode(heap)
           r == new_leaf(<<>>)
           g == Allocate(heap, n, r)
<1>1. /\ Types /\ Counted /\ root = Nil /\ CanAllocate(heap)
      /\ heap' = g /\ root' = n /\ cur' = n /\ pc' = "merge"
      /\ UNCHANGED <<a, b, peeked, hand, length>>
  BY DEF AppendInv, AppendBegin, sources
<1>2. n \in NodeId /\ n \notin DOMAIN heap
  BY <1>1 DEF CanAllocate, FreshNode
<1>3. DOMAIN heap = {} /\ WellFormed(heap, {root}) /\ Countable(heap)
  BY <1>1, NoTree DEF Counted
<1>4. r \in Node /\ r.height = 0 /\ Len(r.edges) = 0 /\ r.parent = Nil /\ r.kv = <<>>
  BY DEF new_leaf, new_internal, Node
<1> HIDE DEF n, r
<1>5. DOMAIN g = {n} /\ g[n] = r
  BY <1>3 DEF Allocate
<1>6. WellFormed(g, {n})
  <2>1. WellFormed(g, {root} \cup {n})
    BY <1>2, <1>3, <1>4, AddLeaf
  <2>2. ({root} \cup {n}) \cap DOMAIN g = {n} \cap DOMAIN g
    BY <1>5
  <2> QED BY <2>1, <2>2, TopsExt
<1>7. Countable(g) /\ PairCount(g) = PairCount(heap)
  <2>1. Len(g[n].kv) = 0 /\ DOMAIN g = DOMAIN heap \cup {n}
    BY <1>3, <1>4, <1>5
  <2>2. Tally(g, heap, Len(g[n].kv))
    BY <1>2, <1>3, <2>1, TallyNew
  <2> QED BY <1>3, <2>1, <2>2, PlacesFinite DEF Tally
<1> HIDE DEF g
<1>8. Built(g, n, n)
  <2>1. CAPACITY \in Nat
    BY Minimum
  <2>2. Roomy(g) /\ Full(g, {n})
    BY <1>4, <1>5, <2>1 DEF Roomy, Full
  <2>3. Border(g, n, {n})
    BY <1>4, <1>5, BorderLeaf
  <2> QED BY <1>4, <1>5, <1>6, <1>7, <2>2, <2>3 DEF Built
<1>9. Counted' /\ Types'
  BY <1>1, <1>5, <1>6, <1>7 DEF Counted, Types
<1> QED BY <1>1, <1>8, <1>9 DEF AppendInv

\* The merge gives a pair.
LEMMA StepMerge ==
  ASSUME AppendInv, MergeCompared \/ MergeOne
  PROVE  AppendInv'
<1>1. /\ Types /\ Counted /\ Built(heap, root, cur)
      /\ pc' = "push" /\ UNCHANGED <<heap, root, length, cur>>
      /\ a' = LeftOf("A", a) /\ b' = LeftOf("B", b)
  BY DEF AppendInv, MergeCompared, MergeOne, tree
<1>2. /\ a_next # None => a_next[1] \in KV
      /\ b_next # None => b_next[1] \in KV
      /\ LeftOf("A", a) \in Seq(KV) /\ LeftOf("B", b) \in Seq(KV)
  BY <1>1, Items
<1>3. hand'[1] \in KV /\ (peeked' # None => peeked'[1][2] \in KV)
  <2>1. CASE MergeCompared
    <3>1. a_next[1] \in KV /\ b_next[1] \in KV
      BY <1>2, <2>1 DEF MergeCompared
    <3>2. PICK o \in Cmp[a_next[1][1], b_next[1][1]] :
            /\ peeked' = CASE o = "Less" -> Some(<<"B", b_next[1]>>)
                           [] o = "Greater" -> Some(<<"A", a_next[1]>>)
                           [] o = "Equal" -> None
            /\ hand' = IF o = "Less" THEN a_next ELSE b_next
      BY <2>1 DEF MergeCompared
    <3>3. o \in Ordering
      <4>1. a_next[1][1] \in Key /\ b_next[1][1] \in Key
        BY <3>1 DEF KV
      <4>2. Cmp[a_next[1][1], b_next[1][1]] \in SUBSET Ordering
        BY <4>1, CmpAssumption
      <4> QED BY <4>2
    <3>4. hand'[1] \in KV
      BY <3>1, <3>2
    <3>5. peeked' # None => peeked'[1][2] \in KV
      <4>1. CASE o = "Less"
        BY <3>1, <3>2, <4>1 DEF Some
      <4>2. CASE o = "Greater"
        BY <3>1, <3>2, <4>2 DEF Some
      <4>3. CASE o = "Equal"
        BY <3>2, <4>3
      <4> QED BY <3>3, <4>1, <4>2, <4>3 DEF Ordering
    <3> QED BY <3>4, <3>5
  <2>2. CASE MergeOne
    <3>1. /\ (a_next = None) # (b_next = None) /\ peeked' = None
          /\ hand' = IF b_next = None THEN a_next ELSE b_next
      BY <2>2 DEF MergeOne
    <3>2. CASE b_next = None
      BY <1>2, <3>1, <3>2
    <3>3. CASE b_next # None
      BY <1>2, <3>1, <3>3
    <3> QED BY <3>1, <3>2, <3>3
  <2> QED BY <2>1, <2>2
<1>4. Types'
  BY <1>1, <1>2, <1>3 DEF Types
<1> QED BY <1>1, <1>4 DEF AppendInv, Counted

\* The merge ends, or a panic ends it.
LEMMA StepMergeOver ==
  ASSUME AppendInv, MergeEnd \/ MergePanics
  PROVE  AppendInv'
<1>1. /\ Types /\ Counted /\ Built(heap, root, cur) /\ UNCHANGED <<hand, heap, root, length>>
  BY DEF AppendInv, MergeEnd, MergePanics, tree
<1>2. CASE MergeEnd
  <2>1. UNCHANGED <<a, b, peeked>> /\ pc' = "fix" /\ cur' = root
    BY <1>2 DEF MergeEnd, sources
  <2>2. Mended(heap, root, root)
    BY <1>1, BuiltMended
  <2> QED BY <1>1, <2>1, <2>2 DEF AppendInv, Types, Counted
<1>3. CASE MergePanics
  <2>1. a' = <<>> /\ b' = <<>> /\ peeked' = None /\ pc' = "panicked"
    BY <1>3 DEF MergePanics
  <2> QED BY <1>1, <2>1 DEF AppendInv, Types, Counted
<1> QED BY <1>2, <1>3

\* A step that adds one pair to a built tree keeps it counted.
LEMMA StillBuilding ==
  ASSUME Types, UNCHANGED <<a, b, peeked>>, pc' = "merge", length' = length + 1,
         length = PairCount(heap), Built(heap', root', cur'), Tally(heap', heap, 1)
  PROVE  AppendInv'
<1>1. root' \in DOMAIN heap' /\ WellFormed(heap', {root'}) /\ Countable(heap')
  BY DEF Built
<1>2. length' = PairCount(heap')
  BY DEF Tally
<1> QED BY <1>1, <1>2 DEF AppendInv, Types, Counted

\* A pair goes to the open leaf.
LEMMA StepPushLeaf ==
  ASSUME AppendInv, PushLeaf
  PROVE  AppendInv'
<1>1. /\ Types /\ Counted /\ Built(heap, root, cur) /\ hand[1] \in KV
      /\ Len(heap[cur].kv) < CAPACITY /\ heap' = leaf_push(heap, cur, hand[1])
      /\ pc' = "merge" /\ length' = length + 1 /\ UNCHANGED <<a, b, peeked, root, cur>>
  BY DEF AppendInv, Types, PushLeaf, HasRoom, len, sources
<1> DEFINE g == leaf_push(heap, cur, hand[1])
           kv == hand[1]
<1>2. g = leaf_push(heap, cur, kv) /\ kv \in KV
  BY <1>1
<1> HIDE DEF g, kv
<1>3. Built(g, root, cur) /\ Tally(g, heap, 1)
  BY ONLY <1>1, <1>2, PushLeafBuilt
<1>4. heap' = g /\ root' = root /\ cur' = cur
  BY <1>1 DEF g
<1>5. Built(heap', root', cur') /\ Tally(heap', heap, 1)
  BY ONLY <1>3, <1>4
<1> QED BY <1>1, <1>5, StillBuilding DEF Counted

\* A pair goes up, with a new pillar to its right.
LEMMA StepPushUp ==
  ASSUME AppendInv, PushUp
  PROVE  AppendInv'
<1> DEFINE open == OpenNode(heap, cur)
           th == IF open = Nil THEN heap[root].height ELSE heap[open].height - 1
           at == Fresh(heap, th + 2)
           s == SubSeq(at, 1, th + 1)
           kv == hand[1]
           grown == new_pillar(heap, s)
<1>1. /\ Types /\ Counted /\ Built(heap, root, cur) /\ kv \in KV
      /\ ~(Len(heap[cur].kv) < CAPACITY)
      /\ pc' = "merge" /\ length' = length + 1 /\ UNCHANGED <<a, b, peeked>>
  BY DEF AppendInv, Types, PushUp, HasRoom, len, sources
<1>2. /\ CanAllocateAll(heap, th + 2) /\ cur' = at[1]
      /\ open = Nil => /\ root' = at[th + 2]
                       /\ heap' = push_root_level(grown, root, at[th + 2], kv, at[th + 1])
      /\ open # Nil => /\ root' = root
                       /\ heap' = internal_push(grown, open, kv, at[th + 1])
  BY DEF PushUp
<1>3. Free(heap, at) /\ Len(at) = th + 2
  BY <1>2 DEF CanAllocateAll
<1> HIDE DEF at, open, kv
<1>4. /\ root \in DOMAIN heap /\ WellFormed(heap, {root}) /\ Countable(heap) /\ Roomy(heap)
      /\ (heap[root].height = 0 \/ Len(heap[root].kv) >= 1) /\ heap[cur].height = 0
  BY <1>1 DEF Built
<1>5. PICK D : Border(heap, root, D) /\ cur \in D /\ Full(heap, D)
  BY <1>1 DEF Built
<1>6. D \subseteq DOMAIN heap
  BY <1>5 DEF Border
<1>7. \A m \in DOMAIN heap : heap[m].height \in Nat /\ Len(heap[m].kv) \in Nat
  BY <1>4, HeapNode DEF WellFormed
<1>8. IsOpen(heap, D, open)
  <2>1. Bounded(heap)
    BY <1>4, FiniteBounded DEF WellFormed, Countable
  <2>2. Len(heap[cur].kv) >= CAPACITY
    BY <1>1, <1>5, <1>6, <1>7, Minimum
  <2>3. open = OpenNode(heap, cur)
    BY DEF open
  <2> DEFINE q == OpenNode(heap, cur)
  <2>4. IsOpen(heap, D, q)
    BY ONLY <1>4, <1>5, <2>1, <2>2, OpenNodeFound
  <2> QED BY <2>3, <2>4
<1>9. th \in Nat
  <2>1. CASE open = Nil
    BY <1>4, <1>7, <2>1
  <2>2. CASE open # Nil
    <3>1. heap[open].height # 0 /\ heap[open].height \in Nat
      BY <1>6, <1>7, <1>8, <2>2 DEF IsOpen
    <3> QED BY <2>2, <3>1
  <2> QED BY <2>1, <2>2
<1> DEFINE hh == th
<1>10. hh \in Nat /\ Len(at) = hh + 2 /\ s = SubSeq(at, 1, hh + 1)
  BY <1>3, <1>9
<1> HIDE DEF th, hh, s
<1>11. /\ Free(heap, s) /\ Len(s) = hh + 1
       /\ \A i \in 1 .. hh + 1 : s[i] = at[i]
  <2>1. hh + 1 \in 0 .. Len(at)
    BY <1>10
  <2> QED BY <1>3, <1>10, <2>1, FreePrefix
<1>12. /\ at[hh + 2] \in NodeId \ DOMAIN heap /\ \A i \in 1 .. Len(s) : s[i] # at[hh + 2]
       /\ s[1] = at[1] /\ s[Len(s)] = at[hh + 1]
  <2>1. /\ at \in Seq(NodeId \ DOMAIN heap)
        /\ \A i, j \in 1 .. Len(at) : at[i] = at[j] => i = j
    BY <1>3 DEF Free
  <2>2. hh + 2 \in 1 .. Len(at) /\ at[hh + 2] \in NodeId \ DOMAIN heap
    BY <1>10, <2>1
  <2>3. ASSUME NEW i \in 1 .. Len(s)
        PROVE  s[i] # at[hh + 2]
    <3>1. i \in 1 .. Len(at) /\ i # hh + 2 /\ s[i] = at[i]
      BY <1>10, <1>11
    <3> QED BY <2>1, <2>2, <3>1
  <2>4. 1 \in 1 .. hh + 1 /\ hh + 1 \in 1 .. hh + 1
    BY <1>10
  <2> QED BY <1>11, <2>2, <2>3, <2>4
<1> DEFINE new == at[hh + 2]
           e == s[Len(s)]
<1>13. /\ new \in NodeId \ DOMAIN heap /\ \A i \in 1 .. Len(s) : s[i] # new
       /\ cur' = s[1] /\ grown = new_pillar(heap, s)
       /\ open = Nil => root' = new /\ heap' = push_root_level(grown, root, new, kv, e)
       /\ open # Nil => root' = root /\ heap' = internal_push(grown, open, kv, e)
  BY <1>2, <1>12 DEF hh
<1> HIDE DEF grown, new
<1>14. CASE open = Nil
  <2> DEFINE g == push_root_level(new_pillar(heap, s), root, new, kv, s[Len(s)])
  <2>1. heap' = g /\ root' = new
    BY <1>13, <1>14
  <2>2. \A m \in DOMAIN heap : Len(heap[m].kv) >= CAPACITY
    BY <1>5, <1>8, <1>14 DEF IsOpen, Full
  <2>3. Len(s) = heap[root].height + 1
    BY <1>11, <1>14 DEF hh, th
  <2>4. Built(g, new, s[1]) /\ Tally(g, heap, 1)
    BY ONLY <1>1, <1>11, <1>13, <2>2, <2>3, PushUpRoot
  <2> HIDE DEF g
  <2>5. Built(heap', root', cur') /\ Tally(heap', heap, 1)
    BY ONLY <1>13, <2>1, <2>4
  <2> QED BY <1>1, <2>5, StillBuilding DEF Counted
<1>15. CASE open # Nil
  <2> DEFINE g == internal_push(new_pillar(heap, s), open, kv, s[Len(s)])
  <2>1. heap' = g /\ root' = root
    BY <1>13, <1>15
  <2>2. Len(s) = heap[open].height
    <3>1. heap[open].height \in Nat
      BY <1>6, <1>7, <1>8, <1>15 DEF IsOpen
    <3> QED BY <1>11, <1>15, <3>1 DEF hh, th
  <2>3. Built(g, root, s[1]) /\ Tally(g, heap, 1)
    BY ONLY <1>1, <1>4, <1>5, <1>8, <1>11, <1>15, <2>2, PushUpOpen
  <2> HIDE DEF g
  <2>4. Built(heap', root', cur') /\ Tally(heap', heap, 1)
    BY ONLY <1>13, <2>1, <2>3
  <2> QED BY <1>1, <2>4, StillBuilding DEF Counted
<1> QED BY <1>14, <1>15

\* One level of the right border is stocked up.
LEMMA StepFix ==
  ASSUME AppendInv, FixPlentiful
  PROVE  AppendInv'
<1> DEFINE i == Len(heap[cur].kv) - 1
           c == descend(heap, cur, i + 1)
           g == bulk_steal_left(heap, cur, i, MIN_LEN - Len(heap[c].kv))
<1>1. /\ Types /\ Counted /\ Mended(heap, root, cur) /\ heap[cur].height # 0
      /\ pc' = "fix" /\ UNCHANGED <<a, b, peeked, root, length>> /\ cur' = c
      /\ heap' = IF Len(heap[c].kv) >= MIN_LEN THEN heap ELSE g
  BY DEF AppendInv, FixPlentiful, LastKV, RightChild, IsLeaf, len, sources
<1>2. c = LastChild(heap, cur)
  BY <1>1, LastChildren
<1>3. Countable(heap) /\ length = PairCount(heap) /\ PairCount(heap) \in Nat
  BY <1>1, PlacesFinite DEF Counted
<1>4. Mended(heap', root, cur') /\ PairCount(heap') = PairCount(heap)
  <2>1. CASE Len(heap[c].kv) >= MIN_LEN
    <3>1. heap' = heap
      BY <1>1, <2>1
    <3>2. Mended(heap, root, c)
      BY <1>1, <1>2, <2>1, MendPlentiful
    <3> HIDE DEF c
    <3> QED BY <1>1, <3>1, <3>2
  <2>2. CASE ~(Len(heap[c].kv) >= MIN_LEN)
    <3>1. heap' = g
      BY <1>1, <2>2
    <3> DEFINE j == i
    <3>2. j = Len(heap[cur].kv) - 1 /\ c = descend(heap, cur, j + 1)
          /\ g = bulk_steal_left(heap, cur, j, MIN_LEN - Len(heap[c].kv))
      OBVIOUS
    <3> HIDE DEF g, c, i, j
    <3>3. Mended(g, root, c) /\ Tally(g, heap, 0)
      BY ONLY <1>1, <2>2, <3>2, MendSteal
    <3>4. PairCount(g) = PairCount(heap)
      BY <1>3, <3>3 DEF Tally
    <3> QED BY <1>1, <3>1, <3>3, <3>4
  <2> QED BY <2>1, <2>2
<1> HIDE DEF i, c, g
<1>5. Counted'
  BY <1>1, <1>3, <1>4 DEF Counted, Mended
<1> QED BY <1>1, <1>4, <1>5 DEF AppendInv, Types

\* The border is stocked down to the leaf.
LEMMA StepFixDone ==
  ASSUME AppendInv, FixPlentifulDone
  PROVE  AppendInv'
<1>1. /\ Types /\ Counted /\ Mended(heap, root, cur) /\ heap[cur].height = 0
      /\ pc' = "done" /\ UNCHANGED <<a, b, peeked, heap, root, length>>
  BY DEF AppendInv, FixPlentifulDone, IsLeaf, sources, tree
<1>2. LegalLens(heap, {root})
  BY <1>1, MendedLegal
<1> QED BY <1>1, <1>2 DEF AppendInv, Types, Counted

-----------------------------------------------------------------------------
(* The theorems *)

\* Every step keeps AppendInv.
LEMMA AppendInvNext == AppendInv /\ [Next]_vars => AppendInv'
<1> SUFFICES ASSUME AppendInv, [Next]_vars
             PROVE  AppendInv'
  OBVIOUS
<1>1. CASE AppendNothing \/ AppendSwap
  BY <1>1, StepIdle
<1>2. CASE AppendBegin
  BY <1>2, StepBegin
<1>3. CASE MergeCompared \/ MergeOne
  BY <1>3, StepMerge
<1>4. CASE MergeEnd \/ MergePanics
  BY <1>4, StepMergeOver
<1>5. CASE PushLeaf
  BY <1>5, StepPushLeaf
<1>6. CASE PushUp
  BY <1>6, StepPushUp
<1>7. CASE FixPlentiful
  BY <1>7, StepFix
<1>8. CASE FixPlentifulDone
  BY <1>8, StepFixDone
<1>9. CASE UNCHANGED vars
  BY <1>9 DEF vars, AppendInv, Types, Counted
<1> QED BY <1>1, <1>2, <1>3, <1>4, <1>5, <1>6, <1>7, <1>8, <1>9 DEF Next

\* AppendInv holds in every state of a call of append.
THEOREM AppendInvariance == Spec => []AppendInv
<1> QED BY AppendInvInit, AppendInvNext, PTL DEF Spec

\* At every step, and so wherever a panic of the comparator ends the call, self
\* is a tree in which all pairs are counted, so that it can be dropped.
THEOREM AppendStaysDroppable == Spec => []AlwaysDroppable
<1>1. AppendInv => AlwaysDroppable
  BY DEF AppendInv, Counted, AlwaysDroppable
<1> QED BY <1>1, AppendInvariance, PTL

\* The pushes at the right end and the steals of the fix leave no node underfull.
THEOREM AppendIsLegal == Spec => []ResultLegal
<1>1. AppendInv => ResultLegal
  BY DEF AppendInv, ResultLegal
<1> QED BY <1>1, AppendInvariance, PTL

\* fix_right_border_of_plentiful meets its assertion at every level.
THEOREM PlentifulAssertHolds == Spec => []PlentifulAsserts
<1>1. AppendInv => PlentifulAsserts
  <2> SUFFICES ASSUME AppendInv, pc = "fix", heap[cur].height # 0
               PROVE  len(heap, cur) > 0 /\ len(heap, LeftChild) >= 2 * MIN_LEN
    BY DEF PlentifulAsserts, IsLeaf
  <2> DEFINE i == Len(heap[cur].kv) - 1
             l == Len(heap[descend(heap, cur, i)].kv)
  <2>1. Mended(heap, root, cur) /\ WellFormed(heap, {root})
    BY DEF AppendInv, Mended
  <2>2. /\ cur \in DOMAIN heap /\ i \in 0 .. Len(heap[cur].kv) - 1
        /\ l >= 2 * MIN_LEN + 1 /\ l \in Nat
    BY <2>1, LastChildren
  <2>3. Len(heap[cur].kv) \in Nat
    BY <2>1, <2>2, NodeArity
  <2>4. Len(heap[cur].kv) > 0
    BY <2>2, <2>3
  <2>5. l = len(heap, LeftChild)
    BY DEF LeftChild, LastKV, len
  <2> HIDE DEF i, l
  <2>6. l >= 2 * MIN_LEN
    BY <2>2, Minimum
  <2> QED BY <2>4, <2>5, <2>6 DEF len
<1> QED BY <1>1, AppendInvariance, PTL

\* What append builds is a legal map, from which every other operation may go on.
THEOREM AppendLeavesLegalMap ==
  Spec => [](pc = "done" => LegalMap([heap |-> heap, root |-> root, length |-> length]))
<1>1. ASSUME AppendInv, pc = "done"
      PROVE  LegalMap([heap |-> heap, root |-> root, length |-> length])
  <2> DEFINE m == [heap |-> heap, root |-> root, length |-> length]
  <2>1. m.heap = heap /\ m.root = root /\ m.length = length
    OBVIOUS
  <2> HIDE DEF m
  <2>2. LegalMap(m)
    BY <1>1, <2>1 DEF AppendInv, Counted, Countable, LegalMap
  <2> QED BY <2>2 DEF m
<1>2. AppendInv => (pc = "done" => LegalMap([heap |-> heap, root |-> root, length |-> length]))
  BY <1>1
<1> QED BY <1>2, AppendInvariance, PTL
=============================================================================
