---------------------------- MODULE BTreeCloneProofs ----------------------------
(***************************************************************************)
(* A clone at every moment.  The heap is a forest: the source, the         *)
(* unfinished map of every call and the map that a call has returned.  A   *)
(* step writes the root of one of them and nothing below, so that all the  *)
(* other trees keep their pairs and their shapes, and each unfinished map  *)
(* is the clone of a prefix of its node of the source.                     *)
(***************************************************************************)
EXTENDS BTreeClone, BTreeNavigateProofs

-----------------------------------------------------------------------------
(* Trees by what is below their roots *)

\* The nodes T are the same in g and h, and so is everything below them; links
\* to parents may differ.
Matches(g, h, T) ==
  /\ T \subseteq DOMAIN g /\ T \subseteq DOMAIN h
  /\ \A n \in T : /\ g[n].kv = h[n].kv /\ g[n].edges = h[n].edges /\ g[n].height = h[n].height
                  /\ \A i \in 1 .. Len(h[n].edges) : h[n].edges[i] \in T

LEMMA ElementsStep ==
  ASSUME NEW h, NEW tops, Grove(h, tops), NEW n \in DOMAIN h
  PROVE  ElementsBelow(h, n) =
           IF h[n].height = 0 THEN [i \in 1 .. Len(h[n].kv) |-> Handle(n, i - 1)]
           ELSE Between([i \in 1 .. Len(h[n].kv) |-> <<Handle(n, i - 1)>>],
                        [i \in 1 .. Len(h[n].edges) |-> ElementsBelow(h, h[n].edges[i])])
<1>1. WellFormed(h, tops) /\ Bounded(h)
  BY DEF Grove
<1>2. PICK e, l : \A m \in DOMAIN h :
         /\ ElementsBelow(h, m) = e[m] /\ e[m] = StepAt(h, PairsOfLeaf(h), InnerPairs(h), e, m)
         /\ LeafEdges(h, m) = l[m] /\ l[m] = StepAt(h, EdgesOfLeaf(h), NoPairs(h), l, m)
  BY <1>1, OrderSteps
<1>3. \A i \in 1 .. Len(h[n].edges) : h[n].edges[i] \in DOMAIN h
  BY <1>1, WellFormedFacts
<1>4. [i \in 1 .. Len(h[n].edges) |-> e[h[n].edges[i]]]
        = [i \in 1 .. Len(h[n].edges) |-> ElementsBelow(h, h[n].edges[i])]
  BY <1>2, <1>3
<1>5. ElementsBelow(h, n) = StepAt(h, PairsOfLeaf(h), InnerPairs(h), e, n)
  BY <1>2
<1> QED BY <1>4, <1>5 DEF StepAt, PairsOfLeaf, InnerPairs, IsLeaf, len

LEMMA MatchElements ==
  ASSUME NEW h, NEW tops, Grove(h, tops), NEW g, NEW others, Grove(g, others), NEW T, Matches(g, h, T)
  PROVE  \A n \in T : ElementsBelow(g, n) = ElementsBelow(h, n)
<1> DEFINE U == {n \in T : ElementsBelow(g, n) # ElementsBelow(h, n)}
<1>1. SUFFICES ASSUME U # {} PROVE FALSE
  OBVIOUS
<1>2. U \subseteq DOMAIN h
  BY DEF Matches
<1> HIDE DEF U
<1>3. PICK n \in U : \A i \in 1 .. Len(h[n].edges) : h[n].edges[i] \notin U
  BY <1>1, <1>2, LowestOf DEF Grove
<1>4. /\ n \in T /\ n \in DOMAIN h /\ n \in DOMAIN g /\ ElementsBelow(g, n) # ElementsBelow(h, n)
      /\ g[n].kv = h[n].kv /\ g[n].edges = h[n].edges /\ g[n].height = h[n].height
      /\ \A i \in 1 .. Len(h[n].edges) : h[n].edges[i] \in T
  BY <1>3 DEF U, Matches
<1>5. \A i \in 1 .. Len(h[n].edges) : ElementsBelow(g, h[n].edges[i]) = ElementsBelow(h, h[n].edges[i])
  BY <1>3, <1>4 DEF U
<1>6. [i \in 1 .. Len(h[n].edges) |-> ElementsBelow(g, h[n].edges[i])]
        = [i \in 1 .. Len(h[n].edges) |-> ElementsBelow(h, h[n].edges[i])]
  BY <1>5
<1>7. ElementsBelow(h, n) =
           IF h[n].height = 0 THEN [i \in 1 .. Len(h[n].kv) |-> Handle(n, i - 1)]
           ELSE Between([i \in 1 .. Len(h[n].kv) |-> <<Handle(n, i - 1)>>],
                        [i \in 1 .. Len(h[n].edges) |-> ElementsBelow(h, h[n].edges[i])])
  BY <1>4, ElementsStep
<1>8. ElementsBelow(g, n) =
           IF g[n].height = 0 THEN [i \in 1 .. Len(g[n].kv) |-> Handle(n, i - 1)]
           ELSE Between([i \in 1 .. Len(g[n].kv) |-> <<Handle(n, i - 1)>>],
                        [i \in 1 .. Len(g[n].edges) |-> ElementsBelow(g, g[n].edges[i])])
  BY <1>4, ElementsStep
<1> DEFINE eg == [i \in 1 .. Len(h[n].edges) |-> ElementsBelow(g, h[n].edges[i])]
           eh == [i \in 1 .. Len(h[n].edges) |-> ElementsBelow(h, h[n].edges[i])]
           lf == [i \in 1 .. Len(h[n].kv) |-> Handle(n, i - 1)]
           ow == [i \in 1 .. Len(h[n].kv) |-> <<Handle(n, i - 1)>>]
<1>9. ElementsBelow(h, n) = IF h[n].height = 0 THEN lf ELSE Between(ow, eh)
  BY <1>7
<1>10. ElementsBelow(g, n) = IF h[n].height = 0 THEN lf ELSE Between(ow, eg)
  BY <1>4, <1>8
<1>11. eg = eh
  BY <1>6
<1> HIDE DEF eg, eh, lf, ow
<1> QED BY <1>4, <1>9, <1>10, <1>11

LEMMA MatchFirstLeaf ==
  ASSUME NEW h, NEW tops, Grove(h, tops), NEW g, NEW others, Grove(g, others), NEW T, Matches(g, h, T)
  PROVE  \A n \in T : first_leaf_edge(g, n) = first_leaf_edge(h, n)
<1> DEFINE U == {n \in T : first_leaf_edge(g, n) # first_leaf_edge(h, n)}
<1>1. SUFFICES ASSUME U # {} PROVE FALSE
  OBVIOUS
<1>2. U \subseteq DOMAIN h
  BY DEF Matches
<1> HIDE DEF U
<1>3. PICK n \in U : \A i \in 1 .. Len(h[n].edges) : h[n].edges[i] \notin U
  BY <1>1, <1>2, LowestOf DEF Grove
<1>4. /\ n \in T /\ n \in DOMAIN h /\ n \in DOMAIN g /\ first_leaf_edge(g, n) # first_leaf_edge(h, n)
      /\ g[n].kv = h[n].kv /\ g[n].edges = h[n].edges /\ g[n].height = h[n].height
      /\ \A i \in 1 .. Len(h[n].edges) : h[n].edges[i] \in T
  BY <1>3 DEF U, Matches
<1>5. Stepped(h) /\ Stepped(g)
  BY GroveStepped
<1>6. first_leaf_edge(h, n) = IF IsLeaf(h, n) THEN Handle(n, 0)
                              ELSE IF descend(h, n, 0) \in DOMAIN h
                              THEN first_leaf_edge(h, descend(h, n, 0)) ELSE NoHandle
  BY <1>4, <1>5, FirstLeafStep
<1>7. first_leaf_edge(g, n) = IF IsLeaf(g, n) THEN Handle(n, 0)
                              ELSE IF descend(g, n, 0) \in DOMAIN g
                              THEN first_leaf_edge(g, descend(g, n, 0)) ELSE NoHandle
  BY <1>4, <1>5, FirstLeafStep
<1>8. h[n].height # 0
  BY <1>4, <1>6, <1>7 DEF IsLeaf
<1>9. 1 \in 1 .. Len(h[n].edges) /\ 0 + 1 = 1
  BY <1>4, <1>8, NodeArity DEF Grove
<1> DEFINE c == h[n].edges[1]
<1>10. c \in T /\ descend(h, n, 0) = c /\ descend(g, n, 0) = c
  BY <1>4, <1>9 DEF descend
<1>11. c \in DOMAIN h /\ c \in DOMAIN g /\ first_leaf_edge(g, c) = first_leaf_edge(h, c)
  BY <1>3, <1>9, <1>10 DEF U, Matches
<1> QED BY <1>4, <1>6, <1>7, <1>10, <1>11 DEF IsLeaf

-----------------------------------------------------------------------------
(* Shapes *)

\* The shape of m, given those of its children.
FormAt(h, f, m) == <<h[m].kv, [i \in DOMAIN h[m].edges |-> f[h[m].edges[i]]]>>

LEMMA FormSame ==
  ASSUME NEW h, NEW f, NEW g, NEW m,
         \A i \in DOMAIN h[m].edges : f[h[m].edges[i]] = g[h[m].edges[i]]
  PROVE  FormAt(h, f, m) = FormAt(h, g, m)
<1>1. [i \in DOMAIN h[m].edges |-> f[h[m].edges[i]]] = [i \in DOMAIN h[m].edges |-> g[h[m].edges[i]]]
  OBVIOUS
<1> QED BY <1>1 DEF FormAt

LEMMA EdgesOfNode ==
  ASSUME NEW h, NEW tops, WellFormed(h, tops), NEW m \in DOMAIN h
  PROVE  /\ h[m].height \in Nat /\ DOMAIN h[m].edges = 1 .. Len(h[m].edges)
         /\ \A i \in DOMAIN h[m].edges : /\ h[m].edges[i] \in DOMAIN h
                                         /\ h[h[m].edges[i]].height = h[m].height - 1
<1>1. h[m].edges \in Seq(NodeId) /\ h[m].height \in Nat
  BY HeapNode DEF WellFormed
<1>2. DOMAIN h[m].edges = 1 .. Len(h[m].edges)
  BY <1>1
<1>3. \A i \in 1 .. Len(h[m].edges) : /\ h[m].edges[i] \in DOMAIN h
                                      /\ h[h[m].edges[i]].height = h[m].height - 1
  BY WellFormedFacts
<1> QED BY <1>1, <1>2, <1>3

\* Every heap has its shapes: from the leaves up, level by level.
LEMMA FormExists ==
  ASSUME NEW h, NEW tops, WellFormed(h, tops), Bounded(h)
  PROVE  \E f : f = [m \in DOMAIN h |-> FormAt(h, f, m)]
<1> DEFINE Good(k, g) == \A m \in DOMAIN h : h[m].height < k => g[m] = FormAt(h, g, m)
           T == {k \in Nat : ~ \E g : Good(k, g)}
<1>1. \A m \in DOMAIN h : /\ h[m].height \in Nat
                          /\ \A i \in DOMAIN h[m].edges : /\ h[m].edges[i] \in DOMAIN h
                                                          /\ h[h[m].edges[i]].height = h[m].height - 1
  BY EdgesOfNode
<1>2. ASSUME NEW k \in Nat, NEW g, Good(k, g)
      PROVE  \E f : Good(k + 1, f)
  <2> DEFINE f == [m \in DOMAIN h |-> IF h[m].height < k THEN g[m] ELSE FormAt(h, g, m)]
  <2> SUFFICES ASSUME NEW m \in DOMAIN h, h[m].height < k + 1
               PROVE  f[m] = FormAt(h, f, m)
    OBVIOUS
  <2>1. \A i \in DOMAIN h[m].edges : g[h[m].edges[i]] = f[h[m].edges[i]]
    BY <1>1
  <2>2. FormAt(h, g, m) = FormAt(h, f, m)
    <3> HIDE DEF f
    <3> QED BY <2>1, FormSame
  <2>3. f[m] = FormAt(h, g, m)
    BY <1>2
  <2> QED BY <2>2, <2>3
<1>3. T = {}
  <2>1. SUFFICES ASSUME T # {} PROVE FALSE
    OBVIOUS
  <2>2. T \subseteq Nat
    OBVIOUS
  <2> HIDE DEF T
  <2>3. PICK k \in T : \A x \in T : k <= x
    BY <2>1, <2>2, Least
  <2>4. k \in Nat /\ ~ \E g : Good(k, g)
    BY <2>3 DEF T
  <2>5. k # 0
    <3>1. Good(0, h)
      BY <1>1
    <3> QED BY <2>4, <3>1
  <2>6. k - 1 \in Nat /\ k - 1 \notin T
    BY <2>3, <2>4, <2>5
  <2>7. PICK g : Good(k - 1, g)
    BY <2>6 DEF T
  <2>8. k - 1 + 1 = k
    BY <2>4
  <2> HIDE DEF Good
  <2> QED BY <1>2, <2>4, <2>6, <2>7, <2>8
<1>4. PICK top \in Nat : \A n \in DOMAIN h : h[n].height <= top
  BY DEF Bounded
<1>5. PICK g : Good(top + 1, g)
  <2>1. top + 1 \in Nat
    OBVIOUS
  <2> HIDE DEF Good
  <2> QED BY <1>3, <2>1
<1> DEFINE f == [m \in DOMAIN h |-> g[m]]
<1>7. ASSUME NEW m \in DOMAIN h PROVE f[m] = FormAt(h, f, m)
  <2>1. g[m] = FormAt(h, g, m)
    BY <1>1, <1>4, <1>5
  <2>2. \A i \in DOMAIN h[m].edges : g[h[m].edges[i]] = f[h[m].edges[i]]
    BY <1>1
  <2> HIDE DEF f
  <2>3. FormAt(h, g, m) = FormAt(h, f, m)
    BY <2>2, FormSame
  <2> QED BY <2>1, <2>3 DEF f
<1> QED BY <1>7

\* The recursion of Shape.
LEMMA ShapeStep ==
  ASSUME NEW h, NEW tops, Grove(h, tops), NEW n \in DOMAIN h
  PROVE  Shape(h, n) = <<h[n].kv, [i \in 1 .. Len(h[n].edges) |-> Shape(h, h[n].edges[i])]>>
<1> DEFINE Eq(f) == f = [m \in DOMAIN h |->
                           <<h[m].kv, [i \in DOMAIN h[m].edges |-> f[h[m].edges[i]]]>>]
           f == CHOOSE f : Eq(f)
<1>1. WellFormed(h, tops) /\ Bounded(h)
  BY DEF Grove
<1>2. \A m : Shape(h, m) = f[m]
  BY DEF Shape
<1>3. \E g : Eq(g)
  BY <1>1, FormExists DEF FormAt
<1> HIDE DEF Eq
<1>4. Eq(f)
  BY <1>3
<1>5. f = [m \in DOMAIN h |-> FormAt(h, f, m)]
  BY <1>4 DEF Eq, FormAt
<1> HIDE DEF f
<1>6. f[n] = FormAt(h, f, n)
  BY <1>5
<1>7. DOMAIN h[n].edges = 1 .. Len(h[n].edges)
  BY <1>1, EdgesOfNode
<1>8. [i \in 1 .. Len(h[n].edges) |-> f[h[n].edges[i]]] = [i \in 1 .. Len(h[n].edges) |-> Shape(h, h[n].edges[i])]
  BY <1>2
<1> QED BY <1>2, <1>6, <1>7, <1>8 DEF FormAt

LEMMA MatchShapes ==
  ASSUME NEW h, NEW tops, Grove(h, tops), NEW g, NEW others, Grove(g, others), NEW T, Matches(g, h, T)
  PROVE  \A n \in T : Shape(g, n) = Shape(h, n)
<1> DEFINE U == {n \in T : Shape(g, n) # Shape(h, n)}
<1>1. SUFFICES ASSUME U # {} PROVE FALSE
  OBVIOUS
<1>2. U \subseteq DOMAIN h
  BY DEF Matches
<1> HIDE DEF U
<1>3. PICK n \in U : \A i \in 1 .. Len(h[n].edges) : h[n].edges[i] \notin U
  BY <1>1, <1>2, LowestOf DEF Grove
<1>4. /\ n \in T /\ n \in DOMAIN h /\ n \in DOMAIN g /\ Shape(g, n) # Shape(h, n)
      /\ g[n].kv = h[n].kv /\ g[n].edges = h[n].edges
      /\ \A i \in 1 .. Len(h[n].edges) : h[n].edges[i] \in T
  BY <1>3 DEF U, Matches
<1>5. \A i \in 1 .. Len(h[n].edges) : Shape(g, h[n].edges[i]) = Shape(h, h[n].edges[i])
  BY <1>3, <1>4 DEF U
<1>6. [i \in 1 .. Len(h[n].edges) |-> Shape(g, h[n].edges[i])]
        = [i \in 1 .. Len(h[n].edges) |-> Shape(h, h[n].edges[i])]
  BY <1>5
<1>7. Shape(h, n) = <<h[n].kv, [i \in 1 .. Len(h[n].edges) |-> Shape(h, h[n].edges[i])]>>
  BY <1>4, ShapeStep
<1>8. Shape(g, n) = <<h[n].kv, [i \in 1 .. Len(h[n].edges) |-> Shape(g, h[n].edges[i])]>>
  BY <1>4, ShapeStep
<1> QED BY <1>4, <1>6, <1>7, <1>8

\* Nodes with the same pairs and children of the same shapes have the same shape.
LEMMA SameShape ==
  ASSUME NEW h, NEW tops, Grove(h, tops), NEW a \in DOMAIN h, NEW b \in DOMAIN h,
         h[a].kv = h[b].kv, Len(h[a].edges) = Len(h[b].edges),
         \A i \in 1 .. Len(h[a].edges) : Shape(h, h[a].edges[i]) = Shape(h, h[b].edges[i])
  PROVE  Shape(h, a) = Shape(h, b)
<1>1. [i \in 1 .. Len(h[a].edges) |-> Shape(h, h[a].edges[i])]
        = [i \in 1 .. Len(h[b].edges) |-> Shape(h, h[b].edges[i])]
  OBVIOUS
<1>2. Shape(h, a) = <<h[a].kv, [i \in 1 .. Len(h[a].edges) |-> Shape(h, h[a].edges[i])]>>
  BY ShapeStep
<1>3. Shape(h, b) = <<h[b].kv, [i \in 1 .. Len(h[b].edges) |-> Shape(h, h[b].edges[i])]>>
  BY ShapeStep
<1> QED BY <1>1, <1>2, <1>3

-----------------------------------------------------------------------------
(* How many pairs there are below a node *)

\* The stairs of the same steps are the same.
LEMMA SameStairs ==
  ASSUME NEW k \in Nat, NEW m \in Nat, k <= m, NEW off, NEW w, Stairs(k, off, w),
         NEW pos, NEW v, Stairs(m, pos, v), \A j \in 1 .. k + 1 : w[j] = v[j]
  PROVE  \A i \in 0 .. k + 1 : off[i] = pos[i]
<1> DEFINE U == {i \in 0 .. k + 1 : off[i] # pos[i]}
<1>1. SUFFICES ASSUME U # {} PROVE FALSE
  OBVIOUS
<1>2. U \subseteq Nat
  OBVIOUS
<1> HIDE DEF U
<1>3. PICK i \in U : \A x \in U : i <= x
  BY <1>1, <1>2, Least
<1>4. i \in 0 .. k + 1 /\ off[i] # pos[i]
  BY <1>3 DEF U
<1>5. i # 0
  BY <1>4 DEF Stairs
<1>6. PICK c \in Nat : c = i - 1
  BY <1>4, <1>5
<1>7. c \in 0 .. k + 1 /\ c < i /\ i \in 1 .. k + 1 /\ i \in 1 .. m + 1
  BY <1>4, <1>5, <1>6
<1>8. c \notin U
  BY <1>3, <1>4, <1>7
<1>9. off[c] = pos[c]
  BY <1>7, <1>8 DEF U
<1>10. off[i] = off[c] + w[i] + 1 /\ pos[i] = pos[c] + v[i] + 1
  BY <1>6, <1>7 DEF Stairs
<1>11. w[i] = v[i]
  BY <1>7
<1> QED BY <1>4, <1>9, <1>10, <1>11

\* The pairs below an internal node: those of its children and its own.
StepsOf(h, n, off, w) ==
  /\ Stairs(Len(h[n].kv), off, w) /\ Len(ElementsBelow(h, n)) + 1 = off[Len(h[n].kv) + 1]
  /\ Len(h[n].kv) \in Nat /\ Len(ElementsBelow(h, n)) \in Nat

LEMMA CountSteps ==
  ASSUME NEW h, NEW tops, Grove(h, tops), NEW n \in DOMAIN h, h[n].height # 0,
         NEW w, w = [j \in 1 .. Len(h[n].kv) + 1 |-> Len(ElementsBelow(h, h[n].edges[j]))]
  PROVE  \E off : StepsOf(h, n, off, w)
<1>1. Len(h[n].kv) \in Nat /\ Sequences(h, n)
  BY GroveStepped
<1>2. PICK off : LaidOut(h, n, off)
  BY GroveStepped
<1>3. Stairs(Len(h[n].kv), off, [j \in 1 .. Len(h[n].kv) + 1 |-> Len(ElementsBelow(h, h[n].edges[j]))])
  BY <1>2, StairsOf
<1>4. Len(ElementsBelow(h, n)) + 1 = off[Len(h[n].kv) + 1]
  BY <1>2 DEF LaidOut
<1> QED BY <1>1, <1>3, <1>4 DEF Sequences, StepsOf

\* A root without a pair has those of its only child.
LEMMA CountSingle ==
  ASSUME NEW h, NEW tops, Grove(h, tops), NEW n \in DOMAIN h, h[n].height # 0, Len(h[n].kv) = 0
  PROVE  Len(ElementsBelow(h, n)) = Len(ElementsBelow(h, h[n].edges[1]))
<1> DEFINE w == [j \in 1 .. Len(h[n].kv) + 1 |-> Len(ElementsBelow(h, h[n].edges[j]))]
<1>1. PICK off : /\ Stairs(Len(h[n].kv), off, w) /\ Len(ElementsBelow(h, n)) + 1 = off[Len(h[n].kv) + 1]
                 /\ Len(ElementsBelow(h, n)) \in Nat
  <2>1. PICK off : StepsOf(h, n, off, w)
    BY CountSteps
  <2> HIDE DEF w
  <2> QED BY <2>1 DEF StepsOf
<1>2. 1 \in 1 .. Len(h[n].kv) + 1 /\ Len(h[n].kv) + 1 = 1 /\ 1 - 1 = 0
  OBVIOUS
<1>3. w[1] = Len(ElementsBelow(h, h[n].edges[1]))
  BY <1>2
<1> HIDE DEF w
<1>4. w[1] \in Nat /\ off[1] = off[0] + w[1] + 1 /\ off[0] = 0
  BY <1>1, <1>2 DEF Stairs
<1> QED BY <1>1, <1>2, <1>3, <1>4

\* A push at the right end adds a pair and those of the new child.
LEMMA CountPushed ==
  ASSUME NEW h, NEW tops, Grove(h, tops), NEW g, NEW others, Grove(g, others),
         NEW n \in DOMAIN h, n \in DOMAIN g, h[n].height # 0, g[n].height # 0,
         Len(g[n].kv) = Len(h[n].kv) + 1,
         \A j \in 1 .. Len(h[n].kv) + 1 :
           Len(ElementsBelow(g, g[n].edges[j])) = Len(ElementsBelow(h, h[n].edges[j]))
  PROVE  Len(ElementsBelow(g, n))
           = Len(ElementsBelow(h, n)) + 1 + Len(ElementsBelow(g, g[n].edges[Len(h[n].kv) + 2]))
<1> DEFINE k == Len(h[n].kv)
           w == [j \in 1 .. Len(h[n].kv) + 1 |-> Len(ElementsBelow(h, h[n].edges[j]))]
           v == [j \in 1 .. Len(g[n].kv) + 1 |-> Len(ElementsBelow(g, g[n].edges[j]))]
<1>1. PICK off : /\ Stairs(k, off, w) /\ Len(ElementsBelow(h, n)) + 1 = off[k + 1]
                 /\ k \in Nat /\ Len(ElementsBelow(h, n)) \in Nat
  <2>1. PICK off : StepsOf(h, n, off, w)
    BY CountSteps
  <2> HIDE DEF w
  <2> QED BY <2>1 DEF StepsOf
<1>2. PICK pos : /\ Stairs(k + 1, pos, v) /\ Len(ElementsBelow(g, n)) + 1 = pos[k + 1 + 1]
                 /\ Len(ElementsBelow(g, n)) \in Nat
  <2>1. PICK pos : StepsOf(g, n, pos, v)
    BY CountSteps
  <2> HIDE DEF v
  <2> QED BY <2>1 DEF StepsOf
<1>3. \A j \in 1 .. k + 1 : w[j] = v[j]
  BY <1>1
<1>4. v[k + 2] = Len(ElementsBelow(g, g[n].edges[k + 2]))
  BY <1>1
<1>5. k + 1 \in Nat /\ k <= k + 1 /\ k + 1 \in 0 .. k + 1 /\ k + 2 \in 1 .. k + 1 + 1 /\ k + 2 - 1 = k + 1 /\ k + 1 + 1 = k + 2
  BY <1>1
<1> HIDE DEF w, v, k
<1>6. off[k + 1] = pos[k + 1]
  BY <1>1, <1>2, <1>3, <1>5, SameStairs
<1>7. v[k + 2] \in Nat /\ pos[k + 2] = pos[k + 1] + v[k + 2] + 1
  BY <1>2, <1>5 DEF Stairs
<1>8. Len(ElementsBelow(g, n)) + 1 = Len(ElementsBelow(h, n)) + 1 + v[k + 2] + 1
  BY <1>1, <1>2, <1>5, <1>6, <1>7
<1>9. Len(ElementsBelow(g, n)) = Len(ElementsBelow(h, n)) + 1 + v[k + 2]
  BY <1>1, <1>2, <1>7, <1>8
<1> QED BY <1>4, <1>9 DEF k

\* Internal nodes with as many pairs, and as many below each child, have as many below them.
LEMMA CountAlike ==
  ASSUME NEW h, NEW tops, Grove(h, tops), NEW a \in DOMAIN h, NEW b \in DOMAIN h,
         h[a].height # 0, h[b].height # 0, Len(h[a].kv) = Len(h[b].kv),
         \A j \in 1 .. Len(h[a].kv) + 1 :
           Len(ElementsBelow(h, h[a].edges[j])) = Len(ElementsBelow(h, h[b].edges[j]))
  PROVE  Len(ElementsBelow(h, a)) = Len(ElementsBelow(h, b))
<1> DEFINE k == Len(h[a].kv)
           w == [j \in 1 .. Len(h[a].kv) + 1 |-> Len(ElementsBelow(h, h[a].edges[j]))]
           v == [j \in 1 .. Len(h[b].kv) + 1 |-> Len(ElementsBelow(h, h[b].edges[j]))]
<1>1. PICK off : /\ Stairs(k, off, w) /\ Len(ElementsBelow(h, a)) + 1 = off[k + 1]
                 /\ k \in Nat /\ Len(ElementsBelow(h, a)) \in Nat
  <2>1. PICK off : StepsOf(h, a, off, w)
    BY CountSteps
  <2> HIDE DEF w
  <2> QED BY <2>1 DEF StepsOf
<1>2. PICK pos : /\ Stairs(k, pos, v) /\ Len(ElementsBelow(h, b)) + 1 = pos[k + 1]
                 /\ Len(ElementsBelow(h, b)) \in Nat
  <2>1. PICK pos : StepsOf(h, b, pos, v)
    BY CountSteps
  <2> HIDE DEF v
  <2> QED BY <2>1 DEF StepsOf
<1>3. \A j \in 1 .. k + 1 : w[j] = v[j]
  OBVIOUS
<1>4. k <= k /\ k + 1 \in 0 .. k + 1
  BY <1>1
<1> HIDE DEF w, v, k
<1>5. off[k + 1] = pos[k + 1]
  BY <1>1, <1>2, <1>3, <1>4, SameStairs
<1>6. Len(ElementsBelow(h, a)) + 1 = Len(ElementsBelow(h, b)) + 1
  BY ONLY <1>1, <1>2, <1>5
<1>7. Len(ElementsBelow(h, a)) \in Nat /\ Len(ElementsBelow(h, b)) \in Nat
  BY ONLY <1>1, <1>2
<1> QED BY ONLY <1>6, <1>7

\* Trees of the same shape are equally high and have equally many pairs.
LEMMA SameShapeSameSize ==
  ASSUME NEW h, NEW tops, Grove(h, tops)
  PROVE  \A a, b \in DOMAIN h : Shape(h, a) = Shape(h, b) =>
           /\ h[a].height = h[b].height
           /\ Len(ElementsBelow(h, a)) = Len(ElementsBelow(h, b))
<1> DEFINE Alike(a, b) == /\ h[a].height = h[b].height
                          /\ Len(ElementsBelow(h, a)) = Len(ElementsBelow(h, b))
           U == {a \in DOMAIN h : \E b \in DOMAIN h : Shape(h, a) = Shape(h, b) /\ ~Alike(a, b)}
<1>1. SUFFICES ASSUME U # {} PROVE FALSE
  OBVIOUS
<1>2. U \subseteq DOMAIN h /\ WellFormed(h, tops) /\ Bounded(h)
  BY DEF Grove
<1> HIDE DEF U
<1>3. PICK a \in U : \A i \in 1 .. Len(h[a].edges) : h[a].edges[i] \notin U
  BY <1>1, <1>2, LowestOf
<1>4. a \in DOMAIN h /\ \E b \in DOMAIN h : Shape(h, a) = Shape(h, b) /\ ~Alike(a, b)
  BY <1>3 DEF U
<1>5. PICK b \in DOMAIN h : Shape(h, a) = Shape(h, b) /\ ~Alike(a, b)
  BY <1>4
<1> DEFINE fa == [i \in 1 .. Len(h[a].edges) |-> Shape(h, h[a].edges[i])]
           fb == [i \in 1 .. Len(h[b].edges) |-> Shape(h, h[b].edges[i])]
<1>6. Shape(h, a) = <<h[a].kv, fa>> /\ Shape(h, b) = <<h[b].kv, fb>>
  BY <1>4, ShapeStep
<1>7. h[a].kv = h[b].kv /\ fa = fb
  <2> HIDE DEF fa, fb, Alike
  <2>1. <<h[a].kv, fa>> = <<h[b].kv, fb>>
    BY <1>5, <1>6
  <2> QED BY ONLY <2>1
<1>8. Len(h[a].edges) \in Nat /\ Len(h[b].edges) \in Nat
  BY <1>2, <1>4, NodeArity
<1>9. DOMAIN fa = 1 .. Len(h[a].edges) /\ DOMAIN fb = 1 .. Len(h[b].edges)
  OBVIOUS
<1>10. Len(h[a].edges) = Len(h[b].edges)
  <2>1. 1 .. Len(h[a].edges) = 1 .. Len(h[b].edges)
    BY ONLY <1>7, <1>9
  <2> QED BY ONLY <1>8, <2>1, SMT
<1>11. \A i \in 1 .. Len(h[a].edges) : Shape(h, h[a].edges[i]) = Shape(h, h[b].edges[i])
  <2> TAKE i \in 1 .. Len(h[a].edges)
  <2>1. fa[i] = Shape(h, h[a].edges[i])
    OBVIOUS
  <2>2. fb[i] = Shape(h, h[b].edges[i])
    BY <1>10
  <2> HIDE DEF fa, fb
  <2> QED BY <1>7, <2>1, <2>2
<1>12. \A i \in 1 .. Len(h[a].edges) : /\ h[a].edges[i] \in DOMAIN h /\ h[h[a].edges[i]].height = h[a].height - 1
                                       /\ h[b].edges[i] \in DOMAIN h /\ h[h[b].edges[i]].height = h[b].height - 1
  BY <1>2, <1>4, <1>10, WellFormedFacts
<1>13. \A i \in 1 .. Len(h[a].edges) : Alike(h[a].edges[i], h[b].edges[i])
  <2> HIDE DEF Alike
  <2> QED BY <1>3, <1>11, <1>12 DEF U
<1>14. /\ h[a].height \in Nat /\ h[b].height \in Nat /\ Len(h[a].kv) \in Nat
       /\ h[a].height = 0 => Len(h[a].edges) = 0
       /\ h[a].height # 0 => Len(h[a].edges) = Len(h[a].kv) + 1
       /\ h[b].height = 0 => Len(h[b].edges) = 0
       /\ h[b].height # 0 => Len(h[b].edges) = Len(h[b].kv) + 1
  BY <1>2, <1>4, NodeArity
<1>15. CASE h[a].height = 0
  <2>1. h[b].height = 0
    BY <1>7, <1>10, <1>14, <1>15
  <2>2. Len(ElementsBelow(h, a)) = Len(h[a].kv) /\ Len(ElementsBelow(h, b)) = Len(h[b].kv)
    BY <1>2, <1>4, <1>15, <2>1, LeafSequences
  <2> QED BY <1>5, <1>7, <1>15, <2>1, <2>2
<1>16. CASE h[a].height # 0
  <2>1. h[b].height # 0 /\ Len(h[a].edges) = Len(h[a].kv) + 1 /\ 1 \in 1 .. Len(h[a].edges)
    BY <1>7, <1>10, <1>14, <1>16
  <2>2. h[a].height = h[b].height
    BY <1>12, <1>13, <1>14, <2>1
  <2>3. \A i \in 1 .. Len(h[a].kv) + 1 :
          Len(ElementsBelow(h, h[a].edges[i])) = Len(ElementsBelow(h, h[b].edges[i]))
    BY <1>13, <2>1
  <2>4. Len(h[a].kv) = Len(h[b].kv)
    BY <1>7
  <2>5. Len(ElementsBelow(h, a)) = Len(ElementsBelow(h, b))
    <3> HIDE DEF Alike, fa, fb
    <3> QED BY <1>4, <1>16, <2>1, <2>3, <2>4, CountAlike
  <2> QED BY <1>5, <2>2, <2>5
<1> QED BY <1>15, <1>16

-----------------------------------------------------------------------------
(* One tree of a forest *)

\* S has with a node its parent and its children.
Whole(h, S) ==
  /\ S \subseteq DOMAIN h
  /\ \A n \in S : /\ h[n].parent # Nil => h[n].parent \in S
                  /\ \A i \in 1 .. Len(h[n].edges) : h[n].edges[i] \in S

Part(g, h, S) == Whole(h, S) /\ g = [m \in S |-> h[m]]

\* T is the tree with the root r.
TreeOf(h, r, T) == Whole(h, T) /\ r \in T /\ \A n \in T : h[n].parent = Nil <=> n = r

LEMMA PartGrove ==
  ASSUME NEW h, NEW tops, Grove(h, tops), NEW S, NEW g, Part(g, h, S)
  PROVE  Grove(g, tops) /\ Matches(g, h, S) /\ DOMAIN g = S /\ \A n \in S : g[n] = h[n]
<1>1. WellFormed(h, tops) /\ Bounded(h) /\ Roomy(h) /\ HeapType(h) /\ Nil \notin DOMAIN h
  BY GroveStepped DEF WellFormed
<1>2. S \subseteq DOMAIN h /\ DOMAIN g = S /\ \A n \in S : g[n] = h[n]
  BY DEF Part, Whole
<1>3. \A n \in S : \A i \in 1 .. Len(h[n].edges) :
        /\ h[n].edges[i] \in S /\ h[h[n].edges[i]].height = h[n].height - 1
        /\ h[h[n].edges[i]].parent = n /\ h[h[n].edges[i]].parent_idx = i - 1
  BY <1>1, <1>2, WellFormedFacts DEF Part, Whole
<1>4. Down(h, S) /\ \A n \in S : \A i \in 1 .. Len(h[n].edges) : LinkOK(h, n, i)
  BY <1>3 DEF Down, LinkOK
<1>5. Arity(h, S)
  BY <1>1, <1>2, NodeArity DEF Arity
<1>6. \A n \in S \cap tops : h[n].parent = Nil
  BY <1>1, <1>2, WellFormedFacts
<1>7. ASSUME NEW n \in S \ tops
      PROVE  \E m \in S : \E i \in 1 .. Len(h[m].edges) : h[m].edges[i] = n
  <2>1. /\ h[n].parent \in DOMAIN h /\ h[n].parent_idx + 1 \in 1 .. Len(h[h[n].parent].edges)
        /\ h[h[n].parent].edges[h[n].parent_idx + 1] = n
    BY <1>1, <1>2, WellFormedFacts
  <2>2. h[n].parent \in S
    BY <1>1, <2>1 DEF Part, Whole
  <2> QED BY <2>1, <2>2
<1>8. Covered(h, S, tops)
  BY <1>7 DEF Covered
<1>9. WellFormed(g, tops)
  <2>1. g = [m \in S |-> h[m]]
    BY DEF Part
  <2> QED BY <1>1, <1>2, <1>4, <1>5, <1>6, <1>8, <2>1, LinkedWellFormed
<1>10. Bounded(g) /\ Roomy(g)
  BY <1>1, <1>2 DEF Bounded, Roomy
<1>11. Matches(g, h, S)
  BY <1>2, <1>3 DEF Matches
<1> QED BY <1>2, <1>9, <1>10, <1>11 DEF Grove

\* Every root has its tree: the nodes from which the way up leads to it.
LEMMA TreeExists ==
  ASSUME NEW h, NEW tops, Grove(h, tops), NEW r \in DOMAIN h, r \in tops
  PROVE  \E T : TreeOf(h, r, T)
<1> DEFINE T == {n \in DOMAIN h : r \in Pile(h, n)}
<1>1. WellFormed(h, tops) /\ Stepped(h) /\ Nil \notin DOMAIN h
  BY GroveStepped
<1>2. \A n \in DOMAIN h : Pile(h, n) = {n} \cup (IF h[n].parent = Nil THEN {} ELSE Pile(h, h[n].parent))
  BY <1>1, PileStep
<1>3. h[r].parent = Nil
  BY <1>1, WellFormedFacts
<1>4. r \in T
  BY <1>2
<1>5. \A n \in T : h[n].parent = Nil <=> n = r
  BY <1>2, <1>3
<1>6. \A n \in DOMAIN h : h[n].parent # Nil => h[n].parent \in DOMAIN h
  BY <1>1, WellFormedFacts
<1>7. \A n \in T : h[n].parent # Nil => h[n].parent \in T
  BY <1>2, <1>3, <1>6
<1>8. ASSUME NEW n \in T, NEW i \in 1 .. Len(h[n].edges)
      PROVE  h[n].edges[i] \in T
  <2> DEFINE c == h[n].edges[i]
  <2>1. n \in DOMAIN h /\ r \in Pile(h, n)
    OBVIOUS
  <2>2. c \in DOMAIN h /\ h[c].parent = n
    BY <1>1, <2>1, WellFormedFacts
  <2>3. Pile(h, c) = {c} \cup Pile(h, n)
    BY <1>1, <1>2, <2>1, <2>2
  <2> QED BY <2>1, <2>2, <2>3
<1>9. T \subseteq DOMAIN h
  OBVIOUS
<1> HIDE DEF T
<1> QED BY <1>4, <1>5, <1>7, <1>8, <1>9 DEF TreeOf, Whole

\* What is outside of a tree is a forest too.
LEMMA RestWhole ==
  ASSUME NEW h, NEW tops, Grove(h, tops), NEW S, Whole(h, S)
  PROVE  Whole(h, DOMAIN h \ S)
<1>1. WellFormed(h, tops) /\ Nil \notin DOMAIN h
  BY GroveStepped
<1>2. S \subseteq DOMAIN h
  BY DEF Whole
<1>3. ASSUME NEW n \in DOMAIN h \ S, h[n].parent # Nil
      PROVE  h[n].parent \in DOMAIN h \ S
  <2>1. /\ h[n].parent \in DOMAIN h /\ h[n].parent_idx + 1 \in 1 .. Len(h[h[n].parent].edges)
        /\ h[h[n].parent].edges[h[n].parent_idx + 1] = n
    BY <1>1, <1>3, WellFormedFacts
  <2>2. h[n].parent \in S => n \in S
    BY <2>1 DEF Whole
  <2> QED BY <2>1, <2>2
<1>4. ASSUME NEW n \in DOMAIN h \ S, NEW i \in 1 .. Len(h[n].edges)
      PROVE  h[n].edges[i] \in DOMAIN h \ S
  <2>1. h[n].edges[i] \in DOMAIN h /\ h[h[n].edges[i]].parent = n
    BY <1>1, WellFormedFacts
  <2>2. h[n].edges[i] \in S => n \in S
    BY <1>1, <2>1 DEF Whole
  <2> QED BY <2>1, <2>2
<1> QED BY <1>3, <1>4 DEF Whole

LEMMA TreeAlone ==
  ASSUME NEW h, NEW tops, Grove(h, tops), NEW r, NEW T, TreeOf(h, r, T), NEW g, Part(g, h, T)
  PROVE  OneTree(g, r) /\ Matches(g, h, T) /\ DOMAIN g = T /\ \A n \in T : g[n] = h[n]
<1>1. Grove(g, tops) /\ Matches(g, h, T) /\ DOMAIN g = T /\ \A n \in T : g[n] = h[n]
  BY PartGrove
<1>2. r \in T /\ \A n \in T : h[n].parent = Nil <=> n = r
  BY DEF TreeOf
<1>3. WellFormed(h, tops) /\ Nil \notin DOMAIN h /\ T \subseteq DOMAIN h
  BY GroveStepped DEF TreeOf, Whole
<1>4. \A n \in T : n \in tops <=> n = r
  BY <1>2, <1>3, WellFormedFacts
<1>5. WellFormed(g, tops) /\ tops \cap DOMAIN g = {r} \cap DOMAIN g
  BY <1>1, <1>2, <1>4 DEF Grove
<1>6. WellFormed(g, {r})
  BY <1>5, TopsExt
<1> QED BY <1>1, <1>2, <1>6 DEF OneTree, Grove

-----------------------------------------------------------------------------
(* The walks of a drop stay in its tree *)

LEMMA PartSpots ==
  ASSUME NEW h, NEW tops, Grove(h, tops), NEW S, NEW g, Part(g, h, S), NEW x \in Handles(g)
  PROVE  /\ x \in Handles(h) /\ x.node \in S /\ len(g, x.node) = len(h, x.node)
         /\ g[x.node].parent = h[x.node].parent /\ ascend(g, x.node) = ascend(h, x.node)
         /\ Stepped(g) /\ Stepped(h)
         /\ h[x.node].parent # Nil => ascend(h, x.node) \in Handles(g)
<1>1. Grove(g, tops) /\ DOMAIN g = S /\ (\A n \in S : g[n] = h[n]) /\ S \subseteq DOMAIN h
  BY PartGrove DEF Part, Whole
<1>2. Stepped(g) /\ Stepped(h)
  BY <1>1, GroveStepped
<1>3. x.node \in DOMAIN g /\ x \in Handles(h)
  BY <1>1 DEF Handles
<1>4. g[x.node] = h[x.node]
  BY <1>1, <1>3
<1>5. h[x.node].parent # Nil => h[x.node].parent \in DOMAIN g /\ h[x.node].parent_idx \in 0 .. CAPACITY
  BY <1>2, <1>3, <1>4 DEF Stepped
<1>6. h[x.node].parent # Nil => ascend(h, x.node) \in Handles(g)
  BY <1>5 DEF ascend, Handle, Handles
<1> QED BY <1>1, <1>2, <1>3, <1>4, <1>6 DEF len, ascend

LEMMA PartNextKv ==
  ASSUME NEW h, NEW tops, Grove(h, tops), NEW S, NEW g, Part(g, h, S)
  PROVE  \A x \in Handles(g) : next_kv(g, x) = next_kv(h, x)
<1> DEFINE T == {x \in Handles(g) : next_kv(g, x) # next_kv(h, x)}
<1>1. SUFFICES ASSUME T # {} PROVE FALSE
  OBVIOUS
<1>2. T \subseteq Handles(g) /\ Stepped(g)
  BY PartGrove, GroveStepped
<1> HIDE DEF T
<1>3. PICK x \in T : g[x.node].parent = Nil \/ ascend(g, x.node) \notin T
  BY <1>1, <1>2, HighestSpot
<1>4. x \in Handles(g) /\ next_kv(g, x) # next_kv(h, x)
  BY <1>3 DEF T
<1>5. /\ x \in Handles(h) /\ len(g, x.node) = len(h, x.node)
      /\ g[x.node].parent = h[x.node].parent /\ ascend(g, x.node) = ascend(h, x.node)
      /\ Stepped(g) /\ Stepped(h)
      /\ h[x.node].parent # Nil => ascend(h, x.node) \in Handles(g)
  BY <1>4, PartSpots
<1>6. g[x.node].parent # Nil => next_kv(g, ascend(g, x.node)) = next_kv(h, ascend(h, x.node))
  BY <1>3, <1>5 DEF T
<1>7. next_kv(g, x) = IF x.idx < len(g, x.node) THEN x
                      ELSE IF g[x.node].parent # Nil THEN next_kv(g, ascend(g, x.node)) ELSE NoHandle
  BY <1>4, <1>5, NextKvStep
<1>8. next_kv(h, x) = IF x.idx < len(h, x.node) THEN x
                      ELSE IF h[x.node].parent # Nil THEN next_kv(h, ascend(h, x.node)) ELSE NoHandle
  BY <1>5, NextKvStep
<1> QED BY <1>4, <1>5, <1>6, <1>7, <1>8

LEMMA PartLeftBehind ==
  ASSUME NEW h, NEW tops, Grove(h, tops), NEW S, NEW g, Part(g, h, S)
  PROVE  \A x \in Handles(g) : LeftBehind(g, x) = LeftBehind(h, x)
<1> DEFINE T == {x \in Handles(g) : LeftBehind(g, x) # LeftBehind(h, x)}
<1>1. SUFFICES ASSUME T # {} PROVE FALSE
  OBVIOUS
<1>2. T \subseteq Handles(g) /\ Stepped(g)
  BY PartGrove, GroveStepped
<1> HIDE DEF T
<1>3. PICK x \in T : g[x.node].parent = Nil \/ ascend(g, x.node) \notin T
  BY <1>1, <1>2, HighestSpot
<1>4. x \in Handles(g) /\ LeftBehind(g, x) # LeftBehind(h, x)
  BY <1>3 DEF T
<1>5. /\ x \in Handles(h) /\ len(g, x.node) = len(h, x.node)
      /\ g[x.node].parent = h[x.node].parent /\ ascend(g, x.node) = ascend(h, x.node)
      /\ Stepped(g) /\ Stepped(h)
      /\ h[x.node].parent # Nil => ascend(h, x.node) \in Handles(g)
  BY <1>4, PartSpots
<1>6. g[x.node].parent # Nil => LeftBehind(g, ascend(g, x.node)) = LeftBehind(h, ascend(h, x.node))
  BY <1>3, <1>5 DEF T
<1>7. LeftBehind(g, x) = IF x.idx < len(g, x.node) THEN {}
                         ELSE {x.node} \cup (IF g[x.node].parent = Nil THEN {}
                                             ELSE LeftBehind(g, ascend(g, x.node)))
  BY <1>4, <1>5, LeftBehindStep
<1>8. LeftBehind(h, x) = IF x.idx < len(h, x.node) THEN {}
                         ELSE {x.node} \cup (IF h[x.node].parent = Nil THEN {}
                                             ELSE LeftBehind(h, ascend(h, x.node)))
  BY <1>5, LeftBehindStep
<1> QED BY <1>4, <1>5, <1>6, <1>7, <1>8

LEMMA PartPile ==
  ASSUME NEW h, NEW tops, Grove(h, tops), NEW S, NEW g, Part(g, h, S)
  PROVE  \A n \in S : Pile(g, n) = Pile(h, n)
<1> DEFINE T == {n \in S : Pile(g, n) # Pile(h, n)}
<1>1. SUFFICES ASSUME T # {} PROVE FALSE
  OBVIOUS
<1>2. WellFormed(h, tops) /\ Bounded(h) /\ Stepped(h)
  BY GroveStepped
<1>3. /\ Grove(g, tops) /\ Stepped(g) /\ DOMAIN g = S /\ (\A n \in S : g[n] = h[n]) /\ S \subseteq DOMAIN h
      /\ \A n \in S : h[n].parent # Nil => h[n].parent \in S
  BY PartGrove, GroveStepped DEF Part, Whole
<1>4. T \subseteq DOMAIN h
  BY <1>3
<1> HIDE DEF T
<1>5. PICK n \in T : n \in tops \/ h[n].parent \notin T
  BY <1>1, <1>2, <1>4, HighestOf
<1>6. n \in S /\ n \in DOMAIN h /\ g[n] = h[n] /\ Pile(g, n) # Pile(h, n)
  BY <1>3, <1>5 DEF T
<1>7. Pile(g, n) = {n} \cup (IF g[n].parent = Nil THEN {} ELSE Pile(g, g[n].parent))
  BY <1>3, <1>6, PileStep
<1>8. Pile(h, n) = {n} \cup (IF h[n].parent = Nil THEN {} ELSE Pile(h, h[n].parent))
  BY <1>2, <1>6, PileStep
<1>9. n \in tops => h[n].parent = Nil
  BY <1>2, <1>6, WellFormedFacts
<1>10. h[n].parent # Nil => Pile(g, h[n].parent) = Pile(h, h[n].parent)
  BY <1>3, <1>5, <1>6, <1>9 DEF T
<1> QED BY <1>6, <1>7, <1>8, <1>10

\* The edges that the drop of a tree comes by are its leaf edges in order.
LEMMA DropWalk ==
  ASSUME NEW h, NEW tops, Grove(h, tops), NEW r, NEW T, TreeOf(h, r, T), NEW g, Part(g, h, T),
         NEW N, N = Len(ElementsBelow(g, r)),
         NEW L, L = LeafEdges(g, r)
  PROVE  /\ L[1] = first_leaf_edge(h, r)
         /\ \A i \in 1 .. N : next_leaf_edge(h, next_kv(h, L[i])) = L[i + 1]
         /\ \A i \in 1 .. N + 1 : /\ LeftBehind(h, L[i]) = LeftBehind(g, L[i])
                                  /\ Pile(h, L[i].node) = Pile(g, L[i].node)
         /\ N \in Nat
<1>1. OneTree(g, r) /\ Matches(g, h, T) /\ DOMAIN g = T /\ (\A n \in T : g[n] = h[n]) /\ T \subseteq DOMAIN h
  BY TreeAlone DEF TreeOf, Whole
<1>2. Grove(g, {r}) /\ r \in T
  BY <1>1 DEF OneTree
<1>3. Ordered(g, ElementsBelow(g, r), L, N) /\ L[1] = first_leaf_edge(g, r)
  BY <1>1, RootOrdered
<1>4. L[1] = first_leaf_edge(h, r)
  BY <1>1, <1>2, <1>3, MatchFirstLeaf
<1>5. N \in Nat /\ \A i \in 1 .. N + 1 : LeafEdge(g, L[i])
  BY <1>3 DEF Ordered
<1>6. \A i \in 1 .. N + 1 : L[i] \in Handles(g) /\ L[i].node \in T
  <2> TAKE i \in 1 .. N + 1
  <2>1. L[i] \in [node : DOMAIN g, idx : Nat] /\ L[i].idx <= Len(g[L[i].node].kv)
    BY <1>5 DEF LeafEdge, EdgeOf
  <2>2. Len(g[L[i].node].kv) <= CAPACITY /\ Len(g[L[i].node].kv) \in Nat
    BY <1>2, <2>1, GroveStepped
  <2>3. L[i].idx \in 0 .. CAPACITY
    BY <2>1, <2>2, Minimum
  <2> QED BY <1>1, <2>1, <2>3 DEF Handles
<1>7. \A i \in 1 .. N + 1 : /\ LeftBehind(h, L[i]) = LeftBehind(g, L[i])
                            /\ Pile(h, L[i].node) = Pile(g, L[i].node)
  BY <1>6, PartLeftBehind, PartPile
<1>8. ASSUME NEW i \in 1 .. N
      PROVE  next_leaf_edge(h, next_kv(h, L[i])) = L[i + 1]
  <2> DEFINE x == ElementsBelow(g, r)[i]
             n == x.node
  <2>1. /\ next_kv(g, L[i]) = x /\ next_leaf_edge(g, x) = L[i + 1] /\ PairIn(g, x)
    BY <1>3 DEF Ordered, Linked
  <2>2. i \in 1 .. N + 1
    BY <1>5
  <2>3. next_kv(h, L[i]) = x
    BY <1>6, <2>1, <2>2, PartNextKv
  <2>4. n \in T /\ x.idx \in Nat /\ x.idx < Len(g[n].kv)
    BY <1>1, <2>1 DEF PairIn
  <2>5. g[n] = h[n] /\ n \in DOMAIN g
    BY <1>1, <2>4
  <2>6. ASSUME h[n].height # 0
        PROVE  first_leaf_edge(h, h[n].edges[x.idx + 1 + 1]) = first_leaf_edge(g, h[n].edges[x.idx + 1 + 1])
    <3>1. Len(g[n].edges) = Len(g[n].kv) + 1 /\ Len(g[n].kv) \in Nat
      BY <1>2, <2>5, <2>6, NodeArity DEF Grove
    <3>2. x.idx + 1 + 1 \in 1 .. Len(h[n].edges)
      BY <2>4, <2>5, <3>1
    <3>3. h[n].edges[x.idx + 1 + 1] \in T
      BY <1>1, <2>4, <3>2 DEF Matches
    <3> QED BY <1>1, <1>2, <3>3, MatchFirstLeaf
  <2> HIDE DEF x, n
  <2>7. next_leaf_edge(h, x) = next_leaf_edge(g, x)
    BY <2>5, <2>6 DEF next_leaf_edge, IsLeaf, descend, n
  <2> QED BY <2>1, <2>3, <2>7
<1> QED BY <1>4, <1>5, <1>7, <1>8

\* A drop frees the nodes of its tree and no others.
LEMMA DropFreesTree ==
  ASSUME NEW h, NEW tops, Grove(h, tops), NEW r, NEW T, TreeOf(h, r, T)
  PROVE  drop_map(h, r, Len(ElementsBelow(h, r))) = DeallocateAll(h, T)
<1> DEFINE g == [m \in T |-> h[m]]
           N == Len(ElementsBelow(h, r))
           L == LeafEdges(g, r)
           Eq(f) == f = [i \in 0 .. N |-> IF i = 0 THEN first_leaf_edge(h, r)
                                          ELSE next_leaf_edge(h, next_kv(h, f[i - 1]))]
           e == CHOOSE f : Eq(f)
<1>1. Part(g, h, T) /\ T \subseteq DOMAIN h /\ r \in T
  BY DEF Part, TreeOf, Whole
<1> HIDE DEF g
<1>2. OneTree(g, r) /\ Matches(g, h, T) /\ DOMAIN g = T
  BY <1>1, TreeAlone
<1>3. ElementsBelow(g, r) = ElementsBelow(h, r)
  BY <1>1, <1>2, MatchElements DEF OneTree
<1>4. /\ L[1] = first_leaf_edge(h, r)
      /\ \A i \in 1 .. N : next_leaf_edge(h, next_kv(h, L[i])) = L[i + 1]
      /\ \A i \in 1 .. N + 1 : /\ LeftBehind(h, L[i]) = LeftBehind(g, L[i])
                               /\ Pile(h, L[i].node) = Pile(g, L[i].node)
      /\ N \in Nat
  BY <1>1, <1>3, DropWalk
<1> HIDE DEF L, N
<1>5. \A i \in 0 .. N : i # 0 => next_leaf_edge(h, next_kv(h, L[i - 1 + 1])) = L[i + 1]
  <2> TAKE i \in 0 .. N
  <2> HAVE i # 0
  <2>1. i - 1 + 1 = i /\ i \in 1 .. N
    BY <1>4
  <2> QED BY <1>4, <2>1
<1>6. \E f : Eq(f)
  <2> DEFINE w == [i \in 0 .. N |-> L[i + 1]]
  <2>1. \A i \in 0 .. N : w[i] = IF i = 0 THEN first_leaf_edge(h, r)
                                 ELSE next_leaf_edge(h, next_kv(h, w[i - 1]))
    BY <1>4, <1>5
  <2>2. w = [i \in 0 .. N |-> w[i]]
    OBVIOUS
  <2> HIDE DEF w
  <2>3. Eq(w)
    BY <2>1, <2>2
  <2> QED BY <2>3
<1>7. Eq(e)
  <2> HIDE DEF Eq
  <2> QED BY <1>6
<1>8. drop_map(h, r, N) = DeallocateAll(h, (UNION {LeftBehind(h, e[i]) : i \in 0 .. N - 1}) \cup Pile(h, e[N].node))
  BY DEF drop_map
<1> HIDE DEF e
<1>9. \A i \in 0 .. N : e[i] = IF i = 0 THEN first_leaf_edge(h, r)
                               ELSE next_leaf_edge(h, next_kv(h, e[i - 1]))
  BY <1>7
<1> HIDE DEF Eq
<1>10. \A i \in 0 .. N : e[i] = L[i + 1]
  <2> DEFINE U == {i \in 0 .. N : e[i] # L[i + 1]}
  <2>1. SUFFICES ASSUME U # {} PROVE FALSE
    OBVIOUS
  <2>2. U \subseteq Nat
    OBVIOUS
  <2> HIDE DEF U
  <2>3. PICK i \in U : \A x \in U : i <= x
    BY <2>1, <2>2, Least
  <2>4. i \in 0 .. N /\ e[i] # L[i + 1]
    BY <2>3 DEF U
  <2>5. i # 0
    BY <1>4, <1>9, <2>4
  <2>6. PICK c \in Nat : c = i - 1
    BY <2>4, <2>5
  <2>7. c \in 0 .. N /\ c < i
    BY <1>4, <2>4, <2>6
  <2>8. c \notin U
    BY <2>3, <2>4, <2>7
  <2>9. e[c] = L[c + 1]
    BY <2>7, <2>8 DEF U
  <2>10. e[i] = next_leaf_edge(h, next_kv(h, e[c]))
    BY <1>9, <2>4, <2>5, <2>6
  <2>11. next_leaf_edge(h, next_kv(h, L[c + 1])) = L[i + 1]
    BY <1>5, <2>4, <2>5, <2>6
  <2> QED BY <2>4, <2>9, <2>10, <2>11
<1>11. \A i \in 0 .. N : /\ LeftBehind(h, e[i]) = {m \in T : LastAt(g, r, m) = i}
                         /\ Pile(h, e[i].node) = NodesAt(g, r, i)
  <2> TAKE i \in 0 .. N
  <2>1. i + 1 \in 1 .. N + 1 /\ i \in 0 .. Len(ElementsBelow(g, r))
    BY <1>3, <1>4 DEF N
  <2>2. LeftBehind(g, L[i + 1]) = {m \in DOMAIN g : LastAt(g, r, m) = i}
    BY <1>2, <2>1, LeftBehindIs DEF L
  <2>3. Pile(g, L[i + 1].node) = NodesAt(g, r, i)
    BY <1>2, <2>1, PileIs DEF L
  <2> QED BY <1>2, <1>4, <1>10, <2>1, <2>2, <2>3
<1>12. \A m \in T : /\ FirstAt(g, r, m) \in Nat /\ LastAt(g, r, m) \in Nat
                    /\ FirstAt(g, r, m) <= LastAt(g, r, m) /\ LastAt(g, r, m) <= N
  BY <1>2, <1>3, NodeSpan DEF N
<1>13. N \in 0 .. N /\ \A i \in 0 .. N - 1 : i \in 0 .. N
  BY <1>4
<1>14. Pile(h, e[N].node) = {m \in T : FirstAt(g, r, m) <= N /\ N <= LastAt(g, r, m)}
  BY <1>2, <1>11, <1>13 DEF NodesAt
<1>15. (UNION {LeftBehind(h, e[i]) : i \in 0 .. N - 1}) \cup Pile(h, e[N].node) = T
  <2>1. \A i \in 0 .. N - 1 : LeftBehind(h, e[i]) \subseteq T
    BY <1>11, <1>13
  <2>2. ASSUME NEW m \in T
        PROVE  m \in (UNION {LeftBehind(h, e[i]) : i \in 0 .. N - 1}) \cup Pile(h, e[N].node)
    <3>1. CASE LastAt(g, r, m) = N
      <4>1. FirstAt(g, r, m) <= N /\ N <= LastAt(g, r, m)
        BY <1>12, <3>1
      <4> QED BY <1>14, <4>1
    <3>2. CASE LastAt(g, r, m) # N
      <4>1. LastAt(g, r, m) \in 0 .. N - 1
        BY <1>4, <1>12, <3>2
      <4>2. m \in LeftBehind(h, e[LastAt(g, r, m)])
        BY <1>11, <1>13, <4>1
      <4> QED BY <4>1, <4>2
    <3> QED BY <3>1, <3>2
  <2> QED BY <1>14, <2>1, <2>2
<1>16. drop_map(h, r, N) = DeallocateAll(h, T)
  BY <1>8, <1>15
<1> QED BY <1>16 DEF N

-----------------------------------------------------------------------------
(* The steps that build a clone *)

\* The sequence t is s with v pushed.
Longer(t, s, v) ==
  Len(t) = Len(s) + 1 /\ t[Len(s) + 1] = v /\ \A j \in 1 .. Len(s) : t[j] = s[j]

\* From h to g the root x may change and the link of the root e to its parent.
OnlyAt(g, h, x, e) ==
  /\ DOMAIN h \subseteq DOMAIN g
  /\ \A m \in DOMAIN h : m # x => /\ g[m].kv = h[m].kv /\ g[m].edges = h[m].edges
                                  /\ g[m].height = h[m].height
                                  /\ m # e => g[m] = h[m]

LEMMA PushLonger ==
  ASSUME NEW S, NEW s \in Seq(S), NEW v \in S
  PROVE  /\ slice_insert(s, Len(s), v) \in Seq(S)
         /\ Longer(slice_insert(s, Len(s), v), s, v)
<1>1. Len(s) \in Nat /\ Len(s) \in 0 .. Len(s)
  OBVIOUS
<1>2. /\ slice_insert(s, Len(s), v) \in Seq(S)
      /\ IsInsert(slice_insert(s, Len(s), v), s, Len(s), v)
  BY <1>1, SliceInsertProps
<1> DEFINE t == slice_insert(s, Len(s), v)
<1> HIDE DEF t
<1>3. Len(s) + 1 \in 1 .. Len(s) + 1 /\ \A j \in 1 .. Len(s) : j \in 1 .. Len(s) + 1 /\ j <= Len(s)
  BY <1>1
<1>4. Longer(t, s, v)
  BY <1>2, <1>3 DEF IsInsert, Longer, t
<1> QED BY <1>2, <1>4 DEF t

LEMMA OthersMatch ==
  ASSUME NEW h, NEW tops, Grove(h, tops), NEW g, NEW e, NEW x, x \in DOMAIN h => x \in tops, OnlyAt(g, h, x, e)
  PROVE  Matches(g, h, DOMAIN h \ {x})
<1>1. WellFormed(h, tops) /\ Nil \notin DOMAIN h
  BY GroveStepped
<1>2. ASSUME NEW n \in DOMAIN h \ {x}, NEW i \in 1 .. Len(h[n].edges)
      PROVE  h[n].edges[i] \in DOMAIN h \ {x}
  <2>1. h[n].edges[i] \in DOMAIN h /\ h[h[n].edges[i]].parent = n
    BY <1>1, WellFormedFacts
  <2>2. x \in DOMAIN h => h[x].parent = Nil
    BY <1>1, WellFormedFacts
  <2> QED BY <1>1, <2>1, <2>2
<1> QED BY <1>2 DEF Matches, OnlyAt

NewLeaf(h, g, x) == CanAllocate(h) /\ x = FreshNode(h) /\ g = Allocate(h, x, new_leaf(<<>>))

LeafThere(h, g, x, tops) ==
  /\ x \in NodeId /\ x \notin DOMAIN h /\ x # Nil
  /\ Grove(g, tops \cup {x}) /\ OnlyAt(g, h, x, x) /\ DOMAIN g = DOMAIN h \cup {x}
  /\ g[x].height = 0 /\ g[x].kv = <<>> /\ Len(ElementsBelow(g, x)) = 0

LEMMA LeafAdded ==
  ASSUME NEW h, NEW tops, Grove(h, tops), NEW g, NEW x, NewLeaf(h, g, x)
  PROVE  LeafThere(h, g, x, tops)
<1> USE DEF NewLeaf
<1>1. x \in NodeId /\ x \notin DOMAIN h
  BY DEF CanAllocate, FreshNode
<1>2. x # Nil
  BY <1>1, NilAssumption
<1> DEFINE r == new_leaf(<<>>)
<1>3. r \in Node /\ r.height = 0 /\ r.kv = <<>> /\ r.edges = <<>> /\ r.parent = Nil
  BY DEF new_leaf, new_internal, Node
<1> HIDE DEF r
<1>4. WellFormed(h, tops) /\ HeapType(h) /\ Bounded(h) /\ Roomy(h)
  BY DEF Grove, WellFormed
<1>5. WellFormed(g, tops \cup {x})
  <2>1. Len(r.edges) = 0
    BY <1>3
  <2> QED BY <1>1, <1>3, <1>4, <2>1, AddLeaf DEF r
<1>6. DOMAIN g = DOMAIN h \cup {x} /\ g[x] = r /\ \A m \in DOMAIN h : g[m] = h[m]
  BY <1>1 DEF Allocate, r
<1>7. Bounded(g)
  <2>1. PICK top \in Nat : \A n \in DOMAIN h : h[n].height <= top
    BY <1>4 DEF Bounded
  <2>2. \A n \in DOMAIN g : g[n].height <= top
    BY <1>3, <1>6, <2>1
  <2> QED BY <2>2 DEF Bounded
<1>8. Len(g[x].kv) = 0 /\ g[x].height = 0 /\ g[x].kv = <<>>
  BY <1>3, <1>6
<1>9. Roomy(g)
  <2>1. \A n \in DOMAIN h : Len(g[n].kv) <= CAPACITY
    BY <1>4, <1>6 DEF Roomy
  <2> QED BY <1>6, <1>8, <2>1, Minimum DEF Roomy
<1>10. OnlyAt(g, h, x, x)
  BY <1>6 DEF OnlyAt
<1>11. Len(ElementsBelow(g, x)) = 0
  BY <1>5, <1>6, <1>7, <1>8, LeafSequences
<1>12. Grove(g, tops \cup {x})
  BY <1>5, <1>7, <1>9 DEF Grove
<1> QED BY <1>1, <1>2, <1>6, <1>8, <1>10, <1>11, <1>12 DEF LeafThere

LEMMA LeafPushed ==
  ASSUME NEW h, NEW tops, Grove(h, tops), NEW x \in DOMAIN h, h[x].height = 0,
         Len(h[x].kv) < CAPACITY, NEW v \in KV, NEW g, g = leaf_push(h, x, v)
  PROVE  /\ Grove(g, tops) /\ OnlyAt(g, h, x, x) /\ DOMAIN g = DOMAIN h
         /\ g[x].height = 0 /\ Longer(g[x].kv, h[x].kv, v)
         /\ Len(ElementsBelow(g, x)) = Len(ElementsBelow(h, x)) + 1
<1>1. WellFormed(h, tops) /\ HeapType(h) /\ Bounded(h) /\ Roomy(h)
  BY DEF Grove, WellFormed
<1>2. h[x] \in Node /\ h[x].kv \in Seq(KV) /\ Len(h[x].kv) \in Nat
  BY <1>1, HeapNode
<1> DEFINE s == slice_insert(h[x].kv, Len(h[x].kv), v)
           r == WithKV(h[x], s)
<1>3. s \in Seq(KV) /\ Longer(s, h[x].kv, v)
  BY <1>2, PushLonger
<1>4. g = [h EXCEPT ![x] = r]
  BY DEF leaf_push, leaf_insert_fit, len
<1> HIDE DEF s
<1>5. r \in Node /\ r.kv = s /\ r.height = h[x].height
  BY <1>2, <1>3, WithKVProps
<1> HIDE DEF r
<1>6. DOMAIN g = DOMAIN h /\ g[x] = r /\ \A m \in DOMAIN h : m # x => g[m] = h[m]
  BY <1>1, <1>4, <1>5, UpdateProps
<1>7. WellFormed(g, tops)
  <2>1. Len(h[x].kv) \in 0 .. Len(h[x].kv) /\ g = leaf_insert_fit(h, x, Len(h[x].kv), v)
    BY <1>2 DEF leaf_push, len
  <2> QED BY <1>1, <2>1, LeafInsertFit DEF Inserted
<1>8. Longer(g[x].kv, h[x].kv, v) /\ g[x].height = 0 /\ Len(g[x].kv) = Len(h[x].kv) + 1
  BY <1>3, <1>5, <1>6 DEF Longer
<1>9. Bounded(g)
  <2>1. \A m \in DOMAIN g : g[m].height = h[m].height
    BY <1>6, <1>8
  <2> QED BY <1>1, <1>6, <2>1 DEF Bounded
<1>10. Roomy(g)
  <2>1. Len(g[x].kv) <= CAPACITY
    BY <1>2, <1>8, Minimum
  <2> QED BY <1>1, <1>6, <2>1 DEF Roomy
<1>11. OnlyAt(g, h, x, x)
  BY <1>6 DEF OnlyAt
<1>12. Len(ElementsBelow(g, x)) = Len(g[x].kv) /\ Len(ElementsBelow(h, x)) = Len(h[x].kv)
  BY <1>1, <1>6, <1>7, <1>8, <1>9, LeafSequences
<1> QED BY <1>6, <1>7, <1>8, <1>9, <1>10, <1>11, <1>12 DEF Grove

\* A new root x above e, and what there is then.
NewRoot(h, g, x, e) ==
  /\ CanAllocate(h) /\ x = FreshNode(h)
  /\ g = correct_childrens_parent_links(
           Allocate(h, x, new_internal(h[e].height + 1, <<>>, <<e>>)), x, 0, 1)

Rises(h, g, x, e) ==
  /\ x \in NodeId /\ x \notin DOMAIN h /\ x # Nil
  /\ OnlyAt(g, h, x, e) /\ DOMAIN g = DOMAIN h \cup {x}
  /\ g[x].height = h[e].height + 1 /\ g[x].kv = <<>> /\ g[x].edges = <<e>>
  /\ Len(ElementsBelow(g, x)) = Len(ElementsBelow(h, e))

LEMMA LevelPushed ==
  ASSUME NEW h, NEW tops, Grove(h, tops), NEW g, NEW x, NEW e \in tops \cap DOMAIN h, NewRoot(h, g, x, e)
  PROVE  Grove(g, (tops \ {e}) \cup {x}) /\ Rises(h, g, x, e)
<1> USE DEF NewRoot, Rises
<1> DEFINE r == new_internal(h[e].height + 1, <<>>, <<e>>)
           k == Allocate(h, x, r)
           L == DOMAIN h \cup {x}
           T == (tops \ {e}) \cup {x}
<1>0. x \in NodeId /\ x \notin DOMAIN h /\ x # Nil
  BY NilAssumption DEF CanAllocate, FreshNode
<1>1. /\ WellFormed(h, tops) /\ HeapType(h) /\ Bounded(h) /\ Roomy(h) /\ h[e].height \in Nat /\ e \in NodeId
      /\ Nil \notin DOMAIN h
  BY HeapNode, GroveStepped DEF WellFormed
<1>2. r \in Node /\ r.kv = <<>> /\ r.edges = <<e>> /\ r.height = h[e].height + 1 /\ r.parent = Nil
  BY <1>1 DEF new_internal, Node
<1> HIDE DEF r
<1>3. HeapType(k)
  BY <1>0, <1>1, <1>2, AllocateProps
<1>4. DOMAIN k = L /\ k[x] = r /\ \A m \in DOMAIN h : k[m] = h[m]
  BY <1>0 DEF Allocate
<1>5. g = correct_childrens_parent_links(k, x, 0, 1)
  BY DEF r
<1> HIDE DEF k
<1>6. Len(r.edges) = 1 /\ r.edges[1] = e /\ Len(r.kv) = 0
  BY <1>2
<1>7. descend(k, x, 0) = e /\ Len(k[x].edges) = 1
  BY <1>4, <1>6 DEF descend
<1>8. /\ DOMAIN g = L /\ HeapType(g)
      /\ \A m \in L : g[m].kv = k[m].kv /\ g[m].edges = k[m].edges /\ g[m].height = k[m].height
      /\ g[e].parent = x /\ g[e].parent_idx = 0
      /\ \A m \in L : m # e => g[m] = k[m]
  <2>1. \A i, j \in 0 .. 1 - 1 : descend(k, x, i) = descend(k, x, j) => i = j
    OBVIOUS
  <2>2. x \in DOMAIN k /\ 1 <= Len(k[x].edges)
    BY <1>4, <1>7
  <2>3. Relinked(g, k, x, 0, 1)
    BY <1>3, <1>5, <2>1, <2>2, CorrectLinksProps
  <2>4. \A i \in 0 .. 1 - 1 : i = 0
    OBVIOUS
  <2>5. 0 \in 0 .. 1 - 1 /\ e \in DOMAIN k
    BY <1>4
  <2> QED BY <1>4, <1>7, <2>3, <2>4, <2>5 DEF Relinked
<1>9. /\ \A m \in DOMAIN h : g[m].kv = h[m].kv /\ g[m].edges = h[m].edges /\ g[m].height = h[m].height
      /\ \A m \in DOMAIN h : m # e => g[m] = h[m]
      /\ g[x].kv = <<>> /\ g[x].edges = <<e>> /\ g[x].height = h[e].height + 1 /\ g[x].parent = Nil
      /\ Len(g[x].edges) = 1 /\ g[x].edges[1] = e /\ Len(g[x].kv) = 0
  BY <1>0, <1>2, <1>4, <1>6, <1>8
<1>10. ASSUME NEW n \in L, NEW i \in 1 .. Len(g[n].edges)
       PROVE  /\ g[n].edges[i] \in L /\ g[g[n].edges[i]].height = g[n].height - 1
              /\ LinkOK(g, n, i)
  <2>1. CASE n = x
    <3>1. Len(g[n].edges) = 1
      BY <1>9, <2>1
    <3>2. i = 1
      <4>1. i \in 1 .. 1
        BY <3>1, Zenon
      <4> QED BY ONLY <4>1
    <3>3. g[e].height = h[e].height /\ g[x].height - 1 = h[e].height /\ i - 1 = 0
      BY <1>1, <1>9, <3>2
    <3>4. g[n].edges[i] = e /\ e \in L
      BY <1>9, <2>1, <3>2
    <3>5. LinkOK(g, n, i)
      BY <1>8, <2>1, <3>3, <3>4 DEF LinkOK
    <3> QED BY <2>1, <3>3, <3>4, <3>5
  <2>2. CASE n \in DOMAIN h
    <3>1. g[n].edges = h[n].edges /\ g[n].height = h[n].height
      BY <1>9, <2>2
    <3>2. /\ h[n].edges[i] \in DOMAIN h /\ h[h[n].edges[i]].parent = n
          /\ h[h[n].edges[i]].parent_idx = i - 1
          /\ h[h[n].edges[i]].height = h[n].height - 1
      BY <1>1, <2>2, <3>1, WellFormedFacts
    <3>3. h[n].edges[i] # e
      <4>1. n # Nil /\ h[e].parent = Nil
        BY <1>1, <2>2, WellFormedFacts
      <4> QED BY <3>2, <4>1
    <3>4. g[h[n].edges[i]] = h[h[n].edges[i]]
      BY <1>9, <3>2, <3>3
    <3> QED BY <3>1, <3>2, <3>4 DEF LinkOK
  <2> QED BY <2>1, <2>2
<1>11. Down(g, L) /\ \A n \in L : \A i \in 1 .. Len(g[n].edges) : LinkOK(g, n, i)
  BY <1>10 DEF Down
<1>12. Arity(g, L)
  <2>1. \A m \in DOMAIN h : /\ h[m].height = 0 => Len(h[m].edges) = 0
                            /\ h[m].height # 0 => Len(h[m].edges) = Len(h[m].kv) + 1
    BY <1>1, NodeArity
  <2>2. \A m \in DOMAIN h : /\ g[m].height = 0 => Len(g[m].edges) = 0
                            /\ g[m].height # 0 => Len(g[m].edges) = Len(g[m].kv) + 1
    BY <1>9, <2>1
  <2>3. h[e].height + 1 # 0 /\ 0 + 1 = 1
    BY <1>1
  <2>4. g[x].height # 0 /\ Len(g[x].edges) = Len(g[x].kv) + 1
    BY <1>9, <2>3
  <2> QED BY <2>2, <2>4 DEF Arity
<1>13. Covered(g, L, T)
  <2> SUFFICES ASSUME NEW n \in L, n \notin T
               PROVE  \E m \in L : \E i \in 1 .. Len(g[m].edges) : g[m].edges[i] = n
    BY DEF Covered
  <2>1. CASE n = e
    <3>1. x \in L /\ 1 \in 1 .. Len(g[x].edges) /\ g[x].edges[1] = e
      BY <1>9
    <3> QED BY <2>1, <3>1
  <2>2. CASE n # e
    <3>1. n \in DOMAIN h /\ n \notin tops
      BY <2>2
    <3> DEFINE m == h[n].parent
               i == h[n].parent_idx + 1
    <3>2. m \in DOMAIN h /\ i \in 1 .. Len(h[m].edges) /\ h[m].edges[i] = n
      BY <1>1, <3>1, WellFormedFacts
    <3> HIDE DEF m, i
    <3> QED BY <1>9, <3>2
  <2> QED BY <2>1, <2>2
<1>14. \A n \in L \cap T : g[n].parent = Nil
  <2>1. \A n \in DOMAIN h \cap tops : h[n].parent = Nil
    BY <1>1, WellFormedFacts
  <2> QED BY <1>9, <2>1
<1>15. WellFormed(g, T)
  <2>1. g = [m \in L |-> g[m]] /\ L \subseteq DOMAIN g
    BY <1>8, SelfRestrict
  <2> HIDE DEF L, T
  <2> QED BY <1>8, <1>11, <1>12, <1>13, <1>14, <2>1, LinkedWellFormed
<1>16. Bounded(g)
  <2>1. PICK top \in Nat : \A n \in DOMAIN h : h[n].height <= top
    BY <1>1 DEF Bounded
  <2>2. top + 1 \in Nat /\ \A n \in DOMAIN h : h[n].height \in Nat
    BY <1>1, HeapNode
  <2>3. \A n \in DOMAIN g : g[n].height <= top + 1
    BY <1>1, <1>8, <1>9, <2>1, <2>2
  <2> QED BY <2>2, <2>3 DEF Bounded
<1>17. Roomy(g)
  <2>1. \A n \in DOMAIN h : Len(g[n].kv) <= CAPACITY
    BY <1>1, <1>9 DEF Roomy
  <2> QED BY <1>8, <1>9, <2>1, Minimum DEF Roomy
<1>18. Grove(g, T)
  BY <1>15, <1>16, <1>17 DEF Grove
<1>19. OnlyAt(g, h, x, e)
  BY <1>8, <1>9 DEF OnlyAt
<1>20. Len(ElementsBelow(g, x)) = Len(ElementsBelow(h, e))
  <2>1. Matches(g, h, DOMAIN h \ {x}) /\ e \in DOMAIN h \ {x}
    BY <1>0, <1>19, OthersMatch
  <2>2. ElementsBelow(g, e) = ElementsBelow(h, e)
    BY <1>18, <2>1, MatchElements
  <2>3. x \in DOMAIN g /\ g[x].height # 0
    BY <1>1, <1>8, <1>9
  <2>4. Len(ElementsBelow(g, x)) = Len(ElementsBelow(g, g[x].edges[1]))
    BY <1>9, <1>18, <2>3, CountSingle
  <2> QED BY <1>9, <2>2, <2>4
<1> QED BY <1>0, <1>8, <1>9, <1>18, <1>19, <1>20

\* The tree of e goes right of a new pair v at the end of x, and what there is then.
Pushed(h, g, x, v, e) ==
  /\ h[x].height # 0 /\ Len(h[x].kv) < CAPACITY /\ v \in KV
  /\ h[e].height = h[x].height - 1 /\ g = internal_push(h, x, v, e)

Grows(h, g, x, v, e) ==
  /\ OnlyAt(g, h, x, e) /\ DOMAIN g = DOMAIN h
  /\ g[x].height = h[x].height /\ Longer(g[x].kv, h[x].kv, v) /\ Longer(g[x].edges, h[x].edges, e)
  /\ Len(ElementsBelow(g, x)) = Len(ElementsBelow(h, x)) + 1 + Len(ElementsBelow(h, e))

LEMMA SubtreePushed ==
  ASSUME NEW h, NEW tops, Grove(h, tops), NEW x \in tops \cap DOMAIN h, NEW e \in tops \cap DOMAIN h, e # x,
         NEW g, NEW v, Pushed(h, g, x, v, e)
  PROVE  Grove(g, tops \ {e}) /\ Grows(h, g, x, v, e)
<1> USE DEF Pushed, Grows
<1> DEFINE n == Len(h[x].kv)
           s == slice_insert(h[x].kv, n, v)
           f == slice_insert(h[x].edges, n + 1, e)
           r == WithData(h[x], s, f)
           k == [h EXCEPT ![x] = r]
<1>1. WellFormed(h, tops) /\ HeapType(h) /\ Bounded(h) /\ Roomy(h) /\ Nil \notin DOMAIN h
  BY GroveStepped DEF WellFormed
<1>2. /\ h[x] \in Node /\ h[x].kv \in Seq(KV) /\ h[x].edges \in Seq(NodeId) /\ n \in Nat /\ h[x].height \in Nat
      /\ e \in NodeId
  BY <1>1, HeapNode
<1>3. Len(h[x].edges) = n + 1
  BY <1>1, NodeArity
<1>4. s \in Seq(KV) /\ Longer(s, h[x].kv, v)
  BY <1>2, PushLonger
<1>5. f \in Seq(NodeId) /\ Longer(f, h[x].edges, e)
  BY <1>2, <1>3, PushLonger
<1>6. g = correct_childrens_parent_links(k, x, n + 1, n + 2)
  BY DEF internal_push, internal_insert_fit, len
<1> HIDE DEF s, f
<1>7. r \in Node /\ r.kv = s /\ r.edges = f /\ r.height = h[x].height
  BY <1>2, <1>4, <1>5, WithDataProps
<1> HIDE DEF r
<1>8. DOMAIN k = DOMAIN h /\ HeapType(k) /\ k[x] = r /\ \A m \in DOMAIN h : m # x => k[m] = h[m]
  BY <1>1, <1>7, UpdateProps
<1> HIDE DEF k
<1>9. descend(k, x, n + 1) = e /\ Len(k[x].edges) = n + 2
  <2>1. Len(f) = Len(h[x].edges) + 1 /\ f[Len(h[x].edges) + 1] = e
    BY <1>5 DEF Longer
  <2>2. f[n + 1 + 1] = e /\ Len(f) = n + 2
    BY <1>2, <1>3, <2>1
  <2> QED BY <1>7, <1>8, <2>2 DEF descend
<1>10. /\ DOMAIN g = DOMAIN h
       /\ \A m \in DOMAIN h : g[m].kv = k[m].kv /\ g[m].edges = k[m].edges /\ g[m].height = k[m].height
       /\ \A m \in DOMAIN h : m # e => g[m] = k[m]
  <2>1. \A i \in n + 1 .. n + 2 - 1 : i = n + 1
    BY <1>2
  <2>2. \A i, j \in n + 1 .. n + 2 - 1 : descend(k, x, i) = descend(k, x, j) => i = j
    BY <2>1
  <2>3. x \in DOMAIN k /\ n + 2 <= Len(k[x].edges) /\ n + 1 \in Nat /\ n + 2 \in Nat
    BY <1>2, <1>8, <1>9
  <2>4. Relinked(g, k, x, n + 1, n + 2)
    <3> DEFINE lo == n + 1
               hi == n + 2
    <3>1. /\ \A i, j \in lo .. hi - 1 : descend(k, x, i) = descend(k, x, j) => i = j
          /\ hi <= Len(k[x].edges) /\ lo \in Nat /\ hi \in Nat
          /\ g = correct_childrens_parent_links(k, x, lo, hi)
      BY <1>6, <2>2, <2>3
    <3> HIDE DEF n, lo, hi
    <3>2. Relinked(g, k, x, lo, hi)
      BY <1>8, <2>3, <3>1, CorrectLinksProps
    <3> QED BY <3>2 DEF lo, hi
  <2> QED BY <1>8, <1>9, <2>1, <2>4 DEF Relinked
<1>11. /\ g[x].height = h[x].height /\ g[x].kv = s /\ g[x].edges = f
       /\ \A m \in DOMAIN h : m # x => /\ g[m].kv = h[m].kv /\ g[m].edges = h[m].edges
                                       /\ g[m].height = h[m].height
                                       /\ m # e => g[m] = h[m]
  BY <1>7, <1>8, <1>10
<1>12. OnlyAt(g, h, x, e)
  BY <1>10, <1>11 DEF OnlyAt
<1>13. WellFormed(g, tops \ {e})
  <2>1. n \in 0 .. n /\ h[x].height > 0
    BY <1>2
  <2>2. g = internal_insert_fit(h, x, n, v, e)
    BY DEF internal_push, len
  <2> QED BY <1>1, <2>1, <2>2, InternalInsertFit DEF Inserted
<1>14. Bounded(g)
  <2>1. \A m \in DOMAIN g : g[m].height = h[m].height
    BY <1>10, <1>11
  <2> QED BY <1>1, <1>10, <2>1 DEF Bounded
<1>15. Longer(g[x].kv, h[x].kv, v) /\ Longer(g[x].edges, h[x].edges, e) /\ Len(g[x].kv) = n + 1
  BY <1>4, <1>5, <1>11 DEF Longer
<1>16. Roomy(g)
  <2>1. Len(g[x].kv) <= CAPACITY
    BY <1>2, <1>15, Minimum
  <2> QED BY <1>1, <1>10, <1>11, <2>1 DEF Roomy
<1>17. Grove(g, tops \ {e})
  BY <1>13, <1>14, <1>16 DEF Grove
<1>18. Matches(g, h, DOMAIN h \ {x})
  BY <1>12, OthersMatch
<1>19. \A j \in 1 .. n + 1 : /\ g[x].edges[j] = h[x].edges[j]
                             /\ ElementsBelow(g, h[x].edges[j]) = ElementsBelow(h, h[x].edges[j])
  <2> TAKE j \in 1 .. n + 1
  <2>1. j \in 1 .. Len(h[x].edges)
    BY <1>3
  <2>2. g[x].edges[j] = h[x].edges[j]
    BY <1>15, <2>1 DEF Longer
  <2>3. h[x].edges[j] \in DOMAIN h /\ h[h[x].edges[j]].parent = x /\ h[x].parent = Nil
    BY <1>1, <2>1, WellFormedFacts
  <2>4. h[x].edges[j] \in DOMAIN h \ {x}
    BY <1>1, <2>3
  <2> QED BY <1>17, <1>18, <2>2, <2>4, MatchElements
<1>20. g[x].edges[n + 2] = e /\ ElementsBelow(g, e) = ElementsBelow(h, e)
  <2>1. g[x].edges[n + 1 + 1] = e
    BY <1>3, <1>15 DEF Longer
  <2>2. n + 1 + 1 = n + 2
    BY <1>2
  <2>3. e \in DOMAIN h \ {x}
    OBVIOUS
  <2> QED BY <1>17, <1>18, <2>1, <2>2, <2>3, MatchElements
<1>21. Len(ElementsBelow(g, x)) = Len(ElementsBelow(h, x)) + 1 + Len(ElementsBelow(g, g[x].edges[n + 2]))
  <2>1. x \in DOMAIN g /\ g[x].height # 0 /\ Len(g[x].kv) = Len(h[x].kv) + 1
    BY <1>10, <1>11, <1>15
  <2>2. \A j \in 1 .. Len(h[x].kv) + 1 :
          Len(ElementsBelow(g, g[x].edges[j])) = Len(ElementsBelow(h, h[x].edges[j]))
    BY <1>19
  <2> QED BY <1>17, <2>1, <2>2, CountPushed
<1> QED BY <1>10, <1>11, <1>12, <1>15, <1>17, <1>20, <1>21

\* The tree T of the map r is freed, and nothing else.
LEMMA TreeDropped ==
  ASSUME NEW h, NEW tops, Grove(h, tops), NEW r \in DOMAIN h, r \in tops, NEW g,
         g = drop_map(h, r, Len(ElementsBelow(h, r)))
  PROVE  \E T : /\ TreeOf(h, r, T) /\ DOMAIN g = DOMAIN h \ T /\ \A m \in DOMAIN g : g[m] = h[m]
                /\ Grove(g, tops \ {r}) /\ Matches(g, h, DOMAIN g)
<1>1. PICK T : TreeOf(h, r, T)
  BY TreeExists
<1>2. g = [m \in DOMAIN h \ T |-> h[m]]
  <2>1. g = DeallocateAll(h, T)
    BY <1>1, DropFreesTree
  <2> QED BY <2>1 DEF DeallocateAll
<1>3. Part(g, h, DOMAIN h \ T)
  BY <1>1, <1>2, RestWhole DEF Part, TreeOf
<1>4. /\ Grove(g, tops) /\ Matches(g, h, DOMAIN h \ T) /\ DOMAIN g = DOMAIN h \ T
      /\ \A m \in DOMAIN h \ T : g[m] = h[m]
  BY <1>3, PartGrove
<1>5. r \notin DOMAIN g
  BY <1>1, <1>4 DEF TreeOf
<1>6. Grove(g, tops \ {r})
  BY <1>4, <1>5, TopsExt DEF Grove
<1> QED BY <1>1, <1>4, <1>6

\* Nodes that have their parents among them and not the root are not of a tree.
LEMMA TreesApart ==
  ASSUME NEW h, NEW tops, Grove(h, tops), NEW r, NEW T, TreeOf(h, r, T), NEW S, S \subseteq DOMAIN h,
         \A n \in S : h[n].parent # Nil => h[n].parent \in S, r \notin S
  PROVE  S \cap T = {}
<1>1. SUFFICES ASSUME S \cap T # {} PROVE FALSE
  OBVIOUS
<1>2. WellFormed(h, tops) /\ Bounded(h) /\ S \cap T \subseteq DOMAIN h
  BY DEF Grove
<1>3. PICK m \in S \cap T : m \in tops \/ h[m].parent \notin S \cap T
  BY <1>1, <1>2, HighestOf
<1>4. m # r /\ h[m].parent # Nil
  BY <1>3 DEF TreeOf
<1>5. h[m].parent \in S \cap T
  BY <1>3, <1>4 DEF TreeOf, Whole
<1> QED BY <1>2, <1>3, <1>4, <1>5, WellFormedFacts


-----------------------------------------------------------------------------
(* The maps there are besides the source: those of the calls and the result. *)
(* M maps a slot for each of them to its root and length.                    *)

RootsOf(M) == {M[i].root : i \in DOMAIN M} \ {Nil}

KeptIn(h, src) == \A n \in DOMAIN src.heap : n \in DOMAIN h /\ h[n] = src.heap[n]

\* The map m owns nothing of the source and has the length it says.
OwnMap(h, m, src) ==
  m.root # Nil => /\ m.root \in DOMAIN h /\ m.root \notin DOMAIN src.heap
                  /\ m.length = Len(ElementsBelow(h, m.root))

Unshared(M, D) == \A i, j \in D : M[i].root # Nil /\ M[i].root = M[j].root => i = j

SoundMaps(h, M, src) ==
  /\ Grove(h, {src.root} \cup RootsOf(M))
  /\ KeptIn(h, src)
  /\ \A i \in DOMAIN M : OwnMap(h, M[i], src)
  /\ Unshared(M, DOMAIN M)

\* N has the maps of M in the slots E, and m in slot t.
Over(N, M, E, t, m) ==
  /\ DOMAIN N = E \cup {t} /\ t \notin E /\ N[t] = m
  /\ E \subseteq DOMAIN M /\ \A i \in E : N[i] = M[i]

LEMMA SourceFacts ==
  ASSUME NEW src, LegalMap(src), src.root # Nil
  PROVE  /\ OneTree(src.heap, src.root) /\ Grove(src.heap, {src.root}) /\ src.root \in DOMAIN src.heap
         /\ src.length = Len(ElementsBelow(src.heap, src.root))
  BY LegalOrder DEF OneTree

LEMMA RootsOver ==
  ASSUME NEW N, NEW M, NEW E, NEW t, NEW m, Over(N, M, E, t, m)
  PROVE  RootsOf(N) = ({M[i].root : i \in E} \cup {m.root}) \ {Nil}
<1>1. \A q : q \in RootsOf(N) <=> q # Nil /\ \E i \in E \cup {t} : q = N[i].root
  BY DEF RootsOf, Over
<1>2. \A q : q \in RootsOf(N) <=> q # Nil /\ ((\E i \in E : q = M[i].root) \/ q = m.root)
  BY <1>1 DEF Over
<1> QED BY <1>2

\* A step to heap g and maps N writes the root x of the map m, and the link of e.
Written(src, h, M, g, N, E, t, m, e) ==
  LET x == m.root
  IN  /\ SoundMaps(h, M, src) /\ Over(N, M, E, t, m) /\ OnlyAt(g, h, x, e)
      /\ x \notin DOMAIN src.heap /\ e \notin DOMAIN src.heap
      /\ x \in DOMAIN h => x \in RootsOf(M)
      /\ \A i \in E : M[i].root # x
      /\ x \in DOMAIN g /\ m.length = Len(ElementsBelow(g, x))
      /\ Grove(g, {src.root} \cup RootsOf(N))

\* It leaves the other maps sound.
LEMMA MapsStep ==
  ASSUME NEW src, NEW h, NEW M, NEW g, NEW N, NEW E, NEW t, NEW m, NEW e,
         Written(src, h, M, g, N, E, t, m, e)
  PROVE  SoundMaps(g, N, src)
<1> DEFINE x == m.root
<1> USE DEF Written
<1>1. Matches(g, h, DOMAIN h \ {x})
  <2>1. Grove(h, {src.root} \cup RootsOf(M)) /\ (x \in DOMAIN h => x \in {src.root} \cup RootsOf(M))
    BY DEF SoundMaps
  <2> QED BY <2>1, OthersMatch
<1>2. KeptIn(g, src)
  <2> SUFFICES ASSUME NEW n \in DOMAIN src.heap PROVE n \in DOMAIN g /\ g[n] = src.heap[n]
    BY DEF KeptIn
  <2>1. n \in DOMAIN h /\ h[n] = src.heap[n] /\ n # x /\ n # e
    BY DEF SoundMaps, KeptIn
  <2> QED BY <2>1 DEF OnlyAt
<1>3. /\ DOMAIN N = E \cup {t} /\ t \notin E /\ N[t] = m
      /\ \A i \in E : N[i] = M[i] /\ i \in DOMAIN M
  BY DEF Over
<1>4. \A i \in E : OwnMap(g, N[i], src)
  <2> TAKE i \in E
  <2>1. OwnMap(h, M[i], src) /\ M[i].root # x
    BY <1>3 DEF SoundMaps
  <2>2. M[i].root \in DOMAIN h => ElementsBelow(g, M[i].root) = ElementsBelow(h, M[i].root)
    <3>1. M[i].root \in DOMAIN h => M[i].root \in DOMAIN h \ {x}
      BY <2>1
    <3> QED BY <1>1, <3>1, MatchElements DEF SoundMaps
  <2>3. DOMAIN h \subseteq DOMAIN g
    BY DEF OnlyAt
  <2> QED BY <1>3, <2>1, <2>2, <2>3 DEF OwnMap
<1>5. OwnMap(g, m, src)
  BY DEF OwnMap
<1>6. \A i \in DOMAIN N : OwnMap(g, N[i], src)
  BY <1>3, <1>4, <1>5
<1>7. \A i, j \in E : M[i].root # Nil /\ M[i].root = M[j].root => i = j
  BY <1>3 DEF SoundMaps, Unshared
<1>8. Unshared(N, DOMAIN N)
  BY <1>3, <1>7 DEF Unshared
<1> QED BY <1>2, <1>6, <1>8 DEF SoundMaps

\* A call for an internal node has no map yet.
LEMMA NoMapPushed ==
  ASSUME NEW src, NEW h, NEW M, SoundMaps(h, M, src),
         NEW N, NEW t, NEW m, Over(N, M, DOMAIN M, t, m), m.root = Nil
  PROVE  SoundMaps(h, N, src)
<1>1. RootsOf(N) = RootsOf(M)
  BY RootsOver DEF RootsOf
<1>2. DOMAIN N = DOMAIN M \cup {t} /\ N[t] = m /\ \A i \in DOMAIN M : N[i] = M[i]
  BY DEF Over
<1>3. \A i \in DOMAIN N : OwnMap(h, N[i], src)
  BY <1>2 DEF SoundMaps, OwnMap
<1>4. Unshared(N, DOMAIN N)
  BY <1>2 DEF SoundMaps, Unshared
<1> QED BY <1>1, <1>3, <1>4 DEF SoundMaps

\* One for a leaf has a new leaf.
LEMMA LeafMapPushed ==
  ASSUME NEW src, LegalMap(src), NEW h, NEW M, SoundMaps(h, M, src),
         NEW g, NEW x, NewLeaf(h, g, x),
         NEW N, NEW t, NEW m, Over(N, M, DOMAIN M, t, m), m.root = x, m.length = 0
  PROVE  /\ SoundMaps(g, N, src) /\ OnlyAt(g, h, x, x)
         /\ x # Nil /\ x \in DOMAIN g /\ x \notin DOMAIN h /\ g[x].height = 0 /\ g[x].kv = <<>>
<1>1. PICK tops : tops = {src.root} \cup RootsOf(M)
  OBVIOUS
<1>2. Grove(h, tops) /\ KeptIn(h, src)
  BY <1>1 DEF SoundMaps
<1>3. /\ x \in NodeId /\ x \notin DOMAIN h /\ x # Nil
      /\ Grove(g, tops \cup {x}) /\ OnlyAt(g, h, x, x) /\ DOMAIN g = DOMAIN h \cup {x}
      /\ g[x].height = 0 /\ g[x].kv = <<>> /\ Len(ElementsBelow(g, x)) = 0
  <2>1. LeafThere(h, g, x, tops)
    BY <1>2, LeafAdded
  <2> QED BY <2>1 DEF LeafThere
<1>4. x \notin DOMAIN src.heap
  BY <1>2, <1>3 DEF KeptIn
<1>5. \A i \in DOMAIN M : M[i].root # x
  <2>1. \A i \in DOMAIN M : OwnMap(h, M[i], src)
    BY DEF SoundMaps
  <2> QED BY <1>3, <2>1 DEF OwnMap
<1>6. Grove(g, {src.root} \cup RootsOf(N))
  <2>1. {src.root} \cup RootsOf(N) = tops \cup {x}
    BY <1>1, <1>3, RootsOver DEF RootsOf
  <2> QED BY <1>3, <2>1
<1>7. m.length = Len(ElementsBelow(g, x)) /\ x \in DOMAIN g /\ (x \in DOMAIN h => x \in RootsOf(M))
  BY <1>3
<1>8. SoundMaps(g, N, src)
  <2>1. Written(src, h, M, g, N, DOMAIN M, t, m, x)
    BY <1>3, <1>4, <1>5, <1>6, <1>7 DEF Written
  <2> QED BY <2>1, MapsStep
<1> QED BY <1>3, <1>7, <1>8

\* A finished call's map becomes the result.
LEMMA MapMoved ==
  ASSUME NEW src, NEW h, NEW M, SoundMaps(h, M, src),
         NEW N, NEW E, NEW t, NEW u, u \notin E, DOMAIN M = E \cup {u}, Over(N, M, E, t, M[u])
  PROVE  SoundMaps(h, N, src)
<1>1. RootsOf(N) = RootsOf(M)
  <2>1. \A q : q \in RootsOf(M) <=> q # Nil /\ ((\E i \in E : q = M[i].root) \/ q = M[u].root)
    BY DEF RootsOf
  <2>2. \A q : q \in RootsOf(N) <=> q # Nil /\ ((\E i \in E : q = M[i].root) \/ q = M[u].root)
    BY RootsOver
  <2> QED BY <2>1, <2>2
<1>2. DOMAIN N = E \cup {t} /\ N[t] = M[u] /\ \A i \in E : N[i] = M[i]
  BY DEF Over
<1>3. \A i \in DOMAIN N : OwnMap(h, N[i], src)
  BY <1>2 DEF SoundMaps
<1>4. Unshared(N, DOMAIN N)
  BY <1>2 DEF SoundMaps, Unshared
<1> QED BY <1>1, <1>3, <1>4 DEF SoundMaps

\* The map in slot i has the root x.
Rooted(M, i, x) == i \in DOMAIN M /\ M[i].root = x /\ x # Nil

\* The tree below x is as long as map i says, and no other map has it.
Counts(h, M, i, x) ==
  /\ M[i].length = Len(ElementsBelow(h, x))
  /\ \A j \in DOMAIN M : M[j].root = x => j = i

LEMMA RootOwned ==
  ASSUME NEW src, LegalMap(src), NEW h, NEW M, SoundMaps(h, M, src), NEW i, NEW x, Rooted(M, i, x)
  PROVE  /\ x \in RootsOf(M) /\ x \in DOMAIN h /\ x \notin DOMAIN src.heap
         /\ src.root # Nil => x # src.root
         /\ Counts(h, M, i, x)
<1>1. OwnMap(h, M[i], src) /\ Grove(h, {src.root} \cup RootsOf(M))
  BY DEF SoundMaps, Rooted
<1>2. src.root # Nil => x # src.root
  BY <1>1, SourceFacts DEF OwnMap, Rooted
<1>3. \A j \in DOMAIN M : M[j].root = x => j = i
  BY DEF SoundMaps, Rooted, Unshared
<1>4. x \in RootsOf(M)
  BY DEF RootsOf, Rooted
<1> QED BY <1>1, <1>2, <1>3, <1>4 DEF OwnMap, Rooted, Counts

\* A pair is pushed to the last map, a leaf.
LEMMA PairPushedToMap ==
  ASSUME NEW src, LegalMap(src), NEW h, NEW M, SoundMaps(h, M, src),
         NEW E, NEW t, DOMAIN M = E \cup {t}, t \notin E,
         NEW x, x = M[t].root, x # Nil, h[x].height = 0, Len(h[x].kv) < CAPACITY, NEW v \in KV,
         NEW g, g = leaf_push(h, x, v),
         NEW N, NEW m, Over(N, M, E, t, m), m.root = x, m.length = M[t].length + 1
  PROVE  /\ SoundMaps(g, N, src) /\ OnlyAt(g, h, x, x) /\ x \in DOMAIN g
         /\ g[x].height = 0 /\ Longer(g[x].kv, h[x].kv, v)
<1>1. PICK tops : tops = {src.root} \cup RootsOf(M)
  OBVIOUS
<1>2. /\ x \in RootsOf(M) /\ x \in DOMAIN h /\ x \notin DOMAIN src.heap
      /\ M[t].length = Len(ElementsBelow(h, x)) /\ Grove(h, tops)
      /\ \A i \in DOMAIN M : M[i].root = x => i = t
  <2>1. Rooted(M, t, x)
    BY DEF Rooted
  <2>2. x \in RootsOf(M) /\ x \in DOMAIN h /\ x \notin DOMAIN src.heap
    BY ONLY LegalMap(src), SoundMaps(h, M, src), <2>1, RootOwned
  <2>3. Counts(h, M, t, x)
    BY ONLY LegalMap(src), SoundMaps(h, M, src), <2>1, RootOwned
  <2>4. Grove(h, tops)
    BY <1>1 DEF SoundMaps
  <2> QED BY <2>2, <2>3, <2>4 DEF Counts
<1>3. /\ Grove(g, tops) /\ OnlyAt(g, h, x, x) /\ DOMAIN g = DOMAIN h
      /\ g[x].height = 0 /\ Longer(g[x].kv, h[x].kv, v)
      /\ Len(ElementsBelow(g, x)) = Len(ElementsBelow(h, x)) + 1
  BY <1>2, LeafPushed
<1>4. RootsOf(N) = RootsOf(M)
  <2>1. \A q : q \in RootsOf(M) <=> q # Nil /\ ((\E i \in E : q = M[i].root) \/ q = x)
    BY DEF RootsOf
  <2>2. \A q : q \in RootsOf(N) <=> q # Nil /\ ((\E i \in E : q = M[i].root) \/ q = x)
    BY RootsOver
  <2> QED BY <2>1, <2>2
<1>5. \A i \in E : M[i].root # x
  BY <1>2
<1>6. Grove(g, {src.root} \cup RootsOf(N)) /\ m.length = Len(ElementsBelow(g, x)) /\ x \in DOMAIN g
  BY <1>1, <1>2, <1>3, <1>4
<1>7. SoundMaps(g, N, src)
  <2>1. Written(src, h, M, g, N, E, t, m, x)
    BY <1>2, <1>3, <1>5, <1>6 DEF Written
  <2> QED BY <2>1, MapsStep
<1> QED BY <1>3, <1>6, <1>7

LEMMA LevelMapPushed ==
  ASSUME NEW src, LegalMap(src), src.root # Nil, NEW h, NEW M, SoundMaps(h, M, src),
         NEW E, NEW t, NEW u, DOMAIN M = E \cup {t, u}, t \notin E, u \notin E, M[t].root = Nil,
         NEW e, Rooted(M, u, e), NEW g, NEW x, NewRoot(h, g, x, e),
         NEW N, NEW m, Over(N, M, E, t, m), m.root = x, m.length = M[u].length
  PROVE  SoundMaps(g, N, src) /\ Rises(h, g, x, e) /\ e \in DOMAIN h
<1>1. PICK tops : tops = {src.root} \cup RootsOf(M)
  OBVIOUS
<1>2. Grove(h, tops) /\ KeptIn(h, src)
  BY <1>1 DEF SoundMaps
<1>3. e \in RootsOf(M) /\ e \in DOMAIN h /\ e \notin DOMAIN src.heap
  BY RootOwned
<1>4. e # src.root
  BY RootOwned
<1>5. Counts(h, M, u, e)
  BY RootOwned
<1>6. e \in tops \cap DOMAIN h
  BY <1>1, <1>3
<1>7. Grove(g, (tops \ {e}) \cup {x}) /\ Rises(h, g, x, e)
  BY <1>2, <1>6, LevelPushed
<1>8. x \notin DOMAIN h /\ x # Nil /\ OnlyAt(g, h, x, e) /\ DOMAIN g = DOMAIN h \cup {x}
  BY <1>7 DEF Rises
<1>15. x \notin DOMAIN src.heap
  BY <1>2, <1>8 DEF KeptIn
<1>16. \A i \in E : M[i].root # x /\ M[i].root # e
  <2>1. \A i \in E : OwnMap(h, M[i], src) /\ i \in DOMAIN M /\ i # u
    BY DEF SoundMaps
  <2> QED BY <1>5, <1>8, <2>1 DEF OwnMap, Counts
<1>17. Grove(g, {src.root} \cup RootsOf(N))
  <2>1. \A q : q \in RootsOf(N) <=> q # Nil /\ ((\E i \in E : q = M[i].root) \/ q = x)
    BY RootsOver
  <2>2. \A q : q \in RootsOf(M) <=> q # Nil /\ ((\E i \in E : q = M[i].root) \/ q = e)
    BY DEF RootsOf, Rooted
  <2>3. \A q : q \in {src.root} \cup RootsOf(N) <=> q \in (tops \ {e}) \cup {x}
    BY <1>1, <1>4, <1>8, <1>16, <2>1, <2>2
  <2>4. {src.root} \cup RootsOf(N) = (tops \ {e}) \cup {x}
    BY <2>3
  <2> QED BY <1>7, <2>4
<1>18. m.length = Len(ElementsBelow(g, x)) /\ x \in DOMAIN g
  BY <1>5, <1>7, <1>8 DEF Counts, Rises
<1>19. SoundMaps(g, N, src)
  <2>1. Written(src, h, M, g, N, E, t, m, e)
    BY <1>3, <1>8, <1>15, <1>16, <1>17, <1>18 DEF Written
  <2> QED BY <2>1, MapsStep
<1> QED BY <1>3, <1>7, <1>19

LEMMA SubtreeMapPushed ==
  ASSUME NEW src, LegalMap(src), src.root # Nil, NEW h, NEW M, SoundMaps(h, M, src),
         NEW E, NEW t, NEW u, DOMAIN M = E \cup {t, u}, t \notin E, u \notin E, t # u,
         NEW x, Rooted(M, t, x), NEW e, Rooted(M, u, e), NEW g, NEW v, Pushed(h, g, x, v, e),
         NEW N, NEW m, Over(N, M, E, t, m), m.root = x, m.length = M[t].length + 1 + M[u].length
  PROVE  /\ SoundMaps(g, N, src) /\ Grows(h, g, x, v, e)
         /\ x \in DOMAIN h /\ e \in DOMAIN h /\ e # x /\ x \notin DOMAIN src.heap
<1>1. PICK tops : tops = {src.root} \cup RootsOf(M)
  OBVIOUS
<1>2. Grove(h, tops)
  BY <1>1 DEF SoundMaps
<1>3. e \in RootsOf(M) /\ e \in DOMAIN h /\ e \notin DOMAIN src.heap
  BY RootOwned
<1>4. x \in RootsOf(M) /\ x \in DOMAIN h /\ x \notin DOMAIN src.heap
  BY RootOwned
<1>5. e # src.root
  BY RootOwned
<1>6. Counts(h, M, u, e)
  BY RootOwned
<1>7. Counts(h, M, t, x)
  BY RootOwned
<1>8. e \in tops \cap DOMAIN h /\ x \in tops \cap DOMAIN h
  BY <1>1, <1>3, <1>4
<1>9. e # x
  BY <1>7 DEF Counts, Rooted
<1>10. Grove(g, tops \ {e}) /\ Grows(h, g, x, v, e)
  BY <1>2, <1>8, <1>9, SubtreePushed
<1>11. OnlyAt(g, h, x, e) /\ DOMAIN g = DOMAIN h
  BY <1>10 DEF Grows
<1>17. \A i \in E : M[i].root # x /\ M[i].root # e
  <2>1. \A i \in E : i \in DOMAIN M /\ i # u /\ i # t
    OBVIOUS
  <2> QED BY <1>6, <1>7, <2>1 DEF Counts
<1>18. Grove(g, {src.root} \cup RootsOf(N))
  <2>1. \A q : q \in RootsOf(N) <=> q # Nil /\ ((\E i \in E : q = M[i].root) \/ q = x)
    BY RootsOver
  <2>2. \A q : q \in RootsOf(M) <=> q # Nil /\ ((\E i \in E : q = M[i].root) \/ q = e \/ q = x)
    BY DEF RootsOf, Rooted
  <2>3. \A q : q \in {src.root} \cup RootsOf(N) <=> q \in tops \ {e}
    BY <1>1, <1>5, <1>9, <1>17, <2>1, <2>2
  <2>4. {src.root} \cup RootsOf(N) = tops \ {e}
    BY <2>3
  <2> QED BY <1>10, <2>4
<1>19. m.length = Len(ElementsBelow(g, x))
  BY <1>6, <1>7, <1>10 DEF Counts, Grows
<1>20. SoundMaps(g, N, src)
  <2>1. Written(src, h, M, g, N, E, t, m, e)
    BY <1>3, <1>4, <1>11, <1>17, <1>18, <1>19 DEF Written
  <2> QED BY <2>1, MapsStep
<1> QED BY <1>3, <1>4, <1>9, <1>10, <1>20

\* The last map is dropped.
LEMMA MapDropped ==
  ASSUME NEW src, LegalMap(src), src.root # Nil, NEW h, NEW M, SoundMaps(h, M, src),
         NEW E, NEW t, DOMAIN M = E \cup {t}, t \notin E,
         NEW g, g = IF M[t].root = Nil THEN h ELSE drop_map(h, M[t].root, M[t].length),
         NEW N, DOMAIN N = E, \A i \in E : N[i] = M[i]
  PROVE  SoundMaps(g, N, src)
<1>1. \A q : q \in RootsOf(N) <=> q # Nil /\ \E i \in E : q = M[i].root
  BY DEF RootsOf
<1>2. \A q : q \in RootsOf(M) <=> q # Nil /\ ((\E i \in E : q = M[i].root) \/ q = M[t].root)
  BY DEF RootsOf
<1>3. Unshared(N, DOMAIN N)
  BY DEF SoundMaps, Unshared
<1>4. CASE M[t].root = Nil
  <2>1. RootsOf(N) = RootsOf(M)
    BY <1>1, <1>2, <1>4
  <2>2. \A i \in DOMAIN N : OwnMap(h, N[i], src)
    BY DEF SoundMaps
  <2> QED BY <1>3, <1>4, <2>1, <2>2 DEF SoundMaps
<1>5. CASE M[t].root # Nil
  <2>1. PICK x : x = M[t].root
    OBVIOUS
  <2>2. Rooted(M, t, x)
    BY <1>5, <2>1 DEF Rooted
  <2>3. x \in RootsOf(M) /\ x \in DOMAIN h /\ x \notin DOMAIN src.heap
    BY <2>2, RootOwned
  <2>4. x # src.root
    BY <2>2, RootOwned
  <2>5. Counts(h, M, t, x)
    BY <2>2, RootOwned
  <2>6. PICK tops : tops = {src.root} \cup RootsOf(M)
    OBVIOUS
  <2>7. Grove(h, tops) /\ KeptIn(h, src)
    BY <2>6 DEF SoundMaps
  <2>8. x \in tops
    BY <2>3, <2>6
  <2>9. g = drop_map(h, x, Len(ElementsBelow(h, x)))
    BY <1>5, <2>1, <2>5 DEF Counts
  <2>10. PICK T : /\ TreeOf(h, x, T) /\ DOMAIN g = DOMAIN h \ T /\ \A m \in DOMAIN g : g[m] = h[m]
                  /\ Grove(g, tops \ {x}) /\ Matches(g, h, DOMAIN g)
    BY <2>3, <2>7, <2>8, <2>9, TreeDropped
  <2>11. \A i \in E : M[i].root # x
    BY <2>5 DEF Counts
  <2>12. Grove(g, {src.root} \cup RootsOf(N))
    <3>1. \A q : q \in {src.root} \cup RootsOf(N) <=> q \in tops \ {x}
      BY <1>1, <1>2, <2>1, <2>4, <2>6, <2>11
    <3>2. {src.root} \cup RootsOf(N) = tops \ {x}
      BY <3>1
    <3> QED BY <2>10, <3>2
  <2>13. KeptIn(g, src)
    <3>1. DOMAIN src.heap \subseteq DOMAIN h /\ \A n \in DOMAIN src.heap : h[n] = src.heap[n]
      BY <2>7 DEF KeptIn
    <3>2. \A n \in DOMAIN src.heap : src.heap[n].parent # Nil => src.heap[n].parent \in DOMAIN src.heap
      BY SourceFacts DEF Grove, WellFormed, ParentsLinked
    <3>3. DOMAIN src.heap \cap T = {}
      BY <2>3, <2>7, <2>10, <3>1, <3>2, TreesApart
    <3> QED BY <2>10, <3>1, <3>3 DEF KeptIn
  <2>14. \A i \in DOMAIN N : OwnMap(g, N[i], src)
    <3> TAKE i \in DOMAIN N
    <3>1. OwnMap(h, M[i], src) /\ N[i] = M[i] /\ M[i].root # x /\ i \in DOMAIN M
      BY <2>11 DEF SoundMaps
    <3> SUFFICES ASSUME M[i].root # Nil
                 PROVE  M[i].root \in DOMAIN g /\ M[i].length = Len(ElementsBelow(g, M[i].root))
      BY <3>1 DEF OwnMap
    <3>2. PICK y : y = M[i].root
      OBVIOUS
    <3>3. y \in DOMAIN h /\ y \in tops /\ y # x
      BY <2>6, <3>1, <3>2 DEF OwnMap, RootsOf
    <3>4. y \in DOMAIN g
      <4>1. h[y].parent = Nil
        BY <2>7, <3>3 DEF Grove, WellFormed, ParentsLinked
      <4> QED BY <2>10, <3>3, <4>1 DEF TreeOf
    <3>5. ElementsBelow(g, y) = ElementsBelow(h, y)
      BY <2>7, <2>10, <3>4, MatchElements
    <3> QED BY <3>1, <3>2, <3>4, <3>5 DEF OwnMap
  <2> QED BY <1>3, <2>12, <2>13, <2>14 DEF SoundMaps
<1> QED BY <1>4, <1>5

-----------------------------------------------------------------------------
(* The stack of calls: b are those that wait and f is the one on top *)

Frames(src) == [node : DOMAIN src.heap, out : NodeId \cup {Nil}, length : Nat, idx : Nat, kv : Option(KV)]

\* The map of a call, and those of a stack with the result of the call above it.
MapRecord == [root : NodeId \cup {Nil}, length : Nat]
MapOfCall(f) == [root |-> f.out, length |-> f.length]

MapsOf(s, res) ==
  [i \in (1 .. Len(s)) \cup (IF res = None THEN {} ELSE {0}) |->
     IF i = 0 THEN res[1] ELSE MapOfCall(s[i])]

\* The edge that the call f follows, and the node that is to be cloned above the calls s.
ChildAt(src, f) == src.heap[f.node].edges[f.idx + 1]
Wanted(src, s) == IF s = <<>> THEN src.root ELSE ChildAt(src, s[Len(s)])

\* Each call is for the node that the one below it wants.
Follows(src, s) ==
  /\ s # <<>> => s[1].node = src.root
  /\ \A i, j \in 1 .. Len(s) : j = i + 1 => s[j].node = ChildAt(src, s[i])

LEMMA Piled ==
  ASSUME NEW S, NEW b \in Seq(S), NEW f \in S
  PROVE  /\ Append(b, f) \in Seq(S) /\ Append(b, f) # <<>> /\ Len(b) \in Nat
         /\ Len(Append(b, f)) = Len(b) + 1 /\ Append(b, f)[Len(b) + 1] = f
         /\ \A i \in 1 .. Len(b) : Append(b, f)[i] = b[i]
         /\ SubSeq(Append(b, f), 1, Len(Append(b, f)) - 1) = b
<1>1. /\ Append(b, f) \in Seq(S) /\ Append(b, f) # <<>> /\ Len(b) \in Nat
      /\ Len(Append(b, f)) = Len(b) + 1 /\ Append(b, f)[Len(b) + 1] = f
      /\ \A i \in 1 .. Len(b) : Append(b, f)[i] = b[i]
  BY AppendProperties
<1>2. Len(Append(b, f)) - 1 = Len(b)
  BY <1>1
<1>3. SubSeq(Append(b, f), 1, Len(b)) = b
  <2>1. Append(b, f) \in Seq(S) /\ 1 \in 1 .. Len(b) + 1 /\ Len(b) \in 0 .. Len(Append(b, f))
    BY <1>1
  <2> DEFINE c == SubSeq(Append(b, f), 1, Len(b))
  <2>2. c \in Seq(S) /\ Len(c) = Len(b) /\ \A i \in 1 .. Len(b) : c[i] = Append(b, f)[i]
    BY <1>1
  <2>3. \A i \in 1 .. Len(b) : c[i] = b[i]
    BY <1>1, <2>2
  <2> QED BY <2>2, <2>3, SeqEqual
<1> QED BY <1>1, <1>2, <1>3

LEMMA Unpiled ==
  ASSUME NEW S, NEW s \in Seq(S), s # <<>>
  PROVE  \E b \in Seq(S), f \in S : s = Append(b, f)
<1> DEFINE b == SubSeq(s, 1, Len(s) - 1)
           f == s[Len(s)]
<1>1. Len(s) \in Nat /\ Len(s) > 0
  OBVIOUS
<1>2. b \in Seq(S) /\ f \in S /\ Len(b) = Len(s) - 1 /\ \A i \in 1 .. Len(s) - 1 : b[i] = s[i]
  <2>1. PICK k \in Nat : Len(s) = k + 1
    <3>1. Len(s) - 1 \in Nat /\ Len(s) = (Len(s) - 1) + 1
      BY <1>1
    <3> QED BY <3>1
  <2>2. Len(s) - 1 = k
    BY <2>1
  <2>3. SubSeq(s, 1, k) \in Seq(S) /\ Len(SubSeq(s, 1, k)) = k /\ \A i \in 1 .. k : SubSeq(s, 1, k)[i] = s[i]
    BY <2>1
  <2>4. f \in S
    BY <1>1
  <2> QED BY <2>2, <2>3, <2>4
<1>3. Append(b, f) \in Seq(S) /\ Len(Append(b, f)) = Len(s)
  BY <1>1, <1>2, AppendProperties
<1>4. \A i \in 1 .. Len(s) : Append(b, f)[i] = s[i]
  <2> HIDE DEF b
  <2>1. \A i \in 1 .. Len(s) : i \in 1 .. Len(b) \/ i = Len(b) + 1
    BY <1>1, <1>2
  <2>2. Append(b, f)[Len(b) + 1] = f /\ Len(b) + 1 = Len(s) /\ \A i \in 1 .. Len(b) : Append(b, f)[i] = b[i]
    BY <1>1, <1>2, AppendProperties
  <2> QED BY <1>2, <2>1, <2>2
<1>5. Append(b, f) = s
  BY <1>3, <1>4, SeqEqual
<1> QED BY <1>2, <1>5

LEMMA FollowsOn ==
  ASSUME NEW src, NEW b \in Seq(Frames(src)), NEW f \in Frames(src)
  PROVE  /\ Wanted(src, Append(b, f)) = ChildAt(src, f)
         /\ Follows(src, Append(b, f)) <=> Follows(src, b) /\ f.node = Wanted(src, b)
<1> DEFINE s == Append(b, f)
           n == Len(b)
<1>1. /\ n \in Nat /\ s # <<>> /\ Len(s) = n + 1 /\ s[n + 1] = f /\ \A i \in 1 .. n : s[i] = b[i]
  BY Piled
<1>2. b = <<>> <=> n = 0
  OBVIOUS
<1>3. Wanted(src, s) = ChildAt(src, f)
  BY <1>1 DEF Wanted
<1> HIDE DEF s, n
<1>4. CASE n = 0
  <2>1. \A i, j \in 1 .. Len(s) : j # i + 1
    BY <1>1, <1>4
  <2>2. Follows(src, s) <=> f.node = src.root
    BY <1>1, <1>4, <2>1 DEF Follows
  <2>3. Follows(src, b) /\ Wanted(src, b) = src.root
    BY <1>2, <1>4 DEF Follows, Wanted, n
  <2> QED BY <1>3, <2>2, <2>3 DEF s
<1>5. CASE n # 0
  <2>1. b # <<>> /\ Wanted(src, b) = ChildAt(src, b[n])
    BY <1>2, <1>5 DEF Wanted, n
  <2>2. s[1] = b[1] /\ 1 \in 1 .. n /\ n \in 1 .. n
    BY <1>1, <1>5
  <2>3. ASSUME Follows(src, s)
        PROVE  Follows(src, b) /\ f.node = Wanted(src, b)
    <3>1. s[1].node = src.root /\ \A i, j \in 1 .. n + 1 : j = i + 1 => s[j].node = ChildAt(src, s[i])
      BY <1>1, <2>3 DEF Follows
    <3>2. \A i, j \in 1 .. n : j = i + 1 => b[j].node = ChildAt(src, b[i])
      <4> TAKE i, j \in 1 .. n
      <4>1. i \in 1 .. n + 1 /\ j \in 1 .. n + 1 /\ s[i] = b[i] /\ s[j] = b[j]
        BY <1>1
      <4> QED BY <3>1, <4>1
    <3>3. n \in 1 .. n + 1 /\ n + 1 \in 1 .. n + 1 /\ s[n] = b[n]
      BY <1>1, <2>2
    <3>4. f.node = ChildAt(src, b[n])
      BY <1>1, <3>1, <3>3
    <3> QED BY <2>1, <2>2, <3>1, <3>2, <3>4 DEF Follows, n
  <2>4. ASSUME Follows(src, b), f.node = Wanted(src, b)
        PROVE  Follows(src, s)
    <3>1. b[1].node = src.root /\ \A i, j \in 1 .. n : j = i + 1 => b[j].node = ChildAt(src, b[i])
      BY <2>1, <2>4 DEF Follows, n
    <3>2. ASSUME NEW i \in 1 .. n + 1, NEW j \in 1 .. n + 1, j = i + 1
          PROVE  s[j].node = ChildAt(src, s[i])
      <4>1. i \in 1 .. n /\ s[i] = b[i] /\ (j \in 1 .. n \/ (j = n + 1 /\ i = n))
        BY <1>1, <3>2
      <4>2. CASE j \in 1 .. n
        BY <1>1, <3>1, <3>2, <4>1, <4>2
      <4>3. CASE j = n + 1 /\ i = n
        BY <1>1, <2>1, <2>4, <4>1, <4>3
      <4> QED BY <4>1, <4>2, <4>3
    <3> QED BY <1>1, <2>2, <3>1, <3>2 DEF Follows
  <2> QED BY <1>3, <2>3, <2>4 DEF s
<1> QED BY <1>4, <1>5

\* M has the maps of b, and others in the slots more.
SlotsOf(M, b, more) ==
  DOMAIN M = (1 .. Len(b)) \cup more /\ \A i \in 1 .. Len(b) : M[i] = MapOfCall(b[i])

Apart(b, t) == t \notin 1 .. Len(b) /\ 0 \notin 1 .. Len(b) /\ t # 0

LEMMA SlotsBelow ==
  ASSUME NEW src, NEW b \in Seq(Frames(src)), NEW M, M = MapsOf(b, None)
  PROVE  SlotsOf(M, b, {})
<1>1. \A i \in 1 .. Len(b) : i # 0
  OBVIOUS
<1> QED BY <1>1 DEF MapsOf, SlotsOf

LEMMA SlotsReturned ==
  ASSUME NEW src, NEW b \in Seq(Frames(src)), NEW r, NEW M, M = MapsOf(b, Some(r))
  PROVE  SlotsOf(M, b, {0}) /\ M[0] = r
<1>1. \A i \in 1 .. Len(b) : i # 0
  OBVIOUS
<1>2. Some(r) # None /\ Some(r)[1] = r
  BY DEF Some, None
<1> HIDE DEF Some, None
<1> QED BY <1>1, <1>2 DEF MapsOf, SlotsOf

LEMMA TopOf ==
  ASSUME NEW src, NEW b \in Seq(Frames(src)), NEW f \in Frames(src), NEW s, s = Append(b, f),
         NEW t, t = Len(b) + 1
  PROVE  1 .. Len(s) = (1 .. Len(b)) \cup {t} /\ s[t] = f /\ Apart(b, t) /\ \A i \in 1 .. Len(b) : s[i] = b[i]
<1>1. /\ Len(b) \in Nat /\ Len(s) = Len(b) + 1 /\ s[Len(b) + 1] = f
      /\ \A i \in 1 .. Len(b) : s[i] = b[i]
  BY Piled
<1> QED BY <1>1 DEF Apart

LEMMA SlotsOnTop ==
  ASSUME NEW src, NEW b \in Seq(Frames(src)), NEW f \in Frames(src), NEW M, M = MapsOf(Append(b, f), None),
         NEW t, t = Len(b) + 1
  PROVE  SlotsOf(M, b, {t}) /\ Apart(b, t) /\ M[t] = MapOfCall(f)
<1>1. PICK s : s = Append(b, f)
  OBVIOUS
<1>2. 1 .. Len(s) = (1 .. Len(b)) \cup {t} /\ s[t] = f /\ Apart(b, t) /\ \A i \in 1 .. Len(b) : s[i] = b[i]
  BY <1>1, TopOf
<1>3. M = MapsOf(s, None)
  BY <1>1
<1>4. DOMAIN M = (1 .. Len(b)) \cup {t} /\ M[t] = MapOfCall(f) /\ \A i \in 1 .. Len(b) : M[i] = MapOfCall(b[i])
  BY <1>2, <1>3 DEF MapsOf, Apart
<1> QED BY <1>2, <1>4 DEF SlotsOf

LEMMA SlotsAndResult ==
  ASSUME NEW src, NEW b \in Seq(Frames(src)), NEW f \in Frames(src), NEW r,
         NEW M, M = MapsOf(Append(b, f), Some(r)), NEW t, t = Len(b) + 1
  PROVE  SlotsOf(M, b, {t, 0}) /\ M[t] = MapOfCall(f) /\ M[0] = r
<1>1. PICK s : s = Append(b, f)
  OBVIOUS
<1>2. 1 .. Len(s) = (1 .. Len(b)) \cup {t} /\ s[t] = f /\ Apart(b, t) /\ \A i \in 1 .. Len(b) : s[i] = b[i]
  BY <1>1, TopOf
<1>3. Some(r) # None /\ Some(r)[1] = r
  BY DEF Some, None
<1> HIDE DEF Some, None
<1>4. M = MapsOf(s, Some(r))
  BY <1>1
<1>5. DOMAIN M = (1 .. Len(b)) \cup {t, 0} /\ M[0] = r /\ M[t] = MapOfCall(f)
      /\ \A i \in 1 .. Len(b) : M[i] = MapOfCall(b[i])
  BY <1>2, <1>3, <1>4 DEF MapsOf, Apart
<1> QED BY <1>5 DEF SlotsOf

LEMMA OverSlots ==
  ASSUME NEW b, NEW M, NEW more, SlotsOf(M, b, more), NEW N, NEW t, SlotsOf(N, b, {t}), t \notin 1 .. Len(b),
         NEW m, N[t] = m, NEW E, E = 1 .. Len(b)
  PROVE  Over(N, M, E, t, m)
  BY DEF SlotsOf, Over

-----------------------------------------------------------------------------
(* How far each call has come *)

\* A call for an internal node that has no map yet.
Begun(src, f) == f.out = Nil /\ f.idx = 0 /\ f.kv = None /\ src.heap[f.node].height # 0

\* The root of the map of f has the first m pairs of its node and copies of the
\* subtrees around them.
Copied(h, src, f, m) ==
  LET from == src.heap[f.node]
      to == h[f.out]
  IN  /\ to.height = from.height /\ m \in Nat /\ m <= Len(from.kv) /\ Len(to.kv) = m
      /\ \A j \in 1 .. m : to.kv[j] = from.kv[j]
      /\ from.height # 0 =>
           \A j \in 1 .. m + 1 : Shape(h, to.edges[j]) = Shape(src.heap, from.edges[j])

\* The call on top, and one that waits for the call above it.
Works(h, src, f) ==
  Begun(src, f) \/ (f.out # Nil /\ f.kv = None /\ Copied(h, src, f, f.idx))

Waits(h, src, f) ==
  \/ Begun(src, f)
  \/ /\ f.out # Nil /\ src.heap[f.node].height # 0
     /\ \E m \in Nat : /\ f.idx = m + 1 /\ m < Len(src.heap[f.node].kv)
                       /\ f.kv = Some(src.heap[f.node].kv[m + 1]) /\ Copied(h, src, f, m)

Pending(h, src, b) == Follows(src, b) /\ \A i \in 1 .. Len(b) : Waits(h, src, b[i])

LEMMA CopiedKept ==
  ASSUME NEW h, NEW tops, Grove(h, tops), NEW g, NEW others, Grove(g, others), NEW T, Matches(g, h, T),
         NEW src, NEW f, f.out \in T, NEW m, Copied(h, src, f, m)
  PROVE  Copied(g, src, f, m)
<1> DEFINE n == f.out
<1>1. n \in DOMAIN h /\ n \in T /\ g[n].kv = h[n].kv /\ g[n].edges = h[n].edges /\ g[n].height = h[n].height
      /\ \A i \in 1 .. Len(h[n].edges) : h[n].edges[i] \in T
  BY DEF Matches
<1>2. \A i \in 1 .. Len(h[n].edges) : Shape(g, h[n].edges[i]) = Shape(h, h[n].edges[i])
  BY <1>1, MatchShapes
<1>3. h[n].height = src.heap[f.node].height /\ m \in Nat /\ Len(h[n].kv) = m
  BY DEF Copied
<1>4. h[n].height # 0 => Len(h[n].edges) = m + 1
  BY <1>1, <1>3, WellFormedFacts DEF Grove
<1>5. src.heap[f.node].height # 0 =>
        \A j \in 1 .. m + 1 : Shape(g, g[n].edges[j]) = Shape(src.heap, src.heap[f.node].edges[j])
  <2> SUFFICES ASSUME src.heap[f.node].height # 0, NEW j \in 1 .. m + 1
               PROVE  Shape(g, g[n].edges[j]) = Shape(src.heap, src.heap[f.node].edges[j])
    OBVIOUS
  <2>1. Shape(h, h[n].edges[j]) = Shape(src.heap, src.heap[f.node].edges[j])
    BY DEF Copied
  <2>2. j \in 1 .. Len(h[n].edges)
    BY <1>3, <1>4
  <2> QED BY <1>1, <1>2, <2>1, <2>2
<1>6. /\ g[n].height = src.heap[f.node].height /\ m <= Len(src.heap[f.node].kv) /\ Len(g[n].kv) = m
      /\ \A j \in 1 .. m : g[n].kv[j] = src.heap[f.node].kv[j]
  BY <1>1 DEF Copied
<1> QED BY <1>3, <1>5, <1>6 DEF Copied

\* A step at x, the root of a map above those of b or a new node, leaves b as it is.
LEMMA PendingKept ==
  ASSUME NEW src, NEW h, NEW M, SoundMaps(h, M, src), NEW g, NEW N, SoundMaps(g, N, src),
         NEW x, NEW e, OnlyAt(g, h, x, e), NEW b, Pending(h, src, b),
         \A i \in 1 .. Len(b) : i \in DOMAIN M /\ M[i] = MapOfCall(b[i]) /\ M[i].root # x,
         x \in DOMAIN h => x \in RootsOf(M)
  PROVE  Pending(g, src, b)
<1>1. PICK tops : Grove(h, tops) /\ (x \in DOMAIN h => x \in tops)
  BY DEF SoundMaps
<1>2. PICK others : Grove(g, others)
  BY DEF SoundMaps
<1>3. Matches(g, h, DOMAIN h \ {x})
  BY <1>1, OthersMatch
<1>4. ASSUME NEW i \in 1 .. Len(b)
      PROVE  Waits(g, src, b[i])
  <2>1. PICK f : f = b[i]
    OBVIOUS
  <2>2. Waits(h, src, f)
    BY <2>1 DEF Pending
  <2>3. f.out # Nil => f.out \in DOMAIN h \ {x}
    <3>1. i \in DOMAIN M /\ M[i] = MapOfCall(f) /\ M[i].root # x /\ M[i].root = f.out
      BY <2>1 DEF MapOfCall
    <3>2. OwnMap(h, M[i], src)
      BY <3>1 DEF SoundMaps
    <3> QED BY <3>1, <3>2 DEF OwnMap
  <2>4. ASSUME NEW m, Copied(h, src, f, m), f.out # Nil
        PROVE  Copied(g, src, f, m)
    BY <1>1, <1>2, <1>3, <2>3, <2>4, CopiedKept
  <2>5. Waits(g, src, f)
    BY <2>2, <2>4 DEF Waits
  <2> QED BY <2>1, <2>5
<1> QED BY <1>4 DEF Pending

LEMMA SourceMatches ==
  ASSUME NEW src, LegalMap(src), src.root # Nil, NEW h, KeptIn(h, src)
  PROVE  Matches(h, src.heap, DOMAIN src.heap)
<1>1. \A n \in DOMAIN src.heap : \A i \in 1 .. Len(src.heap[n].edges) : src.heap[n].edges[i] \in DOMAIN src.heap
  BY SourceFacts, WellFormedFacts DEF Grove
<1> QED BY <1>1 DEF Matches, KeptIn

\* The source's subtrees look in the heap as they do in the source.
LEMMA SourceShapes ==
  ASSUME NEW src, LegalMap(src), src.root # Nil, NEW h, NEW tops, Grove(h, tops), KeptIn(h, src)
  PROVE  \A n \in DOMAIN src.heap : n \in DOMAIN h /\ Shape(h, n) = Shape(src.heap, n)
<1>1. Grove(src.heap, {src.root})
  BY SourceFacts
<1>2. Matches(h, src.heap, DOMAIN src.heap)
  BY SourceMatches
<1> QED BY <1>1, <1>2, MatchShapes DEF KeptIn

\* The node that a waiting call wants next is a child of its node.
LEMMA ChildThere ==
  ASSUME NEW src, LegalMap(src), src.root # Nil, NEW f \in Frames(src), NEW h, Waits(h, src, f),
         NEW n, n = ChildAt(src, f)
  PROVE  /\ n \in DOMAIN src.heap /\ src.heap[f.node].height # 0
         /\ src.heap[n].height = src.heap[f.node].height - 1
<1>1. PICK a : a = f.node
  OBVIOUS
<1>2. a \in DOMAIN src.heap /\ f.idx \in Nat
  BY <1>1 DEF Frames
<1>3. WellFormed(src.heap, {src.root})
  BY SourceFacts DEF Grove
<1>4. Len(src.heap[a].kv) \in Nat
  BY <1>2, <1>3 DEF WellFormed, HeapType, Node
<1>5. src.heap[a].height # 0 /\ f.idx <= Len(src.heap[a].kv)
  BY <1>1, <1>2, <1>4 DEF Waits, Begun
<1>6. PICK i \in Nat : i = f.idx + 1
  BY <1>2
<1>7. i \in 1 .. Len(src.heap[a].edges)
  BY <1>2, <1>3, <1>4, <1>5, <1>6, WellFormedFacts
<1>8. n = src.heap[a].edges[i]
  BY <1>1, <1>6 DEF ChildAt
<1> QED BY <1>1, <1>2, <1>3, <1>5, <1>7, <1>8, WellFormedFacts

LEMMA WantedThere ==
  ASSUME NEW src, LegalMap(src), src.root # Nil, NEW b \in Seq(Frames(src)), NEW h, Pending(h, src, b)
  PROVE  Wanted(src, b) \in DOMAIN src.heap
<1>1. CASE b = <<>>
  BY <1>1, SourceFacts DEF Wanted
<1>2. CASE b # <<>>
  <2>1. PICK f : f = b[Len(b)]
    OBVIOUS
  <2>2. Len(b) \in 1 .. Len(b) /\ f \in Frames(src)
    BY <1>2, <2>1
  <2>3. Waits(h, src, f)
    BY <2>1, <2>2 DEF Pending
  <2>4. Wanted(src, b) = ChildAt(src, f)
    BY <1>2, <2>1 DEF Wanted
  <2> QED BY <2>2, <2>3, <2>4, ChildThere
<1> QED BY <1>1, <1>2

-----------------------------------------------------------------------------
(* The steps of the cloning *)

\* f runs above the calls b.
Running(h, src, b, f) ==
  /\ b \in Seq(Frames(src)) /\ f \in Frames(src)
  /\ Pending(h, src, b) /\ f.node = Wanted(src, b) /\ Works(h, src, f)
  /\ SoundMaps(h, MapsOf(Append(b, f), None), src)

\* The map r is a copy of what the calls b wait for.
Returned(h, src, b, r) ==
  /\ b \in Seq(Frames(src)) /\ r \in MapRecord
  /\ Pending(h, src, b) /\ r.root # Nil /\ Shape(h, r.root) = Shape(src.heap, Wanted(src, b))
  /\ SoundMaps(h, MapsOf(b, Some(r)), src)

\* f is a new call for node n.
Called(h, g, n, f) ==
  \/ IsLeaf(h, n) /\ \E x : NewLeaf(h, g, x) /\ f = Frame(n, x, 0, 0, None)
  \/ ~IsLeaf(h, n) /\ g = h /\ f = Frame(n, Nil, 0, 0, None)

LEMMA CallRuns ==
  ASSUME NEW src, LegalMap(src), src.root # Nil, NEW h, NEW b \in Seq(Frames(src)), Pending(h, src, b),
         SoundMaps(h, MapsOf(b, None), src), NEW n, n = Wanted(src, b), NEW g, NEW f, Called(h, g, n, f)
  PROVE  Running(g, src, b, f)
<1> DEFINE S == src.heap
<1>1. n \in DOMAIN S
  BY WantedThere
<1>2. n \in DOMAIN h /\ h[n] = S[n]
  BY <1>1 DEF SoundMaps, KeptIn
<1>3. PICK E, t : E = 1 .. Len(b) /\ t = Len(b) + 1
  OBVIOUS
<1>4. PICK M : M = MapsOf(b, None)
  OBVIOUS
<1>5. SlotsOf(M, b, {})
  BY <1>4, SlotsBelow
<1>6. CASE ~IsLeaf(h, n) /\ g = h /\ f = Frame(n, Nil, 0, 0, None)
  <2>1. f \in Frames(src) /\ f.node = n /\ f.out = Nil /\ f.idx = 0 /\ f.kv = None
    BY <1>1, <1>6 DEF Frame, Frames, Option
  <2>2. Works(g, src, f)
    BY <1>2, <1>6, <2>1 DEF Works, Begun, IsLeaf
  <2>3. PICK N : N = MapsOf(Append(b, f), None)
    OBVIOUS
  <2>4. Over(N, M, DOMAIN M, t, MapOfCall(f))
    <3>1. SlotsOf(N, b, {t}) /\ Apart(b, t) /\ N[t] = MapOfCall(f)
      BY <1>3, <2>1, <2>3, SlotsOnTop
    <3>2. Over(N, M, E, t, MapOfCall(f))
      BY <1>3, <1>5, <3>1, OverSlots DEF Apart
    <3> QED BY <1>3, <1>5, <3>2 DEF SlotsOf
  <2>5. SoundMaps(g, N, src)
    <3>1. MapOfCall(f).root = Nil
      BY <2>1 DEF MapOfCall
    <3> QED BY <1>4, <1>6, <2>4, <3>1, NoMapPushed
  <2> QED BY <1>6, <2>1, <2>2, <2>3, <2>5 DEF Running
<1>7. ASSUME IsLeaf(h, n), NEW x, NewLeaf(h, g, x), f = Frame(n, x, 0, 0, None)
      PROVE  Running(g, src, b, f)
  <2>1. /\ f.node = n /\ f.out = x /\ f.idx = 0 /\ f.kv = None /\ f.length = 0
    BY <1>7 DEF Frame
  <2>2. x \in NodeId
    BY <1>7 DEF NewLeaf, CanAllocate, FreshNode
  <2>3. f \in Frames(src)
    BY <1>1, <1>7, <2>2 DEF Frame, Frames, Option
  <2>4. PICK N : N = MapsOf(Append(b, f), None)
    OBVIOUS
  <2>5. PICK m : m = MapOfCall(f)
    OBVIOUS
  <2>6. Over(N, M, DOMAIN M, t, m)
    <3>1. SlotsOf(N, b, {t}) /\ Apart(b, t) /\ N[t] = m
      BY <1>3, <2>3, <2>4, <2>5, SlotsOnTop
    <3>2. Over(N, M, E, t, m)
      BY <1>3, <1>5, <3>1, OverSlots DEF Apart
    <3> QED BY <1>3, <1>5, <3>2 DEF SlotsOf
  <2>7. m.root = x /\ m.length = 0
    BY <2>1, <2>5 DEF MapOfCall
  <2>8. SoundMaps(g, N, src)
    BY <1>4, <1>7, <2>6, <2>7, LeafMapPushed
  <2>9. OnlyAt(g, h, x, x) /\ x \notin DOMAIN h /\ x # Nil
    BY <1>4, <1>7, <2>6, <2>7, LeafMapPushed
  <2>10. g[x].height = 0 /\ g[x].kv = <<>>
    <3>1. g[x].height = 0
      BY <1>4, <1>7, <2>6, <2>7, LeafMapPushed
    <3>2. g[x].kv = <<>>
      BY <1>4, <1>7, <2>6, <2>7, LeafMapPushed
    <3> QED BY <3>1, <3>2
  <2>11. Pending(g, src, b)
    <3>1. \A i \in 1 .. Len(b) : i \in DOMAIN M /\ M[i] = MapOfCall(b[i]) /\ M[i].root # x
      <4>1. \A i \in 1 .. Len(b) : i \in DOMAIN M /\ M[i] = MapOfCall(b[i])
        BY <1>5 DEF SlotsOf
      <4>2. \A i \in DOMAIN M : OwnMap(h, M[i], src)
        BY <1>4 DEF SoundMaps
      <4> QED BY <2>9, <4>1, <4>2 DEF OwnMap
    <3> QED BY <1>4, <2>8, <2>9, <3>1, PendingKept
  <2>12. Works(g, src, f)
    <3>1. S[n].height = 0 /\ Len(S[n].kv) \in Nat
      <4>1. WellFormed(S, {src.root})
        BY SourceFacts DEF Grove
      <4> QED BY <1>1, <1>2, <1>7, <4>1 DEF IsLeaf, WellFormed, HeapType, Node
    <3>2. Copied(g, src, f, 0)
      BY <2>1, <2>10, <3>1 DEF Copied
    <3> QED BY <2>1, <2>9, <3>2 DEF Works
  <2> QED BY <2>1, <2>3, <2>4, <2>8, <2>11, <2>12 DEF Running
<1> QED BY <1>6, <1>7 DEF Called

\* What is known of a call with a map.
HalfWay(h, src, a, x, m) ==
  /\ x \in DOMAIN h /\ h[a] = src.heap[a] /\ a \in DOMAIN h
  /\ h[x].height = src.heap[a].height /\ Len(h[x].kv) = m /\ m \in Nat
  /\ m <= Len(src.heap[a].kv) /\ Len(src.heap[a].kv) <= CAPACITY
  /\ Len(src.heap[a].kv) \in Nat /\ CAPACITY \in Nat
  /\ \A j \in 1 .. Len(src.heap[a].kv) : src.heap[a].kv[j] \in KV

LEMMA CallFacts ==
  ASSUME NEW src, LegalMap(src), src.root # Nil, NEW h, NEW M, SoundMaps(h, M, src), NEW f \in Frames(src),
         NEW i \in DOMAIN M, M[i] = MapOfCall(f), f.out # Nil, NEW m, Copied(h, src, f, m),
         NEW a, a = f.node, NEW x, x = f.out
  PROVE  Rooted(M, i, x) /\ HalfWay(h, src, a, x, m)
<1>1. Rooted(M, i, f.out) /\ f.out \in DOMAIN h
  <2>1. OwnMap(h, M[i], src) /\ M[i].root = f.out
    BY DEF SoundMaps, MapOfCall
  <2> QED BY <2>1 DEF OwnMap, Rooted
<1>2. f.node \in DOMAIN src.heap
  BY DEF Frames
<1>3. h[f.node] = src.heap[f.node] /\ f.node \in DOMAIN h
  BY <1>2 DEF SoundMaps, KeptIn
<1>4. WellFormed(src.heap, {src.root}) /\ Roomy(src.heap)
  BY SourceFacts DEF Grove
<1>5. src.heap[f.node].kv \in Seq(KV) /\ Len(src.heap[f.node].kv) <= CAPACITY
  BY <1>2, <1>4 DEF WellFormed, HeapType, Node, Roomy
<1>6. CAPACITY \in Nat
  BY BAssumption DEF CAPACITY
<1>7. /\ h[x].height = src.heap[a].height /\ Len(h[x].kv) = m /\ m \in Nat /\ m <= Len(src.heap[a].kv)
  BY DEF Copied
<1>8. Len(src.heap[a].kv) \in Nat /\ \A j \in 1 .. Len(src.heap[a].kv) : src.heap[a].kv[j] \in KV
  BY <1>5
<1> QED BY ONLY a = f.node, x = f.out, <1>1, <1>3, <1>5, <1>6, <1>7, <1>8 DEF HalfWay

LEMMA PendingPiled ==
  ASSUME NEW src, NEW b \in Seq(Frames(src)), NEW f \in Frames(src), NEW h
  PROVE  Pending(h, src, Append(b, f)) <=> Pending(h, src, b) /\ f.node = Wanted(src, b) /\ Waits(h, src, f)
<1>1. PICK s, t : s = Append(b, f) /\ t = Len(b) + 1
  OBVIOUS
<1>2. 1 .. Len(s) = (1 .. Len(b)) \cup {t} /\ s[t] = f /\ \A i \in 1 .. Len(b) : s[i] = b[i]
  BY <1>1, TopOf
<1>3. (\A i \in 1 .. Len(s) : Waits(h, src, s[i]))
        <=> (\A i \in 1 .. Len(b) : Waits(h, src, b[i])) /\ Waits(h, src, f)
  BY <1>2
<1>4. Follows(src, s) <=> Follows(src, b) /\ f.node = Wanted(src, b)
  BY <1>1, FollowsOn
<1> QED BY <1>1, <1>3, <1>4 DEF Pending

\* A call with other fields.
CallFields(src, f, node, out, length, idx, kv) ==
  /\ f \in Frames(src) /\ f.node = node /\ f.out = out /\ f.length = length /\ f.idx = idx /\ f.kv = kv

LEMMA IdxAndKv ==
  ASSUME NEW src, NEW f \in Frames(src), NEW k \in Nat, NEW q \in Option(KV),
         NEW after, after = [f EXCEPT !.idx = k, !.kv = q]
  PROVE  CallFields(src, after, f.node, f.out, f.length, k, q)
<1> DEFINE O == Option(KV)
<1>1. q \in O
  BY DEF Frames
<1>2. f \in [node : DOMAIN src.heap, out : NodeId \cup {Nil}, length : Nat, idx : Nat, kv : O]
  BY DEF Frames
<1> HIDE DEF O
<1>3. Frames(src) = [node : DOMAIN src.heap, out : NodeId \cup {Nil}, length : Nat, idx : Nat, kv : O]
  BY DEF Frames, O
<1> QED BY <1>1, <1>2, <1>3 DEF CallFields

LEMMA LengthAndIdx ==
  ASSUME NEW src, NEW f \in Frames(src), NEW l \in Nat, NEW k \in Nat,
         NEW after, after = [f EXCEPT !.length = l, !.idx = k]
  PROVE  CallFields(src, after, f.node, f.out, l, k, f.kv)
<1> DEFINE O == Option(KV)
<1>1. f.kv \in O
  BY DEF Frames
<1>2. f \in [node : DOMAIN src.heap, out : NodeId \cup {Nil}, length : Nat, idx : Nat, kv : O]
  BY DEF Frames
<1> HIDE DEF O
<1>3. Frames(src) = [node : DOMAIN src.heap, out : NodeId \cup {Nil}, length : Nat, idx : Nat, kv : O]
  BY DEF Frames, O
<1> QED BY <1>1, <1>2, <1>3 DEF CallFields

LEMMA OutAndLength ==
  ASSUME NEW src, NEW f \in Frames(src), NEW o \in NodeId \cup {Nil}, NEW l \in Nat,
         NEW after, after = [f EXCEPT !.out = o, !.length = l]
  PROVE  CallFields(src, after, f.node, o, l, f.idx, f.kv)
<1> DEFINE O == Option(KV)
<1>1. f.kv \in O
  BY DEF Frames
<1>2. f \in [node : DOMAIN src.heap, out : NodeId \cup {Nil}, length : Nat, idx : Nat, kv : O]
  BY DEF Frames
<1> HIDE DEF O
<1>3. Frames(src) = [node : DOMAIN src.heap, out : NodeId \cup {Nil}, length : Nat, idx : Nat, kv : O]
  BY DEF Frames, O
<1> QED BY <1>1, <1>2, <1>3 DEF CallFields

LEMMA KvAndLength ==
  ASSUME NEW src, NEW f \in Frames(src), NEW q \in Option(KV), NEW l \in Nat,
         NEW after, after = [f EXCEPT !.kv = q, !.length = l]
  PROVE  CallFields(src, after, f.node, f.out, l, f.idx, q)
<1> DEFINE O == Option(KV)
<1>1. q \in O
  BY DEF Frames
<1>2. f \in [node : DOMAIN src.heap, out : NodeId \cup {Nil}, length : Nat, idx : Nat, kv : O]
  BY DEF Frames
<1> HIDE DEF O
<1>3. Frames(src) = [node : DOMAIN src.heap, out : NodeId \cup {Nil}, length : Nat, idx : Nat, kv : O]
  BY DEF Frames, O
<1> QED BY <1>1, <1>2, <1>3 DEF CallFields

LEMMA FirstCalled ==
  ASSUME NEW src, LegalMap(src), src.root # Nil, NEW h, NEW b, NEW f, Running(h, src, b, f), f.out = Nil,
         NEW n, n = descend(h, f.node, 0), NEW g, NEW called, Called(h, g, n, called)
  PROVE  Running(g, src, Append(b, f), called)
<1>1. b \in Seq(Frames(src)) /\ f \in Frames(src) /\ f.node \in DOMAIN src.heap
  BY DEF Running, Frames
<1>2. f.idx = 0 /\ Waits(h, src, f)
  BY DEF Running, Works, Waits, Begun
<1>3. Pending(h, src, Append(b, f))
  BY <1>1, <1>2, PendingPiled DEF Running
<1>4. h[f.node] = src.heap[f.node]
  BY <1>1 DEF Running, SoundMaps, KeptIn
<1>5. n = Wanted(src, Append(b, f))
  <2>1. n = ChildAt(src, f)
    BY <1>2, <1>4 DEF descend, ChildAt
  <2> QED BY <1>1, <2>1, FollowsOn
<1>6. Append(b, f) \in Seq(Frames(src))
  BY <1>1, AppendProperties
<1>7. SoundMaps(h, MapsOf(Append(b, f), None), src)
  BY DEF Running
<1> QED BY <1>3, <1>5, <1>6, <1>7, CallRuns

LEMMA InnerPairCloned ==
  ASSUME NEW src, LegalMap(src), src.root # Nil, NEW h, NEW b, NEW f, Running(h, src, b, f), f.out # Nil,
         f.idx < len(h, f.node), ~IsLeaf(h, f.node),
         NEW after, after = [f EXCEPT !.idx = @ + 1, !.kv = Some(h[f.node].kv[f.idx + 1])],
         NEW n, n = descend(h, f.node, f.idx + 1), NEW g, NEW called, Called(h, g, n, called)
  PROVE  Running(g, src, Append(b, after), called)
<1>1. b \in Seq(Frames(src)) /\ f \in Frames(src) /\ f.node \in DOMAIN src.heap /\ f.idx \in Nat
  BY DEF Running, Frames
<1>2. Copied(h, src, f, f.idx) /\ f.node = Wanted(src, b) /\ Pending(h, src, b)
  BY DEF Running, Works, Begun
<1>3. h[f.node] = src.heap[f.node]
  BY <1>1 DEF Running, SoundMaps, KeptIn
<1>4. PICK m \in Nat : m = f.idx
  BY <1>1
<1>5. PICK v : v = src.heap[f.node].kv[m + 1]
  OBVIOUS
<1>6. after = [f EXCEPT !.idx = m + 1, !.kv = Some(v)]
  BY <1>3, <1>4, <1>5
<1>7. m < Len(src.heap[f.node].kv) /\ src.heap[f.node].height # 0
  BY <1>3, <1>4 DEF len, IsLeaf
<1>8. v \in KV
  <2>1. src.heap[f.node].kv \in Seq(KV)
    BY <1>1, SourceFacts DEF Grove, WellFormed, HeapType, Node
  <2> QED BY <1>5, <1>7, <2>1
<1>9. /\ after \in Frames(src) /\ after.node = f.node /\ after.out = f.out /\ after.length = f.length
      /\ after.idx = m + 1 /\ after.kv = Some(v)
  <2>1. Some(v) \in Option(KV) /\ m + 1 \in Nat
    BY <1>8 DEF Option
  <2>2. CallFields(src, after, f.node, f.out, f.length, m + 1, Some(v))
    BY ONLY <1>1, <1>6, <2>1, IdxAndKv
  <2> QED BY <2>2 DEF CallFields
<1>10. Waits(h, src, after)
  <2>1. Copied(h, src, after, m)
    BY <1>2, <1>4, <1>9 DEF Copied
  <2> QED BY <1>5, <1>7, <1>9, <2>1 DEF Waits
<1>11. Pending(h, src, Append(b, after))
  BY ONLY <1>1, <1>2, <1>9, <1>10, PendingPiled
<1>12. n = Wanted(src, Append(b, after))
  <2>1. n = src.heap[f.node].edges[m + 1 + 1]
    BY <1>3, <1>4 DEF descend
  <2>2. n = ChildAt(src, after)
    BY <1>9, <2>1 DEF ChildAt
  <2> QED BY <1>1, <1>9, <2>2, FollowsOn
<1>13. Append(b, after) \in Seq(Frames(src))
  BY <1>1, <1>9, AppendProperties
<1>14. SoundMaps(h, MapsOf(Append(b, after), None), src)
  <2>1. PICK t : t = Len(b) + 1
    OBVIOUS
  <2>2. PICK M, N : M = MapsOf(Append(b, f), None) /\ N = MapsOf(Append(b, after), None)
    OBVIOUS
  <2>3. SlotsOf(M, b, {t}) /\ M[t] = MapOfCall(f)
    BY <1>1, <2>1, <2>2, SlotsOnTop
  <2>4. SlotsOf(N, b, {t}) /\ N[t] = MapOfCall(after)
    BY <1>1, <1>9, <2>1, <2>2, SlotsOnTop
  <2>5. MapOfCall(after) = MapOfCall(f)
    BY <1>9 DEF MapOfCall
  <2>6. DOMAIN N = DOMAIN M /\ \A i \in DOMAIN M : N[i] = M[i]
    BY <2>3, <2>4, <2>5 DEF SlotsOf
  <2>7. RootsOf(N) = RootsOf(M)
    BY <2>6 DEF RootsOf
  <2>8. SoundMaps(h, M, src)
    BY <2>2 DEF Running
  <2>9. SoundMaps(h, N, src)
    BY ONLY <2>6, <2>7, <2>8 DEF SoundMaps, Unshared
  <2> QED BY <2>2, <2>9
<1> QED BY <1>11, <1>12, <1>13, <1>14, CallRuns

LEMMA LeafPairCloned ==
  ASSUME NEW src, LegalMap(src), src.root # Nil, NEW h, NEW b, NEW f, Running(h, src, b, f), f.out # Nil,
         f.idx < len(h, f.node), IsLeaf(h, f.node),
         NEW g, g = leaf_push(h, f.out, h[f.node].kv[f.idx + 1]),
         NEW after, after = [f EXCEPT !.length = @ + 1, !.idx = @ + 1]
  PROVE  Running(g, src, b, after)
<1>1. /\ b \in Seq(Frames(src)) /\ f \in Frames(src) /\ f.node \in DOMAIN src.heap
      /\ f.idx \in Nat /\ f.length \in Nat
  BY DEF Running, Frames
<1>2. Copied(h, src, f, f.idx) /\ f.node = Wanted(src, b) /\ Pending(h, src, b) /\ f.kv = None
  BY DEF Running, Works, Begun
<1>3. PICK m \in Nat : m = f.idx
  BY <1>1
<1>4. PICK t, E, x : t = Len(b) + 1 /\ E = 1 .. Len(b) /\ x = f.out
  OBVIOUS
<1>5. /\ after \in Frames(src) /\ after.node = f.node /\ after.out = x /\ after.length = f.length + 1
      /\ after.idx = m + 1 /\ after.kv = None
  <2>1. PICK k, l : k = m + 1 /\ l = f.length + 1 /\ k \in Nat /\ l \in Nat
    BY <1>1
  <2>2. after = [f EXCEPT !.length = l, !.idx = k]
    BY <1>3, <2>1
  <2>3. CallFields(src, after, f.node, f.out, l, k, f.kv)
    BY ONLY <1>1, <2>1, <2>2, LengthAndIdx
  <2> QED BY <1>2, <1>4, <2>1, <2>3 DEF CallFields
<1>6. PICK M, N : M = MapsOf(Append(b, f), None) /\ N = MapsOf(Append(b, after), None)
  OBVIOUS
<1>7. SlotsOf(M, b, {t}) /\ M[t] = MapOfCall(f) /\ Apart(b, t)
  BY <1>1, <1>4, <1>6, SlotsOnTop
<1>8. SlotsOf(N, b, {t}) /\ N[t] = MapOfCall(after)
  BY ONLY <1>1, <1>4, <1>5, <1>6, SlotsOnTop
<1>9. PICK q : q = MapOfCall(after)
  OBVIOUS
<1>10. Over(N, M, E, t, q)
  BY <1>4, <1>7, <1>8, <1>9, OverSlots DEF Apart
<1>11. SoundMaps(h, M, src)
  BY <1>6 DEF Running
<1>12. DOMAIN M = E \cup {t} /\ t \notin E /\ t \in DOMAIN M
  BY <1>4, <1>7 DEF SlotsOf, Apart
<1>13. /\ Rooted(M, t, x) /\ x \in DOMAIN h /\ h[f.node] = src.heap[f.node]
       /\ h[x].height = src.heap[f.node].height /\ Len(h[x].kv) = m
       /\ Len(src.heap[f.node].kv) <= CAPACITY /\ Len(src.heap[f.node].kv) \in Nat /\ CAPACITY \in Nat
       /\ \A j \in 1 .. Len(src.heap[f.node].kv) : src.heap[f.node].kv[j] \in KV
  <2>1. Rooted(M, t, x) /\ HalfWay(h, src, f.node, x, m)
    BY ONLY LegalMap(src), src.root # Nil, f.out # Nil, <1>1, <1>2, <1>3, <1>4, <1>7, <1>11, <1>12, CallFacts
  <2> QED BY <2>1 DEF HalfWay
<1>14. PICK v : v = src.heap[f.node].kv[m + 1]
  OBVIOUS
<1>15. m < Len(src.heap[f.node].kv) /\ h[x].height = 0 /\ v \in KV /\ Len(h[x].kv) < CAPACITY
  BY <1>3, <1>13, <1>14 DEF len, IsLeaf
<1>16. g = leaf_push(h, x, v)
  BY <1>3, <1>4, <1>13, <1>14
<1>17. q.root = x /\ q.length = M[t].length + 1 /\ M[t].root = x /\ x # Nil
  BY <1>4, <1>5, <1>7, <1>9 DEF MapOfCall
<1>18. SoundMaps(g, N, src)
  BY <1>10, <1>11, <1>12, <1>15, <1>16, <1>17, PairPushedToMap
<1>19. OnlyAt(g, h, x, x) /\ x \in DOMAIN g
  BY <1>10, <1>11, <1>12, <1>15, <1>16, <1>17, PairPushedToMap
<1>20. g[x].height = 0
  BY <1>10, <1>11, <1>12, <1>15, <1>16, <1>17, PairPushedToMap
<1>21. Longer(g[x].kv, h[x].kv, v)
  BY <1>10, <1>11, <1>12, <1>15, <1>16, <1>17, PairPushedToMap
<1>22. Counts(h, M, t, x) /\ x \in RootsOf(M)
  BY <1>11, <1>13, RootOwned
<1>23. Pending(g, src, b)
  <2>1. \A i \in 1 .. Len(b) : i \in DOMAIN M /\ M[i] = MapOfCall(b[i]) /\ M[i].root # x
    BY <1>4, <1>7, <1>12, <1>22 DEF SlotsOf, Counts
  <2> QED BY <1>2, <1>11, <1>18, <1>19, <1>22, <2>1, PendingKept
<1>24. Copied(g, src, after, m + 1)
  <2>1. Len(g[x].kv) = m + 1 /\ g[x].kv[m + 1] = v /\ \A j \in 1 .. m : g[x].kv[j] = h[x].kv[j]
    BY <1>13, <1>21 DEF Longer
  <2>2. \A j \in 1 .. m : h[x].kv[j] = src.heap[f.node].kv[j]
    BY <1>2, <1>3, <1>4 DEF Copied
  <2>3. \A j \in 1 .. m + 1 : j \in 1 .. m \/ j = m + 1
    OBVIOUS
  <2>4. \A j \in 1 .. m + 1 : g[x].kv[j] = src.heap[f.node].kv[j]
    BY <1>14, <2>1, <2>2, <2>3
  <2>5. m + 1 <= Len(src.heap[f.node].kv) /\ src.heap[f.node].height = 0
    BY <1>13, <1>15
  <2> QED BY ONLY m \in Nat, <1>5, <1>20, <2>1, <2>4, <2>5 DEF Copied
<1>25. Works(g, src, after)
  BY <1>5, <1>17, <1>24 DEF Works
<1> QED BY <1>1, <1>2, <1>5, <1>6, <1>18, <1>23, <1>25 DEF Running

\* A node with all pairs and copies of all subtrees is a copy.
LEMMA WholeCopied ==
  ASSUME NEW h, NEW tops, Grove(h, tops), NEW S, NEW roots, Grove(S, roots),
         NEW a \in DOMAIN h, NEW b \in DOMAIN S, h[a].height = S[b].height, Len(h[a].kv) = Len(S[b].kv),
         \A j \in 1 .. Len(S[b].kv) : h[a].kv[j] = S[b].kv[j],
         S[b].height # 0 => \A j \in 1 .. Len(S[b].kv) + 1 : Shape(h, h[a].edges[j]) = Shape(S, S[b].edges[j])
  PROVE  Shape(h, a) = Shape(S, b)
<1>1. /\ Shape(h, a) = <<h[a].kv, [i \in 1 .. Len(h[a].edges) |-> Shape(h, h[a].edges[i])]>>
      /\ Shape(S, b) = <<S[b].kv, [i \in 1 .. Len(S[b].edges) |-> Shape(S, S[b].edges[i])]>>
  BY ShapeStep
<1>2. h[a].kv = S[b].kv
  <2>1. h[a].kv \in Seq(KV) /\ S[b].kv \in Seq(KV)
    BY DEF Grove, WellFormed, HeapType, Node
  <2> QED BY <2>1, SeqEqual
<1>3. /\ S[b].height = 0 => Len(h[a].edges) = 0 /\ Len(S[b].edges) = 0
      /\ S[b].height # 0 => Len(h[a].edges) = Len(S[b].kv) + 1 /\ Len(S[b].edges) = Len(S[b].kv) + 1
  BY WellFormedFacts DEF Grove
<1>4. PICK l : l = Len(S[b].edges)
  OBVIOUS
<1>5. Len(h[a].edges) = l /\ \A j \in 1 .. l : Shape(h, h[a].edges[j]) = Shape(S, S[b].edges[j])
  <2>1. CASE S[b].height = 0
    BY <1>3, <1>4, <2>1
  <2>2. CASE S[b].height # 0
    BY <1>3, <1>4, <2>2
  <2> QED BY <2>1, <2>2
<1>6. [i \in 1 .. Len(h[a].edges) |-> Shape(h, h[a].edges[i])] = [i \in 1 .. Len(S[b].edges) |-> Shape(S, S[b].edges[i])]
  BY ONLY <1>4, <1>5
<1> QED BY ONLY <1>1, <1>2, <1>6

LEMMA CallReturns ==
  ASSUME NEW src, LegalMap(src), src.root # Nil, NEW h, NEW b, NEW f, Running(h, src, b, f), f.out # Nil,
         ~(f.idx < len(h, f.node)), NEW r, r = [root |-> f.out, length |-> f.length]
  PROVE  Returned(h, src, b, r)
<1>1. /\ b \in Seq(Frames(src)) /\ f \in Frames(src) /\ f.node \in DOMAIN src.heap
      /\ f.idx \in Nat /\ f.length \in Nat /\ f.out \in NodeId
  BY DEF Running, Frames
<1>2. Copied(h, src, f, f.idx) /\ f.node = Wanted(src, b) /\ Pending(h, src, b)
  BY DEF Running, Works, Begun
<1>3. PICK m \in Nat : m = f.idx
  BY <1>1
<1>4. PICK t, E, x : t = Len(b) + 1 /\ E = 1 .. Len(b) /\ x = f.out
  OBVIOUS
<1>5. r = MapOfCall(f)
  BY DEF MapOfCall
<1>6. PICK M, N : M = MapsOf(Append(b, f), None) /\ N = MapsOf(b, Some(r))
  OBVIOUS
<1>7. SlotsOf(M, b, {t}) /\ M[t] = MapOfCall(f) /\ Apart(b, t)
  BY ONLY <1>1, <1>4, <1>6, SlotsOnTop
<1>8. SlotsOf(N, b, {0}) /\ N[0] = r
  BY ONLY <1>1, <1>6, SlotsReturned
<1>9. SoundMaps(h, M, src)
  BY <1>6 DEF Running
<1>10. DOMAIN M = E \cup {t} /\ t \notin E /\ t \in DOMAIN M
  BY <1>4, <1>7 DEF SlotsOf, Apart
<1>11. Over(N, M, E, 0, M[t])
  BY <1>4, <1>5, <1>7, <1>8, OverSlots DEF Apart
<1>12. SoundMaps(h, N, src)
  BY ONLY <1>9, <1>10, <1>11, MapMoved
<1>13. /\ x \in DOMAIN h /\ h[f.node] = src.heap[f.node]
       /\ h[x].height = src.heap[f.node].height /\ Len(h[x].kv) = m
       /\ m <= Len(src.heap[f.node].kv) /\ Len(src.heap[f.node].kv) \in Nat
  <2>1. HalfWay(h, src, f.node, x, m)
    BY ONLY LegalMap(src), src.root # Nil, f.out # Nil, <1>1, <1>2, <1>3, <1>4, <1>7, <1>9, <1>10, CallFacts
  <2> QED BY <2>1 DEF HalfWay
<1>14. Len(src.heap[f.node].kv) = m
  BY <1>3, <1>13 DEF len
<1>15. Shape(h, x) = Shape(src.heap, f.node)
  <2>1. Copied(h, src, f, m)
    BY <1>2, <1>3
  <2>2. /\ \A j \in 1 .. m : h[x].kv[j] = src.heap[f.node].kv[j]
        /\ src.heap[f.node].height # 0 =>
             \A j \in 1 .. m + 1 : Shape(h, h[x].edges[j]) = Shape(src.heap, src.heap[f.node].edges[j])
    BY <1>4, <2>1 DEF Copied
  <2>3. PICK tops : Grove(h, tops)
    BY <1>9 DEF SoundMaps
  <2>4. Grove(src.heap, {src.root})
    BY SourceFacts
  <2>5. PICK S, a : S = src.heap /\ a = f.node
    OBVIOUS
  <2>6. /\ x \in DOMAIN h /\ a \in DOMAIN S /\ h[x].height = S[a].height /\ Len(h[x].kv) = Len(S[a].kv)
        /\ Grove(S, {src.root})
    BY <1>1, <1>13, <1>14, <2>4, <2>5
  <2>7. /\ \A j \in 1 .. Len(S[a].kv) : h[x].kv[j] = S[a].kv[j]
        /\ S[a].height # 0 => \A j \in 1 .. Len(S[a].kv) + 1 : Shape(h, h[x].edges[j]) = Shape(S, S[a].edges[j])
    BY ONLY <1>14, <2>2, <2>5
  <2>8. Shape(h, x) = Shape(S, a)
    BY ONLY <2>3, <2>6, <2>7, WholeCopied
  <2> QED BY <2>5, <2>8
<1>16. r \in MapRecord /\ r.root = x /\ x # Nil
  BY <1>1, <1>4 DEF MapRecord
<1> QED BY <1>1, <1>2, <1>6, <1>12, <1>15, <1>16 DEF Returned

LEMMA LevelReturns ==
  ASSUME NEW src, LegalMap(src), src.root # Nil, NEW h, NEW b \in Seq(Frames(src)), NEW f \in Frames(src),
         NEW r, Returned(h, src, Append(b, f), r), f.out = Nil,
         NEW g, NEW x, NewRoot(h, g, x, r.root), NEW after, after = [f EXCEPT !.out = x, !.length = r.length]
  PROVE  Running(g, src, b, after)
<1>1. f.node \in DOMAIN src.heap /\ r.length \in Nat /\ r.root # Nil
  BY DEF Returned, Frames, MapRecord
<1>2. Pending(h, src, b) /\ f.node = Wanted(src, b) /\ Waits(h, src, f)
  BY PendingPiled DEF Returned
<1>3. f.idx = 0 /\ f.kv = None /\ src.heap[f.node].height # 0
  BY <1>2 DEF Waits, Begun
<1>4. PICK t, E, e : t = Len(b) + 1 /\ E = 1 .. Len(b) /\ e = r.root
  OBVIOUS
<1>5. x \in NodeId
  BY DEF NewRoot, CanAllocate, FreshNode
<1>6. CallFields(src, after, f.node, x, r.length, f.idx, f.kv)
  <2>1. PICK l \in Nat : l = r.length
    BY <1>1
  <2>2. after = [f EXCEPT !.out = x, !.length = l] /\ x \in NodeId \cup {Nil}
    BY <1>5, <2>1
  <2>3. CallFields(src, after, f.node, x, l, f.idx, f.kv)
    BY ONLY f \in Frames(src), l \in Nat, <2>2, OutAndLength
  <2> QED BY <2>1, <2>3
<1>7. /\ after \in Frames(src) /\ after.node = f.node /\ after.out = x /\ after.length = r.length
      /\ after.idx = 0 /\ after.kv = None
  BY <1>3, <1>6 DEF CallFields
<1>8. PICK M, N : M = MapsOf(Append(b, f), Some(r)) /\ N = MapsOf(Append(b, after), None)
  OBVIOUS
<1>9. SlotsOf(M, b, {t, 0}) /\ M[t] = MapOfCall(f) /\ M[0] = r
  BY ONLY b \in Seq(Frames(src)), f \in Frames(src), <1>4, <1>8, SlotsAndResult
<1>10. SlotsOf(N, b, {t}) /\ N[t] = MapOfCall(after) /\ Apart(b, t)
  BY ONLY b \in Seq(Frames(src)), <1>4, <1>7, <1>8, SlotsOnTop
<1>11. PICK q : q = MapOfCall(after)
  OBVIOUS
<1>12. Over(N, M, E, t, q)
  BY ONLY <1>4, <1>9, <1>10, <1>11, OverSlots DEF Apart
<1>13. SoundMaps(h, M, src)
  BY <1>8 DEF Returned
<1>14. DOMAIN M = E \cup {t, 0} /\ t \notin E /\ 0 \notin E
  BY <1>4, <1>9, <1>10 DEF SlotsOf, Apart
<1>15. M[t].root = Nil /\ Rooted(M, 0, e) /\ NewRoot(h, g, x, e)
  BY <1>1, <1>4, <1>9, <1>14 DEF MapOfCall, Rooted
<1>16. q.root = x /\ q.length = M[0].length
  BY <1>7, <1>9, <1>11 DEF MapOfCall
<1>17. SoundMaps(g, N, src) /\ Rises(h, g, x, e) /\ e \in DOMAIN h
  BY ONLY LegalMap(src), src.root # Nil, <1>12, <1>13, <1>14, <1>15, <1>16, LevelMapPushed
<1>18. x \notin DOMAIN h /\ x # Nil /\ OnlyAt(g, h, x, e) /\ g[x].height = h[e].height + 1
       /\ g[x].kv = <<>> /\ g[x].edges = <<e>>
  BY <1>17 DEF Rises
<1>19. Pending(g, src, b)
  <2>1. \A i \in 1 .. Len(b) : i \in DOMAIN M /\ M[i] = MapOfCall(b[i])
    BY <1>9 DEF SlotsOf
  <2>2. \A i \in DOMAIN M : OwnMap(h, M[i], src)
    BY <1>13 DEF SoundMaps
  <2>3. \A i \in 1 .. Len(b) : M[i].root # x
    BY <1>18, <2>1, <2>2 DEF OwnMap
  <2> QED BY <1>2, <1>13, <1>17, <1>18, <2>1, <2>3, PendingKept
<1>20. PICK tops : Grove(h, tops) /\ KeptIn(h, src)
  BY <1>13 DEF SoundMaps
<1>21. PICK others : Grove(g, others)
  BY <1>17 DEF SoundMaps
<1>22. PICK a, c : a = f.node /\ c = src.heap[a].edges[1]
  OBVIOUS
<1>23. c = ChildAt(src, f) /\ c = Wanted(src, Append(b, f))
  <2>1. c = ChildAt(src, f)
    BY <1>3, <1>22 DEF ChildAt
  <2> QED BY <2>1, FollowsOn
<1>24. c \in DOMAIN src.heap /\ src.heap[c].height = src.heap[a].height - 1
  BY <1>2, <1>22, <1>23, ChildThere
<1>25. Shape(h, e) = Shape(src.heap, c)
  BY <1>4, <1>23 DEF Returned
<1>26. c \in DOMAIN h /\ Shape(h, e) = Shape(h, c) /\ h[c] = src.heap[c]
  BY <1>20, <1>24, <1>25, SourceShapes DEF KeptIn
<1>27. h[e].height = src.heap[c].height
  BY <1>17, <1>20, <1>26, SameShapeSameSize
<1>28. src.heap[a].height \in Nat
  BY <1>1, <1>22, SourceFacts DEF Grove, WellFormed, HeapType, Node
<1>29. g[x].height = src.heap[a].height
  BY <1>18, <1>24, <1>27, <1>28
<1>30. Shape(g, e) = Shape(src.heap, c)
  <2>1. x \in DOMAIN h => x \in tops
    BY <1>18
  <2>2. Matches(g, h, DOMAIN h \ {x})
    BY <1>18, <1>20, <2>1, OthersMatch
  <2>3. e \in DOMAIN h \ {x}
    BY <1>17, <1>18
  <2> QED BY <1>20, <1>21, <1>25, <2>2, <2>3, MatchShapes
<1>31. Copied(g, src, after, 0)
  <2>1. Len(src.heap[a].kv) \in Nat
    BY <1>1, <1>22, SourceFacts DEF Grove, WellFormed, HeapType, Node
  <2>2. Len(g[x].kv) = 0 /\ g[x].edges[1] = e
    BY <1>18
  <2>3. \A j \in 1 .. 0 + 1 : Shape(g, g[x].edges[j]) = Shape(src.heap, src.heap[a].edges[j])
    <3> TAKE j \in 1 .. 0 + 1
    <3>1. j = 1
      OBVIOUS
    <3> QED BY <1>22, <1>30, <2>2, <3>1
  <2> QED BY ONLY <1>7, <1>22, <1>29, <2>1, <2>2, <2>3 DEF Copied
<1>32. Works(g, src, after)
  BY <1>7, <1>18, <1>31 DEF Works
<1> QED BY <1>2, <1>7, <1>8, <1>17, <1>19, <1>32 DEF Running

LEMMA SubtreeReturns ==
  ASSUME NEW src, LegalMap(src), src.root # Nil, NEW h, NEW b \in Seq(Frames(src)), NEW f \in Frames(src),
         NEW r, Returned(h, src, Append(b, f), r), f.out # Nil,
         NEW g, g = internal_push(h, f.out, f.kv[1], r.root),
         NEW after, after = [f EXCEPT !.kv = None, !.length = @ + 1 + r.length]
  PROVE  Running(g, src, b, after)
<1>1. f.node \in DOMAIN src.heap /\ f.length \in Nat /\ r.length \in Nat /\ r.root # Nil
  BY DEF Returned, Frames, MapRecord
<1>2. Pending(h, src, b) /\ f.node = Wanted(src, b) /\ Waits(h, src, f)
  BY PendingPiled DEF Returned
<1>3. PICK a : a = f.node
  OBVIOUS
<1>4. PICK m \in Nat : /\ f.idx = m + 1 /\ m < Len(src.heap[a].kv)
                       /\ f.kv = Some(src.heap[a].kv[m + 1]) /\ Copied(h, src, f, m)
                       /\ src.heap[a].height # 0
  BY <1>2, <1>3 DEF Waits, Begun
<1>5. PICK t, E, e, x, v : /\ t = Len(b) + 1 /\ E = 1 .. Len(b) /\ e = r.root /\ x = f.out
                           /\ v = src.heap[a].kv[m + 1]
  OBVIOUS
<1>6. CallFields(src, after, a, x, f.length + 1 + r.length, m + 1, None)
  <2>1. PICK l \in Nat : l = f.length + 1 + r.length
    BY <1>1
  <2>2. after = [f EXCEPT !.kv = None, !.length = l] /\ None \in Option(KV)
    BY <2>1 DEF Option
  <2>3. CallFields(src, after, f.node, f.out, l, f.idx, None)
    BY ONLY f \in Frames(src), l \in Nat, <2>2, KvAndLength
  <2> QED BY <1>3, <1>4, <1>5, <2>1, <2>3
<1>7. /\ after \in Frames(src) /\ after.node = a /\ after.out = x /\ after.length = f.length + 1 + r.length
      /\ after.idx = m + 1 /\ after.kv = None
  BY <1>6 DEF CallFields
<1>8. PICK M, N : M = MapsOf(Append(b, f), Some(r)) /\ N = MapsOf(Append(b, after), None)
  OBVIOUS
<1>9. SlotsOf(M, b, {t, 0}) /\ M[t] = MapOfCall(f) /\ M[0] = r
  <2>1. t = Len(b) + 1 /\ M = MapsOf(Append(b, f), Some(r))
    BY <1>5, <1>8
  <2> QED BY ONLY b \in Seq(Frames(src)), f \in Frames(src), <2>1, SlotsAndResult
<1>10. SlotsOf(N, b, {t}) /\ N[t] = MapOfCall(after) /\ Apart(b, t)
  BY ONLY b \in Seq(Frames(src)), <1>5, <1>7, <1>8, SlotsOnTop
<1>11. PICK q : q = MapOfCall(after)
  OBVIOUS
<1>12. Over(N, M, E, t, q)
  BY ONLY <1>5, <1>9, <1>10, <1>11, OverSlots DEF Apart
<1>13. SoundMaps(h, M, src)
  BY <1>8 DEF Returned
<1>14. DOMAIN M = E \cup {t, 0} /\ t \notin E /\ 0 \notin E /\ t # 0 /\ t \in DOMAIN M
  BY <1>5, <1>9, <1>10 DEF SlotsOf, Apart
<1>15. /\ Rooted(M, t, x) /\ x \in DOMAIN h
       /\ h[x].height = src.heap[a].height /\ Len(h[x].kv) = m
       /\ m <= Len(src.heap[a].kv) /\ Len(src.heap[a].kv) <= CAPACITY
       /\ Len(src.heap[a].kv) \in Nat /\ CAPACITY \in Nat
       /\ \A j \in 1 .. Len(src.heap[a].kv) : src.heap[a].kv[j] \in KV
  <2>1. Rooted(M, t, x) /\ HalfWay(h, src, a, x, m)
    BY ONLY LegalMap(src), src.root # Nil, f \in Frames(src), f.out # Nil,
            <1>3, <1>4, <1>5, <1>9, <1>13, <1>14, CallFacts
  <2> QED BY <2>1 DEF HalfWay
<1>16. Rooted(M, 0, e) /\ x # Nil
  BY <1>1, <1>5, <1>9, <1>14 DEF Rooted
<1>17. q.root = x /\ q.length = M[t].length + 1 + M[0].length
  BY <1>7, <1>9, <1>11 DEF MapOfCall
<1>18. PICK tops : Grove(h, tops) /\ KeptIn(h, src)
  BY <1>13 DEF SoundMaps
\* The result is as high as the child that was to be cloned.
<1>19. PICK i, c : i = m + 2 /\ c = src.heap[a].edges[i]
  OBVIOUS
<1>20. c = ChildAt(src, f) /\ c = Wanted(src, Append(b, f))
  <2>1. c = ChildAt(src, f)
    BY <1>3, <1>4, <1>19 DEF ChildAt
  <2> QED BY <2>1, FollowsOn
<1>21. c \in DOMAIN src.heap /\ src.heap[c].height = src.heap[a].height - 1
  BY <1>2, <1>3, <1>20, ChildThere
<1>22. Shape(h, e) = Shape(src.heap, c)
  BY <1>5, <1>20 DEF Returned
<1>23. c \in DOMAIN h /\ Shape(h, e) = Shape(h, c) /\ h[c] = src.heap[c]
  BY <1>18, <1>21, <1>22, SourceShapes DEF KeptIn
<1>24. e \in DOMAIN h
  <2>1. OwnMap(h, M[0], src)
    BY <1>13, <1>14 DEF SoundMaps
  <2> QED BY <1>1, <1>5, <1>9, <2>1 DEF OwnMap
<1>25. h[e].height = src.heap[c].height
  BY <1>18, <1>23, <1>24, SameShapeSameSize
<1>26. h[x].height # 0 /\ h[e].height = h[x].height - 1
  BY <1>4, <1>15, <1>21, <1>25
<1>27. v \in KV /\ Len(h[x].kv) < CAPACITY /\ g = internal_push(h, x, v, e)
  <2>1. v \in KV /\ Len(h[x].kv) < CAPACITY
    BY <1>4, <1>5, <1>15
  <2>2. f.kv[1] = v
    BY <1>4, <1>5 DEF Some
  <2> QED BY <1>5, <2>1, <2>2
<1>28. Pushed(h, g, x, v, e)
  BY <1>26, <1>27 DEF Pushed
<1>29. /\ SoundMaps(g, N, src) /\ Grows(h, g, x, v, e)
       /\ x \in DOMAIN h /\ e \in DOMAIN h /\ e # x /\ x \notin DOMAIN src.heap
  BY ONLY LegalMap(src), src.root # Nil, <1>12, <1>13, <1>14, <1>15, <1>16, <1>17, <1>28, SubtreeMapPushed
<1>30. /\ OnlyAt(g, h, x, e) /\ DOMAIN g = DOMAIN h
       /\ g[x].height = h[x].height /\ Longer(g[x].kv, h[x].kv, v) /\ Longer(g[x].edges, h[x].edges, e)
  BY <1>29 DEF Grows
<1>31. Counts(h, M, t, x) /\ x \in RootsOf(M)
  BY <1>13, <1>15, RootOwned
<1>32. Pending(g, src, b)
  <2>1. \A j \in 1 .. Len(b) : j \in DOMAIN M /\ M[j] = MapOfCall(b[j]) /\ M[j].root # x
    BY <1>5, <1>9, <1>14, <1>31 DEF SlotsOf, Counts
  <2> QED BY <1>2, <1>13, <1>29, <1>30, <1>31, <2>1, PendingKept
<1>33. PICK others : Grove(g, others)
  BY <1>29 DEF SoundMaps
<1>34. Matches(g, h, DOMAIN h \ {x})
  <2>1. Grove(h, {src.root} \cup RootsOf(M)) /\ (x \in DOMAIN h => x \in {src.root} \cup RootsOf(M))
    BY <1>13, <1>31 DEF SoundMaps
  <2> QED BY <1>30, <2>1, OthersMatch
<1>35. \A d \in DOMAIN h : d # x => Shape(g, d) = Shape(h, d)
  BY <1>18, <1>33, <1>34, MatchShapes
<1>36. Len(h[x].edges) = m + 1 /\ \A j \in 1 .. m + 1 : h[x].edges[j] \in DOMAIN h /\ h[x].edges[j] # x
  <2>1. WellFormed(h, tops)
    BY <1>18 DEF Grove
  <2>2. Len(h[x].edges) = m + 1
    BY <1>15, <1>26, <2>1, WellFormedFacts
  <2>3. \A j \in 1 .. Len(h[x].edges) : h[x].edges[j] \in DOMAIN h /\ h[h[x].edges[j]].height = h[x].height - 1
    BY <1>15, <2>1, WellFormedFacts
  <2>4. h[x].height \in Nat
    BY <1>15, <2>1 DEF WellFormed, HeapType, Node
  <2>5. \A d : h[d].height = h[x].height - 1 => d # x
    BY <2>4
  <2> QED BY <2>2, <2>3, <2>5
<1>37. Copied(g, src, after, m + 1)
  <2>1. Len(g[x].kv) = m + 1 /\ g[x].kv[m + 1] = v /\ \A j \in 1 .. m : g[x].kv[j] = h[x].kv[j]
    BY <1>15, <1>30 DEF Longer
  <2>2. /\ \A j \in 1 .. m : h[x].kv[j] = src.heap[a].kv[j]
        /\ \A j \in 1 .. m + 1 : Shape(h, h[x].edges[j]) = Shape(src.heap, src.heap[a].edges[j])
    BY <1>3, <1>4, <1>5 DEF Copied
  <2>3. \A j \in 1 .. m + 1 : g[x].kv[j] = src.heap[a].kv[j]
    <3>1. \A j \in 1 .. m + 1 : j \in 1 .. m \/ j = m + 1
      OBVIOUS
    <3> QED BY <1>5, <2>1, <2>2, <3>1
  <2>4. g[x].edges[i] = e /\ \A j \in 1 .. m + 1 : g[x].edges[j] = h[x].edges[j]
    <3>1. Longer(g[x].edges, h[x].edges, e) /\ Len(h[x].edges) + 1 = i
      BY <1>19, <1>30, <1>36
    <3> QED BY <1>36, <3>1 DEF Longer
  <2>5. ASSUME NEW j \in 1 .. m + 1 + 1
        PROVE  Shape(g, g[x].edges[j]) = Shape(src.heap, src.heap[a].edges[j])
    <3>1. CASE j \in 1 .. m + 1
      BY <1>35, <1>36, <2>2, <2>4, <3>1
    <3>2. CASE j = i
      BY <1>19, <1>22, <1>24, <1>29, <1>35, <2>4, <3>2
    <3> QED BY <1>19, <3>1, <3>2
  <2>6. m + 1 <= Len(src.heap[a].kv) /\ g[x].height = src.heap[a].height
    <3>1. m < Len(src.heap[a].kv) /\ Len(src.heap[a].kv) \in Nat
      BY <1>4, <1>15
    <3>2. g[x].height = src.heap[a].height
      BY ONLY <1>15, <1>30
    <3> QED BY ONLY m \in Nat, <3>1, <3>2
  <2> QED BY ONLY m \in Nat, <1>7, <2>1, <2>3, <2>5, <2>6 DEF Copied
<1>38. Works(g, src, after)
  BY <1>7, <1>16, <1>37 DEF Works
<1> QED BY <1>2, <1>3, <1>7, <1>8, <1>29, <1>32, <1>38 DEF Running

-----------------------------------------------------------------------------
(* The inductive invariant *)

CloneInv ==
  /\ source \in Maps /\ LegalMap(source)
  /\ pc \in {"idle", "cloning", "unwinding", "panicked", "done"}
  /\ pc = "idle" => heap = source.heap /\ stack = <<>> /\ result = None
  /\ pc \in {"cloning", "unwinding", "panicked"} => source.root # Nil /\ source.length # 0
  /\ pc = "cloning" =>
       \/ result = None /\ \E b, f : stack = Append(b, f) /\ Running(heap, source, b, f)
       \/ \E r : result = Some(r) /\ Returned(heap, source, stack, r)
  /\ pc \in {"unwinding", "panicked"} =>
       result = None /\ stack \in Seq(Frames(source)) /\ SoundMaps(heap, MapsOf(stack, None), source)
  /\ pc = "panicked" => stack = <<>>
  /\ pc = "done" =>
       /\ stack = <<>>
       /\ \E r : /\ result = Some(r)
                 /\ \/ source.length = 0 /\ heap = source.heap /\ r = [root |-> Nil, length |-> 0]
                    \/ source.length # 0 /\ source.root # Nil /\ Returned(heap, source, <<>>, r)

LEMMA StackTop ==
  ASSUME NEW src, NEW b \in Seq(Frames(src)), NEW f \in Frames(src), stack = Append(b, f)
  PROVE  stack # <<>> /\ Top = f /\ Below = b
<1>1. /\ Append(b, f) # <<>> /\ Len(Append(b, f)) = Len(b) + 1 /\ Append(b, f)[Len(b) + 1] = f
      /\ SubSeq(Append(b, f), 1, Len(Append(b, f)) - 1) = b
  BY Piled
<1> QED BY <1>1 DEF Top, Below

LEMMA CallMade ==
  ASSUME NEW s, NEW n, Call(s, n)
  PROVE  \E f : Called(heap, heap', n, f) /\ stack' = Append(s, f)
<1>1. CASE IsLeaf(heap, n)
  <2>1. PICK x : x = FreshNode(heap)
    OBVIOUS
  <2>2. NewLeaf(heap, heap', x) /\ stack' = Append(s, Frame(n, x, 0, 0, None))
    BY <1>1, <2>1 DEF Call, NewLeaf
  <2> QED BY <1>1, <2>2 DEF Called
<1>2. CASE ~IsLeaf(heap, n)
  BY <1>2 DEF Call, Called
<1> QED BY <1>1, <1>2

LEMMA NoneLeft ==
  ASSUME NEW src
  PROVE  <<>> \in Seq(Frames(src)) /\ DOMAIN MapsOf(<<>>, None) = {} /\ RootsOf(MapsOf(<<>>, None)) = {}
         /\ \A h : Pending(h, src, <<>>)
<1>1. <<>> \in Seq(Frames(src)) /\ Len(<<>>) = 0
  OBVIOUS
<1>2. DOMAIN MapsOf(<<>>, None) = {}
  BY <1>1 DEF MapsOf
<1>3. \A h : Pending(h, src, <<>>)
  BY <1>1 DEF Pending, Follows
<1> QED BY <1>1, <1>2, <1>3 DEF RootsOf

LEMMA NotNone ==
  ASSUME NEW r
  PROVE  Some(r) # None /\ Some(r)[1] = r /\ \A q : Some(q) = Some(r) => q = r
  BY DEF Some, None

LEMMA CloneInitial == Init => CloneInv
  BY MapsAssumption DEF Init, CloneInv

LEMMA CloneStep == CloneInv /\ [Next]_vars => CloneInv'
<1> SUFFICES ASSUME CloneInv, [Next]_vars PROVE CloneInv'
  OBVIOUS
<1> USE DEF CloneInv
<1>1. CASE CloneEmpty
  <2>1. PICK r : r = [root |-> Nil, length |-> 0]
    OBVIOUS
  <2> QED BY <1>1, <2>1 DEF CloneEmpty
<1>2. CASE CloneBegin
  <2>1. /\ heap = source.heap /\ source.length # 0 /\ Call(<<>>, source.root) /\ result = None
        /\ pc' = "cloning" /\ UNCHANGED <<source, result>> /\ LegalMap(source)
    BY <1>2 DEF CloneBegin
  <2>2. source.root # Nil
    BY <2>1, LegalOrder
  <2>3. PICK f : Called(heap, heap', source.root, f) /\ stack' = Append(<<>>, f)
    BY <2>1, CallMade
  <2>4. SoundMaps(heap, MapsOf(<<>>, None), source)
    <3>1. Grove(heap, {source.root} \cup RootsOf(MapsOf(<<>>, None)))
      BY <2>1, <2>2, SourceFacts, NoneLeft
    <3> QED BY <2>1, <3>1, NoneLeft DEF SoundMaps, KeptIn, Unshared
  <2>5. Running(heap', source, <<>>, f)
    <3>1. source.root = Wanted(source, <<>>)
      BY DEF Wanted
    <3>2. <<>> \in Seq(Frames(source)) /\ Pending(heap, source, <<>>)
      BY NoneLeft
    <3> QED BY <2>1, <2>2, <2>3, <2>4, <3>1, <3>2, CallRuns
  <2> QED BY <2>1, <2>2, <2>3, <2>5
<1>3. CASE CloneFirst
  <2>1. /\ pc = "cloning" /\ result = None /\ Top.out = Nil /\ Call(stack, descend(heap, Top.node, 0))
        /\ UNCHANGED <<source, result, pc>>
    BY <1>3 DEF CloneFirst
  <2>2. PICK b, f : stack = Append(b, f) /\ Running(heap, source, b, f)
    BY <2>1, NotNone
  <2>3. Top = f /\ Below = b
    BY <2>2, StackTop DEF Running
  <2>4. PICK n, called : n = descend(heap, f.node, 0) /\ Called(heap, heap', n, called) /\ stack' = Append(stack, called)
    BY <2>1, <2>3, CallMade
  <2>5. Running(heap', source, Append(b, f), called)
    BY <2>1, <2>2, <2>3, <2>4, FirstCalled
  <2> QED BY <2>1, <2>2, <2>4, <2>5
<1>4. CASE CloneLeafPair
  <2>1. /\ pc = "cloning" /\ result = None /\ Top.out # Nil /\ Top.idx < len(heap, Top.node)
        /\ IsLeaf(heap, Top.node) /\ heap' = leaf_push(heap, Top.out, heap[Top.node].kv[Top.idx + 1])
        /\ stack' = Append(Below, [Top EXCEPT !.length = @ + 1, !.idx = @ + 1])
        /\ UNCHANGED <<source, result, pc>>
    BY <1>4 DEF CloneLeafPair, HasPair
  <2>2. PICK b, f : stack = Append(b, f) /\ Running(heap, source, b, f)
    BY <2>1, NotNone
  <2>3. Top = f /\ Below = b
    BY <2>2, StackTop DEF Running
  <2>4. PICK after : after = [f EXCEPT !.length = @ + 1, !.idx = @ + 1]
    OBVIOUS
  <2>5. Running(heap', source, b, after)
    BY <2>1, <2>2, <2>3, <2>4, LeafPairCloned
  <2> QED BY <2>1, <2>3, <2>4, <2>5
<1>5. CASE CloneInternalPair
  <2>1. /\ pc = "cloning" /\ result = None /\ Top.out # Nil /\ Top.idx < len(heap, Top.node)
        /\ ~IsLeaf(heap, Top.node)
        /\ Call(Append(Below, [Top EXCEPT !.idx = @ + 1, !.kv = Some(heap[Top.node].kv[Top.idx + 1])]),
                descend(heap, Top.node, Top.idx + 1))
        /\ UNCHANGED <<source, result, pc>>
    BY <1>5 DEF CloneInternalPair, HasPair
  <2>2. PICK b, f : stack = Append(b, f) /\ Running(heap, source, b, f)
    BY <2>1, NotNone
  <2>3. Top = f /\ Below = b
    BY <2>2, StackTop DEF Running
  <2>4. PICK after : after = [f EXCEPT !.idx = @ + 1, !.kv = Some(heap[f.node].kv[f.idx + 1])]
    OBVIOUS
  <2>5. PICK n : n = descend(heap, f.node, f.idx + 1)
    OBVIOUS
  <2>6. PICK called : Called(heap, heap', n, called) /\ stack' = Append(Append(b, after), called)
    BY <2>1, <2>3, <2>4, <2>5, CallMade
  <2>7. Running(heap', source, Append(b, after), called)
    BY <2>1, <2>2, <2>3, <2>4, <2>5, <2>6, InnerPairCloned
  <2> QED BY <2>1, <2>6, <2>7
<1>6. CASE CloneReturn
  <2>1. /\ pc = "cloning" /\ result = None /\ Top.out # Nil /\ ~(Top.idx < len(heap, Top.node))
        /\ result' = Some([root |-> Top.out, length |-> Top.length]) /\ stack' = Below
        /\ UNCHANGED <<source, heap, pc>>
    BY <1>6 DEF CloneReturn, HasPair
  <2>2. PICK b, f : stack = Append(b, f) /\ Running(heap, source, b, f)
    BY <2>1, NotNone
  <2>3. Top = f /\ Below = b
    BY <2>2, StackTop DEF Running
  <2>4. PICK r : r = [root |-> f.out, length |-> f.length]
    OBVIOUS
  <2>5. Returned(heap, source, b, r)
    BY <2>1, <2>2, <2>3, <2>4, CallReturns
  <2> QED BY <2>1, <2>3, <2>4, <2>5
<1>7. CASE PushLevel
  <2>1. PICK x : /\ pc = "cloning" /\ result # None /\ stack # <<>> /\ Top.out = Nil
                 /\ NewRoot(heap, heap', x, result[1].root)
                 /\ stack' = Append(Below, [Top EXCEPT !.out = x, !.length = result[1].length])
                 /\ result' = None /\ UNCHANGED <<source, pc>>
    BY <1>7 DEF PushLevel, NewRoot
  <2>2. PICK r : result = Some(r) /\ Returned(heap, source, stack, r)
    BY <2>1
  <2>3. result[1] = r /\ stack \in Seq(Frames(source))
    BY <2>2, NotNone DEF Returned
  <2>4. PICK b \in Seq(Frames(source)), f \in Frames(source) : stack = Append(b, f)
    BY <2>1, <2>3, Unpiled
  <2>5. Top = f /\ Below = b
    BY <2>4, StackTop
  <2>6. PICK after : after = [f EXCEPT !.out = x, !.length = r.length]
    OBVIOUS
  <2>7. NewRoot(heap, heap', x, r.root) /\ stack' = Append(b, after) /\ f.out = Nil
    BY <2>1, <2>3, <2>5, <2>6
  <2>8. Running(heap', source, b, after)
    BY <2>1, <2>2, <2>4, <2>6, <2>7, LevelReturns
  <2> QED BY <2>1, <2>7, <2>8
<1>8. CASE PushSubtree
  <2>1. /\ pc = "cloning" /\ result # None /\ stack # <<>> /\ Top.out # Nil
        /\ heap' = internal_push(heap, Top.out, Top.kv[1], result[1].root)
        /\ stack' = Append(Below, [Top EXCEPT !.kv = None, !.length = @ + 1 + result[1].length])
        /\ result' = None /\ UNCHANGED <<source, pc>>
    BY <1>8 DEF PushSubtree
  <2>2. PICK r : result = Some(r) /\ Returned(heap, source, stack, r)
    BY <2>1
  <2>3. result[1] = r /\ stack \in Seq(Frames(source))
    BY <2>2, NotNone DEF Returned
  <2>4. PICK b \in Seq(Frames(source)), f \in Frames(source) : stack = Append(b, f)
    BY <2>1, <2>3, Unpiled
  <2>5. Top = f /\ Below = b
    BY <2>4, StackTop
  <2>6. PICK after : after = [f EXCEPT !.kv = None, !.length = @ + 1 + r.length]
    OBVIOUS
  <2>7. heap' = internal_push(heap, f.out, f.kv[1], r.root) /\ stack' = Append(b, after) /\ f.out # Nil
    BY <2>1, <2>3, <2>5, <2>6
  <2>8. Running(heap', source, b, after)
    BY <2>1, <2>2, <2>4, <2>6, <2>7, SubtreeReturns
  <2> QED BY <2>1, <2>7, <2>8
<1>9. CASE CloneDone
  <2>1. /\ pc = "cloning" /\ result # None /\ stack = <<>> /\ pc' = "done"
        /\ UNCHANGED <<source, heap, stack, result>>
    BY <1>9 DEF CloneDone
  <2>2. PICK r : result = Some(r) /\ Returned(heap, source, stack, r)
    BY <2>1
  <2> QED BY <2>1, <2>2
<1>10. CASE ClonePanics
  <2>1. pc = "cloning" /\ result = None /\ pc' = "unwinding" /\ UNCHANGED <<source, heap, stack, result>>
    BY <1>10 DEF ClonePanics
  <2>2. PICK b, f : stack = Append(b, f) /\ Running(heap, source, b, f)
    BY <2>1, NotNone
  <2>3. stack \in Seq(Frames(source)) /\ SoundMaps(heap, MapsOf(stack, None), source)
    BY <2>2, AppendProperties DEF Running
  <2> QED BY <2>1, <2>3
<1>11. CASE Unwind
  <2>1. /\ pc = "unwinding" /\ stack # <<>> /\ stack' = Below /\ UNCHANGED <<source, result, pc>>
        /\ heap' = IF Top.out = Nil THEN heap ELSE drop_map(heap, Top.out, Top.length)
    BY <1>11 DEF Unwind
  <2>2. /\ stack \in Seq(Frames(source)) /\ SoundMaps(heap, MapsOf(stack, None), source)
        /\ result = None /\ LegalMap(source) /\ source.root # Nil
    BY <2>1
  <2>3. PICK b \in Seq(Frames(source)), f \in Frames(source) : stack = Append(b, f)
    BY <2>1, <2>2, Unpiled
  <2>4. Top = f /\ Below = b
    BY <2>3, StackTop
  <2>5. PICK t, E : t = Len(b) + 1 /\ E = 1 .. Len(b)
    OBVIOUS
  <2>6. PICK M, N : M = MapsOf(Append(b, f), None) /\ N = MapsOf(b, None)
    OBVIOUS
  <2>7. SlotsOf(M, b, {t}) /\ M[t] = MapOfCall(f) /\ Apart(b, t)
    BY ONLY <2>3, <2>5, <2>6, SlotsOnTop
  <2>8. SlotsOf(N, b, {})
    BY ONLY <2>3, <2>6, SlotsBelow
  <2>9. DOMAIN M = E \cup {t} /\ t \notin E /\ DOMAIN N = E /\ \A i \in E : N[i] = M[i]
    BY <2>5, <2>7, <2>8 DEF SlotsOf, Apart
  <2>10. PICK g : g = heap'
    OBVIOUS
  <2>11. g = IF M[t].root = Nil THEN heap ELSE drop_map(heap, M[t].root, M[t].length)
    BY <2>1, <2>4, <2>7, <2>10 DEF MapOfCall
  <2>12. SoundMaps(heap, M, source)
    BY <2>2, <2>3, <2>6
  <2>13. SoundMaps(g, N, source)
    BY ONLY <2>2, <2>9, <2>11, <2>12, MapDropped
  <2> QED BY <2>1, <2>2, <2>4, <2>6, <2>10, <2>13
<1>12. CASE UnwindDone
  BY <1>12 DEF UnwindDone
<1>13. CASE UNCHANGED vars
  BY <1>13 DEF vars
<1> QED BY <1>1, <1>2, <1>3, <1>4, <1>5, <1>6, <1>7, <1>8, <1>9, <1>10, <1>11, <1>12, <1>13 DEF Next

LEMMA CloneAlways == Spec => []CloneInv
  BY CloneInitial, CloneStep, PTL DEF Spec

-----------------------------------------------------------------------------
(* The theorems *)

\* What SoundMaps says in the terms of the module.
LEMMA RootsThere ==
  ASSUME stack \in Seq(Frames(source)),
         result = None \/ \E r : result = Some(r)
  PROVE  RootsOf(MapsOf(stack, result)) = Outs \cup Results
<1>1. Len(stack) \in Nat /\ DOMAIN stack = 1 .. Len(stack)
  OBVIOUS
<1>2. \A i \in 1 .. Len(stack) : i # 0
  BY <1>1
<1>3. CASE result = None
  <2>1. \A q : q \in RootsOf(MapsOf(stack, None)) <=> q # Nil /\ \E i \in 1 .. Len(stack) : q = stack[i].out
    BY <1>2 DEF RootsOf, MapsOf, MapOfCall
  <2>2. DOMAIN result = {}
    BY <1>3 DEF None
  <2> QED BY <1>1, <1>3, <2>1, <2>2 DEF Outs, Results
<1>4. ASSUME NEW r, result = Some(r)
      PROVE  RootsOf(MapsOf(stack, result)) = Outs \cup Results
  <2>1. Some(r) # None /\ Some(r)[1] = r
    BY NotNone
  <2>2. DOMAIN result = {1} /\ result[1] = r
    BY <1>4 DEF Some
  <2> HIDE DEF Some
  <2>3. \A q : q \in RootsOf(MapsOf(stack, Some(r)))
                 <=> q # Nil /\ (q = r.root \/ \E i \in 1 .. Len(stack) : q = stack[i].out)
    BY <1>2, <2>1 DEF RootsOf, MapsOf, MapOfCall
  <2> QED BY <1>1, <1>4, <2>2, <2>3 DEF Outs, Results
<1> QED BY <1>3, <1>4

LEMMA UnfinishedByMaps ==
  ASSUME stack \in Seq(Frames(source)), result = None \/ \E r : result = Some(r),
         SoundMaps(heap, MapsOf(stack, result), source)
  PROVE  UnfinishedMapsSound
<1>1. WellFormed(heap, {source.root} \cup Outs \cup Results)
  <2>1. {source.root} \cup (Outs \cup Results) = {source.root} \cup Outs \cup Results
    OBVIOUS
  <2> QED BY <2>1, RootsThere DEF SoundMaps, Grove
<1>2. ASSUME NEW i \in DOMAIN stack, stack[i].out # Nil
      PROVE  stack[i].length = Len(PairsOf(heap, stack[i].out))
  <2>1. PICK M : M = MapsOf(stack, result)
    OBVIOUS
  <2>2. Len(stack) \in Nat /\ i \in 1 .. Len(stack) /\ i # 0
    OBVIOUS
  <2>3. i \in DOMAIN M /\ M[i] = MapOfCall(stack[i])
    BY <2>1, <2>2 DEF MapsOf
  <2>4. PICK x : x = stack[i].out
    OBVIOUS
  <2>5. M[i].root = x /\ M[i].length = stack[i].length /\ OwnMap(heap, M[i], source)
    BY <2>1, <2>3, <2>4 DEF MapOfCall, SoundMaps
  <2>6. x \in DOMAIN heap /\ stack[i].length = Len(ElementsBelow(heap, x))
    BY <1>2, <2>4, <2>5 DEF OwnMap
  <2>7. PICK tops : Grove(heap, tops)
    BY <2>1 DEF SoundMaps
  <2>8. PICK s : s = ElementsBelow(heap, x)
    OBVIOUS
  <2>9. Len(s) \in Nat
    <3>1. Len(ElementsBelow(heap, x)) \in Nat
      BY <2>6, <2>7, GroveStepped DEF Sequences
    <3> QED BY <2>8, <3>1
  <2>10. PairsOf(heap, x) = [j \in 1 .. Len(s) |-> PairAt(heap, s[j])]
    BY <1>2, <2>4, <2>8 DEF PairsOf, Elements
  <2>11. Len(PairsOf(heap, x)) = Len(s)
    BY <2>9, <2>10
  <2> QED BY <2>4, <2>6, <2>8, <2>11
<1> QED BY <1>1, <1>2 DEF UnfinishedMapsSound

LEMMA LegalUnfinished ==
  ASSUME LegalMap(source), heap = source.heap, stack = <<>>, Results = {}
  PROVE  UnfinishedMapsSound
<1>1. Outs = {}
  BY DEF Outs
<1>2. WellFormed(heap, {source.root})
  BY DEF LegalMap
<1>3. {source.root} \cup Outs \cup Results = {source.root}
  BY <1>1
<1>4. DOMAIN stack = {}
  OBVIOUS
<1>5. WellFormed(heap, {source.root} \cup Outs \cup Results)
  BY ONLY <1>2, <1>3
<1> QED BY ONLY <1>4, <1>5 DEF UnfinishedMapsSound

\* With no map besides the source there is no node besides the source's.
LEMMA OnlySourceLeft ==
  ASSUME NEW src, LegalMap(src), src.root # Nil, NEW h, Grove(h, {src.root}), KeptIn(h, src)
  PROVE  DOMAIN h = DOMAIN src.heap
<1> DEFINE S == DOMAIN src.heap
<1>1. S \subseteq DOMAIN h /\ \A n \in S : h[n] = src.heap[n]
  BY DEF KeptIn
<1>2. Whole(h, S)
  <2>1. WellFormed(src.heap, {src.root})
    BY SourceFacts DEF Grove
  <2>2. \A n \in S : src.heap[n].parent # Nil => src.heap[n].parent \in S
    BY <2>1 DEF WellFormed, ParentsLinked
  <2>3. \A n \in S : \A i \in 1 .. Len(src.heap[n].edges) : src.heap[n].edges[i] \in S
    BY <2>1, WellFormedFacts
  <2> QED BY <1>1, <2>2, <2>3 DEF Whole
<1>3. Whole(h, DOMAIN h \ S)
  BY <1>2, RestWhole
<1>4. SUFFICES ASSUME DOMAIN h \ S # {} PROVE FALSE
  BY <1>1
<1>5. WellFormed(h, {src.root}) /\ Bounded(h)
  BY DEF Grove
<1>6. PICK m \in DOMAIN h \ S : m \in {src.root} \/ h[m].parent \notin DOMAIN h \ S
  <2>1. DOMAIN h \ S \subseteq DOMAIN h
    OBVIOUS
  <2> QED BY <1>4, <1>5, <2>1, HighestOf
<1>7. m # src.root
  BY <1>6, SourceFacts
<1>8. h[m].parent # Nil => h[m].parent \in DOMAIN h \ S
  BY <1>3 DEF Whole
<1>9. h[m].parent = Nil
  BY <1>6, <1>7, <1>8
<1>10. Nil \notin DOMAIN h
  BY GroveStepped
<1> QED BY <1>5, <1>7, <1>9, <1>10, WellFormedFacts

\* A copy of the whole source is as long as the source.
LEMMA CopyCounts ==
  ASSUME NEW src, LegalMap(src), src.root # Nil, NEW h, NEW r, Returned(h, src, <<>>, r)
  PROVE  r.length = src.length /\ Shape(h, r.root) = Shape(src.heap, src.root)
<1>1. Shape(h, r.root) = Shape(src.heap, src.root) /\ r.root # Nil
  BY DEF Returned, Wanted
<1>2. PICK M : M = MapsOf(<<>>, Some(r))
  OBVIOUS
<1>3. SlotsOf(M, <<>>, {0}) /\ M[0] = r
  BY ONLY <1>2, NoneLeft, SlotsReturned
<1>4. SoundMaps(h, M, src) /\ 0 \in DOMAIN M
  BY <1>2, <1>3 DEF Returned, SlotsOf
<1>5. r.root \in DOMAIN h /\ r.length = Len(ElementsBelow(h, r.root))
  BY <1>1, <1>3, <1>4 DEF SoundMaps, OwnMap
<1>6. PICK tops : Grove(h, tops) /\ KeptIn(h, src)
  BY <1>4 DEF SoundMaps
<1>7. src.root \in DOMAIN src.heap /\ src.length = Len(ElementsBelow(src.heap, src.root))
  BY SourceFacts
<1>8. src.root \in DOMAIN h /\ Shape(h, r.root) = Shape(h, src.root)
  BY <1>1, <1>6, <1>7, SourceShapes
<1>9. Len(ElementsBelow(h, r.root)) = Len(ElementsBelow(h, src.root))
  BY <1>5, <1>6, <1>8, SameShapeSameSize
<1>10. Matches(h, src.heap, DOMAIN src.heap) /\ Grove(src.heap, {src.root})
  BY <1>6, SourceMatches, SourceFacts
<1>11. ElementsBelow(h, src.root) = ElementsBelow(src.heap, src.root)
  BY <1>6, <1>7, <1>10, MatchElements
<1> QED BY <1>1, <1>5, <1>7, <1>9, <1>11

\* Where the heap is not that of the source as it was, its maps are sound.
LEMMA MapsInHeap ==
  ASSUME CloneInv
  PROVE  \/ heap = source.heap /\ stack = <<>> /\ Results = {} /\ pc # "panicked"
         \/ /\ SoundMaps(heap, MapsOf(stack, result), source) /\ stack \in Seq(Frames(source))
            /\ result = None \/ \E r : result = Some(r)
<1> USE DEF CloneInv
<1>1. CASE pc = "idle"
  BY <1>1 DEF Results, None
<1>2. CASE pc = "cloning"
  <2>1. CASE \E b, f : result = None /\ stack = Append(b, f) /\ Running(heap, source, b, f)
    BY <2>1, AppendProperties DEF Running
  <2>2. CASE \E r : result = Some(r) /\ Returned(heap, source, stack, r)
    BY <2>2 DEF Returned
  <2> QED BY <1>2, <2>1, <2>2
<1>3. CASE pc \in {"unwinding", "panicked"}
  BY <1>3
<1>4. CASE pc = "done"
  <2>1. PICK r : /\ result = Some(r) /\ stack = <<>>
                 /\ \/ source.length = 0 /\ heap = source.heap /\ r = [root |-> Nil, length |-> 0]
                    \/ source.length # 0 /\ source.root # Nil /\ Returned(heap, source, <<>>, r)
    BY <1>4
  <2>2. CASE source.length = 0 /\ heap = source.heap /\ r = [root |-> Nil, length |-> 0]
    <3>1. Results = {}
      BY <2>1, <2>2 DEF Results, Some
    <3> QED BY <1>4, <2>1, <2>2, <3>1
  <2>3. CASE Returned(heap, source, <<>>, r)
    BY <2>1, <2>3 DEF Returned
  <2> QED BY <2>1, <2>2, <2>3
<1> QED BY <1>1, <1>2, <1>3, <1>4

\* Cloning changes no node of the source, and a clone that panics leaves no node
\* behind (map.rs: clone_subtree and the drop of its out_tree).
THEOREM SourceIsKept == Spec => []SourceKept
<1>1. CloneInv => SourceKept
  <2> SUFFICES ASSUME CloneInv PROVE SourceKept
    OBVIOUS
  <2>1. CASE heap = source.heap /\ pc # "panicked"
    BY <2>1 DEF SourceKept
  <2>2. CASE SoundMaps(heap, MapsOf(stack, result), source)
    <3>1. KeptIn(heap, source)
      BY <2>2 DEF SoundMaps
    <3>2. ASSUME pc = "panicked"
          PROVE  DOMAIN heap = DOMAIN source.heap
      <4>1. LegalMap(source) /\ source.root # Nil /\ SoundMaps(heap, MapsOf(<<>>, None), source)
        BY <3>2 DEF CloneInv
      <4>2. {source.root} \cup RootsOf(MapsOf(<<>>, None)) = {source.root}
        BY NoneLeft
      <4>3. Grove(heap, {source.root})
        BY <4>1, <4>2 DEF SoundMaps
      <4> QED BY <3>1, <4>1, <4>3, OnlySourceLeft
    <3> QED BY <3>1, <3>2 DEF SourceKept, KeptIn
  <2> QED BY <2>1, <2>2, MapsInHeap
<1> QED BY <1>1, CloneAlways, PTL

\* At every step the unfinished maps of all calls are disjoint trees without a
\* node outside of them, each as long as it says: what the drop of each out_tree
\* relies on when a clone panics (map.rs: clone_subtree).
THEOREM MapsAreSound == Spec => []UnfinishedMapsSound
<1>1. CloneInv => UnfinishedMapsSound
  BY MapsInHeap, UnfinishedByMaps, LegalUnfinished DEF CloneInv
<1> QED BY <1>1, CloneAlways, PTL

\* A clone that returns has the shape, the pairs and the length of the source
\* (map.rs: BTreeMap::clone).
THEOREM CloneIsEqual == Spec => []CloneEqualsSource
<1>1. CloneInv => CloneEqualsSource
  <2> SUFFICES ASSUME CloneInv, pc = "done"
               PROVE  /\ result[1].length = source.length
                      /\ IF source.length = 0 THEN result[1].root = Nil
                         ELSE Shape(heap, result[1].root) = Shape(source.heap, source.root)
    BY DEF CloneEqualsSource
  <2>1. PICK r : /\ result = Some(r)
                 /\ \/ source.length = 0 /\ heap = source.heap /\ r = [root |-> Nil, length |-> 0]
                    \/ source.length # 0 /\ source.root # Nil /\ Returned(heap, source, <<>>, r)
    BY DEF CloneInv
  <2>2. result[1] = r
    BY <2>1, NotNone
  <2>3. CASE source.length = 0 /\ r = [root |-> Nil, length |-> 0]
    BY <2>2, <2>3
  <2>4. CASE source.length # 0 /\ source.root # Nil /\ Returned(heap, source, <<>>, r)
    BY <2>2, <2>4, CopyCounts DEF CloneInv
  <2> QED BY <2>1, <2>3, <2>4
<1> QED BY <1>1, CloneAlways, PTL
=============================================================================
