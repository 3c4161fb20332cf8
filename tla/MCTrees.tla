------------------------------- MODULE MCTrees -------------------------------
(***************************************************************************)
(* Trees for model checking to start from.  A tree is described by the     *)
(* heights of its pairs in order: 0, 1, 0 is a root with one pair between  *)
(* two leaves with one pair each.                                          *)
(***************************************************************************)
EXTENDS BTreeNavigate

Sets == INSTANCE FiniteSetsExt

Height(t) == Sets!Max({t[i] : i \in 1 .. Len(t)})

\* A node of height d lies between two neighbouring bounds of that height.
Bounds(t, d) == {0, Len(t) + 1} \cup {i \in 1 .. Len(t) : t[i] > d}
End(t, d, a) == Sets!Min({b \in Bounds(t, d) : b > a})
Pairs(t, d, a) == {i \in a + 1 .. End(t, d, a) - 1 : t[i] = d}

\* The node of height d that begins after the bound a has the place <<d, a>>;
\* addresses are given from the leaves up and from the left.
Places(t) == UNION {{d} \X (Bounds(t, d) \ {Len(t) + 1}) : d \in 0 .. Height(t)}
Address(t, d, a) ==
  Sets!Quantify(Places(t), LAMBDA q : q[1] < d \/ (q[1] = d /\ q[2] <= a))

\* The keys are 20, 40, 60, ... in order, or all the same if Key has only one.
KeyAt(i) == IF 20 * i \in Key THEN 20 * i ELSE CHOOSE k \in Key : TRUE

Ascending(S) == Seqs!SetToSortSeq(S, <)

StartNode(t, d, a) ==
  LET pairs == Ascending(Pairs(t, d, a))
      below == Ascending({a} \cup Pairs(t, d, a))
      up == Sets!Max({b \in Bounds(t, d + 1) : b <= a})
      top == d = Height(t)
  IN  [kv |-> [i \in 1 .. Len(pairs) |-> <<KeyAt(pairs[i]), CHOOSE v \in Val : TRUE>>],
       edges |-> IF d = 0 THEN <<>>
                 ELSE [i \in 1 .. Len(below) |-> Address(t, d - 1, below[i])],
       height |-> d,
       parent |-> IF top THEN Nil ELSE Address(t, d + 1, up),
       parent_idx |-> IF top THEN 0
                      ELSE Len(Ascending({i \in Pairs(t, d + 1, up) : i <= a}))]

StartHeap(t) ==
  [n \in {Address(t, p[1], p[2]) : p \in Places(t)} |->
     LET p == CHOOSE q \in Places(t) : Address(t, q[1], q[2]) = n
     IN  StartNode(t, p[1], p[2])]

StartRoot(t) == Address(t, Height(t), 0)

MapOf(t) == [heap |-> StartHeap(t), root |-> StartRoot(t), length |-> Len(t)]

NoMap == [heap |-> [n \in {} |-> new_leaf(<<>>)], root |-> Nil, length |-> 0]
EmptyRoot == [heap |-> [n \in {1} |-> new_leaf(<<>>)], root |-> 1, length |-> 0]

\* Every node has a legal number of pairs.
Legal(t) ==
  /\ 0 \in {t[i] : i \in 1 .. Len(t)}
  /\ \A p \in Places(t) :
       LET n == Sets!Quantify(Pairs(t, p[1], p[2]), LAMBDA i : TRUE)
       IN  n <= CAPACITY /\ n >= IF p[1] = Height(t) THEN 1 ELSE MIN_LEN

\* Every tree with n pairs and at most three levels.
TreesOf(n) == {t \in [1 .. n -> 0 .. 2] : Legal(t)}

-----------------------------------------------------------------------------
(* Trees for B = 2, where a node has 1 to 3 pairs *)

\* Three levels and every node at its minimum, after removals.
LowTrees == {<<0, 1, 0, 2, 0, 1, 0>>}

\* Two levels and every node full.
FullTrees == {<<0, 0, 0, 1, 0, 0, 0, 1, 0, 0, 0, 1, 0, 0, 0>>}

\* The extremes: nodes all full, or above the leaves a node at its minimum with
\* a full sibling on either side.
ExtremeTrees ==
  FullTrees \cup {<<0, 1, 0, 2, 0, 1, 0, 1, 0, 1, 0>>, <<0, 1, 0, 1, 0, 1, 0, 2, 0, 1, 0>>}

\* Four levels and every node at its minimum, but for a full one of height 1.
FourLevels == {<<0, 1, 0, 2, 0, 1, 0, 1, 0, 1, 0, 3, 0, 1, 0, 2, 0, 1, 0>>}

(* Trees for B = 3, where a node has 2 to 5 pairs *)

Low == <<0, 0, 1, 0, 0, 1, 0, 0>>

\* Every node at its minimum, and an internal node whose sibling is too long to merge.
LowThree == {Low \o <<2>> \o Low \o <<2>> \o Low,
             Low \o <<2>> \o Low \o <<1, 0, 0, 1, 0, 0>>}

\* Two levels and every node full.
FiveAndUp == <<0, 0, 0, 0, 0, 1>>
FullThree == {FiveAndUp \o FiveAndUp \o FiveAndUp \o FiveAndUp \o FiveAndUp \o <<0, 0, 0, 0, 0>>}

Addresses == 1 .. 18
=============================================================================
