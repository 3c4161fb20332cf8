-------------------------------- MODULE MCIter --------------------------------
(* Instances of BTreeIter for model checking. *)
EXTENDS BTreeIter, MCTrees

\* A comparator that looks for Wild answers anything; the others follow the
\* order of the integers.
Wild == 0

MixedCmp ==
  [p \in Key \X Key |->
     CASE p[2] = Wild -> Ordering
       [] p[2] # Wild /\ p[2] > p[1] -> {"Greater"}
       [] p[2] # Wild /\ p[2] = p[1] -> {"Equal"}
       [] p[2] # Wild /\ p[2] < p[1] -> {"Less"}]

\* Every map with at most 7 elements, and three levels with nodes of all lengths.
IterMaps ==
  {NoMap, EmptyRoot}
    \cup {MapOf(t) : t \in {<<0, 1, 0, 0, 2, 0, 1, 0, 1, 0, 0>>}
                             \cup UNION {TreesOf(n) : n \in 1 .. 7}}

Tens == {10 * i : i \in 0 .. 23}

\* Before, on, between and after the pairs, those of internal nodes among them.
Queries == {Wild, 10, 20, 40, 90, 100, 110, 140, 230}

\* Five elements, as in the tests of range.
TwoLevels == {MapOf(t) : t \in {<<0, 0, 1, 0, 0>>}}
=============================================================================
