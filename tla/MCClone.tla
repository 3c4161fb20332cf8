-------------------------------- MODULE MCClone --------------------------------
(* Instances of BTreeClone for model checking. *)
EXTENDS BTreeClone, MCTrees

Twenties == {20 * i : i \in 1 .. 31}

\* Twice the nodes of the largest map.
MoreAddresses == 1 .. 36

\* Every map with at most 9 elements, four levels, and full nodes.
VariedMaps ==
  {NoMap, EmptyRoot} \cup
  {MapOf(t) : t \in FourLevels \cup ExtremeTrees \cup UNION {TreesOf(n) : n \in 1 .. 9}}
=============================================================================
