-------------------------------- MODULE MCDying --------------------------------
(* Instances of BTreeDying for model checking. *)
EXTENDS BTreeDying, MCTrees

\* Every map with at most 7 elements, and one with three levels and nodes of all lengths.
SmallMaps ==
  {NoMap, EmptyRoot}
    \cup {MapOf(t) : t \in {<<0, 1, 0, 0, 2, 0, 0, 0, 1, 0, 1, 0>>}
                             \cup UNION {TreesOf(n) : n \in 1 .. 7}}
=============================================================================
