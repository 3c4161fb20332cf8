-------------------------------- MODULE MCDrain --------------------------------
(* Instances of BTreeDrain for model checking. *)
EXTENDS BTreeDrain, MCTrees

ChaosCmp == [p \in Key \X Key |-> Ordering]

Twenties == {20 * i : i \in 1 .. 20}

\* Every map with at most 8 elements, and internal nodes that steal from either side.
SmallMaps ==
  {NoMap, EmptyRoot}
    \cup {MapOf(t) : t \in (ExtremeTrees \ FullTrees) \cup UNION {TreesOf(n) : n \in 1 .. 8}}
=============================================================================
