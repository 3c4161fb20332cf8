-------------------------------- MODULE MCSplit --------------------------------
(* Instances of BTreeSplit for model checking. *)
EXTENDS BTreeSplit, MCTrees

\* A comparator that looks for Wild answers anything; the others follow the
\* order of the integers.
Wild == 0

MixedCmp ==
  [p \in Key \X Key |->
     CASE p[2] = Wild -> Ordering
       [] p[2] # Wild /\ p[2] > p[1] -> {"Greater"}
       [] p[2] # Wild /\ p[2] = p[1] -> {"Equal"}
       [] p[2] # Wild /\ p[2] < p[1] -> {"Less"}]

\* The maps that come of a split are only split at Wild, which may be any place.
GivenHeaps == {m.heap : m \in Maps}
FewKeys == pc = "idle" /\ key' \notin {Nil, Wild} => heap \in GivenHeaps

FewKeysSpec == Init /\ [][Next /\ FewKeys]_vars

Tens == {10 * i : i \in 0 .. 55}

\* Room for a pillar beside the tree.
MoreAddresses == 1 .. 24

\* For B = 3: every map with at most 8 elements, and three levels, every node at
\* its minimum but for one that is longer.
ThreeMaps ==
  {NoMap, EmptyRoot} \cup {MapOf(t) : t \in LowThree \cup UNION {TreesOf(n) : n \in 1 .. 8}}
=============================================================================
