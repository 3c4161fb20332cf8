------------------------------- MODULE MCCursor -------------------------------
(* Instances of BTreeCursor for model checking. *)
EXTENDS BTreeCursor, MCTrees

CONSTANT MaxCalls  \* bound: number of calls, one less for a map of three levels or 35 pairs

VARIABLE calls

\* A comparator that looks for Wild answers anything; the others follow the
\* order of the integers.
Wild == 0

MixedCmp ==
  [p \in Key \X Key |->
     CASE p[2] = Wild -> Ordering
       [] p[2] # Wild /\ p[2] > p[1] -> {"Greater"}
       [] p[2] # Wild /\ p[2] = p[1] -> {"Equal"}
       [] p[2] # Wild /\ p[2] < p[1] -> {"Less"}]

\* A key other than Wild is looked for in the only call, or is inserted by
\* insert_after or insert_before in the last one.
OtherKey == key' \notin Option({Wild})
Checked == {"insert_after", "insert_before"}

FewCalls ==
  IF pc = "idle"
  THEN /\ calls < IF OtherKey /\ op' \notin Checked THEN 1 ELSE MaxCalls
       /\ calls' = IF OtherKey THEN MaxCalls ELSE calls + 1
  ELSE UNCHANGED calls

FewCallsInit == CursorInit /\ calls = IF length > 8 THEN 1 ELSE 0

FewCallsSpec == FewCallsInit /\ [][CursorNext /\ FewCalls]_<<allvars, calls>>

\* The client calls insert_after and insert_before as they are documented, and
\* uses the unchecked insertions for every other key.
KeysInOrder ==
  pc = "idle" /\ op' \in Checked => KeyInOrder(op', key'[1])

OrderlySpec == FewCallsInit /\ [][CursorNext /\ FewCalls /\ KeysInOrder]_<<allvars, calls>>

Tens == {10 * i : i \in 0 .. 73}

\* Before, on, between and after the pairs, those of internal nodes among them.
Queries == {Wild, 10, 20, 40, 50, 60, 80, 120, 180, 190, 350, 360, 730}

\* B = 3: maps with no, one, two and three levels, nodes full, at their minimum,
\* or such that they can only steal.
VariedMaps ==
  {NoMap, EmptyRoot}
    \cup {MapOf(t) : t \in FullThree \cup LowThree \cup UNION {TreesOf(n) : n \in 1 .. 8}}

OneInternal == {MapOf(<<0, 1, 0>>)}
=============================================================================
