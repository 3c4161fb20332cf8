------------------------------- MODULE MCAppend -------------------------------
(* Instances of BTreeAppend for model checking. *)
EXTENDS BTreeAppend

\* "Less" for a key of self that comes before the key of other; the comparator
\* answers anything for the wild keys of other.
Wild == 100 .. 104

MixedCmp ==
  [p \in Key \X Key |->
     CASE p[2] \in Wild -> Ordering
       [] p[2] \notin Wild /\ p[1] < p[2] -> {"Less"}
       [] p[2] \notin Wild /\ p[1] = p[2] -> {"Equal"}
       [] p[2] \notin Wild /\ p[1] > p[2] -> {"Greater"}]

\* The maps with the keys step, 2 * step, ... and the same value everywhere.
Multiples(step, n, v) == [i \in 1 .. n |-> <<step * i, v>>]
WildMap(n) == [i \in 1 .. n |-> <<99 + i, 2>>]

Keys == 1 .. 80 \cup Wild
Addresses == 1 .. 24

\* For B = 3: a second level begins with the sixth pair, a third one with the
\* thirty-sixth.
ThreeGiven ==
  {<<Multiples(2, p[1], 1), Multiples(3, p[2], 2)>> : p \in (0 .. 32) \X {0, 1, 5, 9}}
    \cup {<<Multiples(2, p[1], 1), WildMap(p[2])>> : p \in (1 .. 7) \X (1 .. 4)}
    \cup {<<Multiples(2, n, 1), WildMap(1)>> : n \in {12, 34, 35, 36, 37}}
=============================================================================
