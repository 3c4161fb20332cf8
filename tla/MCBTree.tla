------------------------------- MODULE MCBTree -------------------------------
(***************************************************************************)
(* Instances of BTreeMap and BTreeOrder for model checking: a map to start *)
(* from, and limits on what the client does with it.                       *)
(***************************************************************************)
EXTENDS BTreeOrder, MCTrees

CONSTANT Starts  \* records of a map and the limits

VARIABLES limits,  \* the limits of this behaviour
          calls    \* the number of calls, if that is limited

\* A comparator without any law: every answer is possible at every comparison.
ChaosCmp == [p \in Key \X Key |-> Ordering]

\* A total order on the tens, under which 140 and 141 are equal but not the same
\* key.  "Greater" means that the key looked for is past the stored one.
TensCmp ==
  [p \in Key \X Key |->
     CASE p[2] \div 10 > p[1] \div 10 -> {"Greater"}
       [] p[2] \div 10 = p[1] \div 10 -> {"Equal"}
       [] p[2] \div 10 < p[1] \div 10 -> {"Less"}]

-----------------------------------------------------------------------------
\* Any number of calls if max_calls is 0; the keys and values that a client
\* uses; no insertion from the length max_len on.
Limits(max_calls, keys, vals, max_len) ==
  [max_calls |-> max_calls, keys |-> keys, vals |-> vals, max_len |-> max_len]

Start(map_given, l) == [map |-> map_given, limits |-> l]

PairsIn(h) == UNION {Seqs!ToSet(h[n].kv) : n \in DOMAIN h}

WithinLimits ==
  /\ pc = "idle" =>
       /\ limits.max_calls > 0 => calls < limits.max_calls
       /\ key' \in Option(limits.keys)
       /\ length >= limits.max_len => op' \notin {"insert", "replace"}
  /\ pc = "vacant" /\ length >= limits.max_len => pc' = "idle" /\ length' = length
  /\ limits.vals # Val =>
       \A p \in PairsIn(heap') \cup Seqs!ToSet(hand') : p[2] \in limits.vals
  /\ calls' = IF pc = "idle" /\ limits.max_calls > 0 THEN calls + 1 ELSE calls
  /\ UNCHANGED limits

LimitedSpec ==
  /\ \E s \in Starts : AtRest(s.map) /\ limits = s.limits
  /\ calls = 0
  /\ [][Next /\ WithinLimits]_<<vars, limits, calls>>

FairLimitedSpec == LimitedSpec /\ WF_vars(CodeStep)

-----------------------------------------------------------------------------
\* B = 2, any comparator: from nothing to three levels, and from four levels to nothing.
ChaosStarts ==
  {Start(NoMap, Limits(0, Key, Val, 10))}
    \cup {Start(MapOf(t), Limits(0, Key, Val, 0)) : t \in FourLevels}

\* B = 2 and an order: any number of calls on up to three levels with few keys,
\* two calls at any place of a larger tree.
FewKeys == {20 * i : i \in 1 .. 7} \cup {141}
ManyKeys == {10 * i : i \in 1 .. 31} \cup {141}

SortedStarts ==
  {Start(NoMap, Limits(0, FewKeys, {1}, 8))}
    \cup {Start(MapOf(t), Limits(0, FewKeys, {1}, 8)) : t \in LowTrees}
    \cup {Start(MapOf(t), Limits(2, ManyKeys, Val, 20)) : t \in ExtremeTrees}

=============================================================================
