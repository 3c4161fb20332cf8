------------------------------ MODULE BTreeSearch ------------------------------
(***************************************************************************)
(* Searching one node with the client's comparator (search.rs).            *)
(***************************************************************************)
EXTENDS BTreeNode

CONSTANT Cmp  \* Cmp[k, q]: what the client's comparator may answer for the
              \* stored key k when it looks for q.  "Greater" sends the search
              \* past k.

Ordering == {"Less", "Equal", "Greater"}

ASSUME CmpAssumption == Cmp \in [Key \X Key -> (SUBSET Ordering) \ {{}}]

\* The comparator is asked once for each key from the left until it does not
\* answer Greater.
PassesBefore(kvs, q, i) == \A j \in 1 .. i : "Greater" \in Cmp[kvs[j][1], q]

\* The comparator answers in one way when it looks for q.
Decided(q) == \A k \in Key : \E o \in Ordering : Cmp[k, q] = {o}

\* find_key_index: the indices at which KV(i) or Edge(i) can be the result.
KVResults(kvs, q) ==
  {i \in 0 .. Len(kvs) - 1 : PassesBefore(kvs, q, i) /\ "Equal" \in Cmp[kvs[i + 1][1], q]}
EdgeResults(kvs, q) ==
  {i \in 0 .. Len(kvs) :
     /\ PassesBefore(kvs, q, i)
     /\ i < Len(kvs) => "Less" \in Cmp[kvs[i + 1][1], q]}

-----------------------------------------------------------------------------
(* Bounds.  The comparator is not asked for the two unconditional ones. *)

SearchBound == {"Included", "Excluded", "AllIncluded", "AllExcluded"}

Compares(kvs, bound) == kvs # <<>> /\ bound \in {"Included", "Excluded"}

\* The possible results: the edge index and the bound for the child below it.
find_lower_bound_index(kvs, q, bound) ==
  CASE bound = "AllIncluded" -> {<<0, bound>>}
    [] bound = "AllExcluded" -> {<<Len(kvs), bound>>}
    [] bound = "Included" -> {<<i, "AllExcluded">> : i \in KVResults(kvs, q)}
                               \cup {<<i, bound>> : i \in EdgeResults(kvs, q)}
    [] bound = "Excluded" -> {<<i + 1, "AllIncluded">> : i \in KVResults(kvs, q)}
                               \cup {<<i, bound>> : i \in EdgeResults(kvs, q)}

\* Fault: the key that equals an excluded bound is not skipped over.
find_upper_bound_index_keeps(kvs, q, bound, start_index) ==
  LET skipped == SubSeq(kvs, start_index + 1, Len(kvs))
  IN  CASE bound = "AllIncluded" -> {<<Len(kvs), bound>>}
        [] bound = "AllExcluded" -> {<<start_index, bound>>}
        [] OTHER -> {<<start_index + i + 1, "AllExcluded">> : i \in KVResults(skipped, q)}
                      \cup {<<start_index + i, bound>> : i \in EdgeResults(skipped, q)}

\* The mirror image, which looks only at the keys from start_index on.
find_upper_bound_index(kvs, q, bound, start_index) ==
  LET from == SubSeq(kvs, start_index + 1, Len(kvs))
      found == {start_index + i : i \in KVResults(from, q)}
      edges == {<<start_index + i, bound>> : i \in EdgeResults(from, q)}
  IN  CASE bound = "AllIncluded" -> {<<Len(kvs), bound>>}
        [] bound = "AllExcluded" -> {<<start_index, bound>>}
        [] bound = "Included" -> {<<i + 1, "AllExcluded">> : i \in found} \cup edges
        [] bound = "Excluded" -> {<<i, "AllIncluded">> : i \in found} \cup edges
=============================================================================
