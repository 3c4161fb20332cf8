------------------------------- MODULE BTreeSplit -------------------------------
(***************************************************************************)
(* split_off (map.rs, split.rs, fix.rs): the tree is cut along the path to *)
(* the place of a key, level by level from the root, the parts to the      *)
(* right of it move to a pillar of empty nodes, and then the two borders   *)
(* of the cut are repaired.  The comparator is asked at every level of the *)
(* cut and may panic there.                                                *)
(***************************************************************************)
EXTENDS BTreeSearch, BTreeNavigate, BTreeMaps

CONSTANT Query  \* the keys to split at

VARIABLES heap, root, length,   \* self
          right, right_length,  \* the map that is split off; right is right_root
          pc,
          key,                  \* the key to split at
          cur, cur_right,       \* left_node or the node of the border, right_node
          elements              \* the pairs of the map when the call began

vars == <<heap, root, length, right, right_length, pc, key, cur, cur_right, elements>>
lengths == <<length, right_length>>

Init ==
  /\ \E m \in Maps : heap = m.heap /\ root = m.root /\ length = m.length
  /\ right = Nil /\ right_length = 0
  /\ pc = "idle"
  /\ key = Nil
  /\ cur = Nil /\ cur_right = Nil
  /\ elements = PairsOf(heap, root)

-----------------------------------------------------------------------------
(* The cut *)

\* An empty map gives a new empty map.
SplitEmpty ==
  /\ pc = "idle"
  /\ length = 0
  /\ pc' = "done"
  /\ right' = Nil /\ right_length' = 0
  /\ UNCHANGED <<heap, root, length, key, cur, cur_right, elements>>

SplitBegin(k) ==
  /\ pc = "idle"
  /\ length > 0
  /\ LET at == Fresh(heap, heap[root].height + 1)
     IN  /\ CanAllocateAll(heap, heap[root].height + 1)
         /\ heap' = new_pillar(heap, at)
         /\ right' = at[Len(at)]
         /\ cur_right' = at[Len(at)]
  /\ key' = k
  /\ cur' = root
  /\ pc' = "cut"
  /\ UNCHANGED <<root, lengths, elements>>

\* Fault: the children that were moved keep their parent.
move_suffix_unlinked(h, n, idx, to) ==
  [h EXCEPT ![n] = WithData(@, SubSeq(@.kv, 1, idx),
                            IF IsLeaf(h, n) THEN <<>> ELSE SubSeq(@.edges, 1, idx + 1)),
            ![to] = WithData(@, SubSeq(h[n].kv, idx + 1, len(h, n)),
                             IF IsLeaf(h, n) THEN <<>>
                             ELSE @.edges \o SubSeq(h[n].edges, idx + 2, len(h, n) + 1))]

\* The pairs after edge idx of n, and the edges after them, move to the empty
\* node to, whose first edge stays.
move_suffix(h, n, idx, to) ==
  LET kv == SubSeq(h[n].kv, idx + 1, len(h, n))
  IN  IF IsLeaf(h, n)
      THEN [h EXCEPT ![n] = WithKV(@, SubSeq(@.kv, 1, idx)), ![to] = WithKV(@, kv)]
      ELSE correct_childrens_parent_links(
             [h EXCEPT
                ![n] = WithData(@, SubSeq(@.kv, 1, idx), SubSeq(@.edges, 1, idx + 1)),
                ![to] = WithData(@, kv, SubSeq(@.edges, 1, 1)
                                          \o SubSeq(h[n].edges, idx + 2, len(h, n) + 1))],
             to, 1, Len(kv) + 1)

\* Fault: the edge right of the key is taken.
CutIndicesRight ==
  {i + 1 : i \in KVResults(heap[cur].kv, key)} \cup EdgeResults(heap[cur].kv, key)

\* The edge left of the key, or the one where it would be.
CutIndices == KVResults(heap[cur].kv, key) \cup EdgeResults(heap[cur].kv, key)

\* One level of the cut.
SplitLevel ==
  /\ pc = "cut"
  /\ \E idx \in CutIndices :
       /\ heap' = move_suffix(heap, cur, idx, cur_right)
       /\ IF IsLeaf(heap, cur)
          THEN pc' = "top" /\ cur' = root /\ cur_right' = Nil
          ELSE /\ cur' = descend(heap, cur, idx)
               /\ cur_right' = descend(heap, cur_right, 0)
               /\ pc' = pc
  /\ UNCHANGED <<root, lengths, right, key, elements>>

\* The comparator panics.  Nothing refers to the right root any more, and self
\* stays as far as it is cut.
CompPanics ==
  /\ pc = "cut"
  /\ len(heap, cur) > 0
  /\ pc' = "panicked"
  /\ UNCHANGED <<heap, root, lengths, right, key, cur, cur_right, elements>>

-----------------------------------------------------------------------------
(* fix_right_border of self, then fix_left_border of the right map.  The one *)
(* being repaired is the one whose root is Top.                              *)

OnRight == cur_right # Nil

Top == IF OnRight THEN right ELSE root

\* fix_top: an empty internal root is popped.
FixTop ==
  /\ pc \in {"top", "top_again"}
  /\ heap[Top].height > 0 /\ len(heap, Top) = 0
  /\ heap' = pop_internal_level(heap, Top)
  /\ LET below == descend(heap, Top, 0)
     IN  IF OnRight THEN right' = below /\ cur_right' = below /\ UNCHANGED <<root, cur>>
         ELSE root' = below /\ cur' = below /\ UNCHANGED <<right, cur_right>>
  /\ UNCHANGED <<lengths, pc, key, elements>>

\* After the first fix_top: down the border, unless the tree is empty.
FixBorder ==
  /\ pc = "top"
  /\ heap[Top].height = 0 \/ len(heap, Top) > 0
  /\ pc' = IF len(heap, Top) > 0 THEN "border" ELSE "top_again"
  /\ cur' = Top
  /\ UNCHANGED <<heap, root, lengths, right, key, cur_right, elements>>

\* fix_right_child of the last pair, fix_left_child of the first one.
ChildKV == IF OnRight THEN 0 ELSE len(heap, cur) - 1
Child == descend(heap, cur, IF OnRight THEN 0 ELSE len(heap, cur))
Sibling == descend(heap, cur, IF OnRight THEN 1 ELSE len(heap, cur) - 1)

\* Fault: the child is stocked up to the minimum only.
MissingNoSpare == MIN_LEN - len(heap, Child)

\* `MIN_LEN + 1', so that the child can still give a pair to the next level.
Missing == MIN_LEN + 1 - len(heap, Child)

FixChildMerge ==
  /\ pc = "border"
  /\ ~IsLeaf(heap, cur)
  /\ can_merge(heap, cur, ChildKV)
  /\ heap' = do_merge(heap, cur, ChildKV)
  /\ cur' = descend(heap, cur, ChildKV)
  /\ UNCHANGED <<root, lengths, right, pc, key, cur_right, elements>>

FixChildSteal ==
  /\ pc = "border"
  /\ ~IsLeaf(heap, cur)
  /\ ~can_merge(heap, cur, ChildKV)
  /\ heap' = CASE Missing <= 0 -> heap
               [] Missing > 0 /\ OnRight -> bulk_steal_right(heap, cur, ChildKV, Missing)
               [] Missing > 0 /\ ~OnRight -> bulk_steal_left(heap, cur, ChildKV, Missing)
  /\ cur' = Child
  /\ UNCHANGED <<root, lengths, right, pc, key, cur_right, elements>>

\* Fault: fix_top is not called again, after a merge may have emptied the root.
FixBorderDoneOnce ==
  /\ pc = "border"
  /\ IsLeaf(heap, cur)
  /\ IF OnRight THEN pc' = "measure" /\ cur_right' = Nil ELSE pc' = "top" /\ cur_right' = right
  /\ UNCHANGED <<heap, root, lengths, right, key, cur, elements>>

FixBorderDone ==
  /\ pc = "border"
  /\ IsLeaf(heap, cur)
  /\ pc' = "top_again"
  /\ cur' = Top
  /\ UNCHANGED <<heap, root, lengths, right, key, cur_right, elements>>

\* The border of self is done, that of the right map is next.
FixTopDone ==
  /\ pc = "top_again"
  /\ heap[Top].height = 0 \/ len(heap, Top) > 0
  /\ IF OnRight THEN pc' = "measure" /\ cur_right' = Nil ELSE pc' = "top" /\ cur_right' = right
  /\ UNCHANGED <<heap, root, lengths, right, key, cur, elements>>

-----------------------------------------------------------------------------
\* Fault: the length of the lower tree is taken for that of the other one.
CalcSplitLengthSwapped ==
  /\ pc = "measure"
  /\ length' = IF heap[root].height < heap[right].height
               THEN length - calc_length(heap, root) ELSE length - calc_length(heap, right)
  /\ right_length' = length - length'
  /\ pc' = "done" /\ cur' = Nil /\ key' = Nil
  /\ UNCHANGED <<heap, root, right, cur_right, elements>>

\* calc_split_length counts the elements of the lower tree.
CalcSplitLength ==
  /\ pc = "measure"
  /\ IF heap[root].height < heap[right].height
     THEN length' = calc_length(heap, root) /\ right_length' = length - length'
     ELSE right_length' = calc_length(heap, right) /\ length' = length - right_length'
  /\ pc' = "done" /\ cur' = Nil /\ key' = Nil
  /\ UNCHANGED <<heap, root, right, cur_right, elements>>

\* The root of the tree that n is in.
RootAbove(n) ==
  LET up[m \in DOMAIN heap] == IF heap[m].parent = Nil THEN m ELSE up[heap[m].parent]
  IN  up[n]

\* The client drops one of the two maps and goes on with the other.
Keep(r, count) ==
  /\ pc = "done"
  /\ root' = r /\ length' = count
  /\ heap' = [m \in {n \in DOMAIN heap : RootAbove(n) = r} |-> heap[m]]
  /\ right' = Nil /\ right_length' = 0
  /\ pc' = "idle"
  /\ elements' = PairsOf(heap, r)
  /\ UNCHANGED <<key, cur, cur_right>>

Fix ==
  \/ FixTop \/ FixBorder \/ FixChildMerge \/ FixChildSteal \/ FixBorderDone \/ FixTopDone
  \/ CalcSplitLength

Next ==
  \/ SplitEmpty
  \/ \E k \in Query : SplitBegin(k)
  \/ SplitLevel
  \/ CompPanics
  \/ Fix
  \/ Keep(root, length)
  \/ Keep(right, right_length)

Spec == Init /\ [][Next]_vars

-----------------------------------------------------------------------------
\* At every step of the cut and of the repair the nodes are two separate trees
\* with correct links and equally deep leaves, though their borders may be empty.
TwoTrees == WellFormed(heap, {root, right})

\* No element is lost, copied or moved across the cut: the two trees together
\* are the old map, at every step, whatever the comparator answers, and also
\* when its panic leaves the right one to nobody.
ContentsKept == PairsOf(heap, root) \o PairsOf(heap, right) = elements

\* split.rs: "If `self` respects all `BTreeMap` tree invariants, then both
\* `self` and the returned tree will respect those invariants".
BothLegal == pc \in {"idle", "done"} => LegalLens(heap, {root, right})

\* Both lengths are right, though only one tree is counted.
BothCounted ==
  pc \in {"idle", "done"} =>
    /\ length = Len(PairsOf(heap, root))
    /\ right_length = Len(PairsOf(heap, right))

\* The debug_asserts of fix.rs and the asserts of move_suffix hold, and there
\* is a pair wherever first_kv and last_kv take it for granted: going down a
\* border, every node but the root can give a pair to the level below and every
\* sibling has enough to be merged or stolen from.
BorderAsserts ==
  /\ pc = "cut" => len(heap, cur_right) = 0 /\ heap[cur].height = heap[cur_right].height
  /\ pc = "border" =>
       /\ IF cur = Top THEN len(heap, cur) > 0 ELSE len(heap, cur) > MIN_LEN
       /\ ~IsLeaf(heap, cur) =>
            /\ len(heap, Sibling) >= MIN_LEN
            /\ can_merge(heap, cur, ChildKV) \/ Missing <= len(heap, Sibling)

\* With a comparator that follows the order of the map, the key and all after
\* it go to the right map (map.rs: "Returns everything after the given key,
\* including the key").
CutAtKey ==
  [][pc = "measure" /\ Decided(key) =>
       /\ \A i \in 1 .. length' : Cmp[elements[i][1], key] = {"Greater"}
       /\ \A i \in length' + 1 .. Len(elements) : Cmp[elements[i][1], key] # {"Greater"}]_vars

\* map.rs, of len, which reads the stored length: "Returns the number of elements
\* in the map"; also of a map whose split_off was ended by a panic of the comparator.
LengthAfterPanic == pc = "panicked" => length = Len(PairsOf(heap, root))

=============================================================================
