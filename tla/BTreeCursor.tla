------------------------------ MODULE BTreeCursor ------------------------------
(***************************************************************************)
(* Cursor and CursorMut (map.rs, the end of navigate.rs): a handle to the  *)
(* current pair that stays in the client's hands while the tree is edited  *)
(* around it.  Insertions and removals run through the steps of            *)
(* insert_recursing and remove_kv_tracking in BTreeMap; what is new is     *)
(* where the cursor finds itself afterwards.  The comparator is asked only *)
(* when the cursor is created.                                             *)
(***************************************************************************)
EXTENDS BTreeOrder, BTreeMaps

CONSTANT Query  \* the keys that a client looks for or inserts

ASSUME QueryAssumption == Query \subseteq Key

VARIABLES held,      \* there is a cursor
          current,   \* its pair, or NoHandle at the ghost
          asked, bound, \* the bound given to lower_bound or upper_bound, and the one to go on with
          inserted,  \* the handle that insert_recursing is to return
          shown      \* what the client sees between two calls

search == <<asked, bound>>
cursor == <<held, current, asked, bound, inserted>>
allvars == <<vars, held, current, asked, bound, inserted, shown>>

\* The number of the pair kv in the tree, counted from 1, or 0 for none.
NumberOf(h, r, kv) ==
  LET es == Elements(h, r)
  IN  IF kv \in Seqs!ToSet(es) THEN CHOOSE i \in DOMAIN es : es[i] = kv ELSE 0

Seen(h, r, kv, result) ==
  [entries |-> PairsOf(h, r), at |-> NumberOf(h, r, kv), ret |-> result]

NoSearch == asked' = "AllIncluded" /\ bound' = "AllIncluded"

CursorInit ==
  /\ \E m \in Maps : AtRest(m)
  /\ held = FALSE /\ current = NoHandle
  /\ asked = "AllIncluded" /\ bound = "AllIncluded"
  /\ inserted = NoHandle
  /\ shown = Seen(heap, root, current, ret)

\* A call that takes several steps begins.
Begin(o, label, handle) ==
  /\ pc = "idle"
  /\ op' = o
  /\ ret' = None
  /\ Goto(label, handle)

-----------------------------------------------------------------------------
(* lower_bound, upper_bound and their _mut variants *)

SeekBegin(o, k, b) ==
  /\ root # Nil
  /\ Begin(o, "seek", Handle(root, 0))
  /\ key' = k
  /\ held' = FALSE
  /\ asked' = b /\ bound' = b
  /\ UNCHANGED <<map, pos, hand, right, refill, emptied, current, inserted>>

\* Without a root the cursor is at the ghost.
SeekNoRoot ==
  /\ pc = "idle"
  /\ root = Nil
  /\ held' = TRUE /\ current' = NoHandle
  /\ Return(None)
  /\ UNCHANGED <<map, search, inserted>>

\* Fault: the pair on the wrong side of the edge is taken.
SeekLeafLeft ==
  /\ pc = "seek"
  /\ IsLeaf(heap, cur.node)
  /\ IF op = "lower_bound"
     THEN \E l \in find_lower_bound_index(heap[cur.node].kv, key[1], bound) :
            current' = next_back_kv(heap, Handle(cur.node, l[1]))
     ELSE \E u \in find_upper_bound_index(heap[cur.node].kv, key[1], bound, 0) :
            current' = next_back_kv(heap, Handle(cur.node, u[1]))
  /\ held' = TRUE
  /\ Return(None)
  /\ NoSearch
  /\ UNCHANGED <<map, inserted>>

\* The edge in the leaf, and the pair next to it.
SeekLeaf ==
  /\ pc = "seek"
  /\ IsLeaf(heap, cur.node)
  /\ IF op = "lower_bound"
     THEN \E l \in find_lower_bound_index(heap[cur.node].kv, key[1], bound) :
            current' = next_kv(heap, Handle(cur.node, l[1]))
     ELSE \E u \in find_upper_bound_index(heap[cur.node].kv, key[1], bound, 0) :
            current' = next_back_kv(heap, Handle(cur.node, u[1]))
  /\ held' = TRUE
  /\ Return(None)
  /\ NoSearch
  /\ UNCHANGED <<map, inserted>>

SeekDescend ==
  /\ pc = "seek"
  /\ ~IsLeaf(heap, cur.node)
  /\ \E e \in IF op = "lower_bound"
              THEN find_lower_bound_index(heap[cur.node].kv, key[1], bound)
              ELSE find_upper_bound_index(heap[cur.node].kv, key[1], bound, 0) :
       /\ Goto("seek", Handle(descend(heap, cur.node, e[1]), 0))
       /\ bound' = e[2]
  /\ UNCHANGED <<map, op, key, pos, hand, right, refill, emptied, ret,
                 held, current, asked, inserted>>

\* The comparator panics: there is no cursor.
SeekPanics ==
  /\ pc = "seek"
  /\ Compares(heap[cur.node].kv, bound)
  /\ current' = NoHandle
  /\ Return(None)
  /\ NoSearch
  /\ UNCHANGED <<map, held, inserted>>

-----------------------------------------------------------------------------
(* Moving and peeking *)

\* From the ghost to an end of the tree, where an empty leaf has no pair.
FirstPair == IF root = Nil THEN NoHandle ELSE next_kv(heap, first_leaf_edge(heap, root))
LastPair == IF root = Nil THEN NoHandle ELSE next_back_kv(heap, last_leaf_edge(heap, root))

NextOfCurrent ==
  IF current = NoHandle THEN FirstPair ELSE next_kv(heap, next_leaf_edge(heap, current))

\* Fault: the pair left of an internal pair is looked for in that very node.
PrevOfCurrentFlat ==
  IF current = NoHandle THEN LastPair ELSE next_back_kv(heap, current)

PrevOfCurrent ==
  IF current = NoHandle THEN LastPair
  ELSE next_back_kv(heap, next_back_leaf_edge(heap, current))

MoveTo(kv) ==
  /\ pc = "idle" /\ held
  /\ current' = kv
  /\ ret' = None
  /\ UNCHANGED <<map, pc, op, key, cur, pos, hand, right, refill, emptied,
                 held, search, inserted>>

move_next == MoveTo(NextOfCurrent)
move_prev == MoveTo(PrevOfCurrent)

\* Cursor::peek_next and peek_prev move a clone; those of CursorMut do the
\* same, but for peek_prev at the ghost.
peek_next == NextOfCurrent
peek_prev == PrevOfCurrent
peek_prev_mut == IF current = NoHandle THEN FirstPair ELSE PrevOfCurrent

\* The client writes through value_mut, key_value_mut, peek_next or peek_prev.
WriteValue(kv, v) ==
  /\ pc = "idle" /\ held
  /\ kv # NoHandle
  /\ heap' = [heap EXCEPT ![kv.node] = replace_kv(@, kv.idx, <<PairAt(heap, kv)[1], v>>)]
  /\ ret' = None
  /\ UNCHANGED <<root, length, pc, op, key, cur, pos, hand, right, refill, emptied, cursor>>

-----------------------------------------------------------------------------
(* insert_after and insert_before, which call their unchecked variants at once *)

AfterInserts == {"insert_after", "insert_after_unchecked"}

\* The leaf edge for the new pair; none in a map without a root.
InsertEdge(o) ==
  CASE root = Nil -> NoHandle
    [] root # Nil /\ current = NoHandle ->
         IF o \in AfterInserts THEN first_leaf_edge(heap, root) ELSE last_leaf_edge(heap, root)
    [] OTHER ->
         IF o \in AfterInserts THEN next_leaf_edge(heap, current)
         ELSE next_back_leaf_edge(heap, current)

InsertBegin(o, k) ==
  /\ held
  /\ length < MaxLen
  /\ Begin(o, "vacant", InsertEdge(o))
  /\ key' = Some(k)
  /\ current' = NoHandle
  /\ UNCHANGED <<map, pos, hand, right, refill, emptied, held, search, inserted>>

\* The cursor goes back to the pair it was at, found from the new one: before
\* it for insert_after, past it for insert_before.
BesideInserted(h, new) ==
  IF op \in AfterInserts THEN next_back_kv(h, new)
  ELSE next_kv(h, Handle(new.node, new.idx + 1))

InsertEmpty(v) ==
  /\ VacantInsertEmpty(v)
  /\ UNCHANGED cursor

InsertFit(v) ==
  /\ VacantInsertFit(v)
  /\ current' = BesideInserted(heap', cur)
  /\ UNCHANGED <<held, search, inserted>>

\* Fault: the handle to the new pair does not follow the split.
InsertSplitStale(v) ==
  /\ VacantInsertSplit(v)
  /\ inserted' = cur
  /\ UNCHANGED <<held, current, search>>

\* The leaf splits: the handle to the new pair is kept while the split climbs.
InsertSplit(v) ==
  /\ VacantInsertSplit(v)
  /\ LET s == splitpoint(cur.idx)
     IN  inserted' = Handle(IF s.side = "left" THEN cur.node ELSE right', s.idx)
  /\ UNCHANGED <<held, current, search>>

InsertClimb == InsertUpSplit /\ UNCHANGED cursor

InsertDone ==
  /\ InsertUpFit \/ SplitRoot
  /\ current' = BesideInserted(heap', inserted)
  /\ inserted' = NoHandle
  /\ UNCHANGED <<held, search>>

-----------------------------------------------------------------------------
(* remove_current and remove_current_and_move_back *)

RemoveBegin(o) ==
  /\ held
  /\ current # NoHandle
  /\ refill' = ~IsLeaf(heap, current.node)
  /\ IF IsLeaf(heap, current.node) THEN Begin(o, "remove_leaf", current)
     ELSE Begin(o, "left_leaf", Handle(descend(heap, current.node, current.idx), 0))
  /\ current' = NoHandle
  /\ UNCHANGED <<map, key, pos, hand, right, emptied, held, search, inserted>>

RemoveStep ==
  /\ \/ LeftLeaf
     \/ RemoveLeafDone \/ RemoveLeafMerge \/ RemoveLeafSteal
     \/ FixDone \/ FixEmptyRoot \/ FixMerge \/ FixSteal
     \/ NextKvAscend \/ ReplaceKv
  /\ UNCHANGED cursor

\* Fault: the pair beside the hole in the leaf is taken, also when it was an
\* internal pair that was removed.
RemoveDoneHole ==
  /\ FinishRemove
  /\ current' = IF op = "remove_current" THEN next_kv(heap, pos) ELSE next_back_kv(heap, pos)
  /\ UNCHANGED <<held, search, inserted>>

\* The cursor goes to a pair beside the edge that is left of the removed one,
\* then an emptied root is popped.
RemoveDone ==
  /\ FinishRemove
  /\ LET edge == IF refill THEN next_leaf_edge(heap, cur) ELSE pos
     IN  current' = IF op = "remove_current" THEN next_kv(heap, edge)
                    ELSE next_back_kv(heap, edge)
  /\ UNCHANGED <<held, search, inserted>>

-----------------------------------------------------------------------------
\* The keys a client may ask for: none with the unconditional bounds.
Asked(b) == IF b \in {"Included", "Excluded"} THEN {Some(k) : k \in Query} ELSE {None}

Inserts == {"insert_after", "insert_before", "insert_after_unchecked", "insert_before_unchecked"}
Removes == {"remove_current", "remove_current_and_move_back"}

CursorCall ==
  \/ \E o \in {"lower_bound", "upper_bound"}, b \in SearchBound :
       \E k \in Asked(b) : SeekBegin(o, k, b)
  \/ SeekNoRoot
  \/ move_next \/ move_prev
  \/ \E kv \in {current, peek_next, peek_prev_mut}, v \in Val : WriteValue(kv, v)
  \/ \E o \in Inserts, k \in Query : InsertBegin(o, k)
  \/ \E o \in Removes : RemoveBegin(o)

CursorStep ==
  \/ SeekLeaf \/ SeekDescend \/ SeekPanics
  \/ \E v \in Val : InsertEmpty(v) \/ InsertFit(v) \/ InsertSplit(v)
  \/ InsertClimb \/ InsertDone
  \/ RemoveStep \/ RemoveDone

CursorNext ==
  /\ CursorCall \/ CursorStep
  /\ shown' = IF pc' = "idle" THEN Seen(heap', root', current', ret') ELSE shown

CursorSpec == CursorInit /\ [][CursorNext]_allvars
-----------------------------------------------------------------------------
\* The cursor is at a pair or at the ghost: no split, merge, steal or popped root
\* leaves it in a node that is freed or past the pairs that its node still has.
\* By ParentLinks and HeightsUniform every node is one of the tree.
CurrentInTree == current # NoHandle => PairIn(heap, current)

\* The tree is legal at every step of an edit, and counted.
EditsKeepShape ==
  ParentLinks /\ HeightsUniform /\ NodeLens /\ AssertsHold /\ LengthExact

Circle == INSTANCE SequenceCursor
  WITH Key <- Query, entries <- shown.entries, at <- shown.at, ret <- shown.ret

\* What the call that comes to its end promises.
Promised ==
  CASE op = "insert_after" -> Circle!InsertAfter(key[1])
    [] op = "insert_before" -> Circle!InsertBefore(key[1])
    [] op = "insert_after_unchecked" -> Circle!InsertAfterUnchecked(key[1])
    [] op = "insert_before_unchecked" -> Circle!InsertBeforeUnchecked(key[1])
    [] op = "remove_current" -> Circle!RemoveAndMoveNext
    [] op = "remove_current_and_move_back" -> Circle!RemoveAndMoveBack
    [] OTHER -> Circle!Look

\* Every call is one step of a cursor on a sequence: edits change one entry at
\* the right place, and the cursor stays with its entry, or goes to the right
\* neighbour of the one it has removed, whatever the edit does to the tree.
\* insert_after and insert_before promise that only for a key that is in order
\* where it goes; what they do with another is MisplacedKeyPanics.
ImplementsCursor == [][Promised]_(Circle!cvars)

\* The documented condition of insert_after and insert_before.
KeyInOrder(o, k) ==
  Circle!InOrderAt(IF o = "insert_after" THEN Circle!PlaceAfter ELSE Circle!PlaceBefore, k)

\* "This function panics if: the given key compares less than or equal to the
\* current element (if any); the given key compares greater than or equal to the
\* next element (if any)" (insert_after, and insert_before likewise): no other
\* key comes to be inserted.
MisplacedKeyPanics ==
  pc = "vacant" /\ op \in {"insert_after", "insert_before"} /\ Decided(key[1]) =>
    KeyInOrder(op, key[1])

\* peek_next and peek_prev of Cursor, and peek_next of CursorMut, are the
\* neighbours in the circle.
PeeksAreNeighbours ==
  pc = "idle" /\ held =>
    /\ NumberOf(heap, root, peek_next) = Circle!After(shown.at)
    /\ NumberOf(heap, root, peek_prev) = Circle!Back(shown.at)

-----------------------------------------------------------------------------
(* With a comparator that follows the order of the tree *)

AboveBound(k) ==
  CASE asked = "AllIncluded" -> TRUE
    [] asked = "AllExcluded" -> FALSE
    [] asked = "Included" -> "Greater" \notin Cmp[k, key[1]]
    [] asked = "Excluded" -> Cmp[k, key[1]] = {"Less"}

BelowBound(k) ==
  CASE asked = "AllIncluded" -> TRUE
    [] asked = "AllExcluded" -> FALSE
    [] asked = "Included" -> "Less" \notin Cmp[k, key[1]]
    [] asked = "Excluded" -> Cmp[k, key[1]] = {"Greater"}

\* lower_bound: "the first element that is above the given bound"; upper_bound:
\* "the last element that is below the given bound"; the ghost if there is none.
SeekFindsBound ==
  [][pc = "seek" /\ held' /\ (key = None \/ Decided(key[1])) =>
       LET es == PairsOf(heap, root)
           found == NumberOf(heap, root, current')
       IN  IF op = "lower_bound"
           THEN LET above == {i \in DOMAIN es : AboveBound(es[i][1])}
                IN  IF above = {} THEN found = 0
                    ELSE found \in above /\ \A i \in above : found <= i
           ELSE LET below == {i \in DOMAIN es : BelowBound(es[i][1])}
                IN  IF below = {} THEN found = 0
                    ELSE found \in below /\ \A i \in below : found >= i]_allvars
=============================================================================
