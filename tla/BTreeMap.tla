------------------------------- MODULE BTreeMap -------------------------------
(***************************************************************************)
(* BTreeMap and its entry API (map.rs, entry.rs, search.rs, remove.rs,     *)
(* fix.rs and insert_recursing of node.rs) as a state machine over the     *)
(* heap of BTreeNode.  One step is one iteration of a loop of the code or  *)
(* one straight-line part between two loops; between two calls pc is       *)
(* "idle".  Calls do not overlap (they borrow the map), but a call is not  *)
(* atomic for the client: its comparator runs inside the search and may    *)
(* answer anything or panic, and an Entry stays in the client's hands      *)
(* until it is used or dropped.                                            *)
(*                                                                         *)
(* All public operations are built from one protocol: obtain an entry by   *)
(* a search or at an end of the tree, then insert into it, remove it,      *)
(* replace its key or drop it.                                             *)
(***************************************************************************)
EXTENDS BTreeSearch

CONSTANT MaxLen  \* bound: no insertion starts at this length

ASSUME MaxLenAssumption == MaxLen \in Nat

VARIABLES heap, root, length,        \* the allocator's nodes and the map itself
          pc, op, key,               \* the call in progress and its key argument
          cur,                       \* the node or handle the code is working on
          pos,                       \* the leaf edge remove_leaf_kv keeps track of
          hand,                      \* the pair that is in a local variable, if any
          right,                     \* SplitResult::right
          refill,                    \* remove_leaf_kv was called by remove_internal_kv
          emptied,                   \* emptied_internal_root
          ret                        \* the pair the call has found or taken out

map == <<heap, root, length>>
vars == <<heap, root, length, pc, op, key, cur, pos, hand, right, refill, emptied, ret>>

SearchOps == {"get", "insert", "entry", "remove", "replace"}
EndOps == {"first_entry", "last_entry", "pop_first", "pop_last"}
\* The operations that hand an Entry to the client.
EntryOps == {"entry", "first_entry", "last_entry"}

Init ==
  /\ heap = [n \in {} |-> new_leaf(<<>>)]
  /\ root = Nil
  /\ length = 0
  /\ pc = "idle" /\ op = "none" /\ key = None
  /\ cur = NoHandle /\ pos = NoHandle
  /\ hand = None /\ right = Nil
  /\ refill = FALSE /\ emptied = FALSE
  /\ ret = None

\* The call is over; every local is gone.
Return(r) ==
  /\ pc' = "idle" /\ op' = "none" /\ key' = None
  /\ cur' = NoHandle /\ pos' = NoHandle
  /\ hand' = None /\ right' = Nil
  /\ refill' = FALSE /\ emptied' = FALSE
  /\ ret' = r

Goto(label, handle) == pc' = label /\ cur' = handle

-----------------------------------------------------------------------------
(* Calls *)

\* A call that searches for k in a tree that exists.
CallSearch(o, k) ==
  /\ pc = "idle"
  /\ root # Nil
  /\ o \in {"insert", "replace"} => length < MaxLen
  /\ op' = o /\ key' = Some(k) /\ ret' = None
  /\ Goto("search", Handle(root, 0))
  /\ UNCHANGED <<map, pos, hand, right, refill, emptied>>

\* entry without a root: a VacantEntry whose handle is None.
CallEntryNoRoot(o, k) ==
  /\ pc = "idle"
  /\ root = Nil
  /\ o = "insert" => length < MaxLen
  /\ op' = o /\ key' = Some(k) /\ ret' = None
  /\ Goto("vacant", NoHandle)
  /\ UNCHANGED <<map, pos, hand, right, refill, emptied>>

\* get, remove, first_entry, ... without a root: `self.root.as_ref()?'.
CallNoRoot(o) ==
  /\ pc = "idle"
  /\ root = Nil
  /\ Return(None)
  /\ UNCHANGED map

\* Recover::replace creates an empty root leaf before it searches.
CallReplaceNoRoot(k) ==
  /\ pc = "idle"
  /\ root = Nil
  /\ length < MaxLen
  /\ CanAllocate(heap)
  /\ LET n == FreshNode(heap)
     IN  /\ heap' = Allocate(heap, n, new_leaf(<<>>))
         /\ root' = n
         /\ Goto("search", Handle(n, 0))
  /\ op' = "replace" /\ key' = Some(k) /\ ret' = None
  /\ UNCHANGED <<length, pos, hand, right, refill, emptied>>

\* first_entry, pop_first, last_entry, pop_last.
CallEnd(o) ==
  /\ pc = "idle"
  /\ root # Nil
  /\ op' = o /\ ret' = None
  /\ Goto(IF o \in {"first_entry", "pop_first"} THEN "first_leaf" ELSE "last_leaf",
          Handle(root, 0))
  /\ UNCHANGED <<map, key, pos, hand, right, refill, emptied>>

-----------------------------------------------------------------------------
(* search_tree, first_leaf_edge, last_leaf_edge *)

SearchFound(i) ==
  /\ pc = "search"
  /\ i \in KVResults(heap[cur.node].kv, key[1])
  /\ IF op = "get"
     THEN Return(Some(heap[cur.node].kv[i + 1]))
     ELSE /\ Goto("occupied", Handle(cur.node, i))
          /\ UNCHANGED <<op, key, pos, hand, right, refill, emptied, ret>>
  /\ UNCHANGED map

SearchGoDown(i) ==
  /\ pc = "search"
  /\ ~IsLeaf(heap, cur.node)
  /\ i \in EdgeResults(heap[cur.node].kv, key[1])
  /\ Goto("search", Handle(descend(heap, cur.node, i), 0))
  /\ UNCHANGED <<map, op, key, pos, hand, right, refill, emptied, ret>>

SearchMissing(i) ==
  /\ pc = "search"
  /\ IsLeaf(heap, cur.node)
  /\ i \in EdgeResults(heap[cur.node].kv, key[1])
  /\ IF op \in {"get", "remove"}
     THEN Return(None)
     ELSE /\ Goto("vacant", Handle(cur.node, i))
          /\ UNCHANGED <<op, key, pos, hand, right, refill, emptied, ret>>
  /\ UNCHANGED map

\* The client's comparator panics while a key is compared; the unwinding drops
\* the call's arguments.
CompPanics ==
  /\ pc = "search"
  /\ len(heap, cur.node) > 0
  /\ Return(None)
  /\ UNCHANGED map

\* One level of first_leaf_edge or last_leaf_edge.
EndDescend ==
  /\ pc \in {"first_leaf", "last_leaf"}
  /\ ~IsLeaf(heap, cur.node)
  /\ Goto(pc, Handle(descend(heap, cur.node,
                             IF pc = "first_leaf" THEN 0 ELSE len(heap, cur.node)), 0))
  /\ UNCHANGED <<map, op, key, pos, hand, right, refill, emptied, ret>>

\* Fault: the last leaf is taken to have a pair.
EndReachedUnchecked ==
  /\ pc \in {"first_leaf", "last_leaf"}
  /\ IsLeaf(heap, cur.node)
  /\ IF pc = "first_leaf" /\ len(heap, cur.node) = 0
     THEN Return(None)
     ELSE /\ Goto("occupied",
                  Handle(cur.node, IF pc = "first_leaf" THEN 0 ELSE len(heap, cur.node) - 1))
          /\ UNCHANGED <<op, key, pos, hand, right, refill, emptied, ret>>
  /\ UNCHANGED map

\* Fault: the pair right of the last edge is taken.
EndReachedPast ==
  /\ pc \in {"first_leaf", "last_leaf"}
  /\ IsLeaf(heap, cur.node)
  /\ Goto("occupied", Handle(cur.node, IF pc = "first_leaf" THEN 0 ELSE len(heap, cur.node)))
  /\ UNCHANGED <<map, op, key, pos, hand, right, refill, emptied, ret>>

\* right_kv of the first leaf edge, left_kv of the last one: there is no such
\* pair if the leaf, then an empty root, has none.
EndReached ==
  /\ pc \in {"first_leaf", "last_leaf"}
  /\ IsLeaf(heap, cur.node)
  /\ IF len(heap, cur.node) = 0
     THEN Return(None)
     ELSE /\ Goto("occupied",
                  Handle(cur.node, IF pc = "first_leaf" THEN 0 ELSE len(heap, cur.node) - 1))
          /\ UNCHANGED <<op, key, pos, hand, right, refill, emptied, ret>>
  /\ UNCHANGED map

-----------------------------------------------------------------------------
(* Entries *)

\* An Entry is dropped unused, or only read.
EntryDrop ==
  /\ pc \in {"occupied", "vacant"}
  /\ op \in EntryOps
  /\ Return(None)
  /\ UNCHANGED map

\* OccupiedEntry::insert and get_mut: the value changes and the key does not.
\* The entry stays usable; BTreeMap::insert drops it at once.
OccupiedInsert(v) ==
  /\ pc = "occupied"
  /\ op \in EntryOps \cup {"insert"}
  /\ LET old == heap[cur.node].kv[cur.idx + 1]
     IN  /\ heap' = [heap EXCEPT ![cur.node] = replace_kv(@, cur.idx, <<old[1], v>>)]
         /\ IF op = "insert"
            THEN Return(Some(old))
            ELSE /\ ret' = Some(old)
                 /\ UNCHANGED <<pc, op, key, cur, pos, hand, right, refill, emptied>>
  /\ UNCHANGED <<root, length>>

\* Recover::replace on a key that is present.
ReplaceKey ==
  /\ pc = "occupied"
  /\ op = "replace"
  /\ LET old == heap[cur.node].kv[cur.idx + 1]
     IN  /\ heap' = [heap EXCEPT ![cur.node] = replace_kv(@, cur.idx, <<key[1], old[2]>>)]
         /\ Return(Some(old))
  /\ UNCHANGED <<root, length>>

\* VacantEntry::insert into a map without a root.
VacantInsertEmpty(v) ==
  /\ pc = "vacant"
  /\ cur = NoHandle
  /\ length < MaxLen
  /\ CanAllocate(heap)
  /\ LET n == FreshNode(heap)
     IN  /\ heap' = Allocate(heap, n, new_leaf(<< <<key[1], v>> >>))
         /\ root' = n
  /\ length' = 1
  /\ Return(None)

\* VacantEntry::insert at a leaf edge: Handle<Leaf, Edge>::insert when the leaf has room ...
VacantInsertFit(v) ==
  /\ pc = "vacant"
  /\ cur # NoHandle
  /\ length < MaxLen
  /\ len(heap, cur.node) < CAPACITY
  /\ heap' = leaf_insert_fit(heap, cur.node, cur.idx, <<key[1], v>>)
  /\ length' = length + 1
  /\ Return(None)
  /\ UNCHANGED root

\* ... and when it must split first.
VacantInsertSplit(v) ==
  /\ pc = "vacant"
  /\ cur # NoHandle
  /\ length < MaxLen
  /\ len(heap, cur.node) >= CAPACITY
  /\ CanAllocate(heap)
  /\ LET s == splitpoint(cur.idx)
         new == FreshNode(heap)
         into == IF s.side = "left" THEN cur.node ELSE new
     IN  /\ heap' = leaf_insert_fit(split_leaf(heap, cur.node, s.middle, new),
                                    into, s.idx, <<key[1], v>>)
         /\ hand' = Some(heap[cur.node].kv[s.middle + 1])
         /\ right' = new
  /\ Goto("insert_up", Handle(cur.node, 0))
  /\ UNCHANGED <<root, length, op, key, pos, refill, emptied, ret>>

-----------------------------------------------------------------------------
(* The loop of insert_recursing: cur.node, hand and right are the SplitResult *)

Parent(n) == heap[n].parent

\* Handle<Internal, Edge>::insert when the parent has room.
InsertUpFit ==
  /\ pc = "insert_up"
  /\ Parent(cur.node) # Nil
  /\ len(heap, Parent(cur.node)) < CAPACITY
  /\ heap' = internal_insert_fit(heap, Parent(cur.node), heap[cur.node].parent_idx,
                                 hand[1], right)
  /\ length' = length + 1
  /\ Return(None)
  /\ UNCHANGED root

\* Handle<Internal, Edge>::insert when the parent must split too.
InsertUpSplit ==
  /\ pc = "insert_up"
  /\ Parent(cur.node) # Nil
  /\ len(heap, Parent(cur.node)) >= CAPACITY
  /\ CanAllocate(heap)
  /\ LET p == Parent(cur.node)
         s == splitpoint(heap[cur.node].parent_idx)
         new == FreshNode(heap)
         into == IF s.side = "left" THEN p ELSE new
     IN  /\ heap' = internal_insert_fit(split_internal(heap, p, s.middle, new),
                                        into, s.idx, hand[1], right)
         /\ hand' = Some(heap[p].kv[s.middle + 1])
         /\ right' = new
         /\ Goto("insert_up", Handle(p, 0))
  /\ UNCHANGED <<root, length, op, key, pos, refill, emptied, ret>>

\* Fault: the new element is not counted when the tree grows a level.
SplitRootUncounted ==
  /\ pc = "insert_up"
  /\ Parent(cur.node) = Nil
  /\ CanAllocate(heap)
  /\ heap' = push_root_level(heap, root, FreshNode(heap), hand[1], right)
  /\ root' = FreshNode(heap)
  /\ Return(None)
  /\ UNCHANGED length

\* The root itself was split: the closure given by VacantEntry::insert.
SplitRoot ==
  /\ pc = "insert_up"
  /\ Parent(cur.node) = Nil
  /\ CanAllocate(heap)
  /\ heap' = push_root_level(heap, root, FreshNode(heap), hand[1], right)
  /\ root' = FreshNode(heap)
  /\ length' = length + 1
  /\ Return(None)

-----------------------------------------------------------------------------
(* remove_kv_tracking *)

\* OccupiedEntry::remove_kv on a leaf pair ...
OccupiedRemoveLeaf ==
  /\ pc = "occupied"
  /\ op \in EntryOps \cup {"remove", "pop_first", "pop_last"}
  /\ IsLeaf(heap, cur.node)
  /\ pc' = "remove_leaf"
  /\ ret' = None
  /\ UNCHANGED <<map, op, key, cur, pos, hand, right, refill, emptied>>

\* Fault: the right neighbour's subtree is entered.
OccupiedRemoveInternalRight ==
  /\ pc = "occupied"
  /\ op \in EntryOps \cup {"remove", "pop_first", "pop_last"}
  /\ ~IsLeaf(heap, cur.node)
  /\ Goto("left_leaf", Handle(descend(heap, cur.node, cur.idx + 1), 0))
  /\ refill' = TRUE
  /\ ret' = None
  /\ UNCHANGED <<map, op, key, pos, hand, right, emptied>>

\* ... and on an internal pair, whose place its left neighbour will take.
OccupiedRemoveInternal ==
  /\ pc = "occupied"
  /\ op \in EntryOps \cup {"remove", "pop_first", "pop_last"}
  /\ ~IsLeaf(heap, cur.node)
  /\ Goto("left_leaf", Handle(descend(heap, cur.node, cur.idx), 0))
  /\ refill' = TRUE
  /\ ret' = None
  /\ UNCHANGED <<map, op, key, pos, hand, right, emptied>>

\* last_leaf_edge below the left edge of the pair, then left_kv.
LeftLeaf ==
  /\ pc = "left_leaf"
  /\ IF IsLeaf(heap, cur.node)
     THEN Goto("remove_leaf", Handle(cur.node, len(heap, cur.node) - 1))
     ELSE Goto("left_leaf", Handle(descend(heap, cur.node, len(heap, cur.node)), 0))
  /\ UNCHANGED <<map, op, key, pos, hand, right, refill, emptied, ret>>

\* Handle<Leaf, KV>::remove; the removed pair is the result, or is in the hand
\* of remove_internal_kv.
TakeFromLeaf ==
  LET old == heap[cur.node].kv[cur.idx + 1]
  IN  /\ hand' = IF refill THEN Some(old) ELSE None
      /\ ret' = IF refill THEN None ELSE Some(old)

LeafRemoved == [heap EXCEPT ![cur.node] = WithKV(@, slice_remove(@.kv, cur.idx))]

\* What follows remove_leaf_kv, which leaves the tracked edge in p.
AfterRemoveLeaf(p) ==
  /\ Goto(IF refill THEN "next_kv" ELSE "finish", p)
  /\ pos' = p

\* The leaf still has enough pairs, or it is the root.
RemoveLeafDone ==
  /\ pc = "remove_leaf"
  /\ \/ len(LeafRemoved, cur.node) >= MIN_LEN
     \/ Parent(cur.node) = Nil
  /\ heap' = LeafRemoved
  /\ TakeFromLeaf
  /\ AfterRemoveLeaf(cur)
  /\ UNCHANGED <<root, length, op, key, right, refill, emptied>>

\* choose_parent_kv prefers the pair left of the node, at parent_idx - 1; only
\* the leftmost child is paired with its right sibling.
HasLeftKV(n) == heap[n].parent_idx > 0
ParentKV(n) == IF HasLeftKV(n) THEN heap[n].parent_idx - 1 ELSE 0

\* The leaf is underfull and its parent is fixed next, from the edge p.
RemoveLeafUnderfull(newheap, p) ==
  /\ heap' = newheap
  /\ TakeFromLeaf
  /\ pos' = p
  /\ Goto("fix", Handle(Parent(cur.node), 0))
  /\ UNCHANGED <<root, length, op, key, right, refill, emptied>>

\* Fault: the edge is tracked for remove_internal_kv only, and otherwise stays in
\* the leaf that the merge has freed.
RemoveLeafMergeStale ==
  /\ pc = "remove_leaf"
  /\ len(LeafRemoved, cur.node) < MIN_LEN
  /\ Parent(cur.node) # Nil
  /\ LET p == Parent(cur.node)
         i == ParentKV(cur.node)
         left == descend(heap, p, i)
     IN  /\ can_merge(LeafRemoved, p, i)
         /\ RemoveLeafUnderfull(
              do_merge(LeafRemoved, p, i),
              CASE ~refill -> cur
                [] refill /\ HasLeftKV(cur.node) -> Handle(left, len(heap, left) + 1 + cur.idx)
                [] OTHER -> Handle(left, cur.idx))

RemoveLeafMerge ==
  /\ pc = "remove_leaf"
  /\ len(LeafRemoved, cur.node) < MIN_LEN
  /\ Parent(cur.node) # Nil
  /\ LET p == Parent(cur.node)
         i == ParentKV(cur.node)
         left == descend(heap, p, i)
     IN  /\ can_merge(LeafRemoved, p, i)
         /\ RemoveLeafUnderfull(
              do_merge(LeafRemoved, p, i),
              Handle(left, IF HasLeftKV(cur.node) THEN len(heap, left) + 1 + cur.idx
                           ELSE cur.idx))

RemoveLeafSteal ==
  /\ pc = "remove_leaf"
  /\ len(LeafRemoved, cur.node) < MIN_LEN
  /\ Parent(cur.node) # Nil
  /\ LET p == Parent(cur.node)
         i == ParentKV(cur.node)
     IN  /\ ~can_merge(LeafRemoved, p, i)
         /\ IF HasLeftKV(cur.node)
            THEN RemoveLeafUnderfull(bulk_steal_left(LeafRemoved, p, i, 1),
                                     Handle(cur.node, 1 + cur.idx))
            ELSE RemoveLeafUnderfull(bulk_steal_right(LeafRemoved, p, i, 1), cur)

-----------------------------------------------------------------------------
(* fix_node_and_affected_ancestors *)

Underfull(n) == len(heap, n) < MIN_LEN

FixDone ==
  /\ pc = "fix"
  /\ \/ ~Underfull(cur.node)
     \/ Parent(cur.node) = Nil /\ len(heap, cur.node) > 0
  /\ AfterRemoveLeaf(pos)
  /\ UNCHANGED <<map, op, key, hand, right, refill, emptied, ret>>

FixEmptyRoot ==
  /\ pc = "fix"
  /\ Underfull(cur.node)
  /\ Parent(cur.node) = Nil
  /\ len(heap, cur.node) = 0
  /\ emptied' = TRUE
  /\ AfterRemoveLeaf(pos)
  /\ UNCHANGED <<map, op, key, hand, right, refill, ret>>

FixMerge ==
  /\ pc = "fix"
  /\ Underfull(cur.node)
  /\ Parent(cur.node) # Nil
  /\ can_merge(heap, Parent(cur.node), ParentKV(cur.node))
  /\ heap' = do_merge(heap, Parent(cur.node), ParentKV(cur.node))
  /\ Goto("fix", Handle(Parent(cur.node), 0))
  /\ UNCHANGED <<root, length, op, key, pos, hand, right, refill, emptied, ret>>

FixSteal ==
  /\ pc = "fix"
  /\ Underfull(cur.node)
  /\ Parent(cur.node) # Nil
  /\ ~can_merge(heap, Parent(cur.node), ParentKV(cur.node))
  /\ LET count == MIN_LEN - len(heap, cur.node)
     IN  heap' = IF HasLeftKV(cur.node)
                 THEN bulk_steal_left(heap, Parent(cur.node), ParentKV(cur.node), count)
                 ELSE bulk_steal_right(heap, Parent(cur.node), ParentKV(cur.node), count)
  /\ AfterRemoveLeaf(pos)
  /\ UNCHANGED <<root, length, op, key, hand, right, refill, emptied, ret>>

-----------------------------------------------------------------------------
(* The rest of remove_internal_kv and of remove_kv *)

\* Fault: the loop does not take the parent's edge.
NextKvStays ==
  /\ pc = "next_kv"
  /\ cur.idx >= len(heap, cur.node)
  /\ Parent(cur.node) # Nil
  /\ Goto("next_kv", cur)
  /\ UNCHANGED <<map, op, key, pos, hand, right, refill, emptied, ret>>

\* next_kv from the hole the left neighbour left: up while at a last edge ...
NextKvAscend ==
  /\ pc = "next_kv"
  /\ cur.idx >= len(heap, cur.node)
  /\ Parent(cur.node) # Nil
  /\ Goto("next_kv", Handle(Parent(cur.node), heap[cur.node].parent_idx))
  /\ UNCHANGED <<map, op, key, pos, hand, right, refill, emptied, ret>>

\* ... to the pair that was to be removed, wherever rebalancing has put it.
ReplaceKv ==
  /\ pc = "next_kv"
  /\ cur.idx < len(heap, cur.node)
  /\ heap' = [heap EXCEPT ![cur.node] = replace_kv(@, cur.idx, hand[1])]
  /\ ret' = Some(heap[cur.node].kv[cur.idx + 1])
  /\ hand' = None
  /\ Goto("finish", cur)
  /\ UNCHANGED <<root, length, op, key, pos, right, refill, emptied>>

\* Fault: a removed element is only discounted when a level is popped.
FinishRemoveUncounted ==
  /\ pc = "finish"
  /\ IF emptied
     THEN /\ heap' = pop_internal_level(heap, root)
          /\ root' = descend(heap, root, 0)
          /\ length' = length - 1
     ELSE UNCHANGED <<heap, root, length>>
  /\ Return(ret)

FinishRemove ==
  /\ pc = "finish"
  /\ length' = length - 1
  /\ IF emptied
     THEN /\ heap' = pop_internal_level(heap, root)
          /\ root' = descend(heap, root, 0)
     ELSE UNCHANGED <<heap, root>>
  /\ Return(ret)

-----------------------------------------------------------------------------
Call ==
  \/ \E o \in SearchOps, k \in Key : CallSearch(o, k)
  \/ \E o \in {"insert", "entry"}, k \in Key : CallEntryNoRoot(o, k)
  \/ \E o \in {"get", "remove"} \cup EndOps : CallNoRoot(o)
  \/ \E k \in Key : CallReplaceNoRoot(k)
  \/ \E o \in EndOps : CallEnd(o)

Search ==
  \/ \E i \in 0 .. CAPACITY : SearchFound(i) \/ SearchGoDown(i) \/ SearchMissing(i)
  \/ CompPanics
  \/ EndDescend
  \/ EndReached

Insert ==
  \/ \E v \in Val : OccupiedInsert(v) \/ VacantInsertEmpty(v)
                      \/ VacantInsertFit(v) \/ VacantInsertSplit(v)
  \/ ReplaceKey
  \/ InsertUpFit
  \/ InsertUpSplit
  \/ SplitRoot

Remove ==
  \/ OccupiedRemoveLeaf
  \/ OccupiedRemoveInternal
  \/ LeftLeaf
  \/ RemoveLeafDone \/ RemoveLeafMerge \/ RemoveLeafSteal
  \/ FixDone \/ FixEmptyRoot \/ FixMerge \/ FixSteal
  \/ NextKvAscend
  \/ ReplaceKv
  \/ FinishRemove

Next == Call \/ Search \/ EntryDrop \/ Insert \/ Remove

Spec == Init /\ [][Next]_vars

\* The client has an Entry and decides what becomes of it.
ClientHolds == pc \in {"occupied", "vacant"} /\ op \in EntryOps

\* A call that has begun runs on by itself, except while the client holds an Entry.
CodeStep == ~ClientHolds /\ (Search \/ Insert \/ Remove)

FairSpec == Spec /\ WF_vars(CodeStep)
-----------------------------------------------------------------------------
(* Properties that hold whatever the comparator answers *)

PCs == {"idle", "search", "first_leaf", "last_leaf", "occupied", "vacant", "insert_up",
        "left_leaf", "remove_leaf", "fix", "next_kv", "finish"}

\* Every variable has its type; the heap is a partial function on NodeId.
TypeOK ==
  /\ HeapType(heap)
  /\ root \in NodeId \cup {Nil}
  /\ length \in Int
  /\ pc \in PCs
  /\ op \in SearchOps \cup EndOps \cup {"none"}
  /\ key \in Option(Key)
  /\ cur \in [node : NodeId \cup {Nil}, idx : Nat]
  /\ pos \in [node : NodeId \cup {Nil}, idx : Nat]
  /\ hand \in Option(KV)
  /\ right \in NodeId \cup {Nil}
  /\ refill \in BOOLEAN
  /\ emptied \in BOOLEAN
  /\ ret \in Option(KV)

\* descend and ascend are inverse to each other (node.rs, the comment on
\* descend), and no node is lost or freed while it is linked: at every step
\* the links moved by splits, merges and steals are all corrected, and only
\* the root, and the right half of a split that has no place yet, have no
\* parent.
ParentLinks ==
  /\ EdgesLinked(heap)
  /\ ParentsLinked(heap, {root, right})
  /\ {root, right} \subseteq DOMAIN heap \cup {Nil}

\* All leaves are at the same depth.  The heights that descend, ascend and
\* push_internal_level compute for their references rest on it.
HeightsUniform == Levelled(heap)

\* The node fix_node_and_affected_ancestors looks at, the only one that may
\* be underfull.
BeingFixed(n) == pc = "fix" /\ n = cur.node

\* map.rs: every non-root node contains at least MIN_LEN elements and every
\* non-leaf node at least 1; no node exceeds its arrays.  While a removal
\* repairs the tree one node may lack one element, and a root about to be
\* popped may be empty.
NodeLens ==
  \A n \in DOMAIN heap :
    /\ len(heap, n) <= CAPACITY
    /\ n # root => len(heap, n) >= IF BeingFixed(n) THEN MIN_LEN - 1 ELSE MIN_LEN
    /\ IsLeaf(heap, n) \/ BeingFixed(n) \/ (n = root /\ emptied) \/ len(heap, n) >= 1

\* map.length counts the pairs in the nodes: no split, merge or steal loses or
\* duplicates one, and each call adjusts it once, on whichever path it takes.
\* A removal counts its pair off last, when it is long gone from its leaf.
LengthExact ==
  length = PairCount(heap) + IF pc \in {"fix", "next_kv", "finish"} THEN 1 ELSE 0

\* BalancingContext: the lengths of the two children around ParentKV(n).
LeftChildLen(h, n) == len(h, descend(h, h[n].parent, ParentKV(n)))
RightChildLen(h, n) == len(h, descend(h, h[n].parent, ParentKV(n) + 1))

\* choose_parent_kv finds a pair beside n: not `unreachable!("empty internal node")'.
HasParentKV(h, n) == h[n].parent = Nil \/ len(h, h[n].parent) > 0

\* A removal from a leaf meets the assertions of remove_leaf_kv.
RemoveLeafAsserts ==
  pc = "remove_leaf" =>
    /\ IsLeaf(heap, cur.node)
    /\ cur.idx < len(heap, cur.node)
    /\ HasParentKV(heap, cur.node)
    /\ Parent(cur.node) # Nil /\ len(LeafRemoved, cur.node) < MIN_LEN =>
         /\ len(LeafRemoved, cur.node) = MIN_LEN - 1
         /\ \/ can_merge(LeafRemoved, Parent(cur.node), ParentKV(cur.node))
            \/ IF HasLeftKV(cur.node)
               THEN LeftChildLen(LeafRemoved, cur.node) > MIN_LEN
               ELSE RightChildLen(LeafRemoved, cur.node) > MIN_LEN

\* Fixing a node meets the assertions of choose_parent_kv and bulk_steal.
FixAsserts ==
  pc = "fix" /\ Underfull(cur.node) =>
    /\ ~IsLeaf(heap, cur.node)
    /\ HasParentKV(heap, cur.node)
    /\ Parent(cur.node) # Nil =>
         \/ can_merge(heap, Parent(cur.node), ParentKV(cur.node))
         \/ LET count == MIN_LEN - len(heap, cur.node)
            IN  /\ count > 0
                /\ count <= IF HasLeftKV(cur.node) THEN LeftChildLen(heap, cur.node)
                            ELSE RightChildLen(heap, cur.node)

\* No step of the code can fail: every assert!, debug_assert! and unreachable!
\* on the way of an operation holds when it is evaluated, and so does what the
\* unwrap_unchecked calls of remove_internal_kv take for granted.
AssertsHold ==
  /\ RemoveLeafAsserts
  /\ FixAsserts
  /\ pc = "occupied" => cur.idx < len(heap, cur.node)
  /\ pc = "vacant" /\ cur # NoHandle =>
       IsLeaf(heap, cur.node) /\ cur.idx <= len(heap, cur.node)
  /\ pc = "insert_up" =>
       /\ heap[right].height = heap[cur.node].height
       /\ Parent(cur.node) = Nil => cur.node = root
  /\ pc = "left_leaf" => len(heap, cur.node) > 0
  /\ pc = "next_kv" /\ cur.idx >= len(heap, cur.node) => Parent(cur.node) # Nil
  /\ pc = "finish" /\ emptied => heap[root].height > 0

\* Every call returns to its client, whatever the comparator answers: the
\* searches, the climbing splits, fix_node_and_affected_ancestors and next_kv
\* all terminate.
CallsReturn == (pc # "idle" /\ ~ClientHolds) ~> (pc = "idle" \/ ClientHolds)

\* remove.rs: "We won't destroy or rearrange the leaf where `pos` is at by
\* handling its parent recursively".
TrackedLeafKept ==
  [][pc = "fix" => /\ pos.node \in DOMAIN heap'
                   /\ heap'[pos.node].kv = heap[pos.node].kv]_vars
=============================================================================
