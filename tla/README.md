# A TLA+ model of btree_monstrousity

btree_monstrousity is a fork of the standard library's `BTreeMap` in which the
key type needs no order: every operation that searches takes a comparator, a
closure the client brings to that one call. The tree itself is the standard
library's: nodes of `B - 1` to `2B - 1` pairs (`B = 6`), parent pointers, raw
allocation, and unsafe code that relies on the shape of the tree being right.
The fork makes the hard question of that code sharper: *nothing* makes two
calls agree on an order, so the shape must be safe under any answers whatever,
and the map must be a sorted map under consistent ones.

Paths below are relative to `src/src/liballoc/collections/btree/`.

## Inventory

| component | state | operations | made correct by |
|---|---|---|---|
| nodes (`node.rs`) | a node: `len`, key/value/edge arrays, `parent`, `parent_idx`; a reference carries the height | `insert_fit`, `splitpoint`, `split`, `push_internal_level`, `pop_internal_level`, `do_merge`, `bulk_steal_left/right`, `correct_childrens_parent_links` | links that agree in both directions, one depth for all leaves, lengths within the arrays |
| search (`search.rs`) | none; a cursor into the tree | `search_tree`, `search_node`, `find_key_index`, range bifurcation | termination and a legal position for any comparator; the right position for an order |
| map and entries (`map.rs`, `map/entry.rs`) | `root`, `length`; an `Entry` holds a handle and the borrowed map | `get`, `insert`, `entry`, `remove`, `first_entry`, `last_entry`, `pop_first`, `pop_last`, `Recover`, and the methods of entries | refinement of a sorted map; `length` counts the elements |
| removal (`remove.rs`, `fix.rs`) | the tracked edge, the pair in hand, `emptied_internal_root` | `remove_leaf_kv`, `remove_internal_kv`, `fix_node_and_affected_ancestors` | the tracked leaf survives, the pair is found again after rebalancing, no node is left underfull |
| splitting and appending (`split.rs`, `append.rs`, `merge_iter.rs`, borders in `fix.rs`) | two trees, a right border under construction | `split_off`, `append`, `bulk_push` | both trees legal, no element lost, lengths right |
| iteration (`navigate.rs`, iterators of `map.rs`) | one or two leaf edges, a remaining length | `LeafRange`, `LazyLeafRange`, `IntoIter`, `Range` | every element once, the two ends never cross, every node freed once |
| `DrainFilter`, `retain` | a leaf edge, the map's root and length | `next` | the edge stays usable after a removal, also when the root is popped |
| cursors | a position and the map | `move_next`, `insert_before`, `insert_after`, `remove_current` | the position stays on the element it was on |
| `clone`, `Drop`, `clear` | two trees; a dying tree | | every node freed once, also when a drop panics |
| `borrow.rs`, `mem.rs` | a dormant borrow; a panic guard | | no state that outlives a call |

*How they interact.* Everything is sequential: a call borrows the map, and an
`Entry`, an iterator, a `DrainFilter` or a cursor keeps it borrowed. `map.rs` and
`entry.rs` obtain a handle from `search.rs` or `navigate.rs` and hand it to
`node.rs` (insertion) or `remove.rs` (removal), which calls `fix.rs`; cursors and
`DrainFilter` run the same removal with another continuation. Client code runs
inside a call: comparators, the predicate of `drain_filter`, `Clone`
implementations and destructors. It may answer anything and may panic. Between
two methods of an `Entry`, an iterator or a cursor the client decides what
happens next.

*What is hard.* A call is a long sequence of pointer moves during which the
tree is not legal: a split leaves a half-tree without a place, a merge leaves a
node short of a pair, a removal holds an element that is in no node, a cut
leaves two borders of empty nodes, and positions computed before a rearrangement
are used after it. A panic of client code leaves the tree as it is at that
moment. The hazards in `PROJECT.json` are located at those lines.

## Modules

| module | what it is |
|---|---|
| `BTreeNode` | `node.rs`: heaps, nodes and every operation that rearranges them, as functions from heap to heap; the predicates of well-formed heaps |
| `BTreeSearch` | `search.rs` within one node: the comparator, keys and bounds |
| `BTreeNavigate` | `navigate.rs`: walks along leaf edges and pairs, lazy handles, deallocating walks, pillars of empty nodes; the order of a tree by its structure, which the walks are measured against |
| `BTreeMap` | the state machine: calls, search, entries, insertion, removal and rebalancing, one loop iteration or straight-line part per action; shape properties |
| `SortedMap` | abstract specification: a sequence of entries, every operation takes effect in one step |
| `BTreeOrder` | the contents of a tree as a sequence, the count of elements, the refinement mapping to `SortedMap` |
| `BTreeMaps` | the legal maps that an operation on a whole map begins with |
| `BTreeIter` | `Iter`, `IterMut`, `Range`, `RangeMut`, and the search for a range |
| `BTreeDying` | `into_iter`, `drop` and `clear`: a map that is consumed from two ends |
| `ElementIterator` | abstract specification of a double-ended iterator, for both |
| `BTreeSplit` | `split_off`: the cut, `fix_right_border`, `fix_left_border`, `calc_split_length` |
| `BTreeAppend` | `append`: `MergeIter`, `bulk_push`, `fix_right_border_of_plentiful` |
| `BTreeDrain` | `drain_filter` and `retain`, over the removal of `BTreeMap` |
| `BTreeCursor` | `Cursor` and `CursorMut`, over the insertion and removal of `BTreeMap` |
| `SequenceCursor` | abstract specification of a cursor on a sequence |
| `BTreeClone` | `clone_subtree`, call by call, and its unwinding |
| `MCTrees` | trees to start from, given by the heights of their pairs |
| `MCBTree`, `MCIter`, `MCDying`, `MCSplit`, `MCAppend`, `MCDrain`, `MCCursor`, `MCClone` | instances for TLC: comparators, maps, limits on the client |
| `BTreeNavigateProofs` | what every other proof stands on: what the operations of `BTreeNode` do to a well-formed heap; the walks of `BTreeNavigate` end, at an edge of a leaf or at a pair; what the border of a tree and a new pillar are; the order of a tree, that the walks follow it, and what is left of a tree between two places in it |
| `BTreeMapProofs` | the inductive invariant of `BTreeMap`: types, shape, sizes and the count; no assertion fails, and what becomes of the tracked edge |
| `BTreeDrainCursorProofs` | `DrainFilter` and the edits of a cursor keep the tree legal and counted; a cursor stays in the tree, beside its neighbours |
| `BTreeIterProofs` | the ends of iterators and ranges agree, and refine `ElementIterator` |
| `BTreeDyingProofs` | a dying map frees each node once and in time, and refines `ElementIterator` |
| `BTreeAppendProofs` | `append` builds one counted tree and ends with a legal map |
| `BTreeSplitProofs` | `split_off` keeps two trees and leaves two legal ones |
| `BTreeCloneProofs` | a clone is node by node the source, whatever panics leave of it can be dropped, and the source stays as it is |

`BTreeSearch` and `BTreeNavigate` extend `BTreeNode`; `BTreeMap` extends
`BTreeSearch`; `BTreeOrder` extends `BTreeMap` and `BTreeNavigate` and instantiates
`SortedMap`. `BTreeDrain` and `BTreeCursor` extend `BTreeOrder`: a removal in them is
made of the actions of `BTreeMap`, with their own beginning and end.
`BTreeIter`, `BTreeDying`, `BTreeSplit`, `BTreeAppend` and `BTreeClone` work on
heaps directly. All of these but `BTreeAppend` take their maps from `BTreeMaps`. Each MC module extends the module it is about; each proof module
does too. Definitions named `...Short`, `...Early`, `...Uncounted` and
the like, with a comment that begins with "Fault", are wrong versions of an
operation. No specification uses them; replacing the operation by one shows that
a property can fail.

### State and code

A heap maps the addresses of allocated nodes to records. The key and value arrays
are cut to `len` and zipped into one sequence `kv`; `edges` is empty for a leaf.
An address outside `DOMAIN heap` is free, so a dangling pointer shows as a link
out of the domain. The height, which the code keeps in references, is a field:
it never changes while a node lives, and `HeightsUniform` is what makes the
arithmetic of `descend` and `ascend` on references right. Pairs are a key and a
value; nothing else of them matters.

`pc` tells where in the code a call is; `cur` is the handle it works with:

| `pc` | code |
|---|---|
| `search` | the loop of `search_tree`; one step is one node |
| `first_leaf`, `last_leaf` | `first_leaf_edge`, `last_leaf_edge` for the operations on an end |
| `occupied`, `vacant` | an entry; for `insert`, `remove`, `replace` and the pops the code goes on by itself, for `entry`, `first_entry`, `last_entry` the client has it |
| `insert_up` | the loop of `insert_recursing`; `cur`, `hand` and `right` are the `SplitResult` |
| `left_leaf` | `last_leaf_edge` in `remove_internal_kv` |
| `remove_leaf` | `remove_leaf_kv` |
| `fix` | one turn of `fix_node_and_affected_ancestors`; `pos` is the tracked edge |
| `next_kv` | the climb to the pair that is to be overwritten |
| `finish` | the end of `OccupiedEntry::remove_kv`: the count, and the emptied root |

The whole public entry API is made of these steps. `or_insert` and its
relatives are `entry` followed by dropping the entry, by `get_mut`/`insert` on an
occupied one or by `insert` on a vacant one; `remove_entry`, `pop_first`,
`pop_last` are a search or a descent followed by a removal; `get_mut`,
`contains_key` and `get_key_value` differ from `get` only in what they return.

The comparator is the constant `Cmp`: for a stored key and a key looked for, the
set of answers that may come. One answer each makes it a function, all three
answers a comparator without any law. It is asked in order from the left until
it does not answer `Greater`, and each question is a chance to panic
(`CompPanics`).

Allocation: `FreshNode` chooses a free address. Addresses are never compared in
order, so one choice stands for all. `NodeId` is larger than any tree
within `MaxLen`, so `CanAllocate` never blocks a step (a run with the deadlock
check would stop there). `CanAllocateAll` is the same for a pillar, a chain of empty
nodes that is allocated in one go.

*Iterators.* In `BTreeIter` and `BTreeDying` a call of `next` or `next_back` is one
step, because no client code runs in it; `front` and `back` are
`Option<LazyLeafHandle>`, a root that is yet to be descended from or a leaf edge.
A search for a range is one step per level (`search_tree_for_bifurcation`, then
both sides until they reach leaves), each of which may panic. `pc = "aborted"`
stands for an `unwrap` on `None` within `mem::replace`, which ends the process.
In `BTreeDying` the heap shrinks as `deallocating_next` leaves nodes behind, while
`whole` remembers the map as it was; `drop_key` and `drop_val` are the two
destructors of `drop_key_val`, and after a panic the same loop goes on, which is
what `DropGuard` does. `clear` and `drop` are an iterator dropped at once.
`Keys`, `Values`, `IntoKeys` and their like forward to these.

*Splitting and appending.* `BTreeSplit`: `cut` is the loop of `split_off`, from the
root down; `top`, `border` and `top_again` are `fix_top`, the loop of
`fix_right_border_of` and `fix_top` again, first for self and then, mirrored, for
the right map. The client then keeps one of the two maps (`Keep`), which frees every
node whose root (`RootAbove`) is that of the other, and may split again. `BTreeAppend`: `merge` is one `MergeIter::next`, `push` one turn of
`bulk_push`, `fix` one level of `fix_right_border_of_plentiful`. The maps that are
taken apart are sequences there; `BTreeDying` is about taking them apart.

*DrainFilter.* `cur_leaf_edge` is taken at the beginning of
`DrainFilterInner::next` and put back at the end, so a panic of the predicate
leaves `None`. `DrainEmptyRoot` is the callback that pops the root in the middle
of a removal, where an entry's removal only notes `emptied`.

*Cursors.* `current` is the handle in the client's hands. An insertion begins at
the leaf edge beside it and ends at `BesideInserted`, the pair beside the handle
that `insert_recursing` returns; a removal ends beside the tracked edge.
`shown` is what the client sees between two calls, and what
`SequenceCursor` is instantiated with. `peek_prev_mut` is
`CursorMut::peek_prev`, which differs from `Cursor::peek_prev` at the ghost.

*Clone.* `stack` holds one frame per active call of `clone_subtree`: the node it
clones, the root and length of its `out_tree`, its place in the node and the cloned
pair that waits for a subtree.

## Runs

| run | instance | checks | states |
|---|---|---|---|
| `chaos` | B = 2, any comparator: from the empty map to 10 elements, and from four levels (19 elements) to nothing | types, links, heights, lengths, assertions, element count, tracked leaf, every call returns | 991,154 |
| `sorted` | B = 2, an order under which two keys are equal but distinct: any number of calls from the empty map and from three levels at the minimum; two calls, 32 keys and two values from trees whose nodes are all full, or an internal node at its minimum beside a full one | refinement of `SortedMap` | 532,715 |
| `iter` | B = 2, every map with at most 7 elements and one with three levels and 11; bounds at 8 keys and a wild one | refinement of `ElementIterator`, ends, bounds | 48,156 |
| `iter_impossible` | B = 2, five elements on two levels, a comparator that follows the order | finds a range whose start is after its end, which does not panic | violation |
| `dying` | B = 2, every map with at most 7 elements and one with 12 | freed nodes, refinement of `ElementIterator`, termination | 13,727 |
| `split` | B = 3, every map with at most 8 elements and three levels with 26 or 23; the resulting maps are split again, at any place | two trees, contents, legality, lengths, assertions, the place of the cut | 621,798 |
| `split_panic` | as `split` | finds a `length` that counts elements that are gone | violation |
| `append` | B = 3, results of 0 to 41 elements, with every answer of the comparator for other maps of up to four elements | one counted tree at every step, legality, assertions, merge, union | 62,953 |
| `drain` | B = 2, every map with at most 8 elements and three levels in which an internal node steals | each element asked about once, shape, count, termination | 114,605 |
| `cursor` | B = 3, every map with at most 8 elements, full nodes on two levels (35), three levels with 26 or 23; four calls, three on the larger maps | shape, position, assertions, peeks, refinement of `SequenceCursor`, bounds | 521,460 |
| `cursor_insert` | B = 2, three elements | finds a key that `insert_after` takes out of order | violation |
| `clone` | B = 2, every map with at most 9 elements, full nodes, four levels | unfinished maps, source, result | 2,519 |

*Bounds and why they are enough.* `MaxLen` stops insertions at a length; a start
in `MCBTree` carries its own limits (length, number of calls, keys, values), and
`MaxCalls` bounds the calls of a cursor. With B = 2 a node holds 1 to
3 pairs, so 10 elements give three levels, and two merges or splits follow
each other inside one call, with a root that grows and is popped. What B = 2
cannot show is an underfull node that still has a pair, and `splitpoint` with
four distinct cases whose halves differ; `cursor` is for that, whose insertions and
removals at any place are those of `BTreeMap`, and `split` and `append` use B = 3 because they stock up nodes that lack several pairs. Under
`ChaosCmp` keys and values do not matter, so one of each is enough. In the
runs with an order the searched keys fall below, between, above and on the stored
ones, pairs of internal nodes included. The given trees are at or near the
extremes of the length bounds, which the program reaches by insertions followed by
removals. They make the rare steps happen early: splits up to the root, merges
over three levels in one call, and an internal node that must steal from its left
or right sibling because the two cannot merge, which from the empty map takes more
elements than TLC can exhaust. In `append` a level begins with the 6th and the 36th
pair of the result, and the lengths on both sides of these occur.

*Wild keys.* The comparator of `iter`, `split`, `append` and `cursor` follows an
order, except that for one key (or the keys of one map) every answer is possible at
every comparison. So one run checks the shape under comparators without any law,
and what an order promises for the keys for which the answers are `Decided`.

*What each property says.*
`ParentLinks`: descend and ascend are inverse at every single step, and only the
root and a climbing half-tree have no parent; a freed node that is still linked
would violate it. `HeightsUniform`: arity and depth. `NodeLens`: at least
`MIN_LEN` and at most `CAPACITY`, with exactly one exception while a removal
repairs the tree. `AssertsHold`: each `assert!`, `debug_assert!`, `unreachable!`
and `unwrap_unchecked` on the way, at the moment it is evaluated. `LengthExact`:
`length` against the number of pairs in the nodes (`PairCount`), of which an
insertion or a removal in progress may have one too few. `TrackedLeafKept`: the
SAFETY comment of `remove_leaf_kv`. `CallsReturn`: every loop ends.
`ImplementsSortedMap`: the refinement, from whatever map a run starts with.

`EndsAgree`: the count of an `Iter` and its two independent ends never disagree,
and the ends of a range are in order whatever the two comparators say: the unsafe
`next_unchecked` rests on it. `ImplementsIterator`, `EachElementOnce`: each element
once, which is also why `IterMut` gives no reference twice. `RangeWithinBounds`,
`SeekFindsBound`, `CutAtKey`: the right place under an order; `RangeWithinBounds` is
about bounds that do not contradict each other, `ImpossibleBoundsPanic` about the others.
`NothingFreedEarly`, `EverythingDropped`: no use after free and no leak in a dying
tree, with a panic on the way: what is still to be read is there, and so is every node
above one that is there; what is lost is the value beside a key whose
destructor has panicked. `TwoTrees`, `ContentsKept`, `BothLegal`, `BorderAsserts`:
`split_off` step by step, and both maps afterwards. `BothCounted`: both lengths are
right although `calc_split_length` counts only one of the two trees, the lower one; after a
panic that is not so (`LengthAfterPanic`). `AlwaysDroppable`:
what a panic in `append` may rely on; `ResultLegal`, `PlentifulAsserts`: the border
that `bulk_push` leaves can always be stocked up; `BothMerged`, `IsUnion`: what the
merge does with any answers and with an order in the merge's own direction. `EachAskedOnce`: the walk of a
`DrainFilter` neither skips nor repeats an element across its own removals;
`DrainKeepsShape`, `LengthLive`: nor does a leak or a panic leave a tree that is
not legal or a length that is wrong. `EditsKeepShape`: the same for the edits of a
cursor, and their assertions. `CurrentInTree`: the place a cursor keeps is a pair
of a node; `PeeksAreNeighbours`, `ImplementsCursor`: it is the right one, and stays so. `insert_after` and `insert_before` are only promised to
work for a key that is in order, so the client of `cursor` calls them with such keys and
the unchecked insertions with any; `MisplacedKeyPanics` is about the rest.
`UnfinishedMapsSound`, `SourceKept`, `CloneEqualsSource`: the maps on
the stack of a clone can be dropped at any moment, and the clone is node by node
the source. `DropEnds`, `DrainEnds`: the drop of an `IntoIter` and that of a
`DrainFilter`, which goes through what is left, come to an end.

*Refinement.* `SortedMap`: an element counts as present until the step that takes
it out of its leaf, and the predecessor that `remove_internal_kv` holds counts at
the edge it was taken from until it overwrites the pair that is removed; the
removal takes effect in that last step. A split pair and the right half follow the
left half. So every rearrangement is a stuttering step of `SortedMap`: no order of
merges and steals may lose, duplicate or move an element, and `next_kv` must find
the very pair the client asked to remove, wherever it has gone.
`ElementIterator`: `rest` is the stretch of the tree between the two ends, found from
the structure of the tree and not by the walks. `SequenceCursor`: what the client
sees between two calls; a call in progress stutters.

*Fairness.* Each fair specification is weak fairness of the steps of a call that
has begun, which runs on by itself, as sequential code does: `CodeStep`
(`chaos`), `DropStep` (`dying`), `DrainStep` (`drain`). It does not apply while the client
holds an `Entry`, an iterator or a cursor, and never obliges the client to call
anything. Nothing is assumed of the comparator or the predicate.

*Deadlock* is checked in `chaos`, `iter` and `iter_impossible`. The others come to an
end: the calls are used up, or the one call of a behaviour is over.

### Findings

`iter_impossible`: `range` and `range_mut` are documented to panic on bounds that
contradict each other (`map.rs:1151`), the comment of the search says the same
(`search.rs:78`), and five tests expect it. The code cuts the upper edge to the lower
one and the range is empty.

`cursor_insert`: `insert_after` and `insert_before` are documented to panic on a key that
is out of order (`map.rs:3063`). They have no comparator and call their unchecked variants
at once.

`split_panic`: a comparator that panics below the root in `split_off` leaves `length`
counting the elements that were cut off and leaked (`split.rs:47`, `map.rs:1330`), so
`len()` is not "the number of elements in the map". The tree itself stays well formed
(`TwoTrees`).

Other places where code and documentation differ. No property of a passing run covers
them:

- `entry` compares `(stored, new)` and goes right on `Greater`, so `insert` with the key
  type's own `Ord::cmp` builds the map in descending order, while the documentation of
  `first_key_value` speaks of the minimum key (`map.rs:724`). No documentation gives the
  direction the closure must have.
- `MergeIterInner::nexts` takes `Less` to mean that self's pair comes first, the opposite
  direction (`merge_iter.rs:78`). The comparator that both maps were built with makes
  `append` keep equal keys twice, against `map.rs:1085`. `IsUnion` is about the other
  direction.
- A comparator that panics in `append` leaves an underfull or empty last leaf
  (`append.rs:45`), against `map.rs:57`, in a tree that is otherwise sound and counted
  (`AlwaysDroppable`). What later calls do with such a tree is not modelled.
- `CursorMut::peek_prev` at the ghost returns the first element (`map.rs:2935`); its
  documentation, `Cursor::peek_prev` and `move_prev` say the last one.
  `PeeksAreNeighbours` leaves it out.

## Proofs

For every `B >= 2`, all sets of keys, values and addresses, every `Cmp` and every
`MaxLen`:

| theorem | module | property |
|---|---|---|
| `Invariance` | `BTreeMapProofs` | `IInv`, inductive |
| `TypeCorrect` | | `TypeOK` |
| `ParentLinksKept` | | `ParentLinks` |
| `HeightsStayUniform` | | `HeightsUniform` |
| `NodeLensKept` | | `NodeLens` |
| `TrackedLeafStays` | | `TrackedLeafKept` |
| `LengthStaysExact` | | `LengthExact` |
| `AssertsNeverFail` | | `AssertsHold` |
| `EdgeStaysTracked` | | `Tracked`: what the tracked edge is after the removal |
| `DrainStaysLegal` | `BTreeDrainCursorProofs` | `DrainKeepsShape` |
| `LengthStaysLive` | | `LengthLive` |
| `DrainLeavesLegalMap` | | a `LegalMap` whenever the client may look |
| `CursorKeepsShape` | | `EditsKeepShape` |
| `CursorStaysInTree` | | `CurrentInTree` |
| `CursorPeeks` | | `PeeksAreNeighbours` |
| `EndsAlwaysAgree` | `BTreeIterProofs` | `EndsAgree` |
| `IteratorImplemented` | | `ImplementsIterator`, a refinement |
| `NothingIsFreedEarly` | `BTreeDyingProofs` | `NothingFreedEarly` |
| `AllIsDropped` | | `EverythingDropped` |
| `EachElementComesOnce` | | `EachElementOnce`, a refinement |
| `AppendStaysDroppable` | `BTreeAppendProofs` | `AlwaysDroppable` |
| `AppendIsLegal` | | `ResultLegal` |
| `PlentifulAssertHolds` | | `PlentifulAsserts` |
| `AppendLeavesLegalMap` | | a `LegalMap` when `append` has ended |
| `SplitKeepsTwoTrees` | `BTreeSplitProofs` | `TwoTrees` |
| `SplitIsLegal` | | `BothLegal` |
| `BorderAssertsHold` | | `BorderAsserts` |
| `SourceIsKept` | `BTreeCloneProofs` | `SourceKept` |
| `MapsAreSound` | | `UnfinishedMapsSound` |
| `CloneIsEqual` | | `CloneEqualsSource` |

*Assumptions.* `B` is a natural number of at least 2, `Nil` is no address, `Cmp`
gives a non-empty set of answers, `MaxLen` is a natural number. `BTreeMap` starts
with the empty map. `BTreeDrain`, `BTreeCursor`, `BTreeSplit`, `BTreeIter`,
`BTreeDying` and `BTreeClone` start with a constant set of maps, of which `MapsAssumption` says that each is a `LegalMap`:
finite, well formed, of legal node sizes, counted. `DrainLeavesLegalMap` shows that
what a `DrainFilter` leaves is one again. `QueryAssumption`: the keys a client
looks for or inserts are keys. `GivenAssumption`: what `append` is given are two
sequences of pairs; no order and no length is assumed of them. No tree size and no number of calls is bounded.

*The inductive invariant.* `IInv` is `Types`, `Tree` and `Locals`.
The shape properties together are not inductive, for reasons that are in the code:

- a parent link is only corrected at the end of a split, merge or steal, so each
  operation is proved as a whole in `BTreeNavigateProofs`. In between, `Skeleton` holds
  (edges lead down one level, each node is reached once, arity) and the links are
  accounted for one at a time (`LinkOK`);
- a node that has just been split must keep `MIN_LEN` pairs even if it is the
  root, because it stops being the root when the level is pushed: a
  conjunct of `Locals`;
- `remove_internal_kv` descends to the last leaf of a subtree and takes its last
  pair unchecked. The leaf has one because it is not the root (`left_leaf` in
  `Locals`);
- a node to be fixed is internal and lacks at most one pair, so one steal repairs
  it, and the tracked leaf, of height 0, cannot be any of the nodes that fixing
  touches. That is the argument for `TrackedLeafStays`;
- `emptied` implies that the root is internal and has no pairs, so that it has a
  child to become the root, and that no other node may be empty.

The proof has two layers. A `Tree...` lemma says what an operation does to a tree
(`TreeLeafSplit`, `TreeUpSplit`, `TreeMerge`, `TreeSteal`, ...) on top of the
lemma for the node operation in `BTreeNavigateProofs`; a `Step...` lemma per action
adds the locals. `IInvNext` combines them.

*The count.* `PairCount` is the cardinality of the set of places of pairs, (node,
index), so it needs no order and no recursion. `Tally` says how an update of the
heap changes it, by a bijection between the places before and after; the node
operations follow (`TallyHalved`, `TallyMerged`, `TallyStolen`, ...). `CInv` adds
`Countable` (finitely many nodes) and `LengthExact` to `IInv`.

*Assertions.* All of `AssertsHold` but one part follows from `IInv`. That part is
that `next_kv`, which looks for the pair `remove_internal_kv` has to overwrite, never
climbs past the root. It is a fact about the order of places, and is proved without
defining that order: a node is `OffBorder` if some set of nodes holds the root and
the last child of each of its internal nodes, but not this one. The leaf that
`remove_internal_kv` goes to is off the border, because the way there begins left of
a pair. Merges, steals and the popped root keep the tracked edge off it or give it a
pair on its right (`MergeOffBorder`, `StealOffBorder`, `BorderPopped`). This is
`Replaceable`, and with it `AInv` is inductive.

*Walks.* The walks of `BTreeNavigate` are recursive functions. A well-formed finite
heap has a bound on its heights, so a walk has a measure that falls; `WalkExists` and
`WalkLeads` derive from that, by the least natural number at which a claim fails and
so without an induction theorem, that the function exists and where it leads.
`FirstLeaf`, `LastLeaf`, `NextKv`, `NextBackKv` and `NextLeafEdge` are instances.

*`DrainFilter`.* `DInv` is `AInv` with three additions: the edge of the walk is an
edge of a leaf whenever it is there (`AtLeafEdge`), during a removal it is not there
and `Tracked` takes over, and the length counts the pairs from the other side
(`LengthLive`). `Tracked` is what lets a `DrainFilter` go on: after the merges and
steals the tracked edge is still an edge of a leaf, and where the removal has overwritten
an internal pair, the handle it goes on from is still a pair's. The root is popped
between fixing and `next_kv`; `BorderPopped` and `PopKeeps` are for that.

*The order of a tree.* `ElementsBelow` and `LeafEdges` of `BTreeNavigate` put the pairs
and the leaf edges of a subtree in sequence, by a recursion over the height in which each
node flattens the sequences of its children with its own pairs between them. That both
exist as sequences follows by the least height at which they would not (`Sequences`), and
`BetweenLaid` says where in the flattened sequence each part lies (`LaidOut`): a child's
stretch begins at an offset, and offsets are sums of lengths, so no place is counted
twice. From this, again by least height, `Walked`: `next_kv` of the i-th leaf edge is the
i-th pair and `next_leaf_edge` of that the next leaf edge, in both directions, also where
a walk climbs out of one child and down the next. `Ordered` states it for a whole
tree: there is one leaf edge more than there are pairs, the walks lead from each to the
next, and nowhere from the last. For a legal map the number of pairs in the sequence is
its `length` (`LegalOrder`).

*Iterators.* In `RInv` the two ends are numbers a <= b of leaf edges (`EndsAt`; a root yet
to be descended from is the first edge or the last), and `remaining` is b - a. During a
search for a range both sides are at the same node until they part; from there on
they are at the same height, and what is below the lower edge comes before what is below
the upper one (`Apart`), which going down keeps.
No law of the comparators is used. The rest of an iterator is the stretch from a to b,
and a step of either end takes an element off it (`StretchTaken`), which is the step of
`ElementIterator`.

*Dying maps.* `DInv` says the same of the ends of an `IntoIter`, and what is left of the
heap (`Remains`): each node spans a stretch of leaf edges, `FirstAt` to `LastAt`, and the
nodes left are those that do not end before a or begin after b. When the front goes from
a to a + 1, the nodes that a call of `next` frees on its climb are those whose stretch
ends at a (`FrontMoves`), and none of them is needed by the back, since they end before
it; a walk into a freed node cannot happen. When the ends have met, all that is
left spans that one edge, a chain from the leaf to the root, which is the pile that
`deallocating_end` frees (`LastPile`).

*Cursors.* `KInv` is `AInv`, `Tracked` and the count, and two facts about places:
`current` is a pair in a node (`KvOf`), and while a split climbs, the handle to the new
pair stays one, because the nodes that split above have edges and the pair is in a
leaf (`KeptHandle`, by the `LeavesKept` part of the `Tree...` lemmas). Between two calls
the tree is `Ordered`, so `next_kv` and `next_back_kv` from `current` lead to its
neighbours in the sequence: `CursorPeeks`.

*`append`.* The tree under construction is legal but for its right border, the way from
the root down last children. `Built` says that every node off it is full, because
`bulk_push` leaves a node only when it is; `OpenNode`, the climb from the last leaf
to a node with room, ends at a node of the border or above the root (by `WalkLeads`).
A new pillar is grafted onto the border with the pair before it (`BorderGraft`), after
which the old part of the border is off it, and full. While
`fix_right_border_of_plentiful` goes down, the border is `Stocked` above `cur` and not
yet below. A left sibling on the way is off the border, so it is full: it has
`CAPACITY = 2 * MIN_LEN + 1` pairs, and keeps `MIN_LEN` whatever is taken (`Mended`).
That is `PlentifulAsserts`.

*`split_off`.* The nodes that may be too short always lie on two ways down, one in each
tree, that have no node in common (`Chain`, `Two`): last children in the left tree and
first children in the right one. While the cut goes down (`Cutting`), the left way ends at
the node it is at; the right one is the whole pillar, of which the part that the cut has
not reached is still empty.
In the repairs, `Sizes` says what is known of the node that a border repair has come to:
it has more than `MIN_LEN` pairs, or at the root at least one, so that a merge of its
children does not leave it short. The sibling of a short child is on neither way, so it
has `MIN_LEN` pairs: the two merge, or it can give what is lacking, which is
`BorderAsserts`. `Phase` says this for each `pc`. Between the repair of the left tree
and that of the right one (`PhaseTurn`), only the other root and its way are excepted;
in the end nothing is (`Solid`). `KeepTree` shows that what remains when one map has been
dropped is a whole tree, so that another split may begin.

*`clone`.* The heap is a forest: the source, one tree for each map on the stack that has
a root, and the result of the call that has just returned (`SoundMaps`). The trees share
no node, each is well formed, and the length of each map is the number of pairs below its
root. A step of a call writes one root and so leaves every other tree as it was:
`Matches` says which nodes two heaps have in common, with their children, and
`MatchShapes` and `MatchElements` that what is below them is then the same. `drop_map`
takes `length` steps over the leaf edges of one tree and frees exactly its nodes
(`DropFreesTree`), for which the length must be right at every moment a panic can come:
`UnfinishedMapsSound`, and `SourceKept`, as none of those nodes is the source's.
How far each call has come is the other half: a running call has copied the first pairs
of its node and the subtrees around them (`Copied`), one further down waits for the child
that the call above it copies (`Waits`, `Pending`), and what a call returns has the shape
of its node (`Returned`). At the bottom of the stack that is `CloneEqualsSource`.

*Only model-checked:*

- all liveness properties (`CallsReturn`, `DropEnds`, `DrainEnds`): liveness under
  fairness is out of the prover's reach;
- what says how an update of the tree changes its in-order sequence: the refinements of
  `SortedMap` and `SequenceCursor`, `EachAskedOnce`, `ContentsKept`, `BothMerged`,
  `IsUnion`. The order is proved about for a tree that stands still; for each split,
  merge and steal a lemma would be needed that compares two recursions over two heaps;
- `BothCounted`, since `calc_length` adds up along such a recursion while the tree is
  cut;
- what an order promises for a lawful comparator, because no law of `Cmp` is assumed by
  any module: `RangeWithinBounds`, `SeekFindsBound`, `CutAtKey`.

## Not modelled, and the plan

Not modelled for good: pointer casts, variance, borrow states and marker types
(no state), `mem::replace`'s abort guard (what follows it is the end of the process,
`aborted`), `set.rs` and `binary_heap` (commented out of the build),
`dedup_sorted_iter.rs` (unused), polyfills, test support, formatting and comparison
traits, and the iterators that only forward to a modelled one. A `MergeIter` whose
iterators are dropped in the middle of `append` drops them as `BTreeDying` does and
has no actions of its own.

Left to do: a theory of how the node operations change
the order of a tree, for the refinement of `SortedMap`.
