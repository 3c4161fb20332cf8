------------------------------- MODULE BTreeIter -------------------------------
(***************************************************************************)
(* The borrowing iterators: Iter and IterMut over a whole map (a           *)
(* LazyLeafRange and a count), Range and RangeMut over the part between    *)
(* two bounds (a LeafRange found by a search with two comparators).  The   *)
(* map cannot change meanwhile; the values that a client writes through    *)
(* the references of IterMut and RangeMut play no part, and the two are    *)
(* otherwise the same as Iter and Range.  A call of next runs no code of   *)
(* the client and is one step; a search asks the comparators at every      *)
(* level, which may panic, and is one step per level.                      *)
(***************************************************************************)
EXTENDS BTreeSearch, BTreeNavigate, BTreeMaps

CONSTANT Query  \* the keys that a client asks for

VARIABLES heap, root, length,  \* the map
          pc,                  \* "iter" and "range" while the client has an iterator
          lower, upper,        \* the two sides of the search
          front, back,         \* Option<LazyLeafHandle>; Range has leaf edges only
          remaining,           \* Iter::length
          item                 \* Option: the pair the last call returned a reference to

map == <<heap, root, length>>
search == <<lower, upper>>
vars == <<heap, root, length, pc, lower, upper, front, back, remaining, item>>

\* A side of the search: the edge idx of node, the bound asked for and the
\* bound to go on with.
Side(node, idx, key, asked, bound) ==
  [node |-> node, idx |-> idx, key |-> key, asked |-> asked, bound |-> bound]
NoSide == Side(Nil, 0, Nil, "AllIncluded", "AllIncluded")

\* The keys a client may ask for: none with the unconditional bounds.
Asked(bound) == IF bound \in {"Included", "Excluded"} THEN Query ELSE {Nil}

Idle ==
  /\ pc' = "idle"
  /\ lower' = NoSide /\ upper' = NoSide
  /\ front' = None /\ back' = None
  /\ remaining' = 0
  /\ item' = None

Init ==
  /\ \E m \in Maps : heap = m.heap /\ root = m.root /\ length = m.length
  /\ pc = "idle"
  /\ lower = NoSide /\ upper = NoSide
  /\ front = None /\ back = None
  /\ remaining = 0
  /\ item = None

-----------------------------------------------------------------------------
(* Creation *)

\* iter, iter_mut.
Iter ==
  /\ pc = "idle"
  /\ pc' = "iter"
  /\ front' = IF root = Nil THEN None ELSE Some(Root(root))
  /\ back' = front'
  /\ remaining' = IF root = Nil THEN 0 ELSE length
  /\ UNCHANGED <<map, search, item>>

\* range, range_mut: the client gives two bounds and a comparator for each.
OpenRange(l, lb, u, ub) ==
  /\ pc = "idle"
  /\ IF root = Nil THEN pc' = "range" /\ UNCHANGED search
     ELSE /\ pc' = "bifurcation"
          /\ lower' = Side(root, 0, l, lb, lb)
          /\ upper' = Side(root, 0, u, ub, ub)
  /\ UNCHANGED <<map, front, back, remaining, item>>

\* The search has returned the range from f to b.
RangeFound(f, b) ==
  /\ pc' = "range"
  /\ front' = f /\ back' = b
  /\ lower' = NoSide /\ upper' = NoSide

\* One level of search_tree_for_bifurcation: until the edges of the two bounds differ.
Bifurcation ==
  /\ pc = "bifurcation"
  /\ LET n == lower.node
         kvs == heap[n].kv
     IN  \E l \in find_lower_bound_index(kvs, lower.key, lower.bound) :
         \E u \in find_upper_bound_index(kvs, upper.key, upper.bound, l[1]) :
           LET goto(label, m) ==
                 /\ pc' = label
                 /\ lower' = [lower EXCEPT !.node = m, !.idx = l[1], !.bound = l[2]]
                 /\ upper' = [upper EXCEPT !.node = m, !.idx = u[1], !.bound = u[2]]
                 /\ UNCHANGED <<front, back>>
           IN  CASE l[1] < u[1] -> goto("spanning", n)
                 [] l[1] = u[1] /\ IsLeaf(heap, n) -> RangeFound(None, None)
                 [] l[1] = u[1] /\ ~IsLeaf(heap, n) -> goto("bifurcation", descend(heap, n, l[1]))
                 [] OTHER -> goto("aborted", n)
  /\ UNCHANGED <<map, remaining, item>>

\* One level of find_leaf_edges_spanning_range: both edges go down in step ...
SpanningDescend ==
  /\ pc = "spanning"
  /\ ~IsLeaf(heap, lower.node)
  /\ LET f == descend(heap, lower.node, lower.idx)
         b == descend(heap, upper.node, upper.idx)
     IN  \E l \in find_lower_bound_index(heap[f].kv, lower.key, lower.bound) :
         \E u \in find_upper_bound_index(heap[b].kv, upper.key, upper.bound, 0) :
           /\ lower' = [lower EXCEPT !.node = f, !.idx = l[1], !.bound = l[2]]
           /\ upper' = [upper EXCEPT !.node = b, !.idx = u[1], !.bound = u[2]]
  /\ UNCHANGED <<map, pc, front, back, remaining, item>>

\* ... and arrive at leaves together.
SpanningLeaf ==
  /\ pc = "spanning"
  /\ IsLeaf(heap, lower.node)
  /\ RangeFound(Some(Edge(Handle(lower.node, lower.idx))),
                Some(Edge(Handle(upper.node, upper.idx))))
  /\ UNCHANGED <<map, remaining, item>>

\* A comparator panics; the search holds nothing but references.
CompPanics ==
  /\ \/ /\ pc = "bifurcation"
        /\ Compares(heap[lower.node].kv, lower.bound) \/ Compares(heap[upper.node].kv, upper.bound)
     \/ /\ pc = "spanning"
        /\ ~IsLeaf(heap, lower.node)
        /\ \/ Compares(heap[descend(heap, lower.node, lower.idx)].kv, lower.bound)
           \/ Compares(heap[descend(heap, upper.node, upper.idx)].kv, upper.bound)
  /\ Idle
  /\ UNCHANGED map

-----------------------------------------------------------------------------
(* Iteration *)

\* next_unchecked: `next_kv().ok().unwrap()' panics inside of mem::replace,
\* which aborts the program, if there is no pair.
next_unchecked(f) ==
  LET kv == next_kv(heap, f)
  IN  IF kv = NoHandle THEN pc' = "aborted" /\ UNCHANGED <<front, item>>
      ELSE front' = Some(Edge(next_leaf_edge(heap, kv))) /\ item' = Some(kv) /\ pc' = pc

\* Fault: the pair is read at the edge the handle has moved to.
next_back_unchecked_moved(b) ==
  LET kv == next_back_kv(heap, b)
  IN  IF kv = NoHandle THEN pc' = "aborted" /\ UNCHANGED <<back, item>>
      ELSE /\ back' = Some(Edge(next_back_leaf_edge(heap, kv)))
           /\ item' = Some(next_back_leaf_edge(heap, kv))
           /\ pc' = pc

next_back_unchecked(b) ==
  LET kv == next_back_kv(heap, b)
  IN  IF kv = NoHandle THEN pc' = "aborted" /\ UNCHANGED <<back, item>>
      ELSE back' = Some(Edge(next_back_leaf_edge(heap, kv))) /\ item' = Some(kv) /\ pc' = pc

\* Iter::next, IterMut::next.
IterNext ==
  /\ pc = "iter"
  /\ IF remaining = 0 THEN item' = None /\ UNCHANGED <<pc, front, remaining>>
     ELSE /\ remaining' = remaining - 1
          /\ next_unchecked(init_front(heap, front[1]))
  /\ UNCHANGED <<map, search, back>>

IterNextBack ==
  /\ pc = "iter"
  /\ IF remaining = 0 THEN item' = None /\ UNCHANGED <<pc, back, remaining>>
     ELSE /\ remaining' = remaining - 1
          /\ next_back_unchecked(init_back(heap, back[1]))
  /\ UNCHANGED <<map, search, front>>

\* Range::next, RangeMut::next: the range is empty when its ends have met.
RangeNext ==
  /\ pc = "range"
  /\ IF front = back THEN item' = None /\ UNCHANGED <<pc, front>>
     ELSE next_unchecked(front[1].at)
  /\ UNCHANGED <<map, search, back, remaining>>

RangeNextBack ==
  /\ pc = "range"
  /\ IF front = back THEN item' = None /\ UNCHANGED <<pc, back>>
     ELSE next_back_unchecked(back[1].at)
  /\ UNCHANGED <<map, search, front, remaining>>

DropIterator == pc \in {"iter", "range"} /\ Idle /\ UNCHANGED map

Next ==
  \/ Iter
  \/ \E lb, ub \in SearchBound : \E l \in Asked(lb), u \in Asked(ub) : OpenRange(l, lb, u, ub)
  \/ Bifurcation \/ SpanningDescend \/ SpanningLeaf \/ CompPanics
  \/ IterNext \/ IterNextBack \/ RangeNext \/ RangeNextBack
  \/ DropIterator

Spec == Init /\ [][Next]_vars

-----------------------------------------------------------------------------
\* The elements between the two ends.
Rest ==
  IF pc \in {"iter", "range"} /\ front # None
  THEN SubSeq(Elements(heap, root),
              Before(heap, root, init_front(heap, front[1])) + 1,
              Before(heap, root, init_back(heap, back[1])))
  ELSE <<>>

\* Iter's count and its two ends, which are moved independently of each other,
\* always agree: neither end runs past the other or out of the tree, which
\* would be undefined behaviour or an abort, and none stops short.  The ends
\* of a Range are in order, whatever the comparators have answered.
EndsAgree ==
  /\ pc # "aborted"
  /\ pc = "iter" => remaining = Len(Rest)
  /\ pc = "range" /\ front # None =>
       Before(heap, root, front[1].at) <= Before(heap, root, back[1].at)

Abstract == INSTANCE ElementIterator WITH elements <- Elements(heap, root), rest <- Rest

\* Both kinds of iterator hand out each element of a stretch of the map once,
\* in order from the front and in reverse from the back, so that the mutable
\* references of IterMut and RangeMut never alias.
ImplementsIterator == Abstract!Spec

-----------------------------------------------------------------------------
(* With comparators that follow the order of the tree *)

AboveLower(k) ==
  CASE lower.asked = "AllIncluded" -> TRUE
    [] lower.asked = "AllExcluded" -> FALSE
    [] lower.asked = "Included" -> "Greater" \notin Cmp[k, lower.key]
    [] lower.asked = "Excluded" -> Cmp[k, lower.key] = {"Less"}

BelowUpper(k) ==
  CASE upper.asked = "AllIncluded" -> TRUE
    [] upper.asked = "AllExcluded" -> FALSE
    [] upper.asked = "Included" -> "Less" \notin Cmp[k, upper.key]
    [] upper.asked = "Excluded" -> Cmp[k, upper.key] = {"Greater"}

WithinBounds(e) == AboveLower(PairAt(heap, e)[1]) /\ BelowUpper(PairAt(heap, e)[1])

\* The comparators follow the order of the tree.
Lawful == \A q \in {lower.key, upper.key} \ {Nil} : Decided(q)

\* "start > end", or "start == end and both bounds are Excluded": the lower key,
\* looked for, goes past the upper one, or the two are equal.
ImpossibleBounds ==
  /\ lower.asked \in {"Included", "Excluded"} /\ upper.asked \in {"Included", "Excluded"}
  /\ \/ Cmp[upper.key, lower.key] = {"Greater"}
     \/ /\ Cmp[upper.key, lower.key] = {"Equal"}
        /\ lower.asked = "Excluded" /\ upper.asked = "Excluded"

SearchReturns == pc \in {"bifurcation", "spanning"} /\ pc' = "range"

\* A range found by comparators that follow the order of the tree starts with
\* exactly the elements within its two bounds, also when both bounds run through
\* the same nodes, meet at a pair of an internal node, or leave nothing between
\* them.  Of bounds that are documented to panic it says nothing.
RangeWithinBounds ==
  [][SearchReturns /\ Lawful /\ ~ImpossibleBounds =>
       Rest' = SelectSeq(Elements(heap, root), WithinBounds)]_vars

\* "Panics if range `start > end`.  Panics if range `start == end` and both bounds
\* are `Excluded`" (range, range_mut); "panics if the range specifies impossible
\* bounds" (search_tree_for_bifurcation): the search for such a range does not return.
ImpossibleBoundsPanic == [][SearchReturns /\ Lawful => ~ImpossibleBounds]_vars

=============================================================================
