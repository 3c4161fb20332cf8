------------------------------- MODULE BTreeDying -------------------------------
(***************************************************************************)
(* A map that is consumed: into_iter, and drop and clear, which create an  *)
(* IntoIter and drop it at once.  The nodes are freed as the two ends of   *)
(* the iterator leave them behind, and the last pile of them when the ends *)
(* have met.  The client may take elements from both ends, or drop the     *)
(* iterator at any time; the destructor of a key or a value may panic, and *)
(* DropGuard goes on with the rest.                                        *)
(***************************************************************************)
EXTENDS BTreeNavigate, BTreeMaps

VARIABLES whole,         \* the map as it was
          heap,          \* the nodes that are still allocated
          pc,            \* "held" while the client has the iterator
          front, back,   \* Option<LazyLeafHandle>
          remaining,     \* IntoIter::length
          item,          \* Option: the pair taken out last
          unwinding,     \* a panic is unwinding the stack
          leaked         \* the pairs whose value will never be dropped

ends == <<front, back, remaining>>
vars == <<whole, heap, pc, front, back, remaining, item, unwinding, leaked>>

\* into_iter: the map's root is taken and seen from both ends.
Init ==
  /\ whole \in Maps
  /\ heap = whole.heap
  /\ pc = "held"
  /\ front = IF whole.root = Nil THEN None ELSE Some(Root(whole.root))
  /\ back = front
  /\ remaining = IF whole.root = Nil THEN 0 ELSE whole.length
  /\ item = None
  /\ unwinding = FALSE
  /\ leaked = {}

-----------------------------------------------------------------------------
(* IntoIter *)

\* LazyLeafRange::deallocating_end: the front, if it is still there, is in a
\* leaf all of whose ancestors are left.
deallocating_end ==
  /\ item' = None
  /\ heap' = IF front = None THEN heap
             ELSE DeallocateAll(heap, Pile(heap, init_front(heap, front[1]).node))
  /\ front' = None
  /\ UNCHANGED <<back, remaining>>

\* dying_next.  The nodes before the pair are freed and the edge is moved; the
\* caller reads the pair afterwards.  No pair: unwrap panics in mem::replace.
dying_next(label) ==
  IF remaining = 0 THEN deallocating_end /\ pc' = label.none
  ELSE LET e == init_front(heap, front[1])
           kv == next_kv(heap, e)
       IN  IF kv = NoHandle THEN pc' = "aborted" /\ UNCHANGED <<heap, ends, item>>
           ELSE /\ heap' = DeallocateAll(heap, LeftBehind(heap, e))
                /\ front' = Some(Edge(next_leaf_edge(heap, kv)))
                /\ remaining' = remaining - 1
                /\ item' = Some(kv)
                /\ pc' = label.some
                /\ UNCHANGED back

\* Fault: the pair is read at the edge the handle has moved to.
dying_next_back_moved(label) ==
  IF remaining = 0 THEN deallocating_end /\ pc' = label.none
  ELSE LET e == init_back(heap, back[1])
           kv == next_back_kv(heap, e)
       IN  IF kv = NoHandle THEN pc' = "aborted" /\ UNCHANGED <<heap, ends, item>>
           ELSE /\ heap' = DeallocateAll(heap, LeftBehindBack(heap, e))
                /\ back' = Some(Edge(next_back_leaf_edge(heap, kv)))
                /\ remaining' = remaining - 1
                /\ item' = Some(next_back_leaf_edge(heap, kv))
                /\ pc' = label.some
                /\ UNCHANGED front

dying_next_back(label) ==
  IF remaining = 0 THEN deallocating_end /\ pc' = label.none
  ELSE LET e == init_back(heap, back[1])
           kv == next_back_kv(heap, e)
       IN  IF kv = NoHandle THEN pc' = "aborted" /\ UNCHANGED <<heap, ends, item>>
           ELSE /\ heap' = DeallocateAll(heap, LeftBehindBack(heap, e))
                /\ back' = Some(Edge(next_back_leaf_edge(heap, kv)))
                /\ remaining' = remaining - 1
                /\ item' = Some(kv)
                /\ pc' = label.some
                /\ UNCHANGED front

\* IntoIter::next; into_key_val moves the pair out of its node.
IntoIterNext ==
  /\ pc = "held"
  /\ dying_next([some |-> "held", none |-> "held"])
  /\ UNCHANGED <<whole, unwinding, leaked>>

IntoIterNextBack ==
  /\ pc = "held"
  /\ dying_next_back([some |-> "held", none |-> "held"])
  /\ UNCHANGED <<whole, unwinding, leaked>>

-----------------------------------------------------------------------------
(* Drop *)

\* The client drops the iterator, perhaps because it panics itself.
DropIntoIter(u) ==
  /\ pc = "held"
  /\ pc' = "dropping"
  /\ unwinding' = u
  /\ UNCHANGED <<whole, heap, ends, item, leaked>>

\* The head of the loop of IntoIter::drop, or of DropGuard::drop.
DropNext ==
  /\ pc = "dropping"
  /\ dying_next([some |-> "drop_key", none |-> "dropped"])
  /\ UNCHANGED <<whole, unwinding, leaked>>

\* drop_key_val.
DropKey ==
  /\ pc = "drop_key"
  /\ pc' = "drop_val"
  /\ UNCHANGED <<whole, heap, ends, item, unwinding, leaked>>

\* Fault: the loop goes on with the same pair.
DropValAgain ==
  /\ pc = "drop_val"
  /\ pc' = "drop_key"
  /\ UNCHANGED <<whole, heap, ends, item, unwinding, leaked>>

DropVal ==
  /\ pc = "drop_val"
  /\ pc' = "dropping"
  /\ UNCHANGED <<whole, heap, ends, item, unwinding, leaked>>

\* Fault: no guard goes on after a panic.
DropPanicsUnguarded ==
  /\ pc \in {"drop_key", "drop_val"}
  /\ leaked' = IF pc = "drop_key" THEN leaked \cup {item[1]} ELSE leaked
  /\ pc' = IF unwinding THEN "double_panic" ELSE "dropped"
  /\ unwinding' = TRUE
  /\ UNCHANGED <<whole, heap, ends, item>>

\* The destructor panics.  DropGuard goes on with the next element; the value
\* of a key whose destructor has panicked is not dropped.  A second panic
\* ends the program.
DropPanics ==
  /\ pc \in {"drop_key", "drop_val"}
  /\ leaked' = IF pc = "drop_key" THEN leaked \cup {item[1]} ELSE leaked
  /\ pc' = IF unwinding THEN "double_panic" ELSE "dropping"
  /\ unwinding' = TRUE
  /\ UNCHANGED <<whole, heap, ends, item>>

Next ==
  \/ IntoIterNext \/ IntoIterNextBack
  \/ \E u \in BOOLEAN : DropIntoIter(u)
  \/ DropNext \/ DropKey \/ DropVal \/ DropPanics

Spec == Init /\ [][Next]_vars

\* A drop that has begun goes on by itself.
DropStep == DropNext \/ DropKey \/ DropVal \/ DropPanics

FairSpec == Spec /\ WF_vars(DropStep)
-----------------------------------------------------------------------------
Finished == pc \in {"dropped", "double_panic"}

\* The elements between the two ends, by their places in the map as it was.
Rest ==
  IF front = None THEN <<>>
  ELSE SubSeq(Elements(whole.heap, whole.root),
              Before(whole.heap, whole.root, init_front(whole.heap, front[1])) + 1,
              Before(whole.heap, whole.root, init_back(whole.heap, back[1])))

\* However the two ends nibble at the tree, no node is freed that is still to
\* be read: not one that holds an element that is left, or the pair about to
\* be dropped, nor the leaf where the front is.  With every node that is left the
\* ones above it are left too, up to the root, so that both ends can climb.
NothingFreedEarly ==
  /\ pc # "aborted"
  /\ LET rest == Rest
         needed == {rest[i].node : i \in 1 .. Len(rest)}
                     \cup (IF front = None THEN {} ELSE {init_front(whole.heap, front[1]).node})
                     \cup (IF pc \in {"drop_key", "drop_val"} THEN {item[1].node} ELSE {})
     IN  needed \subseteq DOMAIN heap
  /\ \A n \in DOMAIN heap \ {whole.root} : heap[n].parent \in DOMAIN heap

\* When the drop is over every node has been freed and no element is left, with
\* or without a panic on the way; the only thing lost is the value beside the
\* key whose destructor has panicked.
EverythingDropped ==
  pc = "dropped" =>
    /\ DOMAIN heap = {}
    /\ remaining = 0
    /\ \A x, y \in leaked : x = y
    /\ leaked # {} => unwinding

Abstract == INSTANCE ElementIterator
  WITH elements <- Elements(whole.heap, whole.root), rest <- Rest

\* Each element is handed to the client or dropped once and none is left out,
\* in whatever order the two ends are asked and across a panic of a destructor.
EachElementOnce == Abstract!WalkSpec

\* A drop ends, with all done or with a second panic.
DropEnds == pc = "dropping" ~> Finished
=============================================================================
