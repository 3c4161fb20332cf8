---------------------------- MODULE ElementIterator ----------------------------
(***************************************************************************)
(* What a double-ended iterator over a map promises: it is created for a   *)
(* stretch of the elements, hands out each of them once, from either end,  *)
(* and then nothing.                                                       *)
(***************************************************************************)
EXTENDS Integers, Sequences

VARIABLES elements,  \* the elements of the map in order
          rest,      \* the elements yet to be handed out
          item       \* Option: what the last call returned

ivars == <<elements, rest, item>>

Init == rest = <<>> /\ item = <<>>

Create ==
  /\ rest' \in {SubSeq(elements, i, j) : i \in 1 .. Len(elements) + 1, j \in 0 .. Len(elements)}
  /\ item' = <<>>

TakeFirst == rest # <<>> /\ item' = <<Head(rest)>> /\ rest' = Tail(rest)

TakeLast == rest # <<>> /\ item' = <<rest[Len(rest)]>> /\ rest' = SubSeq(rest, 1, Len(rest) - 1)

Exhausted == rest = <<>> /\ item' = <<>> /\ rest' = rest

Drop == rest' = <<>> /\ item' = <<>>

\* The iterator is there from the start and is used up to its end.
Walk == TakeFirst \/ TakeLast \/ Exhausted

WalkSpec == rest = elements /\ item = <<>> /\ [][Walk /\ elements' = elements]_ivars

Next ==
  /\ TakeFirst \/ TakeLast \/ Exhausted \/ Drop \/ Create
  /\ elements' = elements

Spec == Init /\ [][Next]_ivars
=============================================================================
