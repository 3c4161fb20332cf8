----------------------------- MODULE SequenceCursor -----------------------------
(***************************************************************************)
(* What a cursor promises: a position in the circle that the entries of    *)
(* the map make together with one ghost between the last and the first.    *)
(* It says nothing of nodes: every operation is one step.                  *)
(***************************************************************************)
EXTENDS Integers, Sequences

CONSTANTS Key, Val,
          Cmp      \* Cmp[k, q]: the possible answers for the stored key k and a key q

VARIABLES entries,  \* the entries in order
          at,       \* the number of the current entry, 0 for the ghost
          ret       \* Option: what the last removal returned

cvars == <<entries, at, ret>>

InsertAt(i, e) == SubSeq(entries, 1, i - 1) \o <<e>> \o SubSeq(entries, i, Len(entries))
RemoveAt(i) == SubSeq(entries, 1, i - 1) \o SubSeq(entries, i + 1, Len(entries))

\* The neighbours in the circle.
After(i) == (i + 1) % (Len(entries) + 1)
Back(i) == (i + Len(entries)) % (Len(entries) + 1)

\* lower_bound and upper_bound may find any place; a panic leaves no cursor.
Seek == at' \in 0 .. Len(entries) /\ UNCHANGED entries

Move == at' \in {After(at), Back(at)} /\ UNCHANGED entries

\* Through value_mut, or through a reference to a neighbour.
SetValue ==
  /\ \E i \in {at, After(at), Back(at), 1} \ {0}, v \in Val :
       i <= Len(entries) /\ entries' = [entries EXCEPT ![i][2] = v]
  /\ UNCHANGED at

\* Creating, moving and writing through a cursor.
Look == (Seek \/ Move \/ SetValue) /\ ret' = <<>>

\* The new entry comes after the current one, first if that is the ghost, or
\* before the current one, last if that is the ghost.
PlaceAfter == at + 1
PlaceBefore == IF at = 0 THEN Len(entries) + 1 ELSE at

\* The key compares greater than the entry before the place and less than the
\* one that is there, if there are any.
InOrderAt(i, k) ==
  /\ i > 1 => Cmp[entries[i - 1][1], k] = {"Greater"}
  /\ i <= Len(entries) => Cmp[entries[i][1], k] = {"Less"}

\* The cursor stays with the current entry.  The order is left to the client of
\* the unchecked insertions.
InsertAfterUnchecked(k) ==
  /\ \E v \in Val : entries' = InsertAt(PlaceAfter, <<k, v>>)
  /\ at' = at
  /\ ret' = <<>>

InsertBeforeUnchecked(k) ==
  /\ \E v \in Val : entries' = InsertAt(PlaceBefore, <<k, v>>)
  /\ at' = IF at = 0 THEN 0 ELSE at + 1
  /\ ret' = <<>>

\* The others only return if the key is in order.
InsertAfter(k) == InOrderAt(PlaceAfter, k) /\ InsertAfterUnchecked(k)
InsertBefore(k) == InOrderAt(PlaceBefore, k) /\ InsertBeforeUnchecked(k)

Remove == at # 0 /\ entries' = RemoveAt(at) /\ ret' = <<entries[at]>>

\* The cursor moves on to the next entry, or back to the one before.
RemoveAndMoveNext == Remove /\ at' = at % Len(entries)
RemoveAndMoveBack == Remove /\ at' = at - 1

Next ==
  \/ Look
  \/ \E k \in Key :
       \/ InsertAfter(k) \/ InsertBefore(k)
       \/ InsertAfterUnchecked(k) \/ InsertBeforeUnchecked(k)
  \/ RemoveAndMoveNext \/ RemoveAndMoveBack
=============================================================================
