------------------------------ MODULE SortedMap ------------------------------
(***************************************************************************)
(* What a BTreeMap promises to a client whose comparator is a total order: *)
(* a sequence of entries in strictly increasing order of their keys, on    *)
(* which every operation finds, adds or takes out exactly one entry, at    *)
(* one moment between its call and its return.  It says nothing of nodes.  *)
(***************************************************************************)
EXTENDS Integers, Sequences

CONSTANTS Key, Val,
          Cmp       \* Cmp[k, q]: the comparator's possible answers, see BTreeMap

VARIABLES entries,  \* the entries in order
          phase,    \* how far the current call is
          op, key,  \* the call and its key
          ret       \* the entry that a finished or committed call returns

avars == <<entries, phase, op, key, ret>>

None == <<>>
SearchOps == {"get", "insert", "entry", "remove", "replace"}
EndOps == {"first_entry", "last_entry", "pop_first", "pop_last"}
EntryOps == {"entry", "first_entry", "last_entry"}

Init == entries = <<>> /\ phase = "idle" /\ op = "none" /\ key = None /\ ret = None

Return(r) == phase' = "idle" /\ op' = "none" /\ key' = None /\ ret' = r

\* The entry the call is about.
Matches(i) ==
  CASE op \in SearchOps -> Cmp[entries[i][1], key[1]] = {"Equal"}
    [] op \in {"first_entry", "pop_first"} -> i = 1
    [] op \in {"last_entry", "pop_last"} -> i = Len(entries)

\* Position i is where the key belongs: after all smaller keys and before all greater ones.
Belongs(i) ==
  \A j \in 1 .. Len(entries) :
    Cmp[entries[j][1], key[1]] = IF j < i THEN {"Greater"} ELSE {"Less"}

Call ==
  /\ phase = "idle"
  /\ \/ \E o \in SearchOps, k \in Key : op' = o /\ key' = <<k>>
     \/ \E o \in EndOps : op' = o /\ key' = None
  /\ phase' = "lookup" /\ ret' = None
  /\ UNCHANGED entries

\* The answer for an empty map may come at once.
CallEmpty ==
  /\ phase = "idle"
  /\ entries = <<>>
  /\ \/ Return(None)
     \/ \E o \in {"insert", "entry"}, k \in Key :
          op' = o /\ key' = <<k>> /\ phase' = "vacant" /\ ret' = None
  /\ UNCHANGED entries

Found ==
  /\ phase = "lookup"
  /\ \E i \in 1 .. Len(entries) :
       /\ Matches(i)
       /\ IF op = "get" THEN Return(<<entries[i]>>)
          ELSE phase' = "occupied" /\ UNCHANGED <<op, key, ret>>
  /\ UNCHANGED entries

Missing ==
  /\ phase = "lookup"
  /\ ~\E i \in 1 .. Len(entries) : Matches(i)
  /\ IF op \in EndOps \cup {"get", "remove"} THEN Return(None)
     ELSE phase' = "vacant" /\ UNCHANGED <<op, key, ret>>
  /\ UNCHANGED entries

\* The comparator panics: the map keeps what it had.
Panic == phase = "lookup" /\ op \in SearchOps /\ Return(None) /\ UNCHANGED entries

Drop == phase \in {"occupied", "vacant"} /\ op \in EntryOps /\ Return(None) /\ UNCHANGED entries

\* The key stays, the value is replaced; only insert returns at once.
SetValue ==
  /\ phase = "occupied"
  /\ op \in EntryOps \cup {"insert"}
  /\ \E i \in 1 .. Len(entries), v \in Val :
       /\ Matches(i)
       /\ entries' = [entries EXCEPT ![i][2] = v]
       /\ IF op = "insert" THEN Return(<<entries[i]>>) ELSE UNCHANGED <<phase, op, key, ret>>

SetKey ==
  /\ phase = "occupied"
  /\ op = "replace"
  /\ \E i \in 1 .. Len(entries) :
       /\ Matches(i)
       /\ entries' = [entries EXCEPT ![i][1] = key[1]]
       /\ Return(<<entries[i]>>)

\* A committed call returns now or later.
Commit(r) == Return(r) \/ (phase' = "done" /\ ret' = r /\ UNCHANGED <<op, key>>)

Add ==
  /\ phase = "vacant"
  /\ \E i \in 1 .. Len(entries) + 1, v \in Val :
       /\ Belongs(i)
       /\ entries' = SubSeq(entries, 1, i - 1) \o << <<key[1], v>> >>
                       \o SubSeq(entries, i, Len(entries))
  /\ Commit(None)

TakeOut ==
  /\ phase = "occupied"
  /\ op \in EntryOps \cup {"remove", "pop_first", "pop_last"}
  /\ \E i \in 1 .. Len(entries) :
       /\ Matches(i)
       /\ entries' = SubSeq(entries, 1, i - 1) \o SubSeq(entries, i + 1, Len(entries))
       /\ Commit(<<entries[i]>>)

Done == phase = "done" /\ Return(ret) /\ UNCHANGED entries

Next ==
  \/ Call \/ CallEmpty
  \/ Found \/ Missing \/ Panic
  \/ Drop \/ SetValue \/ SetKey \/ Add \/ TakeOut
  \/ Done

Spec == Init /\ [][Next]_avars
=============================================================================
