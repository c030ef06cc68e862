-------------------------- MODULE SortedContract --------------------------
(***************************************************************************)
(* What the range index of a column promises, with no order in sight: a bag *)
(* of entries <<value, row id>>, of which a search finds exactly those in   *)
(* range, every copy, by ascending value.                                   *)
(***************************************************************************)
EXTENDS Integers, SequencesExt

CONSTANTS Key,       \* the i64 values that occur
          Id,        \* the row ids that occur
          Bound      \* the bounds callers search with

VARIABLES count,     \* how often each entry is filed
          answer     \* the last search: its bounds, and the hits, values beside the ids

vars == <<count, answer>>

Entry == Key \X Id

Ascending(s) == \A i, j \in DOMAIN s : i < j => s[i][1] <= s[j][1]

Copies(s, e) == Cardinality({i \in DOMAIN s : s[i] = e})

Unasked == [min |-> 0, max |-> 0, hits |-> <<>>]

Init == count = [e \in Entry |-> 0] /\ answer = Unasked

File(e) == count' = [count EXCEPT ![e] = @ + 1] /\ UNCHANGED answer

Unfile(e) == count' = [count EXCEPT ![e] = 0] /\ UNCHANGED answer

\* All entries with min <= value <= max, by ascending value, ties in any order.
Finds(min, max, hits) ==
  /\ hits \in Seq(Entry) /\ Ascending(hits)
  /\ \A e \in Entry :
       Copies(hits, e) = IF min <= e[1] /\ e[1] <= max THEN count[e] ELSE 0

Search(min, max) ==
  /\ answer' = [min |-> min, max |-> max, hits |-> answer'.hits]
  /\ Finds(min, max, answer'.hits)
  /\ UNCHANGED count

Next ==
  \/ \E e \in Entry : File(e) \/ Unfile(e)
  \/ \E min, max \in Bound : Search(min, max)

Spec == Init /\ [][Next]_vars
=============================================================================
