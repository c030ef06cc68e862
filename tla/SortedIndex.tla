---------------------------- MODULE SortedIndex ----------------------------
(***************************************************************************)
(* The range index of one column (index.rs, SortedIndex): a vector that     *)
(* inserts push to, that is sorted again only when a search comes, and that *)
(* a search cuts with two binary searches.  The flag sorted is all that     *)
(* stands between a search and an unsorted vector, on which                 *)
(* partition_point may answer anything.                                     *)
(***************************************************************************)
EXTENDS Integers, SequencesExt, Selections

CONSTANTS Key,       \* the i64 values that occur
          Id,        \* the row ids that occur
          Bound,     \* the bounds callers search with
          MaxLen     \* bound: entries at a time

ASSUME SortedAssumption ==
  /\ Key \subseteq Int
  /\ Bound \subseteq Int
  /\ MaxLen \in Nat

VARIABLES entries,   \* SortedIndex::entries
          sorted,    \* SortedIndex::sorted
          answer,    \* the last search: its bounds, and the hits, values beside the ids
          panicked   \* the process has aborted

vars == <<entries, sorted, answer, panicked>>

Entry == Key \X Id

Ascending(s) == \A i, j \in DOMAIN s : i < j => s[i][1] <= s[j][1]

Copies(s, e) == Cardinality({i \in DOMAIN s : s[i] = e})

-----------------------------------------------------------------------------
\* sort_unstable_by_key: the entries in ascending order, ties in any order.
Sortings(s) ==
  {p \in [1..Len(s) -> ToSet(s)] : Ascending(p) /\ \A e \in ToSet(s) : Copies(p, e) = Copies(s, e)}

\* What ensure_sorted may leave in entries.
ensure_sorted == IF sorted THEN {entries} ELSE Sortings(entries)

Below(s, b) == {i \in DOMAIN s : s[i][1] < b}
UpTo(s, b)  == {i \in DOMAIN s : s[i][1] <= b}

\* partition_point with the predicate that holds at the places before: where
\* the vector is cut.  "If the slice is not partitioned, the result is
\* unspecified."
PartitionPoint(s, before) ==
  LET n == Cardinality(before) IN IF before = 1..n THEN {n} ELSE 0..Len(s)

-----------------------------------------------------------------------------
Unasked == [min |-> 0, max |-> 0, hits |-> <<>>]

Init ==
  /\ entries = <<>>
  /\ sorted = TRUE
  /\ answer = Unasked
  /\ panicked = FALSE

\* Fault: an entry that belongs at the end keeps the vector sorted, or so it seems.
insert_keeps_flag(e) ==
  /\ Len(entries) < MaxLen
  /\ entries' = Append(entries, e)
  /\ sorted' = (sorted /\ (entries = <<>> \/ entries[1][1] <= e[1]))
  /\ UNCHANGED <<answer, panicked>>

insert(e) ==
  /\ Len(entries) < MaxLen
  /\ entries' = Append(entries, e)
  /\ sorted' = FALSE
  /\ UNCHANGED <<answer, panicked>>

\* Fault: swap_remove instead of retain.
swap_remove(e) ==
  /\ entries' = IF e \in ToSet(entries)
                THEN LET i == CHOOSE j \in DOMAIN entries : entries[j] = e IN
                     Front([entries EXCEPT ![i] = Last(entries)])
                ELSE entries
  /\ UNCHANGED <<sorted, answer, panicked>>

\* retain keeps the order, and the flag with it.
remove(e) ==
  /\ entries' = Only(entries, Entry \ {e})
  /\ UNCHANGED <<sorted, answer, panicked>>

\* Fault: both cuts by <, so that the upper bound is left out.
search_exclusive(min, max) ==
  /\ entries' \in ensure_sorted
  /\ sorted' = TRUE
  /\ \E start \in PartitionPoint(entries', Below(entries', min)),
        end   \in PartitionPoint(entries', Below(entries', max)) :
       /\ panicked' = (start > end)
       /\ answer' = IF start > end THEN answer ELSE
            [min |-> min, max |-> max, hits |-> SubSeq(entries', start + 1, end)]

\* search_range, and search_exact with min = max; a reversed slice panics.
search_range(min, max) ==
  /\ entries' \in ensure_sorted
  /\ sorted' = TRUE
  /\ \E start \in PartitionPoint(entries', Below(entries', min)),
        end   \in PartitionPoint(entries', UpTo(entries', max)) :
       /\ panicked' = (start > end)
       /\ answer' = IF start > end THEN answer ELSE
            [min |-> min, max |-> max, hits |-> SubSeq(entries', start + 1, end)]

Next ==
  /\ ~ panicked
  /\ \/ \E e \in Entry : insert(e) \/ remove(e)
     \/ \E min, max \in Bound : search_range(min, max)

Spec == Init /\ [][Next]_vars

-----------------------------------------------------------------------------
\* The flag never lies: whatever was pushed and retained since, a vector that
\* counts as sorted is sorted (insert and remove, index.rs:246 and 277).
SortedFlagIsTrue == sorted => Ascending(entries)

\* Nothing panics but a range with min above max that has an entry strictly
\* between: the two cuts of an ordered range are in order.
OrderedRangesAnswer ==
  [][panicked' => \A min, max \in Bound : search_range(min, max) =>
       \E i \in DOMAIN entries : max < entries[i][1] /\ entries[i][1] < min]_vars

\* Sorting late, cutting twice and retaining in place find what a bag of
\* entries would, in ascending order.
Count == [e \in Entry |-> Copies(entries, e)]
Bag == INSTANCE SortedContract WITH count <- Count
AnswersAsBag == Bag!Spec
=============================================================================
