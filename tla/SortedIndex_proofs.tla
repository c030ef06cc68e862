------------------------- MODULE SortedIndex_proofs -------------------------
(***************************************************************************)
(* That the flag of a range index tells the truth, that the two cuts of a   *)
(* search are in order, and that what a search finds is what a bag of       *)
(* entries would answer: for all values, row ids, bounds and lengths.       *)
(***************************************************************************)
EXTENDS SortedIndex, Loops_proofs, FunctionTheorems

-----------------------------------------------------------------------------
(* How often an entry occurs. *)

\* The places of an entry are finitely many.
LEMMA PlacesFinite ==
  ASSUME NEW S, NEW s \in Seq(S), NEW P \in SUBSET DOMAIN s
  PROVE  IsFiniteSet(P) /\ Cardinality(P) \in Nat
<1>1. DOMAIN s = 1..Len(s) /\ Len(s) \in Nat
  OBVIOUS
<1>2. IsFiniteSet(1..Len(s))
  BY <1>1, FS_Interval
<1>3. IsFiniteSet(P)
  BY <1>1, <1>2, FS_Subset
<1> QED BY <1>3, FS_CardinalityType

LEMMA CopiesType ==
  ASSUME NEW S, NEW s \in Seq(S), NEW e
  PROVE  Copies(s, e) \in Nat
<1> DEFINE P == {i \in DOMAIN s : s[i] = e}
<1>1. P \in SUBSET DOMAIN s
  OBVIOUS
<1>2. Cardinality(P) \in Nat
  <2> HIDE DEF P
  <2> QED BY <1>1, PlacesFinite
<1> QED BY <1>2 DEF Copies

\* An entry that is at no place occurs never.
LEMMA CopiesNone ==
  ASSUME NEW s, NEW e, \A i \in DOMAIN s : s[i] # e
  PROVE  Copies(s, e) = 0
<1>1. {i \in DOMAIN s : s[i] = e} = {}
  OBVIOUS
<1> QED BY <1>1, FS_EmptySet DEF Copies

\* One entry more is one copy more of that entry.
LEMMA CopiesAppend ==
  ASSUME NEW S, NEW s \in Seq(S), NEW x \in S, NEW e
  PROVE  Copies(Append(s, x), e) = Copies(s, e) + (IF x = e THEN 1 ELSE 0)
<1> DEFINE n == Len(s)
           P == {i \in DOMAIN s : s[i] = e}
           Q == {i \in DOMAIN Append(s, x) : Append(s, x)[i] = e}
<1>1. /\ n \in Nat /\ DOMAIN s = 1..n /\ DOMAIN Append(s, x) = 1..(n + 1)
      /\ \A i \in 1..n : Append(s, x)[i] = s[i]
      /\ Append(s, x)[n + 1] = x
  OBVIOUS
<1>2. Q = IF x = e THEN P \cup {n + 1} ELSE P
  BY <1>1
<1>3. n + 1 \notin P /\ P \in SUBSET DOMAIN s
  BY <1>1
<1>4. IsFiniteSet(P) /\ Cardinality(P) \in Nat
  <2> HIDE DEF P
  <2> QED BY <1>3, PlacesFinite
<1> HIDE DEF P, Q, n
<1>5. Cardinality(P \cup {n + 1}) = Cardinality(P) + 1
  BY <1>3, <1>4, FS_AddElement
<1>6. Cardinality(Q) = Cardinality(P) + (IF x = e THEN 1 ELSE 0)
  <2>1. CASE x = e
    BY <1>2, <1>5, <2>1
  <2>2. CASE x # e
    BY <1>2, <1>4, <2>2
  <2> QED BY <2>1, <2>2
<1> QED BY <1>6 DEF Copies, P, Q

\* A selection keeps every copy of what it keeps.
LEMMA CopiesOnly ==
  ASSUME NEW S, NEW s \in Seq(S), NEW V, NEW e
  PROVE  Copies(Only(s, V), e) = IF e \in V THEN Copies(s, e) ELSE 0
<1> DEFINE T == {u \in Seq(S) : Copies(Only(u, V), e) = IF e \in V THEN Copies(u, e) ELSE 0}
<1>1. <<>> \in T
  <2>1. Only(<<>>, V) = <<>> /\ <<>> \in Seq(S)
    BY OnlyEmpty
  <2>2. Copies(<<>>, e) = 0
    BY CopiesNone
  <2> QED BY <2>1, <2>2
<1>2. ASSUME NEW u \in Seq(S), NEW x \in S, u \in T PROVE Append(u, x) \in T
  <2>1. /\ Only(u, V) \in Seq(S)
        /\ Append(u, x) \in Seq(S)
        /\ Copies(Only(u, V), e) = IF e \in V THEN Copies(u, e) ELSE 0
    <3>1. Only(u, V) \in Seq(S)
      BY OnlyType
    <3> QED BY <1>2, <3>1
  <2>2. Only(Append(u, x), V) = IF x \in V THEN Append(Only(u, V), x) ELSE Only(u, V)
    BY OnlyAppend
  <2>3. Copies(Append(u, x), e) = Copies(u, e) + (IF x = e THEN 1 ELSE 0)
    BY CopiesAppend
  <2>4. Copies(Append(Only(u, V), x), e) = Copies(Only(u, V), e) + (IF x = e THEN 1 ELSE 0)
    BY <2>1, CopiesAppend
  <2>5. Copies(u, e) \in Nat
    BY CopiesType
  <2>6. Copies(Only(Append(u, x), V), e) = IF e \in V THEN Copies(Append(u, x), e) ELSE 0
    <3>1. CASE x = e
      BY <2>1, <2>2, <2>3, <2>4, <2>5, <3>1
    <3>2. CASE x # e
      <4>1. Copies(Only(Append(u, x), V), e) = Copies(Only(u, V), e)
        BY <2>1, <2>2, <2>4, <2>5, <3>2
      <4> QED BY <2>1, <2>3, <2>5, <3>2, <4>1
    <3> QED BY <3>1, <3>2
  <2> QED BY <2>1, <2>6
<1>3. \A u \in Seq(S), x \in S : u \in T => Append(u, x) \in T
  BY <1>2
<1>4. Seq(S) \subseteq T
  <2> HIDE DEF T
  <2> QED BY <1>1, <1>3, SeqInduction
<1> QED BY <1>4

-----------------------------------------------------------------------------
(* Order. *)

\* A selection of an ascending vector is ascending.
LEMMA AscendingOnly ==
  ASSUME NEW s \in Seq(Entry), NEW V, Ascending(s)
  PROVE  Ascending(Only(s, V))
<1> DEFINE T == {u \in Seq(Entry) : Ascending(u) => Ascending(Only(u, V))}
<1>1. <<>> \in T
  <2>1. Only(<<>>, V) = <<>> /\ <<>> \in Seq(Entry)
    BY OnlyEmpty
  <2> QED BY <2>1
<1>2. ASSUME NEW u \in Seq(Entry), NEW x \in Entry, u \in T PROVE Append(u, x) \in T
  <2> SUFFICES ASSUME Ascending(Append(u, x)) PROVE Ascending(Only(Append(u, x), V))
    OBVIOUS
  <2> DEFINE n == Len(u)
             r == Only(u, V)
             R == {u[i] : i \in 1..n}
  <2>1. /\ n \in Nat /\ DOMAIN Append(u, x) = 1..(n + 1) /\ DOMAIN u = 1..n
        /\ \A i \in 1..n : Append(u, x)[i] = u[i]
        /\ Append(u, x)[n + 1] = x
    OBVIOUS
  <2>2. Ascending(u)
    <3> SUFFICES ASSUME NEW i \in 1..n, NEW j \in 1..n, i < j PROVE u[i][1] <= u[j][1]
      BY <2>1 DEF Ascending
    <3>1. i \in 1..(n + 1) /\ j \in 1..(n + 1)
      BY <2>1
    <3> QED BY <2>1, <3>1 DEF Ascending
  <2>3. Ascending(r)
    BY <1>2, <2>2
  <2>4. \A v \in R : v[1] <= x[1]
    <3> SUFFICES ASSUME NEW i \in 1..n PROVE u[i][1] <= x[1]
      OBVIOUS
    <3>1. i \in 1..(n + 1) /\ n + 1 \in 1..(n + 1) /\ i < n + 1
      BY <2>1
    <3> QED BY <2>1, <3>1 DEF Ascending
  <2>5. r \in Seq(R)
    <3>1. u \in Seq(R)
      OBVIOUS
    <3> HIDE DEF R
    <3> QED BY <3>1, OnlyType
  <2>6. Only(Append(u, x), V) = IF x \in V THEN Append(r, x) ELSE r
    BY OnlyAppend
  <2> HIDE DEF r, R, n
  <2>7. Ascending(Append(r, x))
    <3> SUFFICES ASSUME NEW i \in DOMAIN Append(r, x), NEW j \in DOMAIN Append(r, x), i < j
                 PROVE  Append(r, x)[i][1] <= Append(r, x)[j][1]
      BY DEF Ascending
    <3>1. /\ Len(r) \in Nat /\ i \in 1..Len(r) /\ j \in 1..(Len(r) + 1)
          /\ Append(r, x)[i] = r[i] /\ r[i] \in R
      BY <2>5
    <3>2. CASE j \in 1..Len(r)
      <4>1. Append(r, x)[j] = r[j] /\ i \in DOMAIN r /\ j \in DOMAIN r
        BY <2>5, <3>1, <3>2
      <4> QED BY <2>3, <3>1, <4>1 DEF Ascending
    <3>3. CASE j = Len(r) + 1
      <4>1. Append(r, x)[j] = x
        BY <2>5, <3>3
      <4> QED BY <2>4, <3>1, <4>1
    <3> QED BY <3>1, <3>2, <3>3
  <2> QED BY <2>3, <2>6, <2>7
<1>3. \A u \in Seq(Entry), x \in Entry : u \in T => Append(u, x) \in T
  BY <1>2
<1>4. Seq(Entry) \subseteq T
  <2> HIDE DEF T
  <2> QED BY <1>1, <1>3, SeqInduction
<1> QED BY <1>4

\* Places that come before all others are an interval.
LEMMA Beginning ==
  ASSUME NEW n \in Nat, NEW B \in SUBSET (1..n),
         \A i \in B, j \in 1..n : j <= i => j \in B
  PROVE  Cardinality(B) \in 0..n /\ B = 1..Cardinality(B)
<1> DEFINE C == (1..(n + 1)) \ B
<1>1. C \in SUBSET Nat /\ n + 1 \in C
  OBVIOUS
<1>2. PICK m \in C : \A k \in C : m <= k
  <2>1. C # {} /\ C \in SUBSET Nat
    BY <1>1
  <2> HIDE DEF C
  <2> QED BY <2>1, LeastElement
<1>3. m \in 1..(n + 1) /\ m \notin B
  BY <1>2
<1>4. B = 1..(m - 1)
  <2>1. ASSUME NEW i \in B PROVE i \in 1..(m - 1)
    <3> SUFFICES ASSUME ~(i < m) PROVE FALSE
      BY <1>3
    <3>1. m \in 1..n /\ m <= i
      BY <1>3
    <3> QED BY <1>3, <3>1
  <2>2. ASSUME NEW i \in 1..(m - 1) PROVE i \in B
    <3>1. i \in 1..(n + 1) /\ ~(m <= i)
      BY <1>3
    <3> QED BY <1>2, <3>1
  <2> QED BY <2>1, <2>2
<1>5. Cardinality(1..(m - 1)) = m - 1
  BY <1>3, FS_Interval
<1>6. Cardinality(B) = m - 1
  BY <1>4, <1>5
<1> QED BY <1>3, <1>4, <1>6

LEMMA EntryValue ==
  ASSUME NEW e \in Entry
  PROVE  e[1] \in Int
  BY SortedAssumption DEF Entry

\* Where an ascending vector is cut, all below the bound are before the cut, and
\* nothing else is.
LEMMA CutBelow ==
  ASSUME NEW s \in Seq(Entry), Ascending(s), NEW b \in Int, NEW k \in PartitionPoint(s, Below(s, b))
  PROVE  k \in 0..Len(s) /\ Below(s, b) = 1..k
<1> DEFINE B == Below(s, b)
<1>1. Len(s) \in Nat /\ DOMAIN s = 1..Len(s) /\ B \in SUBSET (1..Len(s))
  BY DEF Below
<1>2. ASSUME NEW i \in B, NEW j \in 1..Len(s), j <= i PROVE j \in B
  <2>1. i \in 1..Len(s) /\ s[i][1] < b
    BY DEF Below
  <2>2. s[i][1] \in Int /\ s[j][1] \in Int
    <3>1. s[i] \in Entry /\ s[j] \in Entry
      BY <2>1
    <3> QED BY <3>1, EntryValue
  <2>3. s[j][1] <= s[i][1]
    BY <1>1, <1>2, <2>1, <2>2 DEF Ascending
  <2>4. s[j][1] < b
    BY <2>1, <2>2, <2>3
  <2> QED BY <1>1, <2>4 DEF Below
<1>3. k \in PartitionPoint(s, B)
  OBVIOUS
<1> HIDE DEF B
<1>4. Cardinality(B) \in 0..Len(s) /\ B = 1..Cardinality(B)
  BY <1>1, <1>2, Beginning
<1>5. k = Cardinality(B)
  BY <1>3, <1>4 DEF PartitionPoint
<1> QED BY <1>4, <1>5 DEF B

LEMMA CutUpTo ==
  ASSUME NEW s \in Seq(Entry), Ascending(s), NEW b \in Int, NEW k \in PartitionPoint(s, UpTo(s, b))
  PROVE  k \in 0..Len(s) /\ UpTo(s, b) = 1..k
<1> DEFINE B == UpTo(s, b)
<1>1. Len(s) \in Nat /\ DOMAIN s = 1..Len(s) /\ B \in SUBSET (1..Len(s))
  BY DEF UpTo
<1>2. ASSUME NEW i \in B, NEW j \in 1..Len(s), j <= i PROVE j \in B
  <2>1. i \in 1..Len(s) /\ s[i][1] <= b
    BY DEF UpTo
  <2>2. s[i][1] \in Int /\ s[j][1] \in Int
    <3>1. s[i] \in Entry /\ s[j] \in Entry
      BY <2>1
    <3> QED BY <3>1, EntryValue
  <2>3. s[j][1] <= s[i][1]
    BY <1>1, <1>2, <2>1, <2>2 DEF Ascending
  <2>4. s[j][1] <= b
    BY <2>1, <2>2, <2>3
  <2> QED BY <1>1, <2>4 DEF UpTo
<1>3. k \in PartitionPoint(s, B)
  OBVIOUS
<1> HIDE DEF B
<1>4. Cardinality(B) \in 0..Len(s) /\ B = 1..Cardinality(B)
  BY <1>1, <1>2, Beginning
<1>5. k = Cardinality(B)
  BY <1>3, <1>4 DEF PartitionPoint
<1> QED BY <1>4, <1>5 DEF B

\* What sorting may leave is a vector of the same entries, as often, in order.
LEMMA SortingFacts ==
  ASSUME NEW s \in Seq(Entry), NEW p \in Sortings(s)
  PROVE  /\ p \in Seq(Entry)
         /\ Ascending(p)
         /\ \A e : Copies(p, e) = Copies(s, e)
         /\ \A i \in DOMAIN p : \E j \in DOMAIN s : s[j] = p[i]
<1>1. /\ p \in [1..Len(s) -> ToSet(s)] /\ Ascending(p)
      /\ \A e \in ToSet(s) : Copies(p, e) = Copies(s, e)
  BY DEF Sortings
<1>2. ToSet(s) \subseteq Entry
  BY DEF ToSet
<1>3. p \in Seq(Entry) /\ DOMAIN p = 1..Len(s)
  BY <1>1, <1>2
<1>4. ASSUME NEW e, e \notin ToSet(s) PROVE Copies(p, e) = Copies(s, e)
  <2>1. \A i \in DOMAIN p : p[i] # e
    BY <1>1, <1>4
  <2>2. \A i \in DOMAIN s : s[i] # e
    BY <1>4 DEF ToSet
  <2> QED BY <2>1, <2>2, CopiesNone
<1>5. \A i \in DOMAIN p : \E j \in DOMAIN s : s[j] = p[i]
  BY <1>1 DEF ToSet
<1> QED BY <1>1, <1>3, <1>4, <1>5

\* The slice between the two cuts holds every copy of what is in range.
LEMMA SliceFacts ==
  ASSUME NEW s \in Seq(Entry), Ascending(s), NEW min \in Int, NEW max \in Int,
         NEW start \in 0..Len(s), NEW end \in 0..Len(s), start <= end,
         Below(s, min) = 1..start, UpTo(s, max) = 1..end
  PROVE  /\ SubSeq(s, start + 1, end) \in Seq(Entry)
         /\ Ascending(SubSeq(s, start + 1, end))
         /\ \A e \in Entry : Copies(SubSeq(s, start + 1, end), e)
                             = IF min <= e[1] /\ e[1] <= max THEN Copies(s, e) ELSE 0
<1> DEFINE hits == SubSeq(s, start + 1, end)
<1>1. /\ hits \in Seq(Entry) /\ DOMAIN hits = 1..(end - start)
      /\ \A i \in 1..(end - start) : hits[i] = s[start + i]
  <2>1. start + 1 \in Int /\ end \in Int /\ \A i \in (start + 1)..end : s[i] \in Entry
    OBVIOUS
  <2>2. /\ hits \in Seq(Entry)
        /\ Len(hits) = IF start + 1 <= end THEN end - (start + 1) + 1 ELSE 0
        /\ \A i \in 1..(end - (start + 1) + 1) : hits[i] = s[(start + 1) + i - 1]
    BY <2>1, SubSeqProperties
  <2>3. Len(hits) = end - start
    BY <2>2
  <2>4. \A i \in 1..(end - start) : hits[i] = s[start + i]
    BY <2>2
  <2> QED BY <2>2, <2>3, <2>4
<1> HIDE DEF hits
<1>2. DOMAIN s = 1..Len(s) /\ Len(s) \in Nat
  OBVIOUS
<1>3. Ascending(hits)
  <2> SUFFICES ASSUME NEW i \in 1..(end - start), NEW j \in 1..(end - start), i < j
               PROVE  hits[i][1] <= hits[j][1]
    BY <1>1 DEF Ascending
  <2>1. start + i \in DOMAIN s /\ start + j \in DOMAIN s /\ start + i < start + j
    BY <1>2
  <2>2. s[start + i][1] <= s[start + j][1]
    BY <2>1 DEF Ascending
  <2> QED BY <1>1, <2>2
<1>4. \A i \in DOMAIN s : s[i][1] \in Int /\ (i <= start <=> s[i][1] < min) /\ (i <= end <=> s[i][1] <= max)
  <2> SUFFICES ASSUME NEW i \in DOMAIN s
               PROVE  s[i][1] \in Int /\ (i <= start <=> s[i][1] < min) /\ (i <= end <=> s[i][1] <= max)
    OBVIOUS
  <2>1. s[i][1] \in Int
    <3>1. s[i] \in Entry
      OBVIOUS
    <3> QED BY <3>1, EntryValue
  <2>2. i \in 1..start <=> s[i][1] < min
    BY DEF Below
  <2>3. i \in 1..end <=> s[i][1] <= max
    BY DEF UpTo
  <2> QED BY <1>2, <2>1, <2>2, <2>3
<1>5. ASSUME NEW e \in Entry
      PROVE  Copies(hits, e) = IF min <= e[1] /\ e[1] <= max THEN Copies(s, e) ELSE 0
  <2>1. CASE min <= e[1] /\ e[1] <= max
    <3> DEFINE P == {i \in DOMAIN hits : hits[i] = e}
               Q == {i \in DOMAIN s : s[i] = e}
               f == [i \in P |-> start + i]
    <3>1. \A i \in Q : i \in 1..Len(s) /\ start < i /\ i <= end
      BY <1>2, <1>4, <2>1
    <3>2. \A i \in P : i \in 1..(end - start) /\ start + i \in Q
      BY <1>1, <1>2
    <3>3. \A i \in Q : i - start \in P
      <4> SUFFICES ASSUME NEW i \in Q PROVE i - start \in P
        OBVIOUS
      <4>1. i - start \in 1..(end - start) /\ start + (i - start) = i
        BY <3>1
      <4>2. hits[i - start] = s[start + (i - start)]
        BY <1>1, <4>1
      <4> QED BY <1>1, <4>1, <4>2
    <3>4. P \in SUBSET DOMAIN hits /\ Q \in SUBSET DOMAIN s
      OBVIOUS
    <3> HIDE DEF P, Q
    <3>5. f \in Bijection(P, Q)
      <4>1. f \in [P -> Q]
        BY <3>2
      <4>2. \A i, j \in P : f[i] = f[j] => i = j
        BY <3>2
      <4>3. \A i \in Q : i - start \in P /\ f[i - start] = i
        BY <3>1, <3>3
      <4> HIDE DEF f
      <4>4. \A i \in Q : \E j \in P : f[j] = i
        BY <4>3
      <4> QED BY <4>1, <4>2, <4>4, Fun_IsBij
    <3>6. IsFiniteSet(P)
      BY <1>1, <3>4, PlacesFinite
    <3>7. Cardinality(Q) = Cardinality(P)
      <4>1. ExistsBijection(P, Q)
        BY <3>5 DEF ExistsBijection
      <4> QED BY <3>6, <4>1, FS_Bijection
    <3> QED BY <2>1, <3>7 DEF Copies, P, Q
  <2>2. CASE ~(min <= e[1] /\ e[1] <= max)
    <3>1. ASSUME NEW i \in DOMAIN hits, hits[i] = e PROVE FALSE
      <4>1. start + i \in DOMAIN s /\ s[start + i] = e /\ start < start + i /\ start + i <= end
        BY <1>1, <1>2, <3>1
      <4> QED BY <1>4, <2>2, <4>1
    <3> QED BY <2>2, <3>1, CopiesNone
  <2> QED BY <2>1, <2>2
<1> QED BY <1>1, <1>3, <1>5 DEF hits

-----------------------------------------------------------------------------
(* The state. *)

TypeInv ==
  /\ entries \in Seq(Entry)
  /\ sorted \in BOOLEAN
  /\ panicked \in BOOLEAN

IInv == TypeInv /\ SortedFlagIsTrue

\* What the search finds the vector to be, or makes of it.
LEMMA EnsureSorted ==
  ASSUME IInv, NEW p \in ensure_sorted
  PROVE  /\ p \in Seq(Entry)
         /\ Ascending(p)
         /\ \A e : Copies(p, e) = Copies(entries, e)
         /\ \A i \in DOMAIN p : \E j \in DOMAIN entries : entries[j] = p[i]
<1>1. entries \in Seq(Entry)
  BY DEF IInv, TypeInv
<1>2. CASE sorted
  <2>1. p = entries /\ Ascending(entries)
    BY <1>2 DEF IInv, SortedFlagIsTrue, ensure_sorted
  <2> QED BY <1>1, <2>1
<1>3. CASE ~ sorted
  <2>1. p \in Sortings(entries)
    BY <1>3 DEF ensure_sorted
  <2> QED BY <1>1, <2>1, SortingFacts
<1> QED BY <1>2, <1>3

LEMMA InitInv == Init => IInv
<1> SUFFICES ASSUME Init PROVE IInv
  OBVIOUS
<1>1. <<>> \in Seq(Entry) /\ Ascending(<<>>)
  BY DEF Ascending
<1> QED BY <1>1 DEF Init, IInv, TypeInv, SortedFlagIsTrue

LEMMA StepInv == IInv /\ [Next]_vars => IInv'
<1> SUFFICES ASSUME IInv, [Next]_vars PROVE IInv'
  OBVIOUS
<1>1. entries \in Seq(Entry) /\ sorted \in BOOLEAN /\ panicked \in BOOLEAN /\ (sorted => Ascending(entries))
  BY DEF IInv, TypeInv, SortedFlagIsTrue
<1>2. ASSUME NEW e \in Entry, insert(e) PROVE IInv'
  <2>1. entries' \in Seq(Entry)
    BY <1>1, <1>2 DEF insert
  <2> QED BY <1>1, <1>2, <2>1 DEF insert, IInv, TypeInv, SortedFlagIsTrue
<1>3. ASSUME NEW e \in Entry, remove(e) PROVE IInv'
  <2>1. entries' \in Seq(Entry)
    BY <1>1, <1>3, OnlyType DEF remove
  <2>2. sorted => Ascending(entries)'
    <3> SUFFICES ASSUME Ascending(entries) PROVE Ascending(entries')
      BY <1>1
    <3> QED BY <1>1, <1>3, AscendingOnly DEF remove
  <2> QED BY <1>1, <1>3, <2>1, <2>2 DEF remove, IInv, TypeInv, SortedFlagIsTrue
<1>4. ASSUME NEW min \in Bound, NEW max \in Bound, search_range(min, max) PROVE IInv'
  <2>1. entries' \in ensure_sorted
    BY <1>4 DEF search_range
  <2>2. entries' \in Seq(Entry) /\ Ascending(entries')
    BY <2>1, EnsureSorted
  <2>3. sorted' = TRUE /\ panicked' \in BOOLEAN
    BY <1>4 DEF search_range
  <2> QED BY <2>2, <2>3 DEF IInv, TypeInv, SortedFlagIsTrue
<1>5. CASE UNCHANGED vars
  BY <1>1, <1>5 DEF vars, IInv, TypeInv, SortedFlagIsTrue, Ascending
<1> QED BY <1>2, <1>3, <1>4, <1>5 DEF Next

LEMMA Invariance == Spec => []IInv
  BY InitInv, StepInv, PTL DEF Spec

\* A vector that counts as sorted is sorted, after any inserts, removals and
\* searches (index.rs, SortedIndex).
THEOREM SortedFlag == Spec => []SortedFlagIsTrue
<1>1. IInv => SortedFlagIsTrue
  BY DEF IInv
<1> QED BY <1>1, Invariance, PTL

-----------------------------------------------------------------------------
(* Searches. *)

\* A search that panics has an entry strictly between its bounds, the wrong way
\* around: the place after the cut at max.
LEMMA PanicFacts ==
  ASSUME IInv, NEW min \in Bound, NEW max \in Bound, search_range(min, max), panicked'
  PROVE  \E i \in DOMAIN entries : max < entries[i][1] /\ entries[i][1] < min
<1> DEFINE p == entries'
<1>1. p \in ensure_sorted
  BY DEF search_range
<1>2. /\ p \in Seq(Entry) /\ Ascending(p)
      /\ \A i \in DOMAIN p : \E j \in DOMAIN entries : entries[j] = p[i]
  BY <1>1, EnsureSorted
<1>3. PICK start \in PartitionPoint(p, Below(p, min)), end \in PartitionPoint(p, UpTo(p, max)) :
        start > end
  BY DEF search_range
<1>4. min \in Int /\ max \in Int
  BY SortedAssumption
<1> HIDE DEF p
<1>5. start \in 0..Len(p) /\ Below(p, min) = 1..start
  BY <1>2, <1>4, CutBelow
<1>6. end \in 0..Len(p) /\ UpTo(p, max) = 1..end
  BY <1>2, <1>4, CutUpTo
<1> DEFINE i == end + 1
<1>7. Len(p) \in Nat /\ i \in 1..Len(p) /\ i \in 1..start /\ i \notin 1..end
  BY <1>2, <1>3, <1>5, <1>6
<1>8. p[i] \in Entry /\ i \in DOMAIN p
  BY <1>2, <1>7
<1> HIDE DEF i
<1>9. p[i][1] \in Int
  BY <1>8, EntryValue
<1>10. p[i][1] < min
  BY <1>5, <1>7 DEF Below
<1>11. ~(p[i][1] <= max)
  BY <1>6, <1>7, <1>8 DEF UpTo
<1>12. PICK j \in DOMAIN entries : entries[j] = p[i]
  BY <1>2, <1>8
<1>13. max < p[i][1]
  BY <1>4, <1>9, <1>11
<1> QED BY <1>10, <1>12, <1>13

\* A search that answers has every copy of every entry in range, in order.
LEMMA HitsFacts ==
  ASSUME IInv, NEW min \in Bound, NEW max \in Bound, search_range(min, max), ~ panicked'
  PROVE  \E hits :
           /\ answer' = [min |-> min, max |-> max, hits |-> hits]
           /\ hits \in Seq(Entry)
           /\ Ascending(hits)
           /\ \A e \in Entry :
                Copies(hits, e) = IF min <= e[1] /\ e[1] <= max THEN Copies(entries, e) ELSE 0
<1> DEFINE p == entries'
<1>1. p \in ensure_sorted
  BY DEF search_range
<1>2. p \in Seq(Entry) /\ Ascending(p) /\ \A e : Copies(p, e) = Copies(entries, e)
  BY <1>1, EnsureSorted
<1>3. PICK start \in PartitionPoint(p, Below(p, min)), end \in PartitionPoint(p, UpTo(p, max)) :
        /\ ~ (start > end)
        /\ answer' = [min |-> min, max |-> max, hits |-> SubSeq(p, start + 1, end)]
  BY DEF search_range
<1>4. min \in Int /\ max \in Int
  BY SortedAssumption
<1> HIDE DEF p
<1>5. start \in 0..Len(p) /\ Below(p, min) = 1..start
  BY <1>2, <1>4, CutBelow
<1>6. end \in 0..Len(p) /\ UpTo(p, max) = 1..end
  BY <1>2, <1>4, CutUpTo
<1> DEFINE hits == SubSeq(p, start + 1, end)
<1>7. Len(p) \in Nat /\ start <= end
  BY <1>2, <1>3, <1>5, <1>6
<1>8. /\ hits \in Seq(Entry) /\ Ascending(hits)
      /\ \A e \in Entry : Copies(hits, e) = IF min <= e[1] /\ e[1] <= max THEN Copies(p, e) ELSE 0
  BY <1>2, <1>4, <1>5, <1>6, <1>7, SliceFacts
<1>9. answer' = [min |-> min, max |-> max, hits |-> hits]
  BY <1>3
<1> HIDE DEF hits
<1>10. \A e \in Entry : Copies(hits, e) = IF min <= e[1] /\ e[1] <= max THEN Copies(entries, e) ELSE 0
  BY <1>2, <1>8
<1> QED BY <1>8, <1>9, <1>10

\* Only a range the wrong way around panics, and only with an entry strictly
\* between its bounds (index.rs, search_range).
THEOREM OrderedRanges == Spec => OrderedRangesAnswer
<1> DEFINE Ordered == panicked' => \A min, max \in Bound : search_range(min, max) =>
                        \E i \in DOMAIN entries : max < entries[i][1] /\ entries[i][1] < min
<1>1. IInv /\ [Next]_vars => [Ordered]_vars
  BY PanicFacts
<1> HIDE DEF Ordered
<1>2. Spec => [][Ordered]_vars
  BY <1>1, Invariance, PTL DEF Spec
<1> QED BY <1>2 DEF OrderedRangesAnswer, Ordered

-----------------------------------------------------------------------------
(* The bag. *)

LEMMA InitImplements == Init => Bag!Init
<1> SUFFICES ASSUME Init PROVE Bag!Init
  OBVIOUS
<1>1. \A e \in Entry : Copies(entries, e) = 0
  BY CopiesNone DEF Init
<1>2. Count = [e \in Entry |-> 0]
  BY <1>1 DEF Count
<1> QED BY <1>2 DEF Init, Bag!Init, Unasked, Bag!Unasked, Bag!Entry, Entry

LEMMA StepImplements == IInv /\ [Next]_vars => [Bag!Next]_(Bag!vars)
<1> SUFFICES ASSUME IInv, [Next]_vars PROVE [Bag!Next]_(Bag!vars)
  OBVIOUS
<1>1. entries \in Seq(Entry)
  BY DEF IInv, TypeInv
<1>2. Entry = Bag!Entry
  BY DEF Entry, Bag!Entry
<1>3. \A e \in Entry : Copies(entries, e) \in Nat
  BY <1>1, CopiesType
<1>4. ASSUME NEW e \in Entry, insert(e) PROVE Bag!File(e)
  <2>1. entries' = Append(entries, e) /\ answer' = answer
    BY <1>4 DEF insert
  <2>2. \A x \in Entry : Copies(entries', x) = Copies(entries, x) + (IF e = x THEN 1 ELSE 0)
    BY <1>1, <2>1, CopiesAppend
  <2>3. [x \in Entry |-> Copies(entries', x)] = [Count EXCEPT ![e] = @ + 1]
    <3>1. Count \in [Entry -> Nat] /\ \A x \in Entry : Copies(entries, x) = Count[x]
      BY <1>3 DEF Count
    <3>2. \A x \in Entry : Copies(entries', x) = IF x = e THEN Count[e] + 1 ELSE Count[x]
      BY <2>2, <3>1
    <3>3. [Count EXCEPT ![e] = @ + 1] = [x \in Entry |-> IF x = e THEN Count[e] + 1 ELSE Count[x]]
      BY <3>1
    <3> QED BY <3>2, <3>3
  <2>4. Count' = [Count EXCEPT ![e] = @ + 1]
    BY <2>3 DEF Count
  <2> QED BY <2>1, <2>4 DEF Bag!File
<1>5. ASSUME NEW e \in Entry, remove(e) PROVE Bag!Unfile(e)
  <2>1. entries' = Only(entries, Entry \ {e}) /\ answer' = answer
    BY <1>5 DEF remove
  <2>2. \A x \in Entry : Copies(entries', x) = IF x \in Entry \ {e} THEN Copies(entries, x) ELSE 0
    BY <1>1, <2>1, CopiesOnly
  <2>3. [x \in Entry |-> Copies(entries', x)] = [Count EXCEPT ![e] = 0]
    BY <2>2 DEF Count
  <2>4. Count' = [Count EXCEPT ![e] = 0]
    BY <2>3 DEF Count
  <2> QED BY <2>1, <2>4 DEF Bag!Unfile
<1>6. ASSUME NEW min \in Bound, NEW max \in Bound, search_range(min, max)
      PROVE  Bag!Search(min, max) \/ UNCHANGED Bag!vars
  <2>1. entries' \in ensure_sorted
    BY <1>6 DEF search_range
  <2>2. Count' = Count
    <3>1. \A e \in Entry : Copies(entries', e) = Copies(entries, e)
      BY <2>1, EnsureSorted
    <3>2. [e \in Entry |-> Copies(entries', e)] = Count
      BY <3>1 DEF Count
    <3> QED BY <3>2 DEF Count
  <2>3. CASE panicked'
    <3>1. answer' = answer
      BY <1>6, <2>3 DEF search_range
    <3> QED BY <2>2, <3>1 DEF Bag!vars
  <2>4. CASE ~ panicked'
    <3>1. PICK hits :
            /\ answer' = [min |-> min, max |-> max, hits |-> hits]
            /\ hits \in Seq(Entry)
            /\ Ascending(hits)
            /\ \A e \in Entry :
                 Copies(hits, e) = IF min <= e[1] /\ e[1] <= max THEN Copies(entries, e) ELSE 0
      BY <1>6, <2>4, HitsFacts
    <3>2. answer'.hits = hits
      BY <3>1
    <3>3. \A e \in Entry : Copies(hits, e) = IF min <= e[1] /\ e[1] <= max THEN Count[e] ELSE 0
      BY <3>1 DEF Count
    <3>4. Bag!Finds(min, max, hits)
      <4>1. Bag!Ascending(hits)
        BY <3>1 DEF Bag!Ascending, Ascending
      <4>2. \A e \in Entry : Bag!Copies(hits, e) = Copies(hits, e)
        <5> TAKE e \in Entry
        <5> QED BY DEF Bag!Copies, Copies, Bag!Cardinality, Cardinality
      <4> QED BY <1>2, <3>1, <3>3, <4>1, <4>2 DEF Bag!Finds
    <3> QED BY <2>2, <3>1, <3>2, <3>4 DEF Bag!Search
  <2> QED BY <2>3, <2>4
<1>7. CASE UNCHANGED vars
  <2>1. Count' = Count /\ answer' = answer
    BY <1>7 DEF vars, Count, Copies
  <2> QED BY <2>1 DEF Bag!vars
<1> QED BY <1>2, <1>4, <1>5, <1>6, <1>7 DEF Next, Bag!Next

\* Sorting late, cutting twice and retaining in place implement the bag.
THEOREM IndexImplementsBag == Spec => AnswersAsBag
<1>1. Spec => Bag!Init /\ [][Bag!Next]_(Bag!vars)
  BY InitImplements, StepImplements, Invariance, PTL DEF Spec
<1> QED BY <1>1 DEF AnswersAsBag, Bag!Spec
=============================================================================
