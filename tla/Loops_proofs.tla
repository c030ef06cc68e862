---------------------------- MODULE Loops_proofs ----------------------------
(***************************************************************************)
(* What the loops over vectors and texts compute, for inputs of any length: *)
(* induction, functions that are defined by recursion, and then what is     *)
(* kept, split, joined and trimmed.  The facts on induction are about sets  *)
(* and functions instead of predicates and operators, so that they can be   *)
(* cited.                                                                   *)
(***************************************************************************)
EXTENDS Integers, Texts, FiniteSetTheorems, WellFoundedInduction, SequenceTheorems, TLAPS

\* A set of natural numbers that has an element has a least one: the intervals
\* from 0 to its elements have one that contains no other.
LEMMA LeastElement ==
  ASSUME NEW S \in SUBSET Nat, S # {}
  PROVE  \E x \in S : \A y \in S : x <= y
<1> DEFINE T == {0..x : x \in S}
<1>1. T \subseteq FiniteSubsetsOf(Nat)
  <2> SUFFICES ASSUME NEW x \in S PROVE 0..x \in FiniteSubsetsOf(Nat)
    OBVIOUS
  <2>1. IsFiniteSet(0..x)
    BY FS_Interval
  <2> QED BY <2>1 DEF FiniteSubsetsOf
<1>2. PICK t \in T : \A u \in T : <<u, t>> \notin StrictSubsetOrdering(Nat)
  <2>1. IsWellFoundedOn(StrictSubsetOrdering(Nat), FiniteSubsetsOf(Nat))
    BY FS_StrictSubsetOrderingWellFounded
  <2>2. T # {}
    OBVIOUS
  <2> HIDE DEF T
  <2> QED BY <1>1, <2>1, <2>2, WFMin
<1>3. PICK x \in S : t = 0..x
  OBVIOUS
<1>4. ASSUME NEW y \in S, y < x PROVE FALSE
  <2>1. 0..y \subseteq 0..x /\ 0..y # 0..x
    <3>1. x \in 0..x /\ x \notin 0..y
      BY <1>4
    <3> QED BY <1>4, <3>1
  <2>2. <<0..y, 0..x>> \in StrictSubsetOrdering(Nat)
    BY <2>1 DEF StrictSubsetOrdering
  <2> QED BY <1>2, <1>3, <2>2
<1> QED BY <1>4

\* Induction up to n: S stands for the numbers that have the property.
LEMMA IntervalInduction ==
  ASSUME NEW n \in Nat, NEW S, 0 \in S,
         \A k \in 1..n : k - 1 \in S => k \in S
  PROVE  0..n \subseteq S
<1> DEFINE T == (0..n) \ S
<1> SUFFICES ASSUME T # {} PROVE FALSE
  OBVIOUS
<1>1. T \in SUBSET Nat
  OBVIOUS
<1>2. PICK x \in T : \A y \in T : x <= y
  BY <1>1, LeastElement
<1>3. x \in 1..n
  BY <1>2
<1>4. x - 1 \notin T
  BY <1>2, <1>3
<1>5. x - 1 \in S
  BY <1>3, <1>4
<1> QED BY <1>2, <1>3, <1>5

\* f starts at x0 and takes the steps from each number to the next.
Runs(f, n, x0, step) == f[0] = x0 /\ \A k \in 1..n : f[k] = step[k][f[k - 1]]

\* There is such a function, whatever the steps are.
LEMMA Recursion ==
  ASSUME NEW n \in Nat, NEW X, NEW x0 \in X, NEW step \in [1..n -> [X -> X]]
  PROVE  \E f \in [0..n -> X] : Runs(f, n, x0, step)
<1> DEFINE S == {m \in 0..n : \E f \in [0..m -> X] : Runs(f, m, x0, step)}
<1>1. 0 \in S
  <2> DEFINE f == [k \in 0..0 |-> x0]
  <2>1. f \in [0..0 -> X]
    OBVIOUS
  <2>2. f[0] = x0 /\ 1..0 = {}
    OBVIOUS
  <2>3. Runs(f, 0, x0, step)
    BY <2>2 DEF Runs
  <2> HIDE DEF f
  <2> QED BY <2>1, <2>3
<1>2. ASSUME NEW m \in 1..n, m - 1 \in S PROVE m \in S
  <2>1. PICK f \in [0..(m - 1) -> X] : Runs(f, m - 1, x0, step)
    BY <1>2
  <2> DEFINE g == [k \in 0..m |-> IF k = m THEN step[m][f[m - 1]] ELSE f[k]]
  <2>2. step[m][f[m - 1]] \in X
    BY <2>1
  <2>3. g \in [0..m -> X]
    BY <2>1, <2>2
  <2>4. g[0] = x0
    BY <2>1 DEF Runs
  <2>5. ASSUME NEW k \in 1..m PROVE g[k] = step[k][g[k - 1]]
    <3>1. CASE k = m
      BY <3>1
    <3>2. CASE k # m
      <4>1. k \in 1..(m - 1) /\ k - 1 \in 0..(m - 1) /\ k - 1 # m
        BY <3>2
      <4> QED BY <2>1, <3>2, <4>1 DEF Runs
    <3> QED BY <3>1, <3>2
  <2>6. Runs(g, m, x0, step)
    BY <2>4, <2>5 DEF Runs
  <2> HIDE DEF g
  <2> QED BY <2>3, <2>6
<1>3. n \in S
  <2>1. \A k \in 1..n : k - 1 \in S => k \in S
    BY <1>2
  <2> HIDE DEF S
  <2>2. 0..n \subseteq S
    BY <1>1, <2>1, IntervalInduction
  <2> QED BY <2>2
<1> QED BY <1>3

-----------------------------------------------------------------------------
(* Sequences, and what a selection keeps of one. *)

LEMMA SeqWiden ==
  ASSUME NEW S, NEW T, S \subseteq T, NEW s \in Seq(S)
  PROVE  s \in Seq(T)
<1>1. \A i \in 1..Len(s) : s[i] \in T
  OBVIOUS
<1>2. s = [i \in 1..Len(s) |-> s[i]] /\ Len(s) \in Nat
  OBVIOUS
<1> QED BY <1>1, <1>2

\* Three sequences put together, whichever two are put together first.
Regroups(s, t, u) == (s \o t) \o u = s \o (t \o u)

LEMMA Regrouped ==
  ASSUME NEW S, NEW s \in Seq(S), NEW t \in Seq(S), NEW u \in Seq(S)
  PROVE  Regroups(s, t, u)
BY DEF Regroups

LEMMA Pair ==
  ASSUME NEW a, NEW b
  PROVE  <<a>> \o <<b>> = <<a, b>>
<1> DEFINE two == <<a>> \o <<b>>
<1>1. <<a>> \in Seq({a, b}) /\ <<b>> \in Seq({a, b}) /\ <<a, b>> \in Seq({a, b})
  OBVIOUS
<1>2. two \in Seq({a, b}) /\ Len(two) = 2
  BY <1>1
<1>3. two[1] = a /\ two[2] = b
  BY <1>1
<1>4. Len(<<a, b>>) = 2 /\ <<a, b>>[1] = a /\ <<a, b>>[2] = b
  OBVIOUS
<1> HIDE DEF two
<1>5. two = <<a, b>>
  BY <1>1, <1>2, <1>3, <1>4
<1> QED BY <1>5 DEF two

\* How two sequences put together begin and end.
EndsMeet(a, b) ==
  /\ a # <<>> => a \o b # <<>> /\ (a \o b)[1] = a[1]
  /\ b # <<>> => a \o b # <<>> /\ (a \o b)[Len(a \o b)] = b[Len(b)]

LEMMA EndsOfBoth ==
  ASSUME NEW S, NEW a \in Seq(S), NEW b \in Seq(S)
  PROVE  EndsMeet(a, b)
<1> DEFINE t == a \o b
           m == Len(a)
           n == Len(b)
<1>1. /\ t \in Seq(S) /\ Len(t) = m + n
      /\ \A i \in 1..(m + n) : t[i] = IF i <= m THEN a[i] ELSE b[i - m]
  BY ConcatProperties
<1>2. m \in Nat /\ n \in Nat /\ (a # <<>> => m >= 1) /\ (b # <<>> => n >= 1)
  OBVIOUS
<1> HIDE DEF t, m, n
<1>3. ASSUME a # <<>> PROVE t # <<>> /\ t[1] = a[1]
  <2>1. 1 \in 1..(m + n) /\ 1 <= m /\ Len(t) >= 1
    BY <1>1, <1>2, <1>3
  <2> QED BY <1>1, <2>1
<1>4. ASSUME b # <<>> PROVE t # <<>> /\ t[Len(t)] = b[n]
  <2>1. m + n \in 1..(m + n) /\ ~ (m + n <= m) /\ (m + n) - m = n /\ Len(t) >= 1
    BY <1>1, <1>2, <1>4
  <2> QED BY <1>1, <2>1
<1> QED BY <1>3, <1>4 DEF EndsMeet, t, n

LEMMA Among ==
  ASSUME NEW q, NEW i \in DOMAIN q
  PROVE  q[i] \in ToSet(q)
BY DEF ToSet

\* Induction on sequences: T stands for those that have the property.
LEMMA SeqInduction ==
  ASSUME NEW S, NEW T, <<>> \in T,
         \A s \in Seq(S), x \in S : s \in T => Append(s, x) \in T
  PROVE  Seq(S) \subseteq T
<1> SUFFICES ASSUME NEW s \in Seq(S) PROVE s \in T
  OBVIOUS
<1> DEFINE n == Len(s)
           good == {k \in 0..n : SubSeq(s, 1, k) \in T}
<1>1. n \in Nat
  OBVIOUS
<1>2. 0 \in good
  <2>1. SubSeq(s, 1, 0) = <<>>
    OBVIOUS
  <2>2. 0 \in 0..n
    BY <1>1
  <2>3. SubSeq(s, 1, 0) \in T
    BY <2>1
  <2> QED BY <2>2, <2>3
<1>3. ASSUME NEW k \in 1..n, k - 1 \in good PROVE k \in good
  <2> DEFINE u == SubSeq(s, 1, k - 1)
  <2>1. u \in Seq(S) /\ s[k] \in S /\ Len(u) = k - 1
    OBVIOUS
  <2>2. SubSeq(s, 1, k) = Append(u, s[k])
    <3>1. SubSeq(s, 1, k) \in Seq(S) /\ Append(u, s[k]) \in Seq(S)
      BY <2>1
    <3>2. Len(SubSeq(s, 1, k)) = k /\ Len(Append(u, s[k])) = k
      BY <2>1
    <3>3. ASSUME NEW i \in 1..k PROVE SubSeq(s, 1, k)[i] = Append(u, s[k])[i]
      BY <2>1
    <3> QED BY <3>1, <3>2, <3>3, SeqEqual
  <2>3. u \in T
    BY <1>3
  <2> HIDE DEF u
  <2>4. Append(u, s[k]) \in T
    BY <2>1, <2>3
  <2>5. k \in 0..n
    BY <1>1
  <2> QED BY <2>2, <2>4, <2>5
<1>4. n \in good
  <2>1. \A k \in 1..n : k - 1 \in good => k \in good
    BY <1>3
  <2>2. 0..n \subseteq good
    <3> HIDE DEF good, n
    <3> QED BY <1>1, <1>2, <2>1, IntervalInduction
  <2> QED BY <1>1, <2>2
<1>5. SubSeq(s, 1, n) = s
  OBVIOUS
<1> QED BY <1>4, <1>5

\* The loop exists, and does at each element what it says.
LEMMA KeptRuns ==
  ASSUME NEW S, NEW s \in Seq(S), NEW V
  PROVE  /\ Kept(s, V)[0] = <<>>
         /\ \A n \in 1..Len(s) :
              Kept(s, V)[n] = IF s[n] \in V THEN Append(Kept(s, V)[n - 1], s[n]) ELSE Kept(s, V)[n - 1]
<1> DEFINE N == Len(s)
           X == Seq(S)
           step == [n \in 1..N |-> [out \in X |-> IF s[n] \in V THEN Append(out, s[n]) ELSE out]]
           Loop(f) == f = [n \in 0..N |-> IF n = 0 THEN <<>>
                                          ELSE IF s[n] \in V THEN Append(f[n - 1], s[n]) ELSE f[n - 1]]
<1>1. N \in Nat /\ <<>> \in X
  OBVIOUS
<1>2. step \in [1..N -> [X -> X]]
  <2>1. ASSUME NEW n \in 1..N, NEW out \in X
        PROVE  (IF s[n] \in V THEN Append(out, s[n]) ELSE out) \in X
    <3>1. s[n] \in S
      OBVIOUS
    <3> QED BY <3>1, AppendProperties
  <2> QED BY <2>1
<1>3. PICK f \in [0..N -> X] : Runs(f, N, <<>>, step)
  <2> HIDE DEF N, X, step
  <2> QED BY <1>1, <1>2, Recursion
<1>4. Loop(f)
  <2> DEFINE r == [n \in 0..N |-> IF n = 0 THEN <<>>
                                  ELSE IF s[n] \in V THEN Append(f[n - 1], s[n]) ELSE f[n - 1]]
  <2>1. ASSUME NEW k \in 0..N PROVE f[k] = r[k]
    <3>1. CASE k = 0
      BY <1>3, <3>1 DEF Runs
    <3>2. CASE k # 0
      <4>1. k \in 1..N /\ k - 1 \in 0..N
        BY <3>2
      <4>2. f[k - 1] \in X
        <5> HIDE DEF N, X
        <5> QED BY <1>3, <4>1
      <4>3. f[k] = step[k][f[k - 1]]
        <5> HIDE DEF N, X, step
        <5> QED BY <1>3, <4>1 DEF Runs
      <4> QED BY <3>2, <4>1, <4>2, <4>3
    <3> QED BY <3>1, <3>2
  <2>2. DOMAIN f = 0..N /\ f = [k \in 0..N |-> f[k]] /\ r = [k \in 0..N |-> r[k]]
    BY <1>3
  <2>3. f = r
    <3> HIDE DEF r
    <3> QED BY <2>1, <2>2
  <2> QED BY <2>3
<1>5. Kept(s, V) = CHOOSE g : Loop(g)
  BY DEF Kept
<1> HIDE DEF Loop
<1>6. Loop(Kept(s, V))
  BY <1>4, <1>5
<1> USE DEF Loop
<1>7. /\ Kept(s, V)[0] = <<>>
      /\ \A n \in 1..N :
           Kept(s, V)[n] = IF s[n] \in V THEN Append(Kept(s, V)[n - 1], s[n]) ELSE Kept(s, V)[n - 1]
  <2> DEFINE K == Kept(s, V)
  <2>1. K = [n \in 0..N |-> IF n = 0 THEN <<>>
                            ELSE IF s[n] \in V THEN Append(K[n - 1], s[n]) ELSE K[n - 1]]
    BY <1>6
  <2> HIDE DEF K
  <2>2. K[0] = <<>>
    BY <1>1, <2>1
  <2>3. ASSUME NEW n \in 1..N PROVE K[n] = IF s[n] \in V THEN Append(K[n - 1], s[n]) ELSE K[n - 1]
    <3>1. n \in 0..N /\ n # 0
      OBVIOUS
    <3> QED BY <2>1, <3>1
  <2> QED BY <2>2, <2>3 DEF K
<1> QED BY <1>7

\* What is kept is made of elements that are in both.
LEMMA KeptType ==
  ASSUME NEW S, NEW s \in Seq(S), NEW V, NEW n \in 0..Len(s)
  PROVE  Kept(s, V)[n] \in Seq(S \cap V)
<1> DEFINE good == {k \in 0..Len(s) : Kept(s, V)[k] \in Seq(S \cap V)}
<1>1. 0 \in good
  <2>1. Kept(s, V)[0] = <<>>
    BY KeptRuns
  <2>2. <<>> \in Seq(S \cap V) /\ 0 \in 0..Len(s)
    OBVIOUS
  <2> QED BY <2>1, <2>2
<1>2. ASSUME NEW k \in 1..Len(s), k - 1 \in good PROVE k \in good
  <2>1. k \in 0..Len(s) /\ s[k] \in S /\ Kept(s, V)[k - 1] \in Seq(S \cap V)
    BY <1>2
  <2>2. Kept(s, V)[k] = IF s[k] \in V THEN Append(Kept(s, V)[k - 1], s[k]) ELSE Kept(s, V)[k - 1]
    BY KeptRuns
  <2>3. CASE s[k] \in V
    <3>1. s[k] \in S \cap V
      BY <2>1, <2>3
    <3>2. Append(Kept(s, V)[k - 1], s[k]) \in Seq(S \cap V)
      BY <2>1, <3>1, AppendProperties
    <3> QED BY <2>1, <2>2, <2>3, <3>2
  <2>4. CASE s[k] \notin V
    BY <2>1, <2>2, <2>4
  <2> QED BY <2>3, <2>4
<1>3. 0..Len(s) \subseteq good
  <2>1. \A k \in 1..Len(s) : k - 1 \in good => k \in good
    BY <1>2
  <2>2. Len(s) \in Nat
    OBVIOUS
  <2> HIDE DEF good
  <2> QED BY <1>1, <2>1, <2>2, IntervalInduction
<1> QED BY <1>3

LEMMA OnlyType ==
  ASSUME NEW S, NEW s \in Seq(S), NEW V
  PROVE  Only(s, V) \in Seq(S \cap V) /\ Only(s, V) \in Seq(S)
<1>1. Len(s) \in 0..Len(s)
  OBVIOUS
<1>2. Only(s, V) \in Seq(S \cap V)
  BY <1>1, KeptType DEF Only
<1> QED BY <1>2

\* Sequences that begin alike, as far as the sets can tell, keep the same.
LEMMA KeptAlike ==
  ASSUME NEW S, NEW s \in Seq(S), NEW t \in Seq(S), NEW V, NEW W,
         NEW n \in Nat, n <= Len(s), n <= Len(t),
         \A i \in 1..n : s[i] = t[i] /\ (s[i] \in V <=> s[i] \in W)
  PROVE  Kept(s, V)[n] = Kept(t, W)[n]
<1> DEFINE good == {k \in 0..n : Kept(s, V)[k] = Kept(t, W)[k]}
<1>1. 0 \in good
  <2>1. Kept(s, V)[0] = <<>> /\ Kept(t, W)[0] = <<>>
    BY KeptRuns
  <2> QED BY <2>1
<1>2. ASSUME NEW k \in 1..n, k - 1 \in good PROVE k \in good
  <2>1. k \in 1..Len(s) /\ k \in 1..Len(t) /\ k \in 0..n /\ Kept(s, V)[k - 1] = Kept(t, W)[k - 1]
    BY <1>2
  <2>2. s[k] = t[k] /\ (s[k] \in V <=> t[k] \in W)
    OBVIOUS
  <2>3. Kept(s, V)[k] = IF s[k] \in V THEN Append(Kept(s, V)[k - 1], s[k]) ELSE Kept(s, V)[k - 1]
    BY <2>1, KeptRuns
  <2>4. Kept(t, W)[k] = IF t[k] \in W THEN Append(Kept(t, W)[k - 1], t[k]) ELSE Kept(t, W)[k - 1]
    BY <2>1, KeptRuns
  <2> QED BY <2>1, <2>2, <2>3, <2>4
<1>3. 0..n \subseteq good
  <2>1. \A k \in 1..n : k - 1 \in good => k \in good
    BY <1>2
  <2> HIDE DEF good
  <2> QED BY <1>1, <2>1, IntervalInduction
<1> QED BY <1>3

\* Selections that agree on the elements of a sequence agree on the sequence.
LEMMA OnlyAlike ==
  ASSUME NEW S, NEW s \in Seq(S), NEW V, NEW W,
         \A i \in 1..Len(s) : s[i] \in V <=> s[i] \in W
  PROVE  Only(s, V) = Only(s, W)
<1> DEFINE n == Len(s)
<1>1. n \in Nat /\ n <= Len(s)
  OBVIOUS
<1>2. \A i \in 1..n : s[i] = s[i] /\ (s[i] \in V <=> s[i] \in W)
  OBVIOUS
<1>3. Kept(s, V)[n] = Kept(s, W)[n]
  <2> HIDE DEF n
  <2> QED BY <1>1, <1>2, KeptAlike
<1> QED BY <1>3 DEF Only

LEMMA OnlyEmpty ==
  ASSUME NEW V
  PROVE  Only(<<>>, V) = <<>>
<1>1. <<>> \in Seq({}) /\ Len(<<>>) = 0
  OBVIOUS
<1>2. \A s \in Seq({}) : Kept(s, V)[0] = <<>>
  BY KeptRuns
<1>3. Kept(<<>>, V)[0] = <<>>
  BY <1>1, <1>2
<1> QED BY <1>1, <1>3 DEF Only

LEMMA OnlyAppend ==
  ASSUME NEW S, NEW s \in Seq(S), NEW x \in S, NEW V
  PROVE  Only(Append(s, x), V) = IF x \in V THEN Append(Only(s, V), x) ELSE Only(s, V)
<1> DEFINE t == Append(s, x)
           n == Len(s)
<1>1. /\ t \in Seq(S) /\ Len(t) = n + 1 /\ n \in Nat
      /\ \A i \in 1..n : t[i] = s[i]
      /\ t[n + 1] = x
  BY AppendProperties
<1> HIDE DEF t
<1>2. Kept(t, V)[n] = Kept(s, V)[n]
  <2>1. n <= Len(t) /\ n <= Len(s)
    BY <1>1
  <2>2. \A i \in 1..n : t[i] = s[i] /\ (t[i] \in V <=> t[i] \in V)
    BY <1>1
  <2> HIDE DEF n
  <2> QED BY <1>1, <2>1, <2>2, KeptAlike
<1>3. n + 1 \in 1..Len(t) /\ (n + 1) - 1 = n
  BY <1>1
<1>4. Kept(t, V)[n + 1] = IF t[n + 1] \in V THEN Append(Kept(t, V)[(n + 1) - 1], t[n + 1])
                                            ELSE Kept(t, V)[(n + 1) - 1]
  BY <1>1, <1>3, KeptRuns
<1>5. Kept(t, V)[n + 1] = IF x \in V THEN Append(Kept(s, V)[n], x) ELSE Kept(s, V)[n]
  BY <1>1, <1>2, <1>3, <1>4
<1> QED BY <1>1, <1>5 DEF Only, t

\* A selection of what is put together is the selections put together.
LEMMA OnlyConcat ==
  ASSUME NEW S, NEW s \in Seq(S), NEW t \in Seq(S), NEW V
  PROVE  Only(s \o t, V) = Only(s, V) \o Only(t, V)
<1> DEFINE T == {u \in Seq(S) : Only(s \o u, V) = Only(s, V) \o Only(u, V)}
<1>1. Only(s, V) \in Seq(S)
  BY OnlyType
<1>2. <<>> \in T
  <2>1. Only(<<>>, V) = <<>>
    BY OnlyEmpty
  <2>2. s \o <<>> = s /\ Only(s, V) \o <<>> = Only(s, V)
    BY <1>1, ConcatEmptySeq
  <2>3. <<>> \in Seq(S)
    OBVIOUS
  <2> QED BY <2>1, <2>2, <2>3
<1>3. ASSUME NEW u \in Seq(S), NEW x \in S, u \in T PROVE Append(u, x) \in T
  <2>1. s \o Append(u, x) = Append(s \o u, x) /\ s \o u \in Seq(S) /\ Append(u, x) \in Seq(S)
    OBVIOUS
  <2>2. Only(Append(s \o u, x), V) = IF x \in V THEN Append(Only(s \o u, V), x) ELSE Only(s \o u, V)
    BY <2>1, OnlyAppend
  <2>3. Only(Append(u, x), V) = IF x \in V THEN Append(Only(u, V), x) ELSE Only(u, V)
    BY OnlyAppend
  <2>4. Only(u, V) \in Seq(S)
    BY OnlyType
  <2>5. Only(s, V) \o Append(Only(u, V), x) = Append(Only(s, V) \o Only(u, V), x)
    BY <1>1, <2>4
  <2>6. Only(s \o u, V) = Only(s, V) \o Only(u, V)
    BY <1>3
  <2>7. Only(Append(s \o u, x), V) = Only(s, V) \o Only(Append(u, x), V)
    BY <2>2, <2>3, <2>5, <2>6
  <2> QED BY <2>1, <2>7
<1>4. \A u \in Seq(S), x \in S : u \in T => Append(u, x) \in T
  BY <1>3
<1>5. Seq(S) \subseteq T
  <2> HIDE DEF T
  <2> QED BY <1>2, <1>4, SeqInduction
<1> QED BY <1>5

\* To select twice is to select what both do.
LEMMA OnlyOnly ==
  ASSUME NEW S, NEW s \in Seq(S), NEW V, NEW W
  PROVE  Only(Only(s, V), W) = Only(s, V \cap W)
<1> DEFINE T == {u \in Seq(S) : Only(Only(u, V), W) = Only(u, V \cap W)}
<1>1. <<>> \in T
  <2>1. Only(<<>>, V) = <<>> /\ Only(<<>>, W) = <<>> /\ Only(<<>>, V \cap W) = <<>>
    BY OnlyEmpty
  <2>2. <<>> \in Seq(S)
    OBVIOUS
  <2> QED BY <2>1, <2>2
<1>2. ASSUME NEW u \in Seq(S), NEW x \in S, u \in T PROVE Append(u, x) \in T
  <2>1. Only(u, V) \in Seq(S) /\ Append(u, x) \in Seq(S)
    <3>1. Only(u, V) \in Seq(S)
      BY OnlyType
    <3> QED BY <3>1
  <2>2. Only(Append(u, x), V) = IF x \in V THEN Append(Only(u, V), x) ELSE Only(u, V)
    BY OnlyAppend
  <2>3. Only(Append(u, x), V \cap W) = IF x \in V \cap W THEN Append(Only(u, V \cap W), x) ELSE Only(u, V \cap W)
    BY OnlyAppend
  <2>4. Only(Append(Only(u, V), x), W) = IF x \in W THEN Append(Only(Only(u, V), W), x) ELSE Only(Only(u, V), W)
    BY <2>1, OnlyAppend
  <2>5. Only(Only(u, V), W) = Only(u, V \cap W)
    BY <1>2
  <2>6. Only(Only(Append(u, x), V), W) = Only(Append(u, x), V \cap W)
    <3>1. CASE x \in V
      <4>1. Only(Append(u, x), V) = Append(Only(u, V), x)
        BY <2>2, <3>1
      <4>2. x \in V \cap W <=> x \in W
        BY <3>1
      <4> QED BY <2>3, <2>4, <2>5, <4>1, <4>2
    <3>2. CASE x \notin V
      BY <2>2, <2>3, <2>5, <3>2
    <3> QED BY <3>1, <3>2
  <2> QED BY <2>1, <2>6
<1>3. \A u \in Seq(S), x \in S : u \in T => Append(u, x) \in T
  BY <1>2
<1>4. Seq(S) \subseteq T
  <2> HIDE DEF T
  <2> QED BY <1>1, <1>3, SeqInduction
<1> QED BY <1>4

\* A selection of everything is the sequence itself.
LEMMA OnlyAll ==
  ASSUME NEW S, NEW s \in Seq(S)
  PROVE  Only(s, S) = s
<1> DEFINE T == {u \in Seq(S) : Only(u, S) = u}
<1>1. <<>> \in T
  <2>1. <<>> \in Seq(S)
    OBVIOUS
  <2> QED BY <2>1, OnlyEmpty
<1>2. ASSUME NEW u \in Seq(S), NEW x \in S, u \in T PROVE Append(u, x) \in T
  <2>1. Append(u, x) \in Seq(S) /\ Only(u, S) = u
    BY <1>2
  <2>2. Only(Append(u, x), S) = IF x \in S THEN Append(Only(u, S), x) ELSE Only(u, S)
    BY OnlyAppend
  <2> QED BY <2>1, <2>2
<1>3. \A u \in Seq(S), x \in S : u \in T => Append(u, x) \in T
  BY <1>2
<1>4. Seq(S) \subseteq T
  <2> HIDE DEF T
  <2> QED BY <1>1, <1>3, SeqInduction
<1> QED BY <1>4

\* and of nothing, nothing.
LEMMA OnlyNone ==
  ASSUME NEW S, NEW s \in Seq(S), NEW V, S \cap V = {}
  PROVE  Only(s, V) = <<>>
<1>1. Only(s, V) \in Seq({})
  BY OnlyType
<1>2. Len(Only(s, V)) = 0
  <2> SUFFICES ASSUME Len(Only(s, V)) # 0 PROVE FALSE
    OBVIOUS
  <2>1. 1 \in 1..Len(Only(s, V))
    BY <1>1
  <2>2. Only(s, V)[1] \in {}
    BY <1>1, <2>1
  <2> QED BY <2>2
<1> QED BY <1>1, <1>2

-----------------------------------------------------------------------------
(* What is cut off at the ends of a text. *)

LEMMA TrimIs ==
  ASSUME NEW S, NEW t \in Seq(S), NEW white, NEW a \in 1..Len(t), NEW b \in a..Len(t),
         t[a] \notin white, t[b] \notin white,
         \A i \in 1..Len(t) : t[i] \notin white => a <= i /\ i <= b
  PROVE  Trim(t, white) = SubSeq(t, a, b)
<1> DEFINE ink == {i \in DOMAIN t : t[i] \notin white}
<1>1. /\ a \in ink /\ b \in ink /\ a \in Int /\ b \in Int
      /\ \A i \in ink : i \in Int /\ a <= i /\ i <= b
  OBVIOUS
<1>2. Trim(t, white) = IF ink = {} THEN <<>> ELSE SubSeq(t, Min(ink), Max(ink))
  BY DEF Trim
<1> HIDE DEF ink
<1>3. Min(ink) = a
  <2>1. Min(ink) \in ink /\ \A y \in ink : Min(ink) <= y
    BY <1>1 DEF Min
  <2>2. Min(ink) \in Int /\ Min(ink) <= a /\ a <= Min(ink)
    BY <1>1, <2>1
  <2> DEFINE least == Min(ink)
  <2>3. least \in Int /\ least <= a /\ a <= least
    BY <2>2
  <2> HIDE DEF least
  <2>4. least = a
    BY <1>1, <2>3
  <2> QED BY <2>4 DEF least
<1>4. Max(ink) = b
  <2>1. Max(ink) \in ink /\ \A y \in ink : Max(ink) >= y
    BY <1>1 DEF Max
  <2>2. Max(ink) \in Int /\ Max(ink) >= b /\ b >= Max(ink)
    BY <1>1, <2>1
  <2> DEFINE most == Max(ink)
  <2>3. most \in Int /\ most >= b /\ b >= most
    BY <2>2
  <2> HIDE DEF most
  <2>4. most = b
    BY <1>1, <2>3
  <2> QED BY <2>4 DEF most
<1> QED BY <1>1, <1>2, <1>3, <1>4

\* A text that is not blank has a first and a last place that are not.
LEMMA InkEnds ==
  ASSUME NEW S, NEW t \in Seq(S), NEW white, \E i \in 1..Len(t) : t[i] \notin white
  PROVE  \E a \in 1..Len(t) : \E b \in a..Len(t) :
           /\ t[a] \notin white /\ t[b] \notin white
           /\ \A i \in 1..Len(t) : t[i] \notin white => a <= i /\ i <= b
<1> DEFINE ink == {i \in 1..Len(t) : t[i] \notin white}
           back == {Len(t) - i : i \in ink}
<1>1. ink \in SUBSET Nat /\ ink # {} /\ Len(t) \in Nat
  OBVIOUS
<1>2. back \in SUBSET Nat /\ back # {}
  BY <1>1
<1>3. PICK a \in ink : \A i \in ink : a <= i
  <2> HIDE DEF ink
  <2> QED BY <1>1, LeastElement
<1>4. PICK m \in back : \A k \in back : m <= k
  <2> HIDE DEF back
  <2> QED BY <1>2, LeastElement
<1>5. PICK b \in ink : m = Len(t) - b
  OBVIOUS
<1>6. \A i \in ink : i <= b
  <2> SUFFICES ASSUME NEW i \in ink PROVE i <= b
    OBVIOUS
  <2>1. m <= Len(t) - i
    BY <1>4
  <2> QED BY <1>5, <2>1
<1>7. a \in 1..Len(t) /\ b \in a..Len(t) /\ t[a] \notin white /\ t[b] \notin white
  BY <1>3, <1>6
<1> QED BY <1>3, <1>6, <1>7

LEMMA TrimBlank ==
  ASSUME NEW S, NEW t \in Seq(S), NEW white, \A i \in 1..Len(t) : t[i] \in white
  PROVE  Trim(t, white) = <<>>
<1>1. {i \in DOMAIN t : t[i] \notin white} = {}
  OBVIOUS
<1> QED BY <1>1 DEF Trim

\* A text is blank, or what is left of it has no blank ends.
Inked(t, white) == t # <<>> /\ t[1] \notin white /\ t[Len(t)] \notin white

LEMMA TrimLeaves ==
  ASSUME NEW S, NEW t \in Seq(S), NEW white
  PROVE  /\ Trim(t, white) \in Seq(S)
         /\ Trim(t, white) = <<>> <=> \A i \in 1..Len(t) : t[i] \in white
         /\ Trim(t, white) # <<>> =>
              /\ Inked(Trim(t, white), white)
              /\ \E a \in 1..Len(t) : \E b \in a..Len(t) :
                   /\ Trim(t, white) = SubSeq(t, a, b)
                   /\ \A i \in 1..(a - 1) : t[i] \in white
                   /\ \A i \in (b + 1)..Len(t) : t[i] \in white
<1>1. CASE \A i \in 1..Len(t) : t[i] \in white
  <2>1. Trim(t, white) = <<>>
    BY <1>1, TrimBlank
  <2>2. Trim(t, white) \in Seq(S)
    BY <2>1
  <2> QED BY <1>1, <2>1, <2>2
<1>2. CASE \E i \in 1..Len(t) : t[i] \notin white
  <2>1. PICK a \in 1..Len(t) : \E b \in a..Len(t) :
           /\ t[a] \notin white /\ t[b] \notin white
           /\ \A i \in 1..Len(t) : t[i] \notin white => a <= i /\ i <= b
    BY <1>2, InkEnds
  <2>2. PICK b \in a..Len(t) :
           /\ t[a] \notin white /\ t[b] \notin white
           /\ \A i \in 1..Len(t) : t[i] \notin white => a <= i /\ i <= b
    BY <2>1
  <2> DEFINE u == SubSeq(t, a, b)
  <2>3. Trim(t, white) = u
    BY <2>2, TrimIs
  <2>4. /\ u \in Seq(S) /\ Len(u) = b - a + 1 /\ Len(u) >= 1
        /\ u[1] = t[a] /\ u[Len(u)] = t[b]
    <3>1. a \in 1..(Len(t) + 1) /\ b \in (a - 1)..Len(t) /\ b - a + 1 \in 1..(b - a + 1) /\ 1 \in 1..(b - a + 1)
      OBVIOUS
    <3>2. /\ u \in Seq(S) /\ Len(u) = b - a + 1
          /\ \A i \in 1..(b - a + 1) : u[i] = t[a + i - 1]
      BY <3>1, SubSeqProperties
    <3>3. a + 1 - 1 = a /\ a + (b - a + 1) - 1 = b
      OBVIOUS
    <3> HIDE DEF u
    <3>4. u[1] = t[a] /\ u[b - a + 1] = t[b]
      BY <3>1, <3>2, <3>3
    <3>5. b - a + 1 >= 1
      OBVIOUS
    <3> QED BY <3>2, <3>4, <3>5
  <2>5. Inked(u, white)
    <3> HIDE DEF u
    <3>1. u # <<>>
      BY <2>4
    <3> QED BY <2>2, <2>4, <3>1 DEF Inked
  <2>6. \A i \in 1..(a - 1) : t[i] \in white
    BY <2>2
  <2>7. \A i \in (b + 1)..Len(t) : t[i] \in white
    BY <2>2
  <2>8. u # <<>>
    <3> HIDE DEF u
    <3> QED BY <2>4
  <2> HIDE DEF u
  <2> QED BY <1>2, <2>3, <2>4, <2>5, <2>6, <2>7, <2>8 DEF u
<1> QED BY <1>1, <1>2

LEMMA TrimInked ==
  ASSUME NEW S, NEW t \in Seq(S), NEW white, Inked(t, white)
  PROVE  Trim(t, white) = t
<1>1. Len(t) \in 1..Len(t) /\ 1 \in 1..Len(t)
  BY DEF Inked
<1>2. \A i \in 1..Len(t) : 1 <= i /\ i <= Len(t)
  OBVIOUS
<1>3. Trim(t, white) = SubSeq(t, 1, Len(t))
  BY <1>1, <1>2, TrimIs DEF Inked
<1> QED BY <1>3

LEMMA TrimTwice ==
  ASSUME NEW S, NEW t \in Seq(S), NEW white
  PROVE  Trim(Trim(t, white), white) = Trim(t, white)
<1>1. Trim(t, white) \in Seq(S)
  BY TrimLeaves
<1>2. CASE Trim(t, white) = <<>>
  <2>1. <<>> \in Seq(S) /\ \A i \in 1..Len(<<>>) : <<>>[i] \in white
    OBVIOUS
  <2>2. Trim(<<>>, white) = <<>>
    BY <2>1, TrimBlank
  <2> QED BY <1>2, <2>2
<1>3. CASE Trim(t, white) # <<>>
  BY <1>1, <1>3, TrimLeaves, TrimInked
<1> QED BY <1>2, <1>3

\* Blanks at the ends make no difference.
TrimsTo(u, t, v, white) == Trim(u \o t \o v, white) = Trim(t, white)

LEMMA TrimAround ==
  ASSUME NEW S, NEW u \in Seq(S), NEW t \in Seq(S), NEW v \in Seq(S), NEW white,
         \A i \in 1..Len(u) : u[i] \in white, \A i \in 1..Len(v) : v[i] \in white
  PROVE  TrimsTo(u, t, v, white)
<1> USE DEF TrimsTo
<1> DEFINE all == u \o t \o v
<1>1. /\ all \in Seq(S) /\ Len(all) = Len(u) + Len(t) + Len(v)
      /\ Len(u) \in Nat /\ Len(t) \in Nat /\ Len(v) \in Nat
      /\ \A i \in 1..Len(u) : all[i] = u[i]
      /\ \A i \in 1..Len(t) : all[Len(u) + i] = t[i]
      /\ \A i \in 1..Len(v) : all[Len(u) + Len(t) + i] = v[i]
  <2> DEFINE w == u \o t
  <2>1. /\ w \in Seq(S) /\ Len(w) = Len(u) + Len(t)
        /\ \A i \in 1..Len(u) : w[i] = u[i]
        /\ \A i \in 1..Len(t) : w[Len(u) + i] = t[i]
    OBVIOUS
  <2> HIDE DEF w
  <2>2. /\ w \o v \in Seq(S) /\ Len(w \o v) = Len(w) + Len(v)
        /\ \A i \in 1..Len(w) : (w \o v)[i] = w[i]
        /\ \A i \in 1..Len(v) : (w \o v)[Len(w) + i] = v[i]
    <3>1. w \in Seq(S)
      BY <2>1
    <3> QED BY <3>1, ConcatProperties
  <2>3. all = w \o v /\ Len(u) \in Nat /\ Len(t) \in Nat /\ Len(v) \in Nat
    BY DEF w
  <2> HIDE DEF all
  <2>4. \A i \in 1..Len(u) : i \in 1..Len(w)
    BY <2>1, <2>3
  <2>5. \A i \in 1..Len(t) : Len(u) + i \in 1..Len(w)
    BY <2>1, <2>3
  <2> QED BY <2>1, <2>2, <2>3, <2>4, <2>5
<1> HIDE DEF all
<1>2. CASE \A i \in 1..Len(t) : t[i] \in white
  <2>1. ASSUME NEW i \in 1..Len(all) PROVE all[i] \in white
    <3>1. CASE i <= Len(u)
      BY <1>1, <3>1
    <3>2. CASE i > Len(u) /\ i <= Len(u) + Len(t)
      <4>1. i - Len(u) \in 1..Len(t) /\ Len(u) + (i - Len(u)) = i
        BY <1>1, <3>2
      <4> QED BY <1>1, <1>2, <4>1
    <3>3. CASE i > Len(u) + Len(t)
      <4>1. i - Len(u) - Len(t) \in 1..Len(v) /\ Len(u) + Len(t) + (i - Len(u) - Len(t)) = i
        BY <1>1, <3>3
      <4> QED BY <1>1, <4>1
    <3> QED BY <1>1, <3>1, <3>2, <3>3
  <2>2. Trim(all, white) = <<>>
    BY <1>1, <2>1, TrimBlank
  <2>3. Trim(t, white) = <<>>
    BY <1>2, TrimBlank
  <2> QED BY <2>2, <2>3 DEF all
<1>3. CASE \E i \in 1..Len(t) : t[i] \notin white
  <2>1. PICK a \in 1..Len(t) : \E b \in a..Len(t) :
           /\ t[a] \notin white /\ t[b] \notin white
           /\ \A i \in 1..Len(t) : t[i] \notin white => a <= i /\ i <= b
    BY <1>3, InkEnds
  <2>2. PICK b \in a..Len(t) :
           /\ t[a] \notin white /\ t[b] \notin white
           /\ \A i \in 1..Len(t) : t[i] \notin white => a <= i /\ i <= b
    BY <2>1
  <2> DEFINE c == Len(u) + a
             d == Len(u) + b
  <2>3. c \in 1..Len(all) /\ d \in c..Len(all) /\ b \in 1..Len(t)
    BY <1>1
  <2>4. all[c] \notin white /\ all[d] \notin white
    BY <1>1, <2>2, <2>3
  <2>5. ASSUME NEW i \in 1..Len(all), all[i] \notin white PROVE c <= i /\ i <= d
    <3>1. CASE i <= Len(u)
      BY <1>1, <2>5, <3>1
    <3>2. CASE i > Len(u) /\ i <= Len(u) + Len(t)
      <4>1. i - Len(u) \in 1..Len(t) /\ Len(u) + (i - Len(u)) = i
        BY <1>1, <3>2
      <4>2. t[i - Len(u)] \notin white
        BY <1>1, <2>5, <4>1
      <4>3. a <= i - Len(u) /\ i - Len(u) <= b
        BY <2>2, <4>1, <4>2
      <4> QED BY <1>1, <4>3
    <3>3. CASE i > Len(u) + Len(t)
      <4>1. i - Len(u) - Len(t) \in 1..Len(v) /\ Len(u) + Len(t) + (i - Len(u) - Len(t)) = i
        BY <1>1, <3>3
      <4> QED BY <1>1, <2>5, <4>1
    <3> QED BY <1>1, <3>1, <3>2, <3>3
  <2>6. \A i \in 1..Len(all) : all[i] \notin white => c <= i /\ i <= d
    BY <2>5
  <2>7. Trim(all, white) = SubSeq(all, c, d)
    <3> HIDE DEF c, d
    <3> QED BY <1>1, <2>3, <2>4, <2>6, TrimIs
  <2>8. Trim(t, white) = SubSeq(t, a, b)
    BY <2>2, TrimIs
  <2>9. SubSeq(all, c, d) = SubSeq(t, a, b)
    <3>1. /\ SubSeq(all, c, d) \in Seq(S) /\ Len(SubSeq(all, c, d)) = d - c + 1
          /\ \A i \in 1..(d - c + 1) : SubSeq(all, c, d)[i] = all[c + i - 1]
      <4>1. c \in 1..(Len(all) + 1) /\ d \in (c - 1)..Len(all)
        BY <1>1, <2>3
      <4> HIDE DEF c, d
      <4> QED BY <1>1, <4>1, SubSeqProperties
    <3>2. /\ SubSeq(t, a, b) \in Seq(S) /\ Len(SubSeq(t, a, b)) = b - a + 1
          /\ \A i \in 1..(b - a + 1) : SubSeq(t, a, b)[i] = t[a + i - 1]
      <4>1. a \in 1..(Len(t) + 1) /\ b \in (a - 1)..Len(t)
        BY <1>1
      <4> QED BY <4>1, SubSeqProperties
    <3>3. d - c + 1 = b - a + 1
      BY <1>1
    <3>4. ASSUME NEW i \in 1..(b - a + 1) PROVE SubSeq(all, c, d)[i] = SubSeq(t, a, b)[i]
      <4>1. c + i - 1 = Len(u) + (a + i - 1) /\ a + i - 1 \in 1..Len(t)
        BY <1>1
      <4>2. all[c + i - 1] = t[a + i - 1]
        BY <1>1, <4>1
      <4> QED BY <3>1, <3>2, <3>3, <4>2
    <3> HIDE DEF c, d
    <3> QED BY <3>1, <3>2, <3>3, <3>4, SeqEqual
  <2> QED BY <2>7, <2>8, <2>9 DEF all
<1> QED BY <1>2, <1>3

LEMMA TrimAppend ==
  ASSUME NEW S, NEW t \in Seq(S), NEW white, NEW b \in S, b \in white
  PROVE  Trim(Append(t, b), white) = Trim(t, white)
<1> DEFINE none == <<>>
           one == <<b>>
<1>1. none \in Seq(S) /\ one \in Seq(S) /\ Len(none) = 0 /\ Len(one) = 1 /\ one[1] = b
  OBVIOUS
<1>2. Append(t, b) = none \o t \o one
  <2>1. none \o t = t
    BY ConcatEmptySeq
  <2>2. Append(t, b) = t \o one
    BY AppendIsConcat
  <2> HIDE DEF none, one
  <2> QED BY <2>1, <2>2
<1>3. (\A i \in 1..Len(none) : none[i] \in white) /\ (\A i \in 1..Len(one) : one[i] \in white)
  BY <1>1
<1> HIDE DEF none, one
<1>4. TrimsTo(none, t, one, white)
  BY <1>1, <1>3, TrimAround
<1> QED BY <1>2, <1>4 DEF TrimsTo

LEMMA TrimBehind ==
  ASSUME NEW S, NEW u \in Seq(S), NEW t \in Seq(S), NEW white, \A i \in 1..Len(u) : u[i] \in white
  PROVE  Trim(u \o t, white) = Trim(t, white)
<1> DEFINE none == <<>>
<1>1. none \in Seq(S) /\ Len(none) = 0 /\ u \o t \in Seq(S)
  OBVIOUS
<1>2. (u \o t) \o none = u \o t
  BY <1>1, ConcatEmptySeq
<1>3. \A i \in 1..Len(none) : none[i] \in white
  BY <1>1
<1> HIDE DEF none
<1>4. TrimsTo(u, t, none, white)
  BY <1>1, <1>3, TrimAround
<1> QED BY <1>2, <1>4 DEF TrimsTo

-----------------------------------------------------------------------------
(* What a text is split into. *)

\* Parts of a text: there is always a last one.
PartLists(S) == {ps \in Seq(Seq(S)) : Len(ps) >= 1}

LEMMA PartedType ==
  ASSUME NEW S, NEW ps \in PartLists(S), NEW c \in S, NEW sep
  PROVE  parted(ps, c, sep) \in PartLists(S)
<1>1. ps \in Seq(Seq(S)) /\ Len(ps) \in Nat /\ Len(ps) >= 1
  BY DEF PartLists
<1>2. CASE c = sep
  <2>1. <<>> \in Seq(S)
    OBVIOUS
  <2>2. Append(ps, <<>>) \in Seq(Seq(S)) /\ Len(Append(ps, <<>>)) = Len(ps) + 1
    BY <1>1, <2>1, AppendProperties
  <2> QED BY <1>1, <1>2, <2>2 DEF parted, PartLists
<1>3. CASE c # sep
  <2> DEFINE n == Len(ps)
             x == Append(ps[n], c)
  <2>1. n \in 1..n /\ ps[n] \in Seq(S)
    BY <1>1
  <2>2. x \in Seq(S)
    BY <2>1, AppendProperties
  <2> HIDE DEF x
  <2>3. [ps EXCEPT ![n] = x] \in Seq(Seq(S)) /\ Len([ps EXCEPT ![n] = x]) = n
    BY <1>1, <2>1, <2>2, ExceptSeq
  <2>4. parted(ps, c, sep) = [ps EXCEPT ![n] = x]
    BY <1>3 DEF parted, x
  <2> QED BY <1>1, <2>3, <2>4 DEF PartLists
<1> QED BY <1>2, <1>3

\* The loop exists, and does at each character what it says.
LEMMA PartsRuns ==
  ASSUME NEW S, NEW t \in Seq(S), NEW sep
  PROVE  /\ Parts(t, sep) \in [0..Len(t) -> PartLists(S)]
         /\ Parts(t, sep)[0] = <<(<<>>)>>
         /\ \A n \in 1..Len(t) : Parts(t, sep)[n] = parted(Parts(t, sep)[n - 1], t[n], sep)
<1> DEFINE N == Len(t)
           X == PartLists(S)
           x0 == <<(<<>>)>>
           step == [n \in 1..N |-> [ps \in X |-> parted(ps, t[n], sep)]]
           Loop(f) == f = [n \in 0..N |-> IF n = 0 THEN <<(<<>>)>> ELSE parted(f[n - 1], t[n], sep)]
<1>1. N \in Nat /\ x0 \in X
  <2>1. <<>> \in Seq(S)
    OBVIOUS
  <2>2. <<(<<>>)>> \in Seq(Seq(S)) /\ Len(<<(<<>>)>>) = 1
    BY <2>1
  <2> QED BY <2>2 DEF PartLists
<1>2. step \in [1..N -> [X -> X]]
  <2>1. ASSUME NEW n \in 1..N, NEW ps \in X PROVE parted(ps, t[n], sep) \in X
    <3>1. t[n] \in S
      OBVIOUS
    <3> QED BY <3>1, PartedType
  <2> HIDE DEF X
  <2> QED BY <2>1
<1>3. PICK f \in [0..N -> X] : Runs(f, N, x0, step)
  <2> HIDE DEF N, X, x0, step
  <2> QED BY <1>1, <1>2, Recursion
<1>4. Loop(f)
  <2> DEFINE r == [n \in 0..N |-> IF n = 0 THEN <<(<<>>)>> ELSE parted(f[n - 1], t[n], sep)]
  <2>1. ASSUME NEW k \in 0..N PROVE f[k] = r[k]
    <3>1. CASE k = 0
      BY <1>3, <3>1 DEF Runs
    <3>2. CASE k # 0
      <4>1. k \in 1..N /\ k - 1 \in 0..N
        BY <3>2
      <4>2. f[k - 1] \in X
        <5> HIDE DEF N, X
        <5> QED BY <1>3, <4>1
      <4>3. f[k] = step[k][f[k - 1]]
        <5> HIDE DEF N, X, step, x0
        <5> QED BY <1>3, <4>1 DEF Runs
      <4> HIDE DEF X
      <4> QED BY <3>2, <4>1, <4>2, <4>3
    <3> QED BY <3>1, <3>2
  <2>2. DOMAIN f = 0..N /\ f = [k \in 0..N |-> f[k]] /\ r = [k \in 0..N |-> r[k]]
    BY <1>3
  <2>3. f = r
    <3> HIDE DEF r
    <3> QED BY <2>1, <2>2
  <2> QED BY <2>3
<1>5. Parts(t, sep) = CHOOSE g : Loop(g)
  BY DEF Parts
<1> HIDE DEF Loop
<1>6. Loop(Parts(t, sep))
  BY <1>4, <1>5
<1> USE DEF Loop
<1>7. ASSUME NEW P, Loop(P)
      PROVE  /\ P[0] = <<(<<>>)>> /\ DOMAIN P = 0..N /\ P = [n \in 0..N |-> P[n]]
             /\ \A n \in 1..N : P[n] = parted(P[n - 1], t[n], sep)
  <2>1. P = [n \in 0..N |-> IF n = 0 THEN <<(<<>>)>> ELSE parted(P[n - 1], t[n], sep)]
    BY <1>7
  <2> HIDE DEF Loop
  <2>2. P[0] = <<(<<>>)>> /\ DOMAIN P = 0..N /\ P = [n \in 0..N |-> P[n]]
    BY <1>1, <2>1
  <2>3. ASSUME NEW n \in 1..N PROVE P[n] = parted(P[n - 1], t[n], sep)
    <3>1. n \in 0..N /\ n # 0
      OBVIOUS
    <3> QED BY <2>1, <3>1
  <2> QED BY <2>2, <2>3
<1> DEFINE P == Parts(t, sep)
<1>8. /\ P[0] = <<(<<>>)>> /\ P = [n \in 0..N |-> P[n]]
      /\ \A n \in 1..N : P[n] = parted(P[n - 1], t[n], sep)
  <2> HIDE DEF Loop
  <2> QED BY <1>6, <1>7
<1>9. \A n \in 0..N : P[n] \in X
  <2> DEFINE good == {n \in 0..N : P[n] \in X}
  <2>1. 0 \in good
    BY <1>1, <1>8
  <2>2. ASSUME NEW n \in 1..N, n - 1 \in good PROVE n \in good
    <3>1. P[n - 1] \in X /\ t[n] \in S /\ n \in 0..N
      BY <2>2
    <3>2. parted(P[n - 1], t[n], sep) \in X
      BY <3>1, PartedType
    <3> QED BY <1>8, <3>1, <3>2
  <2>3. 0..N \subseteq good
    <3>1. \A n \in 1..N : n - 1 \in good => n \in good
      BY <2>2
    <3> HIDE DEF good, N
    <3> QED BY <1>1, <2>1, <3>1, IntervalInduction
  <2> QED BY <2>3
<1> QED BY <1>8, <1>9

LEMMA SplitType ==
  ASSUME NEW S, NEW t \in Seq(S), NEW sep
  PROVE  /\ Split(t, sep) \in PartLists(S) /\ Split(t, sep) \in Seq(Seq(S))
         /\ Len(Split(t, sep)) \in Nat /\ Len(Split(t, sep)) >= 1
<1>1. Len(t) \in 0..Len(t)
  OBVIOUS
<1>2. Split(t, sep) \in PartLists(S)
  BY <1>1, PartsRuns DEF Split
<1> QED BY <1>2 DEF PartLists

LEMMA SplitEmpty ==
  ASSUME NEW sep
  PROVE  Split(<<>>, sep) = <<(<<>>)>>
<1>1. <<>> \in Seq({}) /\ Len(<<>>) = 0
  OBVIOUS
<1>2. \A t \in Seq({}) : Parts(t, sep)[0] = <<(<<>>)>>
  BY PartsRuns
<1> QED BY <1>1, <1>2 DEF Split

LEMMA SplitAppend ==
  ASSUME NEW S, NEW t \in Seq(S), NEW c \in S, NEW sep
  PROVE  Split(Append(t, c), sep) = parted(Split(t, sep), c, sep)
<1> DEFINE u == Append(t, c)
           n == Len(t)
           good == {k \in 0..n : Parts(u, sep)[k] = Parts(t, sep)[k]}
<1>1. /\ u \in Seq(S) /\ Len(u) = n + 1 /\ n \in Nat
      /\ \A i \in 1..n : u[i] = t[i]
      /\ u[n + 1] = c
  BY AppendProperties
<1> HIDE DEF u
<1>2. 0 \in good
  <2>1. Parts(u, sep)[0] = <<(<<>>)>> /\ Parts(t, sep)[0] = <<(<<>>)>>
    BY <1>1, PartsRuns
  <2> QED BY SMTT(30), <1>1, <2>1
<1>3. ASSUME NEW k \in 1..n, k - 1 \in good PROVE k \in good
  <2>1. k \in 1..Len(u) /\ k \in 0..n /\ Parts(u, sep)[k - 1] = Parts(t, sep)[k - 1]
    BY <1>1, <1>3
  <2>2. Parts(u, sep)[k] = parted(Parts(u, sep)[k - 1], u[k], sep)
    BY <1>1, <2>1, PartsRuns
  <2>3. Parts(t, sep)[k] = parted(Parts(t, sep)[k - 1], t[k], sep)
    BY PartsRuns
  <2> QED BY <1>1, <2>1, <2>2, <2>3
<1>4. n \in good
  <2>1. \A k \in 1..n : k - 1 \in good => k \in good
    BY <1>3
  <2>2. 0..n \subseteq good
    <3> HIDE DEF good, n
    <3> QED BY <1>1, <1>2, <2>1, IntervalInduction
  <2> QED BY <1>1, <2>2
<1>5. n + 1 \in 1..Len(u) /\ (n + 1) - 1 = n
  BY <1>1
<1>6. Parts(u, sep)[n + 1] = parted(Parts(u, sep)[(n + 1) - 1], u[n + 1], sep)
  BY <1>1, <1>5, PartsRuns
<1>7. Parts(u, sep)[n + 1] = parted(Parts(t, sep)[n], c, sep)
  BY <1>1, <1>4, <1>5, <1>6
<1> QED BY <1>1, <1>7 DEF Split, u

\* A text without the separator is one part.
LEMMA SplitOne ==
  ASSUME NEW S, NEW sep, sep \notin S, NEW t \in Seq(S)
  PROVE  Split(t, sep) = <<t>>
<1> DEFINE T == {u \in Seq(S) : Split(u, sep) = <<u>>}
<1>1. <<>> \in T
  <2>1. <<>> \in Seq(S)
    OBVIOUS
  <2> QED BY <2>1, SplitEmpty
<1>2. ASSUME NEW u \in Seq(S), NEW c \in S, u \in T PROVE Append(u, c) \in T
  <2>1. Append(u, c) \in Seq(S) /\ Split(u, sep) = <<u>> /\ c # sep
    BY <1>2
  <2>2. Split(Append(u, c), sep) = parted(<<u>>, c, sep)
    BY <2>1, SplitAppend
  <2>3. parted(<<u>>, c, sep) = [<<u>> EXCEPT ![Len(<<u>>)] = Append(@, c)]
    BY <2>1 DEF parted
  <2>4. [<<u>> EXCEPT ![Len(<<u>>)] = Append(@, c)] = <<Append(u, c)>>
    OBVIOUS
  <2> QED BY <2>1, <2>2, <2>3, <2>4
<1>3. \A u \in Seq(S), c \in S : u \in T => Append(u, c) \in T
  BY <1>2
<1>4. Seq(S) \subseteq T
  <2> HIDE DEF T
  <2> QED BY <1>1, <1>3, SeqInduction
<1> QED BY <1>4

\* What is in front of the last element makes no difference to it.
AppendsBehind(s, t, x) == s \o Append(t, x) = Append(s \o t, x)
ChangesBehind(s, t, x) == [s \o t EXCEPT ![Len(s \o t)] = x] = s \o [t EXCEPT ![Len(t)] = x]

LEMMA LastBehind ==
  ASSUME NEW S, NEW s \in Seq(S), NEW t \in Seq(S), NEW x \in S
  PROVE  /\ AppendsBehind(s, t, x)
         /\ t # <<>> => ChangesBehind(s, t, x) /\ (s \o t)[Len(s \o t)] = t[Len(t)]
<1>1. AppendsBehind(s, t, x)
  BY DEF AppendsBehind
<1>2. ASSUME t # <<>> PROVE ChangesBehind(s, t, x) /\ (s \o t)[Len(s \o t)] = t[Len(t)]
  <2> DEFINE m == Len(s)
             n == Len(t)
             w == s \o t
             left == [w EXCEPT ![Len(w)] = x]
             r == [t EXCEPT ![n] = x]
             right == s \o r
  <2>1. m \in Nat /\ n \in Nat /\ n >= 1 /\ n \in 1..n
    BY <1>2
  <2>2. w \in Seq(S) /\ Len(w) = m + n /\ \A i \in 1..(m + n) : w[i] = IF i <= m THEN s[i] ELSE t[i - m]
    BY ConcatProperties
  <2> HIDE DEF w
  <2>3. /\ left \in Seq(S) /\ Len(left) = m + n
        /\ \A i \in 1..(m + n) : left[i] = IF i = m + n THEN x ELSE w[i]
    <3>1. m + n \in 1..Len(w)
      BY <2>1, <2>2
    <3> HIDE DEF m, n
    <3> QED BY <2>2, <3>1, ExceptSeq
  <2>4. r \in Seq(S) /\ Len(r) = n /\ \A i \in 1..n : r[i] = IF i = n THEN x ELSE t[i]
    BY <2>1, ExceptSeq
  <2> HIDE DEF r
  <2>5. /\ right \in Seq(S) /\ Len(right) = m + n
        /\ \A i \in 1..(m + n) : right[i] = IF i <= m THEN s[i] ELSE r[i - m]
    <3>1. /\ right \in Seq(S) /\ Len(right) = m + Len(r)
          /\ \A i \in 1..(m + Len(r)) : right[i] = IF i <= m THEN s[i] ELSE r[i - m]
      BY <2>4, ConcatProperties
    <3> HIDE DEF right, m, n
    <3> QED BY <2>4, <3>1
  <2>6. ASSUME NEW i \in 1..(m + n) PROVE left[i] = right[i]
    <3> HIDE DEF left, right, m, n
    <3>1. CASE i <= m
      <4>1. i # m + n
        BY <2>1, <3>1
      <4> QED BY <2>2, <2>3, <2>5, <3>1, <4>1
    <3>2. CASE ~ (i <= m)
      <4>1. i - m \in 1..n /\ (i = m + n <=> i - m = n)
        BY <2>1, <3>2
      <4> QED BY <2>2, <2>3, <2>4, <2>5, <3>2, <4>1
    <3> QED BY <3>1, <3>2
  <2>7. left = right
    <3> HIDE DEF left, right, m, n
    <3> QED BY <2>3, <2>5, <2>6, SeqEqual
  <2>8. w[Len(w)] = t[n]
    <3>1. m + n \in 1..(m + n) /\ ~ (m + n <= m) /\ (m + n) - m = n
      BY <2>1
    <3> HIDE DEF m, n
    <3> QED BY <2>2, <3>1
  <2> QED BY <2>7, <2>8 DEF ChangesBehind, w, r
<1> QED BY <1>1, <1>2

LEMMA PartedBehind ==
  ASSUME NEW S, NEW ps \in Seq(Seq(S)), NEW qs \in PartLists(S), NEW c \in S, NEW sep
  PROVE  parted(ps \o qs, c, sep) = ps \o parted(qs, c, sep)
<1>1. qs \in Seq(Seq(S)) /\ Len(qs) \in 1..Len(qs) /\ qs # <<>>
  BY DEF PartLists
<1>2. CASE c = sep
  <2> DEFINE none == <<>>
  <2>1. none \in Seq(S)
    OBVIOUS
  <2> HIDE DEF none
  <2>2. AppendsBehind(ps, qs, none)
    BY <1>1, <2>1, LastBehind
  <2> QED BY <1>2, <2>2 DEF parted, none, AppendsBehind
<1>3. CASE c # sep
  <2> DEFINE x == Append(qs[Len(qs)], c)
             w == ps \o qs
  <2>1. x \in Seq(S)
    <3>1. qs[Len(qs)] \in Seq(S)
      BY <1>1
    <3> QED BY <3>1, AppendProperties
  <2>2. w[Len(w)] = qs[Len(qs)] /\ ChangesBehind(ps, qs, x)
    <3> HIDE DEF x
    <3> QED BY <1>1, <2>1, LastBehind
  <2>3. parted(w, c, sep) = [w EXCEPT ![Len(w)] = x]
    <3>1. parted(w, c, sep) = [w EXCEPT ![Len(w)] = Append(w[Len(w)], c)]
      <4> HIDE DEF w
      <4> QED BY <1>3 DEF parted
    <3> QED BY <2>2, <3>1
  <2>4. parted(qs, c, sep) = [qs EXCEPT ![Len(qs)] = x]
    BY <1>3 DEF parted
  <2> QED BY <2>2, <2>3, <2>4 DEF ChangesBehind
<1> QED BY <1>2, <1>3

\* Two texts with a separator between them have the parts of both.
SplitsBoth(t, u, sep) == Split(Append(t, sep) \o u, sep) = Split(t, sep) \o Split(u, sep)

LEMMA SplitBoth ==
  ASSUME NEW S, NEW t \in Seq(S), NEW u \in Seq(S), NEW sep \in S
  PROVE  SplitsBoth(t, u, sep)
<1> DEFINE v == Append(t, sep)
           T == {w \in Seq(S) : Split(v \o w, sep) = Split(t, sep) \o Split(w, sep)}
<1>1. v \in Seq(S) /\ Split(v, sep) = Append(Split(t, sep), <<>>)
  <2>1. v \in Seq(S)
    BY AppendProperties
  <2>2. Split(v, sep) = parted(Split(t, sep), sep, sep)
    BY SplitAppend
  <2> QED BY <2>1, <2>2 DEF parted
<1>2. <<>> \in T
  <2>1. v \o <<>> = v /\ <<>> \in Seq(S) /\ <<>> \in Seq(S)
    BY <1>1, ConcatEmptySeq
  <2>2. Append(Split(t, sep), <<>>) = Split(t, sep) \o <<(<<>>)>>
    <3>1. Split(t, sep) \in Seq(Seq(S)) /\ <<>> \in Seq(S)
      BY SplitType
    <3> QED BY <3>1, AppendIsConcat
  <2> QED BY <1>1, <2>1, <2>2, SplitEmpty
<1> HIDE DEF v
<1>3. ASSUME NEW w \in Seq(S), NEW c \in S, w \in T PROVE Append(w, c) \in T
  <2>1. v \o Append(w, c) = Append(v \o w, c) /\ v \o w \in Seq(S) /\ Append(w, c) \in Seq(S)
    BY <1>1
  <2>2. Split(Append(v \o w, c), sep) = parted(Split(v \o w, sep), c, sep)
    BY <2>1, SplitAppend
  <2>3. Split(v \o w, sep) = Split(t, sep) \o Split(w, sep)
    BY <1>3
  <2>4. parted(Split(t, sep) \o Split(w, sep), c, sep) = Split(t, sep) \o parted(Split(w, sep), c, sep)
    <3>1. Split(t, sep) \in Seq(Seq(S)) /\ Split(w, sep) \in PartLists(S)
      BY SplitType
    <3> QED BY <3>1, PartedBehind
  <2>5. Split(Append(w, c), sep) = parted(Split(w, sep), c, sep)
    BY SplitAppend
  <2> QED BY <2>1, <2>2, <2>3, <2>4, <2>5
<1>4. \A w \in Seq(S), c \in S : w \in T => Append(w, c) \in T
  BY <1>3
<1>5. Seq(S) \subseteq T
  <2> HIDE DEF T
  <2> QED BY <1>2, <1>4, SeqInduction
<1> QED BY <1>5 DEF v, SplitsBoth

\* The first part, and what stands behind its separator.
LEMMA SplitFirst ==
  ASSUME NEW S, NEW sep \in S, NEW t \in Seq(S \ {sep}), NEW u \in Seq(S)
  PROVE  Split(t \o (<<sep>> \o u), sep) = <<t>> \o Split(u, sep)
<1> DEFINE s == <<sep>>
<1>1. t \in Seq(S) /\ sep \notin S \ {sep}
  <2>1. S \ {sep} \subseteq S
    OBVIOUS
  <2> QED BY <2>1, SeqWiden
<1>2. s \in Seq(S)
  OBVIOUS
<1>3. Append(t, sep) = t \o s
  BY <1>1, AppendIsConcat
<1> HIDE DEF s
<1>4. Regroups(t, s, u)
  BY <1>1, <1>2, Regrouped
<1>5. SplitsBoth(t, u, sep)
  BY <1>1, SplitBoth
<1>6. Split(t, sep) = <<t>>
  BY <1>1, SplitOne
<1>7. Append(t, sep) \o u = t \o (s \o u)
  BY <1>3, <1>4 DEF Regroups
<1> QED BY <1>5, <1>6, <1>7 DEF SplitsBoth, s

-----------------------------------------------------------------------------
(* Texts that are joined, and what they are split into again. *)

LEMMA JoinedRuns ==
  ASSUME NEW S, NEW ts \in Seq(Seq(S)), NEW sep \in Seq(S)
  PROVE  /\ Joined(ts, sep)[0] = <<>>
         /\ \A n \in 0..Len(ts) : Joined(ts, sep)[n] \in Seq(S)
         /\ \A n \in 1..Len(ts) :
              Joined(ts, sep)[n] = IF n = 1 THEN ts[1] ELSE Joined(ts, sep)[n - 1] \o sep \o ts[n]
<1> DEFINE N == Len(ts)
           X == Seq(S)
           x0 == <<>>
           next == [n \in 1..N |-> [u \in X |-> IF n = 1 THEN ts[1] ELSE u \o sep \o ts[n]]]
           Loop(f) == f = [n \in 0..N |->
                             IF n = 0 THEN <<>> ELSE IF n = 1 THEN ts[1] ELSE f[n - 1] \o sep \o ts[n]]
<1>1. N \in Nat /\ x0 \in X
  OBVIOUS
<1>2. \A n \in 1..N, u \in X : (IF n = 1 THEN ts[1] ELSE u \o sep \o ts[n]) \in X
  <2> SUFFICES ASSUME NEW n \in 1..N, NEW u \in X
               PROVE  (IF n = 1 THEN ts[1] ELSE u \o sep \o ts[n]) \in X
    OBVIOUS
  <2>1. ts[n] \in X
    OBVIOUS
  <2>2. u \o sep \o ts[n] \in X
    BY <2>1
  <2> QED BY <2>1, <2>2
<1>3. next \in [1..N -> [X -> X]]
  <2> HIDE DEF X, N
  <2> QED BY <1>2
<1>4. PICK f \in [0..N -> X] : Runs(f, N, x0, next)
  <2> HIDE DEF N, X, x0, next
  <2> QED BY <1>1, <1>3, Recursion
<1>5. Loop(f)
  <2> DEFINE r == [n \in 0..N |->
                     IF n = 0 THEN <<>> ELSE IF n = 1 THEN ts[1] ELSE f[n - 1] \o sep \o ts[n]]
  <2>1. ASSUME NEW k \in 0..N PROVE f[k] = r[k]
    <3>1. CASE k = 0
      BY <1>4, <3>1 DEF Runs
    <3>2. CASE k # 0
      <4>1. k \in 1..N /\ k - 1 \in 0..N
        BY <3>2
      <4>2. f[k - 1] \in X
        <5> HIDE DEF N, X
        <5> QED BY <1>4, <4>1
      <4>3. f[k] = next[k][f[k - 1]]
        <5> HIDE DEF N, X, next, x0
        <5> QED BY <1>4, <4>1 DEF Runs
      <4>4. next[k][f[k - 1]] = IF k = 1 THEN ts[1] ELSE f[k - 1] \o sep \o ts[k]
        <5> HIDE DEF N, X
        <5> QED BY <4>1, <4>2
      <4>5. r[k] = IF k = 1 THEN ts[1] ELSE f[k - 1] \o sep \o ts[k]
        <5> HIDE DEF N
        <5> QED BY <3>2
      <4> QED BY <4>3, <4>4, <4>5
    <3> QED BY <3>1, <3>2
  <2>2. DOMAIN f = 0..N /\ f = [k \in 0..N |-> f[k]] /\ r = [k \in 0..N |-> r[k]]
    BY <1>4
  <2>3. f = r
    <3> HIDE DEF r
    <3> QED BY <2>1, <2>2
  <2> QED BY <2>3
<1>6. Joined(ts, sep) = CHOOSE g : Loop(g)
  BY DEF Joined
<1> HIDE DEF Loop
<1>7. Loop(Joined(ts, sep))
  BY <1>5, <1>6
<1> DEFINE J == Joined(ts, sep)
<1>8. J[0] = <<>> /\ \A n \in 1..N : J[n] = IF n = 1 THEN ts[1] ELSE J[n - 1] \o sep \o ts[n]
  <2>1. J = [n \in 0..N |-> IF n = 0 THEN <<>> ELSE IF n = 1 THEN ts[1] ELSE J[n - 1] \o sep \o ts[n]]
    BY <1>7 DEF Loop
  <2> HIDE DEF J
  <2>2. J[0] = <<>>
    BY <1>1, <2>1
  <2>3. ASSUME NEW n \in 1..N PROVE J[n] = IF n = 1 THEN ts[1] ELSE J[n - 1] \o sep \o ts[n]
    <3>1. n \in 0..N /\ n # 0
      OBVIOUS
    <3> HIDE DEF N
    <3> QED BY <2>1, <3>1
  <2> QED BY <2>2, <2>3
<1>9. \A n \in 0..N : J[n] \in X
  <2> DEFINE good == {n \in 0..N : J[n] \in X}
  <2>1. 0 \in good
    <3>1. 0 \in 0..N /\ J[0] \in X
      <4> HIDE DEF J, X
      <4> QED BY <1>1, <1>8
    <3> QED BY <3>1
  <2>2. ASSUME NEW n \in 1..N, n - 1 \in good PROVE n \in good
    <3>1. J[n - 1] \in X /\ n \in 0..N
      BY <2>2
    <3> HIDE DEF J, X
    <3>2. J[n] \in X
      BY <1>2, <1>8, <3>1
    <3> QED BY <3>1, <3>2
  <2>3. 0..N \subseteq good
    <3>1. \A n \in 1..N : n - 1 \in good => n \in good
      BY <2>2
    <3> HIDE DEF good, N
    <3> QED BY <1>1, <2>1, <3>1, IntervalInduction
  <2> QED BY <2>3
<1> QED BY <1>8, <1>9

LEMMA JoinEmpty ==
  ASSUME NEW S, NEW sep \in Seq(S)
  PROVE  Join(<<>>, sep) = <<>>
<1>1. <<>> \in Seq(Seq(S)) /\ Len(<<>>) = 0
  OBVIOUS
<1>2. \A ts \in Seq(Seq(S)) : Joined(ts, sep)[0] = <<>>
  BY JoinedRuns
<1> QED BY <1>1, <1>2 DEF Join

LEMMA JoinType ==
  ASSUME NEW S, NEW ts \in Seq(Seq(S)), NEW sep \in Seq(S)
  PROVE  Join(ts, sep) \in Seq(S)
<1>1. Len(ts) \in 0..Len(ts)
  OBVIOUS
<1> QED BY <1>1, JoinedRuns DEF Join

LEMMA JoinAppend ==
  ASSUME NEW S, NEW ts \in Seq(Seq(S)), NEW x \in Seq(S), NEW sep \in Seq(S)
  PROVE  Join(Append(ts, x), sep) = IF ts = <<>> THEN x ELSE Join(ts, sep) \o sep \o x
<1> DEFINE us == Append(ts, x)
           n == Len(ts)
           good == {k \in 0..n : Joined(us, sep)[k] = Joined(ts, sep)[k]}
<1>1. /\ us \in Seq(Seq(S)) /\ Len(us) = n + 1 /\ n \in Nat
      /\ \A i \in 1..n : us[i] = ts[i]
      /\ us[n + 1] = x
      /\ n = 0 <=> ts = <<>>
  <2>1. us \in Seq(Seq(S)) /\ Len(us) = n + 1 /\ (\A i \in 1..n : us[i] = ts[i]) /\ us[n + 1] = x
    BY AppendProperties
  <2> QED BY <2>1
<1> HIDE DEF us
<1>2. 0 \in good
  <2>1. Joined(us, sep)[0] = <<>> /\ Joined(ts, sep)[0] = <<>>
    BY <1>1, JoinedRuns
  <2> QED BY <1>1, <2>1
<1>3. ASSUME NEW k \in 1..n, k - 1 \in good PROVE k \in good
  <2>1. k \in 1..Len(us) /\ k \in 0..n /\ Joined(us, sep)[k - 1] = Joined(ts, sep)[k - 1]
    BY <1>1, <1>3
  <2>2. Joined(us, sep)[k] = IF k = 1 THEN us[1] ELSE Joined(us, sep)[k - 1] \o sep \o us[k]
    BY ZenonT(30), <1>1, <2>1, JoinedRuns
  <2>3. Joined(ts, sep)[k] = IF k = 1 THEN ts[1] ELSE Joined(ts, sep)[k - 1] \o sep \o ts[k]
    BY JoinedRuns
  <2>4. us[k] = ts[k] /\ (k = 1 => us[1] = ts[1])
    BY <1>1
  <2> QED BY <2>1, <2>2, <2>3, <2>4
<1>4. n \in good
  <2>1. \A k \in 1..n : k - 1 \in good => k \in good
    BY <1>3
  <2>2. 0..n \subseteq good
    <3> HIDE DEF good, n
    <3> QED BY <1>1, <1>2, <2>1, IntervalInduction
  <2> QED BY <1>1, <2>2
<1>5. n + 1 \in 1..Len(us) /\ (n + 1) - 1 = n /\ (n + 1 = 1 <=> ts = <<>>)
  BY <1>1
<1>6. Joined(us, sep)[n + 1] = IF n + 1 = 1 THEN us[1] ELSE Joined(us, sep)[(n + 1) - 1] \o sep \o us[n + 1]
  <2>1. \A k \in 1..Len(us) : Joined(us, sep)[k] = IF k = 1 THEN us[1] ELSE Joined(us, sep)[k - 1] \o sep \o us[k]
    BY ZenonT(30), <1>1, JoinedRuns
  <2> HIDE DEF n
  <2> QED BY <1>5, <2>1
<1>7. n + 1 = 1 => us[1] = x
  BY <1>1
<1>8. Joined(us, sep)[n + 1] = IF ts = <<>> THEN x ELSE Joined(ts, sep)[n] \o sep \o x
  BY <1>1, <1>4, <1>5, <1>6, <1>7
<1> QED BY <1>1, <1>8 DEF Join, us

\* Texts without the separator are split again as they were joined.
LEMMA SplitJoin ==
  ASSUME NEW S, NEW sep, sep \notin S, NEW ts \in Seq(Seq(S)), ts # <<>>
  PROVE  Split(Join(ts, <<sep>>), sep) = ts /\ Join(ts, <<sep>>) \in Seq(S \cup {sep})
<1> DEFINE C == S \cup {sep}
           J(us) == Join(us, <<sep>>)
           T == {us \in Seq(Seq(S)) : us # <<>> => Split(J(us), sep) = us /\ J(us) \in Seq(C)}
<1>1. <<sep>> \in Seq(C) /\ sep \in C
  OBVIOUS
<1>2. <<>> \in T
  OBVIOUS
<1>3. ASSUME NEW us \in Seq(Seq(S)), NEW x \in Seq(S), us \in T PROVE Append(us, x) \in T
  <2>1. x \in Seq(C) /\ us \in Seq(Seq(C)) /\ Append(us, x) \in Seq(Seq(S))
    <3>1. Seq(S) \subseteq Seq(C)
      <4>1. \A v \in Seq(S) : v \in Seq(C)
        BY SeqWiden
      <4> QED BY <4>1
    <3>2. us \in Seq(Seq(C))
      BY <3>1, SeqWiden
    <3>3. Append(us, x) \in Seq(Seq(S))
      BY AppendProperties
    <3> QED BY <3>1, <3>2, <3>3
  <2>2. J(Append(us, x)) = IF us = <<>> THEN x ELSE J(us) \o <<sep>> \o x
    <3> HIDE DEF C
    <3> QED BY ZenonT(30), <1>1, <2>1, JoinAppend
  <2>3. Split(x, sep) = <<x>>
    BY SplitOne
  <2>4. CASE us = <<>>
    <3>1. J(Append(us, x)) = x /\ Append(us, x) = <<x>>
      BY <2>2, <2>4
    <3> QED BY <2>1, <2>3, <3>1
  <2>5. CASE us # <<>>
    <3>1. Split(J(us), sep) = us /\ J(us) \in Seq(C)
      BY <1>3, <2>5
    <3>2. J(us) \o <<sep>> = Append(J(us), sep) /\ Append(J(us), sep) \in Seq(C)
      BY <1>1, <3>1, AppendIsConcat, AppendProperties
    <3>3. J(Append(us, x)) = Append(J(us), sep) \o x
      BY <2>2, <2>5, <3>2
    <3>4. Append(J(us), sep) \o x \in Seq(C)
      BY <2>1, <3>2, ConcatProperties
    <3>5. SplitsBoth(J(us), x, sep)
      <4> HIDE DEF C, J
      <4> QED BY <1>1, <2>1, <3>1, SplitBoth
    <3>6. us \o <<x>> = Append(us, x)
      BY AppendIsConcat
    <3> QED BY <2>1, <2>3, <3>1, <3>3, <3>4, <3>5, <3>6 DEF SplitsBoth
  <2> QED BY <2>4, <2>5
<1>4. \A us \in Seq(Seq(S)), x \in Seq(S) : us \in T => Append(us, x) \in T
  BY <1>3
<1>5. Seq(Seq(S)) \subseteq T
  <2> HIDE DEF T
  <2> QED BY <1>2, <1>4, SeqInduction
<1> QED BY <1>5

\* Concat is what its name says, one at a time and two at once.
LEMMA ConcatAppend ==
  ASSUME NEW S, NEW ts \in Seq(Seq(S)), NEW x \in Seq(S)
  PROVE  Concat(Append(ts, x)) = Concat(ts) \o x /\ Concat(ts) \in Seq(S)
<1> DEFINE none == <<>>
<1>1. none \in Seq(S)
  OBVIOUS
<1>2. Join(ts, none) \in Seq(S)
  <2> HIDE DEF none
  <2> QED BY <1>1, JoinType
<1>3. Join(Append(ts, x), none) = IF ts = <<>> THEN x ELSE Join(ts, none) \o none \o x
  <2> HIDE DEF none
  <2> QED BY <1>1, JoinAppend
<1>4. Join(ts, none) \o none = Join(ts, none)
  BY <1>2, ConcatEmptySeq
<1>5. ts = <<>> => Join(ts, none) \o x = x
  <2>1. Join(<<>>, none) = <<>>
    BY <1>1, JoinEmpty
  <2>2. <<>> \o x = x
    BY ConcatEmptySeq
  <2> QED BY <2>1, <2>2
<1>6. Join(Append(ts, x), none) = Join(ts, none) \o x
  BY <1>3, <1>4, <1>5
<1> QED BY <1>2, <1>6 DEF Concat

LEMMA ConcatEmpty == Concat(<<>>) = <<>>
<1>1. <<>> \in Seq({})
  OBVIOUS
<1> QED BY <1>1, JoinEmpty DEF Concat

ConcatsBoth(s, t) == Concat(s \o t) = Concat(s) \o Concat(t)

LEMMA ConcatBoth ==
  ASSUME NEW S, NEW s \in Seq(Seq(S)), NEW t \in Seq(Seq(S))
  PROVE  ConcatsBoth(s, t)
<1> DEFINE X == Seq(S)
           T == {u \in Seq(X) : Concat(s \o u) = Concat(s) \o Concat(u)}
<1>0. \A u \in Seq(X) : Concat(u) \in X
  <2>1. <<>> \in X
    OBVIOUS
  <2> QED BY <2>1, ConcatAppend
<1>1. <<>> \in T
  <2>1. s \o <<>> = s /\ Concat(s) \o <<>> = Concat(s)
    BY <1>0, ConcatEmptySeq
  <2>2. <<>> \in Seq(X)
    OBVIOUS
  <2> QED BY <2>1, <2>2, ConcatEmpty
<1>2. ASSUME NEW u \in Seq(X), NEW x \in X, u \in T PROVE Append(u, x) \in T
  <2>1. AppendsBehind(s, u, x) /\ s \o u \in Seq(X) /\ Append(u, x) \in Seq(X)
    <3> HIDE DEF X
    <3> QED BY LastBehind, ConcatProperties, AppendProperties DEF X
  <2>2. Concat(Append(s \o u, x)) = Concat(s \o u) \o x
    BY <2>1, ConcatAppend
  <2>3. Concat(Append(u, x)) = Concat(u) \o x
    BY ConcatAppend
  <2>4. Regroups(Concat(s), Concat(u), x)
    BY <1>0, Regrouped
  <2>5. Concat(s \o u) = Concat(s) \o Concat(u)
    BY <1>2
  <2> QED BY <2>1, <2>2, <2>3, <2>4, <2>5 DEF AppendsBehind, Regroups
<1>3. \A u \in Seq(X), x \in X : u \in T => Append(u, x) \in T
  BY <1>2
<1>4. Seq(X) \subseteq T
  <2> HIDE DEF T, X
  <2> QED BY <1>1, <1>3, SeqInduction
<1> QED BY <1>4 DEF ConcatsBoth

-----------------------------------------------------------------------------
(* What trimming a text does to its parts, when they are trimmed as well. *)

\* A text has no separator, or a first one.
CutAt(t, u, sep, v) == t = Append(u, sep) \o v

LEMMA FirstPart ==
  ASSUME NEW S, NEW sep \in S, NEW t \in Seq(S)
  PROVE  \/ t \in Seq(S \ {sep})
         \/ \E u \in Seq(S \ {sep}) : \E v \in Seq(S) : CutAt(t, u, sep, v)
<1> USE DEF CutAt
<1> DEFINE F == Seq(S \ {sep})
           T == {w \in Seq(S) : w \in F \/ \E u \in F : \E v \in Seq(S) : w = Append(u, sep) \o v}
<1>0. \A u \in F : u \in Seq(S)
  <2>1. S \ {sep} \subseteq S
    OBVIOUS
  <2> QED BY <2>1, SeqWiden
<1>1. <<>> \in T
  OBVIOUS
<1>2. ASSUME NEW w \in Seq(S), NEW c \in S, w \in T PROVE Append(w, c) \in T
  <2>1. Append(w, c) \in Seq(S)
    BY AppendProperties
  <2>2. CASE w \in F /\ c # sep
    <3>1. Append(w, c) \in F
      BY <2>2, AppendProperties
    <3> QED BY <2>1, <3>1
  <2>3. CASE w \in F /\ c = sep
    <3> DEFINE none == <<>>
    <3>1. none \in Seq(S) /\ Append(w, sep) \in Seq(S)
      BY <2>1, <2>3
    <3>2. Append(w, sep) \o none = Append(w, sep)
      BY <3>1, ConcatEmptySeq
    <3> HIDE DEF none
    <3> QED BY <2>1, <2>3, <3>1, <3>2
  <2>4. CASE w \notin F
    <3>1. PICK u \in F : \E v \in Seq(S) : w = Append(u, sep) \o v
      BY <1>2, <2>4
    <3>2. PICK v \in Seq(S) : w = Append(u, sep) \o v
      BY <3>1
    <3> DEFINE us == Append(u, sep)
    <3>3. us \in Seq(S)
      BY <1>0, AppendProperties
    <3> HIDE DEF us
    <3>4. AppendsBehind(us, v, c) /\ Append(v, c) \in Seq(S)
      BY <3>3, LastBehind, AppendProperties
    <3>5. Append(w, c) = us \o Append(v, c)
      BY <3>2, <3>4 DEF AppendsBehind, us
    <3> QED BY <2>1, <3>4, <3>5 DEF us
  <2> QED BY <2>2, <2>3, <2>4
<1>3. \A w \in Seq(S), c \in S : w \in T => Append(w, c) \in T
  BY <1>2
<1>4. Seq(S) \subseteq T
  <2> HIDE DEF T
  <2> QED BY <1>1, <1>3, SeqInduction
<1> QED BY <1>4

\* The i-th part, trimmed, and nothing where there is none.
Tidy(t, i, sep, white) ==
  IF i <= Len(Split(t, sep)) THEN Trim(Split(t, sep)[i], white) ELSE <<>>

LEMMA TidyAppend ==
  ASSUME NEW S, NEW t \in Seq(S), NEW white, NEW sep, NEW b \in S, b \in white, NEW i \in Nat \ {0}
  PROVE  Tidy(Append(t, b), i, sep, white) = Tidy(t, i, sep, white)
<1> DEFINE ps == Split(t, sep)
           n == Len(ps)
           qs == Split(Append(t, b), sep)
<1>1. ps \in Seq(Seq(S)) /\ n \in Nat /\ n >= 1
  BY SplitType
<1>2. qs = parted(ps, b, sep)
  BY SplitAppend
<1> HIDE DEF ps, qs
<1>3. CASE b = sep
  <2> DEFINE none == <<>>
  <2>1. none \in Seq(S) /\ \A k \in 1..Len(none) : none[k] \in white
    OBVIOUS
  <2>2. Trim(none, white) = <<>>
    BY <2>1, TrimBlank
  <2>3. qs = Append(ps, none)
    BY <1>2, <1>3 DEF parted
  <2> HIDE DEF none
  <2>4. /\ Len(qs) = n + 1
        /\ \A k \in 1..(n + 1) : qs[k] = IF k = n + 1 THEN none ELSE ps[k]
    BY <1>1, <2>1, <2>3, AppendProperties
  <2>5. CASE i <= n
    <3>1. i \in 1..(n + 1) /\ i # n + 1 /\ i <= Len(qs)
      BY <1>1, <2>4, <2>5
    <3> QED BY <2>4, <2>5, <3>1 DEF Tidy, ps, qs
  <2>6. CASE i = n + 1
    <3>1. i \in 1..(n + 1) /\ ~ (i <= n)
      BY <1>1, <2>6
    <3> QED BY <2>2, <2>4, <2>6, <3>1 DEF Tidy, ps, qs
  <2>7. CASE i > n + 1
    <3>1. ~ (i <= n) /\ ~ (i <= n + 1)
      BY <1>1, <2>7
    <3> QED BY <2>4, <3>1 DEF Tidy, ps, qs
  <2> QED BY <1>1, <2>5, <2>6, <2>7
<1>4. CASE b # sep
  <2> DEFINE x == Append(ps[n], b)
  <2>1. n \in 1..n /\ ps[n] \in Seq(S)
    BY <1>1
  <2>2. x \in Seq(S) /\ Trim(x, white) = Trim(ps[n], white)
    BY <2>1, TrimAppend, AppendProperties
  <2>3. qs = [ps EXCEPT ![n] = x]
    BY <1>2, <1>4 DEF parted
  <2> HIDE DEF x
  <2>4. Len(qs) = n /\ \A k \in 1..n : qs[k] = IF k = n THEN x ELSE ps[k]
    BY <1>1, <2>1, <2>2, <2>3, ExceptSeq
  <2>5. CASE i <= n
    <3>1. i \in 1..n
      BY <2>5
    <3>2. Trim(qs[i], white) = Trim(ps[i], white)
      BY <2>2, <2>4, <3>1
    <3> QED BY <2>4, <2>5, <3>2 DEF Tidy, ps, qs
  <2>6. CASE ~ (i <= n)
    BY <2>4, <2>6 DEF Tidy, ps, qs
  <2> QED BY <2>5, <2>6
<1> QED BY <1>3, <1>4

\* Blanks behind the text change no part of it.
LEMMA TidyBehind ==
  ASSUME NEW S, NEW t \in Seq(S), NEW white, NEW sep, NEW v \in Seq(S \cap white), NEW i \in Nat \ {0}
  PROVE  Tidy(t \o v, i, sep, white) = Tidy(t, i, sep, white) /\ t \o v \in Seq(S)
<1> DEFINE W == S \cap white
           T == {w \in Seq(W) : Tidy(t \o w, i, sep, white) = Tidy(t, i, sep, white) /\ t \o w \in Seq(S)}
<1>1. <<>> \in T
  <2>1. t \o <<>> = t /\ <<>> \in Seq(W)
    BY ConcatEmptySeq
  <2> QED BY <2>1
<1>2. ASSUME NEW w \in Seq(W), NEW b \in W, w \in T PROVE Append(w, b) \in T
  <2>1. w \in Seq(S) /\ b \in S /\ b \in white /\ Append(w, b) \in Seq(W)
    <3>1. W \subseteq S
      OBVIOUS
    <3>2. w \in Seq(S)
      <4> HIDE DEF W
      <4> QED BY <3>1, SeqWiden
    <3> QED BY <3>2, AppendProperties
  <2>2. AppendsBehind(t, w, b) /\ t \o w \in Seq(S)
    BY <2>1, LastBehind, ConcatProperties
  <2> DEFINE tw == t \o w
  <2>3. Tidy(Append(tw, b), i, sep, white) = Tidy(tw, i, sep, white) /\ Append(tw, b) \in Seq(S)
    <3> HIDE DEF tw
    <3>1. tw \in Seq(S)
      BY <2>2 DEF tw
    <3> QED BY <2>1, <3>1, TidyAppend, AppendProperties
  <2>4. Tidy(tw, i, sep, white) = Tidy(t, i, sep, white)
    BY <1>2
  <2>5. t \o Append(w, b) = Append(tw, b)
    BY <2>2 DEF AppendsBehind
  <2> HIDE DEF tw
  <2> QED BY <2>1, <2>3, <2>4, <2>5
<1>3. \A w \in Seq(W), b \in W : w \in T => Append(w, b) \in T
  BY <1>2
<1>4. Seq(W) \subseteq T
  <2> HIDE DEF T, W
  <2> QED BY <1>1, <1>3, SeqInduction
<1> QED BY <1>4

\* Blanks in front of it do not either, if none is a separator.
LEMMA TidyBefore ==
  ASSUME NEW S, NEW t \in Seq(S), NEW white, NEW sep \in S,
         NEW u \in Seq((S \cap white) \ {sep}), NEW i \in Nat \ {0}
  PROVE  Tidy(u \o t, i, sep, white) = Tidy(t, i, sep, white)
<1> DEFINE W == (S \cap white) \ {sep}
           P == S \ {sep}
<1>1. u \in Seq(P) /\ u \in Seq(S) /\ \A k \in 1..Len(u) : u[k] \in white
  <2>1. W \subseteq P /\ W \subseteq S /\ W \subseteq white
    OBVIOUS
  <2>2. u \in Seq(W)
    OBVIOUS
  <2> HIDE DEF W, P
  <2> QED BY <2>1, <2>2, SeqWiden
<1>2. CASE t \in Seq(P)
  <2>1. u \o t \in Seq(P) /\ sep \notin P
    BY <1>1, <1>2, ConcatProperties
  <2> DEFINE ut == u \o t
  <2>2. Split(ut, sep) = <<ut>> /\ Split(t, sep) = <<t>>
    <3> HIDE DEF P, ut
    <3> QED BY <1>2, <2>1, SplitOne DEF ut
  <2>3. Trim(ut, white) = Trim(t, white)
    <3> HIDE DEF P, W
    <3> QED BY <1>1, TrimBehind
  <2> HIDE DEF ut
  <2>4. Len(Split(ut, sep)) = 1 /\ Split(ut, sep)[1] = ut /\ Len(Split(t, sep)) = 1 /\ Split(t, sep)[1] = t
    BY <2>2
  <2>5. i <= 1 <=> i = 1
    OBVIOUS
  <2> QED BY <2>3, <2>4, <2>5 DEF Tidy, ut
<1>3. CASE t \notin Seq(P)
  <2>1. PICK t1 \in Seq(P) : \E t2 \in Seq(S) : CutAt(t, t1, sep, t2)
    BY <1>3, FirstPart
  <2>2. PICK t2 \in Seq(S) : t = Append(t1, sep) \o t2
    BY <2>1 DEF CutAt
  <2> DEFINE ut == u \o t1
  <2>3. t1 \in Seq(S) /\ ut \in Seq(P) /\ ut \in Seq(S) /\ sep \notin P
    <3>1. P \subseteq S
      OBVIOUS
    <3>2. t1 \in Seq(S)
      <4> HIDE DEF P
      <4> QED BY <3>1, SeqWiden
    <3> QED BY <1>1, <3>2, ConcatProperties
  <2> HIDE DEF ut, P
  <2>4. u \o t = Append(ut, sep) \o t2
    <3>1. AppendsBehind(u, t1, sep)
      BY <1>1, <2>3, LastBehind
    <3> DEFINE t1s == Append(t1, sep)
    <3>2. t1s \in Seq(S)
      BY <2>3, AppendProperties
    <3> HIDE DEF t1s
    <3>3. Regroups(u, t1s, t2)
      BY <1>1, <3>2, Regrouped
    <3> QED BY <2>2, <3>1, <3>3 DEF AppendsBehind, Regroups, t1s, ut
  <2> DEFINE rs == Split(t2, sep)
  <2>5. rs \in Seq(Seq(S)) /\ Len(rs) \in Nat
    BY SplitType
  <2>6. Split(u \o t, sep) = <<ut>> \o rs /\ Split(t, sep) = <<t1>> \o rs
    <3>1. SplitsBoth(ut, t2, sep) /\ SplitsBoth(t1, t2, sep)
      BY <2>3, SplitBoth
    <3>2. Split(ut, sep) = <<ut>> /\ Split(t1, sep) = <<t1>>
      BY <2>3, SplitOne
    <3> QED BY <2>2, <2>4, <3>1, <3>2 DEF SplitsBoth
  <2> HIDE DEF rs
  <2>7. ASSUME NEW x \in Seq(S)
        PROVE  /\ Len(<<x>> \o rs) = 1 + Len(rs)
               /\ \A k \in 1..(1 + Len(rs)) : (<<x>> \o rs)[k] = IF k <= 1 THEN x ELSE rs[k - 1]
    <3> DEFINE one == <<x>>
    <3>1. one \in Seq(Seq(S)) /\ Len(one) = 1 /\ one[1] = x
      OBVIOUS
    <3> HIDE DEF one
    <3>2. /\ Len(one \o rs) = Len(one) + Len(rs)
          /\ \A k \in 1..(Len(one) + Len(rs)) : (one \o rs)[k] = IF k <= Len(one) THEN one[k] ELSE rs[k - Len(one)]
      BY <2>5, <3>1, ConcatProperties
    <3>3. \A k \in 1..(1 + Len(rs)) : k <= 1 => k = 1
      OBVIOUS
    <3> QED BY <3>1, <3>2, <3>3 DEF one
  <2>8. Trim(ut, white) = Trim(t1, white)
    BY <1>1, <2>3, TrimBehind DEF ut
  <2> DEFINE as == Split(u \o t, sep)
             bs == Split(t, sep)
  <2>9. /\ Len(as) = 1 + Len(rs) /\ Len(bs) = 1 + Len(rs)
        /\ \A k \in 1..(1 + Len(rs)) : /\ as[k] = IF k <= 1 THEN ut ELSE rs[k - 1]
                                       /\ bs[k] = IF k <= 1 THEN t1 ELSE rs[k - 1]
    BY <2>3, <2>6, <2>7
  <2> HIDE DEF as, bs
  <2>10. CASE i <= 1 + Len(rs)
    <3>1. i \in 1..(1 + Len(rs))
      BY <2>5, <2>10
    <3>2. Trim(as[i], white) = Trim(bs[i], white)
      BY <2>8, <2>9, <3>1
    <3> QED BY <2>9, <2>10, <3>2 DEF Tidy, as, bs
  <2>11. CASE ~ (i <= 1 + Len(rs))
    BY <2>9, <2>11 DEF Tidy, as, bs
  <2> QED BY <2>10, <2>11
<1> QED BY <1>2, <1>3

\* Trimming the whole text changes no part of it, if the first is not blank.
LEMMA TidyTrim ==
  ASSUME NEW S, NEW t \in Seq(S), NEW white, NEW sep \in S, sep \in white, NEW i \in Nat \ {0},
         \E k \in 1..Len(Split(t, sep)[1]) : Split(t, sep)[1][k] \notin white
  PROVE  Tidy(Trim(t, white), i, sep, white) = Tidy(t, i, sep, white)
<1> DEFINE W == S \cap white
           s == Trim(t, white)
<1>1. s # <<>>
  <2> SUFFICES ASSUME s = <<>> PROVE FALSE
    OBVIOUS
  <2>1. \A k \in 1..Len(t) : t[k] \in white
    BY TrimLeaves
  <2>2. t \in Seq(W)
    <3>1. t = [k \in 1..Len(t) |-> t[k]] /\ Len(t) \in Nat /\ \A k \in 1..Len(t) : t[k] \in S
      OBVIOUS
    <3> QED BY <2>1, <3>1
  <2>3. Split(t, sep) \in Seq(Seq(W)) /\ Len(Split(t, sep)) >= 1 /\ Len(Split(t, sep)) \in Nat
    <3> HIDE DEF W
    <3> QED BY <2>2, SplitType
  <2>4. Split(t, sep)[1] \in Seq(W)
    BY <2>3
  <2> QED BY <2>4
<1>2. PICK a \in 1..Len(t) : \E b \in a..Len(t) :
         /\ s = SubSeq(t, a, b)
         /\ \A k \in 1..(a - 1) : t[k] \in white
         /\ \A k \in (b + 1)..Len(t) : t[k] \in white
  BY <1>1, TrimLeaves
<1>3. PICK b \in a..Len(t) :
         /\ s = SubSeq(t, a, b)
         /\ \A k \in 1..(a - 1) : t[k] \in white
         /\ \A k \in (b + 1)..Len(t) : t[k] \in white
  BY <1>2
<1> HIDE DEF s
<1> DEFINE u == SubSeq(t, 1, a - 1)
           v == SubSeq(t, b + 1, Len(t))
<1>4. u \in Seq(W) /\ Len(u) = a - 1 /\ \A k \in 1..(a - 1) : u[k] = t[k]
  <2>1. u \in Seq(S) /\ Len(u) = a - 1 /\ \A k \in 1..(a - 1) : u[k] = t[k]
    OBVIOUS
  <2>2. u = [k \in 1..Len(u) |-> u[k]] /\ \A k \in 1..(a - 1) : u[k] \in W
    BY <1>3, <2>1
  <2> HIDE DEF u
  <2> QED BY SMTT(30), <2>1, <2>2
<1>5. v \in Seq(W) /\ Len(v) = Len(t) - b /\ \A k \in 1..(Len(t) - b) : v[k] = t[b + k]
  <2>1. v \in Seq(S) /\ Len(v) = Len(t) - b /\ \A k \in 1..(Len(t) - b) : v[k] = t[b + k]
    OBVIOUS
  <2>2. \A k \in 1..(Len(t) - b) : b + k \in (b + 1)..Len(t) /\ b + k \in 1..Len(t)
    OBVIOUS
  <2>3. v = [k \in 1..Len(v) |-> v[k]] /\ \A k \in 1..(Len(t) - b) : v[k] \in W
    BY <1>3, <2>1, <2>2
  <2> HIDE DEF v
  <2>4. Len(v) \in Nat
    BY <2>1
  <2>5. \A k \in 1..Len(v) : v[k] \in W
    BY <2>1, <2>3
  <2>6. v \in Seq(W)
    <3> HIDE DEF W
    <3> QED BY <2>3, <2>4, <2>5
  <2> QED BY <2>1, <2>6
<1>6. s \in Seq(S) /\ Len(s) = b - a + 1 /\ \A k \in 1..(b - a + 1) : s[k] = t[a + k - 1]
  BY <1>3
<1>7. u \in Seq(S) /\ v \in Seq(S)
  <2>1. W \subseteq S
    OBVIOUS
  <2> HIDE DEF u, v, W
  <2> QED BY <1>4, <1>5, <2>1, SeqWiden
<1> HIDE DEF u, v
<1>8. u \o s \in Seq(S) /\ t = (u \o s) \o v
  <2> DEFINE us == u \o s
  <2>1. /\ us \in Seq(S) /\ Len(us) = b
        /\ \A k \in 1..b : us[k] = IF k <= a - 1 THEN u[k] ELSE s[k - (a - 1)]
    <3>1. /\ us \in Seq(S) /\ Len(us) = Len(u) + Len(s)
          /\ \A k \in 1..(Len(u) + Len(s)) : us[k] = IF k <= Len(u) THEN u[k] ELSE s[k - Len(u)]
      BY ZenonT(30), <1>6, <1>7, ConcatProperties
    <3>2. Len(u) + Len(s) = b
      BY <1>4, <1>6
    <3> HIDE DEF us
    <3> QED BY <1>4, <3>1, <3>2
  <2>2. \A k \in 1..b : us[k] = t[k]
    <3> SUFFICES ASSUME NEW k \in 1..b PROVE us[k] = t[k]
      OBVIOUS
    <3> HIDE DEF us
    <3>1. CASE k <= a - 1
      BY <1>4, <2>1, <3>1
    <3>2. CASE ~ (k <= a - 1)
      <4>1. k - (a - 1) \in 1..(b - a + 1) /\ a + (k - (a - 1)) - 1 = k
        BY <3>2
      <4> QED BY <1>6, <2>1, <3>2, <4>1
    <3> QED BY <3>1, <3>2
  <2> HIDE DEF us
  <2> DEFINE all == us \o v
  <2>3. /\ all \in Seq(S) /\ Len(all) = Len(t)
        /\ \A k \in 1..Len(t) : all[k] = IF k <= b THEN us[k] ELSE v[k - b]
    <3>1. /\ all \in Seq(S) /\ Len(all) = Len(us) + Len(v)
          /\ \A k \in 1..(Len(us) + Len(v)) : all[k] = IF k <= Len(us) THEN us[k] ELSE v[k - Len(us)]
      BY <1>7, <2>1, ConcatProperties
    <3>2. Len(us) + Len(v) = Len(t)
      BY <1>5, <2>1
    <3> HIDE DEF all
    <3> QED BY <2>1, <3>1, <3>2
  <2>4. ASSUME NEW k \in 1..Len(t) PROVE all[k] = t[k]
    <3> HIDE DEF all
    <3>1. CASE k <= b
      BY <2>2, <2>3, <3>1
    <3>2. CASE ~ (k <= b)
      <4>1. k - b \in 1..(Len(t) - b) /\ b + (k - b) = k
        BY <3>2
      <4> QED BY <1>5, <2>3, <3>2, <4>1
    <3> QED BY <3>1, <3>2
  <2>5. all = t
    <3> HIDE DEF all
    <3> QED BY <2>3, <2>4, SeqEqual
  <2> QED BY <2>1, <2>5 DEF us
<1>9. Tidy(t, i, sep, white) = Tidy(u \o s, i, sep, white)
  <2> DEFINE us == u \o s
  <2>1. Tidy(us \o v, i, sep, white) = Tidy(us, i, sep, white)
    <3> HIDE DEF us
    <3>1. us \in Seq(S)
      BY <1>8 DEF us
    <3> QED BY <1>5, <3>1, TidyBehind
  <2> QED BY <1>8, <2>1
<1>10. u \in Seq(W \ {sep})
  <2> SUFFICES ASSUME u \notin Seq(W \ {sep}) PROVE FALSE
    OBVIOUS
  <2>1. sep \in W
    OBVIOUS
  <2>2. PICK u1 \in Seq(W \ {sep}) : \E u2 \in Seq(W) : CutAt(u, u1, sep, u2)
    <3> HIDE DEF W
    <3> QED BY <1>4, <2>1, FirstPart
  <2>3. PICK u2 \in Seq(W) : u = Append(u1, sep) \o u2
    BY <2>2 DEF CutAt
  <2> DEFINE first == Append(u1, sep)
             rest == (u2 \o s) \o v
  <2>4. u1 \in Seq(S) /\ u1 \in Seq(W) /\ u2 \in Seq(S) /\ first \in Seq(S) /\ u2 \o s \in Seq(S) /\ rest \in Seq(S)
    <3>1. W \ {sep} \subseteq S /\ W \subseteq S /\ W \ {sep} \subseteq W
      OBVIOUS
    <3>2. u1 \in Seq(S) /\ u1 \in Seq(W) /\ u2 \in Seq(S)
      <4> HIDE DEF W
      <4> QED BY <3>1, SeqWiden
    <3> QED BY <1>6, <1>7, <3>2, AppendProperties, ConcatProperties
  <2>5. t = first \o rest
    <3> DEFINE u2s == u2 \o s
    <3> HIDE DEF first
    <3>1. Regroups(first, u2, s)
      BY <1>6, <2>4, Regrouped
    <3>2. Regroups(first, u2s, v)
      <4> HIDE DEF u2s
      <4>1. u2s \in Seq(S)
        BY <2>4 DEF u2s
      <4> QED BY <1>7, <2>4, <4>1, Regrouped
    <3> QED BY <1>8, <2>3, <3>1, <3>2 DEF Regroups, first
  <2>6. Split(t, sep) = Split(u1, sep) \o Split(rest, sep)
    <3> HIDE DEF rest
    <3>1. SplitsBoth(u1, rest, sep)
      BY <2>4, SplitBoth
    <3> QED BY <2>5, <3>1 DEF SplitsBoth
  <2> HIDE DEF rest, first
  <2> DEFINE ps == Split(u1, sep)
             qs == Split(rest, sep)
  <2>7. /\ ps \in Seq(Seq(W)) /\ Len(ps) \in Nat /\ Len(ps) >= 1
        /\ ps \in Seq(Seq(S)) /\ qs \in Seq(Seq(S)) /\ Len(qs) \in Nat
    <3> HIDE DEF W
    <3> QED BY <2>4, SplitType
  <2> HIDE DEF ps, qs
  <2>8. 1 \in 1..(Len(ps) + Len(qs)) /\ 1 <= Len(ps)
    BY <2>7
  <2>9. (ps \o qs)[1] = ps[1]
    BY <2>7, <2>8, ConcatProperties
  <2>10. Split(t, sep)[1] = ps[1]
    BY <2>6, <2>9 DEF ps, qs
  <2>11. ps[1] \in Seq(W)
    BY <2>7
  <2>12. \A k \in 1..Len(ps[1]) : ps[1][k] \in W
    BY <2>11
  <2> QED BY <2>10, <2>12
<1>11. Tidy(u \o s, i, sep, white) = Tidy(s, i, sep, white)
  BY SMTT(30), <1>6, <1>10, TidyBefore
<1> QED BY <1>9, <1>11 DEF s
=============================================================================
