---------------------------- MODULE TsvRows_proofs ----------------------------
(***************************************************************************)
(* Which rows come back from ClickHouse as they were, for rows and texts of *)
(* any length.                                                              *)
(***************************************************************************)
EXTENDS ClickHouseSource, SourceReader_proofs

\* What is written behind the backslash of an escape.
Mark == {"t", "n", "r", "f", "b", "0", Backslash, Quote}

Codes == {Tab, NewLine, Backslash, Quote, "CR", "FF", "BSP", "NUL"}

\* No two of the characters with a meaning are alike.
LEMMA Characters ==
  /\ Tab \in Char /\ NewLine \in Char /\ Space \in Char /\ Backslash \in Char
  /\ "t" \in Char /\ "n" \in Char /\ "N" \in Char
  /\ Tab \in White /\ NewLine \in White /\ Space \in White
  /\ Backslash \notin White /\ "t" \notin White /\ "n" \notin White /\ "N" \notin White
  /\ Tab # NewLine /\ Tab # Space /\ NewLine # Space
  /\ "t" # "n" /\ "t" # "N" /\ "n" # "N" /\ Backslash # "t" /\ Backslash # "n" /\ Backslash # "N"
BY DEF Char, Meaning, Marks, White, Tab, NewLine, Space, Backslash

\* The characters that are escaped, and those whose escapes are not undone.
LEMMA MarksAre ==
  /\ DOMAIN Marks = Codes /\ Codes \subseteq Char
  /\ Marks[Tab] = "t" /\ Marks[NewLine] = "n" /\ Marks[Backslash] = Backslash
  /\ \A c \in Codes : Marks[c] \in Mark
  /\ LeftEscaped = {Quote, "CR", "FF", "BSP", "NUL"}
  /\ \A c \in LeftEscaped : Marks[c] \in Mark \ {"t", "n", Backslash}
  /\ \A c \in White : c \in Codes \/ c = Space
  /\ Mark \subseteq Char /\ Mark \cap White = {} /\ "N" \notin Mark
<1>1. DOMAIN Marks = Codes
  BY DEF Marks, Codes, Tab, NewLine, Backslash, Quote
<1>2. /\ Marks[Tab] = "t" /\ Marks[NewLine] = "n" /\ Marks[Backslash] = Backslash /\ Marks[Quote] = Quote
      /\ Marks["CR"] = "r" /\ Marks["FF"] = "f" /\ Marks["BSP"] = "b" /\ Marks["NUL"] = "0"
  BY DEF Marks, Tab, NewLine, Backslash, Quote
<1>3. LeftEscaped = {Quote, "CR", "FF", "BSP", "NUL"}
  BY <1>1 DEF LeftEscaped, Codes, Tab, NewLine, Backslash, Quote
<1>4. \A c \in Codes : Marks[c] \in Mark
  BY <1>2 DEF Codes, Mark
<1>5. \A c \in LeftEscaped : Marks[c] \in Mark \ {"t", "n", Backslash}
  BY <1>2, <1>3 DEF Mark, Backslash, Quote
<1>6. \A c \in White : c \in Codes \/ c = Space
  BY DEF White, Codes
<1>7. Mark \subseteq Char /\ Mark \cap White = {} /\ "N" \notin Mark /\ Codes \subseteq Char
  BY <1>1 DEF Mark, Char, Meaning, White, Codes, Tab, NewLine, Space, Backslash, Quote
<1> QED BY <1>1, <1>2, <1>3, <1>4, <1>5, <1>6, <1>7

-----------------------------------------------------------------------------
(* What the server writes. *)

\* A character is written as itself, or as a backslash and a word character.
LEMMA EscapedIs ==
  ASSUME NEW c \in Char
  PROVE  \/ c \notin Codes /\ Escaped(c) = <<c>>
         \/ c \in Codes /\ \E x \in Mark : Escaped(c) = <<Backslash, x>>
BY MarksAre DEF Escaped

LEMMA EscapedType ==
  ASSUME NEW c \in Char
  PROVE  Escaped(c) \in Seq(Char)
<1>1. CASE Escaped(c) = <<c>>
  BY <1>1
<1>2. ASSUME NEW x \in Mark, Escaped(c) = <<Backslash, x>> PROVE Escaped(c) \in Seq(Char)
  BY <1>2, Characters, MarksAre
<1> QED BY <1>1, <1>2, EscapedIs

LEMMA EscapeEmpty == Escape(<<>>) = <<>>
<1> DEFINE es == [i \in DOMAIN <<>> |-> Escaped(<<>>[i])]
<1>1. es = <<>>
  OBVIOUS
<1>2. Escape(<<>>) = Concat(es)
  BY DEF Escape
<1> HIDE DEF es
<1> QED BY <1>1, <1>2, ConcatEmpty

LEMMA EscapeAppend ==
  ASSUME NEW t \in Seq(Char), NEW c \in Char
  PROVE  Escape(Append(t, c)) = Escape(t) \o Escaped(c) /\ Escape(t) \in Seq(Char)
<1> DEFINE es == [i \in DOMAIN t |-> Escaped(t[i])]
           n == Len(t)
           u == Append(t, c)
           fs == [i \in DOMAIN u |-> Escaped(u[i])]
<1>1. n \in Nat /\ DOMAIN t = 1..n /\ \A i \in 1..n : t[i] \in Char
  OBVIOUS
<1>2. es \in Seq(Seq(Char)) /\ Len(es) = n /\ \A i \in 1..n : es[i] = Escaped(t[i])
  <2>1. es = [i \in 1..n |-> Escaped(t[i])]
    BY <1>1
  <2>2. \A i \in 1..n : Escaped(t[i]) \in Seq(Char)
    BY <1>1, EscapedType
  <2> HIDE DEF es, n
  <2> QED BY <1>1, <2>1, <2>2
<1>3. /\ u \in Seq(Char) /\ Len(u) = n + 1 /\ u[n + 1] = c
      /\ \A i \in 1..n : u[i] = t[i]
  BY AppendProperties
<1> HIDE DEF es, u
<1>4. fs \in Seq(Seq(Char)) /\ Len(fs) = n + 1 /\ \A i \in 1..(n + 1) : fs[i] = Escaped(u[i])
  <2>1. DOMAIN u = 1..(n + 1) /\ n + 1 \in Nat
    BY <1>1, <1>3
  <2>2. fs = [i \in 1..(n + 1) |-> Escaped(u[i])]
    BY <2>1
  <2>3. \A i \in 1..(n + 1) : Escaped(u[i]) \in Seq(Char)
    <3>1. \A i \in 1..(n + 1) : u[i] \in Char
      BY <1>3
    <3> QED BY <3>1, EscapedType
  <2> HIDE DEF fs, n
  <2> QED BY <2>1, <2>2, <2>3
<1> HIDE DEF fs
<1>5. fs = Append(es, Escaped(c))
  <2> DEFINE gs == Append(es, Escaped(c))
  <2>1. Escaped(c) \in Seq(Char)
    BY EscapedType
  <2>2. /\ gs \in Seq(Seq(Char)) /\ Len(gs) = n + 1 /\ gs[n + 1] = Escaped(c)
        /\ \A i \in 1..n : gs[i] = es[i]
    <3> HIDE DEF n
    <3> QED BY <1>2, <2>1, AppendProperties
  <2> HIDE DEF gs
  <2>3. ASSUME NEW i \in 1..(n + 1) PROVE fs[i] = gs[i]
    <3>1. CASE i = n + 1
      BY <1>3, <1>4, <2>2, <3>1
    <3>2. CASE i # n + 1
      <4>1. i \in 1..n
        BY <1>1, <3>2
      <4> QED BY <1>2, <1>3, <1>4, <2>2, <4>1
    <3> QED BY <3>1, <3>2
  <2>4. fs = gs
    <3> HIDE DEF n
    <3> QED BY <1>4, <2>2, <2>3, SeqEqual
  <2> QED BY <2>4 DEF gs
<1>6. Concat(Append(es, Escaped(c))) = Concat(es) \o Escaped(c) /\ Concat(es) \in Seq(Char)
  BY <1>2, EscapedType, ConcatAppend
<1> QED BY <1>5, <1>6 DEF Escape, es, fs, u

LEMMA EscapeType ==
  ASSUME NEW t \in Seq(Char)
  PROVE  Escape(t) \in Seq(Char)
BY Characters, EscapeAppend

-----------------------------------------------------------------------------
(* What str::replace makes of a text. *)

ReplaceState(S) == [out : Seq(S), held : BOOLEAN]

\* Where the loop is when it has come to the end of the text.
Upto(t, p, c) == Replaced(t, p, c)[Len(t)]

LEMMA ReplaceNextType ==
  ASSUME NEW S, NEW p, p[1] \in S, NEW c \in S, NEW d \in ReplaceState(S), NEW x \in S
  PROVE  replace_next(d, x, p, c) \in ReplaceState(S) /\ Out(d, p) \in Seq(S)
<1>1. d.out \in Seq(S) /\ d.held \in BOOLEAN
  BY DEF ReplaceState
<1> DEFINE o == d.out
<1>2. Out(d, p) \in Seq(S)
  <2>1. Append(o, p[1]) \in Seq(S) /\ o \in Seq(S)
    BY <1>1, AppendProperties
  <2> QED BY <2>1 DEF Out
<1>3. Append(o, c) \in Seq(S) /\ Append(Out(d, p), x) \in Seq(S)
  BY <1>1, <1>2, AppendProperties
<1> HIDE DEF o
<1>4. /\ [out |-> Append(o, c), held |-> FALSE] \in ReplaceState(S)
      /\ [out |-> Out(d, p), held |-> TRUE] \in ReplaceState(S)
      /\ [out |-> Append(Out(d, p), x), held |-> FALSE] \in ReplaceState(S)
  BY <1>2, <1>3 DEF ReplaceState
<1> QED BY <1>2, <1>4 DEF replace_next, o

\* The loop exists, and does at each character what it says.
LEMMA ReplacedRuns ==
  ASSUME NEW S, NEW t \in Seq(S), NEW p, p[1] \in S, NEW c \in S
  PROVE  /\ Replaced(t, p, c)[0] = [out |-> <<>>, held |-> FALSE]
         /\ \A n \in 0..Len(t) : Replaced(t, p, c)[n] \in ReplaceState(S)
         /\ \A n \in 1..Len(t) :
              Replaced(t, p, c)[n] = replace_next(Replaced(t, p, c)[n - 1], t[n], p, c)
<1> DEFINE N == Len(t)
           X == ReplaceState(S)
           x0 == [out |-> <<>>, held |-> FALSE]
           step == [n \in 1..N |-> [d \in X |-> replace_next(d, t[n], p, c)]]
           Loop(f) == f = [n \in 0..N |-> IF n = 0 THEN [out |-> <<>>, held |-> FALSE]
                                          ELSE replace_next(f[n - 1], t[n], p, c)]
<1>1. N \in Nat /\ x0 \in X
  BY DEF ReplaceState
<1>2. \A n \in 1..N, d \in X : replace_next(d, t[n], p, c) \in X
  <2> SUFFICES ASSUME NEW n \in 1..N, NEW d \in X PROVE replace_next(d, t[n], p, c) \in X
    OBVIOUS
  <2>1. t[n] \in S
    OBVIOUS
  <2> QED BY <2>1, ReplaceNextType
<1>3. step \in [1..N -> [X -> X]]
  <2> HIDE DEF X, N
  <2> QED BY <1>2
<1>4. PICK f \in [0..N -> X] : Runs(f, N, x0, step)
  <2> HIDE DEF N, X, x0, step
  <2> QED BY <1>1, <1>3, Recursion
<1>5. Loop(f)
  <2> DEFINE r == [n \in 0..N |-> IF n = 0 THEN [out |-> <<>>, held |-> FALSE]
                                  ELSE replace_next(f[n - 1], t[n], p, c)]
  <2>1. ASSUME NEW k \in 0..N PROVE f[k] = r[k]
    <3>1. CASE k = 0
      BY <1>4, <3>1 DEF Runs
    <3>2. CASE k # 0
      <4>1. k \in 1..N /\ k - 1 \in 0..N
        BY <3>2
      <4>2. f[k - 1] \in X
        <5> HIDE DEF N, X
        <5> QED BY <1>4, <4>1
      <4>3. f[k] = step[k][f[k - 1]]
        <5> HIDE DEF N, X, step, x0
        <5> QED BY <1>4, <4>1 DEF Runs
      <4> HIDE DEF X
      <4> QED BY <3>2, <4>1, <4>2, <4>3
    <3> QED BY <3>1, <3>2
  <2>2. DOMAIN f = 0..N /\ f = [k \in 0..N |-> f[k]] /\ r = [k \in 0..N |-> r[k]]
    BY <1>4
  <2>3. f = r
    <3> HIDE DEF r
    <3> QED BY <2>1, <2>2
  <2> QED BY <2>3
<1>6. Replaced(t, p, c) = CHOOSE g : Loop(g)
  BY DEF Replaced
<1> HIDE DEF Loop
<1>7. Loop(Replaced(t, p, c))
  BY <1>5, <1>6
<1> DEFINE R == Replaced(t, p, c)
<1>8. R[0] = x0 /\ \A n \in 1..N : R[n] = replace_next(R[n - 1], t[n], p, c)
  <2>1. R = [n \in 0..N |-> IF n = 0 THEN [out |-> <<>>, held |-> FALSE] ELSE replace_next(R[n - 1], t[n], p, c)]
    BY <1>7 DEF Loop
  <2> HIDE DEF R
  <2>2. R[0] = x0
    BY <1>1, <2>1
  <2>3. ASSUME NEW n \in 1..N PROVE R[n] = replace_next(R[n - 1], t[n], p, c)
    <3>1. n \in 0..N /\ n # 0
      OBVIOUS
    <3> HIDE DEF N
    <3> QED BY <2>1, <3>1
  <2> QED BY <2>2, <2>3
<1>9. \A n \in 0..N : R[n] \in X
  <2> DEFINE good == {n \in 0..N : R[n] \in X}
  <2> HIDE DEF R, X, x0
  <2>1. 0 \in good
    BY <1>1, <1>8
  <2>2. ASSUME NEW n \in 1..N, n - 1 \in good PROVE n \in good
    <3>1. R[n - 1] \in X /\ n \in 0..N
      BY <2>2
    <3> QED BY <1>2, <1>8, <3>1
  <2>3. 0..N \subseteq good
    <3>1. \A n \in 1..N : n - 1 \in good => n \in good
      BY <2>2
    <3> HIDE DEF good, N
    <3> QED BY <1>1, <2>1, <3>1, IntervalInduction
  <2> QED BY <2>3
<1> QED BY <1>8, <1>9

LEMMA UptoEmpty ==
  ASSUME NEW S, NEW p, p[1] \in S, NEW c \in S
  PROVE  Upto(<<>>, p, c) = [out |-> <<>>, held |-> FALSE]
<1>1. <<>> \in Seq(S) /\ Len(<<>>) = 0
  OBVIOUS
<1>2. \A t \in Seq(S) : Replaced(t, p, c)[0] = [out |-> <<>>, held |-> FALSE]
  BY ReplacedRuns
<1> QED BY <1>1, <1>2 DEF Upto

LEMMA UptoAppend ==
  ASSUME NEW S, NEW t \in Seq(S), NEW x \in S, NEW p, p[1] \in S, NEW c \in S
  PROVE  /\ Upto(Append(t, x), p, c) = replace_next(Upto(t, p, c), x, p, c)
         /\ Upto(t, p, c) \in ReplaceState(S)
<1> DEFINE u == Append(t, x)
           n == Len(t)
           R == Replaced(t, p, c)
           Q == Replaced(u, p, c)
           good == {k \in 0..n : Q[k] = R[k]}
<1>1. /\ u \in Seq(S) /\ Len(u) = n + 1 /\ n \in Nat
      /\ \A i \in 1..n : u[i] = t[i]
      /\ u[n + 1] = x
  BY AppendProperties
<1> HIDE DEF u
<1>2. /\ R[0] = [out |-> <<>>, held |-> FALSE] /\ Q[0] = [out |-> <<>>, held |-> FALSE]
      /\ \A k \in 0..n : R[k] \in ReplaceState(S)
      /\ \A k \in 1..n : R[k] = replace_next(R[k - 1], t[k], p, c)
      /\ \A k \in 1..Len(u) : Q[k] = replace_next(Q[k - 1], u[k], p, c)
  BY <1>1, ReplacedRuns
<1> HIDE DEF R, Q
<1>3. 0 \in good
  BY <1>1, <1>2
<1>4. ASSUME NEW k \in 1..n, k - 1 \in good PROVE k \in good
  <2>1. k \in 1..Len(u) /\ k \in 0..n /\ Q[k - 1] = R[k - 1]
    BY <1>1, <1>4
  <2> QED BY <1>1, <1>2, <2>1
<1>5. n \in good
  <2>1. \A k \in 1..n : k - 1 \in good => k \in good
    BY <1>4
  <2>2. 0..n \subseteq good
    <3> HIDE DEF good, n
    <3> QED BY <1>1, <1>3, <2>1, IntervalInduction
  <2> QED BY <1>1, <2>2
<1>6. n + 1 \in 1..Len(u) /\ (n + 1) - 1 = n /\ n \in 0..n
  BY <1>1
<1>7. Q[n + 1] = replace_next(R[n], x, p, c)
  <2>1. Q[n + 1] = replace_next(Q[(n + 1) - 1], u[n + 1], p, c)
    <3> HIDE DEF n
    <3> QED BY <1>2, <1>6
  <2> QED BY <1>1, <1>5, <1>6, <2>1
<1> QED BY <1>1, <1>2, <1>6, <1>7 DEF Upto, u, R, Q

\* One character more, by the cases of replace_next: d becomes e with x, where
\* a backslash and y stand for c.
Feeds(d, e, x, y, c) ==
  /\ d.out \in Seq(Char) /\ d.held \in BOOLEAN
  /\ d.held /\ x = y => ~ e.held /\ e.out = Append(d.out, c)
  /\ d.held /\ x # y /\ x = Backslash => e.held /\ e.out = Append(d.out, Backslash)
  /\ d.held /\ x # y /\ x # Backslash => ~ e.held /\ e.out = Append(Append(d.out, Backslash), x)
  /\ ~ d.held /\ x = Backslash => e.held /\ e.out = d.out
  /\ ~ d.held /\ x # Backslash => ~ e.held /\ e.out = Append(d.out, x)

LEMMA Fed ==
  ASSUME NEW w \in Seq(Char), NEW x \in Char, NEW p, p[1] = Backslash, NEW c \in Char
  PROVE  Feeds(Upto(w, p, c), Upto(Append(w, x), p, c), x, p[2], c)
<1> DEFINE d == Upto(w, p, c)
           e == Upto(Append(w, x), p, c)
<1>1. e = replace_next(d, x, p, c) /\ d \in ReplaceState(Char)
  BY Characters, UptoAppend
<1> HIDE DEF d, e
<1>2. d.out \in Seq(Char) /\ d.held \in BOOLEAN
  BY <1>1 DEF ReplaceState
<1>3. CASE d.held /\ x = p[2]
  <2>1. e = [out |-> Append(d.out, c), held |-> FALSE]
    BY <1>1, <1>3 DEF replace_next
  <2>2. e.out = Append(d.out, c) /\ ~ e.held
    BY <2>1
  <2> QED BY <1>2, <1>3, <2>2 DEF d, e, Feeds
<1>4. CASE ~ (d.held /\ x = p[2]) /\ x = Backslash
  <2>1. e = [out |-> IF d.held THEN Append(d.out, Backslash) ELSE d.out, held |-> TRUE]
    BY <1>1, <1>4 DEF replace_next, Out
  <2>2. e.held /\ e.out = IF d.held THEN Append(d.out, Backslash) ELSE d.out
    BY <2>1
  <2> QED BY <1>2, <1>4, <2>2 DEF d, e, Feeds
<1>5. CASE ~ (d.held /\ x = p[2]) /\ x # Backslash
  <2>1. e = [out |-> Append(IF d.held THEN Append(d.out, Backslash) ELSE d.out, x), held |-> FALSE]
    BY <1>1, <1>5 DEF replace_next, Out
  <2>2. ~ e.held /\ e.out = Append(IF d.held THEN Append(d.out, Backslash) ELSE d.out, x)
    BY <2>1
  <2> QED BY <1>2, <1>5, <2>2 DEF d, e, Feeds
<1> QED BY <1>3, <1>4, <1>5

-----------------------------------------------------------------------------
(* The three replacements one behind the other. *)

First(w)  == Upto(w, <<Backslash, "t">>, Tab)
Second(v) == Upto(v, <<Backslash, "n">>, NewLine)
Third(u)  == Upto(u, <<Backslash, Backslash>>, Backslash)

LEMMA EachFed ==
  ASSUME NEW w \in Seq(Char), NEW x \in Char
  PROVE  /\ Feeds(First(w), First(Append(w, x)), x, "t", Tab)
         /\ Feeds(Second(w), Second(Append(w, x)), x, "n", NewLine)
         /\ Feeds(Third(w), Third(Append(w, x)), x, Backslash, Backslash)
<1>1. Feeds(First(w), First(Append(w, x)), x, "t", Tab)
  <2> DEFINE p == <<Backslash, "t">>
  <2>1. p[1] = Backslash /\ p[2] = "t" /\ First(w) = Upto(w, p, Tab) /\ First(Append(w, x)) = Upto(Append(w, x), p, Tab)
    BY DEF First
  <2> HIDE DEF p
  <2>2. Feeds(Upto(w, p, Tab), Upto(Append(w, x), p, Tab), x, p[2], Tab)
    BY <2>1, Characters, Fed
  <2> QED BY <2>1, <2>2
<1>2. Feeds(Second(w), Second(Append(w, x)), x, "n", NewLine)
  <2> DEFINE p == <<Backslash, "n">>
  <2>1. /\ p[1] = Backslash /\ p[2] = "n"
        /\ Second(w) = Upto(w, p, NewLine) /\ Second(Append(w, x)) = Upto(Append(w, x), p, NewLine)
    BY DEF Second
  <2> HIDE DEF p
  <2>2. Feeds(Upto(w, p, NewLine), Upto(Append(w, x), p, NewLine), x, p[2], NewLine)
    BY <2>1, Characters, Fed
  <2> QED BY <2>1, <2>2
<1>3. Feeds(Third(w), Third(Append(w, x)), x, Backslash, Backslash)
  <2> DEFINE p == <<Backslash, Backslash>>
  <2>1. /\ p[1] = Backslash /\ p[2] = Backslash
        /\ Third(w) = Upto(w, p, Backslash) /\ Third(Append(w, x)) = Upto(Append(w, x), p, Backslash)
    BY DEF Third
  <2> HIDE DEF p
  <2>2. Feeds(Upto(w, p, Backslash), Upto(Append(w, x), p, Backslash), x, p[2], Backslash)
    BY <2>1, Characters, Fed
  <2> QED BY <2>1, <2>2
<1> QED BY <1>1, <1>2, <1>3

\* What the last, the last two and all of them hold back when a text is read,
\* and what has come out at the end.
LastOne(u, h3, o) == u \in Seq(Char) /\ o \in Seq(Char) /\ Third(u).held = h3 /\ Third(u).out = o
LastTwo(v, h2, h3, o) == v \in Seq(Char) /\ Second(v).held = h2 /\ LastOne(Second(v).out, h3, o)
All(w, h1, h2, h3, o) == w \in Seq(Char) /\ First(w).held = h1 /\ LastTwo(First(w).out, h2, h3, o)

Then(o, x, y) == Append(Append(o, x), y)

LEMMA OneStep ==
  ASSUME NEW u, NEW o, NEW x \in Char
  PROVE  /\ LastOne(u, FALSE, o) /\ x # Backslash => LastOne(Append(u, x), FALSE, Append(o, x))
         /\ LastOne(u, FALSE, o) /\ x = Backslash => LastOne(Append(u, x), TRUE, o)
         /\ LastOne(u, TRUE, o) /\ x # Backslash => LastOne(Append(u, x), FALSE, Then(o, Backslash, x))
         /\ LastOne(u, TRUE, o) /\ x = Backslash => LastOne(Append(u, x), FALSE, Append(o, Backslash))
<1> SUFFICES ASSUME u \in Seq(Char), o \in Seq(Char)
             PROVE  /\ LastOne(u, FALSE, o) /\ x # Backslash => LastOne(Append(u, x), FALSE, Append(o, x))
                    /\ LastOne(u, FALSE, o) /\ x = Backslash => LastOne(Append(u, x), TRUE, o)
                    /\ LastOne(u, TRUE, o) /\ x # Backslash => LastOne(Append(u, x), FALSE, Then(o, Backslash, x))
                    /\ LastOne(u, TRUE, o) /\ x = Backslash => LastOne(Append(u, x), FALSE, Append(o, Backslash))
  BY DEF LastOne
<1> DEFINE v == Append(u, x)
           d == Third(u)
           e == Third(v)
<1>1. v \in Seq(Char) /\ Append(o, x) \in Seq(Char) /\ Append(o, Backslash) \in Seq(Char)
  BY Characters, AppendProperties
<1>2. Then(o, Backslash, x) \in Seq(Char)
  <2> DEFINE ob == Append(o, Backslash)
  <2>1. ob \in Seq(Char)
    BY <1>1
  <2> HIDE DEF ob
  <2>2. Append(ob, x) \in Seq(Char)
    BY <2>1, AppendProperties
  <2> QED BY <2>2 DEF Then, ob
<1>3. Feeds(d, e, x, Backslash, Backslash)
  BY EachFed
<1>4. \A h : LastOne(u, h, o) <=> d.held = h /\ d.out = o
  BY DEF LastOne
<1>5. \A h, q : q \in Seq(Char) => (LastOne(v, h, q) <=> e.held = h /\ e.out = q)
  BY <1>1 DEF LastOne
<1>6. e.held \in BOOLEAN
  BY <1>1, <1>3, EachFed, Characters DEF Feeds
<1> HIDE DEF d, e, v
<1>7. LastOne(u, FALSE, o) /\ x # Backslash => LastOne(v, FALSE, Append(o, x))
  <2>1. LastOne(u, FALSE, o) /\ x # Backslash => ~ e.held /\ e.out = Append(o, x)
    BY <1>3, <1>4 DEF Feeds
  <2> QED BY <1>1, <1>5, <1>6, <2>1
<1>8. LastOne(u, FALSE, o) /\ x = Backslash => LastOne(v, TRUE, o)
  <2>1. LastOne(u, FALSE, o) /\ x = Backslash => e.held /\ e.out = o
    BY <1>3, <1>4 DEF Feeds
  <2> QED BY <1>1, <1>5, <1>6, <2>1
<1>9. LastOne(u, TRUE, o) /\ x # Backslash => LastOne(v, FALSE, Then(o, Backslash, x))
  <2>1. LastOne(u, TRUE, o) /\ x # Backslash => ~ e.held /\ e.out = Then(o, Backslash, x)
    BY <1>3, <1>4 DEF Feeds, Then
  <2> QED BY <1>2, <1>5, <1>6, <2>1
<1>10. LastOne(u, TRUE, o) /\ x = Backslash => LastOne(v, FALSE, Append(o, Backslash))
  <2>1. LastOne(u, TRUE, o) /\ x = Backslash => ~ e.held /\ e.out = Append(o, Backslash)
    BY <1>3, <1>4 DEF Feeds
  <2> QED BY <1>1, <1>5, <1>6, <2>1
<1> QED BY <1>7, <1>8, <1>9, <1>10 DEF v

LEMMA TwoStep ==
  ASSUME NEW v, NEW o, NEW x \in Char
  PROVE  /\ LastTwo(v, FALSE, FALSE, o) /\ x # Backslash => LastTwo(Append(v, x), FALSE, FALSE, Append(o, x))
         /\ LastTwo(v, FALSE, FALSE, o) /\ x = Backslash => LastTwo(Append(v, x), TRUE, FALSE, o)
         /\ LastTwo(v, TRUE, FALSE, o) /\ x = "n" => LastTwo(Append(v, x), FALSE, FALSE, Append(o, NewLine))
         /\ LastTwo(v, TRUE, FALSE, o) /\ x = Backslash => LastTwo(Append(v, x), TRUE, TRUE, o)
         /\ LastTwo(v, TRUE, FALSE, o) /\ x # "n" /\ x # Backslash =>
              LastTwo(Append(v, x), FALSE, FALSE, Then(o, Backslash, x))
         /\ LastTwo(v, TRUE, TRUE, o) /\ x = "n" =>
              LastTwo(Append(v, x), FALSE, FALSE, Then(o, Backslash, NewLine))
         /\ LastTwo(v, TRUE, TRUE, o) /\ x = Backslash => LastTwo(Append(v, x), TRUE, FALSE, Append(o, Backslash))
         /\ LastTwo(v, TRUE, TRUE, o) /\ x # "n" /\ x # Backslash =>
              LastTwo(Append(v, x), FALSE, FALSE, Then(o, Backslash, x))
<1> DEFINE w == Append(v, x)
           d == Second(v)
           e == Second(w)
           do == d.out
           eo == e.out
<1>1. ASSUME v \in Seq(Char)
      PROVE  /\ w \in Seq(Char) /\ do \in Seq(Char) /\ d.held \in BOOLEAN /\ e.held \in BOOLEAN
             /\ Feeds(d, e, x, "n", NewLine)
  <2>1. w \in Seq(Char)
    BY <1>1, AppendProperties
  <2>2. Feeds(d, e, x, "n", NewLine)
    BY <1>1, EachFed
  <2>3. do \in Seq(Char) /\ d.held \in BOOLEAN
    BY <2>2 DEF Feeds
  <2>4. e.held \in BOOLEAN
    BY <2>1, EachFed, Characters DEF Feeds
  <2> QED BY <2>1, <2>2, <2>3, <2>4
<1>2. ASSUME NEW h2, NEW h3, LastTwo(v, h2, h3, o)
      PROVE  v \in Seq(Char) /\ d.held = h2 /\ LastOne(do, h3, o)
  BY <1>2 DEF LastTwo
<1>3. ASSUME NEW h2, NEW h3, NEW q, v \in Seq(Char), e.held = h2, LastOne(eo, h3, q)
      PROVE  LastTwo(w, h2, h3, q)
  BY <1>1, <1>3 DEF LastTwo
<1>4. ASSUME NEW h3, LastOne(do, h3, o) PROVE o \in Seq(Char)
  BY <1>4 DEF LastOne
<1>5. NewLine \in Char /\ NewLine # Backslash /\ Backslash \in Char /\ "n" # Backslash
  BY Characters
<1> HIDE DEF w, d, e, do, eo
<1>6. ASSUME LastTwo(v, FALSE, FALSE, o), x # Backslash PROVE LastTwo(w, FALSE, FALSE, Append(o, x))
  <2>1. ~ e.held /\ eo = Append(do, x)
    BY <1>1, <1>2, <1>6 DEF Feeds, do, eo
  <2>2. LastOne(eo, FALSE, Append(o, x))
    BY <1>2, <1>6, <2>1, OneStep
  <2> QED BY <1>1, <1>2, <1>3, <1>6, <2>1, <2>2
<1>7. ASSUME LastTwo(v, FALSE, FALSE, o), x = Backslash PROVE LastTwo(w, TRUE, FALSE, o)
  <2>1. e.held /\ eo = do
    BY <1>1, <1>2, <1>7 DEF Feeds, do, eo
  <2> QED BY <1>1, <1>2, <1>3, <1>7, <2>1
<1>8. ASSUME NEW h3 \in BOOLEAN, LastTwo(v, TRUE, h3, o), x = "n"
      PROVE  LastTwo(w, FALSE, FALSE, IF h3 THEN Then(o, Backslash, NewLine) ELSE Append(o, NewLine))
  <2>1. ~ e.held /\ eo = Append(do, NewLine)
    BY <1>1, <1>2, <1>8 DEF Feeds, do, eo
  <2>2. LastOne(eo, FALSE, IF h3 THEN Then(o, Backslash, NewLine) ELSE Append(o, NewLine))
    BY <1>2, <1>5, <1>8, <2>1, OneStep
  <2> QED BY <1>1, <1>2, <1>3, <1>8, <2>1, <2>2
<1>9. ASSUME NEW h3 \in BOOLEAN, LastTwo(v, TRUE, h3, o), x = Backslash
      PROVE  LastTwo(w, TRUE, ~ h3, IF h3 THEN Append(o, Backslash) ELSE o)
  <2>1. e.held /\ eo = Append(do, Backslash)
    BY <1>1, <1>2, <1>5, <1>9 DEF Feeds, do, eo
  <2>2. LastOne(eo, ~ h3, IF h3 THEN Append(o, Backslash) ELSE o)
    BY <1>2, <1>5, <1>9, <2>1, OneStep
  <2> QED BY <1>1, <1>2, <1>3, <1>9, <2>1, <2>2
<1>10. ASSUME NEW h3 \in BOOLEAN, LastTwo(v, TRUE, h3, o), x # "n", x # Backslash
       PROVE  LastTwo(w, FALSE, FALSE, Then(o, Backslash, x))
  <2>1. ~ e.held /\ eo = Append(Append(do, Backslash), x)
    BY <1>1, <1>2, <1>10 DEF Feeds, do, eo
  <2>2. LastOne(Append(do, Backslash), ~ h3, IF h3 THEN Append(o, Backslash) ELSE o)
    BY <1>2, <1>5, <1>10, OneStep
  <2>3. LastOne(eo, FALSE, Then(o, Backslash, x))
    <3>1. CASE h3 = TRUE
      <4>1. LastOne(Append(do, Backslash), FALSE, Append(o, Backslash))
        BY <2>2, <3>1
      <4>2. LastOne(Append(Append(do, Backslash), x), FALSE, Append(Append(o, Backslash), x))
        BY <1>10, <4>1, OneStep
      <4> QED BY <2>1, <4>2 DEF Then
    <3>2. CASE h3 = FALSE
      <4>1. LastOne(Append(do, Backslash), TRUE, o)
        BY <2>2, <3>2
      <4> QED BY <1>10, <2>1, <4>1, OneStep
    <3> QED BY <3>1, <3>2
  <2> QED BY <1>1, <1>2, <1>3, <1>10, <2>1, <2>3
<1> QED BY <1>6, <1>7, <1>8, <1>9, <1>10 DEF w

LEMMA AllStep ==
  ASSUME NEW w, NEW o, NEW x \in Char
  PROVE  /\ All(w, FALSE, FALSE, FALSE, o) /\ x # Backslash => All(Append(w, x), FALSE, FALSE, FALSE, Append(o, x))
         /\ All(w, FALSE, FALSE, FALSE, o) /\ x = Backslash => All(Append(w, x), TRUE, FALSE, FALSE, o)
         /\ All(w, TRUE, FALSE, FALSE, o) /\ x = Backslash => All(Append(w, x), TRUE, TRUE, FALSE, o)
         /\ All(w, TRUE, FALSE, FALSE, o) /\ x = "t" => All(Append(w, x), FALSE, FALSE, FALSE, Append(o, Tab))
         /\ All(w, TRUE, FALSE, FALSE, o) /\ x = "n" => All(Append(w, x), FALSE, FALSE, FALSE, Append(o, NewLine))
         /\ All(w, TRUE, TRUE, FALSE, o) /\ x = Backslash => All(Append(w, x), TRUE, TRUE, TRUE, o)
         /\ All(w, TRUE, TRUE, FALSE, o) /\ x = "t" =>
              All(Append(w, x), FALSE, FALSE, FALSE, Then(o, Backslash, Tab))
         /\ All(w, TRUE, TRUE, FALSE, o) /\ x = "n" =>
              All(Append(w, x), FALSE, FALSE, FALSE, Then(o, Backslash, NewLine))
         /\ All(w, TRUE, TRUE, FALSE, o) /\ x \notin {"t", "n", Backslash} =>
              All(Append(w, x), FALSE, FALSE, FALSE, Then(o, Backslash, x))
         /\ All(w, TRUE, TRUE, TRUE, o) /\ x = Backslash => All(Append(w, x), TRUE, TRUE, FALSE, Append(o, Backslash))
         /\ All(w, TRUE, TRUE, TRUE, o) /\ x = "t" =>
              All(Append(w, x), FALSE, FALSE, FALSE, Then(o, Backslash, Tab))
         /\ All(w, TRUE, TRUE, TRUE, o) /\ x = "n" =>
              All(Append(w, x), FALSE, FALSE, FALSE, Then(o, Backslash, NewLine))
         /\ All(w, TRUE, FALSE, FALSE, o) /\ x \notin {"t", "n", Backslash} =>
              All(Append(w, x), FALSE, FALSE, FALSE, Then(o, Backslash, x))
         /\ All(w, TRUE, TRUE, TRUE, o) /\ x \notin {"t", "n", Backslash} =>
              All(Append(w, x), FALSE, FALSE, FALSE, Then(Append(o, Backslash), Backslash, x))
<1> DEFINE v == Append(w, x)
           d == First(w)
           e == First(v)
           do == d.out
           eo == e.out
<1>1. ASSUME w \in Seq(Char)
      PROVE  /\ v \in Seq(Char) /\ do \in Seq(Char) /\ d.held \in BOOLEAN /\ e.held \in BOOLEAN
             /\ Feeds(d, e, x, "t", Tab)
  <2>1. v \in Seq(Char)
    BY <1>1, AppendProperties
  <2>2. Feeds(d, e, x, "t", Tab)
    BY <1>1, EachFed
  <2>3. do \in Seq(Char) /\ d.held \in BOOLEAN
    BY <2>2 DEF Feeds
  <2>4. e.held \in BOOLEAN
    BY <2>1, EachFed, Characters DEF Feeds
  <2> QED BY <2>1, <2>2, <2>3, <2>4
<1>2. ASSUME NEW h1, NEW h2, NEW h3, All(w, h1, h2, h3, o)
      PROVE  w \in Seq(Char) /\ d.held = h1 /\ LastTwo(do, h2, h3, o)
  BY <1>2 DEF All
<1>3. ASSUME NEW h1, NEW h2, NEW h3, NEW q, w \in Seq(Char), e.held = h1, LastTwo(eo, h2, h3, q)
      PROVE  All(v, h1, h2, h3, q)
  BY <1>1, <1>3 DEF All
<1>4. /\ Tab \in Char /\ Tab # Backslash /\ Tab # "n" /\ Backslash \in Char
      /\ "n" # Backslash /\ "t" # Backslash /\ "n" # "t" /\ "n" \in Char
  BY Characters DEF Tab
<1> HIDE DEF v, d, e, do, eo
<1>5. ASSUME All(w, FALSE, FALSE, FALSE, o), x # Backslash PROVE All(v, FALSE, FALSE, FALSE, Append(o, x))
  <2>1. ~ e.held /\ eo = Append(do, x)
    BY <1>1, <1>2, <1>5 DEF Feeds, do, eo
  <2>2. LastTwo(eo, FALSE, FALSE, Append(o, x))
    BY <1>2, <1>5, <2>1, TwoStep
  <2> QED BY <1>1, <1>2, <1>3, <1>5, <2>1, <2>2
<1>6. ASSUME All(w, FALSE, FALSE, FALSE, o), x = Backslash PROVE All(v, TRUE, FALSE, FALSE, o)
  <2>1. e.held /\ eo = do
    BY <1>1, <1>2, <1>6 DEF Feeds, do, eo
  <2> QED BY <1>1, <1>2, <1>3, <1>6, <2>1
<1>7. ASSUME NEW h2, NEW h3, All(w, TRUE, h2, h3, o), x = "t"
      PROVE  /\ w \in Seq(Char) /\ ~ e.held /\ eo = Append(do, Tab) /\ LastTwo(do, h2, h3, o)
  BY <1>1, <1>2, <1>7 DEF Feeds, do, eo
<1>8. ASSUME NEW h2, NEW h3, All(w, TRUE, h2, h3, o), x = Backslash
      PROVE  /\ w \in Seq(Char) /\ e.held /\ eo = Append(do, Backslash) /\ LastTwo(do, h2, h3, o)
  BY <1>1, <1>2, <1>4, <1>8 DEF Feeds, do, eo
<1>9. ASSUME NEW h2, NEW h3, All(w, TRUE, h2, h3, o), x \notin {"t", Backslash}
      PROVE  /\ w \in Seq(Char) /\ ~ e.held /\ eo = Append(Append(do, Backslash), x) /\ LastTwo(do, h2, h3, o)
  BY <1>1, <1>2, <1>9 DEF Feeds, do, eo
<1>10. ASSUME All(w, TRUE, FALSE, FALSE, o), x = Backslash PROVE All(v, TRUE, TRUE, FALSE, o)
  <2>1. LastTwo(eo, TRUE, FALSE, o)
    BY <1>4, <1>8, <1>10, TwoStep
  <2> QED BY <1>1, <1>3, <1>8, <1>10, <2>1
<1>11. ASSUME All(w, TRUE, FALSE, FALSE, o), x = "t" PROVE All(v, FALSE, FALSE, FALSE, Append(o, Tab))
  <2>1. LastTwo(eo, FALSE, FALSE, Append(o, Tab))
    BY <1>4, <1>7, <1>11, TwoStep
  <2> QED BY <1>1, <1>3, <1>7, <1>11, <2>1
<1>12. ASSUME All(w, TRUE, FALSE, FALSE, o), x = "n" PROVE All(v, FALSE, FALSE, FALSE, Append(o, NewLine))
  <2>1. LastTwo(Append(do, Backslash), TRUE, FALSE, o)
    BY <1>4, <1>9, <1>12, TwoStep
  <2>2. LastTwo(eo, FALSE, FALSE, Append(o, NewLine))
    BY <1>4, <1>9, <1>12, <2>1, TwoStep
  <2> QED BY <1>1, <1>3, <1>4, <1>9, <1>12, <2>2
<1>13. ASSUME NEW h3 \in BOOLEAN, All(w, TRUE, TRUE, h3, o), x = Backslash
       PROVE  All(v, TRUE, TRUE, ~ h3, IF h3 THEN Append(o, Backslash) ELSE o)
  <2>1. LastTwo(eo, TRUE, ~ h3, IF h3 THEN Append(o, Backslash) ELSE o)
    BY <1>4, <1>8, <1>13, TwoStep
  <2> QED BY <1>1, <1>3, <1>8, <1>13, <2>1
<1>14. ASSUME NEW h3 \in BOOLEAN, All(w, TRUE, TRUE, h3, o), x = "t"
       PROVE  All(v, FALSE, FALSE, FALSE, Then(o, Backslash, Tab))
  <2>1. LastTwo(eo, FALSE, FALSE, Then(o, Backslash, Tab))
    BY <1>4, <1>7, <1>14, TwoStep
  <2> QED BY <1>1, <1>3, <1>7, <1>14, <2>1
<1>15. ASSUME NEW h3 \in BOOLEAN, All(w, TRUE, TRUE, h3, o), x = "n"
       PROVE  All(v, FALSE, FALSE, FALSE, Then(o, Backslash, NewLine))
  <2>1. LastTwo(Append(do, Backslash), TRUE, ~ h3, IF h3 THEN Append(o, Backslash) ELSE o)
    BY <1>4, <1>9, <1>15, TwoStep
  <2>2. LastTwo(eo, FALSE, FALSE, Then(o, Backslash, NewLine))
    <3>1. CASE h3 = TRUE
      <4>1. LastTwo(Append(do, Backslash), TRUE, FALSE, Append(o, Backslash))
        BY <2>1, <3>1
      <4>2. LastTwo(Append(Append(do, Backslash), x), FALSE, FALSE, Append(Append(o, Backslash), NewLine))
        BY <1>15, <4>1, TwoStep
      <4> QED BY <1>4, <1>9, <1>15, <4>2 DEF Then
    <3>2. CASE h3 = FALSE
      <4>1. LastTwo(Append(do, Backslash), TRUE, TRUE, o)
        BY <2>1, <3>2
      <4> QED BY <1>4, <1>9, <1>15, <4>1, TwoStep
    <3> QED BY <3>1, <3>2
  <2> QED BY <1>1, <1>3, <1>4, <1>9, <1>15, <2>2
<1>16. ASSUME All(w, TRUE, TRUE, FALSE, o), x \notin {"t", "n", Backslash}
       PROVE  All(v, FALSE, FALSE, FALSE, Then(o, Backslash, x))
  <2>1. LastTwo(Append(do, Backslash), TRUE, TRUE, o)
    BY <1>4, <1>9, <1>16, TwoStep
  <2>2. LastTwo(eo, FALSE, FALSE, Then(o, Backslash, x))
    BY <1>9, <1>16, <2>1, TwoStep
  <2> QED BY <1>1, <1>3, <1>9, <1>16, <2>2
<1>17. ASSUME All(w, TRUE, FALSE, FALSE, o), x \notin {"t", "n", Backslash}
       PROVE  All(v, FALSE, FALSE, FALSE, Then(o, Backslash, x))
  <2>1. LastTwo(Append(do, Backslash), TRUE, FALSE, o)
    BY <1>4, <1>9, <1>17, TwoStep
  <2>2. LastTwo(eo, FALSE, FALSE, Then(o, Backslash, x))
    BY <1>9, <1>17, <2>1, TwoStep
  <2> QED BY <1>1, <1>3, <1>9, <1>17, <2>2
<1>18. ASSUME All(w, TRUE, TRUE, TRUE, o), x \notin {"t", "n", Backslash}
       PROVE  All(v, FALSE, FALSE, FALSE, Then(Append(o, Backslash), Backslash, x))
  <2>1. LastTwo(Append(do, Backslash), TRUE, FALSE, Append(o, Backslash))
    BY <1>4, <1>9, <1>18, TwoStep
  <2>2. LastTwo(eo, FALSE, FALSE, Then(Append(o, Backslash), Backslash, x))
    BY <1>9, <1>18, <2>1, TwoStep
  <2> QED BY <1>1, <1>3, <1>9, <1>18, <2>2
<1> QED BY <1>5, <1>6, <1>10, <1>11, <1>12, <1>13, <1>14, <1>15, <1>16, <1>17, <1>18 DEF v

-----------------------------------------------------------------------------
(* What comes back of a text that is escaped and unescaped. *)

EndsInBackslash(t) == t # <<>> /\ t[Len(t)] = Backslash

\* What a character is taken for whose escape is undone; b says whether a
\* backslash is in front of it.
Heard(b, c) == IF b /\ c = "t" THEN Tab ELSE IF b /\ c = "n" THEN NewLine ELSE c

\* A backslash at the end of the text is still held back by the first two.
LEMMA TextStep ==
  ASSUME NEW t \in Seq(Char), NEW c \in Char, NEW b \in BOOLEAN, NEW o, All(Escape(t), b, b, FALSE, o)
  PROVE  /\ c = Backslash =>
              All(Escape(Append(t, c)), TRUE, TRUE, FALSE, IF b THEN Append(o, Backslash) ELSE o)
         /\ c # Backslash /\ c \notin LeftEscaped =>
              All(Escape(Append(t, c)), FALSE, FALSE, FALSE,
                  IF b THEN Then(o, Backslash, Heard(b, c)) ELSE Append(o, Heard(b, c)))
         /\ c \in LeftEscaped =>
              All(Escape(Append(t, c)), FALSE, FALSE, FALSE,
                  IF b THEN Then(Append(o, Backslash), Backslash, Marks[c]) ELSE Then(o, Backslash, Marks[c]))
<1> DEFINE e == Escape(t)
           f == Escape(Append(t, c))
           eb == Append(e, Backslash)
<1>1. e \in Seq(Char) /\ f = e \o Escaped(c)
  BY EscapeAppend
<1> HIDE DEF e, f
<1>2. All(e, b, b, FALSE, o)
  BY DEF e
<1>3. ASSUME NEW x PROVE e \o <<Backslash, x>> = Append(eb, x)
  <2> DEFINE one == <<Backslash>>
  <2>1. e \o <<Backslash>> = Append(e, Backslash)
    BY <1>1, Characters, AppendIsConcat
  <2> QED BY <1>1
<1>4. Backslash \in Char /\ "t" \in Char /\ "n" \in Char
  BY Characters
<1>5. All(eb, TRUE, b, b, o)
  <2>1. CASE b = TRUE
    <3>1. All(e, TRUE, TRUE, FALSE, o)
      BY <1>2, <2>1
    <3> QED BY <1>4, <2>1, <3>1, AllStep
  <2>2. CASE b = FALSE
    <3>1. All(e, FALSE, FALSE, FALSE, o)
      BY <1>2, <2>2
    <3> QED BY <1>4, <2>2, <3>1, AllStep
  <2> QED BY <2>1, <2>2
<1> HIDE DEF eb
<1>0. Backslash \notin LeftEscaped
  BY DEF LeftEscaped
<1>6. CASE c = Backslash
  <2>1. f = Append(eb, Backslash)
    <3>1. Escaped(c) = <<Backslash, Backslash>>
      BY <1>6, MarksAre DEF Escaped, Codes
    <3> QED BY <1>1, <1>3, <3>1
  <2>2. All(f, TRUE, TRUE, FALSE, IF b THEN Append(o, Backslash) ELSE o)
    <3>1. CASE b = TRUE
      <4>1. All(eb, TRUE, TRUE, TRUE, o)
        BY <1>5, <3>1
      <4>2. All(Append(eb, Backslash), TRUE, TRUE, FALSE, Append(o, Backslash))
        BY <1>4, <4>1, AllStep
      <4> QED BY <2>1, <3>1, <4>2
    <3>2. CASE b = FALSE
      <4>1. All(eb, TRUE, FALSE, FALSE, o)
        BY <1>5, <3>2
      <4>2. All(Append(eb, Backslash), TRUE, TRUE, FALSE, o)
        BY <1>4, <4>1, AllStep
      <4> QED BY <2>1, <3>2, <4>2
    <3> QED BY <3>1, <3>2
  <2> QED BY <1>0, <1>6, <2>2 DEF f
<1>7. ASSUME NEW x, NEW y,
             \/ c = Tab /\ x = "t" /\ y = Tab
             \/ c = NewLine /\ x = "n" /\ y = NewLine
      PROVE  All(f, FALSE, FALSE, FALSE, IF b THEN Then(o, Backslash, Heard(b, c)) ELSE Append(o, Heard(b, c)))
  <2>1. f = Append(eb, x)
    <3>1. Escaped(c) = <<Backslash, x>>
      BY <1>7, MarksAre DEF Escaped, Codes
    <3> QED BY <1>1, <1>3, <3>1
  <2>2. Heard(b, c) = y
    BY <1>7 DEF Heard, Tab, NewLine
  <2>3. x \in Char /\ x # Backslash
    BY <1>7, Characters
  <2>4. CASE b = TRUE
    <3>1. All(eb, TRUE, TRUE, TRUE, o)
      BY <1>5, <2>4
    <3>2. All(Append(eb, x), FALSE, FALSE, FALSE, Then(o, Backslash, y))
      BY <1>7, <2>3, <3>1, AllStep
    <3> QED BY <2>1, <2>2, <2>4, <3>2
  <2>5. CASE b = FALSE
    <3>1. All(eb, TRUE, FALSE, FALSE, o)
      BY <1>5, <2>5
    <3>2. All(Append(eb, x), FALSE, FALSE, FALSE, Append(o, y))
      BY <1>7, <2>3, <3>1, AllStep
    <3> QED BY <2>1, <2>2, <2>5, <3>2
  <2> QED BY <2>4, <2>5
<1>8. ASSUME c \notin Codes
      PROVE  All(f, FALSE, FALSE, FALSE, IF b THEN Then(o, Backslash, Heard(b, c)) ELSE Append(o, Heard(b, c)))
  <2>1. f = Append(e, c)
    <3>1. Escaped(c) = <<c>>
      BY <1>8, EscapedIs
    <3>2. e \o <<c>> = Append(e, c)
      BY <1>1, AppendIsConcat
    <3> QED BY <1>1, <3>1, <3>2
  <2>2. CASE b = TRUE
    <3>1. All(e, TRUE, TRUE, FALSE, o)
      BY <1>2, <2>2
    <3>2. All(Append(e, c), FALSE, FALSE, FALSE, Then(o, Backslash, Heard(TRUE, c)))
      <4>1. CASE c = "t"
        BY <3>1, <4>1, AllStep DEF Heard
      <4>2. CASE c = "n"
        <5>1. Heard(TRUE, c) = NewLine
          BY <4>2 DEF Heard
        <5>2. All(Append(e, c), FALSE, FALSE, FALSE, Then(o, Backslash, NewLine))
          BY <3>1, <4>2, AllStep
        <5> QED BY <5>1, <5>2
      <4>3. CASE c # "t" /\ c # "n"
        <5>1. Heard(TRUE, c) = c /\ c \notin {"t", "n", Backslash}
          BY <1>8, <4>3 DEF Heard, Codes
        <5> QED BY <3>1, <5>1, AllStep
      <4> QED BY <4>1, <4>2, <4>3
    <3> QED BY <2>1, <2>2, <3>2
  <2>3. CASE b = FALSE
    <3>1. All(e, FALSE, FALSE, FALSE, o) /\ Heard(FALSE, c) = c
      BY <1>2, <2>3 DEF Heard
    <3>2. All(Append(e, c), FALSE, FALSE, FALSE, Append(o, c))
      BY <1>8, <3>1, AllStep DEF Codes
    <3> QED BY <2>1, <2>3, <3>1, <3>2
  <2> QED BY <2>2, <2>3
<1>9. ASSUME c \in LeftEscaped
      PROVE  All(f, FALSE, FALSE, FALSE,
                 IF b THEN Then(Append(o, Backslash), Backslash, Marks[c]) ELSE Then(o, Backslash, Marks[c]))
  <2> DEFINE x == Marks[c]
  <2>1. x \in Char /\ x \notin {"t", "n", Backslash}
    BY <1>9, MarksAre
  <2>2. Escaped(c) = <<Backslash, x>>
    BY <1>9, MarksAre DEF Escaped, LeftEscaped
  <2> HIDE DEF x
  <2>3. f = Append(eb, x)
    BY <1>1, <1>3, <2>2
  <2>4. CASE b = TRUE
    <3>1. All(eb, TRUE, TRUE, TRUE, o)
      BY <1>5, <2>4
    <3>2. All(Append(eb, x), FALSE, FALSE, FALSE, Then(Append(o, Backslash), Backslash, x))
      BY <2>1, <3>1, AllStep
    <3> QED BY <2>3, <2>4, <3>2 DEF x
  <2>5. CASE b = FALSE
    <3>1. All(eb, TRUE, FALSE, FALSE, o)
      BY <1>5, <2>5
    <3>2. All(Append(eb, x), FALSE, FALSE, FALSE, Then(o, Backslash, x))
      BY <2>1, <3>1, AllStep
    <3> QED BY <2>3, <2>5, <3>2 DEF x
  <2> QED BY <2>4, <2>5
<1>10. c \in Codes => c = Tab \/ c = NewLine \/ c = Backslash \/ c \in LeftEscaped
  BY MarksAre DEF LeftEscaped
<1> QED BY <1>0, <1>6, <1>7, <1>8, <1>9, <1>10 DEF f

\* In the end what is held back comes out as well.
LEMMA UnescapeIs ==
  ASSUME NEW w, NEW b \in BOOLEAN, NEW o, All(w, b, b, FALSE, o)
  PROVE  Unescape(w) = IF b THEN Append(o, Backslash) ELSE o
<1> DEFINE p1 == <<Backslash, "t">>
           p2 == <<Backslash, "n">>
           p3 == <<Backslash, Backslash>>
           v == Replace(w, p1, Tab)
           u == Replace(v, p2, NewLine)
<1>1. Unescape(w) = Replace(u, p3, Backslash)
  BY DEF Unescape
<1>2. \A x : /\ Replace(x, p1, Tab) = IF First(x).held THEN Append(First(x).out, Backslash) ELSE First(x).out
             /\ Replace(x, p2, NewLine) = IF Second(x).held THEN Append(Second(x).out, Backslash) ELSE Second(x).out
             /\ Replace(x, p3, Backslash) = IF Third(x).held THEN Append(Third(x).out, Backslash) ELSE Third(x).out
  BY DEF Replace, Out, Upto, First, Second, Third
<1> HIDE DEF p1, p2, p3, u, v
<1>3. Backslash \in Char
  BY Characters
<1>4. CASE b = FALSE
  <2>1. First(w).held = FALSE /\ LastTwo(First(w).out, FALSE, FALSE, o)
    BY <1>4 DEF All
  <2>2. v = First(w).out
    BY <1>2, <2>1 DEF v
  <2>3. Second(v).held = FALSE /\ LastOne(Second(v).out, FALSE, o)
    BY <2>1, <2>2 DEF LastTwo
  <2>4. u = Second(v).out
    BY <1>2, <2>3 DEF u
  <2>5. Third(u).held = FALSE /\ Third(u).out = o
    BY <2>3, <2>4 DEF LastOne
  <2> QED BY <1>1, <1>2, <1>4, <2>5
<1>5. CASE b = TRUE
  <2>1. First(w).held = TRUE /\ LastTwo(First(w).out, TRUE, FALSE, o)
    BY <1>5 DEF All
  <2>2. v = Append(First(w).out, Backslash)
    BY <1>2, <2>1 DEF v
  <2>3. LastTwo(v, TRUE, TRUE, o)
    BY <1>3, <2>1, <2>2, TwoStep
  <2>4. Second(v).held = TRUE /\ LastOne(Second(v).out, TRUE, o)
    BY <2>3 DEF LastTwo
  <2>5. u = Append(Second(v).out, Backslash)
    BY <1>2, <2>4 DEF u
  <2>6. LastOne(u, FALSE, Append(o, Backslash))
    BY <1>3, <2>4, <2>5, OneStep
  <2>7. Third(u).held = FALSE /\ Third(u).out = Append(o, Backslash)
    BY <2>6 DEF LastOne
  <2> QED BY <1>1, <1>2, <1>5, <2>7
<1> QED BY <1>4, <1>5

\* The text as the server writes it and the code reads it.
Told(t) == Unescape(Escape(t))

ReadsUpTo(t) == \E o : All(Escape(t), EndsInBackslash(t), EndsInBackslash(t), FALSE, o)

LEMMA TextsAreRead ==
  ASSUME NEW t \in Seq(Char)
  PROVE  ReadsUpTo(t) /\ Told(<<>>) = <<>>
<1> DEFINE T == {s \in Seq(Char) : ReadsUpTo(s)}
           none == <<>>
<1>1. All(none, FALSE, FALSE, FALSE, none)
  <2>1. \A p, c : p[1] \in Char /\ c \in Char => Upto(none, p, c) = [out |-> none, held |-> FALSE]
    BY UptoEmpty
  <2>2. First(none) = [out |-> none, held |-> FALSE]
    <3> DEFINE p == <<Backslash, "t">>
    <3>1. p[1] \in Char
      BY Characters
    <3> HIDE DEF p
    <3> QED BY <2>1, <3>1, Characters DEF First, p
  <2>3. Second(none) = [out |-> none, held |-> FALSE]
    <3> DEFINE p == <<Backslash, "n">>
    <3>1. p[1] \in Char
      BY Characters
    <3> HIDE DEF p
    <3> QED BY <2>1, <3>1, Characters DEF Second, p
  <2>4. Third(none) = [out |-> none, held |-> FALSE]
    <3> DEFINE p == <<Backslash, Backslash>>
    <3>1. p[1] \in Char
      BY Characters
    <3> HIDE DEF p
    <3> QED BY <2>1, <3>1, Characters DEF Third, p
  <2>5. none \in Seq(Char)
    OBVIOUS
  <2> HIDE DEF none
  <2> QED BY <2>2, <2>3, <2>4, <2>5 DEF All, LastTwo, LastOne
<1>2. Told(none) = none
  BY <1>1, EscapeEmpty, UnescapeIs DEF Told
<1>3. none \in T
  <2>1. EndsInBackslash(none) = FALSE /\ Escape(none) = none /\ none \in Seq(Char)
    BY EscapeEmpty DEF EndsInBackslash
  <2> QED BY <1>1, <2>1 DEF ReadsUpTo
<1>4. ASSUME NEW s \in Seq(Char), NEW c \in Char, s \in T PROVE Append(s, c) \in T
  <2> DEFINE b == EndsInBackslash(s)
             u == Append(s, c)
  <2>1. PICK o : All(Escape(s), b, b, FALSE, o)
    BY <1>4 DEF ReadsUpTo
  <2>2. b \in BOOLEAN
    BY DEF EndsInBackslash
  <2>3. u \in Seq(Char) /\ u # <<>> /\ u[Len(u)] = c
    OBVIOUS
  <2>4. EndsInBackslash(u) = (c = Backslash)
    BY <2>3 DEF EndsInBackslash
  <2> HIDE DEF b
  <2>5. /\ c = Backslash => All(Escape(u), TRUE, TRUE, FALSE, IF b THEN Append(o, Backslash) ELSE o)
        /\ c # Backslash => \E q : All(Escape(u), FALSE, FALSE, FALSE, q)
    <3>1. CASE c \in LeftEscaped
      <4>1. c # Backslash
        BY <3>1 DEF LeftEscaped
      <4>2. All(Escape(u), FALSE, FALSE, FALSE,
                IF b THEN Then(Append(o, Backslash), Backslash, Marks[c]) ELSE Then(o, Backslash, Marks[c]))
        BY <2>1, <2>2, <3>1, TextStep
      <4> HIDE DEF u
      <4> QED BY <4>1, <4>2
    <3>2. CASE c \notin LeftEscaped
      <4>1. c = Backslash => All(Escape(u), TRUE, TRUE, FALSE, IF b THEN Append(o, Backslash) ELSE o)
        BY <2>1, <2>2, TextStep
      <4>2. c # Backslash =>
              All(Escape(u), FALSE, FALSE, FALSE, IF b THEN Then(o, Backslash, Heard(b, c)) ELSE Append(o, Heard(b, c)))
        BY <2>1, <2>2, <3>2, TextStep
      <4> HIDE DEF u
      <4> QED BY <4>1, <4>2
    <3> QED BY <3>1, <3>2
  <2> HIDE DEF u
  <2>6. ReadsUpTo(u)
    <3>1. CASE c = Backslash
      BY <2>4, <2>5, <3>1 DEF ReadsUpTo
    <3>2. CASE c # Backslash
      BY <2>4, <2>5, <3>2 DEF ReadsUpTo
    <3> QED BY <3>1, <3>2
  <2> QED BY <2>3, <2>6 DEF u
<1>5. \A s \in Seq(Char), c \in Char : s \in T => Append(s, c) \in T
  BY <1>4
<1>6. Seq(Char) \subseteq T
  <2> HIDE DEF T
  <2> QED BY <1>3, <1>5, SeqInduction
<1> QED BY <1>2, <1>6

LEMMA ToldAppend ==
  ASSUME NEW t \in Seq(Char), NEW c \in Char
  PROVE  /\ c \notin LeftEscaped => Told(Append(t, c)) = Append(Told(t), Heard(EndsInBackslash(t), c))
         /\ c \in LeftEscaped => Told(Append(t, c)) = Then(Told(t), Backslash, Marks[c])
         /\ Told(t) \in Seq(Char)
<1> DEFINE b == EndsInBackslash(t)
           u == Append(t, c)
<1>1. PICK o : All(Escape(t), b, b, FALSE, o)
  BY TextsAreRead DEF ReadsUpTo
<1>2. b \in BOOLEAN
  BY DEF EndsInBackslash
<1> HIDE DEF b
<1>3. Told(t) = IF b THEN Append(o, Backslash) ELSE o
  BY <1>1, <1>2, UnescapeIs DEF Told
<1>4. /\ c = Backslash => All(Escape(u), TRUE, TRUE, FALSE, IF b THEN Append(o, Backslash) ELSE o)
      /\ c # Backslash /\ c \notin LeftEscaped =>
           All(Escape(u), FALSE, FALSE, FALSE, IF b THEN Then(o, Backslash, Heard(b, c)) ELSE Append(o, Heard(b, c)))
      /\ c \in LeftEscaped =>
           All(Escape(u), FALSE, FALSE, FALSE,
               IF b THEN Then(Append(o, Backslash), Backslash, Marks[c]) ELSE Then(o, Backslash, Marks[c]))
  BY <1>1, <1>2, TextStep
<1> HIDE DEF u
<1>5. ASSUME c \notin LeftEscaped PROVE Told(u) = Append(Told(t), Heard(b, c))
  <2>1. CASE c = Backslash
    <3>1. Told(u) = Append(Told(t), Backslash)
      BY <1>3, <1>4, <2>1, UnescapeIs DEF Told
    <3>2. Heard(b, c) = Backslash
      BY <2>1, Characters DEF Heard
    <3> QED BY <3>1, <3>2
  <2>2. CASE c # Backslash
    BY <1>3, <1>4, <1>5, <2>2, UnescapeIs DEF Told, Then
  <2> QED BY <2>1, <2>2
<1>6. ASSUME c \in LeftEscaped PROVE Told(u) = Then(Told(t), Backslash, Marks[c])
  <2>1. Told(u) = IF b THEN Then(Append(o, Backslash), Backslash, Marks[c]) ELSE Then(o, Backslash, Marks[c])
    BY <1>4, <1>6, UnescapeIs DEF Told
  <2> QED BY <1>2, <1>3, <2>1
<1>7. o \in Seq(Char)
  BY <1>1 DEF All, LastTwo, LastOne
<1>8. Append(o, Backslash) \in Seq(Char)
  BY <1>7, Characters, AppendProperties
<1> QED BY <1>3, <1>5, <1>6, <1>7, <1>8 DEF b, u

\* A backslash in the text is taken for the start of an escape, or an escape is
\* left as it was sent.
Mistaken(t) == \E i \in 1..(Len(t) - 1) : t[i] = Backslash /\ t[i + 1] \in {"t", "n"}
Unheard(t)  == \E i \in 1..Len(t) : t[i] \in LeftEscaped
Misheard(t) == Mistaken(t) \/ Unheard(t)

\* All other texts come back as they were, and the misheard ones do not.
LEMMA ToldUnlessMisheard ==
  ASSUME NEW t \in Seq(Char)
  PROVE  Told(t) = t <=> ~ Misheard(t)
<1> DEFINE T == {s \in Seq(Char) : Len(Told(s)) >= Len(s) /\ (Told(s) = s <=> ~ Misheard(s))}
<1>1. <<>> \in T
  <2>1. Told(<<>>) = <<>> /\ <<>> \in Seq(Char)
    BY TextsAreRead
  <2>2. ~ Misheard(<<>>) /\ Len(<<>>) >= Len(<<>>)
    BY DEF Misheard, Mistaken, Unheard
  <2> QED BY <2>1, <2>2
<1>2. ASSUME NEW s \in Seq(Char), NEW c \in Char, s \in T PROVE Append(s, c) \in T
  <2> DEFINE u == Append(s, c)
             b == EndsInBackslash(s)
             n == Len(s)
             h == Heard(b, c)
  <2>1. /\ u \in Seq(Char) /\ Len(u) = n + 1 /\ n \in Nat /\ u[n + 1] = c
        /\ \A i \in 1..n : u[i] = s[i]
    BY AppendProperties
  <2>2. /\ c \notin LeftEscaped => Told(u) = Append(Told(s), h)
        /\ c \in LeftEscaped => Told(u) = Then(Told(s), Backslash, Marks[c])
        /\ Told(s) \in Seq(Char)
    BY ToldAppend
  <2> HIDE DEF u
  <2>3. h = c <=> ~ (b /\ c \in {"t", "n"})
    BY DEF Heard, Tab, NewLine
  <2>4. Mistaken(u) <=> Mistaken(s) \/ (b /\ c \in {"t", "n"})
    <3>1. ASSUME Mistaken(s) PROVE Mistaken(u)
      <4>1. PICK i \in 1..(n - 1) : s[i] = Backslash /\ s[i + 1] \in {"t", "n"}
        BY <3>1 DEF Mistaken
      <4>2. i \in 1..(Len(u) - 1) /\ i \in 1..n /\ i + 1 \in 1..n
        BY <2>1
      <4> QED BY <2>1, <4>1, <4>2 DEF Mistaken
    <3>2. ASSUME b, c \in {"t", "n"} PROVE Mistaken(u)
      <4>1. n >= 1 /\ s[n] = Backslash
        BY <2>1, <3>2 DEF EndsInBackslash
      <4>2. n \in 1..(Len(u) - 1) /\ n \in 1..n /\ n + 1 = Len(u)
        BY <2>1, <4>1
      <4> QED BY <2>1, <3>2, <4>1, <4>2 DEF Mistaken
    <3>3. ASSUME Mistaken(u), ~ Mistaken(s) PROVE b /\ c \in {"t", "n"}
      <4>1. PICK i \in 1..(Len(u) - 1) : u[i] = Backslash /\ u[i + 1] \in {"t", "n"}
        BY <3>3 DEF Mistaken
      <4>2. i \in 1..n
        BY <2>1
      <4>3. i = n
        <5> SUFFICES ASSUME i # n PROVE FALSE
          OBVIOUS
        <5>1. i \in 1..(n - 1) /\ i + 1 \in 1..n
          BY <2>1, <4>2
        <5> QED BY <2>1, <3>3, <4>1, <4>2, <5>1 DEF Mistaken
      <4> QED BY <2>1, <4>1, <4>2, <4>3 DEF EndsInBackslash
    <3> QED BY <3>1, <3>2, <3>3
  <2>5. Unheard(u) <=> Unheard(s) \/ c \in LeftEscaped
    <3>1. ASSUME NEW i \in 1..Len(u) PROVE i = n + 1 \/ i \in 1..n
      BY <2>1
    <3>2. (n + 1) \in 1..Len(u) /\ \A i \in 1..n : i \in 1..Len(u)
      BY <2>1
    <3> HIDE DEF n
    <3> QED BY <2>1, <3>1, <3>2 DEF Unheard, n
  <2>6. Misheard(u) <=> Misheard(s) \/ (b /\ c \in {"t", "n"}) \/ c \in LeftEscaped
    BY <2>4, <2>5 DEF Misheard
  <2>7. Len(Told(s)) >= n /\ (Told(s) = s <=> ~ Misheard(s))
    BY <1>2
  <2>8. CASE c \in LeftEscaped
    <3> DEFINE q == Told(s)
               v == Then(q, Backslash, Marks[c])
    <3>1. Len(v) = Len(q) + 2 /\ Len(q) \in Nat
      <4>1. q \in Seq(Char) /\ Append(q, Backslash) \in Seq(Char) /\ Len(Append(q, Backslash)) = Len(q) + 1
        BY <2>2, Characters, AppendProperties
      <4> HIDE DEF q
      <4>2. Marks[c] \in Char
        BY <2>8, MarksAre
      <4>3. Len(Append(Append(q, Backslash), Marks[c])) = Len(Append(q, Backslash)) + 1
        BY <4>1, <4>2, AppendProperties
      <4> QED BY <4>1, <4>3 DEF Then
    <3>2. Told(u) = v
      BY <2>2, <2>8
    <3> HIDE DEF q, v
    <3>3. Len(Told(u)) > Len(u)
      BY <2>1, <2>7, <3>1, <3>2 DEF q
    <3>4. Len(Told(u)) >= Len(u) /\ Told(u) # u
      <4>1. Len(u) \in Nat
        BY <2>1
      <4>2. Len(Told(u)) \in Nat
        BY <3>1, <3>2
      <4> QED BY <3>3, <4>1, <4>2
    <3> QED BY <2>1, <2>6, <2>8, <3>4 DEF u
  <2>9. CASE c \notin LeftEscaped
    <3>0. Told(u) = Append(Told(s), h)
      BY <2>2, <2>9
    <3>1. Told(u) = u <=> Told(s) = s /\ h = c
      <4> DEFINE q == Told(s)
      <4>1. /\ Append(q, h)[Len(q) + 1] = h /\ Len(Append(q, h)) = Len(q) + 1 /\ Len(q) \in Nat
            /\ \A i \in 1..Len(q) : Append(q, h)[i] = q[i]
        BY <2>2
      <4> HIDE DEF q, h
      <4>2. ASSUME Append(q, h) = u PROVE q = s /\ h = c
        <5>1. Len(q) = n /\ h = c
          BY <2>1, <4>1, <4>2
        <5>2. \A i \in 1..n : q[i] = s[i]
          BY <2>1, <4>1, <4>2, <5>1
        <5>3. q = s
          BY <2>1, <2>2, <5>1, <5>2, SeqEqual DEF q
        <5> QED BY <5>1, <5>3
      <4>3. ASSUME q = s, h = c PROVE Append(q, h) = u
        BY <4>3 DEF u
      <4> QED BY <3>0, <4>2, <4>3 DEF q
    <3>2. Len(Told(u)) >= Len(u)
      <4>1. Len(Append(Told(s), h)) = Len(Told(s)) + 1
        BY <2>2
      <4> HIDE DEF h
      <4> QED BY <2>1, <2>7, <3>0, <4>1
    <3>3. Told(u) = u <=> ~ Misheard(u)
      <4> HIDE DEF h, b
      <4> QED BY <2>3, <2>6, <2>7, <2>9, <3>1
    <3> QED BY <2>1, <3>2, <3>3 DEF u
  <2> QED BY <2>8, <2>9
<1>3. \A s \in Seq(Char), c \in Char : s \in T => Append(s, c) \in T
  BY <1>2
<1>4. Seq(Char) \subseteq T
  <2> HIDE DEF T
  <2> QED BY <1>1, <1>3, SeqInduction
<1> QED BY <1>4

-----------------------------------------------------------------------------
(* The ends of texts. *)

NoSpaceEnds(t) == t # <<>> /\ t[1] # Space /\ t[Len(t)] # Space

\* What is replaced has the ends it had, or those that are put in.
LEMMA ReplaceEnds ==
  ASSUME NEW t \in Seq(Char), NEW p, p[1] \in Char, NEW c \in Char, c # Space, NoSpaceEnds(t)
  PROVE  Replace(t, p, c) \in Seq(Char) /\ NoSpaceEnds(Replace(t, p, c))
<1> DEFINE R(s) == Replace(s, p, c)
           Ends(s) == /\ R(s) # <<>>
                      /\ R(s)[1] = s[1] \/ R(s)[1] = c
                      /\ R(s)[Len(R(s))] = s[Len(s)] \/ R(s)[Len(R(s))] = c
           T == {s \in Seq(Char) : s # <<>> => Ends(s)}
<1>1. \A s : R(s) = Out(Upto(s, p, c), p)
  BY DEF Replace, Upto
<1>2. R(<<>>) = <<>>
  <2>1. Upto(<<>>, p, c) = [out |-> <<>>, held |-> FALSE]
    BY UptoEmpty
  <2> QED BY <1>1, <2>1 DEF Out
<1>3. \A s \in Seq(Char) : R(s) \in Seq(Char)
  <2> SUFFICES ASSUME NEW s \in Seq(Char) PROVE R(s) \in Seq(Char)
    OBVIOUS
  <2>1. Upto(s, p, c) \in ReplaceState(Char)
    BY UptoAppend
  <2>2. Out(Upto(s, p, c), p) \in Seq(Char)
    BY <2>1, ReplaceNextType
  <2> QED BY <1>1, <2>2
<1>4. <<>> \in T
  OBVIOUS
<1>5. ASSUME NEW s \in Seq(Char), NEW x \in Char, s \in T PROVE Append(s, x) \in T
  <2> DEFINE u == Append(s, x)
             d == Upto(s, p, c)
             q == d.out
             r == R(s)
             z == R(u)
  <2>1. /\ u \in Seq(Char) /\ u # <<>> /\ u[Len(u)] = x
        /\ s = <<>> => u[1] = x
        /\ s # <<>> => u[1] = s[1]
    OBVIOUS
  <2>2. d \in ReplaceState(Char) /\ Upto(u, p, c) = replace_next(d, x, p, c)
    BY UptoAppend
  <2>3. q \in Seq(Char) /\ r \in Seq(Char) /\ r = IF d.held THEN Append(q, p[1]) ELSE q
    BY <1>1, <1>3, <2>2 DEF ReplaceState, Out
  <2>4. s = <<>> => r = <<>>
    BY <1>2
  <2>5. s # <<>> => Ends(s)
    BY <1>5
  <2>6. CASE d.held /\ x = p[2]
    <3>1. Upto(u, p, c) = [out |-> Append(q, c), held |-> FALSE]
      BY <2>2, <2>6 DEF replace_next
    <3>2. z = Append(q, c)
      BY <1>1, <3>1 DEF Out
    <3>3. r = Append(q, p[1])
      BY <2>3, <2>6
    <3> HIDE DEF u, d, q, r, z
    <3>4. r # <<>> /\ (q # <<>> => r[1] = q[1])
      BY SMTT(30), <2>3, <3>3
    <3>5. s # <<>>
      BY <2>4, <3>4
    <3>6. z # <<>> /\ z[Len(z)] = c /\ (q = <<>> => z[1] = c) /\ (q # <<>> => z[1] = q[1])
      BY SMTT(30), <2>3, <3>2
    <3>7. r[1] = s[1] \/ r[1] = c
      BY <2>5, <3>5 DEF r
    <3>8. z[1] = u[1] \/ z[1] = c
      BY <2>1, <3>4, <3>5, <3>6, <3>7
    <3>9. Ends(u)
      BY <3>6, <3>8 DEF z
    <3> QED BY <2>1, <3>9 DEF u
  <2>7. CASE ~ (d.held /\ x = p[2])
    <3>1. z = Append(r, x)
      <4>1. CASE x = p[1]
        <5>1. Upto(u, p, c) = [out |-> r, held |-> TRUE]
          BY <1>1, <2>2, <2>7, <4>1 DEF replace_next
        <5> QED BY <1>1, <4>1, <5>1 DEF Out
      <4>2. CASE x # p[1]
        <5>1. Upto(u, p, c) = [out |-> Append(r, x), held |-> FALSE]
          BY <1>1, <2>2, <2>7, <4>2 DEF replace_next
        <5> QED BY <1>1, <4>2, <5>1 DEF Out
      <4> QED BY <4>1, <4>2
    <3> HIDE DEF u, d, q, r, z
    <3>2. z # <<>> /\ z[Len(z)] = x /\ (r = <<>> => z[1] = x) /\ (r # <<>> => z[1] = r[1])
      BY SMTT(30), <2>3, <3>1
    <3>3. s # <<>> => r # <<>> /\ (r[1] = s[1] \/ r[1] = c)
      BY <2>5 DEF r
    <3>4. z[1] = u[1] \/ z[1] = c
      BY <2>1, <2>4, <3>2, <3>3
    <3>5. Ends(u)
      BY <2>1, <3>2, <3>4 DEF z
    <3> QED BY <2>1, <3>5 DEF u
  <2> QED BY <2>6, <2>7
<1>6. \A s \in Seq(Char), x \in Char : s \in T => Append(s, x) \in T
  BY <1>5
<1>7. Seq(Char) \subseteq T
  <2> HIDE DEF T
  <2> QED BY <1>4, <1>6, SeqInduction
<1>8. Ends(t)
  BY <1>7 DEF NoSpaceEnds
<1> QED BY <1>3, <1>8 DEF NoSpaceEnds

LEMMA UnescapeEnds ==
  ASSUME NEW t \in Seq(Char), NoSpaceEnds(t)
  PROVE  Unescape(t) \in Seq(Char) /\ NoSpaceEnds(Unescape(t))
<1> DEFINE p1 == <<Backslash, "t">>
           p2 == <<Backslash, "n">>
           p3 == <<Backslash, Backslash>>
           v == Replace(t, p1, Tab)
           u == Replace(v, p2, NewLine)
<1>1. p1[1] \in Char /\ p2[1] \in Char /\ p3[1] \in Char
  BY Characters
<1>2. Unescape(t) = Replace(u, p3, Backslash)
  BY DEF Unescape
<1>3. Tab # Space /\ NewLine # Space /\ Backslash # Space /\ Tab \in Char /\ NewLine \in Char /\ Backslash \in Char
  BY Characters
<1> HIDE DEF p1, p2, p3, u, v
<1>4. v \in Seq(Char) /\ NoSpaceEnds(v)
  BY <1>1, <1>3, ReplaceEnds DEF v
<1>5. u \in Seq(Char) /\ NoSpaceEnds(u)
  BY <1>1, <1>3, <1>4, ReplaceEnds DEF u
<1> QED BY <1>1, <1>2, <1>3, <1>5, ReplaceEnds

Special(t) == \E i \in 1..Len(t) : t[i] \in Codes

\* The field of a text has no separator, is longer if there is something to
\* escape and else the text, has no blank end that the text has not, and is
\* never taken for the one of a NULL.
EscapesWell(t) ==
  /\ Escape(t) \in Seq(Char \ {Tab, NewLine})
  /\ Len(Escape(t)) >= Len(t)
  /\ Special(t) => Len(Escape(t)) > Len(t)
  /\ ~ Special(t) => Escape(t) = t
  /\ t # <<>> => /\ Escape(t) # <<>>
                 /\ t[1] # Space => Escape(t)[1] \notin White
                 /\ t[Len(t)] # Space => Escape(t)[Len(Escape(t))] \notin White
  /\ Escape(t) # <<Backslash>> /\ Escape(t) # <<Backslash, "N">>

LEMMA TextsEscapeWell ==
  ASSUME NEW t \in Seq(Char)
  PROVE  EscapesWell(t)
<1> DEFINE T == {s \in Seq(Char) : EscapesWell(s)}
           D == Char \ {Tab, NewLine}
<1>1. <<>> \in T
  <2>1. ~ Special(<<>>) /\ <<>> \in Seq(D) /\ <<>> \in Seq(Char) /\ Len(<<>>) = 0
    BY DEF Special
  <2>2. <<>> # <<Backslash>> /\ <<>> # <<Backslash, "N">>
    OBVIOUS
  <2> DEFINE none == <<>>
  <2>3. Escape(none) = none
    BY EscapeEmpty
  <2>4. /\ none \in Seq(D) /\ none \in Seq(Char) /\ Len(none) >= Len(none) /\ ~ Special(none)
        /\ ~ (none # <<>>) /\ none # <<Backslash>> /\ none # <<Backslash, "N">>
    BY <2>1, <2>2
  <2> HIDE DEF none
  <2>5. EscapesWell(none)
    BY <2>3, <2>4 DEF EscapesWell
  <2> QED BY <2>4, <2>5 DEF none
<1>2. ASSUME NEW s \in Seq(Char), NEW c \in Char, s \in T PROVE Append(s, c) \in T
  <2> DEFINE u == Append(s, c)
             e == Escape(s)
             f == Escape(u)
             n == Len(s)
             k == Len(e)
  <2>1. /\ u \in Seq(Char) /\ Len(u) = n + 1 /\ n \in Nat /\ u[n + 1] = c /\ u # <<>>
        /\ \A i \in 1..n : u[i] = s[i]
        /\ s = <<>> => u[1] = c
        /\ s # <<>> => u[1] = s[1]
        /\ n = 0 <=> s = <<>>
    <3> HIDE DEF e, f, k, D, T
    <3>1. u \in Seq(Char) /\ Len(u) = n + 1 /\ u[n + 1] = c /\ \A i \in 1..n : u[i] = s[i]
      BY AppendProperties
    <3>2. n \in Nat /\ (n = 0 <=> s = <<>>)
      OBVIOUS
    <3>3. s # <<>> => 1 \in 1..n
      BY <3>2
    <3> HIDE DEF u, n
    <3>4. u # <<>>
      BY <3>1, <3>2
    <3> QED BY <3>1, <3>2, <3>3, <3>4
  <2>2. f = e \o Escaped(c)
    BY EscapeAppend
  <2>3. /\ e \in Seq(D) /\ k \in Nat /\ k >= n
        /\ Special(s) => k > n
        /\ ~ Special(s) => e = s
        /\ s # <<>> => /\ e # <<>>
                       /\ s[1] # Space => e[1] \notin White
                       /\ s[n] # Space => e[k] \notin White
        /\ e # <<Backslash>> /\ e # <<Backslash, "N">>
    BY <1>2 DEF EscapesWell
  <2>4. s = <<>> => e = <<>>
    BY EscapeEmpty
  <2> HIDE DEF u, e, f
  <2>5. Special(u) <=> Special(s) \/ c \in Codes
    <3>1. ASSUME Special(s) PROVE Special(u)
      <4>1. \A i \in 1..n : i \in 1..Len(u)
        BY <2>1
      <4> QED BY <2>1, <3>1, <4>1 DEF Special
    <3>2. ASSUME c \in Codes PROVE Special(u)
      <4>1. n + 1 \in 1..Len(u)
        BY <2>1
      <4> QED BY <2>1, <3>2, <4>1 DEF Special
    <3>3. ASSUME Special(u), ~ Special(s) PROVE c \in Codes
      <4>1. PICK i \in 1..Len(u) : u[i] \in Codes
        BY <3>3 DEF Special
      <4>2. CASE i = n + 1
        BY <2>1, <4>1, <4>2
      <4>3. CASE i # n + 1
        <5>1. i \in 1..n
          BY <2>1, <4>3
        <5> QED BY <2>1, <3>3, <4>1, <5>1 DEF Special
      <4> QED BY <4>2, <4>3
    <3> QED BY <3>1, <3>2, <3>3
  <2>6. k \in Nat /\ (k = 0 <=> e = <<>>)
    BY <2>3
  <2>7. CASE c \notin Codes
    <3>1. f = Append(e, c) /\ c \in D
      <4>1. Escaped(c) = <<c>>
        BY <2>7, EscapedIs
      <4>2. e \o <<c>> = Append(e, c)
        BY <2>3, AppendIsConcat
      <4>3. c \in D
        BY <2>7 DEF Codes
      <4> QED BY <2>2, <4>1, <4>2, <4>3
    <3>2. /\ f \in Seq(D) /\ Len(f) = k + 1 /\ f # <<>> /\ f[k + 1] = c
          /\ e = <<>> => f[1] = c
          /\ e # <<>> => f[1] = e[1]
      <4>1. f \in Seq(D) /\ Len(f) = k + 1 /\ f[k + 1] = c /\ \A i \in 1..k : f[i] = e[i]
        <5>1. e \in Seq(D)
          BY <2>3
        <5> HIDE DEF D
        <5> QED BY <3>1, <5>1, AppendProperties
      <4>2. k \in Nat /\ (k = 0 <=> e = <<>>)
        BY <2>6
      <4>3. e # <<>> => 1 \in 1..k
        BY <4>2
      <4> HIDE DEF k
      <4>4. f # <<>>
        BY <4>1, <4>2
      <4> QED BY <4>1, <4>2, <4>3, <4>4
    <3>3. c # Space => c \notin White
      BY <2>7, MarksAre
    <3>4. u[1] # Space => f[1] \notin White
      BY <2>1, <2>3, <2>4, <3>2, <3>3
    <3>5. ~ Special(u) => f = u
      BY <2>3, <2>5, <3>1 DEF u
    <3>6. f # <<Backslash>>
      <4>1. <<Backslash>>[Len(<<Backslash>>)] = Backslash
        OBVIOUS
      <4>2. c # Backslash
        BY <2>7 DEF Codes
      <4> QED BY <3>2, <4>1, <4>2
    <3>7. f # <<Backslash, "N">>
      <4> SUFFICES ASSUME f = <<Backslash, "N">> PROVE FALSE
        OBVIOUS
      <4>1. Len(f) = 2 /\ f[1] = Backslash
        OBVIOUS
      <4>2. k = 1 /\ e # <<>>
        <5>1. Len(f) = k + 1
          BY <3>2
        <5> HIDE DEF k
        <5>2. k = 1
          BY <2>6, <4>1, <5>1
        <5> QED BY <2>6, <5>2
      <4>3. e[1] = Backslash /\ e = <<e[1]>>
        BY <2>3, <3>2, <4>1, <4>2
      <4> QED BY <2>3, <4>3
    <3>8. /\ Len(f) >= Len(u)
          /\ Special(u) => Len(f) > Len(u)
          /\ u[Len(u)] # Space => f[Len(f)] \notin White
      BY <2>1, <2>3, <2>5, <2>7, <3>2, <3>3
    <3>9. EscapesWell(u)
      BY <2>1, <3>2, <3>4, <3>5, <3>6, <3>7, <3>8 DEF EscapesWell, f
    <3> QED BY <2>1, <3>9 DEF u
  <2>8. CASE c \in Codes
    <3>1. PICK x \in Mark : Escaped(c) = <<Backslash, x>>
      BY <2>8, EscapedIs
    <3>2. x \in D /\ Backslash \in D /\ Backslash \notin White /\ x \notin White /\ x # "N"
      BY Characters, MarksAre
    <3> DEFINE two == <<Backslash, x>>
    <3>3. two \in Seq(D) /\ Len(two) = 2 /\ two[1] = Backslash /\ two[2] = x
      BY <3>2
    <3> HIDE DEF two
    <3>4. f = e \o two
      BY <2>2, <3>1 DEF two
    <3>5. /\ f \in Seq(D) /\ Len(f) = k + 2
          /\ \A i \in 1..(k + 2) : f[i] = IF i <= k THEN e[i] ELSE two[i - k]
      <4>1. /\ f \in Seq(D) /\ Len(f) = k + Len(two)
            /\ \A i \in 1..(k + Len(two)) : f[i] = IF i <= k THEN e[i] ELSE two[i - k]
        BY <2>3, <3>3, <3>4, ConcatProperties
      <4> HIDE DEF k, D
      <4> QED BY <3>3, <4>1
    <3>6. f[k + 2] = x /\ (k = 0 => f[1] = Backslash) /\ (k # 0 => f[1] = e[1])
      <4>1. k + 2 \in 1..(k + 2) /\ ~ (k + 2 <= k) /\ (k + 2) - k = 2 /\ 1 \in 1..(k + 2)
        BY <2>3
      <4>2. k = 0 => ~ (1 <= k) /\ 1 - k = 1
        OBVIOUS
      <4>3. k # 0 => 1 <= k
        BY <2>3
      <4> HIDE DEF k
      <4> QED BY <3>3, <3>5, <4>1, <4>2, <4>3
    <3>7. f # <<>> /\ (e = <<>> <=> k = 0)
      BY <2>3, <3>5
    <3>8. u[1] # Space => f[1] \notin White
      <4>1. CASE k = 0
        BY <3>2, <3>6, <4>1
      <4>2. CASE k # 0
        <5>1. s # <<>>
          BY <2>4, <2>6, <4>2
        <5> QED BY <2>1, <2>3, <3>6, <4>2, <5>1
      <4> QED BY <4>1, <4>2
    <3>9. f # <<Backslash>>
      <4>1. Len(<<Backslash>>) = 1
        OBVIOUS
      <4>2. Len(f) # 1
        <5> HIDE DEF k
        <5> QED BY <2>6, <3>5
      <4> QED BY <4>1, <4>2
    <3>10. f # <<Backslash, "N">>
      <4>1. <<Backslash, "N">>[Len(<<Backslash, "N">>)] = "N"
        OBVIOUS
      <4> QED BY <3>2, <3>5, <3>6, <4>1
    <3>11. /\ Len(f) >= Len(u) /\ Len(f) > Len(u) /\ Special(u)
           /\ f[Len(f)] \notin White
      BY <2>1, <2>3, <2>5, <2>8, <3>2, <3>5, <3>6
    <3>12. EscapesWell(u)
      BY <3>5, <3>7, <3>8, <3>9, <3>10, <3>11 DEF EscapesWell, f
    <3> QED BY <2>1, <3>12 DEF u
  <2> QED BY <2>7, <2>8
<1>3. \A s \in Seq(Char), c \in Char : s \in T => Append(s, c) \in T
  BY <1>2
<1>4. Seq(Char) \subseteq T
  <2> HIDE DEF T
  <2> QED BY <1>1, <1>3, SeqInduction
<1> QED BY <1>4

-----------------------------------------------------------------------------
(* A cell. *)

Types == {"Int", "String", "Bytes"}

\* What parse_value looks at is the trimmed field.
LEMMA ParsesTrimmed ==
  ASSUME NEW f, NEW g, NEW type, Trim(f, White) = Trim(g, White)
  PROVE  parse_value(f, type) = parse_value(g, type)
BY DEF parse_value

LEMMA BlankIsNull ==
  ASSUME NEW f, NEW type, Trim(f, White) = <<>>
  PROVE  parse_value(f, type) = Null
<1>1. Trim(f, White) \in {<<>>, <<Backslash, "N">>, <<"NULL">>}
  OBVIOUS
<1> QED BY <1>1 DEF parse_value

\* Whatever the field is, the text of what comes of it has no blank at an end.
LEMMA ParsedEnds ==
  ASSUME NEW f \in Seq(Char), NEW type \in Types, parse_value(f, type) # Null
  PROVE  \E t \in Seq(Char) : NoSpaceEnds(t) /\ parse_value(f, type) = [kind |-> type, text |-> t]
<1> DEFINE s == Trim(f, White)
<1>1. s \notin {<<>>, <<Backslash, "N">>, <<"NULL">>}
  BY DEF parse_value
<1>2. s \in Seq(Char) /\ Inked(s, White)
  <2>1. s # <<>>
    BY <1>1
  <2> QED BY <2>1, TrimLeaves
<1>3. NoSpaceEnds(s)
  BY <1>2, Characters DEF Inked, NoSpaceEnds
<1>4. parse_value(f, type) = CASE type = "Int"    -> IF s \in Numeral THEN [kind |-> type, text |-> s] ELSE Null
                               [] type = "String" -> [kind |-> type, text |-> Unescape(s)]
                               [] type = "Bytes"  -> [kind |-> type, text |-> s]
  BY <1>1 DEF parse_value
<1> HIDE DEF s
<1>5. CASE type = "Int"
  <2>1. parse_value(f, type) = IF s \in Numeral THEN [kind |-> type, text |-> s] ELSE Null
    BY <1>4, <1>5
  <2> QED BY <1>2, <1>3, <2>1
<1>6. CASE type = "String"
  <2>1. parse_value(f, type) = [kind |-> type, text |-> Unescape(s)]
    BY <1>4, <1>6
  <2> QED BY <1>2, <1>3, <2>1, UnescapeEnds
<1>7. CASE type = "Bytes"
  <2>1. parse_value(f, type) = [kind |-> type, text |-> s]
    BY <1>4, <1>7
  <2> QED BY <1>2, <1>3, <2>1
<1> QED BY <1>5, <1>6, <1>7 DEF Types

SourceCell == [null : BOOLEAN, text : Seq(Char)]

LEMMA RecordsDiffer ==
  ASSUME NEW type \in Types, NEW t
  PROVE  [kind |-> type, text |-> t] # Null
<1>1. [kind |-> type, text |-> t].kind = type /\ Null.kind = "Null"
  BY DEF Null
<1> QED BY <1>1 DEF Types

\* A text that is empty or has a blank at an end never comes back.
LEMMA BlankEndsAreLost ==
  ASSUME NEW f \in Seq(Char), NEW type \in Types, NEW t, ~ NoSpaceEnds(t)
  PROVE  parse_value(f, type) # [kind |-> type, text |-> t]
<1> SUFFICES ASSUME parse_value(f, type) = [kind |-> type, text |-> t] PROVE FALSE
  OBVIOUS
<1>1. parse_value(f, type) # Null
  BY RecordsDiffer
<1>2. PICK s \in Seq(Char) : NoSpaceEnds(s) /\ parse_value(f, type) = [kind |-> type, text |-> s]
  BY <1>1, ParsedEnds
<1>3. [kind |-> type, text |-> s].text = [kind |-> type, text |-> t].text
  BY <1>2
<1> QED BY <1>2, <1>3

LEMMA CellComesBack ==
  ASSUME NEW cell \in SourceCell, NEW type \in Types
  PROVE  parse_value(Field(cell), type) = Meant(cell, type) <=> Survives(cell, type)
<1> DEFINE t == cell.text
           e == Escape(t)
<1>1. cell.null \in BOOLEAN /\ t \in Seq(Char)
  BY DEF SourceCell
<1>2. CASE cell.null
  <2> DEFINE f == <<Backslash, "N">>
  <2>1. f \in Seq(Char) /\ Len(f) = 2 /\ f[1] = Backslash /\ f[2] = "N" /\ f # <<>>
    BY Characters
  <2> HIDE DEF f
  <2>2. Inked(f, White)
    BY <2>1, Characters DEF Inked
  <2>3. Trim(f, White) = f
    BY <2>1, <2>2, TrimInked
  <2>4. Trim(f, White) \in {<<>>, <<Backslash, "N">>, <<"NULL">>}
    BY <2>3 DEF f
  <2>5. parse_value(f, type) = Null
    BY <2>4 DEF parse_value
  <2> QED BY <1>2, <2>5 DEF Field, f, Meant, Survives
<1>3. CASE ~ cell.null /\ ~ NoSpaceEnds(t)
  <2>1. Field(cell) = e /\ e \in Seq(Char)
    BY <1>1, <1>3, EscapeType DEF Field
  <2>2. parse_value(e, type) # [kind |-> type, text |-> t]
    <3> HIDE DEF e, t
    <3> QED BY <1>3, <2>1, BlankEndsAreLost
  <2>3. Meant(cell, type) = [kind |-> type, text |-> t]
    BY <1>3 DEF Meant
  <2>4. ~ Survives(cell, type)
    <3>1. t = <<>> \/ Head(t) = Space \/ Last(t) = Space
      BY <1>1, <1>3 DEF NoSpaceEnds, Last
    <3> QED BY <1>3, <3>1 DEF Survives
  <2> QED BY <2>1, <2>2, <2>3, <2>4
<1>4. CASE ~ cell.null /\ NoSpaceEnds(t)
  <2>1. Field(cell) = e /\ e \in Seq(Char) /\ EscapesWell(t)
    BY <1>1, <1>4, EscapeType, TextsEscapeWell DEF Field
  <2>2. Inked(e, White)
    BY <1>4, <2>1 DEF EscapesWell, NoSpaceEnds, Inked
  <2>3. Trim(e, White) = e
    BY <2>1, <2>2, TrimInked
  <2>4. Meant(cell, type) = [kind |-> type, text |-> t]
    BY <1>4 DEF Meant
  <2>5. Survives(cell, type) <=>
          /\ type = "Int" => t \in Numeral
          /\ t # <<"NULL">>
          /\ type = "String" => ~ Misheard(t)
          /\ type = "Bytes" => ~ Special(t)
    <3>1. t # <<>> /\ Head(t) # Space /\ Last(t) # Space
      BY <1>1, <1>4 DEF NoSpaceEnds, Last
    <3>2. DOMAIN t = 1..Len(t)
      BY <1>1
    <3>3. ~ Misheard(t) <=>
            /\ ~ \E i \in 1..(Len(t) - 1) : t[i] = Backslash /\ t[i + 1] \in {"t", "n"}
            /\ \A i \in DOMAIN t : t[i] \notin LeftEscaped
      BY <3>2 DEF Misheard, Mistaken, Unheard
    <3>4. ~ Special(t) <=> \A i \in DOMAIN t : t[i] \notin DOMAIN Marks
      BY <3>2, MarksAre DEF Special
    <3> QED BY <1>4, <3>1, <3>3, <3>4 DEF Survives
  <2>6. e # <<>> /\ e # <<Backslash, "N">> /\ (Special(t) => e # t) /\ (~ Special(t) => e = t)
    <3>1. Special(t) => Len(e) > Len(t) /\ Len(t) \in Nat
      BY <1>1, <2>1 DEF EscapesWell
    <3>2. Special(t) => e # t
      BY <3>1
    <3> QED BY <1>4, <2>1, <3>2 DEF EscapesWell, NoSpaceEnds
  <2>7. e = <<"NULL">> <=> t = <<"NULL">>
    <3>1. ASSUME t = <<"NULL">> PROVE e = <<"NULL">>
      <4>1. ~ Special(t)
        <5>1. Len(t) = 1 /\ t[1] = "NULL"
          BY <3>1
        <5>2. \A i \in 1..1 : i = 1
          OBVIOUS
        <5> QED BY <5>1, <5>2 DEF Special, Codes, Tab, NewLine, Backslash, Quote
      <4> QED BY <2>6, <3>1, <4>1
    <3>2. ASSUME e = <<"NULL">> PROVE t = <<"NULL">>
      <4>1. Len(e) = 1
        BY <3>2
      <4>2. Len(t) >= 1 /\ Len(t) \in Nat
        BY <1>1, <1>4 DEF NoSpaceEnds
      <4>3. ~ Special(t)
        BY <2>1, <4>1, <4>2 DEF EscapesWell
      <4> QED BY <2>6, <3>2, <4>3
    <3> QED BY <3>1, <3>2
  <2>8. CASE t = <<"NULL">>
    <3>1. Trim(e, White) \in {<<>>, <<Backslash, "N">>, <<"NULL">>}
      BY <2>3, <2>7, <2>8
    <3>2. parse_value(e, type) = Null
      BY <3>1 DEF parse_value
    <3> QED BY <2>1, <2>4, <2>5, <2>8, <3>2, RecordsDiffer
  <2>9. CASE t # <<"NULL">>
    <3>1. parse_value(e, type) = CASE type = "Int"    -> IF e \in Numeral THEN [kind |-> type, text |-> e] ELSE Null
                                   [] type = "String" -> [kind |-> type, text |-> Unescape(e)]
                                   [] type = "Bytes"  -> [kind |-> type, text |-> e]
      <4>1. Trim(e, White) \notin {<<>>, <<Backslash, "N">>, <<"NULL">>}
        BY <2>3, <2>6, <2>7, <2>9
      <4> QED BY <2>3, <4>1 DEF parse_value
    <3>2. \A a, b : [kind |-> type, text |-> a] = [kind |-> type, text |-> b] <=> a = b
      <4> SUFFICES ASSUME NEW a, NEW b, [kind |-> type, text |-> a] = [kind |-> type, text |-> b] PROVE a = b
        OBVIOUS
      <4>1. [kind |-> type, text |-> a].text = [kind |-> type, text |-> b].text
        OBVIOUS
      <4> QED BY <4>1
    <3>3. Unescape(e) = t <=> ~ Misheard(t)
      BY <1>1, ToldUnlessMisheard DEF Told
    <3>4. t \in Numeral => ~ Special(t)
      <4> SUFFICES ASSUME t \in Numeral PROVE ~ Special(t)
        OBVIOUS
      <4>1. t \in Seq(Letter) /\ Letter \cap Meaning = {}
        BY TsvAssumption
      <4>2. \A i \in 1..Len(t) : t[i] \in Letter
        BY <4>1
      <4>3. Codes \subseteq Meaning
        BY MarksAre DEF Meaning
      <4> QED BY <4>1, <4>2, <4>3 DEF Special
    <3> HIDE DEF e, t
    <3>5. CASE type = "Int"
      <4>1. parse_value(e, type) = IF e \in Numeral THEN [kind |-> type, text |-> e] ELSE Null
        BY <3>1, <3>5
      <4>2. parse_value(e, type) = [kind |-> type, text |-> t] <=> t \in Numeral
        BY <2>6, <3>2, <3>4, <4>1, RecordsDiffer
      <4> QED BY <2>1, <2>4, <2>5, <2>9, <3>5, <4>2
    <3>6. CASE type = "String"
      <4>1. parse_value(e, type) = [kind |-> type, text |-> Unescape(e)]
        BY <3>1, <3>6
      <4>2. parse_value(e, type) = [kind |-> type, text |-> t] <=> ~ Misheard(t)
        BY <3>2, <3>3, <4>1
      <4> QED BY <2>1, <2>4, <2>5, <2>9, <3>6, <4>2
    <3>7. CASE type = "Bytes"
      <4>1. parse_value(e, type) = [kind |-> type, text |-> e]
        BY <3>1, <3>7
      <4>2. parse_value(e, type) = [kind |-> type, text |-> t] <=> ~ Special(t)
        BY <2>6, <3>2, <4>1
      <4> QED BY <2>1, <2>4, <2>5, <2>9, <3>7, <4>2
    <3> QED BY <3>5, <3>6, <3>7 DEF Types
  <2> QED BY <2>8, <2>9
<1> QED BY <1>1, <1>2, <1>3, <1>4

-----------------------------------------------------------------------------
(* A row. *)

Fields(r) == [i \in DOMAIN r |-> Field(r[i])]
Sent(r) == Join(Fields(r), <<Tab>>)

\* The two characters that TabSeparated has for its own.
Inner == Char \ {Tab, NewLine}

LEMMA FieldType ==
  ASSUME NEW cell \in SourceCell
  PROVE  Field(cell) \in Seq(Inner)
<1>1. cell.null \in BOOLEAN /\ cell.text \in Seq(Char)
  BY DEF SourceCell
<1>2. CASE cell.null
  <2>1. Backslash \in Inner /\ "N" \in Inner
    BY Characters DEF Inner, Tab, NewLine
  <2>2. <<Backslash, "N">> \in Seq(Inner)
    BY <2>1
  <2> QED BY <1>2, <2>2 DEF Field
<1>3. CASE ~ cell.null
  <2>1. EscapesWell(cell.text)
    BY <1>1, TextsEscapeWell
  <2> QED BY <1>3, <2>1 DEF Field, EscapesWell, Inner
<1> QED BY <1>1, <1>2, <1>3

\* The line of a row has no newline in it and splits into the fields of the row.
LEMMA RowIsSent ==
  ASSUME NEW r \in SourceRow
  PROVE  /\ Len(r) = Len(ColTypes) /\ Len(r) \in Nat /\ Len(r) >= 1
         /\ DOMAIN r = 1..Len(r) /\ DOMAIN ColTypes = 1..Len(r)
         /\ \A i \in 1..Len(r) : r[i] \in SourceCell /\ ColTypes[i] \in Types
         /\ Fields(r) \in Seq(Seq(Inner)) /\ Len(Fields(r)) = Len(r)
         /\ \A i \in 1..Len(r) : Fields(r)[i] = Field(r[i])
         /\ Sent(r) \in Seq(Char \ {NewLine})
         /\ Split(Sent(r), Tab) = Fields(r)
<1> DEFINE n == Len(r)
           fs == Fields(r)
<1>1. ColTypes \in Seq(Types) /\ ColTypes # <<>>
  BY TsvAssumption DEF Types
<1>2. r \in Seq(SourceCell) /\ n = Len(ColTypes)
  BY TsvAssumption DEF SourceCell
<1>3. n \in Nat /\ n >= 1 /\ DOMAIN r = 1..n /\ DOMAIN ColTypes = 1..n
  BY <1>1, <1>2
<1>4. \A i \in 1..n : r[i] \in SourceCell /\ ColTypes[i] \in Types
  BY <1>1, <1>2
<1>5. fs = [i \in 1..n |-> Field(r[i])]
  BY <1>3 DEF Fields
<1>6. \A i \in 1..n : Field(r[i]) \in Seq(Inner)
  BY <1>4, FieldType
<1> HIDE DEF fs, n
<1>7. fs \in Seq(Seq(Inner)) /\ Len(fs) = n /\ \A i \in 1..n : fs[i] = Field(r[i])
  BY <1>3, <1>5, <1>6
<1>8. fs # <<>>
  BY <1>3, <1>7
<1>9. Tab \notin Inner /\ Inner \cup {Tab} = Char \ {NewLine}
  BY Characters DEF Inner
<1>10. Split(Join(fs, <<Tab>>), Tab) = fs /\ Join(fs, <<Tab>>) \in Seq(Inner \cup {Tab})
  BY <1>7, <1>8, <1>9, SplitJoin
<1>11. Sent(r) = Join(fs, <<Tab>>)
  BY DEF Sent, fs
<1> QED BY <1>2, <1>3, <1>4, <1>7, <1>9, <1>10, <1>11 DEF fs, n

\* Of a line and its newline, what is left after trim is parsed, if anything is.
LEMMA LineIsParsed ==
  ASSUME NEW t \in Seq(Char \ {NewLine})
  PROVE  parse_response(t \o <<NewLine>>) =
           IF Trim(t, White) = <<>> THEN <<>> ELSE <<ParseLine(Trim(t, White))>>
<1> DEFINE sent == t \o <<NewLine>>
           none     == <<>>
           s        == Trim(t, White)
           split    == Split(sent, NewLine)
           trimmed  == [i \in DOMAIN split |-> Trim(split[i], White)]
           lines    == Only(trimmed, ToSet(trimmed) \ {<<>>})
<1>1. t \in Seq(Char) /\ none \in Seq(Char) /\ NewLine \in Char /\ NewLine \notin Char \ {NewLine}
  <2>1. Char \ {NewLine} \subseteq Char
    OBVIOUS
  <2> QED BY <2>1, SeqWiden, Characters
<1>2. split = <<t, none>>
  <2>1. sent = Append(t, NewLine) \o none
    <3>1. t \o <<NewLine>> = Append(t, NewLine) /\ Append(t, NewLine) \in Seq(Char)
      BY <1>1
    <3> QED BY <3>1, ConcatEmptySeq
  <2>2. SplitsBoth(t, none, NewLine)
    <3> HIDE DEF none
    <3> QED BY <1>1, SplitBoth
  <2>3. Split(t, NewLine) = <<t>> /\ Split(none, NewLine) = <<none>>
    BY <1>1, SplitOne, SplitEmpty
  <2>4. <<t>> \o <<none>> = <<t, none>>
    BY Pair
  <2> HIDE DEF none, sent
  <2> QED BY <2>1, <2>2, <2>3, <2>4 DEF SplitsBoth
<1>3. Trim(none, White) = none
  <2>1. \A i \in 1..Len(none) : none[i] \in White
    OBVIOUS
  <2> HIDE DEF none
  <2>2. Trim(none, White) = <<>>
    BY <1>1, <2>1, TrimBlank
  <2> QED BY <2>2 DEF none
<1>4. trimmed = <<s, none>>
  <2> HIDE DEF split, none, s
  <2>1. DOMAIN split = 1..2 /\ split[1] = t /\ split[2] = none
    BY <1>2
  <2>2. trimmed = [i \in 1..2 |-> Trim(split[i], White)]
    BY <2>1
  <2>3. \A i \in 1..2 : trimmed[i] = <<s, none>>[i]
    BY <1>3, <2>1, <2>2 DEF s
  <2>4. trimmed \in Seq(UNION {{s}, {none}}) /\ Len(trimmed) = 2
    BY <1>3, <2>1, <2>2 DEF s
  <2> HIDE DEF trimmed
  <2> QED BY <2>3, <2>4
<1>5. lines = IF s = <<>> THEN <<>> ELSE <<s>>
  <2> DEFINE V == ToSet(trimmed) \ {<<>>}
             S == {s, none}
             one == Append(none, s)
  <2>1. none \in Seq(S) /\ one \in Seq(S) /\ s \in S /\ none \in S /\ none \notin V
    BY AppendProperties
  <2>2. s \in V <=> s # <<>>
    <3>1. ToSet(trimmed) = {s, none}
      <4> HIDE DEF none, s
      <4> QED BY <1>4 DEF ToSet
    <3> QED BY <3>1
  <2>3. trimmed = Append(one, none)
    BY <1>4
  <2>4. Only(none, V) = none
    BY OnlyEmpty
  <2> HIDE DEF V, S, none, s, trimmed
  <2>5. Only(one, V) = IF s \in V THEN Append(none, s) ELSE none
    BY <2>1, <2>4, OnlyAppend
  <2> HIDE DEF one
  <2>6. Only(Append(one, none), V) = Only(one, V)
    BY <2>1, OnlyAppend
  <2>7. lines = Only(trimmed, V)
    BY DEF V
  <2>8. Append(<<>>, s) = <<s>>
    OBVIOUS
  <2> QED BY <2>2, <2>3, <2>5, <2>6, <2>7, <2>8 DEF none
<1>6. parse_response(sent) = [i \in DOMAIN lines |-> ParseLine(lines[i])]
  BY DEF parse_response
<1> HIDE DEF lines, s, sent
<1>7. CASE s = <<>>
  <2>1. [i \in DOMAIN <<>> |-> ParseLine(<<>>[i])] = <<>>
    OBVIOUS
  <2> QED BY <1>5, <1>6, <1>7, <2>1 DEF s, sent
<1>8. CASE s # <<>>
  <2> DEFINE one == <<s>>
  <2>1. DOMAIN one = 1..1 /\ one[1] = s
    OBVIOUS
  <2>2. lines = one
    BY <1>5, <1>8
  <2> HIDE DEF one
  <2>3. [i \in DOMAIN one |-> ParseLine(one[i])] = [i \in 1..1 |-> ParseLine(s)]
    BY <2>1
  <2>4. [i \in 1..1 |-> ParseLine(s)] = <<ParseLine(s)>>
    OBVIOUS
  <2> QED BY <1>6, <1>8, <2>2, <2>3, <2>4 DEF s, sent
<1> QED BY <1>7, <1>8

\* A cell is parsed from the tidy field of its column, which is blank when the
\* line has none.
LEMMA ParsesTidy ==
  ASSUME NEW t \in Seq(Char), NEW i \in DOMAIN ColTypes
  PROVE  ParseLine(t)[i] = parse_value(Tidy(t, i, Tab, White), ColTypes[i])
<1> DEFINE fields == Split(t, Tab)
           n == Len(fields)
<1>1. fields \in Seq(Seq(Char)) /\ n \in Nat
  BY SplitType
<1>2. i \in Nat /\ i >= 1
  BY TsvAssumption
<1>3. ParseLine(t)[i] = IF i <= n THEN parse_value(fields[i], ColTypes[i]) ELSE Null
  BY DEF ParseLine
<1>4. Tidy(t, i, Tab, White) = IF i <= n THEN Trim(fields[i], White) ELSE <<>>
  BY DEF Tidy
<1> HIDE DEF fields
<1>5. CASE i <= n
  <2>1. fields[i] \in Seq(Char)
    BY <1>1, <1>2, <1>5
  <2>2. Trim(Trim(fields[i], White), White) = Trim(fields[i], White)
    BY <2>1, TrimTwice
  <2>3. parse_value(Trim(fields[i], White), ColTypes[i]) = parse_value(fields[i], ColTypes[i])
    BY <2>2, ParsesTrimmed
  <2> QED BY <1>3, <1>4, <1>5, <2>3
<1>6. CASE ~ i <= n
  <2>1. <<>> \in Seq(Char) /\ \A k \in 1..Len(<<>>) : <<>>[k] \in White
    OBVIOUS
  <2>2. Trim(<<>>, White) = <<>>
    BY <2>1, TrimBlank
  <2>3. parse_value(<<>>, ColTypes[i]) = Null
    BY <2>2, BlankIsNull
  <2> QED BY <1>3, <1>4, <1>6, <2>3
<1> QED BY <1>5, <1>6

\* A first cell whose field would begin with a blank, or be empty: trim may
\* then take the separator behind it, and move the other cells.
Slips(cell) == ~ cell.null /\ (cell.text = <<>> \/ cell.text[1] = Space)

\* Without such a first cell, each cell comes from its own field.
LEMMA CellsStay ==
  ASSUME NEW r \in SourceRow, ~ Slips(r[1])
  PROVE  /\ Trim(Sent(r), White) # <<>>
         /\ \A i \in 1..Len(r) :
              ParseLine(Trim(Sent(r), White))[i] = parse_value(Field(r[i]), ColTypes[i])
<1> DEFINE s == Sent(r)
           fs == Fields(r)
           n == Len(r)
<1>1. /\ n \in Nat /\ n >= 1 /\ DOMAIN ColTypes = 1..n
      /\ \A i \in 1..n : r[i] \in SourceCell
      /\ fs \in Seq(Seq(Inner)) /\ Len(fs) = n /\ \A i \in 1..n : fs[i] = Field(r[i])
      /\ s \in Seq(Char \ {NewLine}) /\ Split(s, Tab) = fs
  BY RowIsSent
<1>2. s \in Seq(Char) /\ Tab \in Char /\ Tab \in White
  <2>1. Char \ {NewLine} \subseteq Char
    OBVIOUS
  <2> HIDE DEF s
  <2> QED BY <1>1, <2>1, SeqWiden, Characters
<1>3. Field(r[1]) \in Seq(Inner) /\ Field(r[1]) # <<>> /\ Field(r[1])[1] \notin White
  <2> DEFINE cell == r[1]
  <2>1. cell \in SourceCell
    BY <1>1
  <2>2. cell.null \in BOOLEAN /\ cell.text \in Seq(Char)
    BY <2>1 DEF SourceCell
  <2>3. Field(cell) \in Seq(Inner)
    BY <2>1, FieldType
  <2>4. CASE cell.null
    <3>1. Field(cell) = <<Backslash, "N">>
      BY <2>4 DEF Field
    <3> QED BY <2>3, <3>1, Characters
  <2>5. CASE ~ cell.null
    <3>1. cell.text # <<>> /\ cell.text[1] # Space
      BY <2>5 DEF Slips
    <3>2. EscapesWell(cell.text) /\ Field(cell) = Escape(cell.text)
      BY <2>2, <2>5, TextsEscapeWell DEF Field
    <3> QED BY <2>3, <3>1, <3>2 DEF EscapesWell
  <2> QED BY <2>2, <2>4, <2>5, <2>3
<1>4. \E k \in 1..Len(Split(s, Tab)[1]) : Split(s, Tab)[1][k] \notin White
  <2>1. Split(s, Tab)[1] = Field(r[1])
    BY <1>1
  <2>2. 1 \in 1..Len(Field(r[1]))
    BY <1>3
  <2> QED BY <1>3, <2>1, <2>2
<1> HIDE DEF s
<1>5. \A i \in Nat \ {0} : Tidy(Trim(s, White), i, Tab, White) = Tidy(s, i, Tab, White)
  BY <1>2, <1>4, TidyTrim
<1> HIDE DEF fs, n
<1>6. \A i \in 1..n : Tidy(s, i, Tab, White) = Trim(Field(r[i]), White) /\ i \in Nat \ {0}
  BY <1>1 DEF Tidy
<1>7. Trim(s, White) \in Seq(Char)
  BY <1>2, TrimLeaves
<1>8. Trim(s, White) # <<>>
  <2> SUFFICES ASSUME Trim(s, White) = <<>> PROVE FALSE
    OBVIOUS
  <2>1. Tidy(<<>>, 1, Tab, White) = Trim(Field(r[1]), White)
    <3>1. 1 \in 1..n /\ 1 \in Nat \ {0}
      BY <1>1
    <3>2. Tidy(s, 1, Tab, White) = Trim(Field(r[1]), White)
      BY <3>1, <1>6
    <3>3. Tidy(Trim(s, White), 1, Tab, White) = Tidy(s, 1, Tab, White)
      BY <3>1, <1>5
    <3> QED BY <3>2, <3>3
  <2>2. Split(<<>>, Tab) = <<(<<>>)>>
    BY SplitEmpty
  <2>3. Tidy(<<>>, 1, Tab, White) = Trim(<<>>, White)
    <3>1. Len(<<(<<>>)>>) = 1 /\ <<(<<>>)>>[1] = <<>>
      OBVIOUS
    <3>2. 1 <= Len(Split(<<>>, Tab)) /\ Split(<<>>, Tab)[1] = <<>>
      BY <2>2, <3>1
    <3> QED BY <3>2 DEF Tidy
  <2>4. Trim(<<>>, White) = <<>>
    <3>1. <<>> \in Seq(Char) /\ \A k \in 1..Len(<<>>) : <<>>[k] \in White
      OBVIOUS
    <3> QED BY <3>1, TrimBlank
  <2>5. Trim(Field(r[1]), White) # <<>>
    <3>1. 1 \in 1..Len(Field(r[1]))
      BY <1>3
    <3> QED BY <1>3, <3>1, TrimLeaves
  <2> QED BY <2>1, <2>3, <2>4, <2>5
<1>9. ASSUME NEW i \in 1..n
      PROVE  ParseLine(Trim(s, White))[i] = parse_value(Field(r[i]), ColTypes[i])
  <2>1. ParseLine(Trim(s, White))[i] = parse_value(Tidy(Trim(s, White), i, Tab, White), ColTypes[i])
    BY <1>1, <1>7, ParsesTidy
  <2>2. Tidy(Trim(s, White), i, Tab, White) = Trim(Field(r[i]), White)
    BY <1>5, <1>6
  <2>3. Field(r[i]) \in Seq(Inner)
    BY <1>1, FieldType
  <2>4. Trim(Trim(Field(r[i]), White), White) = Trim(Field(r[i]), White)
    BY <2>3, TrimTwice
  <2> QED BY <2>1, <2>2, <2>4, ParsesTrimmed
<1> QED BY <1>8, <1>9 DEF s, n

\* What parse_response makes of the line that the server writes for a row.
LEMMA RowComesBack ==
  ASSUME NEW r \in SourceRow
  PROVE  parse_response(Line(r)) = Faithful(r)
           <=> \A i \in DOMAIN r : Survives(r[i], ColTypes[i])
<1> DEFINE s == Trim(Sent(r), White)
           n == Len(r)
           want == [i \in 1..n |-> Meant(r[i], ColTypes[i])]
           came == ParseLine(s)
<1>1. /\ n \in Nat /\ n >= 1 /\ DOMAIN r = 1..n /\ DOMAIN ColTypes = 1..n
      /\ \A i \in 1..n : r[i] \in SourceCell /\ ColTypes[i] \in Types
      /\ Sent(r) \in Seq(Char \ {NewLine})
  BY RowIsSent
<1>2. parse_response(Line(r)) = IF s = <<>> THEN <<>> ELSE <<came>>
  <2>1. Line(r) = Sent(r) \o <<NewLine>>
    BY DEF Line, Sent, Fields
  <2> QED BY <1>1, <2>1, LineIsParsed
<1>3. Faithful(r) = <<want>>
  BY <1>1 DEF Faithful
<1>4. s \in Seq(Char)
  <2>1. Char \ {NewLine} \subseteq Char
    OBVIOUS
  <2>2. Sent(r) \in Seq(Char)
    BY <1>1, <2>1, SeqWiden
  <2> QED BY <2>2, TrimLeaves
<1>5. DOMAIN came = 1..n
  BY <1>1 DEF ParseLine
<1>6. came = [i \in 1..n |-> came[i]]
  <2>1. came = [i \in DOMAIN came |-> came[i]]
    BY DEF ParseLine
  <2> HIDE DEF came, n
  <2> QED BY <1>5, <2>1
<1>7. CASE Slips(r[1])
  <2> DEFINE cell == r[1]
             type == ColTypes[1]
  <2>1. 1 \in 1..n /\ cell \in SourceCell /\ type \in Types
    BY <1>1
  <2>2. ~ cell.null /\ ~ NoSpaceEnds(cell.text) /\ (cell.text = <<>> \/ cell.text[1] = Space)
    BY <1>7 DEF Slips, NoSpaceEnds
  <2>3. ~ Survives(cell, type)
    <3>1. cell.text = <<>> \/ Head(cell.text) = Space
      <4>1. cell.text \in Seq(Char)
        BY <2>1 DEF SourceCell
      <4> QED BY <2>2, <4>1
    <3> QED BY <2>2, <3>1 DEF Survives
  <2>4. Meant(cell, type) = [kind |-> type, text |-> cell.text]
    BY <2>2 DEF Meant
  <2>5. came[1] # Meant(cell, type)
    <3> DEFINE f == Split(s, Tab)[1]
    <3>1. Split(s, Tab) \in Seq(Seq(Char)) /\ Len(Split(s, Tab)) \in Nat /\ Len(Split(s, Tab)) >= 1
      BY <1>4, SplitType
    <3>2. f \in Seq(Char)
      BY <3>1
    <3>3. came[1] = parse_value(f, type)
      BY <1>1, <2>1, <3>1 DEF ParseLine
    <3> HIDE DEF f, came, cell, type
    <3> QED BY <2>1, <2>2, <2>4, <3>2, <3>3, BlankEndsAreLost
  <2>6. want[1] = Meant(cell, type)
    BY <2>1
  <2>7. came # want
    BY <2>5, <2>6
  <2> HIDE DEF came, want, s
  <2>8. <<came>> # <<want>> /\ <<>> # <<want>>
    BY <2>7
  <2> QED BY <1>1, <1>2, <1>3, <2>1, <2>3, <2>8
<1>8. CASE ~ Slips(r[1])
  <2>1. s # <<>> /\ \A i \in 1..n : came[i] = parse_value(Field(r[i]), ColTypes[i])
    BY <1>8, CellsStay
  <2>2. \A i \in 1..n : came[i] = Meant(r[i], ColTypes[i]) <=> Survives(r[i], ColTypes[i])
    BY <1>1, <2>1, CellComesBack
  <2>3. \A i \in 1..n : want[i] = Meant(r[i], ColTypes[i])
    OBVIOUS
  <2>4. want = [i \in 1..n |-> want[i]]
    OBVIOUS
  <2> HIDE DEF came, want, s, n
  <2>5. came = want <=> \A i \in 1..n : came[i] = want[i]
    BY <1>6, <2>4
  <2>6. <<came>> = <<want>> <=> came = want
    OBVIOUS
  <2> QED BY <1>1, <1>2, <1>3, <2>1, <2>2, <2>3, <2>5, <2>6
<1> QED BY <1>7, <1>8

\* The rows that come back from ClickHouse as they were are exactly those all of
\* whose cells survive the trip (parse_response, parse_value): for tables of any
\* number of columns, texts of any length and alphabet.
THEOREM SurvivorsReturn == SurvivorsComeBack
BY RowComesBack DEF SurvivorsComeBack, Returning, Surviving

\* Read over a connection that holds, with no character torn, a row is fetched as
\* it was exactly if its cells survive, for answers of any length and however they
\* are framed and cut into chunks (fetch_table: execute_query and parse_response).
THEOREM FetchedRowsReturn == Spec => []RowsComeBack
<1>1. OkMeansAllUnlessCut => RowsComeBack
  <2> SUFFICES ASSUME OkMeansAllUnlessCut, result = "ok", ~ cut, ~ torn
               PROVE  /\ \A r \in SourceRow :
                           AnswerWith[r] = body => (fetch_table = Faithful(r) <=> r \in Surviving)
                      /\ SurvivorsComeBack
    BY DEF RowsComeBack
  <2>1. response = body
    BY DEF OkMeansAllUnlessCut
  <2>2. ASSUME NEW r \in SourceRow, AnswerWith[r] = body
        PROVE  fetch_table = Faithful(r) <=> r \in Surviving
    <3>1. fetch_table = parse_response(Line(r))
      BY <2>1, <2>2 DEF fetch_table, AnswerWith
    <3> QED BY <3>1, RowComesBack DEF Surviving
  <2> QED BY <2>2, SurvivorsReturn
<1> QED BY <1>1, UncutIsWhole, PTL
=============================================================================
