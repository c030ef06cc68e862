--------------------------- MODULE MCSearchTable ---------------------------
(***************************************************************************)
(* A small instance of SearchTable with two columns: three texts that share *)
(* prefixes, tokens and (two of them) bloom bits, one of them with a token  *)
(* twice; a text and a payload that collide in the digest; words on both    *)
(* sides of the ranges and between reversed bounds.                         *)
(***************************************************************************)
EXTENDS SearchTable

MCChar == {"a", "b", "-", " "}
MCAlphaNum == {"a", "b"}
MCWhite == {" "}

A   == <<"a">>
AB  == <<"a", "b">>
B   == <<"b">>
ABA == <<"a", "-", "b", " ", "a">>
MCText == {A, AB, ABA}
MCWord == {0, 1, 3}
MCBlob == {"x"}

\* The text "ab" and the payload "x" have one digest; all else is told apart.
MCDigest(input) == IF input = <<"slice", "x">> THEN <<"str", AB>> ELSE input

\* Raw hashes; "ab" and "b" meet after % 64.
MCBloomHash(t) ==
  CASE t = A -> {3, 70} [] t = AB -> {67, 134} [] t = ABA -> {9, 70}
    [] t = B -> {3, 6} [] OTHER -> {5}

MCNumCols == 2
MCRowInput ==
  {<<StrV(A), IntV(0)>>, <<StrV(AB), IntV(3)>>, <<StrV(ABA), StrV(A)>>,
   <<IntV(0), FloatV(0)>>, <<IntV(3), IntV(1)>>, <<BytesV("x"), IntV(1)>>, <<Null>>}

\* Room for one row, and a filter without bits, as for a table synced from an
\* empty source.
MCCapacities == {0, 1}

By(type, column, text)    == [type |-> type, column |-> column, text |-> text]
ByExact(column, v)        == [type |-> "Exact", column |-> column, value |-> v]
ByRange(column, min, max) == [type |-> "Range", column |-> column, min |-> min, max |-> max]

\* Columns 0 and 3 do not exist; some ranges are reversed.
MCQuery ==
  {ByExact(1, v) : v \in {StrV(AB), StrV(A), StrV(B), IntV(0), Null}}
  \cup {ByExact(2, FloatV(0)), ByExact(2, StrV(A)), ByExact(0, IntV(1)), ByExact(3, StrV(A))}
  \cup {By("Prefix", 1, t) : t \in {<<>>, A, AB, B}} \cup {By("Prefix", 2, A)}
  \cup {By("FullText", 1, t) : t \in {<<"b", " ", "a">>, A, <<"a", "-", "b">>, <<" ">>}}
  \cup {By("Contains", 1, A), By("Contains", 1, B), By("Contains", 2, A)}
  \cup {ByRange(1, m, n) : m \in {0, 1}, n \in {1, 3}}
  \cup {ByRange(2, 0, 1), ByRange(2, 1, 3), ByRange(2, 3, 0), ByRange(2, 1, 0), ByRange(3, 3, 0)}

-----------------------------------------------------------------------------
\* The texts that a search for text lists and those that have it in them.
Within(t, s) == \E i, j \in 1..Len(s) : SubSeq(s, i, j) = t

\* README.md:352 "find substring": a contains search lists every live row whose
\* text has the words of the query in it (the arm Contains of search.rs looks
\* for whole tokens).
ContainsFindsSubstring ==
  (reply.op = "search" /\ reply.query.type = "Contains" /\ reply.query.column \in Col) =>
    \A id \in DOMAIN rows : LET cell == rows[id][reply.query.column] IN
      (IsStr(cell) /\ Within(reply.query.text, cell.text)) => \E h \in reply.hits : h[1] = id
=============================================================================
