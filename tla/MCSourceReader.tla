-------------------------- MODULE MCSourceReader --------------------------
(***************************************************************************)
(* A small instance of ClickHouseSource: answers of up to three lines, with *)
(* characters of one and of two bytes, and answers with a row of the table, *)
(* one that survives and two that do not; rows with every pair of           *)
(* texts of up to two characters that matter to one another, and with every *)
(* text of up to three where escapes may run into one another.              *)
(***************************************************************************)
EXTENDS ClickHouseSource

MCOneByte == Char \cup {"x"}
AllFramings == {"chunked", "length", "close"}

\* The word NULL counts as one letter, and so does each number.
MCLetter  == {"a", "NULL", "7", "2^63"}
MCNumeral == {<<"7">>}

ThreeTypes == <<"String", "Bytes", "Int">>

CellsOver(chars, n) == {Cell(t) : t \in {s \in Text : Len(s) <= n /\ ToSet(s) \subseteq chars}}

Short   == CellsOver({Tab, NewLine, Space, Backslash, Quote, "t", "N", "NULL"}, 2) \cup {SourceNull}
Long    == CellsOver({Tab, Space, Backslash, Quote, "t", "CR", "r", "a"}, 3)
Single  == CellsOver(Char, 1) \cup {SourceNull}
Numbers == {Cell(<<"7">>), Cell(<<"2^63">>), SourceNull}

MixedRows == (Short \X Short \X {Cell(<<"7">>)}) \cup (Long \X {Cell(<<"a">>), Cell(<<>>)} \X Numbers)
             \cup (Single \X Single \X Single)

SentRows == {<<Cell(<<Tab>>), Cell(<<"t">>), Cell(<<"7">>)>>,
             <<Cell(<<Quote>>), SourceNull, Cell(<<"7">>)>>,
             <<Cell(<<>>), Cell(<<"a">>), Cell(<<"7">>)>>}
ASSUME SentAssumption == SentRows \subseteq SourceRow

MCBody == {<<>>, <<"x", "LF">>, <<"L", "C", "LF", "x", "LF">>, <<"x", "LF", "LF", "L", "C", "x">>}
          \cup {Line(r) : r \in SentRows}
=============================================================================
