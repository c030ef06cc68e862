------------------------------ MODULE TsvRows ------------------------------
(***************************************************************************)
(* How rows travel from ClickHouse (clickhouse.rs): the server writes them  *)
(* as TabSeparated text and parse_response cuts, trims and unescapes the    *)
(* text back into cells.  The module formats one row of the source as the   *)
(* server does, parses it as the code does, and states exactly which rows   *)
(* come back as they were.  The answer that carries the rows is read in     *)
(* SourceReader.                                                            *)
(***************************************************************************)
EXTENDS Texts

CONSTANTS Letter,      \* characters without a meaning in TabSeparated text
          ColTypes,    \* the column types of the synced table, in order
          MaxText,     \* bound: characters of a text
          Numeral,     \* the texts that parse::<i64>() accepts: not those of a
                       \* number beyond an i64
          SourceRow    \* the rows the source table may hold

Tab == "TAB"
NewLine == "LF"
Space == "SP"
Backslash == "BS"
Quote == "QUOTE"

\* What TabSeparated writes behind a backslash, for the characters it escapes:
\* tab, line feed, backslash, carriage return, form feed, backspace, zero and
\* the apostrophe.
Marks == [TAB |-> "t", LF |-> "n", BS |-> Backslash, CR |-> "r", FF |-> "f", BSP |-> "b", NUL |-> "0",
          QUOTE |-> Quote]

\* Those that parse_value does not undo.
LeftEscaped == DOMAIN Marks \ {Tab, NewLine, Backslash}

\* What trim removes; Space stands for every blank that is sent as it is.
White == {Tab, NewLine, Space, "CR", "FF"}

Meaning == DOMAIN Marks \cup {Space, "t", "n", "r", "f", "b", "0", "N"}
Char == Meaning \cup Letter

Text == UNION {[1..k -> Char] : k \in 0..MaxText}

\* A cell of the source: NULL, or what the column holds, written as a text.
SourceNull == [null |-> TRUE, text |-> <<>>]
Cell(t)    == [null |-> FALSE, text |-> t]

ASSUME TsvAssumption ==
  /\ ColTypes \in Seq({"Int", "String", "Bytes"}) /\ ColTypes # <<>>
  /\ MaxText \in Nat
  /\ \A r \in SourceRow : Len(r) = Len(ColTypes)
  /\ SourceRow \subseteq Seq([null : BOOLEAN, text : Seq(Char)])
  /\ Letter \cap Meaning = {}
  /\ Numeral \subseteq Seq(Letter) \ {<<>>}

-----------------------------------------------------------------------------
(* The server's side. *)

Escaped(c) == IF c \in DOMAIN Marks THEN <<Backslash, Marks[c]>> ELSE <<c>>

Escape(t) ==
  Concat([i \in DOMAIN t |-> Escaped(t[i])])

Field(cell) == IF cell.null THEN <<Backslash, "N">> ELSE Escape(cell.text)

Line(r) == Join([i \in DOMAIN r |-> Field(r[i])], <<Tab>>) \o <<NewLine>>

-----------------------------------------------------------------------------
(* The code's side. *)

\* A p[1] is held until the next character tells whether it begins a p.
Out(done, p) == IF done.held THEN Append(done.out, p[1]) ELSE done.out

replace_next(done, x, p, c) ==
  IF done.held /\ x = p[2] THEN [out |-> Append(done.out, c), held |-> FALSE]
  ELSE IF x = p[1] THEN [out |-> Out(done, p), held |-> TRUE]
  ELSE [out |-> Append(Out(done, p), x), held |-> FALSE]

\* str::replace of the two characters p by the character c, from the left, by
\* the number of characters it has come to.
Replaced(t, p, c) ==
  LET done[n \in 0..Len(t)] ==
        IF n = 0 THEN [out |-> <<>>, held |-> FALSE] ELSE replace_next(done[n - 1], t[n], p, c)
  IN done

Replace(t, p, c) == Out(Replaced(t, p, c)[Len(t)], p)

Unescape(t) ==
  Replace(Replace(Replace(t, <<Backslash, "t">>, Tab), <<Backslash, "n">>, NewLine),
          <<Backslash, Backslash>>, Backslash)

Null == [kind |-> "Null"]

\* Fault: only \N stands for Null.
parse_value_strict(s, type) ==
  LET t == Trim(s, White) IN
  IF t = <<Backslash, "N">> THEN Null
  ELSE CASE type = "Int"    -> IF t \in Numeral THEN [kind |-> type, text |-> t] ELSE Null
         [] type = "String" -> [kind |-> type, text |-> Unescape(t)]
         [] type = "Bytes"  -> [kind |-> type, text |-> t]

\* The word NULL is a text of the letters' alphabet like any other.
parse_value(s, type) ==
  LET t == Trim(s, White) IN
  IF t \in {<<>>, <<Backslash, "N">>, <<"NULL">>} THEN Null
  ELSE CASE type = "Int"    -> IF t \in Numeral THEN [kind |-> type, text |-> t] ELSE Null
         [] type = "String" -> [kind |-> type, text |-> Unescape(t)]
         [] type = "Bytes"  -> [kind |-> type, text |-> t]

\* A cell per configured column, Null where the line has no field for it; for
\* what comes of a table without columns, see SyncManager!Fits.
ParseLine(line) ==
  LET fields == Split(line, Tab) IN
  [i \in DOMAIN ColTypes |->
     IF i <= Len(fields) THEN parse_value(fields[i], ColTypes[i]) ELSE Null]

parse_response(tsv) ==
  LET split   == Split(tsv, NewLine)
      trimmed == [i \in DOMAIN split |-> Trim(split[i], White)]
      lines   == Only(trimmed, ToSet(trimmed) \ {<<>>})
  IN [i \in DOMAIN lines |-> ParseLine(lines[i])]

-----------------------------------------------------------------------------
\* The cells the source means.
Meant(cell, type) == IF cell.null THEN Null ELSE [kind |-> type, text |-> cell.text]
Faithful(r) == <<[i \in DOMAIN r |-> Meant(r[i], ColTypes[i])]>>

\* What the trip does to a text: nothing, unless it is blank at an end, looks
\* like a NULL, has a backslash before a t or an n, or a character whose escape
\* the code does not know; a Bytes cell is not even unescaped, and an Int must fit.
Survives(cell, type) ==
  \/ cell.null
  \/ /\ type = "Int" => cell.text \in Numeral
     /\ cell.text # <<>> /\ Head(cell.text) # Space /\ Last(cell.text) # Space
     /\ cell.text # <<"NULL">>
     /\ type = "String" =>
          /\ ~ \E i \in 1..(Len(cell.text) - 1) :
               cell.text[i] = Backslash /\ cell.text[i + 1] \in {"t", "n"}
          /\ \A i \in DOMAIN cell.text : cell.text[i] \notin LeftEscaped
     /\ type = "Bytes" => \A i \in DOMAIN cell.text : cell.text[i] \notin DOMAIN Marks

Returning == {r \in SourceRow : parse_response(Line(r)) = Faithful(r)}
Surviving == {r \in SourceRow : \A i \in DOMAIN r : Survives(r[i], ColTypes[i])}

\* The rows that come back as they were are exactly those all of whose cells
\* survive (clickhouse.rs: parse_response, parse_value): a trailing tab that trim
\* eats is made up for by the padding, and no cell moves into the column of
\* another, as long as the first is not blank; an apostrophe comes back with a
\* backslash.
SurvivorsComeBack == Returning = Surviving
=============================================================================
