----------------------------- MODULE CellValues -----------------------------
(***************************************************************************)
(* The data of a quickset table and of its callers: the cells (storage.rs,  *)
(* enum Value) and the pure functions the indexes apply to them, the 64-bit *)
(* digest that HashIndex files a cell under and the two ways of cutting a   *)
(* text into words.                                                         *)
(*                                                                          *)
(* A text is a sequence of characters from a small alphabet; the classes    *)
(* AlphaNum (char::is_alphanumeric) and White (char::is_whitespace) are all *)
(* that the code asks about a character.                                    *)
(***************************************************************************)
EXTENDS Integers, SequencesExt

CONSTANTS Char,       \* the characters of the texts
          AlphaNum,   \* those for which is_alphanumeric() holds
          White,      \* those at which split_whitespace() cuts
          Text,       \* the texts that occur in rows
          Word,       \* the 64-bit words that occur in Int and Float cells
          Blob,       \* the payloads of Bytes cells
          Digest(_),  \* DefaultHasher: bytes fed to the hasher -> u64
          NumCols,    \* columns of the table
          RowInput,   \* the value vectors callers pass to insert and update
          Query,      \* the searches callers make
          MaxRowId    \* bound: how many row ids are handed out

ASSUME CharAssumption ==
  /\ AlphaNum \subseteq Char
  /\ White \subseteq Char
  /\ AlphaNum \cap White = {}
  /\ \A t \in Text : t \in Seq(Char)
  /\ Word \subseteq Int

Null      == [kind |-> "Null"]
IntV(w)   == [kind |-> "Int", word |-> w]
FloatV(w) == [kind |-> "Float", word |-> w]    \* w is to_bits()
StrV(t)   == [kind |-> "String", text |-> t]
BytesV(b) == [kind |-> "Bytes", blob |-> b]

Value == {Null} \cup {IntV(w) : w \in Word} \cup {FloatV(w) : w \in Word}
                \cup {StrV(t) : t \in Text} \cup {BytesV(b) : b \in Blob}

IsStr(v) == v.kind = "String"
IsInt(v) == v.kind = "Int"

(***************************************************************************)
(* What hash_value feeds to the hasher.  An i64 and a u64 are both written  *)
(* as their eight bytes, so an Int and a Float of one bit pattern feed the  *)
(* same bytes; a str and a slice are framed differently.                    *)
(***************************************************************************)
HashInput(v) ==
  CASE v.kind = "Null"             -> <<"u8", 0>>
    [] v.kind \in {"Int", "Float"} -> <<"u64", v.word>>
    [] v.kind = "String"           -> <<"str", v.text>>
    [] v.kind = "Bytes"            -> <<"slice", v.blob>>

hash_value(v) == Digest(HashInput(v))

(***************************************************************************)
(* The maximal runs of characters of s that lie in keep, as pairs of first  *)
(* and last position: what split(..).filter(non-empty) yields.              *)
(***************************************************************************)
Runs(s, keep) ==
  {r \in (1..Len(s)) \X (1..Len(s)) :
     /\ r[1] <= r[2]
     /\ \A i \in r[1]..r[2] : s[i] \in keep
     /\ r[1] > 1 => s[r[1] - 1] \notin keep
     /\ r[2] < Len(s) => s[r[2] + 1] \notin keep}

\* How often the term w occurs among the tokens of text s (tokenize).
TokenCount(s, w) ==
  Cardinality({r \in Runs(s, AlphaNum) : SubSeq(s, r[1], r[2]) = w})

Tokens(s) == {SubSeq(s, r[1], r[2]) : r \in Runs(s, AlphaNum)}

\* The words of a query text, cut at white space only (split_whitespace).
Words(s) == {SubSeq(s, r[1], r[2]) : r \in Runs(s, Char \ White)}

\* The first of them: the one whose postings search_terms starts from.
FirstWord(s) ==
  LET first == CHOOSE r \in Runs(s, Char \ White) :
                 \A o \in Runs(s, Char \ White) : r[1] <= o[1]
  IN SubSeq(s, first[1], first[2])

-----------------------------------------------------------------------------
ASSUME TableAssumption ==
  /\ NumCols \in Nat
  /\ RowInput \subseteq Seq(Value)
  /\ MaxRowId \in Nat

\* Every search names a column, which need not exist, and a search type.
ASSUME QueryAssumption ==
  \A q \in Query :
    /\ q.column \in Nat
    /\ \/ q.type = "Exact" /\ q.value.kind \in {"Null", "Int", "Float", "String", "Bytes"}
       \/ q.type \in {"Prefix", "FullText", "Contains"} /\ q.text \in Seq(Char)
       \/ q.type = "Range" /\ q.min \in Int /\ q.max \in Int

Col   == 1..NumCols
RowId == 1..MaxRowId
Row   == {r \in RowInput : Len(r) = NumCols}

\* HashMap::insert.
Filed(r, id, values) == [j \in DOMAIN r \cup {id} |-> IF j = id THEN values ELSE r[j]]

HasText(values) == \E c \in Col : IsStr(values[c])
=============================================================================
