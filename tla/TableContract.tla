--------------------------- MODULE TableContract ---------------------------
(***************************************************************************)
(* What a table promises its callers, with no index in sight: rows filed    *)
(* under ids that count up and are never handed out twice, and searches     *)
(* answered from the rows that are live at that moment.                     *)
(*                                                                          *)
(* A search answers with a set of hits <<id, kind, key, n>>: the row id, the *)
(* kind of key it was found under, the key and a copy number, because the   *)
(* list of ids the program returns holds a row once per occurrence of a     *)
(* token.                                                                   *)
(***************************************************************************)
EXTENDS CellValues

VARIABLES rows,     \* Storage::rows, from the live ids to their values
          nextId,   \* Storage::next_id
          reply     \* what the last call returned

vars == <<rows, nextId, reply>>

-----------------------------------------------------------------------------
\* The keys, with copy numbers, under which a cell v answers the search q.
Found(q, v) ==
  CASE q.type = "Exact" ->
         {k \in {<<"hash", hash_value(q.value), 1>>} : hash_value(v) = hash_value(q.value)}
    [] q.type = "Prefix" ->
         IF IsStr(v) THEN {k \in {<<"trie", v.text, 1>>} : IsPrefix(q.text, v.text)} ELSE {}
    [] q.type = "FullText" ->
         IF IsStr(v) /\ Words(q.text) # {} /\ Words(q.text) \subseteq Tokens(v.text)
         THEN {"terms"} \X {FirstWord(q.text)} \X (1..TokenCount(v.text, FirstWord(q.text)))
         ELSE {}
    [] q.type = "Range" ->
         IF IsInt(v) THEN {k \in {<<"sorted", v.word, 1>>} : q.min <= v.word /\ v.word <= q.max}
                     ELSE {}
    [] q.type = "Contains" ->
         IF IsStr(v) THEN {"terms"} \X {q.text} \X (1..TokenCount(v.text, q.text)) ELSE {}

Hits(q) ==
  UNION {{<<id, k[1], k[2], k[3]>> : k \in Found(q, rows[id][q.column])} : id \in DOMAIN rows}

(***************************************************************************)
(* The answers q may get.  A search for a text that no live row holds may   *)
(* come back empty even where another value has the same digest, and a      *)
(* column the table does not have answers nothing.                          *)
(***************************************************************************)
Answers(q) ==
  IF q.column \notin Col THEN {{}}
  ELSE {Hits(q)} \cup
       {a \in {{}} : /\ q.type = "Exact"
                     /\ IsStr(q.value)
                     /\ \A id \in DOMAIN rows : rows[id][q.column] # q.value}

-----------------------------------------------------------------------------
Init ==
  /\ rows = <<>>
  /\ nextId = 1
  /\ reply = [op |-> "none"]

Insert(values) ==
  /\ nextId \in RowId
  /\ rows' = Filed(rows, nextId, values)
  /\ nextId' = nextId + 1
  /\ reply' = [op |-> "insert", id |-> nextId]

Delete(id) ==
  /\ rows' = Restrict(rows, DOMAIN rows \ {id})
  /\ reply' = [op |-> "delete", found |-> id \in DOMAIN rows]
  /\ UNCHANGED nextId

Update(id, values) ==
  /\ rows' = [r \in DOMAIN rows |-> IF r = id THEN values ELSE rows[r]]
  /\ reply' = [op |-> "update", found |-> id \in DOMAIN rows]
  /\ UNCHANGED nextId

Refuse(values) ==
  /\ Len(values) # NumCols
  /\ reply' = [op |-> "refused", values |-> values]
  /\ UNCHANGED <<rows, nextId>>

Search(q) ==
  /\ \E a \in Answers(q) : reply' = [op |-> "search", query |-> q, hits |-> a]
  /\ UNCHANGED <<rows, nextId>>

Next ==
  \/ \E values \in Row : Insert(values)
  \/ \E id \in RowId : Delete(id)
  \/ \E id \in RowId, values \in Row : Update(id, values)
  \/ \E values \in RowInput : Refuse(values)
  \/ \E q \in Query : Search(q)

Spec == Init /\ [][Next]_vars
=============================================================================
