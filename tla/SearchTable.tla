---------------------------- MODULE SearchTable ----------------------------
(***************************************************************************)
(* One quickset table as the code keeps it (table.rs): the row storage      *)
(* (storage.rs) and, per column, the five indexes of the search engine      *)
(* (search.rs, index.rs), which every insert, update and delete has to keep *)
(* in step with the rows and which alone answer the searches.               *)
(*                                                                          *)
(* A posting list (Vec<RowId> under a key) is the count of each row id in   *)
(* it: pushes are not deduplicated and retain drops every copy of an id.    *)
(* The order of a list is left out, the entries of SortedIndex included;    *)
(* module SortedIndex models those.                                         *)
(*                                                                          *)
(* A panic ends the process: the release profile says panic = "abort".      *)
(***************************************************************************)
EXTENDS CellValues

CONSTANTS Capacities,     \* the capacities that tables are made with
          BloomHash(_)    \* the FNV-1a hashes of a text, before % num_bits

ASSUME BloomAssumption ==
  /\ Capacities \subseteq Nat
  /\ \A t \in Text : BloomHash(t) \subseteq Nat

HashKey == {hash_value(v) : v \in Value}
Term    == UNION {Tokens(t) : t \in Text}
Path    == {<<>>} \cup UNION {Prefixes(t) : t \in Text}

VARIABLES capacity,  \* what with_capacity() was called with
          rows,      \* Storage::rows
          nextId,    \* Storage::next_id
          engine,    \* SearchEngine: the indexes, each a function on Col
          call,      \* the last call
          reply,     \* what it returned
          panicked   \* it aborted the process

vars == <<capacity, rows, nextId, engine, call, reply, panicked>>

Postings(Keys) == [Col -> [Keys -> [RowId -> Nat]]]
Hits(Keys)     == [Col -> [Keys -> Nat]]

Engine == [hash : Postings(HashKey), terms : Postings(Term),
           trie : Postings(Text), nodes : [Col -> SUBSET Path],
           sorted : Postings(Word), bloom : [Col -> SUBSET Nat], num_bits : Nat]

Call == [op : {"insert"}, values : RowInput] \cup [op : {"delete"}, id : RowId]
        \cup [op : {"update"}, id : RowId, values : RowInput]
        \cup [op : {"search"}, query : Query]

Rows == UNION {[S -> Row] : S \in SUBSET RowId}

\* The type invariant: live ids were handed out, indexes count postings.
TypeOK ==
  /\ capacity \in Capacities
  /\ rows \in Rows
  /\ nextId \in 1..(MaxRowId + 1)
  /\ DOMAIN rows \subseteq 1..(nextId - 1)
  /\ engine \in Engine
  /\ call \in Call \cup {[op |-> "none"]}
  /\ panicked \in BOOLEAN

-----------------------------------------------------------------------------
(* What a row contributes to each index: how often it is pushed under a key. *)

HashHits(values) ==
  [c \in Col |-> [k \in HashKey |-> IF k = hash_value(values[c]) THEN 1 ELSE 0]]

TermHits(values) ==
  [c \in Col |-> [w \in Term |->
     IF IsStr(values[c]) THEN TokenCount(values[c].text, w) ELSE 0]]

TrieHits(values) ==
  [c \in Col |-> [t \in Text |-> IF values[c] = StrV(t) THEN 1 ELSE 0]]

SortedHits(values) ==
  [c \in Col |-> [w \in Word |-> IF values[c] = IntV(w) THEN 1 ELSE 0]]

\* The trie nodes on the path of a cell's text, the root among them.
PathOf(v) == IF IsStr(v) THEN Prefixes(v.text) ELSE {}

\* Fault: the bits are rounded down to whole words.
num_bits_rounded_down(expected_items) ==
  (((expected_items * 1437759 + 99999) \div 100000) \div 64) * 64

\* BloomFilter::new(capacity, 0.001): 14.37759 bits an item, in whole u64s.
num_bits(expected_items) ==
  LET bits_needed == (expected_items * 1437759 + 99999) \div 100000
  IN  ((bits_needed + 63) \div 64) * 64

BloomBits(bits, v) ==
  IF IsStr(v) THEN {h % bits : h \in BloomHash(v.text)} ELSE {}

-----------------------------------------------------------------------------
Pushed(ix, id, hits) ==
  [c \in Col |-> [k \in DOMAIN ix[c] |-> [ix[c][k] EXCEPT ![id] = @ + hits[c][k]]]]

Retained(ix, id, hits) ==
  [c \in Col |-> [k \in DOMAIN ix[c] |->
     [ix[c][k] EXCEPT ![id] = IF hits[c][k] > 0 THEN 0 ELSE @]]]

\* TrieIndex::remove gives up where the path of the key breaks off.
Reached(nodes, hits) ==
  [c \in Col |-> [t \in Text |-> IF t \in nodes[c] THEN hits[c][t] ELSE 0]]

index_row(e, id, values) ==
  [hash   |-> Pushed(e.hash, id, HashHits(values)),
   terms  |-> Pushed(e.terms, id, TermHits(values)),
   trie   |-> Pushed(e.trie, id, TrieHits(values)),
   nodes  |-> [c \in Col |-> e.nodes[c] \cup PathOf(values[c])],
   sorted |-> Pushed(e.sorted, id, SortedHits(values)),
   bloom  |-> [c \in Col |-> e.bloom[c] \cup BloomBits(e.num_bits, values[c])],
   num_bits |-> e.num_bits]

\* Fault: the trie keeps the postings of a removed row.
remove_row_keeps_trie(e, id, values) ==
  [e EXCEPT !.hash   = Retained(@, id, HashHits(values)),
            !.terms  = Retained(@, id, TermHits(values)),
            !.sorted = Retained(@, id, SortedHits(values))]

\* Fault: the range index keeps the entries of a removed row.
remove_row_keeps_sorted(e, id, values) ==
  [e EXCEPT !.hash  = Retained(@, id, HashHits(values)),
            !.terms = Retained(@, id, TermHits(values)),
            !.trie  = Retained(@, id, Reached(e.nodes, TrieHits(values)))]

\* Fault: the bits of a removed text are cleared, shared ones too.
remove_row_clears_bloom(e, id, values) ==
  [e EXCEPT !.hash   = Retained(@, id, HashHits(values)),
            !.terms  = Retained(@, id, TermHits(values)),
            !.trie   = Retained(@, id, Reached(e.nodes, TrieHits(values))),
            !.sorted = Retained(@, id, SortedHits(values)),
            !.bloom  = [c \in Col |-> @[c] \ BloomBits(e.num_bits, values[c])]]

\* Trie nodes and bloom bits stay: nothing in the code takes them back.
remove_row(e, id, values) ==
  [hash   |-> Retained(e.hash, id, HashHits(values)),
   terms  |-> Retained(e.terms, id, TermHits(values)),
   trie   |-> Retained(e.trie, id, Reached(e.nodes, TrieHits(values))),
   nodes  |-> e.nodes,
   sorted |-> Retained(e.sorted, id, SortedHits(values)),
   bloom  |-> e.bloom,
   num_bits |-> e.num_bits]

\* BloomFilter::hash takes % num_bits: indexing a text in an empty filter panics.
CanIndex(values) == HasText(values) => engine.num_bits > 0

-----------------------------------------------------------------------------
\* The posting list of index ix under key k of column c, as the set of its
\* entries <<id, ix, key, copy>>.
Listed(ix, c, k) ==
  IF k \in DOMAIN engine[ix][c]
  THEN UNION {{<<id, ix, k, n>> : n \in 1..engine[ix][c][k][id]} : id \in RowId}
  ELSE {}

may_contain(c, v) == BloomBits(engine.num_bits, v) \subseteq engine.bloom[c]

search_exact(c, v) ==
  IF IsStr(v) /\ ~ may_contain(c, v) THEN {} ELSE Listed("hash", c, hash_value(v))

search_prefix(c, p) ==
  IF p \in engine.nodes[c]
  THEN UNION {Listed("trie", c, t) : t \in {s \in Text : IsPrefix(p, s)}}
  ELSE {}

\* The postings of the first word, retained where every other word has the row.
search_terms(c, text) ==
  IF Words(text) = {} THEN {}
  ELSE {h \in Listed("terms", c, FirstWord(text)) :
          \A w \in Words(text) : \E o \in Listed("terms", c, w) : o[1] = h[1]}

search_range(c, min, max) ==
  UNION {Listed("sorted", c, w) : w \in {i \in Word : min <= i /\ i <= max}}

Answer(q) ==
  IF q.column \notin Col THEN {}
  ELSE CASE q.type = "Exact"    -> search_exact(q.column, q.value)
         [] q.type = "Prefix"   -> search_prefix(q.column, q.text)
         [] q.type = "FullText" -> search_terms(q.column, q.text)
         [] q.type = "Range"    -> search_range(q.column, q.min, q.max)
         [] q.type = "Contains" -> Listed("terms", q.column, q.text)

\* entries[start..end] panics when start > end: a bound below the other one,
\* with an entry strictly between them.
ReversedSlice(c, min, max) ==
  \E w \in Word, id \in RowId : max < w /\ w < min /\ engine.sorted[c][w][id] > 0

CanAnswer(q) ==
  q.column \in Col =>
    /\ (q.type = "Exact" /\ IsStr(q.value)) => engine.num_bits > 0
    /\ q.type = "Range" => ~ ReversedSlice(q.column, q.min, q.max)

-----------------------------------------------------------------------------
NoPostings(Keys) == [c \in Col |-> [k \in Keys |-> [id \in RowId |-> 0]]]

\* with_capacity; a new trie is its root node, the empty path.
Init ==
  /\ capacity \in Capacities
  /\ rows = <<>>
  /\ nextId = 1
  /\ engine = [hash |-> NoPostings(HashKey), terms |-> NoPostings(Term),
               trie |-> NoPostings(Text), nodes |-> [c \in Col |-> {<<>>}],
               sorted |-> NoPostings(Word), bloom |-> [c \in Col |-> {}],
               num_bits |-> num_bits(capacity)]
  /\ call = [op |-> "none"]
  /\ reply = [op |-> "none"]
  /\ panicked = FALSE

Panic == panicked' = TRUE /\ UNCHANGED <<rows, nextId, engine, reply>>

\* Fault: the id is taken from the counter, which is not advanced.
InsertKeepsCounter(values) ==
  /\ Len(values) = NumCols
  /\ CanIndex(values)
  /\ nextId <= MaxRowId
  /\ rows' = Filed(rows, nextId, values)
  /\ engine' = index_row(engine, nextId, values)
  /\ reply' = [op |-> "insert", id |-> nextId]
  /\ UNCHANGED <<nextId, panicked>>

\* Fault: the id is one more than the number of rows.
InsertAtLen(values) ==
  LET id == Cardinality(DOMAIN rows) + 1 IN
  /\ Len(values) = NumCols
  /\ CanIndex(values)
  /\ nextId <= MaxRowId
  /\ rows' = Filed(rows, id, values)
  /\ nextId' = nextId + 1
  /\ engine' = index_row(engine, id, values)
  /\ reply' = [op |-> "insert", id |-> id]
  /\ UNCHANGED panicked

Insert(values) ==
  /\ Len(values) = NumCols
  /\ CanIndex(values)
  /\ nextId <= MaxRowId
  /\ rows' = Filed(rows, nextId, values)
  /\ nextId' = nextId + 1
  /\ engine' = index_row(engine, nextId, values)
  /\ reply' = [op |-> "insert", id |-> nextId]
  /\ UNCHANGED panicked

Delete(id) ==
  /\ id \in DOMAIN rows
  /\ rows' = Restrict(rows, DOMAIN rows \ {id})
  /\ engine' = remove_row(engine, id, rows[id])
  /\ reply' = [op |-> "delete", found |-> TRUE]
  /\ UNCHANGED <<nextId, panicked>>

Update(id, values) ==
  /\ Len(values) = NumCols
  /\ CanIndex(values)
  /\ id \in DOMAIN rows
  /\ engine' = index_row(remove_row(engine, id, rows[id]), id, values)
  /\ rows' = [rows EXCEPT ![id] = values]
  /\ reply' = [op |-> "update", found |-> TRUE]
  /\ UNCHANGED <<nextId, panicked>>

\* delete and update of an id that is not live change nothing.
Missing(id, op) ==
  /\ id \notin DOMAIN rows
  /\ reply' = [op |-> op, found |-> FALSE]
  /\ UNCHANGED <<rows, nextId, engine, panicked>>

\* insert and update check the number of values before anything else.
Refuse(values) ==
  /\ Len(values) # NumCols
  /\ reply' = [op |-> "refused", values |-> values]
  /\ UNCHANGED <<rows, nextId, engine, panicked>>

Search(q) ==
  /\ CanAnswer(q)
  /\ reply' = [op |-> "search", query |-> q, hits |-> Answer(q)]
  /\ UNCHANGED <<rows, nextId, engine, panicked>>

InsertPanics(values) ==
  /\ Len(values) = NumCols
  /\ ~ CanIndex(values)
  /\ nextId <= MaxRowId
  /\ Panic

UpdatePanics(id, values) ==
  /\ Len(values) = NumCols
  /\ ~ CanIndex(values)
  /\ id \in DOMAIN rows
  /\ Panic

SearchPanics(q) == ~ CanAnswer(q) /\ Panic

Next ==
  /\ ~ panicked
  /\ capacity' = capacity
  /\ \/ \E values \in RowInput :
          /\ call' = [op |-> "insert", values |-> values]
          /\ Insert(values) \/ Refuse(values) \/ InsertPanics(values)
     \/ \E id \in RowId :
          /\ call' = [op |-> "delete", id |-> id]
          /\ Delete(id) \/ Missing(id, "delete")
     \/ \E id \in RowId, values \in RowInput :
          /\ call' = [op |-> "update", id |-> id, values |-> values]
          /\ \/ Update(id, values) \/ Refuse(values) \/ UpdatePanics(id, values)
             \/ Len(values) = NumCols /\ Missing(id, "update")
     \/ \E q \in Query :
          /\ call' = [op |-> "search", query |-> q]
          /\ Search(q) \/ SearchPanics(q)

Spec == Init /\ [][Next]_vars

-----------------------------------------------------------------------------
\* Index ix holds, under every key, what the rows r contribute and no more.
HashMirrors(ix, r) ==
  \A c \in Col, k \in HashKey, id \in RowId :
    ix[c][k][id] = IF id \in DOMAIN r THEN HashHits(r[id])[c][k] ELSE 0

TermsMirror(ix, r) ==
  \A c \in Col, k \in Term, id \in RowId :
    ix[c][k][id] = IF id \in DOMAIN r THEN TermHits(r[id])[c][k] ELSE 0

TrieMirrors(ix, r) ==
  \A c \in Col, k \in Text, id \in RowId :
    ix[c][k][id] = IF id \in DOMAIN r THEN TrieHits(r[id])[c][k] ELSE 0

SortedMirrors(ix, r) ==
  \A c \in Col, k \in Word, id \in RowId :
    ix[c][k][id] = IF id \in DOMAIN r THEN SortedHits(r[id])[c][k] ELSE 0

\* The trie has the nodes and the bloom filter the bits of every cell of r.
ResidueCovers(e, r) ==
  \A id \in DOMAIN r : \A c \in Col :
    PathOf(r[id][c]) \subseteq e.nodes[c] /\ BloomBits(e.num_bits, r[id][c]) \subseteq e.bloom[c]

Mirrors(e, r) ==
  /\ HashMirrors(e.hash, r)
  /\ TermsMirror(e.terms, r)
  /\ TrieMirrors(e.trie, r)
  /\ SortedMirrors(e.sorted, r)
  /\ ResidueCovers(e, r)

\* Every index holds exactly what the live rows put there: no posting is left
\* behind by a delete or an update, none is missing or doubled, and neither the
\* trie nor the bloom filter ("can have false positives but not false
\* negatives", index.rs:445) denies a live text.
IndexesMatchRows == Mirrors(engine, rows)

\* In a table made for no rows (a capacity of 0 in the request, or a sync of an
\* empty source) a text can neither be written nor looked up.
NeedsFilter(c) ==
  \/ c.op = "insert" /\ Len(c.values) = NumCols /\ HasText(c.values)
  \/ /\ c.op = "update" /\ c.id \in DOMAIN rows
     /\ Len(c.values) = NumCols /\ HasText(c.values)
  \/ /\ c.op = "search" /\ c.query.column \in Col
     /\ c.query.type = "Exact" /\ IsStr(c.query.value)

\* A range whose bounds are reversed, with a live number strictly between them.
StraddlesRow(c) ==
  /\ c.op = "search" /\ c.query.column \in Col /\ c.query.type = "Range"
  /\ \E id \in DOMAIN rows : LET cell == rows[id][c.query.column] IN
       IsInt(cell) /\ c.query.max < cell.word /\ cell.word < c.query.min

\* What aborts the process, said of the calls and the live rows alone: these two
\* kinds of calls do, at any time, and no other does, whatever rows came and
\* went (the % of BloomFilter::hash, the slice of SortedIndex::search_range).
AbortsExactly ==
  [][panicked' <=> (capacity = 0 /\ NeedsFilter(call')) \/ StraddlesRow(call')]_vars

\* An id that was handed out and is no longer live never comes back to life
\* (Storage::insert counts next_id up and never looks at the rows).
DeletedIdStaysDead ==
  [][\A id \in 1..(nextId - 1) : id \notin DOMAIN rows => id \notin DOMAIN rows']_vars

\* The indexed table serves the contract: every reply, searches included, is
\* one that the rows alone justify.
Contract == INSTANCE TableContract
ServesContract == Contract!Spec
=============================================================================
