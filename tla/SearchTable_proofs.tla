------------------------- MODULE SearchTable_proofs -------------------------
(***************************************************************************)
(* Proofs about SearchTable for every schema, every set of rows and         *)
(* searches and every digest and bloom hash.                                *)
(***************************************************************************)
EXTENDS SearchTable, TLAPS, FiniteSetTheorems

-----------------------------------------------------------------------------
(* What a row contributes to the indexes is well typed. *)

LEMMA TokenCountNat ==
  ASSUME NEW s \in Seq(Char), NEW w
  PROVE  TokenCount(s, w) \in Nat
<1>. DEFINE Pairs == (1..Len(s)) \X (1..Len(s))
            Match == {r \in Runs(s, AlphaNum) : SubSeq(s, r[1], r[2]) = w}
<1>1. Len(s) \in Nat
  OBVIOUS
<1>2. IsFiniteSet(1..Len(s))
  BY <1>1, FS_Interval
<1>3. IsFiniteSet(Pairs)
  BY <1>2, FS_Product
<1>4. Match \subseteq Pairs
  BY DEF Runs
<1>5. IsFiniteSet(Match)
  BY <1>3, <1>4, FS_Subset
<1>. QED
  BY <1>5, FS_CardinalityType DEF TokenCount

LEMMA RowCells ==
  ASSUME NEW values \in Row, NEW c \in Col
  PROVE  values[c] \in Value
  BY TableAssumption DEF Row, Col

LEMMA ValueText ==
  ASSUME NEW v \in Value, IsStr(v)
  PROVE  v.text \in Text /\ v.text \in Seq(Char) /\ v = StrV(v.text)
<1>1. PICK t \in Text : v = StrV(t)
  BY DEF Value, IsStr, Null, IntV, FloatV, StrV, BytesV
<1>. QED
  BY <1>1, CharAssumption DEF StrV

LEMMA ValueWord ==
  ASSUME NEW v \in Value, IsInt(v)
  PROVE  v.word \in Word /\ v = IntV(v.word)
<1>1. PICK w \in Word : v = IntV(w)
  BY DEF Value, IsInt, Null, IntV, FloatV, StrV, BytesV
<1>. QED
  BY <1>1 DEF IntV

LEMMA HitsTyped ==
  ASSUME NEW values \in Row
  PROVE  /\ HashHits(values) \in Hits(HashKey)
         /\ TermHits(values) \in Hits(Term)
         /\ TrieHits(values) \in Hits(Text)
         /\ SortedHits(values) \in Hits(Word)
<1>1. HashHits(values) \in Hits(HashKey)
  BY DEF HashHits, Hits
<1>2. ASSUME NEW c \in Col, NEW w \in Term
      PROVE  (IF IsStr(values[c]) THEN TokenCount(values[c].text, w) ELSE 0) \in Nat
  BY RowCells, ValueText, TokenCountNat
<1>3. TermHits(values) \in Hits(Term)
  BY <1>2 DEF TermHits, Hits
<1>4. TrieHits(values) \in Hits(Text)
  BY DEF TrieHits, Hits
<1>5. SortedHits(values) \in Hits(Word)
  BY DEF SortedHits, Hits
<1>. QED
  BY <1>1, <1>3, <1>4, <1>5

\* BloomFilter::new: an empty filter comes from an expected count of zero, and
\* from nothing else.
LEMMA NumBits ==
  ASSUME NEW n \in Nat
  PROVE  num_bits(n) \in Nat /\ (num_bits(n) = 0 <=> n = 0)
  BY DEF num_bits

LEMMA ResidueTyped ==
  ASSUME NEW values \in Row, NEW c \in Col, NEW bits \in Nat, HasText(values) => bits > 0
  PROVE  /\ PathOf(values[c]) \subseteq Path
         /\ BloomBits(bits, values[c]) \in SUBSET Nat
<1>1. PathOf(values[c]) \subseteq Path
  BY RowCells, ValueText DEF PathOf, Path
<1>2. CASE IsStr(values[c])
  <2>1. bits > 0
    BY <1>2 DEF HasText
  <2>2. \A h \in BloomHash(values[c].text) : h \in Nat
    BY <1>2, RowCells, ValueText, BloomAssumption
  <2>. QED
    BY <1>1, <2>1, <2>2 DEF BloomBits
<1>3. CASE ~ IsStr(values[c])
  BY <1>1, <1>3 DEF BloomBits
<1>. QED
  BY <1>2, <1>3

-----------------------------------------------------------------------------
(* The two ways the posting lists change. *)

LEMMA PushedPostings ==
  ASSUME NEW Keys, NEW ix \in Postings(Keys), NEW id \in RowId, NEW hits \in Hits(Keys)
  PROVE  /\ Pushed(ix, id, hits) \in Postings(Keys)
         /\ \A c \in Col, k \in Keys, j \in RowId :
              Pushed(ix, id, hits)[c][k][j] =
                IF j = id THEN ix[c][k][j] + hits[c][k] ELSE ix[c][k][j]
  BY DEF Pushed, Postings, Hits

LEMMA RetainedPostings ==
  ASSUME NEW Keys, NEW ix \in Postings(Keys), NEW id \in RowId, NEW hits \in Hits(Keys)
  PROVE  /\ Retained(ix, id, hits) \in Postings(Keys)
         /\ \A c \in Col, k \in Keys, j \in RowId :
              Retained(ix, id, hits)[c][k][j] =
                IF j = id /\ hits[c][k] > 0 THEN 0 ELSE ix[c][k][j]
  BY DEF Retained, Postings, Hits

-----------------------------------------------------------------------------
(* index_row and remove_row keep the indexes the mirror of the rows. *)

LEMMA RowsFacts ==
  ASSUME NEW r \in Rows
  PROVE  /\ DOMAIN r \subseteq RowId
         /\ \A id \in DOMAIN r : r[id] \in Row
  BY DEF Rows

LEMMA AddedRow ==
  ASSUME NEW r \in Rows, NEW id \in RowId, NEW values \in Row
  PROVE  /\ Filed(r, id, values) \in Rows
         /\ DOMAIN Filed(r, id, values) = DOMAIN r \cup {id}
         /\ Filed(r, id, values)[id] = values
         /\ \A j \in DOMAIN r : j # id => Filed(r, id, values)[j] = r[j]
<1>. DEFINE added == Filed(r, id, values)
<1>1. DOMAIN added = DOMAIN r \cup {id}
  BY DEF Filed
<1>2. added[id] = values /\ \A j \in DOMAIN r : j # id => added[j] = r[j]
  BY DEF Filed
<1>3. added = [j \in DOMAIN r \cup {id} |-> added[j]]
  BY <1>1 DEF Filed
<1>4. \A j \in DOMAIN r \cup {id} : added[j] \in Row
  BY <1>2, RowsFacts
<1>5. DOMAIN r \cup {id} \in SUBSET RowId
  BY RowsFacts
<1>6. added \in [DOMAIN r \cup {id} -> Row]
  BY <1>3, <1>4
<1>. QED
  BY <1>1, <1>2, <1>5, <1>6 DEF Rows

LEMMA RemovedRow ==
  ASSUME NEW r \in Rows, NEW id \in RowId
  PROVE  /\ Restrict(r, DOMAIN r \ {id}) \in Rows
         /\ DOMAIN Restrict(r, DOMAIN r \ {id}) = DOMAIN r \ {id}
         /\ \A j \in DOMAIN r : j # id => Restrict(r, DOMAIN r \ {id})[j] = r[j]
<1>. DEFINE kept == Restrict(r, DOMAIN r \ {id})
<1>1. kept = [j \in DOMAIN r \ {id} |-> r[j]]
  BY DEF Restrict
<1>2. \A j \in DOMAIN r \ {id} : r[j] \in Row
  BY RowsFacts
<1>3. DOMAIN r \ {id} \in SUBSET RowId
  BY RowsFacts
<1>4. kept \in [DOMAIN r \ {id} -> Row]
  BY <1>1, <1>2
<1>. QED
  BY <1>1, <1>3, <1>4 DEF Rows

LEMMA IndexRowMirrors ==
  ASSUME NEW e \in Engine, NEW r \in Rows, NEW id \in RowId, NEW values \in Row,
         id \notin DOMAIN r, HasText(values) => e.num_bits > 0, Mirrors(e, r)
  PROVE  /\ index_row(e, id, values) \in Engine
         /\ index_row(e, id, values).num_bits = e.num_bits
         /\ Mirrors(index_row(e, id, values), Filed(r, id, values))
<1>. DEFINE n == index_row(e, id, values)
            added == Filed(r, id, values)
<1>1. /\ e.hash \in Postings(HashKey) /\ e.terms \in Postings(Term)
      /\ e.trie \in Postings(Text) /\ e.sorted \in Postings(Word)
      /\ e.nodes \in [Col -> SUBSET Path] /\ e.bloom \in [Col -> SUBSET Nat]
      /\ e.num_bits \in Nat
  BY DEF Engine
<1>2. /\ n.hash = Pushed(e.hash, id, HashHits(values))
      /\ n.terms = Pushed(e.terms, id, TermHits(values))
      /\ n.trie = Pushed(e.trie, id, TrieHits(values))
      /\ n.sorted = Pushed(e.sorted, id, SortedHits(values))
      /\ n.nodes = [c \in Col |-> e.nodes[c] \cup PathOf(values[c])]
      /\ n.bloom = [c \in Col |-> e.bloom[c] \cup BloomBits(e.num_bits, values[c])]
      /\ n.num_bits = e.num_bits
  BY DEF index_row
<1>3. /\ DOMAIN added = DOMAIN r \cup {id} /\ added[id] = values
      /\ \A j \in DOMAIN r : added[j] = r[j]
  BY DEF Filed
<1>4. n \in Engine
  <2>1. /\ n.hash \in Postings(HashKey) /\ n.terms \in Postings(Term)
        /\ n.trie \in Postings(Text) /\ n.sorted \in Postings(Word)
    BY <1>1, <1>2, HitsTyped, PushedPostings
  <2>2. n.nodes \in [Col -> SUBSET Path] /\ n.bloom \in [Col -> SUBSET Nat]
    BY <1>1, <1>2, ResidueTyped
  <2>. QED
    BY <2>1, <2>2 DEF Engine, index_row
<1>5. HashMirrors(n.hash, added)
  <2>1. \A c \in Col, k \in HashKey, j \in RowId :
          n.hash[c][k][j] = IF j = id THEN e.hash[c][k][j] + HashHits(values)[c][k]
                                      ELSE e.hash[c][k][j]
    BY <1>1, <1>2, HitsTyped, PushedPostings
  <2>2. \A c \in Col, k \in HashKey : HashHits(values)[c][k] \in Nat
    BY HitsTyped DEF Hits
  <2>. QED
    BY <2>1, <2>2, <1>3 DEF Mirrors, HashMirrors
<1>6. TermsMirror(n.terms, added)
  <2>1. \A c \in Col, k \in Term, j \in RowId :
          n.terms[c][k][j] = IF j = id THEN e.terms[c][k][j] + TermHits(values)[c][k]
                                       ELSE e.terms[c][k][j]
    BY <1>1, <1>2, HitsTyped, PushedPostings
  <2>2. \A c \in Col, k \in Term : TermHits(values)[c][k] \in Nat
    BY HitsTyped DEF Hits
  <2>. QED
    BY <2>1, <2>2, <1>3 DEF Mirrors, TermsMirror
<1>7. TrieMirrors(n.trie, added)
  <2>1. \A c \in Col, k \in Text, j \in RowId :
          n.trie[c][k][j] = IF j = id THEN e.trie[c][k][j] + TrieHits(values)[c][k]
                                      ELSE e.trie[c][k][j]
    BY <1>1, <1>2, HitsTyped, PushedPostings
  <2>2. \A c \in Col, k \in Text : TrieHits(values)[c][k] \in Nat
    BY HitsTyped DEF Hits
  <2>. QED
    BY <2>1, <2>2, <1>3 DEF Mirrors, TrieMirrors
<1>8. SortedMirrors(n.sorted, added)
  <2>1. \A c \in Col, k \in Word, j \in RowId :
          n.sorted[c][k][j] = IF j = id THEN e.sorted[c][k][j] + SortedHits(values)[c][k]
                                        ELSE e.sorted[c][k][j]
    BY <1>1, <1>2, HitsTyped, PushedPostings
  <2>2. \A c \in Col, k \in Word : SortedHits(values)[c][k] \in Nat
    BY HitsTyped DEF Hits
  <2>. QED
    BY <2>1, <2>2, <1>3 DEF Mirrors, SortedMirrors
<1>9. ResidueCovers(n, added)
  BY <1>1, <1>2, <1>3 DEF Mirrors, ResidueCovers
<1>. QED
  BY <1>2, <1>4, <1>5, <1>6, <1>7, <1>8, <1>9 DEF Mirrors

\* A live text's own path is in the trie, so remove reaches its postings.
LEMMA ReachedHits ==
  ASSUME NEW nodes \in [Col -> SUBSET Path], NEW values \in Row,
         \A c \in Col : PathOf(values[c]) \subseteq nodes[c]
  PROVE  Reached(nodes, TrieHits(values)) = TrieHits(values)
<1>1. SUFFICES ASSUME NEW c \in Col, NEW t \in Text, t \notin nodes[c]
               PROVE  TrieHits(values)[c][t] = 0
  BY DEF Reached, TrieHits
<1>2. t \in Prefixes(t)
  BY CharAssumption DEF Prefixes
<1>3. values[c] # StrV(t)
  BY <1>1, <1>2 DEF PathOf, IsStr, StrV
<1>. QED
  BY <1>3 DEF TrieHits

LEMMA RemoveRowMirrors ==
  ASSUME NEW e \in Engine, NEW r \in Rows, NEW id \in DOMAIN r, Mirrors(e, r)
  PROVE  /\ remove_row(e, id, r[id]) \in Engine
         /\ remove_row(e, id, r[id]).num_bits = e.num_bits
         /\ Mirrors(remove_row(e, id, r[id]), Restrict(r, DOMAIN r \ {id}))
<1>. DEFINE n == remove_row(e, id, r[id])
            kept == Restrict(r, DOMAIN r \ {id})
<1>0. id \in RowId /\ r[id] \in Row
  BY RowsFacts
<1>1. /\ e.hash \in Postings(HashKey) /\ e.terms \in Postings(Term)
      /\ e.trie \in Postings(Text) /\ e.sorted \in Postings(Word)
      /\ e.nodes \in [Col -> SUBSET Path] /\ e.bloom \in [Col -> SUBSET Nat]
      /\ e.num_bits \in Nat
  BY DEF Engine
<1>2. /\ n.hash = Retained(e.hash, id, HashHits(r[id]))
      /\ n.terms = Retained(e.terms, id, TermHits(r[id]))
      /\ n.trie = Retained(e.trie, id, TrieHits(r[id]))
      /\ n.sorted = Retained(e.sorted, id, SortedHits(r[id]))
      /\ n.nodes = e.nodes
      /\ n.bloom = e.bloom
      /\ n.num_bits = e.num_bits
  <2>1. Reached(e.nodes, TrieHits(r[id])) = TrieHits(r[id])
    BY <1>0, <1>1, ReachedHits DEF Mirrors, ResidueCovers
  <2>. QED
    BY <2>1 DEF remove_row
<1>3. DOMAIN kept = DOMAIN r \ {id} /\ \A j \in DOMAIN r : j # id => kept[j] = r[j]
  BY <1>0, RemovedRow
<1>4. n \in Engine
  <2>1. /\ n.hash \in Postings(HashKey) /\ n.terms \in Postings(Term)
        /\ n.trie \in Postings(Text) /\ n.sorted \in Postings(Word)
    BY <1>0, <1>1, <1>2, HitsTyped, RetainedPostings
  <2>. QED
    BY <2>1, <1>1, <1>2 DEF Engine, remove_row
<1>5. HashMirrors(n.hash, kept)
  <2>1. \A c \in Col, k \in HashKey, j \in RowId :
          n.hash[c][k][j] = IF j = id /\ HashHits(r[id])[c][k] > 0 THEN 0
                                                                   ELSE e.hash[c][k][j]
    BY <1>0, <1>1, <1>2, HitsTyped, RetainedPostings
  <2>2. \A c \in Col, k \in HashKey : HashHits(r[id])[c][k] > 0 \/ HashHits(r[id])[c][k] = 0
    BY <1>0, HitsTyped DEF Hits
  <2>3. ASSUME NEW c \in Col, NEW k \in HashKey, NEW j \in RowId
        PROVE  n.hash[c][k][j] = IF j \in DOMAIN kept THEN HashHits(kept[j])[c][k] ELSE 0
    <3>1. e.hash[c][k][j] = IF j \in DOMAIN r THEN HashHits(r[j])[c][k] ELSE 0
      BY DEF Mirrors, HashMirrors
    <3>2. CASE j = id
      BY <3>1, <3>2, <2>1, <2>2, <1>3
    <3>3. CASE j # id
      BY <3>1, <3>3, <2>1, <1>3
    <3>. QED
      BY <3>2, <3>3
  <2>. QED
    BY <2>3 DEF HashMirrors
<1>6. TermsMirror(n.terms, kept)
  <2>1. \A c \in Col, k \in Term, j \in RowId :
          n.terms[c][k][j] = IF j = id /\ TermHits(r[id])[c][k] > 0 THEN 0
                                                                    ELSE e.terms[c][k][j]
    BY <1>0, <1>1, <1>2, HitsTyped, RetainedPostings
  <2>2. \A c \in Col, k \in Term : TermHits(r[id])[c][k] > 0 \/ TermHits(r[id])[c][k] = 0
    BY <1>0, HitsTyped DEF Hits
  <2>3. ASSUME NEW c \in Col, NEW k \in Term, NEW j \in RowId
        PROVE  n.terms[c][k][j] = IF j \in DOMAIN kept THEN TermHits(kept[j])[c][k] ELSE 0
    <3>1. e.terms[c][k][j] = IF j \in DOMAIN r THEN TermHits(r[j])[c][k] ELSE 0
      BY DEF Mirrors, TermsMirror
    <3>2. CASE j = id
      BY <3>1, <3>2, <2>1, <2>2, <1>3
    <3>3. CASE j # id
      BY <3>1, <3>3, <2>1, <1>3
    <3>. QED
      BY <3>2, <3>3
  <2>. QED
    BY <2>3 DEF TermsMirror
<1>7. TrieMirrors(n.trie, kept)
  <2>1. \A c \in Col, k \in Text, j \in RowId :
          n.trie[c][k][j] = IF j = id /\ TrieHits(r[id])[c][k] > 0 THEN 0
                                                                   ELSE e.trie[c][k][j]
    BY <1>0, <1>1, <1>2, HitsTyped, RetainedPostings
  <2>2. \A c \in Col, k \in Text : TrieHits(r[id])[c][k] > 0 \/ TrieHits(r[id])[c][k] = 0
    BY <1>0, HitsTyped DEF Hits
  <2>3. ASSUME NEW c \in Col, NEW k \in Text, NEW j \in RowId
        PROVE  n.trie[c][k][j] = IF j \in DOMAIN kept THEN TrieHits(kept[j])[c][k] ELSE 0
    <3>1. e.trie[c][k][j] = IF j \in DOMAIN r THEN TrieHits(r[j])[c][k] ELSE 0
      BY DEF Mirrors, TrieMirrors
    <3>2. CASE j = id
      BY <3>1, <3>2, <2>1, <2>2, <1>3
    <3>3. CASE j # id
      BY <3>1, <3>3, <2>1, <1>3
    <3>. QED
      BY <3>2, <3>3
  <2>. QED
    BY <2>3 DEF TrieMirrors
<1>8. SortedMirrors(n.sorted, kept)
  <2>1. \A c \in Col, k \in Word, j \in RowId :
          n.sorted[c][k][j] = IF j = id /\ SortedHits(r[id])[c][k] > 0 THEN 0
                                                                      ELSE e.sorted[c][k][j]
    BY <1>0, <1>1, <1>2, HitsTyped, RetainedPostings
  <2>2. \A c \in Col, k \in Word : SortedHits(r[id])[c][k] > 0 \/ SortedHits(r[id])[c][k] = 0
    BY <1>0, HitsTyped DEF Hits
  <2>3. ASSUME NEW c \in Col, NEW k \in Word, NEW j \in RowId
        PROVE  n.sorted[c][k][j] = IF j \in DOMAIN kept THEN SortedHits(kept[j])[c][k] ELSE 0
    <3>1. e.sorted[c][k][j] = IF j \in DOMAIN r THEN SortedHits(r[j])[c][k] ELSE 0
      BY DEF Mirrors, SortedMirrors
    <3>2. CASE j = id
      BY <3>1, <3>2, <2>1, <2>2, <1>3
    <3>3. CASE j # id
      BY <3>1, <3>3, <2>1, <1>3
    <3>. QED
      BY <3>2, <3>3
  <2>. QED
    BY <2>3 DEF SortedMirrors
<1>9. ResidueCovers(n, kept)
  BY <1>2, <1>3 DEF Mirrors, ResidueCovers
<1>. QED
  BY <1>2, <1>4, <1>5, <1>6, <1>7, <1>8, <1>9 DEF Mirrors

-----------------------------------------------------------------------------
(* The inductive invariant. *)

FilterSized == engine.num_bits = num_bits(capacity)

IInv == TypeOK /\ FilterSized /\ IndexesMatchRows

LEMMA InitIInv == Init => IInv
<1>. SUFFICES ASSUME Init PROVE IInv
  OBVIOUS
<1>. USE DEF Init
<1>1. rows \in Rows /\ DOMAIN rows = {}
  <2>1. rows = [x \in {} |-> x] /\ DOMAIN rows = {}
    OBVIOUS
  <2>2. rows \in [{} -> Row]
    BY <2>1
  <2>. QED
    BY <2>1, <2>2 DEF Rows
<1>2. nextId \in 1..(MaxRowId + 1)
  BY TableAssumption
<1>3. num_bits(capacity) \in Nat
  BY NumBits, BloomAssumption
<1>4. engine \in Engine
  BY <1>3 DEF Engine, NoPostings, Postings, Path
<1>5. TypeOK
  BY <1>1, <1>2, <1>4 DEF TypeOK
<1>6. Mirrors(engine, rows)
  BY <1>1 DEF Mirrors, NoPostings, HashMirrors, TermsMirror, TrieMirrors, SortedMirrors,
              ResidueCovers
<1>. QED
  BY <1>5, <1>6 DEF IInv, FilterSized, IndexesMatchRows

LEMMA NextIInv == IInv /\ [Next]_vars => IInv'
<1>. SUFFICES ASSUME IInv, [Next]_vars PROVE IInv'
  OBVIOUS
<1>1. /\ rows \in Rows /\ DOMAIN rows \subseteq 1..(nextId - 1)
      /\ nextId \in 1..(MaxRowId + 1) /\ engine \in Engine /\ panicked \in BOOLEAN
      /\ Mirrors(engine, rows) /\ MaxRowId \in Nat
      /\ engine.num_bits = num_bits(capacity) /\ capacity \in Capacities
      /\ call \in Call \cup {[op |-> "none"]}
  BY TableAssumption DEF IInv, TypeOK, IndexesMatchRows, FilterSized
<1>2. capacity' = capacity /\ call' \in Call \cup {[op |-> "none"]}
  BY <1>1 DEF Next, vars, Call
<1>3. ASSUME engine'.num_bits = engine.num_bits PROVE FilterSized'
  BY <1>1, <1>2, <1>3 DEF FilterSized
<1>4. ASSUME NEW values \in RowInput, Insert(values) PROVE IInv'
  <2>1. values \in Row /\ nextId \in RowId /\ nextId \notin DOMAIN rows
    BY <1>1, <1>4 DEF Insert, Row, RowId
  <2>2. /\ rows' = Filed(rows, nextId, values) /\ nextId' = nextId + 1
        /\ engine' = index_row(engine, nextId, values) /\ panicked' = panicked
        /\ HasText(values) => engine.num_bits > 0
    BY <1>4 DEF Insert, CanIndex
  <2>3. /\ engine' \in Engine /\ Mirrors(engine', rows')
        /\ engine'.num_bits = engine.num_bits
    BY <1>1, <2>1, <2>2, IndexRowMirrors
  <2>4. rows' \in Rows /\ DOMAIN rows' = DOMAIN rows \cup {nextId}
    BY <1>1, <2>1, <2>2, AddedRow
  <2>5. nextId' \in 1..(MaxRowId + 1) /\ DOMAIN rows' \subseteq 1..(nextId' - 1)
    BY <1>1, <2>1, <2>2, <2>4 DEF RowId
  <2>. QED
    BY <1>1, <1>2, <1>3, <2>2, <2>3, <2>4, <2>5 DEF IInv, TypeOK, IndexesMatchRows
<1>5. ASSUME NEW id \in RowId, Delete(id) PROVE IInv'
  <2>1. /\ rows' = Restrict(rows, DOMAIN rows \ {id}) /\ nextId' = nextId
        /\ engine' = remove_row(engine, id, rows[id]) /\ panicked' = panicked
        /\ id \in DOMAIN rows
    BY <1>5 DEF Delete
  <2>2. /\ engine' \in Engine /\ Mirrors(engine', rows')
        /\ engine'.num_bits = engine.num_bits
    BY <1>1, <2>1, RemoveRowMirrors
  <2>3. rows' \in Rows /\ DOMAIN rows' = DOMAIN rows \ {id}
    BY <1>1, <2>1, RemovedRow
  <2>. QED
    BY <1>1, <1>2, <1>3, <2>1, <2>2, <2>3 DEF IInv, TypeOK, IndexesMatchRows
<1>6. ASSUME NEW id \in RowId, NEW values \in RowInput, Update(id, values) PROVE IInv'
  <2>. DEFINE kept == Restrict(rows, DOMAIN rows \ {id})
              bare == remove_row(engine, id, rows[id])
  <2>1. /\ rows' = [rows EXCEPT ![id] = values] /\ nextId' = nextId
        /\ engine' = index_row(bare, id, values) /\ panicked' = panicked
        /\ id \in DOMAIN rows /\ values \in Row
        /\ HasText(values) => engine.num_bits > 0
    BY <1>6 DEF Update, Row, CanIndex
  <2>2. bare \in Engine /\ Mirrors(bare, kept) /\ bare.num_bits = engine.num_bits
    BY <1>1, <2>1, RemoveRowMirrors
  <2>3. kept \in Rows /\ id \notin DOMAIN kept
    BY <1>1, RemovedRow
  <2>4. rows' = Filed(kept, id, values)
    BY <2>1, <1>1 DEF Filed, Restrict, Rows
  <2>. HIDE DEF kept, bare
  <2>5. /\ index_row(bare, id, values) \in Engine
        /\ index_row(bare, id, values).num_bits = bare.num_bits
        /\ Mirrors(index_row(bare, id, values), Filed(kept, id, values))
    BY <2>1, <2>2, <2>3, IndexRowMirrors
  <2>6. engine' \in Engine /\ Mirrors(engine', rows') /\ engine'.num_bits = engine.num_bits
    BY <2>1, <2>2, <2>4, <2>5
  <2>7. rows' \in Rows /\ DOMAIN rows' = DOMAIN rows
    <3>1. Filed(kept, id, values) \in Rows
      BY <2>1, <2>3, AddedRow
    <3>. QED
      BY <2>1, <2>4, <3>1
  <2>. QED
    BY <1>1, <1>2, <1>3, <2>1, <2>6, <2>7 DEF IInv, TypeOK, IndexesMatchRows
<1>7. ASSUME UNCHANGED <<rows, nextId, engine>>, panicked' \in BOOLEAN PROVE IInv'
  BY <1>1, <1>2, <1>3, <1>7 DEF IInv, TypeOK, IndexesMatchRows
<1>8. ASSUME NEW id \in RowId, NEW op, Missing(id, op) PROVE IInv'
  BY <1>1, <1>7, <1>8 DEF Missing
<1>9. ASSUME NEW values \in RowInput, Refuse(values) PROVE IInv'
  BY <1>1, <1>7, <1>9 DEF Refuse
<1>10. ASSUME Panic PROVE IInv'
  BY <1>7, <1>10 DEF Panic
<1>11. ASSUME NEW q \in Query, Search(q) PROVE IInv'
  BY <1>1, <1>7, <1>11 DEF Search
<1>12. CASE UNCHANGED vars
  BY <1>1, <1>7, <1>12 DEF vars
<1>. QED
  BY <1>4, <1>5, <1>6, <1>8, <1>9, <1>10, <1>11, <1>12
     DEF Next, InsertPanics, UpdatePanics, SearchPanics

LEMMA Inductive == Spec => []IInv
  BY InitIInv, NextIInv, PTL DEF Spec

\* The types of the table's state, and that every live id was handed out.
THEOREM TypeCorrect == Spec => []TypeOK
<1>1. IInv => TypeOK
  BY DEF IInv
<1>. QED
  BY <1>1, Inductive, PTL

\* Whatever is inserted, updated and deleted, in any order, every index holds
\* exactly the postings of the live rows (Table::insert, update, delete).
THEOREM IndexesCorrect == Spec => []IndexesMatchRows
<1>1. IInv => IndexesMatchRows
  BY DEF IInv
<1>. QED
  BY <1>1, Inductive, PTL

\* No delete, update or insert brings a dead row id back (Storage::insert).
THEOREM DeadIdsStayDead == Spec => DeletedIdStaysDead
<1>. DEFINE Dead == \A id \in 1..(nextId - 1) : id \notin DOMAIN rows => id \notin DOMAIN rows'
<1>1. IInv /\ [Next]_vars => [Dead]_vars
  <2>. SUFFICES ASSUME IInv, Next, NEW id \in 1..(nextId - 1), id \notin DOMAIN rows
                PROVE  id \notin DOMAIN rows'
    BY DEF IInv
  <2>1. rows \in Rows /\ nextId \in 1..(MaxRowId + 1) /\ MaxRowId \in Nat
    BY TableAssumption DEF IInv, TypeOK
  <2>2. ASSUME NEW values \in RowInput, Insert(values) PROVE id \notin DOMAIN rows'
    BY <2>1, <2>2 DEF Insert, Filed
  <2>3. ASSUME NEW i \in RowId, Delete(i) PROVE id \notin DOMAIN rows'
    BY <2>3 DEF Delete, Restrict
  <2>4. ASSUME NEW i \in RowId, NEW values \in RowInput, Update(i, values)
        PROVE  id \notin DOMAIN rows'
    BY <2>4 DEF Update
  <2>5. CASE UNCHANGED rows
    BY <2>5
  <2>. QED
    BY <2>2, <2>3, <2>4, <2>5
       DEF Next, Missing, Refuse, InsertPanics, UpdatePanics, Search, SearchPanics, Panic
<1>. QED
  BY <1>1, Inductive, PTL DEF Spec, DeletedIdStaysDead

\* With the indexes in step, the range index has an entry between two bounds
\* exactly if a live row has.
LEMMA StraddledEntry ==
  ASSUME IInv, NEW c \in Col, NEW min, NEW max
  PROVE  ReversedSlice(c, min, max) <=>
           \E id \in DOMAIN rows :
             IsInt(rows[id][c]) /\ max < rows[id][c].word /\ rows[id][c].word < min
<1>1. /\ rows \in Rows /\ SortedMirrors(engine.sorted, rows)
      /\ \A id \in DOMAIN rows : id \in RowId /\ rows[id][c] \in Value
  BY RowsFacts, RowCells DEF IInv, TypeOK, IndexesMatchRows, Mirrors
<1>2. ASSUME NEW w \in Word, NEW id \in RowId
      PROVE  engine.sorted[c][w][id] > 0 <=> id \in DOMAIN rows /\ rows[id][c] = IntV(w)
  BY <1>1 DEF SortedMirrors, SortedHits
<1>3. \A w \in Word : IsInt(IntV(w)) /\ IntV(w).word = w
  BY DEF IntV, IsInt
<1>4. \A id \in DOMAIN rows : IsInt(rows[id][c]) =>
        rows[id][c].word \in Word /\ rows[id][c] = IntV(rows[id][c].word)
  BY <1>1, ValueWord
<1>5. ReversedSlice(c, min, max) <=>
        \E w \in Word, id \in RowId :
          max < w /\ w < min /\ id \in DOMAIN rows /\ rows[id][c] = IntV(w)
  BY <1>2 DEF ReversedSlice
<1>. QED
  BY <1>1, <1>3, <1>4, <1>5

\* Whatever was inserted, updated and deleted before: a call aborts the process
\* exactly if it needs the filter of a table made for no rows, or asks for a
\* reversed range with a live number between its bounds.
THEOREM AbortsAreThese == Spec => AbortsExactly
<1>. DEFINE Described == (capacity = 0 /\ NeedsFilter(call')) \/ StraddlesRow(call')
<1>1. IInv /\ [Next]_vars => [panicked' <=> Described]_vars
  <2>. SUFFICES ASSUME IInv, Next PROVE panicked' <=> Described
    OBVIOUS
  <2>1. engine.num_bits \in Nat /\ (engine.num_bits = 0 <=> capacity = 0) /\ ~ panicked
    BY NumBits, BloomAssumption DEF IInv, TypeOK, FilterSized, Next
  <2>2. ASSUME NEW values \in RowInput, call' = [op |-> "insert", values |-> values],
               Insert(values) \/ Refuse(values) \/ InsertPanics(values)
        PROVE  panicked' <=> Described
    <3>1. panicked' <=> Len(values) = NumCols /\ ~ CanIndex(values)
      BY <2>1, <2>2 DEF Insert, Refuse, InsertPanics, Panic
    <3>2. Described <=> capacity = 0 /\ Len(values) = NumCols /\ HasText(values)
      BY <2>2 DEF NeedsFilter, StraddlesRow
    <3>. QED
      BY <2>1, <3>1, <3>2 DEF CanIndex
  <2>3. ASSUME NEW id \in RowId, call' = [op |-> "delete", id |-> id],
               Delete(id) \/ Missing(id, "delete")
        PROVE  panicked' <=> Described
    BY <2>1, <2>3 DEF Delete, Missing, NeedsFilter, StraddlesRow
  <2>4. ASSUME NEW id \in RowId, NEW values \in RowInput,
               call' = [op |-> "update", id |-> id, values |-> values],
               \/ Update(id, values) \/ Refuse(values) \/ UpdatePanics(id, values)
               \/ Len(values) = NumCols /\ Missing(id, "update")
        PROVE  panicked' <=> Described
    <3>1. panicked' <=> Len(values) = NumCols /\ id \in DOMAIN rows /\ ~ CanIndex(values)
      BY <2>1, <2>4 DEF Update, Refuse, UpdatePanics, Missing, Panic
    <3>2. Described <=> /\ capacity = 0 /\ id \in DOMAIN rows
                        /\ Len(values) = NumCols /\ HasText(values)
      BY <2>4 DEF NeedsFilter, StraddlesRow
    <3>. QED
      BY <2>1, <3>1, <3>2 DEF CanIndex
  <2>5. ASSUME NEW q \in Query, call' = [op |-> "search", query |-> q],
               Search(q) \/ SearchPanics(q)
        PROVE  panicked' <=> Described
    <3>1. panicked' <=> ~ CanAnswer(q)
      BY <2>1, <2>5 DEF Search, SearchPanics, Panic
    <3>2. NeedsFilter(call') <=> q.column \in Col /\ q.type = "Exact" /\ IsStr(q.value)
      BY <2>5 DEF NeedsFilter
    <3>3. StraddlesRow(call') <=>
            q.column \in Col /\ q.type = "Range" /\ ReversedSlice(q.column, q.min, q.max)
      BY <2>5, StraddledEntry DEF StraddlesRow
    <3>. QED
      BY <2>1, <3>1, <3>2, <3>3 DEF CanAnswer
  <2>. QED
    BY <2>2, <2>3, <2>4, <2>5 DEF Next
<1>. QED
  BY <1>1, Inductive, PTL DEF Spec, AbortsExactly

-----------------------------------------------------------------------------
(* Searches: with the indexes in step, every answer is one the rows justify. *)

\* The contract's copies of the operators it shares with the table.
LEMMA SharedOperators ==
  /\ Contract!Col = Col /\ Contract!Row = Row /\ Contract!RowId = RowId
  /\ \A v : /\ Contract!hash_value(v) = hash_value(v)
            /\ Contract!IsStr(v) <=> IsStr(v)
            /\ Contract!IsInt(v) <=> IsInt(v)
  /\ \A p, s : Contract!IsPrefix(p, s) <=> IsPrefix(p, s)
  /\ \A s : /\ Contract!Words(s) = Words(s)
            /\ Contract!FirstWord(s) = FirstWord(s)
            /\ Contract!Tokens(s) = Tokens(s)
  /\ \A s, w : Contract!TokenCount(s, w) = TokenCount(s, w)
  /\ \A r, S : Contract!Restrict(r, S) = Restrict(r, S)
  /\ \A r, id, values : Contract!Filed(r, id, values) = Filed(r, id, values)
<1>1. Contract!Col = Col /\ Contract!Row = Row /\ Contract!RowId = RowId
  BY DEF Contract!Col, Col, Contract!Row, Row, Contract!RowId, RowId
<1>2. ASSUME NEW v
      PROVE  /\ Contract!hash_value(v) = hash_value(v)
             /\ Contract!IsStr(v) <=> IsStr(v)
             /\ Contract!IsInt(v) <=> IsInt(v)
  BY DEF Contract!hash_value, hash_value, Contract!HashInput, HashInput,
         Contract!IsStr, IsStr, Contract!IsInt, IsInt
<1>3. ASSUME NEW s, NEW keep PROVE Contract!Runs(s, keep) = Runs(s, keep)
  BY DEF Contract!Runs, Runs
<1>4. ASSUME NEW s
      PROVE  Contract!Words(s) = Words(s) /\ Contract!Tokens(s) = Tokens(s)
  BY <1>3 DEF Contract!Words, Words, Contract!Tokens, Tokens
<1>5. ASSUME NEW s PROVE Contract!FirstWord(s) = FirstWord(s)
  BY <1>3, Zenon DEF Contract!FirstWord, FirstWord, Contract!Runs, Runs
<1>6. ASSUME NEW s, NEW w PROVE Contract!TokenCount(s, w) = TokenCount(s, w)
  <2>1. {r \in Contract!Runs(s, AlphaNum) : SubSeq(s, r[1], r[2]) = w}
          = {r \in Runs(s, AlphaNum) : SubSeq(s, r[1], r[2]) = w}
    BY <1>3
  <2>. QED
    BY <2>1, Zenon DEF Contract!TokenCount, TokenCount, Contract!Cardinality, Cardinality
<1>7. ASSUME NEW p, NEW s PROVE Contract!IsPrefix(p, s) <=> IsPrefix(p, s)
  BY DEF Contract!IsPrefix, IsPrefix
<1>8. ASSUME NEW r, NEW S PROVE Contract!Restrict(r, S) = Restrict(r, S)
  BY DEF Contract!Restrict, Restrict
<1>9. ASSUME NEW r, NEW id, NEW values
      PROVE  Contract!Filed(r, id, values) = Filed(r, id, values)
  BY DEF Contract!Filed, Filed
<1>. QED
  BY <1>1, <1>2, <1>4, <1>5, <1>6, <1>7, <1>8, <1>9

LEMMA HitsMember ==
  ASSUME NEW q, NEW h
  PROVE  h \in Contract!Hits(q) <=>
           \E id \in DOMAIN rows : \E k \in Contract!Found(q, rows[id][q.column]) :
              h = <<id, k[1], k[2], k[3]>>
  BY DEF Contract!Hits

LEMMA HashListed ==
  ASSUME IInv, NEW c \in Col, NEW k, NEW h
  PROVE  h \in Listed("hash", c, k) <=>
           \E id \in DOMAIN rows : hash_value(rows[id][c]) = k /\ h = <<id, "hash", k, 1>>
<1>1. /\ rows \in Rows /\ engine.hash \in Postings(HashKey)
      /\ HashMirrors(engine.hash, rows)
  BY DEF IInv, TypeOK, IndexesMatchRows, Mirrors, Engine
<1>2. DOMAIN engine.hash[c] = HashKey
  BY <1>1 DEF Postings
<1>3. \A id \in DOMAIN rows : id \in RowId /\ hash_value(rows[id][c]) \in HashKey
  BY <1>1, RowsFacts, RowCells DEF HashKey
<1>4. CASE k \notin HashKey
  BY <1>2, <1>3, <1>4 DEF Listed
<1>5. CASE k \in HashKey
  <2>1. h \in Listed("hash", c, k) <=>
          \E id \in RowId : \E n \in 1..engine.hash[c][k][id] : h = <<id, "hash", k, n>>
    BY <1>2, <1>5 DEF Listed
  <2>2. ASSUME NEW id \in RowId
        PROVE  engine.hash[c][k][id] =
                 IF id \in DOMAIN rows /\ hash_value(rows[id][c]) = k THEN 1 ELSE 0
    BY <1>1, <1>5 DEF HashMirrors, HashHits
  <2>. QED
    BY <2>1, <2>2, <1>3
<1>. QED
  BY <1>4, <1>5

LEMMA TrieListed ==
  ASSUME IInv, NEW c \in Col, NEW t \in Text, NEW h
  PROVE  h \in Listed("trie", c, t) <=>
           \E id \in DOMAIN rows : rows[id][c] = StrV(t) /\ h = <<id, "trie", t, 1>>
<1>1. /\ rows \in Rows /\ engine.trie \in Postings(Text)
      /\ TrieMirrors(engine.trie, rows)
  BY DEF IInv, TypeOK, IndexesMatchRows, Mirrors, Engine
<1>2. h \in Listed("trie", c, t) <=>
        \E id \in RowId : \E n \in 1..engine.trie[c][t][id] : h = <<id, "trie", t, n>>
  BY <1>1 DEF Listed, Postings
<1>3. ASSUME NEW id \in RowId
      PROVE  engine.trie[c][t][id] =
               IF id \in DOMAIN rows /\ rows[id][c] = StrV(t) THEN 1 ELSE 0
  BY <1>1 DEF TrieMirrors, TrieHits
<1>. QED
  BY <1>1, <1>2, <1>3, RowsFacts

LEMMA SortedListed ==
  ASSUME IInv, NEW c \in Col, NEW w \in Word, NEW h
  PROVE  h \in Listed("sorted", c, w) <=>
           \E id \in DOMAIN rows : rows[id][c] = IntV(w) /\ h = <<id, "sorted", w, 1>>
<1>1. /\ rows \in Rows /\ engine.sorted \in Postings(Word)
      /\ SortedMirrors(engine.sorted, rows)
  BY DEF IInv, TypeOK, IndexesMatchRows, Mirrors, Engine
<1>2. h \in Listed("sorted", c, w) <=>
        \E id \in RowId : \E n \in 1..engine.sorted[c][w][id] : h = <<id, "sorted", w, n>>
  BY <1>1 DEF Listed, Postings
<1>3. ASSUME NEW id \in RowId
      PROVE  engine.sorted[c][w][id] =
               IF id \in DOMAIN rows /\ rows[id][c] = IntV(w) THEN 1 ELSE 0
  BY <1>1 DEF SortedMirrors, SortedHits
<1>. QED
  BY <1>1, <1>2, <1>3, RowsFacts

\* A term has a posting exactly for the texts it is a token of.
LEMMA TokenCounted ==
  ASSUME NEW s \in Seq(Char), NEW w
  PROVE  w \in Tokens(s) <=> TokenCount(s, w) > 0
<1>. DEFINE Pairs == (1..Len(s)) \X (1..Len(s))
            Match == {r \in Runs(s, AlphaNum) : SubSeq(s, r[1], r[2]) = w}
<1>1. IsFiniteSet(Match)
  <2>1. IsFiniteSet(1..Len(s))
    BY FS_Interval
  <2>2. IsFiniteSet(Pairs)
    BY <2>1, FS_Product
  <2>3. Match \subseteq Pairs
    BY DEF Runs
  <2>. QED
    BY <2>2, <2>3, FS_Subset
<1>2. Cardinality(Match) \in Nat /\ (Cardinality(Match) = 0 <=> Match = {})
  BY <1>1, FS_CardinalityType, FS_EmptySet
<1>3. w \in Tokens(s) <=> Match # {}
  BY DEF Tokens
<1>. QED
  BY <1>2, <1>3 DEF TokenCount

LEMMA TermsListed ==
  ASSUME IInv, NEW c \in Col, NEW w, NEW h
  PROVE  h \in Listed("terms", c, w) <=>
           \E id \in DOMAIN rows : /\ IsStr(rows[id][c])
                                   /\ \E n \in 1..TokenCount(rows[id][c].text, w) :
                                        h = <<id, "terms", w, n>>
<1>1. /\ rows \in Rows /\ engine.terms \in Postings(Term)
      /\ TermsMirror(engine.terms, rows)
  BY DEF IInv, TypeOK, IndexesMatchRows, Mirrors, Engine
<1>2. DOMAIN engine.terms[c] = Term
  BY <1>1 DEF Postings
<1>3. ASSUME NEW id \in DOMAIN rows, IsStr(rows[id][c])
      PROVE  /\ rows[id][c].text \in Text
             /\ TokenCount(rows[id][c].text, w) \in Nat
             /\ TokenCount(rows[id][c].text, w) > 0 => w \in Term
  <2>1. rows[id][c].text \in Text /\ rows[id][c].text \in Seq(Char)
    BY <1>1, <1>3, RowsFacts, RowCells, ValueText
  <2>. QED
    BY <2>1, TokenCountNat, TokenCounted DEF Term
<1>4. CASE w \notin Term
  <2>1. Listed("terms", c, w) = {}
    BY <1>2, <1>4 DEF Listed
  <2>2. \A id \in DOMAIN rows : IsStr(rows[id][c]) => 1..TokenCount(rows[id][c].text, w) = {}
    BY <1>3, <1>4
  <2>. QED
    BY <2>1, <2>2
<1>5. CASE w \in Term
  <2>1. h \in Listed("terms", c, w) <=>
          \E id \in RowId : \E n \in 1..engine.terms[c][w][id] : h = <<id, "terms", w, n>>
    BY <1>2, <1>5 DEF Listed
  <2>2. ASSUME NEW id \in RowId
        PROVE  engine.terms[c][w][id] =
                 IF id \in DOMAIN rows /\ IsStr(rows[id][c])
                 THEN TokenCount(rows[id][c].text, w) ELSE 0
    BY <1>1, <1>5 DEF TermsMirror, TermHits
  <2>3. \A id \in DOMAIN rows : id \in RowId
    BY <1>1, RowsFacts
  <2>. QED
    BY <2>1, <2>2, <2>3
<1>. QED
  BY <1>4, <1>5

LEMMA ExactAnswer ==
  ASSUME IInv, NEW q, q.column \in Col, q.type = "Exact"
  PROVE  \/ search_exact(q.column, q.value) = Contract!Hits(q)
         \/ /\ search_exact(q.column, q.value) = {}
            /\ IsStr(q.value)
            /\ \A id \in DOMAIN rows : rows[id][q.column] # q.value
<1>1. Listed("hash", q.column, hash_value(q.value)) = Contract!Hits(q)
  <2>. SUFFICES ASSUME NEW h
                PROVE  h \in Listed("hash", q.column, hash_value(q.value))
                         <=> h \in Contract!Hits(q)
    OBVIOUS
  <2>1. ASSUME NEW v
        PROVE  Contract!Found(q, v) =
                 {k \in {<<"hash", hash_value(q.value), 1>>} : hash_value(v) = hash_value(q.value)}
    BY SharedOperators DEF Contract!Found
  <2>2. ASSUME NEW v, NEW k
        PROVE  k \in Contract!Found(q, v) <=>
                 hash_value(v) = hash_value(q.value) /\ k = <<"hash", hash_value(q.value), 1>>
    BY <2>1
  <2>3. h \in Contract!Hits(q) <=>
          \E id \in DOMAIN rows : /\ hash_value(rows[id][q.column]) = hash_value(q.value)
                                  /\ h = <<id, "hash", hash_value(q.value), 1>>
    <3>2. ASSUME h \in Contract!Hits(q)
          PROVE  \E id \in DOMAIN rows :
                   /\ hash_value(rows[id][q.column]) = hash_value(q.value)
                   /\ h = <<id, "hash", hash_value(q.value), 1>>
      <4>1. PICK id \in DOMAIN rows : \E k \in Contract!Found(q, rows[id][q.column]) :
               h = <<id, k[1], k[2], k[3]>>
        BY <3>2, HitsMember
      <4>2. PICK k \in Contract!Found(q, rows[id][q.column]) : h = <<id, k[1], k[2], k[3]>>
        BY <4>1
      <4>. QED
        BY <4>2, <2>2
    <3>3. ASSUME NEW id \in DOMAIN rows,
                 hash_value(rows[id][q.column]) = hash_value(q.value),
                 h = <<id, "hash", hash_value(q.value), 1>>
          PROVE  h \in Contract!Hits(q)
      <4>1. <<"hash", hash_value(q.value), 1>> \in Contract!Found(q, rows[id][q.column])
        BY <3>3, <2>2
      <4>. QED
        BY <3>3, <4>1, HitsMember
    <3>. QED
      BY <3>2, <3>3
  <2>. QED
    BY <2>3, HashListed
<1>2. CASE IsStr(q.value) /\ ~ may_contain(q.column, q.value)
  <2>1. \A id \in DOMAIN rows : BloomBits(engine.num_bits, rows[id][q.column]) \subseteq engine.bloom[q.column]
    BY DEF IInv, IndexesMatchRows, Mirrors, ResidueCovers
  <2>2. \A id \in DOMAIN rows : rows[id][q.column] # q.value
    BY <1>2, <2>1 DEF may_contain
  <2>. QED
    BY <1>2, <2>2 DEF search_exact
<1>3. CASE ~ (IsStr(q.value) /\ ~ may_contain(q.column, q.value))
  BY <1>1, <1>3 DEF search_exact
<1>. QED
  BY <1>2, <1>3

LEMMA PrefixAnswer ==
  ASSUME IInv, NEW q, q.column \in Col, q.type = "Prefix", q.text \in Seq(Char)
  PROVE  search_prefix(q.column, q.text) = Contract!Hits(q)
<1>. DEFINE c == q.column
<1>1. rows \in Rows /\ \A id \in DOMAIN rows : rows[id][c] \in Value
  BY RowsFacts, RowCells DEF IInv, TypeOK
<1>2. \A id \in DOMAIN rows : IsStr(rows[id][c]) =>
        rows[id][c].text \in Text /\ rows[id][c] = StrV(rows[id][c].text)
  BY <1>1, ValueText
<1>3. \A t \in Text : IsStr(StrV(t)) /\ StrV(t).text = t
  BY DEF StrV, IsStr
<1>4. ASSUME NEW h
      PROVE  h \in Contract!Hits(q) <=>
               \E t \in Text : IsPrefix(q.text, t) /\ h \in Listed("trie", c, t)
  <2>1. ASSUME NEW v
        PROVE  Contract!Found(q, v) =
                 IF IsStr(v) THEN {k \in {<<"trie", v.text, 1>>} : IsPrefix(q.text, v.text)} ELSE {}
    BY SharedOperators DEF Contract!Found
  <2>2. h \in Contract!Hits(q) <=>
          \E id \in DOMAIN rows : /\ IsStr(rows[id][c]) /\ IsPrefix(q.text, rows[id][c].text)
                                  /\ h = <<id, "trie", rows[id][c].text, 1>>
    <3>1. ASSUME NEW v, NEW k
          PROVE  k \in Contract!Found(q, v) <=>
                   IsStr(v) /\ IsPrefix(q.text, v.text) /\ k = <<"trie", v.text, 1>>
      BY <2>1
    <3>2. ASSUME h \in Contract!Hits(q)
          PROVE  \E id \in DOMAIN rows :
                   /\ IsStr(rows[id][q.column])
                   /\ IsPrefix(q.text, rows[id][q.column].text)
                   /\ h = <<id, "trie", rows[id][q.column].text, 1>>
      <4>1. PICK id \in DOMAIN rows : \E k \in Contract!Found(q, rows[id][q.column]) :
               h = <<id, k[1], k[2], k[3]>>
        BY <3>2, HitsMember
      <4>2. PICK k \in Contract!Found(q, rows[id][q.column]) : h = <<id, k[1], k[2], k[3]>>
        BY <4>1
      <4>. QED
        BY <4>2, <3>1
    <3>3. ASSUME NEW id \in DOMAIN rows,
                 IsStr(rows[id][q.column]),
                 IsPrefix(q.text, rows[id][q.column].text),
                 h = <<id, "trie", rows[id][q.column].text, 1>>
          PROVE  h \in Contract!Hits(q)
      <4>1. <<"trie", rows[id][q.column].text, 1>> \in Contract!Found(q, rows[id][q.column])
        BY <3>3, <3>1
      <4>. QED
        BY <3>3, <4>1, HitsMember
    <3>. QED
      BY <3>2, <3>3
  <2>3. \A t \in Text : h \in Listed("trie", c, t) <=>
          \E id \in DOMAIN rows : rows[id][c] = StrV(t) /\ h = <<id, "trie", t, 1>>
    BY TrieListed
  <2>. QED
    BY <2>2, <2>3, <1>2, <1>3
<1>5. CASE q.text \in engine.nodes[c]
  BY <1>4, <1>5 DEF search_prefix
<1>6. CASE q.text \notin engine.nodes[c]
  <2>1. ASSUME NEW t \in Text, IsPrefix(q.text, t), NEW id \in DOMAIN rows, rows[id][c] = StrV(t)
        PROVE  FALSE
    <3>1. Prefixes(t) \subseteq engine.nodes[c]
      BY <2>1, <1>3 DEF IInv, IndexesMatchRows, Mirrors, ResidueCovers, PathOf
    <3>2. t \in Seq(Char) /\ Len(q.text) \in 0..Len(t) /\ q.text = SubSeq(t, 1, Len(q.text))
      BY <2>1, CharAssumption DEF IsPrefix
    <3>. QED
      BY <3>1, <3>2, <1>6 DEF Prefixes
  <2>2. Contract!Hits(q) = {}
    BY <2>1, <1>4, TrieListed
  <2>. QED
    BY <2>2, <1>6 DEF search_prefix
<1>. QED
  BY <1>5, <1>6

LEMMA RangeAnswer ==
  ASSUME IInv, NEW q, q.column \in Col, q.type = "Range"
  PROVE  search_range(q.column, q.min, q.max) = Contract!Hits(q)
<1>. DEFINE c == q.column
<1>1. rows \in Rows /\ \A id \in DOMAIN rows : rows[id][c] \in Value
  BY RowsFacts, RowCells DEF IInv, TypeOK
<1>2. \A id \in DOMAIN rows : IsInt(rows[id][c]) =>
        rows[id][c].word \in Word /\ rows[id][c] = IntV(rows[id][c].word)
  BY <1>1, ValueWord
<1>3. \A w \in Word : IsInt(IntV(w)) /\ IntV(w).word = w
  BY DEF IntV, IsInt
<1>. SUFFICES ASSUME NEW h
              PROVE  h \in search_range(c, q.min, q.max) <=> h \in Contract!Hits(q)
  OBVIOUS
<1>4. ASSUME NEW v
      PROVE  Contract!Found(q, v) =
               IF IsInt(v) THEN {k \in {<<"sorted", v.word, 1>>} : q.min <= v.word /\ v.word <= q.max}
                           ELSE {}
  BY SharedOperators DEF Contract!Found
<1>5. h \in Contract!Hits(q) <=>
        \E id \in DOMAIN rows : /\ IsInt(rows[id][c])
                                /\ q.min <= rows[id][c].word /\ rows[id][c].word <= q.max
                                /\ h = <<id, "sorted", rows[id][c].word, 1>>
  <2>1. ASSUME NEW v, NEW k
        PROVE  k \in Contract!Found(q, v) <=>
                 IsInt(v) /\ q.min <= v.word /\ v.word <= q.max /\ k = <<"sorted", v.word, 1>>
    BY <1>4
  <2>2. ASSUME h \in Contract!Hits(q)
        PROVE  \E id \in DOMAIN rows :
                 /\ IsInt(rows[id][q.column])
                 /\ q.min <= rows[id][q.column].word
                 /\ rows[id][q.column].word <= q.max
                 /\ h = <<id, "sorted", rows[id][q.column].word, 1>>
    <3>1. PICK id \in DOMAIN rows : \E k \in Contract!Found(q, rows[id][q.column]) :
             h = <<id, k[1], k[2], k[3]>>
      BY <2>2, HitsMember
    <3>2. PICK k \in Contract!Found(q, rows[id][q.column]) : h = <<id, k[1], k[2], k[3]>>
      BY <3>1
    <3>. QED
      BY <3>2, <2>1
  <2>3. ASSUME NEW id \in DOMAIN rows,
               IsInt(rows[id][q.column]),
               q.min <= rows[id][q.column].word,
               rows[id][q.column].word <= q.max,
               h = <<id, "sorted", rows[id][q.column].word, 1>>
        PROVE  h \in Contract!Hits(q)
    <3>1. <<"sorted", rows[id][q.column].word, 1>> \in Contract!Found(q, rows[id][q.column])
      BY <2>3, <2>1
    <3>. QED
      BY <2>3, <3>1, HitsMember
  <2>. QED
    BY <2>2, <2>3
<1>6. \A w \in Word : h \in Listed("sorted", c, w) <=>
        \E id \in DOMAIN rows : rows[id][c] = IntV(w) /\ h = <<id, "sorted", w, 1>>
  BY SortedListed
<1>7. h \in search_range(c, q.min, q.max) <=>
        \E w \in Word : q.min <= w /\ w <= q.max /\ h \in Listed("sorted", c, w)
  BY DEF search_range
<1>. QED
  BY <1>2, <1>3, <1>5, <1>6, <1>7

LEMMA ContainsAnswer ==
  ASSUME IInv, NEW q, q.column \in Col, q.type = "Contains"
  PROVE  Listed("terms", q.column, q.text) = Contract!Hits(q)
<1>. SUFFICES ASSUME NEW h
              PROVE  h \in Listed("terms", q.column, q.text) <=> h \in Contract!Hits(q)
  OBVIOUS
<1>1. ASSUME NEW v
      PROVE  Contract!Found(q, v) =
               IF IsStr(v) THEN {"terms"} \X {q.text} \X (1..TokenCount(v.text, q.text)) ELSE {}
  BY SharedOperators DEF Contract!Found
<1>2. h \in Contract!Hits(q) <=>
        \E id \in DOMAIN rows : /\ IsStr(rows[id][q.column])
                                /\ \E n \in 1..TokenCount(rows[id][q.column].text, q.text) :
                                     h = <<id, "terms", q.text, n>>
  <2>1. ASSUME NEW v, NEW k
        PROVE  k \in Contract!Found(q, v) <=>
                 /\ IsStr(v)
                 /\ \E n \in 1..TokenCount(v.text, q.text) : k = <<"terms", q.text, n>>
    BY <1>1
  <2>2. ASSUME h \in Contract!Hits(q)
        PROVE  \E id \in DOMAIN rows :
                 /\ IsStr(rows[id][q.column])
                 /\ \E n \in 1..TokenCount(rows[id][q.column].text, q.text) : h = <<id, "terms", q.text, n>>
    <3>1. PICK id \in DOMAIN rows : \E k \in Contract!Found(q, rows[id][q.column]) :
             h = <<id, k[1], k[2], k[3]>>
      BY <2>2, HitsMember
    <3>2. PICK k \in Contract!Found(q, rows[id][q.column]) : h = <<id, k[1], k[2], k[3]>>
      BY <3>1
    <3>. QED
      BY <3>2, <2>1
  <2>3. ASSUME NEW id \in DOMAIN rows,
               IsStr(rows[id][q.column]),
               NEW n \in 1..TokenCount(rows[id][q.column].text, q.text),
               h = <<id, "terms", q.text, n>>
        PROVE  h \in Contract!Hits(q)
    <3>1. <<"terms", q.text, n>> \in Contract!Found(q, rows[id][q.column])
      BY <2>3, <2>1
    <3>. QED
      BY <2>3, <3>1, HitsMember
  <2>. QED
    BY <2>2, <2>3
<1>. QED
  BY <1>2, TermsListed

LEMMA FullTextAnswer ==
  ASSUME IInv, NEW q, q.column \in Col, q.type = "FullText"
  PROVE  search_terms(q.column, q.text) = Contract!Hits(q)
<1>. DEFINE c == q.column
            W == Words(q.text)
            first == FirstWord(q.text)
            Count(id, w) == TokenCount(rows[id][c].text, w)
<1>1. ASSUME NEW v
      PROVE  Contract!Found(q, v) =
               IF IsStr(v) /\ W # {} /\ W \subseteq Tokens(v.text)
               THEN {"terms"} \X {first} \X (1..TokenCount(v.text, first)) ELSE {}
  BY SharedOperators DEF Contract!Found
<1>2. ASSUME NEW h
      PROVE  h \in Contract!Hits(q) <=>
               \E id \in DOMAIN rows :
                 /\ IsStr(rows[id][c]) /\ W # {} /\ W \subseteq Tokens(rows[id][c].text)
                 /\ \E n \in 1..Count(id, first) : h = <<id, "terms", first, n>>
  <2>1. ASSUME NEW v, NEW k
        PROVE  k \in Contract!Found(q, v) <=>
                 /\ IsStr(v) /\ W # {} /\ W \subseteq Tokens(v.text)
                 /\ \E n \in 1..TokenCount(v.text, first) : k = <<"terms", first, n>>
    BY <1>1
  <2>2. ASSUME h \in Contract!Hits(q)
        PROVE  \E id \in DOMAIN rows :
                 /\ IsStr(rows[id][q.column])
                 /\ W # {}
                 /\ W \subseteq Tokens(rows[id][q.column].text)
                 /\ \E n \in 1..TokenCount(rows[id][q.column].text, first) : h = <<id, "terms", first, n>>
    <3>1. PICK id \in DOMAIN rows : \E k \in Contract!Found(q, rows[id][q.column]) :
             h = <<id, k[1], k[2], k[3]>>
      BY <2>2, HitsMember
    <3>2. PICK k \in Contract!Found(q, rows[id][q.column]) : h = <<id, k[1], k[2], k[3]>>
      BY <3>1
    <3>. QED
      BY <3>2, <2>1
  <2>3. ASSUME NEW id \in DOMAIN rows,
               IsStr(rows[id][q.column]),
               W # {},
               W \subseteq Tokens(rows[id][q.column].text),
               NEW n \in 1..TokenCount(rows[id][q.column].text, first),
               h = <<id, "terms", first, n>>
        PROVE  h \in Contract!Hits(q)
    <3>1. <<"terms", first, n>> \in Contract!Found(q, rows[id][q.column])
      BY <2>3, <2>1
    <3>. QED
      BY <2>3, <3>1, HitsMember
  <2>. QED
    BY <2>2, <2>3
<1>3. ASSUME NEW id \in DOMAIN rows, IsStr(rows[id][c]), NEW w
      PROVE  (\E o \in Listed("terms", c, w) : o[1] = id) <=> w \in Tokens(rows[id][c].text)
  <2>1. rows[id][c].text \in Seq(Char)
    BY <1>3, RowsFacts, RowCells, ValueText DEF IInv, TypeOK
  <2>2. Count(id, w) \in Nat /\ (w \in Tokens(rows[id][c].text) <=> Count(id, w) > 0)
    BY <2>1, TokenCountNat, TokenCounted
  <2>3. ASSUME NEW o \in Listed("terms", c, w), o[1] = id PROVE Count(id, w) > 0
    BY <2>2, <2>3, TermsListed
  <2>4. ASSUME Count(id, w) > 0 PROVE <<id, "terms", w, 1>> \in Listed("terms", c, w)
    BY <1>3, <2>2, <2>4, TermsListed
  <2>. QED
    BY <2>2, <2>3, <2>4
<1>. SUFFICES ASSUME NEW h
              PROVE  h \in search_terms(c, q.text) <=> h \in Contract!Hits(q)
  OBVIOUS
<1>4. h \in search_terms(c, q.text) <=>
        /\ W # {} /\ h \in Listed("terms", c, first)
        /\ \A w \in W : \E o \in Listed("terms", c, w) : o[1] = h[1]
  BY DEF search_terms
<1>5. h \in Listed("terms", c, first) <=>
        \E id \in DOMAIN rows : IsStr(rows[id][c]) /\
          \E n \in 1..Count(id, first) : h = <<id, "terms", first, n>>
  BY TermsListed
<1>6. ASSUME NEW id \in DOMAIN rows, IsStr(rows[id][c]), NEW n, h = <<id, "terms", first, n>>
      PROVE  (\A w \in W : \E o \in Listed("terms", c, w) : o[1] = h[1])
               <=> W \subseteq Tokens(rows[id][c].text)
  <2>1. h[1] = id
    BY <1>6
  <2>. QED
    BY <2>1, <1>3, <1>6
<1>. QED
  BY <1>2, <1>4, <1>5, <1>6

LEMMA AnswerJustified ==
  ASSUME IInv, NEW q \in Query
  PROVE  Answer(q) \in Contract!Answers(q)
<1>1. CASE q.column \notin Col
  BY <1>1, SharedOperators DEF Answer, Contract!Answers
<1>2. CASE q.column \in Col
  <2>. USE <1>2
  <2>1. CASE q.type = "Exact"
    BY <2>1, SharedOperators, ExactAnswer DEF Answer, Contract!Answers
  <2>2. CASE q.type = "Prefix"
    BY <2>2, SharedOperators, QueryAssumption, PrefixAnswer DEF Answer, Contract!Answers
  <2>3. CASE q.type = "FullText"
    BY <2>3, SharedOperators, FullTextAnswer DEF Answer, Contract!Answers
  <2>4. CASE q.type = "Range"
    BY <2>4, SharedOperators, RangeAnswer DEF Answer, Contract!Answers
  <2>5. CASE q.type = "Contains"
    BY <2>5, SharedOperators, ContainsAnswer DEF Answer, Contract!Answers
  <2>. QED
    BY <2>1, <2>2, <2>3, <2>4, <2>5, QueryAssumption
<1>. QED
  BY <1>1, <1>2

-----------------------------------------------------------------------------
\* The table with its five indexes implements the table without any: every
\* sequence of calls gets replies that the live rows alone justify, and a panic
\* answers nothing.
THEOREM TableServesContract == Spec => ServesContract
<1>1. Init => Contract!Init
  BY DEF Init, Contract!Init
<1>2. IInv /\ [Next]_vars => [Contract!Next]_(Contract!vars)
  <2>. SUFFICES ASSUME IInv, [Next]_vars PROVE [Contract!Next]_(Contract!vars)
    OBVIOUS
  <2>. USE SharedOperators
  <2>1. ASSUME NEW values \in RowInput, Insert(values) PROVE Contract!Next
    <3>1. values \in Row /\ nextId \in RowId
      BY <2>1, TableAssumption DEF Insert, Row, RowId, IInv, TypeOK
    <3>2. Contract!Insert(values)
      BY <2>1, <3>1 DEF Insert, Contract!Insert
    <3>. QED
      BY <3>1, <3>2 DEF Contract!Next
  <2>2. ASSUME NEW id \in RowId, Delete(id) PROVE Contract!Next
    <3>1. Contract!Delete(id)
      BY <2>2 DEF Delete, Contract!Delete
    <3>. QED
      BY <3>1 DEF Contract!Next
  <2>3. ASSUME NEW id \in RowId, NEW values \in RowInput, Update(id, values)
        PROVE  Contract!Next
    <3>1. rows = [r \in DOMAIN rows |-> rows[r]]
      BY DEF IInv, TypeOK, Rows
    <3>2. rows' = [r \in DOMAIN rows |-> IF r = id THEN values ELSE rows[r]]
      BY <2>3, <3>1 DEF Update
    <3>3. Contract!Update(id, values)
      BY <2>3, <3>2 DEF Update, Contract!Update
    <3>4. values \in Row
      BY <2>3 DEF Update, Row
    <3>. QED
      BY <3>3, <3>4 DEF Contract!Next
  <2>4. ASSUME NEW id \in RowId, Missing(id, "delete") PROVE Contract!Next
    <3>1. rows = Restrict(rows, DOMAIN rows \ {id})
      BY <2>4 DEF Missing, Restrict, IInv, TypeOK, Rows
    <3>2. Contract!Delete(id)
      <4>1. rows' = rows /\ nextId' = nextId /\ reply' = [op |-> "delete", found |-> FALSE]
        BY <2>4 DEF Missing
      <4>2. (id \in DOMAIN rows) = FALSE
        BY <2>4 DEF Missing
      <4>3. reply' = [op |-> "delete", found |-> id \in DOMAIN rows]
        BY <4>1, <4>2, Zenon
      <4>. QED
        BY <3>1, <4>1, <4>3 DEF Contract!Delete
    <3>. QED
      BY <3>2 DEF Contract!Next
  <2>5. ASSUME NEW id \in RowId, NEW values \in RowInput, Len(values) = NumCols,
               Missing(id, "update")
        PROVE  Contract!Next
    <3>. values \in Row
      BY <2>5 DEF Row
    <3>1. rows = [r \in DOMAIN rows |-> IF r = id THEN values ELSE rows[r]]
      BY <2>5 DEF Missing, IInv, TypeOK, Rows
    <3>2. Contract!Update(id, values)
      <4>1. rows' = rows /\ nextId' = nextId /\ reply' = [op |-> "update", found |-> FALSE]
        BY <2>5 DEF Missing
      <4>2. (id \in DOMAIN rows) = FALSE
        BY <2>5 DEF Missing
      <4>3. reply' = [op |-> "update", found |-> id \in DOMAIN rows]
        BY <4>1, <4>2, Zenon
      <4>. QED
        BY <3>1, <4>1, <4>3 DEF Contract!Update
    <3>. QED
      BY <3>2 DEF Contract!Next
  <2>6. ASSUME NEW values \in RowInput, Refuse(values) PROVE Contract!Next
    <3>1. Contract!Refuse(values)
      BY <2>6 DEF Refuse, Contract!Refuse
    <3>. QED
      BY <3>1 DEF Contract!Next
  <2>7. ASSUME NEW q \in Query, Search(q) PROVE Contract!Next
    <3>1. Contract!Search(q)
      BY <2>7, AnswerJustified DEF Search, Contract!Search
    <3>. QED
      BY <3>1 DEF Contract!Next
  <2>8. CASE UNCHANGED <<rows, nextId, reply>>
    BY <2>8 DEF Contract!vars
  <2>. QED
    BY <2>1, <2>2, <2>3, <2>4, <2>5, <2>6, <2>7, <2>8
       DEF Next, vars, InsertPanics, UpdatePanics, SearchPanics, Panic
<1>. QED
  BY <1>1, <1>2, Inductive, PTL DEF Spec, ServesContract, Contract!Spec
=============================================================================
