------------------------ MODULE HttpDatabase_proofs ------------------------
(***************************************************************************)
(* What clients may rely on between their requests, for any tables, rows,   *)
(* batches, page sizes and contents of the source.                          *)
(***************************************************************************)
EXTENDS HttpDatabase, Loops_proofs

-----------------------------------------------------------------------------
(* A table. *)

Cells == [kind : Kind, key : Nat]

Table == [width : Width, rows : UNION {[D -> Cells] : D \in SUBSET Nat},
          listing : Seq(Nat), next_id : Nat]

LEMMA TableFields ==
  ASSUME NEW tb \in Table
  PROVE  /\ tb.width \in Width /\ tb.listing \in Seq(Nat) /\ tb.next_id \in Nat
         /\ DOMAIN tb.rows \in SUBSET Nat /\ tb.rows \in [DOMAIN tb.rows -> Cells]
         /\ tb = [width |-> tb.width, rows |-> tb.rows, listing |-> tb.listing, next_id |-> tb.next_id]
<1>1. PICK D \in SUBSET Nat : tb.rows \in [D -> Cells]
  BY DEF Table
<1>2. tb = [width |-> tb.width, rows |-> tb.rows, listing |-> tb.listing, next_id |-> tb.next_id]
  BY DEF Table
<1>3. tb.width \in Width /\ tb.listing \in Seq(Nat) /\ tb.next_id \in Nat
  BY DEF Table
<1> QED BY <1>1, <1>2, <1>3

LEMMA TableMade ==
  ASSUME NEW width \in Width, NEW rows, DOMAIN rows \in SUBSET Nat,
         rows \in [DOMAIN rows -> Cells], NEW listing \in Seq(Nat), NEW next_id \in Nat
  PROVE  [width |-> width, rows |-> rows, listing |-> listing, next_id |-> next_id] \in Table
<1>1. rows \in UNION {[D -> Cells] : D \in SUBSET Nat}
  OBVIOUS
<1> QED BY <1>1 DEF Table

LEMMA IntervalGrows ==
  ASSUME NEW a \in Nat, NEW n \in Nat
  PROVE  a..(a + n) = (a..(a + n - 1)) \cup {a + n}
  OBVIOUS

LEMMA ListedType ==
  ASSUME NEW S, NEW id \in S, NEW kind \in Kind
  PROVE  Listed(id, kind) \in Seq(S)
<1>1. Copies[kind] \in Nat
  BY DatabaseAssumption
<1> QED BY <1>1 DEF Listed

\* A table with one row more.
LEMMA InsertIs ==
  ASSUME NEW tb \in Table, NEW kind \in Kind, NEW key \in Nat
  PROVE  /\ insert(tb, kind, key) =
              [width   |-> tb.width,
               rows    |-> [i \in DOMAIN tb.rows \cup {tb.next_id} |->
                              IF i = tb.next_id THEN [kind |-> kind, key |-> key] ELSE tb.rows[i]],
               listing |-> tb.listing \o Listed(tb.next_id, kind),
               next_id |-> tb.next_id + 1]
         /\ insert(tb, kind, key) \in Table
<1> DEFINE rows == [i \in DOMAIN tb.rows \cup {tb.next_id} |->
                      IF i = tb.next_id THEN [kind |-> kind, key |-> key] ELSE tb.rows[i]]
           listing == tb.listing \o Listed(tb.next_id, kind)
           made == [width |-> tb.width, rows |-> rows, listing |-> listing, next_id |-> tb.next_id + 1]
<1>1. /\ tb.width \in Width /\ tb.listing \in Seq(Nat) /\ tb.next_id \in Nat
      /\ DOMAIN tb.rows \in SUBSET Nat /\ tb.rows \in [DOMAIN tb.rows -> Cells]
      /\ tb = [width |-> tb.width, rows |-> tb.rows, listing |-> tb.listing, next_id |-> tb.next_id]
  BY TableFields
<1>2. insert(tb, kind, key) = made
  <2>1. insert(tb, kind, key) = [tb EXCEPT !.rows = rows, !.listing = listing, !.next_id = tb.next_id + 1]
    BY DEF insert
  <2> HIDE DEF rows, listing
  <2> QED BY <1>1, <2>1
<1>3. DOMAIN rows \in SUBSET Nat /\ rows \in [DOMAIN rows -> Cells]
  BY <1>1 DEF Cells
<1>4. listing \in Seq(Nat)
  <2>1. Listed(tb.next_id, kind) \in Seq(Nat)
    BY <1>1, ListedType
  <2> QED BY <1>1, <2>1, ConcatProperties
<1>5. made \in Table
  <2>1. tb.next_id + 1 \in Nat
    BY <1>1
  <2> HIDE DEF rows, listing
  <2> QED BY <1>1, <1>3, <1>4, <2>1, TableMade
<1> QED BY <1>2, <1>5

-----------------------------------------------------------------------------
(* Batches. *)

Batch == Seq(Row)

Outcome == [table : Table, ids : Seq(Nat), born : Nat]

LEMMA NextType ==
  ASSUME NEW done \in Outcome, NEW row \in Row
  PROVE  insert_next(done, row) \in Outcome
<1>1. done.table \in Table /\ done.ids \in Seq(Nat) /\ done.born \in Nat
  BY DEF Outcome
<1>2. row.kind \in Kind
  BY DEF Row
<1>3. insert(done.table, row.kind, done.born + 1) \in Table
  <2>1. done.born + 1 \in Nat
    BY <1>1
  <2> QED BY <1>1, <1>2, <2>1, InsertIs
<1>4. done.table.next_id \in Nat
  BY <1>1, TableFields
<1>5. Append(done.ids, done.table.next_id) \in Seq(Nat)
  BY <1>1, <1>4, AppendProperties
<1> QED BY <1>1, <1>3, <1>5 DEF insert_next, Outcome

\* The loop of insert_batch exists, and takes a row at a time.
LEMMA InsertedRuns ==
  ASSUME NEW tb \in Table, NEW batch \in Batch, NEW born \in Nat
  PROVE  /\ Inserted(tb, batch, born)[0] = Begun(tb, born)
         /\ \A n \in 1..Len(batch) :
              /\ Inserted(tb, batch, born)[n - 1] \in Outcome
              /\ Inserted(tb, batch, born)[n] = insert_next(Inserted(tb, batch, born)[n - 1], batch[n])
<1> DEFINE N == Len(batch)
           step == [n \in 1..N |-> [done \in Outcome |-> insert_next(done, batch[n])]]
           Loop(f) == f = [n \in 0..N |-> IF n = 0 THEN Begun(tb, born)
                                          ELSE insert_next(f[n - 1], batch[n])]
<1>1. N \in Nat
  BY DEF Batch
<1>2. Begun(tb, born) \in Outcome
  <2>1. <<>> \in Seq(Nat)
    OBVIOUS
  <2> QED BY <2>1 DEF Begun, Outcome
<1>3. step \in [1..N -> [Outcome -> Outcome]]
  <2>1. ASSUME NEW n \in 1..N, NEW done \in Outcome PROVE insert_next(done, batch[n]) \in Outcome
    <3>1. batch[n] \in Row
      BY DEF Batch
    <3> QED BY <3>1, NextType
  <2> QED BY <2>1
<1>4. PICK f \in [0..N -> Outcome] : Runs(f, N, Begun(tb, born), step)
  <2> HIDE DEF N, step
  <2> QED BY <1>1, <1>2, <1>3, Recursion
<1>5. \A n \in 1..N : f[n - 1] \in Outcome /\ f[n] = insert_next(f[n - 1], batch[n])
  <2> SUFFICES ASSUME NEW n \in 1..N
               PROVE  f[n - 1] \in Outcome /\ f[n] = insert_next(f[n - 1], batch[n])
    OBVIOUS
  <2>1. f[n - 1] \in Outcome
    BY <1>1, <1>4
  <2>2. f[n] = step[n][f[n - 1]]
    <3> HIDE DEF step
    <3> QED BY <1>4 DEF Runs
  <2> QED BY <2>1, <2>2
<1>6. Loop(f)
  <2> DEFINE r == [n \in 0..N |-> IF n = 0 THEN Begun(tb, born) ELSE insert_next(f[n - 1], batch[n])]
  <2>1. ASSUME NEW n \in 0..N PROVE f[n] = r[n]
    <3>1. CASE n = 0
      BY <1>4, <3>1 DEF Runs
    <3>2. CASE n # 0
      <4>1. n \in 1..N
        BY <3>2
      <4> QED BY <1>5, <3>2, <4>1
    <3> QED BY <3>1, <3>2
  <2>2. f = [n \in 0..N |-> f[n]] /\ r = [n \in 0..N |-> r[n]]
    BY <1>4
  <2>3. f = r
    <3> HIDE DEF r
    <3> QED BY <2>1, <2>2
  <2> QED BY <2>3
<1>7. Inserted(tb, batch, born) = CHOOSE g : Loop(g)
  BY DEF Inserted
<1> HIDE DEF Loop
<1>8. Loop(Inserted(tb, batch, born))
  BY <1>6, <1>7
<1> DEFINE g == Inserted(tb, batch, born)
<1>9. g = [n \in 0..N |-> IF n = 0 THEN Begun(tb, born) ELSE insert_next(g[n - 1], batch[n])]
  BY <1>8 DEF Loop
<1> HIDE DEF g
<1>10. g[0] = Begun(tb, born)
  BY <1>1, <1>9
<1>11. ASSUME NEW n \in 1..N PROVE g[n] = insert_next(g[n - 1], batch[n])
  <2>1. n \in 0..N /\ n # 0
    OBVIOUS
  <2> QED BY <1>9, <2>1
<1> DEFINE good == {n \in 0..N : g[n] \in Outcome}
<1>12. 0..N \subseteq good
  <2>1. 0 \in good
    BY <1>1, <1>2, <1>10
  <2>2. ASSUME NEW n \in 1..N, n - 1 \in good PROVE n \in good
    <3>1. batch[n] \in Row /\ g[n - 1] \in Outcome /\ n \in 0..N
      BY <2>2 DEF Batch
    <3> QED BY <1>11, <3>1, NextType
  <2>3. \A n \in 1..N : n - 1 \in good => n \in good
    BY <2>2
  <2> HIDE DEF good, N
  <2> QED BY <1>1, <2>1, <2>3, IntervalInduction
<1>13. ASSUME NEW n \in 1..N PROVE g[n - 1] \in Outcome
  <2>1. n - 1 \in 0..N
    OBVIOUS
  <2> QED BY <1>12, <2>1
<1> QED BY <1>10, <1>11, <1>13 DEF g

\* The rows that fit a table.
Fitting(tb) == {row \in Row : row.width = tb.width}

\* What a batch comes to when F are its rows that fitted: they have the next ids
\* and the next births, in their order; what was there is as it was, and the
\* new listings come last.
Comes(tb, born, F, done) ==
  LET m     == Len(F)
      first == tb.next_id
  IN /\ done \in Outcome
     /\ done.born = born + m
     /\ done.ids = [j \in 1..m |-> first + j - 1]
     /\ done.table.width = tb.width
     /\ done.table.next_id = first + m
     /\ DOMAIN done.table.rows = DOMAIN tb.rows \cup (first..(first + m - 1))
     /\ \A i \in DOMAIN tb.rows : done.table.rows[i] = tb.rows[i]
     /\ \A j \in 1..m : done.table.rows[first + j - 1] = [kind |-> F[j].kind, key |-> born + j]
     /\ \E added \in Seq(first..(first + m - 1)) : done.table.listing = tb.listing \o added

LEMMA ComesBegun ==
  ASSUME NEW tb \in Table, NEW born \in Nat
  PROVE  Comes(tb, born, <<>>, Begun(tb, born))
<1> DEFINE done == Begun(tb, born)
<1>1. tb.next_id \in Nat /\ tb.listing \in Seq(Nat)
  BY TableFields
<1>2. /\ done \in Outcome /\ done.table = tb /\ done.born = born /\ done.ids = <<>>
  <2>1. <<>> \in Seq(Nat)
    OBVIOUS
  <2> QED BY <2>1 DEF Begun, Outcome
<1> HIDE DEF done
<1>3. Len(<<>>) = 0 /\ 1..0 = {} /\ tb.next_id..(tb.next_id + 0 - 1) = {}
  BY <1>1
<1>4. done.ids = [j \in 1..0 |-> tb.next_id + j - 1]
  BY <1>2, <1>3
<1>5. \E added \in Seq(tb.next_id..(tb.next_id + 0 - 1)) : done.table.listing = tb.listing \o added
  <2>1. <<>> \in Seq(tb.next_id..(tb.next_id + 0 - 1))
    OBVIOUS
  <2>2. tb.listing \o <<>> = tb.listing
    BY <1>1, ConcatEmptySeq
  <2> QED BY <1>2, <2>1, <2>2
<1>6. /\ done.born = born + 0
      /\ done.table.width = tb.width
      /\ done.table.next_id = tb.next_id + 0
      /\ DOMAIN done.table.rows = DOMAIN tb.rows \cup (tb.next_id..(tb.next_id + 0 - 1))
      /\ \A i \in DOMAIN tb.rows : done.table.rows[i] = tb.rows[i]
  BY <1>1, <1>2, <1>3
<1>7. Comes(tb, born, <<>>, done)
  BY <1>2, <1>3, <1>4, <1>5, <1>6 DEF Comes
<1> QED BY <1>7 DEF done

LEMMA ComesNext ==
  ASSUME NEW tb \in Table, \A i \in DOMAIN tb.rows : i < tb.next_id, NEW born \in Nat,
         NEW F \in Seq(Row), NEW row \in Fitting(tb), NEW done, Comes(tb, born, F, done)
  PROVE  Comes(tb, born, Append(F, row), insert_next(done, row))
<1> DEFINE m == Len(F)
           first == tb.next_id
           old == done.table
           new == insert_next(done, row)
<1>1. /\ done \in Outcome
      /\ done.born = born + m
      /\ done.ids = [j \in 1..m |-> first + j - 1]
      /\ old.width = tb.width
      /\ old.next_id = first + m
      /\ DOMAIN old.rows = DOMAIN tb.rows \cup (first..(first + m - 1))
      /\ \A i \in DOMAIN tb.rows : old.rows[i] = tb.rows[i]
      /\ \A j \in 1..m : old.rows[first + j - 1] = [kind |-> F[j].kind, key |-> born + j]
  BY DEF Comes
<1>2. PICK added \in Seq(first..(first + m - 1)) : old.listing = tb.listing \o added
  BY DEF Comes
<1>3. m \in Nat /\ first \in Nat /\ tb.listing \in Seq(Nat) /\ DOMAIN tb.rows \in SUBSET Nat
  BY TableFields
<1>4. old \in Table /\ row \in Row /\ row.kind \in Kind /\ row.width = tb.width
  BY <1>1 DEF Outcome, Fitting, Row
<1> DEFINE made == insert(old, row.kind, done.born + 1)
<1>5. new = [table |-> made, ids |-> Append(done.ids, old.next_id), born |-> done.born + 1]
  BY <1>1, <1>4 DEF insert_next
<1>6. made = [width   |-> old.width,
              rows    |-> [i \in DOMAIN old.rows \cup {old.next_id} |->
                             IF i = old.next_id THEN [kind |-> row.kind, key |-> done.born + 1] ELSE old.rows[i]],
              listing |-> old.listing \o Listed(old.next_id, row.kind),
              next_id |-> old.next_id + 1]
  <2>1. done.born + 1 \in Nat
    BY <1>1, <1>3
  <2> QED BY <1>4, <2>1, InsertIs
<1>7. new \in Outcome
  BY <1>1, <1>4, NextType
<1>8. Len(Append(F, row)) = m + 1 /\ (\A j \in 1..m : Append(F, row)[j] = F[j]) /\ Append(F, row)[m + 1] = row
  BY <1>4
<1> HIDE DEF new, made, m, first, old
<1>9. /\ new.table = made /\ new.born = done.born + 1 /\ new.ids = Append(done.ids, old.next_id)
      /\ made.width = old.width /\ made.next_id = old.next_id + 1
      /\ made.listing = old.listing \o Listed(old.next_id, row.kind)
      /\ DOMAIN made.rows = DOMAIN old.rows \cup {first + m}
      /\ made.rows[first + m] = [kind |-> row.kind, key |-> born + m + 1]
      /\ \A i \in DOMAIN old.rows : i # first + m => made.rows[i] = old.rows[i]
  BY <1>1, <1>5, <1>6
<1>10. new.born = born + (m + 1)
  BY <1>1, <1>3, <1>9
<1>11. new.ids = [j \in 1..(m + 1) |-> first + j - 1]
  BY <1>1, <1>3, <1>9
<1>12. new.table.width = tb.width /\ new.table.next_id = first + (m + 1)
  BY <1>1, <1>3, <1>9
<1>13. DOMAIN new.table.rows = DOMAIN tb.rows \cup (first..(first + (m + 1) - 1))
  <2>1. first..(first + (m + 1) - 1) = (first..(first + m - 1)) \cup {first + m}
    <3>1. first + (m + 1) - 1 = first + m
      BY <1>3
    <3>2. first..(first + m) = (first..(first + m - 1)) \cup {first + m}
      BY <1>3, IntervalGrows
    <3> QED BY <3>1, <3>2
  <2> QED BY <1>1, <1>9, <2>1
<1>14. \A i \in DOMAIN tb.rows : new.table.rows[i] = tb.rows[i]
  <2>1. \A i \in DOMAIN tb.rows : i # first + m
    BY <1>3 DEF first
  <2> QED BY <1>1, <1>9, <2>1
<1>15. ASSUME NEW j \in 1..(m + 1)
       PROVE  new.table.rows[first + j - 1] = [kind |-> Append(F, row)[j].kind, key |-> born + j]
  <2>1. CASE j = m + 1
    <3>1. first + j - 1 = first + m /\ born + m + 1 = born + j
      BY <1>3, <2>1
    <3> QED BY <1>8, <1>9, <2>1, <3>1
  <2>2. CASE j # m + 1
    <3>1. j \in 1..m /\ first + j - 1 \in first..(first + m - 1) /\ first + j - 1 # first + m
      BY <1>3, <2>2
    <3> QED BY <1>1, <1>8, <1>9, <3>1
  <2> QED BY <2>1, <2>2
<1>16. \E more \in Seq(first..(first + (m + 1) - 1)) : new.table.listing = tb.listing \o more
  <2> DEFINE I == first..(first + (m + 1) - 1)
             last == Listed(old.next_id, row.kind)
  <2>1. added \in Seq(I) /\ old.next_id \in I
    <3>1. first..(first + m - 1) \subseteq I
      BY <1>3
    <3> QED BY <1>1, <1>2, <1>3, <3>1
  <2>2. last \in Seq(I)
    <3> HIDE DEF I
    <3> QED BY <1>4, <2>1, ListedType
  <2>6. I \subseteq Nat
    BY <1>3
  <2> HIDE DEF I, last
  <2>3. added \o last \in Seq(I)
    BY <2>1, <2>2, ConcatProperties
  <2>4. (tb.listing \o added) \o last = tb.listing \o (added \o last)
    <3>1. added \in Seq(Nat) /\ last \in Seq(Nat)
      BY <2>1, <2>2, <2>6, SeqWiden
    <3> DEFINE l == tb.listing
    <3>2. l \in Seq(Nat)
      BY <1>3
    <3> HIDE DEF l
    <3>3. Regroups(l, added, last)
      BY <3>1, <3>2, Regrouped
    <3> QED BY <3>3 DEF l, Regroups
  <2>5. new.table.listing = tb.listing \o (added \o last)
    BY <1>2, <1>9, <2>4 DEF last
  <2> QED BY <2>3, <2>5 DEF I
<1> QED BY <1>7, <1>8, <1>10, <1>11, <1>12, <1>13, <1>14, <1>15, <1>16 DEF Comes, m, first, new

\* insert_batch, by the number of rows it has come to.
LEMMA InsertedIs ==
  ASSUME NEW tb \in Table, \A i \in DOMAIN tb.rows : i < tb.next_id, NEW born \in Nat,
         NEW batch \in Batch, NEW n \in 0..Len(batch)
  PROVE  Comes(tb, born, Kept(batch, Fitting(tb))[n], Inserted(tb, batch, born)[n])
<1> DEFINE F == Kept(batch, Fitting(tb))
           N == Len(batch)
           good == {k \in 0..N : Comes(tb, born, F[k], Inserted(tb, batch, born)[k])}
<1>1. N \in Nat /\ batch \in Seq(Row)
  BY DEF Batch
<1>2. /\ F[0] = <<>>
      /\ \A k \in 1..N : F[k] = IF batch[k] \in Fitting(tb) THEN Append(F[k - 1], batch[k]) ELSE F[k - 1]
  BY <1>1, KeptRuns
<1>3. \A k \in 0..N : F[k] \in Seq(Row)
  <2> SUFFICES ASSUME NEW k \in 0..N PROVE F[k] \in Seq(Row)
    OBVIOUS
  <2>1. F[k] \in Seq(Row \cap Fitting(tb))
    BY <1>1, KeptType
  <2> QED BY <2>1
<1> HIDE DEF F
<1>4. 0 \in good
  BY <1>1, <1>2, ComesBegun, InsertedRuns
<1>5. ASSUME NEW k \in 1..N, k - 1 \in good PROVE k \in good
  <2> DEFINE done == Inserted(tb, batch, born)[k - 1]
             next == Inserted(tb, batch, born)[k]
  <2>1. k \in 0..N /\ batch[k] \in Row /\ F[k - 1] \in Seq(Row) /\ Comes(tb, born, F[k - 1], done)
    <3>1. k - 1 \in 0..N
      BY <1>1
    <3> QED BY <1>1, <1>3, <1>5, <3>1
  <2>2. next = insert_next(done, batch[k])
    BY InsertedRuns
  <2> HIDE DEF done, next
  <2>3. CASE batch[k] \in Fitting(tb)
    <3>1. F[k] = Append(F[k - 1], batch[k])
      BY <1>2, <2>3
    <3>2. Comes(tb, born, F[k], next)
      BY <2>1, <2>2, <2>3, <3>1, ComesNext
    <3> QED BY <2>1, <3>2 DEF next
  <2>4. CASE batch[k] \notin Fitting(tb)
    <3>1. batch[k].width # done.table.width
      BY <2>1, <2>4 DEF Fitting, Comes
    <3>2. next = done
      BY <2>2, <3>1 DEF insert_next
    <3>3. F[k] = F[k - 1]
      BY <1>2, <2>4
    <3> QED BY <2>1, <3>2, <3>3 DEF next
  <2> QED BY <2>3, <2>4
<1>6. 0..N \subseteq good
  <2>1. \A k \in 1..N : k - 1 \in good => k \in good
    BY <1>5
  <2> HIDE DEF good, N
  <2> QED BY <1>1, <1>4, <2>1, IntervalInduction
<1> QED BY <1>6 DEF F

-----------------------------------------------------------------------------
(* Deletes and updates. *)

\* The table without the rows of D.
Without(tb, D) ==
  [width   |-> tb.width,
   rows    |-> [i \in DOMAIN tb.rows \ D |-> tb.rows[i]],
   listing |-> Only(tb.listing, Nat \ D),
   next_id |-> tb.next_id]

LEMMA WithoutType ==
  ASSUME NEW tb \in Table, NEW D
  PROVE  Without(tb, D) \in Table
<1> DEFINE rows == [i \in DOMAIN tb.rows \ D |-> tb.rows[i]]
           listing == Only(tb.listing, Nat \ D)
<1>1. /\ tb.width \in Width /\ tb.listing \in Seq(Nat) /\ tb.next_id \in Nat
      /\ DOMAIN tb.rows \in SUBSET Nat /\ tb.rows \in [DOMAIN tb.rows -> Cells]
  BY TableFields
<1>2. DOMAIN rows \in SUBSET Nat /\ rows \in [DOMAIN rows -> Cells]
  BY <1>1
<1>3. listing \in Seq(Nat)
  BY <1>1, OnlyType
<1>4. Without(tb, D) = [width |-> tb.width, rows |-> rows, listing |-> listing, next_id |-> tb.next_id]
  BY DEF Without
<1> HIDE DEF rows, listing
<1> QED BY <1>1, <1>2, <1>3, <1>4, TableMade

LEMMA WithoutNone ==
  ASSUME NEW tb \in Table
  PROVE  Without(tb, {}) = tb
<1>1. /\ tb.listing \in Seq(Nat) /\ tb.rows \in [DOMAIN tb.rows -> Cells]
      /\ tb = [width |-> tb.width, rows |-> tb.rows, listing |-> tb.listing, next_id |-> tb.next_id]
  BY TableFields
<1>2. Only(tb.listing, Nat \ {}) = tb.listing
  <2>1. Nat \ {} = Nat
    OBVIOUS
  <2> QED BY <1>1, <2>1, OnlyAll
<1>3. [i \in DOMAIN tb.rows \ {} |-> tb.rows[i]] = tb.rows
  BY <1>1
<1> QED BY <1>1, <1>2, <1>3 DEF Without

LEMMA WithoutMore ==
  ASSUME NEW tb \in Table, NEW D, NEW x
  PROVE  Without(Without(tb, D), {x}) = Without(tb, D \cup {x})
<1> DEFINE less == Without(tb, D)
<1>1. tb.listing \in Seq(Nat)
  BY TableFields
<1>2. /\ less.width = tb.width /\ less.next_id = tb.next_id
      /\ less.rows = [i \in DOMAIN tb.rows \ D |-> tb.rows[i]]
      /\ less.listing = Only(tb.listing, Nat \ D)
  BY DEF Without
<1> HIDE DEF less
<1>3. Only(less.listing, Nat \ {x}) = Only(tb.listing, Nat \ (D \cup {x}))
  <2>1. (Nat \ D) \cap (Nat \ {x}) = Nat \ (D \cup {x})
    OBVIOUS
  <2> QED BY <1>1, <1>2, <2>1, OnlyOnly
<1>4. [i \in DOMAIN less.rows \ {x} |-> less.rows[i]] = [i \in DOMAIN tb.rows \ (D \cup {x}) |-> tb.rows[i]]
  <2>1. DOMAIN less.rows \ {x} = DOMAIN tb.rows \ (D \cup {x})
    BY <1>2
  <2>2. \A i \in DOMAIN tb.rows \ (D \cup {x}) : less.rows[i] = tb.rows[i]
    BY <1>2
  <2> QED BY <2>1, <2>2
<1>5. Without(less, {x}) = Without(tb, D \cup {x})
  BY <1>2, <1>3, <1>4 DEF Without
<1> QED BY <1>5 DEF less

LEMMA DeleteIs ==
  ASSUME NEW tb \in Table, NEW id
  PROVE  delete(tb, id) = Without(tb, {id})
<1> DEFINE rows == [i \in DOMAIN tb.rows \ {id} |-> tb.rows[i]]
           listing == Unlisted(tb.listing, id)
<1>1. /\ tb.listing \in Seq(Nat)
      /\ tb = [width |-> tb.width, rows |-> tb.rows, listing |-> tb.listing, next_id |-> tb.next_id]
  BY TableFields
<1>2. delete(tb, id) = [tb EXCEPT !.rows = rows, !.listing = listing]
  BY DEF delete
<1>3. listing = Only(tb.listing, Nat \ {id})
  <2> DEFINE l == tb.listing
             V == ToSet(l) \ {id}
  <2>1. l \in Seq(Nat)
    BY <1>1
  <2>2. \A i \in 1..Len(l) : l[i] \in V <=> l[i] \in Nat \ {id}
    <3> SUFFICES ASSUME NEW i \in 1..Len(l) PROVE l[i] \in V <=> l[i] \in Nat \ {id}
      OBVIOUS
    <3>1. l[i] \in Nat /\ i \in DOMAIN l
      BY <2>1
    <3> QED BY <3>1 DEF ToSet
  <2>3. listing = Only(l, V)
    BY DEF Unlisted
  <2> HIDE DEF l, V
  <2>4. Only(l, V) = Only(l, Nat \ {id})
    BY <2>1, <2>2, OnlyAlike
  <2> QED BY <2>3, <2>4 DEF l
<1>4. Without(tb, {id}) = [width |-> tb.width, rows |-> rows, listing |-> listing, next_id |-> tb.next_id]
  BY <1>3 DEF Without
<1> HIDE DEF rows, listing
<1> QED BY <1>1, <1>2, <1>4

LEMMA DeletedRuns ==
  ASSUME NEW tb \in Table, NEW ids \in Seq(Nat)
  PROVE  /\ Deleted(tb, ids)[0] = tb
         /\ \A n \in 1..Len(ids) : Deleted(tb, ids)[n] = delete(Deleted(tb, ids)[n - 1], ids[n])
<1> DEFINE N == Len(ids)
           step == [n \in 1..N |-> [left \in Table |-> delete(left, ids[n])]]
           Loop(f) == f = [n \in 0..N |-> IF n = 0 THEN tb ELSE delete(f[n - 1], ids[n])]
<1>1. N \in Nat
  OBVIOUS
<1>2. step \in [1..N -> [Table -> Table]]
  <2>1. ASSUME NEW n \in 1..N, NEW left \in Table PROVE delete(left, ids[n]) \in Table
    <3>1. delete(left, ids[n]) = Without(left, {ids[n]})
      BY DeleteIs
    <3>2. Without(left, {ids[n]}) \in Table
      BY WithoutType
    <3> QED BY <3>1, <3>2
  <2> QED BY <2>1
<1>3. PICK f \in [0..N -> Table] : Runs(f, N, tb, step)
  <2> HIDE DEF N, step
  <2> QED BY <1>1, <1>2, Recursion
<1>4. Loop(f)
  <2> DEFINE r == [n \in 0..N |-> IF n = 0 THEN tb ELSE delete(f[n - 1], ids[n])]
  <2>1. ASSUME NEW n \in 0..N PROVE f[n] = r[n]
    <3>1. CASE n = 0
      BY <1>3, <3>1 DEF Runs
    <3>2. CASE n # 0
      <4>1. n \in 1..N /\ f[n - 1] \in Table
        BY <1>3, <3>2
      <4>2. f[n] = step[n][f[n - 1]]
        <5> HIDE DEF step
        <5> QED BY <1>3, <4>1 DEF Runs
      <4> QED BY <3>2, <4>1, <4>2
    <3> QED BY <3>1, <3>2
  <2>2. f = [n \in 0..N |-> f[n]] /\ r = [n \in 0..N |-> r[n]]
    BY <1>3
  <2>3. f = r
    <3> HIDE DEF r
    <3> QED BY <2>1, <2>2
  <2> QED BY <2>3
<1>5. Deleted(tb, ids) = CHOOSE g : Loop(g)
  BY DEF Deleted
<1> HIDE DEF Loop
<1>6. Loop(Deleted(tb, ids))
  BY <1>4, <1>5
<1> DEFINE g == Deleted(tb, ids)
<1>7. g = [n \in 0..N |-> IF n = 0 THEN tb ELSE delete(g[n - 1], ids[n])]
  BY <1>6 DEF Loop
<1> HIDE DEF g
<1>8. g[0] = tb
  BY <1>1, <1>7
<1>9. ASSUME NEW n \in 1..N PROVE g[n] = delete(g[n - 1], ids[n])
  <2>1. n \in 0..N /\ n # 0
    OBVIOUS
  <2> QED BY <1>7, <2>1
<1> QED BY <1>8, <1>9 DEF g

\* handle_delete leaves what was not asked for, in its order.
LEMMA DeletedIs ==
  ASSUME NEW tb \in Table, NEW ids \in Seq(Nat), NEW n \in 0..Len(ids)
  PROVE  Deleted(tb, ids)[n] = Without(tb, {ids[i] : i \in 1..n})
<1> DEFINE N == Len(ids)
           D(k) == {ids[i] : i \in 1..k}
           good == {k \in 0..N : Deleted(tb, ids)[k] = Without(tb, D(k))}
<1>1. N \in Nat
  OBVIOUS
<1>2. 0 \in good
  <2>1. D(0) = {}
    OBVIOUS
  <2> HIDE DEF D
  <2>2. Without(tb, D(0)) = tb
    BY <2>1, WithoutNone
  <2>3. Deleted(tb, ids)[0] = tb
    BY DeletedRuns
  <2> QED BY <1>1, <2>2, <2>3
<1>3. ASSUME NEW k \in 1..N, k - 1 \in good PROVE k \in good
  <2>1. k \in 0..N /\ Deleted(tb, ids)[k - 1] = Without(tb, D(k - 1))
    BY <1>1, <1>3
  <2>2. D(k) = D(k - 1) \cup {ids[k]}
    <3>1. 1..k = (1..(k - 1)) \cup {k}
      OBVIOUS
    <3> QED BY <3>1
  <2> HIDE DEF D
  <2>3. Without(tb, D(k - 1)) \in Table
    BY WithoutType
  <2>4. Deleted(tb, ids)[k] = Without(Without(tb, D(k - 1)), {ids[k]})
    <3> DEFINE before == Without(tb, D(k - 1))
    <3>1. Deleted(tb, ids)[k] = delete(Deleted(tb, ids)[k - 1], ids[k])
      BY DeletedRuns
    <3>2. delete(before, ids[k]) = Without(before, {ids[k]})
      <4>1. before \in Table /\ ids[k] \in Nat
        BY <2>3
      <4> HIDE DEF before
      <4> QED BY <4>1, DeleteIs
    <3> QED BY <2>1, <3>1, <3>2
  <2>5. Deleted(tb, ids)[k] = Without(tb, D(k))
    <3>1. Without(Without(tb, D(k - 1)), {ids[k]}) = Without(tb, D(k - 1) \cup {ids[k]})
      BY WithoutMore
    <3> QED BY <2>2, <2>4, <3>1
  <2> QED BY <2>1, <2>5
<1>4. 0..N \subseteq good
  <2>1. \A k \in 1..N : k - 1 \in good => k \in good
    BY <1>3
  <2> HIDE DEF good, N
  <2> QED BY <1>1, <1>2, <2>1, IntervalInduction
<1> QED BY <1>4

LEMMA UpdateIs ==
  ASSUME NEW tb \in Table, NEW id \in DOMAIN tb.rows, NEW kind \in Kind
  PROVE  /\ update(tb, id, kind) =
              [width   |-> tb.width,
               rows    |-> [i \in DOMAIN tb.rows |->
                              IF i = id THEN [kind |-> kind, key |-> tb.rows[id].key] ELSE tb.rows[i]],
               listing |-> Only(tb.listing, Nat \ {id}) \o Listed(id, kind),
               next_id |-> tb.next_id]
         /\ update(tb, id, kind) \in Table
<1> DEFINE rows == [i \in DOMAIN tb.rows |->
                      IF i = id THEN [kind |-> kind, key |-> tb.rows[id].key] ELSE tb.rows[i]]
           listing == Only(tb.listing, Nat \ {id}) \o Listed(id, kind)
           made == [width |-> tb.width, rows |-> rows, listing |-> listing, next_id |-> tb.next_id]
<1>1. /\ tb.width \in Width /\ tb.listing \in Seq(Nat) /\ tb.next_id \in Nat
      /\ DOMAIN tb.rows \in SUBSET Nat /\ tb.rows \in [DOMAIN tb.rows -> Cells]
      /\ tb = [width |-> tb.width, rows |-> tb.rows, listing |-> tb.listing, next_id |-> tb.next_id]
  BY TableFields
<1>2. [tb.rows EXCEPT ![id].kind = kind] = rows
  <2>1. tb.rows[id] \in Cells
    BY <1>1
  <2>2. [tb.rows[id] EXCEPT !.kind = kind] = [kind |-> kind, key |-> tb.rows[id].key]
    BY <2>1 DEF Cells
  <2>3. [tb.rows EXCEPT ![id].kind = kind]
        = [i \in DOMAIN tb.rows |-> IF i = id THEN [tb.rows[id] EXCEPT !.kind = kind] ELSE tb.rows[i]]
    BY <1>1
  <2> QED BY <2>2, <2>3
<1>3. Unlisted(tb.listing, id) = Only(tb.listing, Nat \ {id})
  <2>1. delete(tb, id).listing = Unlisted(tb.listing, id)
    BY <1>1 DEF delete
  <2>2. delete(tb, id) = Without(tb, {id})
    BY DeleteIs
  <2>3. Without(tb, {id}).listing = Only(tb.listing, Nat \ {id})
    BY DEF Without
  <2> QED BY <2>1, <2>2, <2>3
<1>4. update(tb, id, kind) = made
  <2>1. update(tb, id, kind) = [tb EXCEPT !.rows = rows, !.listing = listing]
    BY <1>1, <1>2, <1>3 DEF update
  <2> HIDE DEF rows, listing
  <2> QED BY <1>1, <2>1
<1>5. DOMAIN rows \in SUBSET Nat /\ rows \in [DOMAIN rows -> Cells]
  BY <1>1 DEF Cells
<1>6. listing \in Seq(Nat)
  <2>1. Only(tb.listing, Nat \ {id}) \in Seq(Nat)
    BY <1>1, OnlyType
  <2>2. Listed(id, kind) \in Seq(Nat)
    BY <1>1, ListedType
  <2> QED BY <2>1, <2>2, ConcatProperties
<1>7. made \in Table
  <2> HIDE DEF rows, listing
  <2> QED BY <1>1, <1>5, <1>6, TableMade
<1> QED BY <1>4, <1>7

-----------------------------------------------------------------------------
(* The orders in which a table's trie and range index list its rows. *)

Orders == [prefix : Seq(Nat), range : Seq(Nat), sorted : BOOLEAN]

OrderOK(o, tb) ==
  /\ o \in Orders
  /\ o.prefix \in Seq(DOMAIN tb.rows) /\ o.range \in Seq(DOMAIN tb.rows)

LEMMA OrderMade ==
  ASSUME NEW tb, DOMAIN tb.rows \in SUBSET Nat,
         NEW prefix \in Seq(DOMAIN tb.rows), NEW range \in Seq(DOMAIN tb.rows), NEW sorted \in BOOLEAN
  PROVE  OrderOK([prefix |-> prefix, range |-> range, sorted |-> sorted], tb)
<1>1. prefix \in Seq(Nat) /\ range \in Seq(Nat)
  BY SeqWiden
<1> QED BY <1>1 DEF OrderOK, Orders

LEMMA NewOrdersOK ==
  ASSUME NEW tb, DOMAIN tb.rows \in SUBSET Nat
  PROVE  OrderOK(NewOrders, tb)
<1>1. <<>> \in Seq(DOMAIN tb.rows)
  OBVIOUS
<1> QED BY <1>1, OrderMade DEF NewOrders

\* Another order of the same ids.
LEMMA ReorderedType ==
  ASSUME NEW S, NEW s \in Seq(S), NEW p \in Reorderings(s)
  PROVE  p \in Seq(S)
<1>1. p \in [1..Len(s) -> ToSet(s)]
  BY DEF Reorderings
<1>2. ToSet(s) \subseteq S
  BY DEF ToSet
<1> QED BY <1>1, <1>2

LEMMA IndexedOK ==
  ASSUME NEW tb, DOMAIN tb.rows \in SUBSET Nat, NEW o, OrderOK(o, tb),
         NEW ids \in Seq(DOMAIN tb.rows), NEW new \in Indexed(o, ids, tb.rows)
  PROVE  OrderOK(new, tb)
<1> DEFINE I == DOMAIN tb.rows
           pushed == o.prefix \o ids
<1>1. CASE ids = <<>>
  BY <1>1 DEF Indexed
<1>2. CASE ids # <<>>
  <2>1. PICK walk \in Walks(pushed, tb.rows) :
          new = [prefix |-> walk, range |-> o.range \o ids, sorted |-> FALSE]
    BY <1>2 DEF Indexed
  <2>2. pushed \in Seq(I) /\ o.range \o ids \in Seq(I)
    BY ConcatProperties DEF OrderOK
  <2>3. walk \in Reorderings(pushed)
    BY <2>1 DEF Walks
  <2> HIDE DEF pushed
  <2>4. walk \in Seq(I)
    BY <2>2, <2>3, ReorderedType
  <2> QED BY <2>1, <2>2, <2>4, OrderMade
<1> QED BY <1>1, <1>2

\* Rows that are removed are no longer listed.
LEMMA RemovedIs ==
  ASSUME NEW o \in Orders, NEW D
  PROVE  /\ Removed(o, D) \in Orders
         /\ Removed(o, D).prefix = Only(o.prefix, Nat \ D)
         /\ Removed(o, D).range = Only(o.range, Nat \ D)
         /\ Removed(o, D).sorted = o.sorted
<1> DEFINE prefix == Only(o.prefix, Nat \ D)
           range == Only(o.range, Nat \ D)
<1>1. prefix \in Seq(Nat) /\ range \in Seq(Nat)
  BY OnlyType DEF Orders
<1>2. Removed(o, D) = [o EXCEPT !.prefix = prefix, !.range = range]
  BY DEF Removed
<1> HIDE DEF prefix, range
<1>3. /\ Removed(o, D) \in Orders /\ Removed(o, D).prefix = prefix
      /\ Removed(o, D).range = range /\ Removed(o, D).sorted = o.sorted
  BY <1>1, <1>2 DEF Orders
<1> QED BY <1>3 DEF prefix, range

LEMMA RemovedOK ==
  ASSUME NEW tb, NEW o, OrderOK(o, tb), NEW D, NEW less, DOMAIN tb.rows \ D \subseteq DOMAIN less.rows
  PROVE  OrderOK(Removed(o, D), less)
<1> DEFINE I == DOMAIN tb.rows
           J == DOMAIN less.rows
<1>1. ASSUME NEW list \in Seq(I) PROVE Only(list, Nat \ D) \in Seq(J)
  <2>1. Only(list, Nat \ D) \in Seq(I \cap (Nat \ D))
    BY OnlyType
  <2>2. I \cap (Nat \ D) \subseteq J
    OBVIOUS
  <2> HIDE DEF I, J
  <2> QED BY <2>1, <2>2, SeqWiden
<1>2. o.prefix \in Seq(I) /\ o.range \in Seq(I) /\ o \in Orders
  BY DEF OrderOK
<1>3. Only(o.prefix, Nat \ D) \in Seq(J) /\ Only(o.range, Nat \ D) \in Seq(J)
  BY <1>1, <1>2
<1> QED BY <1>2, <1>3, RemovedIs DEF OrderOK

\* What a search by range leaves of the orders.
SortedAs(o, list) == [o EXCEPT !.range = list, !.sorted = TRUE]

LEMMA SortedOK ==
  ASSUME NEW tb, DOMAIN tb.rows \in SUBSET Nat, NEW o, OrderOK(o, tb), NEW list \in ensure_sorted(o, tb.rows),
         NEW new, new = SortedAs(o, list)
  PROVE  OrderOK(new, tb) /\ new.sorted /\ new.prefix = o.prefix /\ (o.sorted => new = o)
<1>1. o \in Orders /\ o.prefix \in Seq(DOMAIN tb.rows) /\ o.range \in Seq(DOMAIN tb.rows)
  BY DEF OrderOK
<1>2. o = [prefix |-> o.prefix, range |-> o.range, sorted |-> o.sorted] /\ o.sorted \in BOOLEAN
  BY <1>1 DEF Orders
<1>3. new = [prefix |-> o.prefix, range |-> list, sorted |-> TRUE]
  BY <1>2 DEF SortedAs
<1>4. list \in Seq(DOMAIN tb.rows)
  <2>1. CASE o.sorted
    BY <1>1, <2>1 DEF ensure_sorted
  <2>2. CASE ~ o.sorted
    <3>1. list \in Reorderings(o.range)
      BY <2>2 DEF ensure_sorted
    <3> QED BY <1>1, <3>1, ReorderedType
  <2> QED BY <2>1, <2>2
<1>5. OrderOK(new, tb)
  BY <1>1, <1>3, <1>4, OrderMade
<1>6. ASSUME o.sorted PROVE new = o
  <2>1. list = o.range /\ o.sorted = TRUE
    BY <1>2, <1>6 DEF ensure_sorted
  <2> QED BY <1>2, <1>3, <2>1
<1> QED BY <1>3, <1>5, <1>6

-----------------------------------------------------------------------------
(* Searches. *)

LEMMA ListingIs ==
  ASSUME NEW tb, NEW o
  PROVE  /\ Listing(tb, o, "terms") = tb.listing
         /\ Listing(tb, o, "prefix") = o.prefix
         /\ Listing(tb, o, "range") = o.range
  BY DEF Listing

LEMMA SearchIs ==
  ASSUME NEW search \in Search
  PROVE  search.by \in {"terms", "prefix", "range"}
  BY DatabaseAssumption DEF By

LEMMA ListingType ==
  ASSUME NEW tb \in Table, NEW o \in Orders, NEW search \in Search
  PROVE  Listing(tb, o, search.by) \in Seq(Nat)
<1>1. tb.listing \in Seq(Nat) /\ o.prefix \in Seq(Nat) /\ o.range \in Seq(Nat)
  BY TableFields DEF Orders
<1> QED BY <1>1, SearchIs, ListingIs

LEMMA HitsType ==
  ASSUME NEW tb \in Table, NEW o \in Orders, NEW search \in Search
  PROVE  Hits(tb, o, search) \in Seq(DOMAIN tb.rows) /\ Hits(tb, o, search) \in Seq(Nat)
<1> DEFINE found == Found(tb, search.kinds)
           list == Listing(tb, o, search.by)
<1>1. list \in Seq(Nat) /\ DOMAIN tb.rows \in SUBSET Nat
  BY TableFields, ListingType
<1> HIDE DEF found, list
<1>2. Hits(tb, o, search) \in Seq(Nat \cap found)
  BY <1>1, OnlyType DEF Hits, found, list
<1>3. Nat \cap found \subseteq DOMAIN tb.rows
  BY DEF Found, found
<1> QED BY <1>1, <1>2, <1>3, SeqWiden

LEMMA HitsWithout ==
  ASSUME NEW tb \in Table, NEW o \in Orders, NEW D, NEW search \in Search
  PROVE  Hits(Without(tb, D), Removed(o, D), search) = Only(Hits(tb, o, search), Nat \ D)
<1> DEFINE less == Without(tb, D)
           l == Listing(tb, o, search.by)
           before == Found(tb, search.kinds)
           after == Found(less, search.kinds)
<1>1. l \in Seq(Nat) /\ DOMAIN tb.rows \in SUBSET Nat
  BY TableFields, ListingType
<1>2. /\ less.listing = Only(tb.listing, Nat \ D)
      /\ DOMAIN less.rows = DOMAIN tb.rows \ D
      /\ \A i \in DOMAIN tb.rows \ D : less.rows[i] = tb.rows[i]
  BY DEF Without
<1>3. (Nat \ D) \cap after = before \cap (Nat \ D)
  BY <1>1, <1>2 DEF Found
<1>4. Listing(less, Removed(o, D), search.by) = Only(l, Nat \ D)
  <2>1. Removed(o, D).prefix = Only(o.prefix, Nat \ D) /\ Removed(o, D).range = Only(o.range, Nat \ D)
    BY RemovedIs
  <2> HIDE DEF less
  <2> QED BY <1>2, <2>1, SearchIs, ListingIs
<1>5. Hits(less, Removed(o, D), search) = Only(Only(l, Nat \ D), after) /\ Hits(tb, o, search) = Only(l, before)
  BY <1>4 DEF Hits
<1> HIDE DEF less, l, before, after
<1>6. Only(Only(l, Nat \ D), after) = Only(l, (Nat \ D) \cap after)
  BY <1>1, OnlyOnly
<1>7. Only(Only(l, before), Nat \ D) = Only(l, before \cap (Nat \ D))
  BY <1>1, OnlyOnly
<1> QED BY <1>3, <1>5, <1>6, <1>7 DEF less

\* There are more hits, after those there were.
Grown(hits, new) == \E more \in Seq(Nat) : new = hits \o more

LEMMA HitsUpdated ==
  ASSUME NEW tb \in Table, NEW id \in DOMAIN tb.rows, NEW to \in Kind, NEW o, NEW u, NEW search, search.by = "terms"
  PROVE  Grown(Only(Hits(tb, o, search), Nat \ {id}), Hits(update(tb, id, to), u, search))
<1> DEFINE new == update(tb, id, to)
           l == tb.listing
           less == Only(l, Nat \ {id})
           last == Listed(id, to)
           before == Found(tb, search.kinds)
           after == Found(new, search.kinds)
<1>1. l \in Seq(Nat) /\ DOMAIN tb.rows \in SUBSET Nat
  BY TableFields
<1>2. /\ new.listing = less \o last
      /\ new.rows = [i \in DOMAIN tb.rows |->
                       IF i = id THEN [kind |-> to, key |-> tb.rows[id].key] ELSE tb.rows[i]]
  <2>1. new = [width   |-> tb.width,
               rows    |-> [i \in DOMAIN tb.rows |->
                              IF i = id THEN [kind |-> to, key |-> tb.rows[id].key] ELSE tb.rows[i]],
               listing |-> less \o last,
               next_id |-> tb.next_id]
    BY UpdateIs
  <2> HIDE DEF new, less, last
  <2> QED BY <2>1
<1>3. (Nat \ {id}) \cap after = before \cap (Nat \ {id})
  <2> HIDE DEF new
  <2> QED BY <1>1, <1>2 DEF Found
<1>4. Hits(new, u, search) = Only(new.listing, after) /\ Hits(tb, o, search) = Only(l, before)
  BY ListingIs DEF Hits
<1>5. last \in Seq(Nat)
  BY <1>1, ListedType
<1> HIDE DEF new, last, l, before, after
<1>6. less \in Seq(Nat)
  BY <1>1, OnlyType
<1>7. Only(less, after) = Only(l, (Nat \ {id}) \cap after)
  BY <1>1, OnlyOnly
<1>8. Only(Only(l, before), Nat \ {id}) = Only(l, before \cap (Nat \ {id}))
  BY <1>1, OnlyOnly
<1> HIDE DEF less
<1>9. Only(less \o last, after) = Only(less, after) \o Only(last, after)
  BY <1>5, <1>6, OnlyConcat
<1>10. Only(last, after) \in Seq(Nat)
  BY <1>5, OnlyType
<1>11. Hits(new, u, search) = Only(Hits(tb, o, search), Nat \ {id}) \o Only(last, after)
  BY <1>2, <1>3, <1>4, <1>7, <1>8, <1>9
<1> QED BY <1>10, <1>11 DEF new, Grown

\* By terms, the table that was has the first hits of the one it became.
LEMMA HitsInserted ==
  ASSUME NEW tb \in Table, tb.listing \in Seq(DOMAIN tb.rows), NEW born, NEW F \in Seq(Row),
         NEW done, Comes(tb, born, F, done), NEW o, NEW u, NEW search, search.by = "terms"
  PROVE  Grown(Hits(tb, o, search), Hits(done.table, u, search))
<1> DEFINE new == done.table
           l == tb.listing
           first == tb.next_id
           m == Len(F)
           before == Found(tb, search.kinds)
           after == Found(new, search.kinds)
<1>1. first \in Nat /\ m \in Nat /\ DOMAIN tb.rows \in SUBSET Nat /\ l \in Seq(DOMAIN tb.rows) /\ l \in Seq(Nat)
  BY TableFields
<1>2. /\ DOMAIN tb.rows \subseteq DOMAIN new.rows
      /\ \A i \in DOMAIN tb.rows : new.rows[i] = tb.rows[i]
  BY DEF Comes
<1>3. PICK added \in Seq(first..(first + m - 1)) : new.listing = l \o added
  BY DEF Comes
<1>4. Hits(new, u, search) = Only(new.listing, after) /\ Hits(tb, o, search) = Only(l, before)
  BY ListingIs DEF Hits
<1>5. first..(first + m - 1) \subseteq Nat
  BY <1>1
<1> HIDE DEF new, l, first, m
<1>6. added \in Seq(Nat)
  BY <1>5, SeqWiden
<1>7. Only(l, after) = Only(l, before)
  <2>1. ASSUME NEW i \in 1..Len(l) PROVE l[i] \in after <=> l[i] \in before
    <3>1. l[i] \in DOMAIN tb.rows
      BY <1>1
    <3> QED BY <1>2, <3>1 DEF Found
  <2> HIDE DEF before, after
  <2> QED BY <1>1, <2>1, OnlyAlike
<1> HIDE DEF before, after
<1>8. Only(l \o added, after) = Only(l, after) \o Only(added, after)
  BY <1>1, <1>6, OnlyConcat
<1>9. Only(added, after) \in Seq(Nat)
  BY <1>6, OnlyType
<1>10. Hits(new, u, search) = Hits(tb, o, search) \o Only(added, after)
  BY <1>3, <1>4, <1>7, <1>8
<1> QED BY <1>9, <1>10 DEF new, Grown

\* A batch of rows that all were errors leaves what it found.
LEMMA HitsKept ==
  ASSUME NEW tb \in Table, NEW born, NEW F \in Seq(Row), NEW done, Comes(tb, born, F, done), done.ids = <<>>,
         NEW o, NEW search \in Search, search.by # "terms"
  PROVE  Hits(done.table, o, search) = Hits(tb, o, search)
<1> DEFINE new == done.table
           first == tb.next_id
           m == Len(F)
<1>1. first \in Nat /\ m \in Nat
  BY TableFields
<1>2. done.ids = [j \in 1..m |-> first + j - 1]
  BY DEF Comes
<1> HIDE DEF first, m
<1>3. m = 0
  <2>1. DOMAIN [j \in 1..m |-> first + j - 1] = 1..m
    OBVIOUS
  <2>2. 1..m = {}
    <3>1. DOMAIN <<>> = {}
      OBVIOUS
    <3> QED BY <1>2, <2>1, <3>1
  <2>3. ~ (1 <= m)
    BY <1>1, <2>2
  <2> QED BY <1>1, <2>3
<1>4. first..(first + m - 1) = {}
  BY <1>1, <1>3
<1>5. /\ DOMAIN new.rows = DOMAIN tb.rows \cup (first..(first + m - 1))
      /\ \A i \in DOMAIN tb.rows : new.rows[i] = tb.rows[i]
  BY DEF Comes, first, m
<1>6. Found(new, search.kinds) = Found(tb, search.kinds)
  <2> HIDE DEF new
  <2> QED BY <1>4, <1>5 DEF Found
<1>7. Listing(new, o, search.by) = Listing(tb, o, search.by)
  BY SearchIs, ListingIs
<1> QED BY <1>6, <1>7 DEF Hits

-----------------------------------------------------------------------------
(* Pages. *)

LEMMA PrefixMade ==
  ASSUME NEW S, NEW s \in Seq(S), NEW u \in Seq(S)
  PROVE  IsPrefix(s, s \o u)
<1> DEFINE t == s \o u
           n == Len(s)
<1>1. t \in Seq(S) /\ n \in Nat /\ n <= Len(t) /\ \A i \in 1..n : t[i] = s[i] /\ s[i] \in S
  OBVIOUS
<1> HIDE DEF t
<1>2. SubSeq(s, 1, n) = SubSeq(t, 1, n)
  <2>1. SubSeq(s, 1, n) \in Seq(S) /\ SubSeq(t, 1, n) \in Seq(S)
    BY <1>1
  <2>2. Len(SubSeq(s, 1, n)) = n /\ Len(SubSeq(t, 1, n)) = n
    BY <1>1
  <2>3. ASSUME NEW i \in 1..n PROVE SubSeq(s, 1, n)[i] = SubSeq(t, 1, n)[i]
    BY <1>1
  <2> QED BY <2>1, <2>2, <2>3, SeqEqual
<1> QED BY <1>1, <1>2 DEF IsPrefix, t

LEMMA PrefixRest ==
  ASSUME NEW S, NEW s \in Seq(S), NEW t \in Seq(S), IsPrefix(s, t)
  PROVE  /\ SubSeq(t, Len(s) + 1, Len(t)) \in Seq(S)
         /\ t = s \o SubSeq(t, Len(s) + 1, Len(t))
<1> DEFINE n == Len(s)
           u == SubSeq(t, n + 1, Len(t))
<1>1. n \in Nat /\ Len(t) \in Nat /\ n <= Len(t)
  BY DEF IsPrefix
<1>2. \A i \in 1..n : s[i] = t[i]
  <2> SUFFICES ASSUME NEW i \in 1..n PROVE s[i] = t[i]
    OBVIOUS
  <2>1. SubSeq(s, 1, n)[i] = s[i] /\ SubSeq(t, 1, n)[i] = t[i]
    BY <1>1
  <2>2. SubSeq(s, 1, n) = SubSeq(t, 1, n)
    BY DEF IsPrefix
  <2> QED BY <2>1, <2>2
<1>3. /\ u \in Seq(S) /\ Len(u) = Len(t) - n
      /\ \A i \in 1..(Len(t) - n) : u[i] = t[n + i]
  <2>1. n + 1 \in Int /\ Len(t) \in Int /\ \A i \in (n + 1)..Len(t) : t[i] \in S
    BY <1>1
  <2>2. /\ u \in Seq(S)
        /\ Len(u) = IF n + 1 <= Len(t) THEN Len(t) - (n + 1) + 1 ELSE 0
        /\ \A i \in 1..(Len(t) - (n + 1) + 1) : u[i] = t[(n + 1) + i - 1]
    BY <2>1, SubSeqProperties
  <2>3. Len(u) = Len(t) - n
    BY <1>1, <2>2
  <2>4. \A i \in 1..(Len(t) - n) : u[i] = t[n + i]
    BY <1>1, <2>2
  <2> QED BY <2>2, <2>3, <2>4
<1> HIDE DEF u
<1>4. t = s \o u
  <2>1. s \o u \in Seq(S) /\ Len(s \o u) = Len(t)
    BY <1>1, <1>3
  <2>2. ASSUME NEW i \in 1..Len(t) PROVE (s \o u)[i] = t[i]
    <3>1. CASE i <= n
      BY <1>1, <1>2, <1>3, <3>1
    <3>2. CASE ~(i <= n)
      <4>1. i - n \in 1..(Len(t) - n) /\ n + (i - n) = i
        BY <1>1, <3>2
      <4>2. (s \o u)[i] = u[i - n]
        BY <1>1, <1>3, <3>2
      <4> QED BY <1>3, <4>1, <4>2
    <3> QED BY <3>1, <3>2
  <2> QED BY <2>1, <2>2, SeqEqual
<1> QED BY <1>3, <1>4 DEF u

\* What begins a sequence still begins it when others leave it and more come.
LEMMA PrefixStays ==
  ASSUME NEW s \in Seq(Nat), NEW t \in Seq(Nat), IsPrefix(s, t), NEW D, D \cap ToSet(s) = {},
         NEW more \in Seq(Nat)
  PROVE  IsPrefix(s, Only(t, Nat \ D) \o more)
<1> DEFINE u == SubSeq(t, Len(s) + 1, Len(t))
           V == Nat \ D
           rest == Only(u, V)
<1>1. u \in Seq(Nat) /\ t = s \o u
  BY PrefixRest
<1> HIDE DEF u
<1>2. Only(s, V) = s
  <2>1. ASSUME NEW i \in 1..Len(s) PROVE s[i] \in V <=> s[i] \in Nat
    <3>1. s[i] \in Nat /\ s[i] \in ToSet(s)
      BY DEF ToSet
    <3> QED BY <3>1
  <2> HIDE DEF V
  <2>2. Only(s, V) = Only(s, Nat)
    BY <2>1, OnlyAlike
  <2> QED BY <2>2, OnlyAll
<1> HIDE DEF V
<1>3. Only(t, V) = s \o rest
  <2>1. Only(s \o u, V) = Only(s, V) \o Only(u, V)
    BY <1>1, OnlyConcat
  <2> QED BY <1>1, <1>2, <2>1
<1>4. rest \in Seq(Nat)
  BY <1>1, OnlyType
<1> HIDE DEF rest
<1>5. (s \o rest) \o more = s \o (rest \o more) /\ rest \o more \in Seq(Nat)
  <2>1. Regroups(s, rest, more) /\ rest \o more \in Seq(Nat)
    BY <1>4, Regrouped, ConcatProperties
  <2> QED BY <2>1 DEF Regroups
<1>6. IsPrefix(s, s \o (rest \o more))
  BY <1>5, PrefixMade
<1> QED BY <1>3, <1>5, <1>6 DEF V

LEMMA PageType ==
  ASSUME NEW S, NEW hits \in Seq(S), NEW offset \in Nat
  PROVE  Page(hits, offset) \in Seq(S)
<1> DEFINE from == IF offset < Len(hits) THEN SubSeq(hits, offset + 1, Len(hits)) ELSE <<>>
<1>1. from \in Seq(S)
  OBVIOUS
<1>2. Page(hits, offset) = IF Limit < Len(from) THEN SubSeq(from, 1, Limit) ELSE from
  BY DEF Page
<1> HIDE DEF from
<1>3. Limit \in Nat
  BY DatabaseAssumption
<1>4. SubSeq(from, 1, Limit) \in Seq(S) \/ ~(Limit < Len(from))
  BY <1>1, <1>3
<1> QED BY <1>1, <1>2, <1>4

\* The next page goes on where the pages so far ended.
LEMMA PageContinues ==
  ASSUME NEW S, NEW hits \in Seq(S), NEW seen \in Seq(S), IsPrefix(seen, hits)
  PROVE  IsPrefix(seen \o Page(hits, Len(seen)), hits)
<1> DEFINE u == SubSeq(hits, Len(seen) + 1, Len(hits))
           page == Page(hits, Len(seen))
<1>1. u \in Seq(S) /\ hits = seen \o u
  BY PrefixRest
<1>2. page = IF Limit < Len(u) THEN SubSeq(u, 1, Limit) ELSE u
  <2> DEFINE from == IF Len(seen) < Len(hits) THEN u ELSE <<>>
  <2>1. page = IF Limit < Len(from) THEN SubSeq(from, 1, Limit) ELSE from
    BY DEF Page
  <2>2. Len(hits) = Len(seen) + Len(u) /\ Len(u) \in Nat /\ Len(seen) \in Nat
    <3> HIDE DEF u
    <3>1. Len(seen \o u) = Len(seen) + Len(u)
      BY <1>1
    <3> QED BY <1>1, <3>1
  <2> HIDE DEF u
  <2>3. from = u
    BY <1>1, <2>2
  <2> HIDE DEF page, from
  <2> QED BY <2>1, <2>3
<1>3. PICK rest \in Seq(S) : u = page \o rest /\ page \in Seq(S)
  <2> HIDE DEF u, page
  <2>1. Limit \in Nat
    BY DatabaseAssumption
  <2>2. CASE Limit < Len(u)
    <3>1. IsPrefix(page, u)
      <4>1. Len(page) = Limit /\ Len(page) <= Len(u) /\ page \in Seq(S)
        BY <1>1, <1>2, <2>1, <2>2
      <4>2. SubSeq(page, 1, Limit) = page
        BY <2>1, <4>1
      <4> QED BY <1>2, <2>2, <4>1, <4>2 DEF IsPrefix
    <3>2. page \in Seq(S)
      BY <1>1, <1>2, <2>1, <2>2
    <3> QED BY <1>1, <3>1, <3>2, PrefixRest
  <2>3. CASE ~(Limit < Len(u))
    <3>1. page = u /\ <<>> \in Seq(S) /\ u \o <<>> = u
      BY <1>1, <1>2, <2>3
    <3> QED BY <1>1, <3>1
  <2> QED BY <2>2, <2>3
<1> HIDE DEF u, page
<1>4. hits = (seen \o page) \o rest /\ seen \o page \in Seq(S)
  <2>1. seen \o (page \o rest) = (seen \o page) \o rest
    <3>1. Regroups(seen, page, rest)
      BY <1>3, Regrouped
    <3> QED BY <3>1 DEF Regroups
  <2>2. seen \o page \in Seq(S)
    BY <1>3, ConcatProperties
  <2> QED BY <1>1, <1>3, <2>1, <2>2
<1>5. IsPrefix(seen \o page, (seen \o page) \o rest)
  BY <1>4, PrefixMade
<1> QED BY <1>4, <1>5 DEF page

-----------------------------------------------------------------------------
(* Tables that are as they should be when b rows have been made. *)

TableOK(tb, b) ==
  /\ tb \in Table
  /\ tb.next_id >= 1
  /\ DOMAIN tb.rows \subseteq 1..(tb.next_id - 1)
  /\ \A i \in DOMAIN tb.rows : tb.rows[i].key \in 1..b
  /\ tb.listing \in Seq(DOMAIN tb.rows)

LEMMA NewOK ==
  ASSUME NEW width \in Width, NEW b
  PROVE  TableOK(NewTable(width), b)
<1> DEFINE tb == NewTable(width)
<1>1. tb.width = width /\ tb.rows = <<>> /\ tb.listing = <<>> /\ tb.next_id = 1
  BY DEF NewTable
<1>2. <<>> \in Seq(Nat) /\ DOMAIN <<>> = {} /\ <<>> \in Seq({}) /\ <<>> \in [{} -> Cells]
  OBVIOUS
<1>3. tb \in Table
  <2>1. tb = [width |-> width, rows |-> <<>>, listing |-> <<>>, next_id |-> 1]
    BY DEF NewTable
  <2>2. DOMAIN <<>> \in SUBSET Nat /\ <<>> \in [DOMAIN <<>> -> Cells]
    BY <1>2
  <2> HIDE DEF tb
  <2> QED BY <1>2, <2>1, <2>2, TableMade
<1> HIDE DEF tb
<1> QED BY <1>1, <1>2, <1>3 DEF TableOK, tb

LEMMA GrownOK ==
  ASSUME NEW tb, NEW b \in Nat, NEW c \in Nat, b <= c, TableOK(tb, b)
  PROVE  TableOK(tb, c)
<1>1. \A i \in DOMAIN tb.rows : tb.rows[i].key \in 1..c
  BY DEF TableOK
<1> QED BY <1>1 DEF TableOK

LEMMA WithoutOK ==
  ASSUME NEW tb, NEW b, TableOK(tb, b), NEW D
  PROVE  TableOK(Without(tb, D), b)
<1> DEFINE less == Without(tb, D)
           I == DOMAIN tb.rows
<1>1. less \in Table
  BY WithoutType DEF TableOK
<1>2. /\ less.next_id = tb.next_id
      /\ DOMAIN less.rows = I \ D
      /\ \A i \in I \ D : less.rows[i] = tb.rows[i]
      /\ less.listing = Only(tb.listing, Nat \ D)
  BY DEF Without
<1> HIDE DEF less, I
<1>3. less.listing \in Seq(I \ D)
  <2>1. Only(tb.listing, Nat \ D) \in Seq(I \cap (Nat \ D))
    BY OnlyType DEF TableOK, I
  <2>2. I \cap (Nat \ D) \subseteq I \ D
    OBVIOUS
  <2> QED BY <1>2, <2>1, <2>2, SeqWiden
<1>4. \A i \in DOMAIN less.rows : less.rows[i].key \in 1..b
  BY <1>2 DEF TableOK, I
<1>5. DOMAIN less.rows \subseteq 1..(less.next_id - 1) /\ less.next_id >= 1
  BY <1>2 DEF TableOK, I
<1> QED BY <1>1, <1>2, <1>3, <1>4, <1>5 DEF TableOK, less

LEMMA UpdatedOK ==
  ASSUME NEW tb, NEW b, TableOK(tb, b), NEW id \in DOMAIN tb.rows, NEW kind \in Kind
  PROVE  /\ TableOK(update(tb, id, kind), b)
         /\ update(tb, id, kind).next_id = tb.next_id
         /\ DOMAIN update(tb, id, kind).rows = DOMAIN tb.rows
         /\ \A i \in DOMAIN tb.rows : update(tb, id, kind).rows[i].key = tb.rows[i].key
<1> DEFINE new == update(tb, id, kind)
           I == DOMAIN tb.rows
           less == Only(tb.listing, Nat \ {id})
           last == Listed(id, kind)
<1>1. tb \in Table
  BY DEF TableOK
<1>2. new \in Table
  BY <1>1, UpdateIs
<1>3. new = [width   |-> tb.width,
             rows    |-> [i \in I |-> IF i = id THEN [kind |-> kind, key |-> tb.rows[id].key] ELSE tb.rows[i]],
             listing |-> less \o last,
             next_id |-> tb.next_id]
  BY <1>1, UpdateIs
<1> HIDE DEF new, less, last
<1>4. /\ new.next_id = tb.next_id
      /\ DOMAIN new.rows = I
      /\ \A i \in I : new.rows[i].key = tb.rows[i].key
      /\ new.listing = less \o last
  BY <1>3
<1>5. less \o last \in Seq(I)
  <2>1. less \in Seq(I)
    BY OnlyType DEF TableOK, less
  <2>2. last \in Seq(I)
    BY ListedType DEF last
  <2> QED BY <2>1, <2>2, ConcatProperties
<1>6. TableOK(new, b)
  BY <1>2, <1>4, <1>5 DEF TableOK
<1> QED BY <1>4, <1>6 DEF new

LEMMA InsertedOK ==
  ASSUME NEW tb, NEW b \in Nat, TableOK(tb, b), NEW F \in Seq(Row), NEW done, Comes(tb, b, F, done)
  PROVE  /\ TableOK(done.table, done.born)
         /\ done.born \in Nat /\ b <= done.born
         /\ done.ids \in Seq(DOMAIN done.table.rows)
<1> DEFINE new == done.table
           m == Len(F)
           first == tb.next_id
           I == DOMAIN tb.rows
           J == first..(first + m - 1)
<1>1. m \in Nat /\ first \in Nat /\ first >= 1 /\ I \subseteq 1..(first - 1)
  BY TableFields DEF TableOK
<1>2. /\ done \in Outcome /\ done.born = b + m
      /\ done.ids = [j \in 1..m |-> first + j - 1]
      /\ new.next_id = first + m
      /\ DOMAIN new.rows = I \cup J
      /\ \A i \in I : new.rows[i] = tb.rows[i]
      /\ \A j \in 1..m : new.rows[first + j - 1] = [kind |-> F[j].kind, key |-> b + j]
  BY DEF Comes
<1>3. PICK added \in Seq(J) : new.listing = tb.listing \o added
  BY DEF Comes
<1>4. new \in Table
  BY <1>2 DEF Outcome
<1>5. tb.listing \in Seq(I) /\ \A i \in I : tb.rows[i].key \in 1..b
  BY DEF TableOK
<1> HIDE DEF new, m, first, I
<1>6. I \cup J \subseteq 1..(first + m - 1)
  BY <1>1
<1>7. ASSUME NEW i \in I \cup J PROVE new.rows[i].key \in 1..(b + m)
  <2>1. CASE i \in I
    <3>1. tb.rows[i].key \in 1..b
      BY <1>5, <2>1
    <3> QED BY <1>1, <1>2, <2>1, <3>1
  <2>2. CASE i \in J
    <3> DEFINE j == i - first + 1
    <3>1. j \in 1..m /\ first + j - 1 = i
      BY <1>1, <2>2
    <3> HIDE DEF j
    <3>2. new.rows[i].key = b + j
      <4>1. new.rows[first + j - 1] = [kind |-> F[j].kind, key |-> b + j]
        BY <1>2, <3>1
      <4> QED BY <3>1, <4>1
    <3> QED BY <1>1, <3>1, <3>2
  <2> QED BY <2>1, <2>2
<1>8. new.listing \in Seq(I \cup J)
  <2>1. tb.listing \in Seq(I \cup J)
    <3>1. I \subseteq I \cup J
      OBVIOUS
    <3> QED BY <1>5, <3>1, SeqWiden
  <2>2. added \in Seq(I \cup J)
    <3>1. J \subseteq I \cup J
      OBVIOUS
    <3> QED BY <3>1, SeqWiden
  <2> QED BY <1>3, <2>1, <2>2, ConcatProperties
<1>9. TableOK(new, done.born)
  <2>1. new.next_id >= 1 /\ new.next_id - 1 = first + m - 1
    BY <1>1, <1>2
  <2> QED BY <1>2, <1>4, <1>6, <1>7, <1>8, <2>1 DEF TableOK
<1>10. done.ids \in Seq(I \cup J)
  <2>1. \A j \in 1..m : first + j - 1 \in I \cup J
    BY <1>1
  <2> QED BY <1>1, <1>2, <2>1
<1> QED BY <1>1, <1>2, <1>9, <1>10 DEF new

\* What a batch comes to, with the rows that fitted.
LEMMA BatchIs ==
  ASSUME NEW tb, NEW b \in Nat, TableOK(tb, b), NEW batch \in Batch
  PROVE  /\ Only(batch, Fitting(tb)) \in Seq(Row)
         /\ Comes(tb, b, Only(batch, Fitting(tb)), insert_batch(tb, batch, b))
<1>1. batch \in Seq(Row) /\ Len(batch) \in 0..Len(batch)
  BY DEF Batch
<1>2. Only(batch, Fitting(tb)) \in Seq(Row)
  BY <1>1, OnlyType
<1>3. tb \in Table /\ \A i \in DOMAIN tb.rows : i < tb.next_id
  <2>1. tb \in Table /\ DOMAIN tb.rows \subseteq 1..(tb.next_id - 1)
    BY DEF TableOK
  <2>2. tb.next_id \in Nat
    BY <2>1, TableFields
  <2> QED BY <2>1, <2>2
<1>4. Comes(tb, b, Kept(batch, Fitting(tb))[Len(batch)], Inserted(tb, batch, b)[Len(batch)])
  BY <1>1, <1>3, InsertedIs
<1> QED BY <1>2, <1>4 DEF Only, insert_batch

-----------------------------------------------------------------------------
(* The state. *)

\* What a client may have.
IdClient   == [has : {"id"}, table : Name, id : Nat, key : Nat]
PageClient == [has : {"pages"}, table : Name, search : Search, seen : Seq(Nat), done : BOOLEAN]

\* What a table owes a client that has something of it.  The id is one that was
\* given: what is given later is another.  A range index that was read stays
\* sorted.
OwesId(c, tb) ==
  /\ c.id < tb.next_id
  /\ c.id \in DOMAIN tb.rows => tb.rows[c.id].key = c.key
OwesPages(c, tb, o) ==
  /\ IsPrefix(c.seen, Hits(tb, o, c.search))
  /\ c.search.by = "range" => o.sorted

IdInv ==
  client \in IdClient =>
    /\ client.key \in 1..births
    /\ client.table \in DOMAIN tables /\ OwesId(client, tables[client.table])

PageInv ==
  client \in PageClient =>
    /\ client.table \in DOMAIN tables
    /\ OwesPages(client, tables[client.table], orders[client.table])

ClientInv ==
  /\ client \in {Nothing} \cup IdClient \cup PageClient
  /\ IdInv
  /\ PageInv

TablesInv ==
  /\ DOMAIN tables \subseteq Name
  /\ \A t \in DOMAIN tables : TableOK(tables[t], births)

OrdersInv ==
  /\ DOMAIN orders = DOMAIN tables
  /\ \A t \in DOMAIN tables : OrderOK(orders[t], tables[t])

IInv ==
  /\ births \in 0..MaxBirths
  /\ TablesInv
  /\ OrdersInv
  /\ ClientInv

LEMMA ClientKinds ==
  /\ Nothing \notin IdClient /\ Nothing \notin PageClient
  /\ \A c \in IdClient : c \notin PageClient /\ c # Nothing /\ c.has = "id"
  /\ \A c \in PageClient : c \notin IdClient /\ c # Nothing /\ c.has = "pages"
  /\ Nothing.has = "nothing"
<1>1. Nothing.has = "nothing"
  BY DEF Nothing
<1>2. \A c \in IdClient : c.has = "id"
  BY DEF IdClient
<1>3. \A c \in PageClient : c.has = "pages"
  BY DEF PageClient
<1> QED BY <1>1, <1>2, <1>3

LEMMA NothingInv ==
  ASSUME client' = Nothing
  PROVE  ClientInv'
  BY ClientKinds DEF ClientInv, IdInv, PageInv

\* The tables but one are as they were.
OthersKept(t) ==
  /\ births' \in Nat /\ births <= births'
  /\ DOMAIN tables \ {t} \subseteq DOMAIN tables'
  /\ \A x \in DOMAIN tables \ {t} : tables'[x] = tables[x] /\ orders'[x] = orders[x]

\* A step that gives one table other contents keeps the promises, when what it
\* owes of that table is still true.
LEMMA ClientCarries ==
  ASSUME IInv, NEW t, OthersKept(t), client' = client,
         client # Nothing /\ client.table = t /\ t \in DOMAIN tables =>
           /\ t \in DOMAIN tables'
           /\ client \in IdClient /\ OwesId(client, tables[t]) => OwesId(client, tables'[t])
           /\ client \in PageClient /\ OwesPages(client, tables[t], orders[t])
                => OwesPages(client, tables'[t], orders'[t])
  PROVE  ClientInv'
<1>1. client \in {Nothing} \cup IdClient \cup PageClient /\ IdInv /\ PageInv /\ births \in Nat
  BY DatabaseAssumption DEF IInv, ClientInv
<1>2. CASE client = Nothing
  BY <1>2, NothingInv
<1>3. CASE client \in IdClient
  <2>1. client.key \in 1..births' /\ client.table \in DOMAIN tables /\ OwesId(client, tables[client.table])
    BY <1>1, <1>3 DEF IdInv, OthersKept
  <2>2. client.table \in DOMAIN tables' /\ OwesId(client, tables'[client.table])
    <3>1. CASE client.table = t
      BY <1>3, <2>1, <3>1, ClientKinds
    <3>2. CASE client.table # t
      BY <2>1, <3>2 DEF OthersKept
    <3> QED BY <3>1, <3>2
  <2> QED BY <1>3, <2>1, <2>2, ClientKinds DEF ClientInv, IdInv, PageInv
<1>4. CASE client \in PageClient
  <2>1. client.table \in DOMAIN tables /\ OwesPages(client, tables[client.table], orders[client.table])
    BY <1>1, <1>4 DEF PageInv
  <2>2. client.table \in DOMAIN tables' /\ OwesPages(client, tables'[client.table], orders'[client.table])
    <3>1. CASE client.table = t
      BY <1>4, <2>1, <3>1, ClientKinds
    <3>2. CASE client.table # t
      BY <2>1, <3>2 DEF OthersKept
    <3> QED BY <3>1, <3>2
  <2> QED BY <1>4, <2>2, ClientKinds DEF ClientInv, IdInv, PageInv
<1> QED BY <1>1, <1>2, <1>3, <1>4

\* A client whose pages are not disturbed reads by terms.
LEMMA DisturbedIs ==
  ASSUME NEW t
  PROVE  /\ client \in PageClient /\ client.table = t => ReadsOf(t)
         /\ client \in PageClient /\ client.table = t /\ ~Disturbed(t) => client.search.by = "terms"
  BY ClientKinds DEF ReadsOf, Reads, Disturbed

\* An insert gives later ids, and its hits by terms come last.
LEMMA OwedInserted ==
  ASSUME NEW tb, NEW b \in Nat, TableOK(tb, b), NEW F \in Seq(Row), NEW done, Comes(tb, b, F, done), NEW c,
         NEW o, OrderOK(o, tb), NEW u, u = o \/ done.ids # <<>>
  PROVE  /\ c \in IdClient /\ OwesId(c, tb) => OwesId(c, done.table)
         /\ c \in PageClient /\ OwesPages(c, tb, o) /\ (done.ids = <<>> \/ c.search.by = "terms")
              => OwesPages(c, done.table, u)
<1>1. tb \in Table /\ tb.next_id \in Nat /\ Len(F) \in Nat /\ DOMAIN tb.rows \in SUBSET Nat /\ o \in Orders
  BY TableFields DEF TableOK, OrderOK
<1>2. ASSUME c \in IdClient, OwesId(c, tb) PROVE OwesId(c, done.table)
  <2>1. /\ done.table.next_id = tb.next_id + Len(F)
        /\ DOMAIN done.table.rows = DOMAIN tb.rows \cup (tb.next_id..(tb.next_id + Len(F) - 1))
        /\ \A i \in DOMAIN tb.rows : done.table.rows[i] = tb.rows[i]
    BY DEF Comes
  <2>2. c.id \in Nat /\ c.id < tb.next_id
    BY <1>2 DEF IdClient, OwesId
  <2>3. c.id \in DOMAIN done.table.rows => c.id \in DOMAIN tb.rows
    BY <1>1, <2>1, <2>2
  <2> QED BY <1>1, <1>2, <2>1, <2>2, <2>3 DEF OwesId
<1>3. ASSUME c \in PageClient, OwesPages(c, tb, o), c.search.by = "terms" PROVE OwesPages(c, done.table, u)
  <2> DEFINE hits == Hits(tb, o, c.search)
  <2>1. PICK more \in Seq(Nat) : Hits(done.table, u, c.search) = hits \o more
    <3>1. tb.listing \in Seq(DOMAIN tb.rows)
      BY DEF TableOK
    <3>2. Grown(hits, Hits(done.table, u, c.search))
      BY <1>1, <1>3, <3>1, HitsInserted
    <3> QED BY <3>2 DEF Grown
  <2>2. c.seen \in Seq(Nat) /\ hits \in Seq(Nat) /\ IsPrefix(c.seen, hits)
    BY <1>1, <1>3, HitsType DEF PageClient, OwesPages
  <2> HIDE DEF hits
  <2>3. Only(hits, Nat \ {}) = hits
    <3>1. Nat \ {} = Nat
      OBVIOUS
    <3> QED BY <2>2, <3>1, OnlyAll
  <2>4. IsPrefix(c.seen, Only(hits, Nat \ {}) \o more)
    <3>1. {} \cap ToSet(c.seen) = {}
      OBVIOUS
    <3> QED BY <2>2, <3>1, PrefixStays
  <2> QED BY <1>3, <2>1, <2>3, <2>4 DEF OwesPages
<1>4. ASSUME c \in PageClient, OwesPages(c, tb, o), done.ids = <<>>, c.search.by # "terms"
      PROVE  OwesPages(c, done.table, u)
  <2>1. c.search \in Search /\ u = o
    BY <1>4 DEF PageClient
  <2>2. Hits(done.table, o, c.search) = Hits(tb, o, c.search)
    BY <1>1, <1>4, <2>1, HitsKept
  <2> QED BY <1>4, <2>1, <2>2 DEF OwesPages
<1> QED BY <1>2, <1>3, <1>4

\* The rows that a reader has seen are there.
LEMMA SeenAreThere ==
  ASSUME NEW tb \in Table, NEW o \in Orders, NEW c \in PageClient, OwesPages(c, tb, o)
  PROVE  /\ ToSet(c.seen) \subseteq DOMAIN tb.rows
         /\ c.seen \in Seq(Nat) /\ c.seen \in Seq(DOMAIN tb.rows)
<1> DEFINE hits == Hits(tb, o, c.search)
           s == c.seen
<1>1. s \in Seq(Nat) /\ hits \in Seq(DOMAIN tb.rows) /\ hits \in Seq(Nat) /\ IsPrefix(s, hits)
  BY HitsType DEF PageClient, OwesPages
<1> HIDE DEF hits, s
<1>2. SubSeq(hits, Len(s) + 1, Len(hits)) \in Seq(Nat) /\ hits = s \o SubSeq(hits, Len(s) + 1, Len(hits))
  BY <1>1, PrefixRest
<1>3. ASSUME NEW i \in 1..Len(s) PROVE s[i] \in DOMAIN tb.rows
  <2>1. i \in 1..Len(hits) /\ hits[i] = s[i]
    BY <1>1, <1>2
  <2> QED BY <1>1, <2>1
<1>4. ToSet(s) \subseteq DOMAIN tb.rows
  BY <1>1, <1>3 DEF ToSet
<1>5. s \in Seq(DOMAIN tb.rows)
  <2>1. s = [i \in 1..Len(s) |-> s[i]] /\ Len(s) \in Nat
    BY <1>1
  <2> QED BY <1>3, <2>1
<1> QED BY <1>1, <1>4, <1>5 DEF s

\* A delete takes no other row, and nothing in front of what is left.
LEMMA OwedWithout ==
  ASSUME NEW tb, NEW b, TableOK(tb, b), NEW o, OrderOK(o, tb), NEW D, NEW c
  PROVE  /\ c \in IdClient /\ OwesId(c, tb) => OwesId(c, Without(tb, D))
         /\ c \in PageClient /\ OwesPages(c, tb, o) /\ (D \cap DOMAIN tb.rows) \cap ToSet(c.seen) = {}
              => OwesPages(c, Without(tb, D), Removed(o, D))
<1>1. tb \in Table /\ o \in Orders
  BY DEF TableOK, OrderOK
<1>2. ASSUME c \in IdClient, OwesId(c, tb) PROVE OwesId(c, Without(tb, D))
  BY <1>2 DEF OwesId, Without
<1>3. ASSUME c \in PageClient, OwesPages(c, tb, o), (D \cap DOMAIN tb.rows) \cap ToSet(c.seen) = {}
      PROVE  OwesPages(c, Without(tb, D), Removed(o, D))
  <2> DEFINE hits == Hits(tb, o, c.search)
  <2>1. Hits(Without(tb, D), Removed(o, D), c.search) = Only(hits, Nat \ D)
    BY <1>1, <1>3, HitsWithout DEF PageClient
  <2>2. hits \in Seq(Nat) /\ IsPrefix(c.seen, hits)
    BY <1>1, <1>3, HitsType DEF OwesPages, PageClient
  <2>3. c.seen \in Seq(Nat) /\ D \cap ToSet(c.seen) = {}
    BY <1>1, <1>3, SeenAreThere
  <2> HIDE DEF hits
  <2>4. <<>> \in Seq(Nat) /\ Only(hits, Nat \ D) \o <<>> = Only(hits, Nat \ D)
    <3>1. Only(hits, Nat \ D) \in Seq(Nat)
      BY <2>2, OnlyType
    <3> QED BY <3>1
  <2>5. IsPrefix(c.seen, Only(hits, Nat \ D) \o <<>>)
    BY <2>2, <2>3, <2>4, PrefixStays
  <2>6. c.search.by = "range" => Removed(o, D).sorted
    BY <1>1, <1>3, RemovedIs DEF OwesPages
  <2> QED BY <2>1, <2>4, <2>5, <2>6 DEF OwesPages
<1> QED BY <1>2, <1>3

\* An update moves its row behind all others in the posting lists.
LEMMA OwedUpdated ==
  ASSUME NEW tb, NEW b, TableOK(tb, b), NEW id \in DOMAIN tb.rows, NEW kind \in Kind, NEW c,
         NEW o, OrderOK(o, tb), NEW u
  PROVE  /\ c \in IdClient /\ OwesId(c, tb) => OwesId(c, update(tb, id, kind))
         /\ c \in PageClient /\ OwesPages(c, tb, o) /\ id \notin ToSet(c.seen) /\ c.search.by = "terms"
              => OwesPages(c, update(tb, id, kind), u)
<1>1. tb \in Table /\ o \in Orders
  BY DEF TableOK, OrderOK
<1>2. ASSUME c \in IdClient, OwesId(c, tb) PROVE OwesId(c, update(tb, id, kind))
  <2>1. /\ update(tb, id, kind).next_id = tb.next_id
        /\ DOMAIN update(tb, id, kind).rows = DOMAIN tb.rows
        /\ \A i \in DOMAIN tb.rows : update(tb, id, kind).rows[i].key = tb.rows[i].key
    BY UpdatedOK
  <2> QED BY <1>2, <2>1 DEF OwesId
<1>3. ASSUME c \in PageClient, OwesPages(c, tb, o), id \notin ToSet(c.seen), c.search.by = "terms"
      PROVE  OwesPages(c, update(tb, id, kind), u)
  <2> DEFINE hits == Hits(tb, o, c.search)
  <2>1. PICK more \in Seq(Nat) : Hits(update(tb, id, kind), u, c.search) = Only(hits, Nat \ {id}) \o more
    <3>1. Grown(Only(hits, Nat \ {id}), Hits(update(tb, id, kind), u, c.search))
      BY <1>1, <1>3, HitsUpdated
    <3> QED BY <3>1 DEF Grown
  <2>2. hits \in Seq(Nat) /\ IsPrefix(c.seen, hits)
    BY <1>1, <1>3, HitsType DEF OwesPages, PageClient
  <2>3. c.seen \in Seq(Nat) /\ {id} \cap ToSet(c.seen) = {}
    BY <1>1, <1>3, SeenAreThere
  <2> HIDE DEF hits
  <2>4. IsPrefix(c.seen, Only(hits, Nat \ {id}) \o more)
    BY <2>2, <2>3, PrefixStays
  <2> QED BY <1>3, <2>1, <2>4 DEF OwesPages
<1> QED BY <1>2, <1>3

-----------------------------------------------------------------------------
(* The handlers. *)

LEMMA PutFacts ==
  ASSUME NEW t, NEW tb, Put(t, tb)
  PROVE  /\ DOMAIN tables' = DOMAIN tables \cup {t}
         /\ tables'[t] = tb
         /\ \A x \in DOMAIN tables \ {t} : tables'[x] = tables[x]
  BY DEF Put, With

LEMMA ListFacts ==
  ASSUME NEW t, NEW some, List(t, some)
  PROVE  /\ DOMAIN orders' = DOMAIN orders \cup {t}
         /\ orders'[t] \in some
         /\ \A x \in DOMAIN orders \ {t} : orders'[x] = orders[x]
  BY DEF List, With

LEMMA PutTables ==
  ASSUME TablesInv, births \in Nat, births' \in Nat, births <= births',
         NEW t \in Name, NEW tb, Put(t, tb), TableOK(tb, births')
  PROVE  TablesInv'
<1>1. /\ DOMAIN tables' = DOMAIN tables \cup {t}
      /\ tables'[t] = tb
      /\ \A x \in DOMAIN tables \ {t} : tables'[x] = tables[x]
  BY PutFacts
<1>2. ASSUME NEW x \in DOMAIN tables' PROVE TableOK(tables'[x], births')
  <2>1. CASE x = t
    BY <1>1, <2>1
  <2>2. CASE x # t
    <3>1. x \in DOMAIN tables /\ tables'[x] = tables[x]
      BY <1>1, <2>2
    <3>2. TableOK(tables[x], births)
      BY <3>1 DEF TablesInv
    <3> QED BY <3>1, <3>2, GrownOK
  <2> QED BY <2>1, <2>2
<1>3. DOMAIN tables' \subseteq Name
  BY <1>1 DEF TablesInv
<1> QED BY <1>2, <1>3 DEF TablesInv

\* A table that is put, with orders that list its rows.
LEMMA PutInv ==
  ASSUME IInv, births' \in Nat, births <= births', NEW t \in Name, NEW tb, Put(t, tb), TableOK(tb, births'),
         NEW some, List(t, some), \A o \in some : OrderOK(o, tb)
  PROVE  /\ TablesInv' /\ OrdersInv' /\ OthersKept(t)
         /\ t \in DOMAIN tables' /\ tables'[t] = tb /\ orders'[t] \in some
<1>1. /\ DOMAIN tables' = DOMAIN tables \cup {t}
      /\ tables'[t] = tb
      /\ \A x \in DOMAIN tables \ {t} : tables'[x] = tables[x]
  BY PutFacts
<1>2. /\ DOMAIN orders' = DOMAIN orders \cup {t}
      /\ orders'[t] \in some
      /\ \A x \in DOMAIN orders \ {t} : orders'[x] = orders[x]
  BY ListFacts
<1>3. TablesInv /\ births \in Nat /\ DOMAIN orders = DOMAIN tables
      /\ \A x \in DOMAIN tables : OrderOK(orders[x], tables[x])
  BY DatabaseAssumption DEF IInv, OrdersInv
<1>4. TablesInv'
  BY <1>3, PutTables
<1>5. ASSUME NEW x \in DOMAIN tables' PROVE OrderOK(orders'[x], tables'[x])
  <2>1. CASE x = t
    BY <1>1, <1>2, <2>1
  <2>2. CASE x # t
    <3>1. x \in DOMAIN tables /\ tables'[x] = tables[x] /\ orders'[x] = orders[x]
      BY <1>1, <1>2, <1>3, <2>2
    <3> QED BY <1>3, <3>1
  <2> QED BY <2>1, <2>2
<1>6. OrdersInv'
  BY <1>1, <1>2, <1>3, <1>5 DEF OrdersInv
<1> QED BY <1>1, <1>2, <1>3, <1>4, <1>6 DEF OthersKept

\* A client that learns an id of an answer is told of that row.
LEMMA LearnInv ==
  ASSUME NEW t \in Name, NEW tb, TableOK(tb, births'), NEW ids \in Seq(DOMAIN tb.rows),
         t \in DOMAIN tables', tables'[t] = tb, Learn(t, tb, ids)
  PROVE  ClientInv'
<1>1. PICK i \in DOMAIN ids :
        client' = [has |-> "id", table |-> t, id |-> ids[i], key |-> tb.rows[ids[i]].key]
  BY DEF Learn
<1> DEFINE id == ids[i]
           key == tb.rows[id].key
<1>2. /\ id \in DOMAIN tb.rows
      /\ key \in 1..births'
      /\ tb.next_id \in Nat
      /\ DOMAIN tb.rows \subseteq 1..(tb.next_id - 1)
  BY TableFields DEF TableOK
<1>3. id \in Nat /\ id < tb.next_id /\ key \in Nat
  BY <1>2
<1>4. client' = [has |-> "id", table |-> t, id |-> id, key |-> key]
  BY <1>1
<1> HIDE DEF id, key
<1>5. client' \in IdClient /\ client'.id = id /\ client'.key = key /\ client'.table = t
  BY <1>3, <1>4 DEF IdClient
<1>6. OwesId(client', tb)
  BY <1>3, <1>5 DEF OwesId, key
<1> QED BY <1>2, <1>5, <1>6, ClientKinds DEF ClientInv, IdInv, PageInv

LEMMA CreateInv ==
  ASSUME IInv, NEW t \in Name, NEW width \in Width, handle_create_table(t, width)
  PROVE  IInv'
<1> DEFINE new == NewTable(width)
<1>1. /\ t \notin DOMAIN tables /\ Put(t, new) /\ List(t, {NewOrders})
      /\ births' = births /\ client' = client /\ births \in Nat
  BY DatabaseAssumption DEF handle_create_table, IInv
<1>2. TableOK(new, births')
  BY NewOK
<1>3. OrderOK(NewOrders, new)
  <2>1. DOMAIN new.rows \in SUBSET Nat
    BY <1>2, TableFields DEF TableOK
  <2> HIDE DEF new
  <2> QED BY <2>1, NewOrdersOK
<1> HIDE DEF new
<1>4. births' \in Nat /\ births <= births' /\ \A o \in {NewOrders} : OrderOK(o, new)
  BY <1>1, <1>3
<1>5. TablesInv' /\ OrdersInv' /\ OthersKept(t)
  BY <1>1, <1>2, <1>4, PutInv
<1>6. ClientInv'
  BY <1>1, <1>5, ClientCarries
<1> QED BY <1>1, <1>5, <1>6 DEF IInv

\* What a drop and a sync have in common: the client is promised nothing more of
\* the table.
LEMMA GoneInv ==
  ASSUME IInv, NEW t, Gone(t), OthersKept(t)
  PROVE  ClientInv'
<1>1. CASE client' = Nothing
  BY <1>1, NothingInv
<1>2. CASE ~(client # Nothing /\ client.table = t) /\ client' = client
  BY <1>2, ClientCarries
<1> QED BY <1>1, <1>2 DEF Gone

LEMMA DropInv ==
  ASSUME IInv, NEW t \in Name, handle_drop_table(t)
  PROVE  IInv'
<1>1. /\ tables' = [x \in DOMAIN tables \ {t} |-> tables[x]]
      /\ orders' = [x \in DOMAIN tables \ {t} |-> orders[x]]
      /\ Gone(t) /\ births' = births /\ births \in Nat
  BY DatabaseAssumption DEF handle_drop_table, IInv
<1>2. /\ DOMAIN tables' = DOMAIN tables \ {t} /\ DOMAIN orders' = DOMAIN tables \ {t}
      /\ \A x \in DOMAIN tables \ {t} : tables'[x] = tables[x] /\ orders'[x] = orders[x]
  BY <1>1
<1>3. TablesInv' /\ OrdersInv'
  BY <1>1, <1>2 DEF IInv, TablesInv, OrdersInv
<1>4. OthersKept(t)
  BY <1>1, <1>2 DEF OthersKept
<1>5. ClientInv'
  BY <1>1, <1>4, GoneInv
<1> QED BY <1>1, <1>3, <1>5 DEF IInv

LEMMA InsertInv ==
  ASSUME IInv, NEW t \in Name, NEW batch \in Batch, handle_insert(t, batch)
  PROVE  IInv'
<1> DEFINE old == tables[t]
           done == insert_batch(old, batch, births)
           F == Only(batch, Fitting(old))
           o == orders[t]
           some == Indexed(o, done.ids, done.table.rows)
<1>1. /\ t \in DOMAIN tables /\ done.born <= MaxBirths /\ Put(t, done.table) /\ List(t, some)
      /\ births' = done.born
      /\ \/ client' = IF Disturbed(t) /\ done.ids # <<>> THEN Nothing ELSE client
         \/ Learn(t, done.table, done.ids)
  BY DEF handle_insert
<1>2. births \in Nat /\ TablesInv /\ TableOK(old, births) /\ OrderOK(o, old)
  BY <1>1, DatabaseAssumption DEF IInv, TablesInv, OrdersInv
<1>3. F \in Seq(Row) /\ Comes(old, births, F, done)
  BY <1>2, BatchIs
<1> HIDE DEF F, done
<1>4. TableOK(done.table, done.born) /\ done.born \in Nat /\ births <= done.born
      /\ done.ids \in Seq(DOMAIN done.table.rows)
  BY <1>2, <1>3, InsertedOK
<1>5. TableOK(done.table, births') /\ births' \in Nat /\ births <= births'
  BY <1>1, <1>4
<1>6. ASSUME NEW u \in some PROVE OrderOK(u, done.table)
  <2>1. OrderOK(o, done.table)
    <3>1. DOMAIN old.rows \subseteq DOMAIN done.table.rows
      BY <1>3 DEF Comes
    <3> QED BY <1>2, <3>1, SeqWiden DEF OrderOK
  <2>2. DOMAIN done.table.rows \in SUBSET Nat
    BY <1>5, TableFields DEF TableOK
  <2> HIDE DEF o
  <2> QED BY <1>4, <2>1, <2>2, IndexedOK
<1>7. done.ids = <<>> => some = {o}
  BY DEF Indexed
<1> HIDE DEF some
<1>8. /\ TablesInv' /\ OrdersInv' /\ OthersKept(t)
      /\ t \in DOMAIN tables' /\ tables'[t] = done.table /\ orders'[t] \in some
  BY <1>1, <1>5, <1>6, PutInv
<1>9. ClientInv'
  <2>1. CASE client' = Nothing
    BY <2>1, NothingInv
  <2>2. CASE client' = client /\ ~(Disturbed(t) /\ done.ids # <<>>)
    <3>1. orders'[t] = o \/ done.ids # <<>>
      BY <1>7, <1>8
    <3>2. /\ client \in IdClient /\ OwesId(client, old) => OwesId(client, done.table)
          /\ client \in PageClient /\ OwesPages(client, old, o)
               /\ (done.ids = <<>> \/ client.search.by = "terms") => OwesPages(client, done.table, orders'[t])
      BY <1>2, <1>3, <3>1, OwedInserted
    <3>3. client \in PageClient /\ client.table = t => (done.ids = <<>> \/ client.search.by = "terms")
      BY <2>2, DisturbedIs
    <3> HIDE DEF o, old
    <3>4. client # Nothing /\ client.table = t /\ t \in DOMAIN tables =>
            /\ t \in DOMAIN tables'
            /\ client \in IdClient /\ OwesId(client, old) => OwesId(client, tables'[t])
            /\ client \in PageClient /\ OwesPages(client, old, o)
                 => OwesPages(client, tables'[t], orders'[t])
      BY <1>8, <3>2, <3>3
    <3> QED BY <1>8, <2>2, <3>4, ClientCarries DEF o, old
  <2>3. CASE Learn(t, done.table, done.ids)
    BY <1>4, <1>5, <1>8, <2>3, LearnInv
  <2> QED BY <1>1, <2>1, <2>2, <2>3
<1>10. births' \in 0..MaxBirths
  BY <1>1, <1>5, DatabaseAssumption
<1> QED BY <1>8, <1>9, <1>10 DEF IInv

LEMMA GetInv ==
  ASSUME IInv, NEW t \in Name, NEW ids \in Seq(Nat), handle_get(t, ids)
  PROVE  IInv'
<1> DEFINE tb == tables[t]
           found == get_many(tb, ids)
<1>1. /\ t \in DOMAIN tables /\ (client' = client \/ Learn(t, tb, found))
      /\ tables' = tables /\ orders' = orders /\ births' = births
  BY DEF handle_get
<1>2. TableOK(tb, births) /\ TablesInv /\ OrdersInv /\ ClientInv /\ births \in 0..MaxBirths
  BY <1>1 DEF IInv, TablesInv
<1>3. found \in Seq(DOMAIN tb.rows)
  <2>1. Only(ids, DOMAIN tb.rows) \in Seq(Nat \cap DOMAIN tb.rows)
    BY OnlyType
  <2>2. Nat \cap DOMAIN tb.rows \subseteq DOMAIN tb.rows
    OBVIOUS
  <2> QED BY <2>1, <2>2, SeqWiden DEF get_many
<1> HIDE DEF found
<1>4. ClientInv'
  <2>1. CASE client' = client
    BY <1>1, <1>2, <2>1 DEF ClientInv, IdInv, PageInv
  <2>2. CASE Learn(t, tb, found)
    <3>1. TableOK(tb, births') /\ tables'[t] = tb /\ t \in DOMAIN tables'
      BY <1>1, <1>2
    <3> HIDE DEF tb
    <3> QED BY <1>3, <2>2, <3>1, LearnInv
  <2> QED BY <1>1, <2>1, <2>2
<1>5. TablesInv' /\ OrdersInv'
  BY <1>1, <1>2 DEF TablesInv, OrdersInv
<1> QED BY <1>1, <1>2, <1>4, <1>5 DEF IInv

LEMMA DeleteInv ==
  ASSUME IInv, NEW t \in Name, NEW ids \in Seq(Nat), handle_delete(t, ids)
  PROVE  IInv'
<1> DEFINE old == tables[t]
           o == orders[t]
           D == ToSet(ids)
           gone == D \cap DOMAIN old.rows
           new == Without(old, D)
           less == Removed(o, D)
<1>1. /\ t \in DOMAIN tables /\ Put(t, delete_all(old, ids)) /\ List(t, {less})
      /\ client' = (IF Seen(t, gone) THEN Nothing ELSE client) /\ births' = births
  BY DEF handle_delete
<1>2. TableOK(old, births) /\ OrderOK(o, old) /\ births \in Nat
  BY <1>1, DatabaseAssumption DEF IInv, TablesInv, OrdersInv
<1>3. delete_all(old, ids) = new
  <2>1. old \in Table /\ Len(ids) \in 0..Len(ids)
    BY <1>2 DEF TableOK
  <2>2. Deleted(old, ids)[Len(ids)] = Without(old, {ids[i] : i \in 1..Len(ids)})
    BY <2>1, DeletedIs
  <2>3. {ids[i] : i \in 1..Len(ids)} = D
    BY DEF ToSet
  <2> QED BY <2>2, <2>3 DEF delete_all
<1> HIDE DEF D
<1>4. /\ TableOK(new, births)
      /\ client \in IdClient /\ OwesId(client, old) => OwesId(client, new)
      /\ client \in PageClient /\ OwesPages(client, old, o) /\ gone \cap ToSet(client.seen) = {}
           => OwesPages(client, new, less)
  BY <1>2, WithoutOK, OwedWithout
<1>5. OrderOK(less, new)
  <2>1. DOMAIN old.rows \ D \subseteq DOMAIN new.rows
    BY DEF Without
  <2> HIDE DEF old, o, new
  <2> QED BY <1>2, <2>1, RemovedOK
<1> HIDE DEF gone, new, less
<1>6. births' \in Nat /\ births <= births' /\ TableOK(new, births') /\ Put(t, new)
      /\ \A u \in {less} : OrderOK(u, new)
  BY <1>1, <1>2, <1>3, <1>4, <1>5
<1>7. /\ TablesInv' /\ OrdersInv' /\ OthersKept(t)
      /\ t \in DOMAIN tables' /\ tables'[t] = new /\ orders'[t] \in {less}
  BY <1>1, <1>6, PutInv
<1>8. ClientInv'
  <2>1. CASE client' = Nothing
    BY <2>1, NothingInv
  <2>2. CASE client' = client /\ ~Seen(t, gone)
    <3>1. client \in PageClient /\ client.table = t => gone \cap ToSet(client.seen) = {}
      BY <2>2, DisturbedIs DEF Seen
    <3> HIDE DEF o, old
    <3>2. client # Nothing /\ client.table = t /\ t \in DOMAIN tables =>
            /\ t \in DOMAIN tables'
            /\ client \in IdClient /\ OwesId(client, old) => OwesId(client, tables'[t])
            /\ client \in PageClient /\ OwesPages(client, old, o)
                 => OwesPages(client, tables'[t], orders'[t])
      BY <1>4, <1>7, <3>1
    <3> QED BY <1>7, <2>2, <3>2, ClientCarries DEF o, old
  <2> QED BY <1>1, <2>1, <2>2
<1> QED BY <1>1, <1>7, <1>8 DEF IInv

LEMMA UpdateInv ==
  ASSUME IInv, NEW t \in Name, NEW id, NEW row \in Row, handle_update(t, id, row)
  PROVE  IInv'
<1> DEFINE old == tables[t]
           o == orders[t]
           new == update(old, id, row.kind)
           less == Removed(o, {id})
           some == Indexed(less, <<id>>, new.rows)
<1>1. /\ t \in DOMAIN tables /\ id \in DOMAIN old.rows /\ Put(t, new) /\ List(t, some)
      /\ client' = (IF Seen(t, {id}) \/ Disturbed(t) THEN Nothing ELSE client) /\ births' = births
  BY DEF handle_update
<1>2. TableOK(old, births) /\ OrderOK(o, old) /\ births \in Nat /\ row.kind \in Kind
  BY <1>1, DatabaseAssumption DEF IInv, TablesInv, OrdersInv, Row
<1>3. TableOK(new, births) /\ DOMAIN new.rows = DOMAIN old.rows
  BY <1>1, <1>2, UpdatedOK
<1>4. \A u : /\ client \in IdClient /\ OwesId(client, old) => OwesId(client, new)
             /\ client \in PageClient /\ OwesPages(client, old, o) /\ id \notin ToSet(client.seen)
                  /\ client.search.by = "terms" => OwesPages(client, new, u)
  BY <1>1, <1>2, OwedUpdated
<1> HIDE DEF new
<1>5. ASSUME NEW u \in some PROVE OrderOK(u, new)
  <2>1. OrderOK(less, new)
    <3>1. DOMAIN old.rows \ {id} \subseteq DOMAIN new.rows
      BY <1>3
    <3> HIDE DEF old, o
    <3> QED BY <1>2, <3>1, RemovedOK
  <2>2. DOMAIN new.rows \in SUBSET Nat
    BY <1>3, TableFields DEF TableOK
  <2>3. <<id>> \in Seq(DOMAIN new.rows)
    <3>1. id \in DOMAIN new.rows
      BY <1>1, <1>3
    <3>2. \A S : \A x \in S : <<x>> \in Seq(S)
      OBVIOUS
    <3> QED BY <3>1, <3>2, Zenon
  <2> HIDE DEF less
  <2> QED BY <2>1, <2>2, <2>3, IndexedOK
<1> HIDE DEF some
<1>6. births' \in Nat /\ births <= births' /\ TableOK(new, births')
  BY <1>1, <1>2, <1>3
<1>7. /\ TablesInv' /\ OrdersInv' /\ OthersKept(t)
      /\ t \in DOMAIN tables' /\ tables'[t] = new
  BY <1>1, <1>5, <1>6, PutInv
<1>8. ClientInv'
  <2>1. CASE client' = Nothing
    BY <2>1, NothingInv
  <2>2. CASE client' = client /\ ~(Seen(t, {id}) \/ Disturbed(t))
    <3>1. client \in PageClient /\ client.table = t => id \notin ToSet(client.seen) /\ client.search.by = "terms"
      BY <2>2, DisturbedIs DEF Seen
    <3> HIDE DEF o, old
    <3>2. client # Nothing /\ client.table = t /\ t \in DOMAIN tables =>
            /\ t \in DOMAIN tables'
            /\ client \in IdClient /\ OwesId(client, old) => OwesId(client, tables'[t])
            /\ client \in PageClient /\ OwesPages(client, old, o)
                 => OwesPages(client, tables'[t], orders'[t])
      BY <1>4, <1>7, <3>1
    <3> QED BY <1>7, <2>2, <3>2, ClientCarries DEF o, old
  <2> QED BY <1>1, <2>1, <2>2
<1> QED BY <1>1, <1>7, <1>8 DEF IInv

\* A page goes on where the pages so far ended, and the rows it names are there.
LEMMA ReadOn ==
  ASSUME NEW tb \in Table, NEW o \in Orders, NEW search \in Search, NEW seen \in Seq(Nat)
  PROVE  LET all == seen \o get_many(tb, Page(Hits(tb, o, search), Len(seen)))
         IN /\ all \in Seq(Nat)
            /\ IsPrefix(seen, Hits(tb, o, search)) => IsPrefix(all, Hits(tb, o, search))
<1> DEFINE hits == Hits(tb, o, search)
           page == Page(hits, Len(seen))
           all == seen \o get_many(tb, page)
<1>1. hits \in Seq(DOMAIN tb.rows) /\ hits \in Seq(Nat) /\ DOMAIN tb.rows \in SUBSET Nat
  BY HitsType, TableFields
<1> HIDE DEF hits
<1>2. page \in Seq(DOMAIN tb.rows) /\ page \in Seq(Nat)
  <2>1. Len(seen) \in Nat
    OBVIOUS
  <2> QED BY <1>1, <2>1, PageType
<1>3. get_many(tb, page) = page
  BY <1>2, OnlyAll DEF get_many
<1>4. all \in Seq(Nat)
  <2> HIDE DEF page
  <2> QED BY <1>2, <1>3, ConcatProperties
<1>5. ASSUME IsPrefix(seen, hits) PROVE IsPrefix(all, hits)
  BY <1>1, <1>3, <1>5, PageContinues
<1> QED BY <1>4, <1>5 DEF hits

\* What a search leaves of the orders: only one by range may change them, and it
\* does not when the range index is sorted.
LEMMA SearchedIs ==
  ASSUME NEW tb, DOMAIN tb.rows \in SUBSET Nat, NEW o, OrderOK(o, tb), NEW search \in Search,
         NEW u \in Searched(o, tb.rows, search)
  PROVE  /\ OrderOK(u, tb)
         /\ search.by = "range" => u.sorted
         /\ \A c \in PageClient : OwesPages(c, tb, o) => OwesPages(c, tb, u)
<1>1. CASE search.by # "range"
  BY <1>1 DEF Searched
<1>2. CASE search.by = "range"
  <2>1. PICK list \in ensure_sorted(o, tb.rows) : u = SortedAs(o, list)
    BY <1>2 DEF Searched, SortedAs
  <2>2. OrderOK(u, tb) /\ u.sorted /\ u.prefix = o.prefix /\ (o.sorted => u = o)
    BY <2>1, SortedOK
  <2>3. ASSUME NEW c \in PageClient, OwesPages(c, tb, o) PROVE OwesPages(c, tb, u)
    <3>1. CASE o.sorted
      BY <2>2, <2>3, <3>1
    <3>2. CASE ~ o.sorted
      <4>1. c.search \in Search /\ c.search.by # "range"
        BY <2>3, <3>2 DEF OwesPages, PageClient
      <4>2. Listing(tb, u, c.search.by) = Listing(tb, o, c.search.by)
        <5>1. c.search.by = "terms" \/ c.search.by = "prefix"
          BY <4>1, SearchIs
        <5> QED BY <2>2, <5>1, ListingIs
      <4>3. Hits(tb, u, c.search) = Hits(tb, o, c.search)
        BY <4>2 DEF Hits
      <4> QED BY <2>3, <4>1, <4>3 DEF OwesPages
    <3> QED BY <3>1, <3>2
  <2> QED BY <2>2, <2>3
<1> QED BY <1>1, <1>2

LEMMA SearchInv ==
  ASSUME IInv, NEW t \in Name, NEW search \in Search, handle_search(t, search)
  PROVE  IInv'
<1> DEFINE tb == tables[t]
           o == orders[t]
           u == orders'[t]
           some == Searched(o, tb.rows, search)
           hits == Hits(tb, u, search)
           All(seen) == seen \o get_many(tb, Page(hits, Len(seen)))
           Pages(seen) ==
             [has |-> "pages", table |-> t, search |-> search,
              seen |-> All(seen), done |-> Len(All(seen)) >= Len(hits)]
<1>1. t \in DOMAIN tables /\ tables' = tables /\ births' = births /\ births \in 0..MaxBirths /\ List(t, some)
  BY DEF handle_search, IInv
<1>2. TableOK(tb, births) /\ tb \in Table /\ OrderOK(o, tb) /\ DOMAIN tb.rows \in SUBSET Nat
  BY <1>1, TableFields DEF IInv, TablesInv, OrdersInv, TableOK
<1>3. /\ DOMAIN orders' = DOMAIN orders \cup {t} /\ u \in some
      /\ \A x \in DOMAIN orders \ {t} : orders'[x] = orders[x]
  BY <1>1, ListFacts
<1>4. /\ OrderOK(u, tb) /\ (search.by = "range" => u.sorted)
      /\ \A c \in PageClient : OwesPages(c, tb, o) => OwesPages(c, tb, u)
  <2> HIDE DEF tb, o, u
  <2> QED BY <1>2, <1>3, SearchedIs
<1>5. u \in Orders
  BY <1>4 DEF OrderOK
<1>6. /\ DOMAIN orders = DOMAIN tables /\ \A x \in DOMAIN tables : OrderOK(orders[x], tables[x])
  BY DEF IInv, OrdersInv
<1>7. OrdersInv'
  <2>1. ASSUME NEW x \in DOMAIN tables' PROVE OrderOK(orders'[x], tables'[x])
    <3>1. CASE x = t
      BY <1>1, <1>4, <3>1
    <3>2. CASE x # t
      BY <1>1, <1>3, <1>6, <3>2
    <3> QED BY <3>1, <3>2
  <2> QED BY <1>1, <1>3, <1>6, <2>1 DEF OrdersInv
<1>8. TablesInv'
  BY <1>1 DEF IInv, TablesInv
<1>9. OthersKept(t)
  <2>1. births \in Nat
    BY DatabaseAssumption DEF IInv
  <2> QED BY <1>1, <1>3, <1>6, <2>1 DEF OthersKept
<1>10. ASSUME NEW seen \in Seq(Nat), IsPrefix(seen, hits), client' = Pages(seen)
       PROVE  ClientInv'
  <2> DEFINE all == All(seen)
  <2>1. all \in Seq(Nat) /\ IsPrefix(all, hits)
    <3> HIDE DEF tb, u
    <3> QED BY <1>2, <1>5, <1>10, ReadOn
  <2>2. client' = [has |-> "pages", table |-> t, search |-> search,
                   seen |-> all, done |-> Len(all) >= Len(hits)]
    BY <1>10
  <2>3. (Len(all) >= Len(hits)) \in BOOLEAN
    OBVIOUS
  <2> HIDE DEF all
  <2>4. client' \in PageClient /\ client'.table = t /\ client'.search = search /\ client'.seen = all
    BY <2>1, <2>2, <2>3 DEF PageClient
  <2>5. OwesPages(client', tb, u)
    BY <1>4, <2>1, <2>4 DEF OwesPages
  <2> HIDE DEF hits
  <2> QED BY <1>1, <2>4, <2>5, ClientKinds DEF ClientInv, IdInv, PageInv
<1>11. \/ client = Nothing /\ client' = Pages(<<>>)
       \/ ReadsOf(t) /\ client.search = search /\ client' = Pages(client.seen)
       \/ client' = client
  BY DEF handle_search
<1>12. ClientInv'
  <2>1. CASE client = Nothing /\ client' = Pages(<<>>)
    <3>1. <<>> \in Seq(Nat) /\ IsPrefix(<<>>, hits)
      <4>1. hits \in Seq(Nat)
        <5> HIDE DEF tb, u
        <5> QED BY <1>2, <1>5, HitsType
      <4>2. <<>> \in Seq(Nat) /\ <<>> \o hits = hits
        BY <4>1
      <4> HIDE DEF hits
      <4>3. IsPrefix(<<>>, <<>> \o hits)
        BY <4>1, <4>2, PrefixMade
      <4> QED BY <4>2, <4>3
    <3> HIDE DEF Pages
    <3> QED BY <1>10, <2>1, <3>1
  <2>2. CASE ReadsOf(t) /\ client.search = search /\ client' = Pages(client.seen)
    <3>1. client \in PageClient /\ client.table = t
      BY <2>2, ClientKinds DEF IInv, ClientInv, ReadsOf, Reads
    <3>2. client.seen \in Seq(Nat)
      BY <3>1 DEF PageClient
    <3>3. IsPrefix(client.seen, hits)
      <4>1. OwesPages(client, tb, o)
        BY <3>1 DEF IInv, ClientInv, PageInv
      <4>2. OwesPages(client, tb, u)
        BY <1>4, <3>1, <4>1
      <4> QED BY <2>2, <4>2 DEF OwesPages
    <3> HIDE DEF Pages, hits
    <3> QED BY <1>10, <2>2, <3>2, <3>3
  <2>3. CASE client' = client
    <3>1. client # Nothing /\ client.table = t /\ t \in DOMAIN tables =>
            /\ t \in DOMAIN tables'
            /\ client \in IdClient /\ OwesId(client, tables[t]) => OwesId(client, tables'[t])
            /\ client \in PageClient /\ OwesPages(client, tables[t], orders[t])
                 => OwesPages(client, tables'[t], orders'[t])
      BY <1>1, <1>4
    <3> QED BY <1>9, <2>3, <3>1, ClientCarries
  <2> QED BY <1>11, <2>1, <2>2, <2>3
<1> QED BY <1>1, <1>7, <1>8, <1>12 DEF IInv

LEMMA ForgetInv ==
  ASSUME IInv, Forget
  PROVE  IInv'
<1>1. client' = Nothing /\ tables' = tables /\ orders' = orders /\ births' = births
  BY DEF Forget
<1>2. ClientInv'
  BY <1>1, NothingInv
<1> QED BY <1>1, <1>2 DEF IInv, TablesInv, OrdersInv

LEMMA SyncInv ==
  ASSUME IInv, NEW t \in DOMAIN Synced, sync_table(t)
  PROVE  IInv'
<1> DEFINE old == NewTable(Synced[t].width)
           batch == Synced[t].rows
           done == insert_batch(old, batch, births)
           F == Only(batch, Fitting(old))
           some == Indexed(NewOrders, done.ids, done.table.rows)
<1>1. /\ done.born <= MaxBirths /\ Put(t, done.table) /\ List(t, some) /\ Gone(t) /\ births' = done.born
  BY DEF sync_table
<1>2. t \in Name /\ Synced[t].width \in Width /\ batch \in Batch /\ MaxBirths \in Nat
  BY DatabaseAssumption DEF Batch
<1>3. births \in Nat /\ TablesInv /\ TableOK(old, births)
  BY <1>2, NewOK DEF IInv
<1>4. F \in Seq(Row) /\ Comes(old, births, F, done)
  <2> HIDE DEF old, batch
  <2> QED BY <1>2, <1>3, BatchIs
<1> HIDE DEF F, done, old
<1>5. /\ TableOK(done.table, done.born) /\ done.born \in Nat /\ births <= done.born
      /\ done.ids \in Seq(DOMAIN done.table.rows)
  BY <1>3, <1>4, InsertedOK
<1>6. TableOK(done.table, births') /\ births' \in Nat /\ births <= births'
  BY <1>1, <1>5
<1>7. ASSUME NEW u \in some PROVE OrderOK(u, done.table)
  <2>1. DOMAIN done.table.rows \in SUBSET Nat
    BY <1>6, TableFields DEF TableOK
  <2> QED BY <1>5, <2>1, NewOrdersOK, IndexedOK
<1> HIDE DEF some
<1>8. TablesInv' /\ OrdersInv' /\ OthersKept(t)
  BY <1>1, <1>2, <1>6, <1>7, PutInv
<1>9. ClientInv'
  BY <1>1, <1>8, GoneInv
<1>10. births' \in 0..MaxBirths
  BY <1>1, <1>2, <1>6
<1> QED BY <1>8, <1>9, <1>10 DEF IInv

-----------------------------------------------------------------------------
(* What holds throughout. *)

LEMMA Requests ==
  ASSUME NEW S, NEW k \in Nat
  PROVE  UpTo(S, k) \subseteq Seq(S)
<1> SUFFICES ASSUME NEW n \in 1..k, NEW s \in [1..n -> S] PROVE s \in Seq(S)
  BY DEF UpTo
<1> QED OBVIOUS

LEMMA InitInv == Init => IInv
<1> SUFFICES ASSUME Init PROVE IInv
  OBVIOUS
<1>1. tables = <<>> /\ orders = <<>> /\ births = 0 /\ client = Nothing /\ DOMAIN <<>> = {}
  BY DEF Init
<1>2. TablesInv /\ OrdersInv
  BY <1>1 DEF TablesInv, OrdersInv
<1>3. ClientInv
  BY <1>1, ClientKinds DEF ClientInv, IdInv, PageInv
<1> QED BY <1>1, <1>2, <1>3, DatabaseAssumption DEF IInv

LEMMA StepInv == IInv /\ [Next]_vars => IInv'
<1> SUFFICES ASSUME IInv, [Next]_vars PROVE IInv'
  OBVIOUS
<1>1. UpTo(Row, MaxBatch) \subseteq Batch /\ UpTo(Id, MaxBatch) \subseteq Seq(Nat)
  <2>1. Id \subseteq Nat /\ MaxBatch \in Nat
    BY DatabaseAssumption DEF Id
  <2>2. UpTo(Row, MaxBatch) \subseteq Seq(Row) /\ UpTo(Id, MaxBatch) \subseteq Seq(Id)
    BY <2>1, Requests
  <2>3. Seq(Id) \subseteq Seq(Nat)
    BY <2>1, SeqWiden
  <2> QED BY <2>2, <2>3 DEF Batch
<1>2. ASSUME NEW t \in Name, NEW width \in Width, handle_create_table(t, width) PROVE IInv'
  BY <1>2, CreateInv
<1>3. ASSUME NEW t \in Name, handle_drop_table(t) PROVE IInv'
  BY <1>3, DropInv
<1>4. ASSUME NEW t \in Name, NEW batch \in UpTo(Row, MaxBatch), handle_insert(t, batch) PROVE IInv'
  BY <1>1, <1>4, InsertInv
<1>5. ASSUME NEW t \in Name, NEW ids \in UpTo(Id, MaxBatch), handle_get(t, ids) PROVE IInv'
  BY <1>1, <1>5, GetInv
<1>6. ASSUME NEW t \in Name, NEW ids \in UpTo(Id, MaxBatch), handle_delete(t, ids) PROVE IInv'
  BY <1>1, <1>6, DeleteInv
<1>7. ASSUME NEW t \in Name, NEW id \in Id, NEW row \in Row, handle_update(t, id, row) PROVE IInv'
  BY <1>7, UpdateInv
<1>8. ASSUME NEW t \in Name, NEW search \in Search, handle_search(t, search) PROVE IInv'
  BY <1>8, SearchInv
<1>9. ASSUME NEW t \in DOMAIN Synced, sync_table(t) PROVE IInv'
  BY <1>9, SyncInv
<1>10. CASE Forget
  BY <1>10, ForgetInv
<1>11. CASE UNCHANGED vars
  BY <1>11 DEF vars, IInv, TablesInv, OrdersInv, ClientInv, IdInv, PageInv
<1> QED BY <1>2, <1>3, <1>4, <1>5, <1>6, <1>7, <1>8, <1>9, <1>10, <1>11 DEF Next

LEMMA Invariance == Spec => []IInv
  BY InitInv, StepInv, PTL DEF Spec

LEMMA HasId == IInv /\ Keeps => client \in IdClient
  BY ClientKinds DEF IInv, ClientInv, Keeps

LEMMA HasPages == IInv /\ Reads => client \in PageClient
  BY ClientKinds DEF IInv, ClientInv, Reads

\* Every table's rows, listings and next id fit together, and clients have what
\* clients can have.
THEOREM TypeCorrect == Spec => []TypeOK
<1>1. IInv => TypeOK
  <2> SUFFICES ASSUME IInv PROVE TypeOK
    OBVIOUS
  <2>1. TablesOK
    <3> SUFFICES ASSUME NEW t \in DOMAIN tables
                 PROVE  /\ tables[t].width \in Width
                        /\ tables[t].next_id \in Nat \ {0}
                        /\ DOMAIN tables[t].rows \subseteq 1..(tables[t].next_id - 1)
                        /\ tables[t].rows \in [DOMAIN tables[t].rows -> [kind : Kind, key : 1..births]]
                        /\ tables[t].listing \in Seq(DOMAIN tables[t].rows)
      BY DEF IInv, TablesInv, TablesOK
    <3> DEFINE tb == tables[t]
    <3>1. TableOK(tb, births)
      BY DEF IInv, TablesInv
    <3> HIDE DEF tb
    <3>2. tb.width \in Width /\ tb.next_id \in Nat /\ tb.rows \in [DOMAIN tb.rows -> Cells]
      BY <3>1, TableFields DEF TableOK
    <3>3. tb.rows \in [DOMAIN tb.rows -> [kind : Kind, key : 1..births]]
      <4> SUFFICES ASSUME NEW i \in DOMAIN tb.rows PROVE tb.rows[i] \in [kind : Kind, key : 1..births]
        BY <3>2
      <4>1. tb.rows[i] \in Cells /\ tb.rows[i].key \in 1..births
        BY <3>1, <3>2 DEF TableOK
      <4> QED BY <4>1 DEF Cells
    <3>4. tb.next_id \in Nat \ {0} /\ DOMAIN tb.rows \subseteq 1..(tb.next_id - 1) /\ tb.listing \in Seq(DOMAIN tb.rows)
      BY <3>1, <3>2 DEF TableOK
    <3> QED BY <3>2, <3>3, <3>4 DEF tb
  <2>2. client # Nothing => client.table \in Name
    BY DEF IInv, ClientInv, IdClient, PageClient
  <2>3. OrdersOK
    BY DEF IInv, OrdersInv, OrderOK, Orders, OrdersOK
  <2>4. Keeps => client.id \in Nat /\ client.key \in 1..births
    BY HasId DEF IInv, ClientInv, IdInv, IdClient
  <2>5. Reads => client.search \in Search /\ client.seen \in Seq(Nat) /\ client.done \in BOOLEAN
    BY HasPages DEF PageClient
  <2> QED BY <2>1, <2>2, <2>3, <2>4, <2>5 DEF TypeOK, IInv
<1> QED BY <1>1, Invariance, PTL

\* An id that a client was told names that row or none until the table is
\* dropped (storage.rs: ids count up and are never given again).
THEOREM KeptIdsName == Spec => []KeptIdsNameTheirRow
<1>1. IInv => KeptIdsNameTheirRow
  BY HasId DEF IInv, ClientInv, IdInv, OwesId, KeptIdsNameTheirRow
<1> QED BY <1>1, Invariance, PTL

\* The pages of a reader are the beginning of the hits, as long as nobody
\* changes rows that it has read and, by prefix and by range, no row comes to
\* the table: whatever order the nodes of the trie and the ties of the sort come
\* in (http.rs, handle_search; index.rs, collect_all_ids and ensure_sorted).
THEOREM Pages == Spec => []PagesTile
<1>1. IInv => PagesTile
  BY HasPages DEF IInv, ClientInv, PageInv, OwesPages, PagesTile
<1> QED BY <1>1, Invariance, PTL

\* The ids that an insert answers are those of the rows that fitted, in their
\* order, and no other row changes (http.rs, handle_insert).
THEOREM BatchAnswers == Spec => []BatchAnswersLineUp
<1>1. IInv => BatchAnswersLineUp
  <2> SUFFICES ASSUME IInv, NEW t \in DOMAIN tables, NEW batch \in UpTo(Row, MaxBatch)
               PROVE  LET done   == insert_batch(tables[t], batch, births)
                          fitted == Only(batch, {row \in Row : row.width = tables[t].width})
                      IN /\ Len(done.ids) = Len(fitted)
                         /\ \A i \in DOMAIN fitted : done.table.rows[done.ids[i]].kind = fitted[i].kind
                         /\ \A i \in DOMAIN tables[t].rows : done.table.rows[i] = tables[t].rows[i]
    BY DEF BatchAnswersLineUp
  <2> DEFINE tb == tables[t]
             done == insert_batch(tb, batch, births)
             fitted == Only(batch, Fitting(tb))
             m == Len(fitted)
  <2>1. batch \in Batch /\ births \in Nat /\ TableOK(tb, births)
    <3>1. MaxBatch \in Nat
      BY DatabaseAssumption
    <3> QED BY <3>1, Requests, DatabaseAssumption DEF Batch, IInv, TablesInv
  <2>2. fitted \in Seq(Row) /\ Comes(tb, births, fitted, done)
    BY <2>1, BatchIs
  <2>3. m \in Nat /\ DOMAIN fitted = 1..m
    BY <2>2
  <2> HIDE DEF done, fitted, tb
  <2>4. /\ done.ids = [j \in 1..m |-> tb.next_id + j - 1]
        /\ \A j \in 1..m : done.table.rows[tb.next_id + j - 1] = [kind |-> fitted[j].kind, key |-> births + j]
        /\ \A i \in DOMAIN tb.rows : done.table.rows[i] = tb.rows[i]
    BY <2>2 DEF Comes
  <2>5. Len(done.ids) = m
    BY <2>3, <2>4
  <2>6. \A i \in DOMAIN fitted : done.table.rows[done.ids[i]].kind = fitted[i].kind
    <3> TAKE i \in DOMAIN fitted
    <3>1. done.ids[i] = tb.next_id + i - 1
      BY <2>3, <2>4
    <3>2. done.table.rows[tb.next_id + i - 1] = [kind |-> fitted[i].kind, key |-> births + i]
      BY <2>3, <2>4
    <3> QED BY <3>1, <3>2
  <2> QED BY <2>4, <2>5, <2>6 DEF done, fitted, tb, Fitting
<1> QED BY <1>1, Invariance, PTL
=============================================================================
