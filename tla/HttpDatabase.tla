---------------------------- MODULE HttpDatabase ----------------------------
(***************************************************************************)
(* The tables of a Database (table.rs, storage.rs) behind the handlers of   *)
(* http.rs.  Each handler holds the lock for its whole work, so a handler   *)
(* is one step; what goes on between the steps is that clients keep what    *)
(* answers told them, ids and pages of a search, while others insert,       *)
(* update, delete, drop and create, and syncs replace whole tables.         *)
(* Requests may name any id, so that a request sent twice, after a lost     *)
(* answer, is nothing special.                                              *)
(*                                                                          *)
(* Of a row's cells all that counts is how many there are and what a        *)
(* search looks at, which is its kind: a text with its terms, and a number. *)
(* The indexes list the same rows in different orders, and with them the    *)
(* pages of a search.  Posting lists grow at the end; the trie goes through *)
(* its nodes as their HashMaps please, and the range index is sorted again, *)
(* ties in any order, after every push.  Which rows an index finds is       *)
(* SearchTable's matter.                                                    *)
(*                                                                          *)
(* Rows are numbered in the order they were made, over all tables: births   *)
(* and row.key are no part of the program, they say which row is which.     *)
(***************************************************************************)
EXTENDS Integers, SequencesExt, Selections

CONSTANTS Name,         \* table names
          Kind,         \* what rows have in the columns that are searched
          Copies,       \* how often the text of a kind has its term: so often it is listed
          Number,       \* the number that goes with a kind
          Search,       \* the searches: by which index, and which kinds they find
          Width,        \* the numbers of columns
          MaxBatch,     \* bound: rows of an insert, ids of a request
          MaxBirths,    \* bound: rows that are ever made
          Limit,        \* rows that a reader asks for at a time
          Synced        \* the tables that a sync replaces: their columns and rows

Row == [width : Width, kind : Kind]
By  == {"terms", "prefix", "range"}
Id  == 1..(MaxBirths + 1)
UpTo(S, k) == UNION {[1..n -> S] : n \in 1..k}

ASSUME DatabaseAssumption ==
  /\ Copies \in [Kind -> Nat \ {0}]
  /\ Number \in [Kind -> Int]
  /\ Search \subseteq [by : By, kinds : SUBSET Kind]
  /\ MaxBatch \in Nat /\ MaxBirths \in Nat
  /\ Limit \in Nat \ {0}
  /\ DOMAIN Synced \subseteq Name
  /\ \A t \in DOMAIN Synced : Synced[t].width \in Width /\ Synced[t].rows \in Seq(Row)

VARIABLES tables,   \* Database::tables, with the posting lists
          orders,   \* of each table, the rows as its trie and its range index list them
          births,   \* the rows made so far
          client    \* what one client has from earlier answers that still holds

vars == <<tables, orders, births, client>>

\* The client keeps an id, and is watched for which row it was told of; or it
\* reads the pages of a search one after another.
Nothing == [has |-> "nothing"]
Keeps   == client.has = "id"
Reads   == client.has = "pages"

-----------------------------------------------------------------------------
(* One table. *)

\* Table::new
NewTable(width) == [width |-> width, rows |-> <<>>, listing |-> <<>>, next_id |-> 1]

Listed(id, kind) == [i \in 1..Copies[kind] |-> id]
Unlisted(listing, id) == Only(listing, ToSet(listing) \ {id})

\* Storage::insert, and the posting list that the row is appended to
insert(tb, kind, key) ==
  LET id == tb.next_id IN
  [tb EXCEPT !.rows = [i \in DOMAIN @ \cup {id} |-> IF i = id THEN [kind |-> kind, key |-> key] ELSE @[i]],
             !.listing = @ \o Listed(id, kind),
             !.next_id = @ + 1]

\* What a batch has come to after none of its rows.
Begun(tb, born) == [table |-> tb, ids |-> <<>>, born |-> born]

\* One row more; rows of another width are errors.
insert_next(done, row) ==
  IF row.width # done.table.width THEN done
  ELSE [table |-> insert(done.table, row.kind, done.born + 1),
        ids   |-> Append(done.ids, done.table.next_id),
        born  |-> done.born + 1]

\* Fault: the first error ends the batch.
Inserted_stops(tb, batch, born) ==
  LET done[n \in 0..Len(batch)] ==
        IF n = 0 THEN Begun(tb, born)
        ELSE IF \E i \in 1..n : batch[i].width # tb.width THEN done[n - 1]
        ELSE insert_next(done[n - 1], batch[n])
  IN done

\* Table::insert_batch by the number of rows it has come to, with the ids that
\* are left when its errors are dropped.
Inserted(tb, batch, born) ==
  LET done[n \in 0..Len(batch)] ==
        IF n = 0 THEN Begun(tb, born) ELSE insert_next(done[n - 1], batch[n])
  IN done

insert_batch(tb, batch, born) == Inserted(tb, batch, born)[Len(batch)]

\* Fault: the last id is given back.
delete_gives_back(tb, id) ==
  [tb EXCEPT !.rows = [i \in DOMAIN @ \ {id} |-> @[i]], !.listing = Unlisted(@, id),
             !.next_id = IF id = @ - 1 THEN id ELSE @]

\* Fault: the row goes and its postings stay.
delete_stays_listed(tb, id) == [tb EXCEPT !.rows = [i \in DOMAIN @ \ {id} |-> @[i]]]

delete(tb, id) ==
  [tb EXCEPT !.rows = [i \in DOMAIN @ \ {id} |-> @[i]], !.listing = Unlisted(@, id)]

\* handle_delete, by the number of ids it has come to: ids that are not there, or no longer, change nothing.
Deleted(tb, ids) ==
  LET left[n \in 0..Len(ids)] == IF n = 0 THEN tb ELSE delete(left[n - 1], ids[n])
  IN left

delete_all(tb, ids) == Deleted(tb, ids)[Len(ids)]

\* Fault: the new postings come first.
update_in_front(tb, id, kind) ==
  [tb EXCEPT !.rows[id].kind = kind, !.listing = Listed(id, kind) \o Unlisted(@, id)]

\* The old postings go and the new ones come last.
update(tb, id, kind) ==
  [tb EXCEPT !.rows[id].kind = kind, !.listing = Unlisted(@, id) \o Listed(id, kind)]

-----------------------------------------------------------------------------
(* The orders of one table's trie and range index. *)

NewOrders == [prefix |-> <<>>, range |-> <<>>, sorted |-> TRUE]

\* The ids of s, each once, in any order.
Reorderings(s) == {p \in [1..Len(s) -> ToSet(s)] : ToSet(p) = ToSet(s)}

\* How a walk through the trie may list what was pushed: rows of one text are in
\* one node, in the order they came, and nodes in any order.
Walks(pushed, rows) ==
  {walk \in Reorderings(pushed) :
     /\ \A kind \in Kind : LET node == {id \in DOMAIN rows : rows[id].kind = kind} IN
          Only(walk, node) = Only(pushed, node)
     /\ \A i, j, k \in DOMAIN walk : i < j /\ j < k /\ rows[walk[i]].kind = rows[walk[k]].kind =>
          rows[walk[j]].kind = rows[walk[i]].kind}

\* ensure_sorted: by value, ties in any order.
ensure_sorted(order, rows) ==
  IF order.sorted THEN {order.range}
  ELSE {list \in Reorderings(order.range) :
          \A i, j \in DOMAIN list : i < j => Number[rows[list[i]].kind] <= Number[rows[list[j]].kind]}

\* index_row for each of the ids.
Indexed(order, ids, rows) ==
  IF ids = <<>> THEN {order}
  ELSE {[prefix |-> walk, range |-> order.range \o ids, sorted |-> FALSE] :
          walk \in Walks(order.prefix \o ids, rows)}

\* remove_row for each of the ids.
Removed(order, ids) ==
  [order EXCEPT !.prefix = Only(@, Nat \ ids), !.range = Only(@, Nat \ ids)]

-----------------------------------------------------------------------------
(* Searches. *)

\* The rows as an index lists them.
Listing(tb, order, by) ==
  [terms |-> tb.listing, prefix |-> order.prefix, range |-> order.range][by]

Found(tb, kinds) == {id \in DOMAIN tb.rows : tb.rows[id].kind \in kinds}

\* What a search finds, in its order; rows that have a term twice come twice.
Hits(tb, order, search) == Only(Listing(tb, order, search.by), Found(tb, search.kinds))

\* A search by range may have to sort first.
Searched(order, rows, search) ==
  IF search.by # "range" THEN {order}
  ELSE {[order EXCEPT !.range = list, !.sorted = TRUE] : list \in ensure_sorted(order, rows)}

\* handle_search's offset and limit
Page(hits, offset) ==
  LET from == IF offset < Len(hits) THEN SubSeq(hits, offset + 1, Len(hits)) ELSE <<>>
  IN IF Limit < Len(from) THEN SubSeq(from, 1, Limit) ELSE from

get_many(tb, ids) == Only(ids, DOMAIN tb.rows)

-----------------------------------------------------------------------------
(* The handlers. *)

Init ==
  /\ tables = <<>>
  /\ orders = <<>>
  /\ births = 0
  /\ client = Nothing

With(f, t, x) == [y \in DOMAIN f \cup {t} |-> IF y = t THEN x ELSE f[y]]

Put(t, tb) == tables' = With(tables, t, tb)

\* The orders in which the table lists its rows now, one of several.
List(t, some) == \E order \in some : orders' = With(orders, t, order)

\* What the client is not told, and ends what it may rely on: the table it has
\* something of is gone; or rows are changed that it has read; or rows come to a
\* table that it reads in an order other than that of the posting lists.
Gone(t) == client' = IF client # Nothing /\ client.table = t THEN Nothing ELSE client
ReadsOf(t)   == Reads /\ client.table = t
Disturbed(t) == ReadsOf(t) /\ client.search.by # "terms"
Seen(t, ids) == ReadsOf(t) /\ ids \cap ToSet(client.seen) # {}

\* The client may keep an id of the answer.
Learn(t, tb, ids) ==
  /\ client = Nothing
  /\ \E i \in DOMAIN ids :
       client' = [has |-> "id", table |-> t,
                  id |-> ids[i], key |-> tb.rows[ids[i]].key]

\* Fault: a table that is there is made anew.
handle_create_replaces(t, width) ==
  /\ Put(t, NewTable(width))
  /\ List(t, {NewOrders})
  /\ UNCHANGED <<births, client>>

handle_create_table(t, width) ==
  /\ t \notin DOMAIN tables
  /\ Put(t, NewTable(width))
  /\ List(t, {NewOrders})
  /\ UNCHANGED <<births, client>>

handle_drop_table(t) ==
  /\ t \in DOMAIN tables
  /\ tables' = [x \in DOMAIN tables \ {t} |-> tables[x]]
  /\ orders' = [x \in DOMAIN tables \ {t} |-> orders[x]]
  /\ Gone(t)
  /\ UNCHANGED births

handle_insert(t, batch) ==
  LET done == insert_batch(tables[t], batch, births) IN
  /\ t \in DOMAIN tables
  /\ done.born <= MaxBirths
  /\ Put(t, done.table)
  /\ List(t, Indexed(orders[t], done.ids, done.table.rows))
  /\ births' = done.born
  /\ \/ client' = IF Disturbed(t) /\ done.ids # <<>> THEN Nothing ELSE client
     \/ Learn(t, done.table, done.ids)

handle_get(t, ids) ==
  /\ t \in DOMAIN tables
  /\ UNCHANGED client \/ Learn(t, tables[t], get_many(tables[t], ids))
  /\ UNCHANGED <<tables, orders, births>>

handle_delete(t, ids) ==
  /\ t \in DOMAIN tables
  /\ Put(t, delete_all(tables[t], ids))
  /\ List(t, {Removed(orders[t], ToSet(ids))})
  /\ client' = IF Seen(t, ToSet(ids) \cap DOMAIN tables[t].rows) THEN Nothing ELSE client
  /\ UNCHANGED births

handle_update(t, id, row) ==
  LET new == update(tables[t], id, row.kind) IN
  /\ t \in DOMAIN tables
  /\ row.width = tables[t].width
  /\ id \in DOMAIN tables[t].rows
  /\ Put(t, new)
  /\ List(t, Indexed(Removed(orders[t], {id}), <<id>>, new.rows))
  /\ client' = IF Seen(t, {id}) \/ Disturbed(t) THEN Nothing ELSE client
  /\ UNCHANGED births

\* The client asks for the first page, or goes on with as many rows as it has
\* seen for an offset, until that is the total; or somebody else searches.
handle_search(t, search) ==
  LET hits == Hits(tables[t], orders'[t], search)
      Read(seen) ==
        LET all == seen \o get_many(tables[t], Page(hits, Len(seen))) IN
        client' = [has |-> "pages", table |-> t, search |-> search,
                   seen |-> all, done |-> Len(all) >= Len(hits)]
  IN /\ t \in DOMAIN tables
     /\ List(t, Searched(orders[t], tables[t].rows, search))
     /\ \/ client = Nothing /\ Read(<<>>)
        \/ ReadsOf(t) /\ ~client.done /\ client.search = search /\ Read(client.seen)
        \/ UNCHANGED client
     /\ UNCHANGED <<tables, births>>

\* The client is done with what it has.
Forget ==
  /\ client # Nothing
  /\ client' = Nothing
  /\ UNCHANGED <<tables, orders, births>>

\* A sync with clear_before_sync: drop, create and insert under one lock.
sync_table(t) ==
  LET done == insert_batch(NewTable(Synced[t].width), Synced[t].rows, births) IN
  /\ done.born <= MaxBirths
  /\ Put(t, done.table)
  /\ List(t, Indexed(NewOrders, done.ids, done.table.rows))
  /\ Gone(t)
  /\ births' = done.born

Next ==
  \/ \E t \in Name :
       \/ \E width \in Width : handle_create_table(t, width)
       \/ handle_drop_table(t)
       \/ \E batch \in UpTo(Row, MaxBatch) : handle_insert(t, batch)
       \/ \E ids \in UpTo(Id, MaxBatch) : handle_get(t, ids) \/ handle_delete(t, ids)
       \/ \E id \in Id, row \in Row : handle_update(t, id, row)
       \/ \E search \in Search : handle_search(t, search)
  \/ \E t \in DOMAIN Synced : sync_table(t)
  \/ Forget

Spec == Init /\ [][Next]_vars

-----------------------------------------------------------------------------
(* Properties *)

TablesOK ==
  /\ DOMAIN tables \subseteq Name
  /\ \A t \in DOMAIN tables :
       /\ tables[t].width \in Width
       /\ tables[t].next_id \in Nat \ {0}
       /\ DOMAIN tables[t].rows \subseteq 1..(tables[t].next_id - 1)
       /\ tables[t].rows \in [DOMAIN tables[t].rows -> [kind : Kind, key : 1..births]]
       /\ tables[t].listing \in Seq(DOMAIN tables[t].rows)

OrdersOK ==
  /\ DOMAIN orders = DOMAIN tables
  /\ \A t \in DOMAIN orders :
       /\ orders[t].prefix \in Seq(DOMAIN tables[t].rows)
       /\ orders[t].range \in Seq(DOMAIN tables[t].rows)
       /\ orders[t].sorted \in BOOLEAN

TypeOK ==
  /\ births \in 0..MaxBirths
  /\ TablesOK /\ OrdersOK
  /\ client # Nothing => client.table \in Name
  /\ Keeps => client.id \in Nat /\ client.key \in 1..births
  /\ Reads => client.search \in Search /\ client.seen \in Seq(Nat) /\ client.done \in BOOLEAN

\* An id that a client was told names that row or none for as long as the
\* table is not dropped, whatever others insert, update and delete meanwhile:
\* a late or repeated delete or update never hits another row.  A drop ends it,
\* a client's or the one every sync does: ids count from 1 again (table.rs:
\* Database::create_table, drop_table; storage.rs: Storage::insert).
KeptIdsNameTheirRow ==
  Keeps =>
     /\ client.table \in DOMAIN tables
     /\ client.id \in DOMAIN tables[client.table].rows =>
          tables[client.table].rows[client.id].key = client.key

\* The ids that an insert answers are those of the rows that fitted, in the
\* order of the request, so an answer of the request's length lines up with it;
\* of a shorter one it takes the widths to tell which rows are meant (http.rs:
\* handle_insert; table.rs: insert_batch).
BatchAnswersLineUp ==
  \A t \in DOMAIN tables, batch \in UpTo(Row, MaxBatch) :
    LET done   == insert_batch(tables[t], batch, births)
        fitted == Only(batch, {row \in Row : row.width = tables[t].width})
    IN /\ Len(done.ids) = Len(fitted)
       /\ \A i \in DOMAIN fitted : done.table.rows[done.ids[i]].kind = fitted[i].kind
       /\ \A i \in DOMAIN tables[t].rows : done.table.rows[i] = tables[t].rows[i]

\* Pages of a search tile its hits: what the client has seen is the beginning
\* of the hits, though they are listed anew for every page (http.rs:
\* handle_search's offset and limit).  That holds while others delete rows that
\* the client has not come to and, for exact, full text and contains, whose
\* posting lists grow at the end, while they insert and update such rows too.
\* A page by prefix or range is only good as long as no row comes to the table:
\* the trie lists new rows in the middle, and a range index that was pushed to
\* is sorted again, ties in any order (index.rs: collect_all_ids,
\* ensure_sorted).
PagesTile ==
  Reads =>
     /\ client.table \in DOMAIN tables
     /\ IsPrefix(client.seen, Hits(tables[client.table], orders[client.table], client.search))
=============================================================================
