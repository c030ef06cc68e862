# quickset in TLA+

quickset (`src/README.md`) is an in-memory search server: clients create tables
over HTTP, insert rows of cells and search them through five kinds of index, and
a sync manager can keep tables filled from ClickHouse.  This directory models
the parts of it in which something can go wrong over time, checks them with TLC
and proves with TLAPS the safety of the table, of its range index, of the database
behind its handlers, of the sync manager, of who may do what, of how answers of the
source and the rows in them are read, and of how a list of tables is.  Paths below are relative to the
repository's root.

## 1. The system

### Components, their state and their operations

| Component | Source | State | Operations |
|---|---|---|---|
| Row storage | `src/storage.rs` | `rows: HashMap<RowId, Row>`, `next_id` | insert (hands out the next id), get, get_many, delete, update |
| Search engine | `src/search.rs` | per column: a hash, an inverted, a trie and a sorted index and a bloom filter | index_row, remove_row, search |
| Indexes | `src/index.rs` | posting lists; trie nodes; a vector of entries with a flag `sorted`; bits | insert, remove, search_exact / prefix / range / terms, may_contain |
| Table | `src/table.rs` | columns, storage, engine | insert, insert_batch, get, update, delete, search, stats |
| Database | `src/table.rs` | `tables: HashMap<String, Table>` under one `RwLock` | create_table, drop_table, get_table |
| Sync manager | `src/sync/manager.rs` | `running`, `status` (a lock of its own), `sync_count` | start_background_sync, stop, sync_all, sync_table, get_status |
| ClickHouse source | `src/sync/clickhouse.rs` | one TCP connection per query | connect, fetch_table = build_query, execute_query, parse_response |
| HTTP server | `src/http.rs` | a thread per connection; the database, the users and the sync manager | one handler per route |
| Authentication | `src/auth.rs` | users by name, with a password hash and a role, under an `RwLock` of their own | add_user, remove_user, update_password, validate_basic_auth, role checks |
| Configuration | `src/config.rs` | environment variables read at start | parsers |
| Request types, logging, entry points | `src/query.rs`, `src/log.rs`, `src/main.rs`, ... | none that behaviour depends on | conversions |

### How they interact

* A handler thread takes the read or write lock of the `Database` for one call
  and gives it back before it answers.  A *search* takes the *write* lock
  (`http.rs:564`), because the sorted index sorts itself when it is asked.
* A table passes each row to the storage and then, cell by cell, to the
  engine: nothing but this call order keeps indexes and rows together.  A search
  asks the indexes alone and the storage is only read for the ids they name.
* The sync manager's `sync_table` marks the status, fetches without a lock, takes
  the database's write lock, drops and recreates the table, inserts row by row,
  writes the status while it still has the lock, and lets go.  It runs on the
  background thread and on the handler thread of every `POST /sync/trigger`,
  and nothing keeps two of these apart before the lock.
* The background thread looks at `running` at two points of its loop, after a
  sync and after the sleep.
* A connection's thread reads a request, `check_auth` turns its credentials into
  a role under the users' lock, and the handler runs later on that role, without
  the lock; users are added and removed by such handlers.
* The configuration is read once: the level at which requests need
  authentication, an administrator, and the tables of the sync manager, which is
  made and started before the server listens.
* `execute_query` reads the answer over a socket with timeouts; every read may
  deliver data, the end of the stream, or an error.

### What is hard in it

* Five indexes and a map kept in step by hand, with state that is never taken
  back (trie nodes, bloom bits) and lists that hold a row twice.
* A vector that is sorted late, guarded by a flag that other calls clear.
* Syncs that overlap with each other, with clients and with a source that
  changes under them; a status that several syncs share.
* Start, stop and restart of a thread through one flag.
* Ids and pages that clients keep while tables change, are dropped, recreated
  and synced; inserts that succeed in part; requests sent twice.
* Users who are added and removed while their requests run, at four levels, over
  seven kinds of route.
* A connection that ends or falls silent at any byte; text that is cut, trimmed
  and unescaped in an order of the code's own.
* Panics: `panic = "abort"` in the release profile (`Cargo.toml`) makes each the
  end of the process; where panics unwind they poison the lock instead.

`PROJECT.json` lists them one by one under `hazards`, each at its line.

### What makes each component correct

| Component | Properties |
|---|---|
| Table and engine | indexes hold exactly what the live rows contribute; every answer is one the live rows justify; ids never come back; two kinds of calls abort the process and no others |
| Sorted index | the flag never lies; ordered ranges never panic; answers are those of a bag of entries |
| Sync manager | readers only ever see whole snapshots; a status at rest is true; nothing stays marked; one background thread; the newest snapshot wins; changes arrive; stopping ends the loop; triggers come back |
| ClickHouse source | a success has the whole answer; nothing is invented; every query returns; a row comes back as it was |
| Database behind its handlers | a kept id names its row or none until the table is dropped; answers of batches line up; pages tile the hits |
| Authentication | rights are those the README's tables give, and users are for administrators only, which the list of them is not; a removed user gets nothing further through; roles never change in place; without an administrator nothing changes |
| Configuration | every list of tables is synced as it was meant: with semicolons it is, with the README's commas it is not |

## 2. The modules

| Module | Models | Lines of code it stands for |
|---|---|---|
| `CellValues` | cells, the hasher's view of them, tokens and words; the constants of a table | `storage.rs` (Value), `index.rs` (hash_value, tokenize) |
| `TableContract` | what a table promises, without an index: the abstract specification | `table.rs`, `storage.rs`, `search.rs` seen from outside |
| `SearchTable` | a table with its five indexes per column | `table.rs`, `storage.rs`, `search.rs`, `index.rs` |
| `SearchTable_proofs` | theorems about it | |
| `SortedContract` | a bag of entries that is searched by range: abstract | `index.rs` (SortedIndex) seen from outside |
| `Selections` | what `retain` and `filter` leave of a sequence, as a recursive function | the standard library as the code uses it |
| `SortedIndex` | the vector, its flag, the late sort and the two binary searches | `index.rs` (SortedIndex) |
| `SortedIndex_proofs` | theorems about it | |
| `SyncContract` | what readers see of syncs: a table is replaced in one step | `manager.rs` seen from outside |
| `SyncManager` | sync_table step by step, sync_all, loop, start/stop, triggers, clients, source | `sync/manager.rs`, callers in `http.rs` |
| `SyncManager_proofs` | theorems about it | |
| `SourceReader` | execute_query, read by read | `sync/clickhouse.rs` |
| `SourceReader_proofs` | theorems about it | |
| `TsvRows` | the server's TabSeparated text and parse_response / parse_value | `sync/clickhouse.rs` |
| `ClickHouseSource` | fetch_table: the answer read and parsed | `sync/clickhouse.rs` |
| `TsvRows_proofs` | theorems about both | |
| `Texts` | `trim`, `split` and joining, for the two modules that parse | the standard library as the code uses it |
| `Loops_proofs` | induction along intervals and sequences, recursive functions, and lemmas about `Selections` and `Texts` | |
| `Configuration` | what the environment variables mean: levels and the tables to sync | `config.rs`, `http.rs` (setup_sync_from_env, parse_table_config) |
| `AuthManager` | users, credentials, roles, the threads of connections between check and handler | `auth.rs`, `http.rs` (route_request, check_auth, user handlers) |
| `AuthManager_proofs` | theorems about it | |
| `HttpDatabase` | the tables of a database behind the handlers, and what a client keeps of answers | `table.rs` (Database), `storage.rs`, `http.rs` (table, row and search handlers), `manager.rs` |
| `HttpDatabase_proofs` | theorems about it | |
| `MC...` | the small instances | |

`PROJECT.json` (`map`) names, for every definition, the lines it translates.  A
definition whose comment starts with *Fault:* is no part of any specification:
it is the definition below it with a plausible mistake in it, kept so that one
can see that the properties notice.

### SearchTable

`rows` and `nextId` are `Storage`; `engine` is the five indexes, each a
function from columns to keys to row ids to *counts*: a posting list is a `Vec`
that pushes without deduplicating and retains by id, so the number of copies is
all its content (a text with a token twice is listed twice).  Order is left to
`SortedIndex`.  One action per call: `Insert`, `Update` and `Delete` do storage
and engine in one step, as one `&mut self` call does; `Missing` and `Refuse`
are the early returns; `InsertPanics`, `UpdatePanics` and `SearchPanics` are the two
computations that abort: `% 0` in an empty bloom filter, and a slice whose
start lies behind its end.  Both can be reached over HTTP: `capacity` is whatever a
request asks for, or the number of rows of a synced source, and a range comes
unchecked from the request.  So the model has any capacity and any range, and
`AbortsExactly` says of calls and live rows alone which calls abort.  `call` is the
last call and `reply` what the caller got, so that an answer can be compared with
the rows.

`Digest` (the 64-bit `DefaultHasher`) and `BloomHash` are constants: the
theorems hold for every hash function, collisions included, and the instance
for TLC has one of each.  What the code does know about its hasher is kept:
`HashInput` gives an `Int` and a `Float` of one bit pattern the same bytes.

### SortedIndex

`entries` in the order of the vector; `sorted`; `search_range` sorts if the flag
is down, in any order of ties (`sort_unstable`), and cuts with two
`PartitionPoint`s.  On a vector that is not partitioned, `partition_point`
answers anything the standard library permits, so a wrong flag shows.  `remove` is
a `retain`: `Only` of `Selections`, whose loop is a recursive function, as every loop
is that the proofs are about.

### SyncManager

A thread is a background loop or a handler; `pc` is where it stands in
`sync_table`: mark, fetch, lock, recreate, insert (one row a step), count.
`tables[t]` is the sequence of source versions its rows were fetched at, which is
all that tells one snapshot from another, plus `ClientRow`s.  `Return` moves on to
the next table of `sync_all`, back to the loop, or ends.  Clients create, drop and
insert under the same lock; the source moves to a new version at any moment;
`ClientPanics` is a handler that dies with the lock in hand.  `Fetch` takes what
`fetch_table` returned for the snapshot: whether that is the whole answer is
`SourceReader`'s question.  A list with one table twice is one of the instances the
theorems hold for; two sources that are configured for one target, whose snapshots
would differ, are not modelled.  The lock of the status map is left out: it is held
for one assignment, and nothing is waited for under it.  Updates and deletes of single rows by clients are
left out; to a sync they are one more write.

### SourceReader, TsvRows and ClickHouseSource

`SourceReader` has an action for each read of `execute_query`, one (`Fails`) for
every error that is passed on, and one for each end of the stream or error that
passes for something else.  A body is a few bytes, some of them halves of a character.
`TsvRows` has no state: it composes the server's writer (external: ClickHouse's
TabSeparated, with all the characters it escapes, `Marks`) with the code's parser, for
one row at a time.  `LeftEscaped` are the escapes the code does not undo.  `str::replace` of two
characters is a loop that holds a first one back until it has seen the next
(`replace_next`); the loops of `Texts` are written in the same way.
`ClickHouseSource` composes the two: `fetch_table` parses the answer that the reader
has collected, and `RowsComeBack` asks of a success over a connection that held which
row it yields.  The rows of the constant `SourceRow` are too many to send each of them
through the reader; three are, and of the others the property asks what parsing their
lines yields.

### AuthManager and Configuration

A connection is a thread: `Arrive`, then `Admit` or `Refuse` (check_auth and the
look at `can_admin` behind it, one step: they hold the users' lock once), then the
handler.  `role` is what check_auth handed back and the handler goes by; it is
`Admin` where no credentials are needed.  `Route` has, for each kind of route, what
`route_request` asks check_auth for.  A credential is the decoded text of the
header, so that cutting it at the first colon is part of the model; on its way from
a name and a password it passes through a client's encoder and `base64_decode`
(`Credential`); `decode` is one turn of its loop.  A word is one byte of ASCII: `Code`
gives each its own, and `from_utf8` has no text for bytes beyond.  `Hash` is any function: users may share
a digest.  `Init` is a server made by `with_config` or by `with_database`, in any of
the given environments.

What the README grants is written down apart from `Route`: `OpenAt` is its table of
levels, `RightsOf` its table of roles, and `Promised` the column and the right it gives
each kind of route.  So a wrong entry in `Route` is a difference that
`RightsAsDocumented` shows.

`Configuration` holds texts as sequences of words and separators, which is all
that the parser tells apart.  `Written` is someone who writes a list of tables
down, with semicolons (`TablesAreRead`, which says what comes of it before the first
request) or with commas as the README has it (`CommaListsAreRead`).  The four
separators are named (`Semicolon`, ...), since SMT cannot be told the strings
apart; `Plain` is every other word, and a table's name has a word at each end, since
entries are trimmed.

### HttpDatabase

A handler has the lock for all of its work, so it is one action; what is hard is
what lies between two of them.  `client` is one client and what it has of earlier
answers: an id together with the row it was told of, or the pages it has read.  Any
client may do the same at the same time; one is watched, and any of the others may
search too.  A row is its number of
cells and what searches find it by, its kind: a text with its term and a number.
A search is by term (exact, full text, contains), by prefix or by range, and each lists
rows in the order of its index.  `listing` is the order in which the rows
of all terms were appended to posting lists, a row as often as it has its term
(`Copies`).  `orders` has the other two: how a walk through the trie lists the rows,
those of one text together and in the order they came, texts in any order after every
insert, since the children of a node are a `HashMap` (`Walks`); and the range index, in
any order of ties whenever it sorts itself after a push (`ensure_sorted`).  A batch is inserted and a list of ids deleted row by row: `Inserted` and `Deleted` are
the loops, by the number of rows they have come to.  `births` and `row.key` are no
part of the program: they tell which row
is which after ids have started again.  `sync_table` is here the drop, the creation
and the inserts of a sync as other clients see them; its steps are `SyncManager`'s.

## 3. What TLC checks

All runs finish in well under five minutes.

### Runs that pass

| Run (cfg) | Instance | Shows |
|---|---|---|
| `table_serves_contract` (`SearchTable`) | 2 columns, capacities 0 and 1, 7 kinds of row, 30 searches with reversed ranges, 2 ids | indexes match the rows after every sequence of inserts, updates and deletes, columns do not leak into each other; dead ids stay dead; two kinds of calls abort and no others; every reply implements `TableContract` |
| `range_index` (`SortedIndex`) | 2 values, 2 ids, 3 entries | the flag is true, ordered ranges answer, the answers are those of the bag |
| `background_sync` (`BackgroundSync`) | 1 table, room for two loops, a handler, two starts, a stop, a trigger, a failure, a client write, a panic, 2 versions | whole snapshots, true status, nothing stuck, whatever overlaps; implements `SyncContract`; one thread until it is stopped; syncs in order until they overlap; changes reach the readers, loops end once stopped, triggers return |
| `sync_appends` (`ManualSync`) | clear_before_sync off, 2 tables, one of them without columns | nothing but a client takes rows away |
| `source_reader` (`ClickHouseSource`: `SourceReader`, `TsvRows`) | 7 bodies, 3 of them with a row, in 3 framings; some 19,000 rows of a String, a Bytes and an Int column, texts up to 3 characters | an uncut answer arrives whole but for torn characters, nothing is invented, a given length notices a cut, every query returns; exactly which rows come back as they were |
| `http_authorization` (`AuthManager`) | 2 connections, 3 names (one with a colon), 3 passwords of 2 digests, 4 environments, 21 requests | who gets what through, and what a removal or an overlapping addition changes; rights and logins as documented; credentials of 3 to 7 bytes through base64; 2,500 lists of tables with semicolons |
| `database_over_time` (`HttpDatabase`) | 1 table, 3 rows ever, 2 kinds (one listed twice), batches of 2, pages of 1, searches by term, prefix and range | kept ids name their rows, answers of batches line up, pages tile the hits |

### Runs that refute

Each checks one sentence of the README, a comment or a log line against the
code, and TLC finds the behaviour that contradicts it (`findings` in
`PROJECT.json` has the quotations).

| Run | What is refuted |
|---|---|
| `restarted_background_sync` | one background thread: stop and start within an interval make two |
| `source_cut` | a success has the whole answer: a stream that ends where a chunk size or a header should come passes for complete |
| `substring_search` | `contains` finds substrings: with `b` it does not list the row whose text is `ab` |
| `listed_users` | users are listed for administrators only: at level `write` anybody is shown them |
| `comma_lists` | tables to sync are separated by commas: of the README's example the first is synced and the second is dropped |

### Limits that the passing properties spell out

Other places where the code does less than one might expect are not runs of
their own; a property that holds says exactly where they begin.

| What happens | Where it shows |
|---|---|
| an exact search for `Int(0)` finds `Float(0.0)`, and any value of the same digest | `TableContract!Found` answers by digest |
| a full-text query is cut at white space only, so `a-b` does not find the text `a-b` | `TableContract!Found`, `Words` against `Tokens` |
| a range with min above max and an entry strictly between aborts the process; nothing in `http.rs` checks the bounds | `AbortsExactly`, `OrderedRangesAnswer` |
| so does a text that is written to, or looked up in, a table made with capacity 0: a client may ask for one, and a sync of an empty source makes one | `AbortsExactly` |
| of two overlapping syncs the first to end clears the mark of the other, and the one that fetched first may write last | `LoneSyncIsOrderly`: neither without a trigger or a restart |
| a table without columns refuses each row of a sync, which still succeeds | constant `Fits`; `QuietStatusIsTrue`: the status at least says 0 rows |
| texts with blank ends, `NULL`, a backslash before `t` or `n`; an apostrophe, which comes back with a backslash before it, and the other escapes nobody undoes; an empty first cell, which moves all others left | `RowsComeBack` |
| a character that two chunks share is lost | `OkMeansAllUnlessCut` and the variable `torn` |
| a trigger for one table reloads all of them and answers about the one; the README (line 291) says "sync specific table" | `Trigger`, `Target` and `Return` of `SyncManager` |
| a dropped table, and with clear_before_sync a synced one, counts its ids from 1 again: an id kept from before names another row | `KeptIdsNameTheirRow` ends at a drop, and says nothing of what follows |
| a thread that meets a poisoned lock dies, with the mark of its table left set where it was in a sync | `NoStuckSyncing` and `TriggersReturn` exempt it |
| a row that is updated goes to the end of the lists, a delete of a row already read moves the others up: pages then repeat or skip rows | `PagesTile` ends when a row is changed that has been read |
| an insert puts its row in the middle of a search by prefix and sorts the ties of a range anew: pages of either then repeat or skip rows | `PagesTile` ends for these when a row comes to the table |
| the administrator `admin` has the password `admin` whatever the environment says, and stays beside another one that it names | `ConfiguredUsers` |
| a user whose name has a colon cannot log in | `EveryUserCanLogIn` |
| a level that nobody knows counts as none given | `auth_level` |
| a request that was let through runs to its end although its user is removed; the next one does not | `NoLicenceForTheAbsent` |
| after the last administrator is removed nobody can add one until a restart | `NoRightsOutOfNothing` |

### Bounds, and why they are enough

* `MaxRowId = 2`: indexes treat row ids alike and a retain compares two of them;
  two rows that share a key, one of them updated or deleted, are the case.
* `Capacities` 0 and 1: a filter without bits and one with the fewest there are; more
  bits make fewer collisions.
* Texts `a`, `ab`, `a-b a`: a prefix of another, tokens shared between rows and
  twice in a row, bloom bits shared.  Words 0, 1, 3 leave room between, so that
  bounds fall on, between and around entries.
* `MaxLen = 3` entries: two equal ones and one out of order, before and after
  removal.
* `Budget` bounds what the environment does (starts, stops, triggers, failures,
  client writes, panics), never what the code does.  A race of `sync_table` takes
  two threads; `BackgroundSync` has room for three, two loops that a restart makes and a
  trigger, so each interleaving of two of them is in it.
* `MaxVersion = 1`: an old and a new snapshot, an empty table as well in the run that
  refutes; `Size` tells them by length too.  `MaxCount` stops the display counter and guards nothing; it is 0
  where no property looks at the counter.
* `MaxText`: escape sequences are two characters, so three hold one with a
  neighbour.  All characters are met alone in a cell, and those whose treatment may
  run into one another in every text of three.  Number texts are single characters of
  the alphabet.
* `Body`: no line, lines of one and two bytes, an empty line, a last line
  without an end, a long character at the start and near the end.
* `AuthManager`: two connections are a check that overlaps an addition or a
  removal, and two administrators that remove each other.  The requests have each
  kind of route, callers of each role, an unknown role and a body without JSON; a
  bigger body or a third connection adds no new pair of steps.
* `Code`: bytes with no, few, most and all bits; texts of 3, 5 and 7 bytes end
  with each number of bits left over in the buffer of `base64_decode`.
* `MaxBirths = 3` rows and `MaxBatch = 2`: a row, one that takes its place after a
  deletion, and one more; a search of four entries in pages of one, with a row
  listed twice across a page's end.  The rows of two kinds are two nodes of the trie
  and two values; those of one kind are ties.  `Width` 2 and 3: a row fits or does
  not.  One table: tables share nothing.

### Deadlock

`CHECK_DEADLOCK FALSE` is set where the program may stop: after an abort
(`SearchTable`, `SortedIndex`), when the environment's budget is spent
and no loop runs (`SyncManager`), and when a query has returned.  `AuthManager.cfg`
and `HttpDatabase.cfg` check for deadlock.

### Fairness

`FairSpec` of `SyncManager` assumes weak fairness of each thread's next step, of
`LoopStep`, and strong fairness of `Lock`.  Threads are scheduled by the operating
system; a fetch ends because connect, read and write have timeouts
(`clickhouse.rs`); a sleep ends.  Strong fairness of the lock says that a thread
that finds it free again and again gets it in the end: a loop lets go of it for
the whole interval, of a second or more, between two of its syncs.  A
failing fetch is excluded from what fairness may choose, and is bounded by the
budget: nothing can be promised of a source that always fails.  Nothing obliges
anyone to start, stop, trigger, write or change the source.  `SourceReader`
assumes that each read returns: data, an end or the timeout that `execute_query` sets;
without the timeout `QueryReturns` would not hold of the program, and the run could not
tell.  `FairSpec` of
`AuthManager` assumes that a thread which has a request goes on with it: nothing
between its steps waits, but for locks that are held for one step.  Nobody is
obliged to make a request.

## 4. What is proved

In `SearchTable_proofs`, for every schema, set of rows and queries, every digest
and every bloom hash, from the named assumptions of `CellValues` and `SearchTable`:

| Theorem | Statement |
|---|---|
| `TypeCorrect` | `Spec => []TypeOK` |
| `IndexesCorrect` | `Spec => []IndexesMatchRows` |
| `DeadIdsStayDead` | `Spec => DeletedIdStaysDead` |
| `AbortsAreThese` | `Spec => AbortsExactly`, for every capacity and any ranges |
| `TableServesContract` | `Spec => ServesContract`: the refinement |

The inductive invariant is `IInv == TypeOK /\ FilterSized /\ IndexesMatchRows`.
`IndexesMatchRows` is what makes a delete right: `remove_row` zeroes the count of
an id only under the keys of the values it is given, so the induction needs that
the id had postings under no others, and for the trie that the path of each of
these keys is still there (`ResidueCovers`), else `remove` would give up on it.
`ResidueCovers` also carries the bloom filter: an exact search that is denied by
the filter is one whose text no live row holds.  `TypeOK` includes that live ids
are below `nextId`, which keeps an insert from meeting old postings.  The refinement
then shows, per search type, that the entries listed are the hits of the contract
(`AnswerJustified` and the lemmas before it), and maps each action to the
contract's action of its name, panics to stutters.

`AbortsAreThese` needs all of it: the filter has the bits of the table's capacity
(`FilterSized`), none exactly for capacity 0 (`NumBits`), and a reversed slice has an
entry inside exactly if a live row has a number there (`StraddledEntry`), since the
range index mirrors the rows.

In `SyncManager_proofs`, for any number of tables, threads, versions and rows, and
any budget of events, from `SyncAssumption`:

| Theorem | Statement |
|---|---|
| `SyncTypeCorrect` | `Spec => []TypeOK` |
| `MarksAreTakenBack` | `Spec => []NoStuckSyncing` |
| `TablesAreWhole` | with clear_before_sync, `Spec => []WholeSnapshots` |
| `StatusIsTrue` | with clear_before_sync, `Spec => []QuietStatusIsTrue` |
| `SyncServesReaders` | with clear_before_sync, `Spec => ServesReaders`: the refinement |
| `SyncsAppend` | without it, `Spec => SyncOnlyAppends` |
| `OneThread` | `Spec => []OneThreadUntilStopped` |
| `LoneSyncOrder` | `Spec => []LoneSyncIsOrderly` |

None of these is inductive by itself.  `LockHeld` ties the lock to the place of its
holder (recreate to count), so that nobody else writes meanwhile; `Loading` says that
the table of a thread that inserts is the part of its snapshot it has passed on, and
at the count the whole of it.  `StepOnTable` sums up what a step may do to one table
(leave it, settle it, or be a client's write), and from it follow both `WholeTables`
and `TrueStatus`, which speak of every table that is not being loaded.  The status is
true because it is written before the lock is let go: a thread that reports success
holds the lock, and an overlapping thread can only mark the table or set its error.
`Marked` strengthens `NoStuckSyncing` to the places that still take the mark back.
The refinement maps Recreate to the replacement of the table in one step, client
writes and changes of the source to themselves and all other steps to stutters;
`GotPast` shows that the version put in place is one the source has had.
`RunningTells` and `Orderly` are about a single background thread: `running` is set
while it is there, no version in a table is ahead of the source, so the version
fetched last is no older than the rows it replaces.

In `AuthManager_proofs`, for any names, secrets, hashes, requests, environments, lists
of tables and number of connections, from `AuthAssumption` and `ListsAssumption`:

| Theorem | Statement |
|---|---|
| `AuthTypeCorrect` | `Spec => []TypeOK` |
| `RightsDocumented` | `Spec => RightsAsDocumented` |
| `NoLicence` | `Spec => NoLicenceForTheAbsent` |
| `LicenceLapses` | `Spec => LicenceLapsesOnlyByRemoval` |
| `NothingFromNothing` | `Spec => NoRightsOutOfNothing` |
| `UsersLogIn` | `Spec => []EveryUserCanLogIn` |
| `SyncTablesAreRead` | `Spec => []TablesAreRead` |

`TypeOK` is inductive and enough for the first five; it ties the place of
a thread to its request.  `RightsDocumented` compares two tables that are written down
independently, the code's routes and the README's promises (`RoutesKeepPromises`,
`RightsAreChecks`): they agree on every route and role, which is what a wrong entry
would break.  `NewLicence` says that who acts for a user after a step
did so before, or was let through in the step with the role the user has then;
`UsersStay` and `RolesStay` say what handlers do to the other users.  `NothingFromNothing`
rests on `AdmittedOverUsers`: only an administrator whose name has no colon gets past
the check on the routes over users, since the name is cut before the first colon
(`CutAtFirst`).  That there is a first one is `LeastElement`, from the
well-foundedness of strict inclusion among finite sets.

`UsersLogIn` rests on base64 being undone, for texts of any length
(`TextComesBack`).  What carries the induction along the digits is `Held`: after n of
them the decoder has put out the first 6n \div 8 bytes, and its buffer has the
6n % 8 bits of the next byte that have come.  A step (`HeldNext`) has four cases, for
0, 6, 4 and 2 bits that wait, and the arithmetic of each is one of `Sextets`.
`AuthAssumption` says of characters that each has a byte of its own, which is what
makes the text that comes out the one that went in.

`SyncTablesAreRead` holds before the first step and is about nothing that a step
changes: all of it is in `ListsRead`, about what the parser computes.  `Read` is what a text
asks for, entry by entry.  Two texts with a semicolon between them ask for what each
does (`ReadBoth`), a blank at the end changes nothing (`ReadBlank`), and an entry
without a word asks for nothing (`ReadNothing`); with these, one more table behind any of the
four separators is one more table read (`ReadNext`), and `ListIsRead` goes by
induction along the list.  That an entry asks for its own table is `TableIsRead`: no name
holds a colon, so the parts are the three that were written (`SplitFirst`), and the
columns come back one by one (`ColumnsAreRead`), each spelled type as itself
(`KindIsRead`).  `ListsAssumption` says what the
lists are made of (any number of tables and columns, any words but the signs) and that
a variable which is not set is none of them.

In `SourceReader_proofs`, for any well-formed answers, of any length, from
`ReaderAssumption`:

| Theorem | Statement |
|---|---|
| `ReaderTypeCorrect` | `Spec => []TypeOK` |
| `BeginningOfAnswer` | `Spec => []NothingInvented` |
| `UncutIsWhole` | `Spec => []OkMeansAllUnlessCut` |
| `LengthTells` | `Spec => LengthNoticesCut` |

The inductive invariant is `Collected` (what is unread begins where what is collected
ends, and only a torn chunk makes the two differ from the answer), `Complete` (a
success on a connection that held has nothing unread) and `Fresh` (nothing is
collected before an answer of a given length is read).  `PieceCollected` does the work:
a piece put behind the collected text, as long as what is taken off the unread one,
keeps `Collected`; chunks and lines are such pieces, a line because `LineLen` finds
its end within what there is.

In `TsvRows_proofs`, for tables of any number of columns, rows and texts of any length
over any alphabet, from `TsvAssumption` (and, for the second, `ReaderAssumption`):

| Theorem | Statement |
|---|---|
| `SurvivorsReturn` | `SurvivorsComeBack`, a statement without variables |
| `FetchedRowsReturn` | `Spec => []RowsComeBack`, from it and `UncutIsWhole` |

Both directions are proved: what survives comes back, and what the property lists is
lost.  That is about what a server writes in TabSeparated as ClickHouse defines it, with eight
characters escaped; the five escapes the code does not undo stay two characters, and a
text with one of them is lost (`TextsEscapeWell`).  The work is in what the parser computes.  The three replacements are
followed as one pipeline, character by character (`All`): after a text has been
written and read up to some character, the first two replacements hold back a
backslash exactly if the text ends in one, and the third holds back nothing
(`TextStep`, `TextsAreRead`).  So each character is told as itself, but for a `t` or an `n` behind a
backslash (`ToldAppend`), and a text comes back unless it has one (`ToldUnlessMisheard`).  Blank
ends need both sides: what unescaping makes of a trimmed text has no space at its ends
(`UnescapeEnds`), so no text that has one is ever answered
(`BlankEndsAreLost`).  `CellComesBack` is the sum of these for one cell.

For a row, what matters is that the line is trimmed before it is cut.  A part is
compared by its trimmed text, and a missing one counts as empty, which is what
padding makes of it (`Tidy`): blanks behind the line change no such part
(`TidyBehind`), nor do those in front of it if none is a tab (`TidyBefore`), so that
trimming a line leaves all its parts alone if the first has ink (`TidyTrim`).  Hence
`CellsStay`: unless the first cell begins with a blank or is empty (`Slips`), every
cell comes from its own field.  If it does slip, the first cell is lost whatever comes
into its column, and the row is not what it was, as the property says.
`TsvAssumption` says that letters are neither blank nor part of an escape, and that the texts
of numbers are made of letters.

In `SortedIndex_proofs`, for any values, ids, bounds and number of entries, from
`SortedAssumption`:

| Theorem | Statement |
|---|---|
| `SortedFlag` | `Spec => []SortedFlagIsTrue` |
| `OrderedRanges` | `Spec => OrderedRangesAnswer` |
| `IndexImplementsBag` | `Spec => AnswersAsBag`: the refinement |

The inductive invariant is `IInv == TypeInv /\ SortedFlagIsTrue`; a `retain` keeps a
vector in order (`AscendingOnly`), which is why `remove` may leave the flag.  On a
vector in order, what lies below a bound, or up to it, is a beginning of it (`CutBelow`,
`CutUpTo`), so that `partition_point` has one answer; `PanicFacts` finds the entry
between the bounds of a slice that is reversed.  For the refinement the count of an
entry is followed through a push, a `retain` and a sort (`CopiesAppend`, `CopiesOnly`,
`SortingFacts`), and `SliceFacts` shows that the slice between the cuts has each
entry within the bounds as often as the bag has it, and nothing else, in order.

In `HttpDatabase_proofs`, for any tables, columns, kinds, batches, number of rows,
page size and syncs, from `DatabaseAssumption`:

| Theorem | Statement |
|---|---|
| `TypeCorrect` | `Spec => []TypeOK` |
| `KeptIdsName` | `Spec => []KeptIdsNameTheirRow` |
| `Pages` | `Spec => []PagesTile` |
| `BatchAnswers` | `Spec => []BatchAnswersLineUp` |

A loop over a batch or a list of ids is reasoned about once: `Comes` says what a table
has come to after a number of rows of a batch (`InsertedIs`), and `Without` what is
left of it when a set of ids is gone (`DeletedIs`).  After that no proof looks into
a loop.  `TablesInv` is the shape of every table: live ids are below `next_id`, and
lists name live rows only.  Neither property of the client is inductive.  A kept id
stays right because it is below `next_id` for as long as its table is not dropped, so
that no insert gives it out again (`OwesId`); a row that is gone stays gone.  What a
reader has seen stays a beginning of the hits (`OwesPages`), for the order of each
index.  A delete keeps the order of all of them.  In the posting lists an insert appends
(`HitsInserted`), a delete or an update of a row that was not seen changes the hits
behind what was (`HitsWithout`, `HitsUpdated`, `PrefixStays`), and a page continues it
(`PageContinues`), since the length of what was seen is the offset.  In the other two orders nothing holds
after an insert, which is where the reader's licence ends (`DisturbedIs`); until then the
trie's order is left alone, and so is the range index's, because it has been sorted by
the reader's own search and the flag is still up: `OwesPages` has that as its second
part, and without it a later search of anybody could turn the ties over.  `StepInv` has one
lemma per handler.

### Induction over data

The induction theorems of the library take a predicate as a parameter, which the
installed provers cannot give a value.  `Loops_proofs` states three of them about sets
and functions instead: a set with 0 and the successors of its members has the whole
interval (`IntervalInduction`), a set with the empty sequence and every member made
longer by one has all sequences (`SeqInduction`), and a function defined by recursion on an interval
exists (`Recursion`).  They rest on `LeastElement`, which follows from the
well-foundedness of strict inclusion among finite sets.  What a loop does is then stated
three times over, and after that no proof looks into it: that it runs (`KeptRuns`,
`PartsRuns`, `JoinedRuns`, `ReplacedRuns`), what one element more does to its result (`OnlyAppend`,
`SplitAppend`, `JoinAppend`), and what it makes of two inputs one behind the
other (`OnlyConcat`, `SplitBoth`, `ConcatBoth`).  `TrimLeaves` and `TrimAround` do the
same for `trim`, which has no loop.  This is induction over the data that the
model's own recursive functions run on; for an operator that is declared RECURSIVE,
or a fold that takes an operator, it is still out of reach, and the modules use none
where there is something to prove.

## 5. What is only model-checked

* Liveness (`EventuallyFresh`, `StopEndsLoops`, `TriggersReturn`, `QueryReturns`,
  `RemovalTakesEffect`): TLAPS's backends do not handle `ENABLED`.
* The properties of the five runs that refute, which the code does not have.
* Nothing else: each safety invariant and each action property that a passing run
  checks is stated by a theorem, and so are the three refinements.  The theorems are no
  stronger than what is external in the model, though: that `base64` of `AuthManager` is
  what clients do, and `Escape` of `TsvRows` what ClickHouse writes, is read off their
  definitions and neither checked nor proved; nor is that `OpenAt`, `RightsOf` and
  `Promised` are the README's tables.

## 6. What is not modelled

* `build_query`, `url_encode`, JSON conversions, logging, benchmarks: formatting
  and wiring.
* `parse_request` and `send_response`: bytes on a socket, of one connection each;
  a request that cannot be read ends its thread without an answer.
* The handlers that only read (list of tables, describe, stats, sync status) and
  the cut of requests into columns and search types, beyond their rights.
* `max_connections` is read from the environment and used nowhere; there is no
  limit to model.
* `Float` columns of the source, the `connected` flag nothing reads, scores and
  the limit of `SearchResult` (no caller).
* Widths: row ids are `u64` counted up from 1 and the counter cannot wrap in
  practice; i64 cells are only compared, never computed with.
* Memory: trie nodes and bloom bits are never given back.  The model has the
  residue, but no property limits it.
* `num_bits` is the formula for a table made `with_capacity` (rate 0.001), with its
  logarithms as one rounded constant; `Table::new` uses a million items at 0.01,
  never zero bits.

## 7. Plan

Done, in this order: the table (contract, engine, runs, proofs), the sync
manager, the range index, the source's reader, its rows; then users and their
rights, the configuration, and the database behind its handlers.

Proofs, likewise: the table, the sync manager, users and their rights, the source's
reader, the range index, the database behind its handlers, credentials through base64,
lists of tables, and rows on their way from the source.

Next: `parse_request`, which reads header lines up to an empty one and then a body of
the given length, as `execute_query` does, and could be modelled like it; and updates and deletes of single
rows by clients in `SyncManager`.
