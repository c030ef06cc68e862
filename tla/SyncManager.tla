---------------------------- MODULE SyncManager ----------------------------
(***************************************************************************)
(* The sync manager (sync/manager.rs) and its callers: background threads   *)
(* that sync all configured tables over and over, handler threads of        *)
(* POST /sync/trigger that do it once (http.rs), clients that write to the  *)
(* same tables, and the source, whose tables change on their own.           *)
(*                                                                          *)
(* A sync of one table marks it, fetches a snapshot without any lock, takes *)
(* the write lock of the database, drops and recreates the table, inserts   *)
(* the rows one by one, writes the status and bumps the counter, and only   *)
(* then lets the lock go.  The status has a lock of its own, held for one   *)
(* update at a time, so /sync/status sees every step in between.            *)
(*                                                                          *)
(* The rows of a table are the versions they were fetched at: all that      *)
(* tells one snapshot from another.  A client that panics with the lock in  *)
(* hand (a search may, see SearchTable!AbortsExactly) poisons it where      *)
(* panics unwind (the release profile aborts): every later write().unwrap() *)
(* ends its thread.                                                         *)
(***************************************************************************)
EXTENDS Integers, SequencesExt

CONSTANTS Tables,            \* SyncConfig.tables, the target tables in order
          Loops,             \* bound: background threads there can be at a time
          Handlers,          \* threads that serve POST /sync/trigger
          NoThread,          \* holds no lock
          IntervalSecs,      \* SyncConfig.interval_secs
          ClearBeforeSync,   \* SyncConfig.clear_before_sync
          Fits,              \* do rows have a cell per column of the table: not so
                             \* when none are configured, or it was made with others
          Size,              \* rows of each version of a source table
          MaxVersion,        \* bound: versions of a source table
          MaxCount,          \* bound: where the model stops counting syncs
          Asks,              \* the bodies of trigger requests: a table, or AllTables
          AllTables,
          Budget             \* bound: how often each event of the environment happens

Table   == ToSet(Tables)
Thread  == Loops \cup Handlers
Version == 0..MaxVersion
Event   == {"start", "stop", "trigger", "fail", "client", "panic"}

ASSUME SyncAssumption ==
  /\ Tables \in Seq(Table) /\ Tables # <<>>
  /\ Loops \cap Handlers = {}
  /\ NoThread \notin Thread
  /\ IntervalSecs \in Nat /\ MaxVersion \in Nat /\ MaxCount \in Nat
  /\ ClearBeforeSync \in BOOLEAN
  /\ Fits \in [Table -> BOOLEAN]
  /\ Size \in [Version -> Nat]
  /\ AllTables \notin Table /\ Asks \subseteq Table \cup {AllTables}
  /\ Budget \in [Event -> Nat]

VARIABLES source,      \* the version each source table is at
          tables,      \* Database::tables, rows of the tables that exist
          lock,        \* who holds the write lock of the database
             poisoned,    \* did a thread die holding it
          status,      \* SyncManager::status
          running,     \* SyncManager::running
          sync_count,  \* SyncManager::sync_count, up to MaxCount
          pc,          \* where each thread is
          at,          \* the index in Tables it is syncing
          got,         \* the version it fetched
          seen,        \* how many fetched rows it has passed to insert
          inserted,    \* how many of them were accepted
          asked,       \* the table a trigger request named
          budget       \* what is left of Budget

work == <<pc, at, got, seen, inserted, asked>>
vars == <<source, tables, lock, poisoned, status, running, sync_count, work, budget>>

ClientRow == -1
Step == {"idle", "mark", "fetch", "failed", "lock", "recreate", "missing", "insert",
         "count", "check", "sleep", "recheck", "dead"}

TablesOK ==
  /\ DOMAIN tables \subseteq Table
  /\ tables \in [DOMAIN tables -> Seq(Version \cup {ClientRow})]

TypeOK ==
  /\ source \in [Table -> Version]
  /\ TablesOK
  /\ lock \in Thread \cup {NoThread}
  /\ poisoned \in BOOLEAN
  /\ status \in [Table -> [synced : BOOLEAN, rows : Nat, error : BOOLEAN, syncing : BOOLEAN]]
  /\ running \in BOOLEAN
  /\ sync_count \in 0..MaxCount
  /\ pc \in [Thread -> Step]
  /\ at \in [Thread -> 1..Len(Tables)]
  /\ got \in [Thread -> Version]
  /\ seen \in [Thread -> Nat]
  /\ inserted \in [Thread -> Nat]
  /\ asked \in [Handlers -> Asks \cup {AllTables}]
  /\ budget \in [Event -> Nat]

\* What fetch_table returns at version v, and what a table keeps of it.
Fetched(v) == [i \in 1..Size[v] |-> v]
Snapshot   == [t \in Table |-> [v \in Version |-> IF Fits[t] THEN Fetched(v) ELSE <<>>]]

Target(th) == Tables[at[th]]

-----------------------------------------------------------------------------
Init ==
  /\ source = [t \in Table |-> 0]
  /\ tables = <<>>
  /\ lock = NoThread
  /\ poisoned = FALSE
  /\ status = [t \in Table |-> [synced |-> FALSE, rows |-> 0, error |-> FALSE, syncing |-> FALSE]]
  /\ running = FALSE
  /\ sync_count = 0
  /\ pc = [th \in Thread |-> "idle"]
  /\ at = [th \in Thread |-> 1]
  /\ got = [th \in Thread |-> 0]
  /\ seen = [th \in Thread |-> 0]
  /\ inserted = [th \in Thread |-> 0]
  /\ asked = [th \in Handlers |-> AllTables]
  /\ budget = Budget

Spend(event) == budget[event] > 0 /\ budget' = [budget EXCEPT ![event] = @ - 1]

Goto(th, step) == pc' = [pc EXCEPT ![th] = step]

\* Fault: one table too far.
return_past_end(th) ==
  /\ at' = [at EXCEPT ![th] = @ + 1]
  /\ Goto(th, IF at[th] <= Len(Tables) THEN "mark" ELSE "idle")
  /\ got' = [got EXCEPT ![th] = 0]
  /\ seen' = [seen EXCEPT ![th] = 0]
  /\ inserted' = [inserted EXCEPT ![th] = 0]

\* The body of sync_table is over: on to the next table of sync_all, or back
\* to the loop, or done.
Return(th) ==
  /\ \/ /\ at[th] < Len(Tables)
        /\ at' = [at EXCEPT ![th] = @ + 1]
        /\ Goto(th, "mark")
     \/ /\ at[th] = Len(Tables)
        /\ at' = [at EXCEPT ![th] = 1]
        /\ Goto(th, IF th \in Loops THEN "check" ELSE "idle")
  /\ got' = [got EXCEPT ![th] = 0]
  /\ seen' = [seen EXCEPT ![th] = 0]
  /\ inserted' = [inserted EXCEPT ![th] = 0]

update_status(t, rows, error) ==
  status' = [status EXCEPT ![t] =
    [synced |-> TRUE, rows |-> rows, error |-> error, syncing |-> FALSE]]

-----------------------------------------------------------------------------
(* sync_table, step by step; the variants beside a step are faults that the *)
(* properties at the end must tell from it.                                 *)

Mark(th) ==
  /\ pc[th] = "mark"
  /\ status' = [status EXCEPT ![Target(th)].syncing = TRUE, ![Target(th)].error = FALSE]
  /\ Goto(th, "fetch")
  /\ UNCHANGED <<poisoned, source, tables, lock, running, sync_count, at, got, seen, inserted, asked, budget>>

Fetch(th) ==
  /\ pc[th] = "fetch"
  /\ got' = [got EXCEPT ![th] = source[Target(th)]]
  /\ Goto(th, "lock")
  /\ UNCHANGED <<poisoned, source, tables, lock, status, running, sync_count, at, seen, inserted, asked, budget>>

FetchFails(th) ==
  /\ pc[th] = "fetch"
  /\ Spend("fail")
  /\ Goto(th, "failed")
  /\ UNCHANGED <<poisoned, source, tables, lock, status, running, sync_count, at, got, seen, inserted, asked>>

\* Fault: the syncing flag survives a failed fetch.
failure_keeps_mark(th) ==
  /\ pc[th] = "failed"
  /\ status' = [status EXCEPT ![Target(th)].synced = TRUE, ![Target(th)].rows = 0,
                              ![Target(th)].error = TRUE]
  /\ Return(th)
  /\ UNCHANGED <<poisoned, source, tables, lock, running, sync_count, asked, budget>>

ReportFailure(th) ==
  /\ pc[th] = "failed"
  /\ update_status(Target(th), 0, TRUE)
  /\ Return(th)
  /\ UNCHANGED <<poisoned, source, tables, lock, running, sync_count, asked, budget>>

\* Fault: a read lock is enough.
lock_shared(th) ==
  /\ pc[th] = "lock"
  /\ ~ poisoned
  /\ Goto(th, "recreate")
  /\ UNCHANGED <<poisoned, source, tables, lock, status, running, sync_count, at, got, seen, inserted, asked, budget>>

Lock(th) ==
  /\ pc[th] = "lock"
  /\ lock = NoThread /\ ~ poisoned
  /\ lock' = th
  /\ Goto(th, "recreate")
  /\ UNCHANGED <<poisoned, source, tables, status, running, sync_count, at, got, seen, inserted, asked, budget>>

\* write().unwrap() of a poisoned lock: the thread ends where it is.
LockPoisoned(th) ==
  /\ pc[th] = "lock"
  /\ lock = NoThread /\ poisoned
  /\ Goto(th, "dead")
  /\ UNCHANGED <<source, tables, lock, poisoned, status, running, sync_count,
                 at, got, seen, inserted, asked, budget>>

\* Fault: the table is created only where there is none.
recreate_keeps_rows(th) ==
  /\ pc[th] = "recreate"
  /\ IF Target(th) \in DOMAIN tables
     THEN UNCHANGED tables
     ELSE tables' = [x \in DOMAIN tables \cup {Target(th)} |->
                       IF x = Target(th) THEN <<>> ELSE tables[x]]
  /\ Goto(th, "insert")
  /\ UNCHANGED <<poisoned, source, lock, status, running, sync_count, at, got, seen, inserted, asked, budget>>

\* Fault: the table is cleared whatever clear_before_sync says.
recreate_always(th) ==
  /\ pc[th] = "recreate"
  /\ tables' = [x \in DOMAIN tables \cup {Target(th)} |->
                  IF x = Target(th) THEN <<>> ELSE tables[x]]
  /\ Goto(th, "insert")
  /\ UNCHANGED <<poisoned, source, lock, status, running, sync_count, at, got, seen, inserted, asked, budget>>

\* drop_table and create_table_with_capacity, which cannot fail on a name just
\* dropped under the lock, then get_table_mut.
Recreate(th) ==
  /\ pc[th] = "recreate"
  /\ IF ClearBeforeSync
     THEN tables' = [x \in DOMAIN tables \cup {Target(th)} |->
                       IF x = Target(th) THEN <<>> ELSE tables[x]]
     ELSE UNCHANGED tables
  /\ Goto(th, IF Target(th) \in DOMAIN tables' THEN "insert" ELSE "missing")
  /\ UNCHANGED <<poisoned, source, lock, status, running, sync_count, at, got, seen, inserted, asked, budget>>

\* Fault: an early return that leaves the status alone.
missing_keeps_mark(th) ==
  /\ pc[th] = "missing"
  /\ lock' = NoThread
  /\ Return(th)
  /\ UNCHANGED <<poisoned, source, tables, status, running, sync_count, asked, budget>>

\* "table not found after creation": the lock goes with the early return.
ReportMissing(th) ==
  /\ pc[th] = "missing"
  /\ update_status(Target(th), 0, TRUE)
  /\ lock' = NoThread
  /\ Return(th)
  /\ UNCHANGED <<poisoned, source, tables, running, sync_count, asked, budget>>

\* Fault: the lock is let go after the last row, before the status is written.
insert_then_unlock(th) ==
  /\ pc[th] = "insert"
  /\ seen[th] < Size[got[th]]
  /\ seen' = [seen EXCEPT ![th] = @ + 1]
  /\ tables' = [tables EXCEPT ![Target(th)] = Append(@, got[th])]
  /\ inserted' = [inserted EXCEPT ![th] = @ + 1]
  /\ lock' = IF seen'[th] = Size[got[th]] THEN NoThread ELSE lock
  /\ UNCHANGED <<poisoned, source, status, running, sync_count, pc, at, got, asked, budget>>

\* Table::insert refuses a row with the wrong number of cells; the loop goes on.
InsertRow(th) ==
  /\ pc[th] = "insert"
  /\ seen[th] < Size[got[th]]
  /\ seen' = [seen EXCEPT ![th] = @ + 1]
  /\ IF Fits[Target(th)]
     THEN /\ tables' = [tables EXCEPT ![Target(th)] = Append(@, got[th])]
          /\ inserted' = [inserted EXCEPT ![th] = @ + 1]
     ELSE UNCHANGED <<tables, inserted>>
  /\ UNCHANGED <<poisoned, source, lock, status, running, sync_count, pc, at, got, asked, budget>>

ReportSuccess(th) ==
  /\ pc[th] = "insert"
  /\ seen[th] = Size[got[th]]
  /\ update_status(Target(th), inserted[th], FALSE)
  /\ Goto(th, "count")
  /\ UNCHANGED <<poisoned, source, tables, lock, running, sync_count, at, got, seen, inserted, asked, budget>>

\* Fault: the guard of the lock outlives the sync.
count_keeps_lock(th) ==
  /\ pc[th] = "count"
  /\ sync_count' = IF sync_count < MaxCount THEN sync_count + 1 ELSE sync_count
  /\ Return(th)
  /\ UNCHANGED <<poisoned, source, tables, lock, status, running, asked, budget>>

CountAndUnlock(th) ==
  /\ pc[th] = "count"
  /\ sync_count' = IF sync_count < MaxCount THEN sync_count + 1 ELSE sync_count
  /\ lock' = NoThread
  /\ Return(th)
  /\ UNCHANGED <<poisoned, source, tables, status, running, asked, budget>>

SyncTable(th) ==
  \/ Mark(th) \/ Fetch(th) \/ FetchFails(th) \/ ReportFailure(th) \/ Lock(th)
  \/ LockPoisoned(th) \/ Recreate(th) \/ ReportMissing(th) \/ InsertRow(th) \/ ReportSuccess(th)
  \/ CountAndUnlock(th)

-----------------------------------------------------------------------------
(* The threads around it. *)

\* Fault: running is set without a look at what it was.
start_always ==
  /\ Spend("start")
  /\ running' = TRUE
  /\ \E b \in Loops : pc[b] = "idle" /\ Goto(b, "mark")
  /\ UNCHANGED <<poisoned, source, tables, lock, status, sync_count, at, got, seen, inserted, asked>>

\* start_background_sync; the first sync_all needs no look at running.
Start ==
  /\ Spend("start")
  /\ \/ /\ IntervalSecs = 0 \/ running
        /\ UNCHANGED <<running, pc>>
     \/ /\ IntervalSecs > 0 /\ ~ running
        /\ running' = TRUE
        /\ \E b \in Loops : pc[b] = "idle" /\ Goto(b, "mark")
  /\ UNCHANGED <<poisoned, source, tables, lock, status, sync_count, at, got, seen, inserted, asked>>

Stop ==
  /\ Spend("stop")
  /\ running' = FALSE
  /\ UNCHANGED <<poisoned, source, tables, lock, status, sync_count, work>>

\* Fault: loop instead of while running.
loop_forever(b) ==
  /\ \/ pc[b] = "check" /\ Goto(b, "sleep")
     \/ pc[b] = "sleep" /\ Goto(b, "recheck")
     \/ pc[b] = "recheck" /\ Goto(b, "mark")
  /\ UNCHANGED <<poisoned, source, tables, lock, status, running, sync_count, at, got, seen, inserted, asked, budget>>

\* Fault: the check after the sleep the wrong way round.
loop_once(b) ==
  /\ \/ pc[b] = "check" /\ Goto(b, IF running THEN "sleep" ELSE "idle")
     \/ pc[b] = "sleep" /\ Goto(b, "recheck")
     \/ pc[b] = "recheck" /\ Goto(b, IF running THEN "idle" ELSE "mark")
  /\ UNCHANGED <<poisoned, source, tables, lock, status, running, sync_count, at, got, seen, inserted, asked, budget>>

\* while running, and the check after the sleep.
LoopStep(b) ==
  /\ \/ pc[b] = "check" /\ Goto(b, IF running THEN "sleep" ELSE "idle")
     \/ pc[b] = "sleep" /\ Goto(b, "recheck")
     \/ pc[b] = "recheck" /\ Goto(b, IF running THEN "mark" ELSE "idle")
  /\ UNCHANGED <<poisoned, source, tables, lock, status, running, sync_count, at, got, seen, inserted, asked, budget>>

\* A request for one table syncs them all too; only the answer is filtered.
Trigger(h, body) ==
  /\ pc[h] = "idle"
  /\ Spend("trigger")
  /\ asked' = [asked EXCEPT ![h] = body]
  /\ Goto(h, "mark")
  /\ UNCHANGED <<poisoned, source, tables, lock, status, running, sync_count, at, got, seen, inserted>>

-----------------------------------------------------------------------------
(* The source and the clients, who take the lock for one call. *)

Change(t) ==
  /\ source[t] < MaxVersion
  /\ source' = [source EXCEPT ![t] = @ + 1]
  /\ UNCHANGED <<poisoned, tables, lock, status, running, sync_count, work, budget>>

ClientInsert(t) ==
  /\ t \in DOMAIN tables
  /\ tables' = [tables EXCEPT ![t] = Append(@, ClientRow)]

ClientDrop(t) ==
  /\ t \in DOMAIN tables
  /\ tables' = Restrict(tables, DOMAIN tables \ {t})

ClientCreate(t) ==
  /\ t \notin DOMAIN tables
  /\ tables' = [x \in DOMAIN tables \cup {t} |-> IF x = t THEN <<>> ELSE tables[x]]

ClientWrite(t) ==
  /\ lock = NoThread /\ ~ poisoned
  /\ Spend("client")
  /\ ClientInsert(t) \/ ClientDrop(t) \/ ClientCreate(t)
  /\ UNCHANGED <<poisoned, source, lock, status, running, sync_count, work>>

ClientPanics ==
  /\ lock = NoThread /\ ~ poisoned
  /\ DOMAIN tables # {}
  /\ Spend("panic")
  /\ poisoned' = TRUE
  /\ UNCHANGED <<source, tables, lock, status, running, sync_count, work>>

Next ==
  \/ \E th \in Thread : SyncTable(th)
  \/ \E b \in Loops : LoopStep(b)
  \/ \E h \in Handlers, body \in Asks : Trigger(h, body)
  \/ \E t \in Table : Change(t) \/ ClientWrite(t)
  \/ Start \/ Stop \/ ClientPanics

Spec == Init /\ [][Next]_vars

\* Threads are scheduled, a sleep and a fetch come to an end (the socket has
\* timeouts), and who waits for the lock gets it in the end: between two of its
\* syncs a loop lets go of it for an interval of a second or more.  Nobody is
\* obliged to start, stop, trigger, write, fail or change the source.
Fairness ==
  /\ \A th \in Thread :
       /\ WF_vars(SyncTable(th) /\ ~ FetchFails(th))
       /\ SF_vars(Lock(th))
  /\ \A b \in Loops : WF_vars(LoopStep(b))

FairSpec == Spec /\ Fairness

-----------------------------------------------------------------------------
InSync(th, t) ==
  pc[th] \notin {"idle", "check", "sleep", "recheck", "dead"} /\ Target(th) = t

\* A snapshot of t, or nothing, and after it only what clients inserted.
IsWhole(t, rows) ==
  \E n \in 0..Len(rows) :
    LET own == [i \in 1..n |-> ClientRow] IN
    rows = own \/ \E v \in Version : rows = Snapshot[t][v] \o own

\* Whenever the database is not locked for writing, a table holds one whole
\* snapshot and after it only what clients inserted since: never the rows of a
\* sync under way, or of two syncs (sync_table's lock and drop).
WholeSnapshots == lock = NoThread => \A t \in DOMAIN tables : IsWhole(t, tables[t])

\* Of a table that clients leave alone, a status that shows neither an error
\* nor a sync under way tells the truth, however syncs of it overlapped
\* (update_status before the database lock is let go).
IsQuiet(t)    == status[t].synced /\ ~ status[t].error /\ ~ status[t].syncing
TellsTruth(t) == IsQuiet(t) => t \in DOMAIN tables /\ Len(tables[t]) = status[t].rows

QuietStatusIsTrue ==
  (lock = NoThread /\ budget["client"] = Budget["client"]) => \A t \in Table : TellsTruth(t)

\* No path through sync_table leaves the syncing flag behind, but for a thread
\* that died of a poisoned lock.
NoStuckSyncing ==
  \A t \in Table : status[t].syncing =>
    \E th \in Thread : InSync(th, t) \/ (pc[th] = "dead" /\ Target(th) = t)

\* manager.rs:232 "background sync already running": there is one such thread.
OneBackgroundThread ==
  \A b, c \in Loops : pc[b] # "idle" /\ pc[c] # "idle" => b = c

\* However often it is started, as long as nobody stopped it: the guard of
\* start_background_sync.
OneThreadUntilStopped == budget["stop"] = Budget["stop"] => OneBackgroundThread

\* The version of the rows a sync of t loaded last.
Newest(t) == IF t \in DOMAIN tables /\ tables[t] # <<>> THEN tables[t][1] ELSE ClientRow

\* As long as nobody triggers or stops, a table is marked all the while it is
\* synced, and no sync replaces rows by those of an older version of the source.
\* Overlapping syncs break both: the first to end clears the mark of the other,
\* and the one that fetched first may be the last to write (manager.rs:117 and
\* 126, outside the lock of 147).
LoneSyncIsOrderly ==
  (budget["trigger"] = Budget["trigger"] /\ budget["stop"] = Budget["stop"]) =>
    \A th \in Thread : \A t \in Table : InSync(th, t) =>
      /\ pc[th] \in {"mark", "count"} \/ status[t].syncing
      /\ pc[th] = "recreate" => got[th] >= Newest(t)

\* Without clear_before_sync no step but a client's takes a row away.
SyncOnlyAppends ==
  [][\A t \in DOMAIN tables :
       budget'["client"] = budget["client"] =>
         t \in DOMAIN tables' /\ IsPrefix(tables[t], tables'[t])]_vars

\* While it runs, the background thread brings every change of the source into
\* the tables, and back what clients did to them; until the lock is poisoned.
Fresh == \A t \in Table : t \in DOMAIN tables /\ tables[t] = Snapshot[t][source[t]]
EventuallyFresh ==
  (running /\ budget["stop"] = 0) ~> ([](lock = NoThread => Fresh) \/ poisoned)

\* Once stopped for good, every background thread ends (the loop's two looks at
\* running).
StopEndsLoops ==
  []<>running \/ <>[](\A b \in Loops : pc[b] \in {"idle", "dead"})

\* Every triggered sync comes back, whoever else is syncing, or the lock was
\* poisoned.
TriggersReturn ==
  \A h \in Handlers : pc[h] # "idle" ~> (pc[h] = "idle" \/ poisoned)

-----------------------------------------------------------------------------
\* What readers see: while a sync holds the lock nobody can look, so the table
\* counts as loaded from the moment it is recreated.
Visible ==
  IF lock \in Thread /\ pc[lock] \in {"insert", "count"}
  THEN [tables EXCEPT ![Target(lock)] = Snapshot[Target(lock)][got[lock]]]
  ELSE tables

\* With clear_before_sync the detailed steps implement the atomic replacement
\* of SyncContract.
Readers == INSTANCE SyncContract WITH visible <- Visible
ServesReaders == Readers!Spec
=============================================================================
