---------------------------- MODULE SyncContract ----------------------------
(***************************************************************************)
(* What syncing promises the readers of the tables (manager.rs, with        *)
(* clear_before_sync): a sync replaces a table in one step by a whole       *)
(* snapshot the source has had, whatever else is going on, and nothing but  *)
(* a client's own write changes it otherwise.  That the snapshot is the     *)
(* newest is not promised: see SyncManager!LoneSyncIsOrderly.            *)
(***************************************************************************)
EXTENDS Integers, SequencesExt

CONSTANTS Table,        \* the target tables
          MaxVersion,   \* bound: the versions of a source table are 0..MaxVersion
          Snapshot      \* Snapshot[t][v]: the rows a sync of version v leaves in t

VARIABLES source,    \* the version each source table is at
          visible    \* the rows a reader sees, for the tables that exist

vars == <<source, visible>>

\* A row a client inserted itself belongs to no version.
ClientRow == -1

Init ==
  /\ source = [t \in Table |-> 0]
  /\ visible = <<>>

Change(t) ==
  /\ source[t] < MaxVersion
  /\ source' = [source EXCEPT ![t] = @ + 1]
  /\ UNCHANGED visible

Sync(t) ==
  /\ \E v \in 0..source[t] :
       visible' = [x \in DOMAIN visible \cup {t} |->
                     IF x = t THEN Snapshot[t][v] ELSE visible[x]]
  /\ UNCHANGED source

ClientInsert(t) ==
  /\ t \in DOMAIN visible
  /\ visible' = [visible EXCEPT ![t] = Append(@, ClientRow)]
  /\ UNCHANGED source

ClientDrop(t) ==
  /\ t \in DOMAIN visible
  /\ visible' = Restrict(visible, DOMAIN visible \ {t})
  /\ UNCHANGED source

ClientCreate(t) ==
  /\ t \notin DOMAIN visible
  /\ visible' = [x \in DOMAIN visible \cup {t} |-> IF x = t THEN <<>> ELSE visible[x]]
  /\ UNCHANGED source

Next ==
  \E t \in Table :
    Change(t) \/ Sync(t) \/ ClientInsert(t) \/ ClientDrop(t) \/ ClientCreate(t)

Spec == Init /\ [][Next]_vars
=============================================================================
