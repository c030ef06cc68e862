--------------------------- MODULE MCSyncManager ---------------------------
(***************************************************************************)
(* Small instances of the sync manager for TLC.                             *)
(***************************************************************************)
EXTENDS SyncManager

CONSTANTS t1, t2,         \* target tables
          b1, b2, h1, h2  \* threads

OneTable  == <<t1>>
TwoTables == <<t1, t2>>

AllFit      == [t \in Table |-> TRUE]
FirstMisfit == [t \in Table |-> t # t1]

\* An empty table grows to one row and then to two.
Growing   == [v \in Version |-> v]
\* Every version has rows, and its own number of them.
NeverEmpty == [v \in Version |-> v + 1]

Events(start, stop, trigger, fail, client, panic) ==
  [event \in Event |->
     CASE event = "start"   -> start
       [] event = "stop"    -> stop
       [] event = "trigger" -> trigger
       [] event = "fail"    -> fail
       [] event = "client"  -> client
       [] event = "panic"   -> panic]

AskAll     == {AllTables}
AskTable   == {AllTables, t2}

\* Two starts, a stop and a trigger, a failure, a client and a panic.
Background  == Events(2, 1, 1, 1, 1, 1)
\* Triggers only, on tables that clients create and drop.
Manual      == Events(1, 0, 2, 1, 3, 0)
\* The run that refutes: a restart.
Restarted   == Events(2, 1, 0, 0, 0, 0)
=============================================================================
