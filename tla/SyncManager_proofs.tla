------------------------- MODULE SyncManager_proofs -------------------------
(***************************************************************************)
(* Proofs about SyncManager for any number of tables, threads, versions and *)
(* rows, and any budget of events.                                          *)
(***************************************************************************)
EXTENDS SyncManager, SequenceTheorems, TLAPS

Contents == Seq(Version \cup {ClientRow})

\* The facts about the constants that the proofs use.
LEMMA Constants ==
  /\ Tables \in Seq(Table) /\ Len(Tables) \in Nat /\ Len(Tables) > 0
  /\ \A i \in 1..Len(Tables) : Tables[i] \in Table
  /\ NoThread \notin Thread
  /\ Version \subseteq Nat /\ 0 \in Version
  /\ Size \in [Version -> Nat]
  /\ Budget \in [Event -> Nat]
<1>1. Len(Tables) \in Nat /\ Len(Tables) > 0
  BY SyncAssumption
<1>2. \A i \in 1..Len(Tables) : Tables[i] \in Table
  BY SyncAssumption
<1>. QED
  BY <1>1, <1>2, SyncAssumption DEF Version

LEMMA Targets == ASSUME TypeOK, NEW th \in Thread PROVE Target(th) \in Table
  BY Constants DEF TypeOK, Target

\* What becomes of the set of tables.
LEMMA TablesTyped ==
  ASSUME TypeOK
  PROVE  /\ DOMAIN tables \subseteq Table
         /\ tables = [x \in DOMAIN tables |-> tables[x]]
         /\ \A t \in DOMAIN tables : tables[t] \in Contents
  BY DEF TypeOK, TablesOK, Contents

LEMMA WithTable ==
  ASSUME TypeOK, NEW t \in Table, NEW rows \in Contents,
         tables' = [x \in DOMAIN tables \cup {t} |-> IF x = t THEN rows ELSE tables[x]]
  PROVE  TablesOK'
<1>1. DOMAIN tables \cup {t} \subseteq Table
  BY TablesTyped
<1>2. tables' \in [DOMAIN tables \cup {t} -> Contents]
  BY TablesTyped
<1>. QED
  BY <1>1, <1>2 DEF TablesOK, Contents

LEMMA WithRows ==
  ASSUME TypeOK, NEW t \in DOMAIN tables, NEW row \in Version \cup {ClientRow},
         tables' = [tables EXCEPT ![t] = Append(@, row)]
  PROVE  TablesOK'
<1>1. DOMAIN tables \subseteq Table
  BY TablesTyped
<1>2. tables' \in [DOMAIN tables -> Contents]
  BY TablesTyped DEF Contents
<1>. QED
  BY <1>1, <1>2 DEF TablesOK, Contents

LEMMA WithoutTable ==
  ASSUME TypeOK, NEW t, tables' = Restrict(tables, DOMAIN tables \ {t})
  PROVE  TablesOK'
<1>1. DOMAIN tables \ {t} \subseteq Table
  BY TablesTyped
<1>2. tables' \in [DOMAIN tables \ {t} -> Contents]
  BY TablesTyped DEF Restrict
<1>. QED
  BY <1>1, <1>2 DEF TablesOK, Contents

-----------------------------------------------------------------------------
(* Types. *)

LEMMA InitTypes == Init => TypeOK
<1>. SUFFICES ASSUME Init PROVE TypeOK
  OBVIOUS
<1>. USE DEF Init
<1>1. TablesOK
  BY DEF TablesOK, Contents
<1>2. status \in [Table -> [synced : BOOLEAN, rows : Nat, error : BOOLEAN, syncing : BOOLEAN]]
  OBVIOUS
<1>3. pc \in [Thread -> Step] /\ lock \in Thread \cup {NoThread}
  BY DEF Step
<1>4. at \in [Thread -> 1..Len(Tables)] /\ got \in [Thread -> Version]
  BY Constants
<1>5. asked \in [Handlers -> Asks \cup {AllTables}] /\ sync_count \in 0..MaxCount
  BY SyncAssumption
<1>. QED
  BY <1>1, <1>2, <1>3, <1>4, <1>5, Constants DEF TypeOK

LEMMA NextTypes == TypeOK /\ [Next]_vars => TypeOK'
<1>. SUFFICES ASSUME TypeOK, [Next]_vars PROVE TypeOK'
  OBVIOUS
<1>. USE Constants
<1>0. ASSUME tables' = tables PROVE TablesOK'
  BY <1>0 DEF TypeOK, TablesOK
<1>. DEFINE WorkOK == /\ pc \in [Thread -> Step] /\ at \in [Thread -> 1..Len(Tables)]
                      /\ got \in [Thread -> Version] /\ seen \in [Thread -> Nat]
                      /\ inserted \in [Thread -> Nat]
                      /\ asked \in [Handlers -> Asks \cup {AllTables}]
<1>1. ASSUME NEW th \in Thread, NEW step \in Step, Goto(th, step) PROVE pc' \in [Thread -> Step]
  BY <1>1 DEF TypeOK, Goto
<1>2. ASSUME NEW th \in Thread, Return(th), asked' = asked PROVE WorkOK'
  <2>1. pc' \in [Thread -> Step]
    BY <1>2, <1>1 DEF Return, Step
  <2>2. at' \in [Thread -> 1..Len(Tables)]
    <3>1. at[th] \in 1..Len(Tables)
      BY DEF TypeOK
    <3>2. CASE at[th] < Len(Tables) /\ at' = [at EXCEPT ![th] = @ + 1]
      BY <3>1, <3>2, SMTT(30) DEF TypeOK
    <3>3. CASE at' = [at EXCEPT ![th] = 1]
      BY <3>1, <3>3 DEF TypeOK
    <3>. QED
      BY <1>2, <3>2, <3>3 DEF Return
  <2>3. got' \in [Thread -> Version] /\ seen' \in [Thread -> Nat] /\ inserted' \in [Thread -> Nat]
    BY <1>2 DEF Return, TypeOK
  <2>. QED
    BY <1>2, <2>1, <2>2, <2>3 DEF TypeOK
<1>3. ASSUME NEW event \in Event, Spend(event) PROVE budget' \in [Event -> Nat]
  BY <1>3 DEF Spend, TypeOK
<1>4. ASSUME NEW th \in Thread, SyncTable(th) PROVE TypeOK'
  <2>. USE Targets
  <2>1. CASE Mark(th)
    <3>1. pc' \in [Thread -> Step]
      BY <2>1, <1>1 DEF Mark, Step
    <3>. QED
      BY <1>0, <2>1, <3>1 DEF Mark, TypeOK
  <2>2. CASE Fetch(th)
    <3>1. pc' \in [Thread -> Step]
      BY <2>2, <1>1 DEF Fetch, Step
    <3>. QED
      BY <1>0, <2>2, <3>1 DEF Fetch, TypeOK
  <2>3. CASE FetchFails(th)
    <3>1. pc' \in [Thread -> Step] /\ budget' \in [Event -> Nat]
      BY <2>3, <1>1, <1>3 DEF FetchFails, Step, Event
    <3>. QED
      BY <1>0, <2>3, <3>1 DEF FetchFails, TypeOK
  <2>4. CASE ReportFailure(th)
    BY <1>0, <2>4, <1>2 DEF ReportFailure, update_status, TypeOK
  <2>5. CASE Lock(th)
    <3>1. pc' \in [Thread -> Step]
      BY <2>5, <1>1 DEF Lock, Step
    <3>. QED
      BY <1>0, <2>5, <3>1 DEF Lock, TypeOK
  <2>6. CASE LockPoisoned(th)
    <3>1. pc' \in [Thread -> Step]
      BY <2>6, <1>1 DEF LockPoisoned, Step
    <3>. QED
      BY <1>0, <2>6, <3>1 DEF LockPoisoned, TypeOK
  <2>7. CASE Recreate(th)
    <3>1. pc' \in [Thread -> Step]
      BY <2>7, <1>1 DEF Recreate, Step
    <3>2. TablesOK'
      <4>1. CASE ClearBeforeSync
        <5>1. <<>> \in Contents
          BY DEF Contents
        <5>. QED
          BY <2>7, <4>1, <5>1, WithTable DEF Recreate
      <4>2. CASE ~ ClearBeforeSync
        BY <1>0, <2>7, <4>2 DEF Recreate, TypeOK
      <4>. QED
        BY <4>1, <4>2
    <3>. QED
      BY <2>7, <3>1, <3>2 DEF Recreate, TypeOK
  <2>8. CASE ReportMissing(th)
    BY <1>0, <2>8, <1>2 DEF ReportMissing, update_status, TypeOK
  <2>9. CASE InsertRow(th)
    <3>1. TablesOK'
      <4>1. CASE Fits[Target(th)] /\ Target(th) \in DOMAIN tables
        <5>1. got[th] \in Version
          BY DEF TypeOK
        <5>. QED
          BY <2>9, <4>1, <5>1, WithRows DEF InsertRow
      <4>2. CASE Fits[Target(th)] /\ Target(th) \notin DOMAIN tables
        <5>1. tables' = tables
          BY <2>9, <4>2, TablesTyped DEF InsertRow
        <5>. QED
          BY <1>0, <5>1 DEF TypeOK
      <4>3. CASE ~ Fits[Target(th)]
        BY <1>0, <2>9, <4>3 DEF InsertRow, TypeOK
      <4>. QED
        BY <4>1, <4>2, <4>3
    <3>2. seen' \in [Thread -> Nat] /\ inserted' \in [Thread -> Nat]
      <4>1. seen[th] \in Nat /\ inserted[th] \in Nat
        BY DEF TypeOK
      <4>2. inserted' = inserted \/ inserted' = [inserted EXCEPT ![th] = @ + 1]
        BY <2>9 DEF InsertRow
      <4>3. seen' = [seen EXCEPT ![th] = @ + 1]
        BY <2>9 DEF InsertRow
      <4>4. seen' \in [Thread -> Nat]
        BY <4>1, <4>3 DEF TypeOK
      <4>5. [inserted EXCEPT ![th] = @ + 1] \in [Thread -> Nat]
        BY <4>1, SMTT(30) DEF TypeOK
      <4>. QED
        BY <4>2, <4>4, <4>5 DEF TypeOK
    <3>. QED
      BY <2>9, <3>1, <3>2 DEF InsertRow, TypeOK
  <2>10. CASE ReportSuccess(th)
    <3>1. pc' \in [Thread -> Step]
      BY <2>10, <1>1 DEF ReportSuccess, Step
    <3>. QED
      BY <1>0, <2>10, <3>1 DEF ReportSuccess, update_status, TypeOK
  <2>11. CASE CountAndUnlock(th)
    <3>1. WorkOK'
      BY <2>11, <1>2 DEF CountAndUnlock
    <3>2. sync_count' \in 0..MaxCount
      BY <2>11, SyncAssumption DEF CountAndUnlock, TypeOK
    <3>. QED
      BY <1>0, <2>11, <3>1, <3>2 DEF CountAndUnlock, TypeOK
  <2>. QED
    BY <1>4, <2>1, <2>2, <2>3, <2>4, <2>5, <2>6, <2>7, <2>8, <2>9, <2>10, <2>11 DEF SyncTable
<1>5. ASSUME NEW b \in Loops, LoopStep(b) PROVE TypeOK'
  <2>1. b \in Thread
    BY DEF Thread
  <2>2. pc' \in [Thread -> Step]
    BY <1>1, <1>5, <2>1 DEF LoopStep, Step
  <2>. QED
    BY <1>0, <1>5, <2>2 DEF LoopStep, TypeOK
<1>6. ASSUME NEW h \in Handlers, NEW body \in Asks, Trigger(h, body) PROVE TypeOK'
  <2>1. h \in Thread
    BY DEF Thread
  <2>2. pc' \in [Thread -> Step] /\ budget' \in [Event -> Nat]
    BY <1>1, <1>3, <1>6, <2>1 DEF Trigger, Step, Event
  <2>. QED
    BY <1>0, <1>6, <2>2 DEF Trigger, TypeOK
<1>7. ASSUME NEW t \in Table, Change(t) PROVE TypeOK'
  <2>1. source' \in [Table -> Version]
    <3>1. source \in [Table -> Version]
      BY DEF TypeOK
    <3>2. source[t] + 1 \in Version
      BY <1>7, <3>1, SyncAssumption DEF Change, Version
    <3>. QED
      BY <1>7, <3>1, <3>2 DEF Change
  <2>. QED
    BY <1>0, <1>7, <2>1 DEF Change, TypeOK, work
<1>8. ASSUME NEW t \in Table, ClientWrite(t) PROVE TypeOK'
  <2>1. TablesOK'
    <3>1. CASE ClientInsert(t)
      BY <3>1, WithRows DEF ClientInsert
    <3>2. CASE ClientDrop(t)
      BY <3>2, WithoutTable DEF ClientDrop
    <3>3. CASE ClientCreate(t)
      <4>1. <<>> \in Contents
        BY DEF Contents
      <4>. QED
        BY <3>3, <4>1, WithTable DEF ClientCreate
    <3>. QED
      BY <1>8, <3>1, <3>2, <3>3 DEF ClientWrite
  <2>2. budget' \in [Event -> Nat]
    BY <1>8, <1>3 DEF ClientWrite, Event
  <2>. QED
    BY <1>8, <2>1, <2>2 DEF ClientWrite, TypeOK, work
<1>9. CASE Start
  <2>1. budget' \in [Event -> Nat]
    BY <1>9, <1>3 DEF Start, Event
  <2>2. pc' \in [Thread -> Step]
    BY <1>9, <1>1 DEF Start, Step, Thread, TypeOK
  <2>. QED
    BY <1>0, <1>9, <2>1, <2>2 DEF Start, TypeOK
<1>10. CASE Stop
  <2>1. budget' \in [Event -> Nat]
    BY <1>10, <1>3 DEF Stop, Event
  <2>. QED
    BY <1>0, <1>10, <2>1 DEF Stop, TypeOK, work
<1>11. CASE ClientPanics
  <2>1. budget' \in [Event -> Nat]
    BY <1>11, <1>3 DEF ClientPanics, Event
  <2>. QED
    BY <1>0, <1>11, <2>1 DEF ClientPanics, TypeOK, work
<1>12. CASE UNCHANGED vars
  BY <1>0, <1>12 DEF vars, work, TypeOK
<1>. QED
  BY <1>4, <1>5, <1>6, <1>7, <1>8, <1>9, <1>10, <1>11, <1>12 DEF Next

\* The variables of the sync manager keep their types.
THEOREM SyncTypeCorrect == Spec => []TypeOK
  BY InitTypes, NextTypes, PTL DEF Spec

-----------------------------------------------------------------------------
(* Where a step leaves the threads. *)

LEMMA AfterGoto ==
  ASSUME TypeOK, NEW th \in Thread, NEW step, Goto(th, step)
  PROVE  pc'[th] = step /\ \A o \in Thread : o # th => pc'[o] = pc[o]
  BY DEF TypeOK, Goto

LEMMA AfterReturn ==
  ASSUME TypeOK, NEW th \in Thread, Return(th)
  PROVE  /\ pc'[th] \in {"mark", "check", "idle"}
         /\ got'[th] = 0 /\ seen'[th] = 0 /\ inserted'[th] = 0
         /\ \A o \in Thread : o # th =>
              /\ pc'[o] = pc[o] /\ got'[o] = got[o] /\ seen'[o] = seen[o]
              /\ inserted'[o] = inserted[o] /\ Target(o)' = Target(o)
<1>1. pc'[th] \in {"mark", "check", "idle"} /\ \A o \in Thread : o # th => pc'[o] = pc[o]
  BY AfterGoto DEF Return
<1>2. \A o \in Thread : o # th => Target(o)' = Target(o)
  BY DEF Return, Target, TypeOK
<1>. QED
  BY <1>1, <1>2 DEF Return, TypeOK

-----------------------------------------------------------------------------
(* Who holds the lock. *)

Holding == {"recreate", "missing", "insert", "count"}

LockHeld == \A th \in Thread : pc[th] \in Holding <=> lock = th

LEMMA LockStep == TypeOK /\ LockHeld /\ [Next]_vars => LockHeld'
<1>. SUFFICES ASSUME TypeOK, LockHeld, [Next]_vars PROVE LockHeld'
  OBVIOUS
<1>. USE Constants DEF LockHeld, Holding
<1>1. ASSUME NEW th \in Thread, NEW step, Goto(th, step), UNCHANGED lock,
             pc[th] \in Holding <=> step \in Holding
      PROVE  LockHeld'
  BY <1>1, AfterGoto
<1>2. ASSUME NEW th \in Thread, SyncTable(th) PROVE LockHeld'
  <2>1. CASE Mark(th) \/ Fetch(th) \/ FetchFails(th) \/ LockPoisoned(th) \/ ReportSuccess(th)
    BY <1>1, <2>1 DEF Mark, Fetch, FetchFails, LockPoisoned, ReportSuccess
  <2>2. CASE ReportFailure(th)
    BY <2>2, AfterReturn DEF ReportFailure
  <2>3. CASE Lock(th)
    BY <2>3, AfterGoto DEF Lock
  <2>4. CASE Recreate(th)
    BY <2>4, <1>1 DEF Recreate
  <2>5. CASE ReportMissing(th) \/ CountAndUnlock(th)
    BY <2>5, AfterReturn DEF ReportMissing, CountAndUnlock
  <2>6. CASE InsertRow(th)
    BY <2>6 DEF InsertRow
  <2>. QED
    BY <1>2, <2>1, <2>2, <2>3, <2>4, <2>5, <2>6 DEF SyncTable
<1>3. ASSUME NEW b \in Loops, LoopStep(b) PROVE LockHeld'
  BY <1>1, <1>3 DEF LoopStep, Thread
<1>4. ASSUME NEW h \in Handlers, NEW body \in Asks, Trigger(h, body) PROVE LockHeld'
  BY <1>1, <1>4 DEF Trigger, Thread
<1>5. CASE Start
  BY <1>1, <1>5 DEF Start, Thread
<1>6. ASSUME UNCHANGED <<pc, lock>> PROVE LockHeld'
  BY <1>6
<1>. QED
  BY <1>2, <1>3, <1>4, <1>5, <1>6
     DEF Next, Change, ClientWrite, Stop, ClientPanics, vars, work

-----------------------------------------------------------------------------
(* Who answers for a mark. *)

Answering == {"fetch", "failed", "lock", "recreate", "missing", "insert", "dead"}

Marked ==
  \A t \in Table : status[t].syncing =>
    \E th \in Thread : pc[th] \in Answering /\ Target(th) = t

LEMMA MarkStep == TypeOK /\ Marked /\ [Next]_vars => Marked'
<1>. SUFFICES ASSUME TypeOK, Marked, [Next]_vars PROVE Marked'
  OBVIOUS
<1>. USE Constants DEF Answering
<1>1. ASSUME UNCHANGED <<at, status>>,
             \A o \in Thread : pc[o] \in Answering => pc'[o] \in Answering
      PROVE  Marked'
  BY <1>1 DEF Marked, Target
<1>2. ASSUME NEW th \in Thread, NEW step, Goto(th, step), UNCHANGED <<at, status>>,
             pc[th] \in Answering => step \in Answering
      PROVE  Marked'
  BY <1>1, <1>2, AfterGoto
<1>3. ASSUME NEW th \in Thread, NEW rows, NEW error,
             update_status(Target(th), rows, error),
             \A o \in Thread : o # th => pc'[o] = pc[o] /\ Target(o)' = Target(o)
      PROVE  Marked'
  <2>. SUFFICES ASSUME NEW t \in Table, status'[t].syncing
                PROVE  \E o \in Thread : pc'[o] \in Answering /\ Target(o)' = t
    BY DEF Marked
  <2>1. t # Target(th) /\ status[t].syncing
    BY <1>3, Targets DEF update_status, TypeOK
  <2>. QED
    BY <1>3, <2>1 DEF Marked
<1>4. ASSUME NEW th \in Thread, SyncTable(th) PROVE Marked'
  <2>1. CASE Mark(th)
    <3>1. pc'[th] = "fetch" /\ \A o \in Thread : o # th => pc'[o] = pc[o]
      BY <2>1, AfterGoto DEF Mark
    <3>2. \A o \in Thread : Target(o)' = Target(o)
      BY <2>1 DEF Mark, Target
    <3>3. \A t \in Table : t # Target(th) => status'[t] = status[t]
      BY <2>1 DEF Mark, TypeOK
    <3>4. pc[th] = "mark"
      BY <2>1 DEF Mark
    <3>. QED
      BY <3>1, <3>2, <3>3, <3>4 DEF Marked
  <2>2. CASE Fetch(th) \/ FetchFails(th) \/ Lock(th) \/ LockPoisoned(th) \/ Recreate(th)
    BY <1>2, <2>2 DEF Fetch, FetchFails, Lock, LockPoisoned, Recreate
  <2>3. CASE ReportFailure(th) \/ ReportMissing(th)
    BY <1>3, <2>3, AfterReturn DEF ReportFailure, ReportMissing
  <2>4. CASE InsertRow(th)
    BY <1>1, <2>4 DEF InsertRow
  <2>5. CASE ReportSuccess(th)
    BY <1>3, <2>5, AfterGoto DEF ReportSuccess, Target
  <2>6. CASE CountAndUnlock(th)
    <3>1. pc[th] = "count" /\ status' = status
      BY <2>6 DEF CountAndUnlock
    <3>. QED
      BY <2>6, <3>1, AfterReturn DEF CountAndUnlock, Marked
  <2>. QED
    BY <1>4, <2>1, <2>2, <2>3, <2>4, <2>5, <2>6 DEF SyncTable
<1>5. ASSUME NEW b \in Loops, LoopStep(b) PROVE Marked'
  BY <1>2, <1>5 DEF LoopStep, Thread
<1>6. ASSUME NEW h \in Handlers, NEW body \in Asks, Trigger(h, body) PROVE Marked'
  BY <1>2, <1>6 DEF Trigger, Thread
<1>7. CASE Start
  BY <1>1, <1>2, <1>7 DEF Start, Thread
<1>. QED
  BY <1>1, <1>4, <1>5, <1>6, <1>7
     DEF Next, Change, ClientWrite, Stop, ClientPanics, vars, work

\* No path through sync_table leaves the syncing flag of a table behind: there
\* is always a thread that will take it back, or that died of a poisoned lock.
THEOREM MarksAreTakenBack == Spec => []NoStuckSyncing
<1>1. Init => Marked
  BY DEF Init, Marked
<1>2. Marked => NoStuckSyncing
  BY DEF Marked, NoStuckSyncing, InSync, Answering
<1>. QED
  BY <1>1, <1>2, InitTypes, NextTypes, MarkStep, PTL DEF Spec

-----------------------------------------------------------------------------
(* What a sync has loaded so far. *)

Loaded(t, v, n) == IF Fits[t] THEN [i \in 1..n |-> v] ELSE <<>>

LEMMA LoadedRows ==
  ASSUME NEW t \in Table, NEW v \in Version, NEW n \in Nat
  PROVE  /\ Loaded(t, v, n) \in Contents
         /\ Len(Loaded(t, v, n)) = IF Fits[t] THEN n ELSE 0
         /\ Loaded(t, v, 0) = <<>>
         /\ Loaded(t, v, n + 1) = IF Fits[t] THEN Append(Loaded(t, v, n), v) ELSE <<>>
         /\ Loaded(t, v, Size[v]) = Snapshot[t][v]
<1>1. Loaded(t, v, n) \in Contents
  BY DEF Loaded, Contents
<1>2. Len(Loaded(t, v, n)) = IF Fits[t] THEN n ELSE 0
  BY DEF Loaded
<1>3. Loaded(t, v, 0) = <<>>
  BY DEF Loaded
<1>4. Loaded(t, v, n + 1) = IF Fits[t] THEN Append(Loaded(t, v, n), v) ELSE <<>>
  <2>1. [i \in 1..n + 1 |-> v] = Append([i \in 1..n |-> v], v)
    OBVIOUS
  <2>. QED
    BY <2>1 DEF Loaded
<1>5. Loaded(t, v, Size[v]) = Snapshot[t][v]
  BY DEF Loaded, Snapshot, Fetched
<1>. QED
  BY <1>1, <1>2, <1>3, <1>4, <1>5

LEMMA WholeSnapshot ==
  ASSUME NEW t \in Table, NEW v \in Version PROVE IsWhole(t, Snapshot[t][v]) /\ IsWhole(t, <<>>)
<1>1. Snapshot[t][v] \in Seq(Version)
  BY Constants DEF Snapshot, Fetched
<1>2. [i \in 1..0 |-> ClientRow] = <<>>
  OBVIOUS
<1>3. Snapshot[t][v] \o <<>> = Snapshot[t][v]
  BY <1>1
<1>4. 0 \in 0..Len(Snapshot[t][v]) /\ 0 \in 0..Len(<<>>)
  BY <1>1
<1>. QED
  BY <1>2, <1>3, <1>4 DEF IsWhole

LEMMA AppendConcat ==
  ASSUME NEW first \in Contents, NEW last \in Contents
  PROVE  Append(first \o last, ClientRow) = first \o Append(last, ClientRow)
<1>. DEFINE S == Version \cup {ClientRow}
           row == ClientRow
<1>0. first \in Seq(S) /\ last \in Seq(S) /\ row \in S
  BY DEF Contents
<1>. HIDE DEF S, row
<1>1. first \o last \in Seq(S) /\ <<row>> \in Seq(S)
  BY <1>0
<1>2. Append(first \o last, row) = (first \o last) \o <<row>>
  BY <1>0, <1>1, AppendIsConcat
<1>3. Append(last, row) = last \o <<row>>
  BY <1>0, AppendIsConcat
<1>4. (first \o last) \o <<row>> = first \o (last \o <<row>>)
  BY <1>0, <1>1, ConcatAssociative
<1>. QED
  BY <1>2, <1>3, <1>4 DEF row

LEMMA WholeAppend ==
  ASSUME NEW t \in Table, NEW rows \in Contents, IsWhole(t, rows)
  PROVE  IsWhole(t, Append(rows, ClientRow))
<1>. DEFINE Own(n) == [i \in 1..n |-> ClientRow]
<1>1. PICK n \in 0..Len(rows) :
        rows = Own(n) \/ \E v \in Version : rows = Snapshot[t][v] \o Own(n)
  BY DEF IsWhole
<1>2. Append(Own(n), ClientRow) = Own(n + 1)
  OBVIOUS
<1>3. n + 1 \in 0..Len(Append(rows, ClientRow))
  BY DEF Contents
<1>4. CASE rows = Own(n)
  BY <1>2, <1>3, <1>4 DEF IsWhole
<1>5. ASSUME NEW v \in Version, rows = Snapshot[t][v] \o Own(n)
      PROVE  Append(rows, ClientRow) = Snapshot[t][v] \o Own(n + 1)
  <2>1. Snapshot[t][v] \in Seq(Version)
    BY Constants, SMTT(30) DEF Snapshot, Fetched
  <2>2. Snapshot[t][v] \in Contents /\ Own(n) \in Contents
    BY <2>1 DEF Contents
  <2>. HIDE DEF Own
  <2>3. Append(Snapshot[t][v] \o Own(n), ClientRow) = Snapshot[t][v] \o Append(Own(n), ClientRow)
    BY <2>2, AppendConcat, Zenon
  <2>. QED
    BY <1>2, <1>5, <2>3
<1>. QED
  BY <1>1, <1>3, <1>4, <1>5 DEF IsWhole

-----------------------------------------------------------------------------
(* A sync under way, and what it leaves, with clear_before_sync.            *)

LoadingOf(th) ==
  /\ pc[th] # "missing"
  /\ pc[th] \notin {"insert", "count"} => seen[th] = 0 /\ inserted[th] = 0
  /\ pc[th] \in {"insert", "count"} =>
       /\ Target(th) \in DOMAIN tables
       /\ seen[th] <= Size[got[th]]
       /\ tables[Target(th)] = Loaded(Target(th), got[th], seen[th])
       /\ inserted[th] = Len(tables[Target(th)])
  /\ pc[th] = "count" => seen[th] = Size[got[th]]

Loading == \A th \in Thread : LoadingOf(th)

\* Nobody else is loading a table when th writes to one, or a client does.
LEMMA OthersWait ==
  ASSUME LockHeld, NEW o \in Thread, lock # o
  PROVE  pc[o] \notin {"insert", "count"}
  BY DEF LockHeld, Holding

LEMMA LoadingKept ==
  ASSUME NEW o \in Thread, LoadingOf(o), UNCHANGED <<pc[o], got[o], seen[o], inserted[o], Target(o)>>,
         pc[o] \notin {"insert", "count"} \/ UNCHANGED tables
  PROVE  LoadingOf(o)'
  BY DEF LoadingOf

LEMMA LoadingStep ==
  ASSUME ClearBeforeSync, TypeOK, LockHeld, Loading, [Next]_vars
  PROVE  Loading'
<1>1. ASSUME NEW th \in Thread, NEW step, Goto(th, step), UNCHANGED <<at, got, seen, inserted, tables>>,
             pc[th] \notin {"insert", "count"}, step \notin {"insert", "count", "missing"}
      PROVE  Loading'
  <2>. SUFFICES ASSUME NEW o \in Thread PROVE LoadingOf(o)'
    BY DEF Loading
  <2>1. CASE o = th
    BY <1>1, <2>1, AfterGoto DEF Loading, LoadingOf
  <2>2. CASE o # th
    BY <1>1, <2>2, AfterGoto, LoadingKept DEF Loading, Target
  <2>. QED
    BY <2>1, <2>2
<1>2. ASSUME NEW th \in Thread, Return(th), UNCHANGED tables PROVE Loading'
  <2>. SUFFICES ASSUME NEW o \in Thread PROVE LoadingOf(o)'
    BY DEF Loading
  <2>1. CASE o = th
    BY <1>2, <2>1, AfterReturn DEF LoadingOf
  <2>2. CASE o # th
    BY <1>2, <2>2, AfterReturn, LoadingKept DEF Loading
  <2>. QED
    BY <2>1, <2>2
<1>3. ASSUME NEW th \in Thread, SyncTable(th) PROVE Loading'
  <2>. USE Targets
  <2>1. CASE Mark(th) \/ FetchFails(th) \/ Lock(th) \/ LockPoisoned(th)
    BY <1>1, <2>1 DEF Mark, FetchFails, Lock, LockPoisoned
  <2>2. CASE Fetch(th)
    <3>. SUFFICES ASSUME NEW o \in Thread PROVE LoadingOf(o)'
      BY DEF Loading
    <3>1. CASE o = th
      BY <2>2, <3>1, AfterGoto DEF Fetch, Loading, LoadingOf
    <3>2. CASE o # th
      BY <2>2, <3>2, AfterGoto, LoadingKept DEF Fetch, Loading, Target, TypeOK
    <3>. QED
      BY <3>1, <3>2
  <2>3. CASE ReportFailure(th) \/ ReportMissing(th) \/ CountAndUnlock(th)
    BY <1>2, <2>3 DEF ReportFailure, ReportMissing, CountAndUnlock
  <2>4. CASE Recreate(th)
    <3>. SUFFICES ASSUME NEW o \in Thread PROVE LoadingOf(o)'
      BY DEF Loading
    <3>1. lock = th
      BY <2>4 DEF Recreate, LockHeld, Holding
    <3>2. CASE o = th
      <4>1. Target(th) \in DOMAIN tables' /\ tables'[Target(th)] = <<>>
        BY <2>4 DEF Recreate
      <4>2. pc'[th] = "insert" /\ Target(th)' = Target(th)
        BY <2>4, <4>1, AfterGoto DEF Recreate, Target
      <4>3. got[th] \in Version /\ Size[got[th]] \in Nat
        BY Constants DEF TypeOK
      <4>4. seen[th] = 0 /\ inserted[th] = 0 /\ UNCHANGED <<seen, inserted, got>>
        BY <2>4 DEF Recreate, Loading, LoadingOf
      <4>. QED
        BY <3>2, <4>1, <4>2, <4>3, <4>4, LoadedRows, SMTT(30) DEF LoadingOf
    <3>3. CASE o # th
      BY <2>4, <3>1, <3>3, AfterGoto, OthersWait, LoadingKept DEF Recreate, Loading, Target
    <3>. QED
      BY <3>2, <3>3
  <2>5. CASE InsertRow(th)
    <3>. SUFFICES ASSUME NEW o \in Thread PROVE LoadingOf(o)'
      BY DEF Loading
    <3>1. lock = th
      BY <2>5 DEF InsertRow, LockHeld, Holding
    <3>2. CASE o = th
      <4>. DEFINE t == Target(th)
                  v == got[th]
      <4>1. /\ pc[th] = "insert" /\ pc'[th] = "insert" /\ t' = t /\ got'[th] = v
            /\ seen[th] \in Nat /\ inserted[th] \in Nat
            /\ v \in Version /\ Size[v] \in Nat
        BY <2>5, Constants DEF InsertRow, TypeOK, Target
      <4>2. seen'[th] = seen[th] + 1 /\ seen[th] < Size[v]
        BY <2>5 DEF InsertRow, TypeOK
      <4>3. t \in DOMAIN tables /\ tables[t] = Loaded(t, v, seen[th]) /\ inserted[th] = Len(tables[t])
        BY <4>1 DEF Loading, LoadingOf
      <4>7. t \in Table /\ seen[th] \in Nat /\ seen[th] + 1 \in Nat
        BY <4>1
      <4>8. Loaded(t, v, seen[th] + 1) = IF Fits[t] THEN Append(Loaded(t, v, seen[th]), v) ELSE <<>>
        BY <4>1, <4>7, LoadedRows
      <4>9. ~ Fits[t] => Loaded(t, v, seen[th]) = <<>>
        BY DEF Loaded
      <4>4. t \in DOMAIN tables' /\ tables'[t] = Loaded(t, v, seen[th] + 1)
        <5>1. CASE Fits[t]
          <6>1. tables' = [tables EXCEPT ![t] = Append(@, v)]
            BY <2>5, <5>1 DEF InsertRow
          <6>. QED
            BY <4>3, <4>8, <5>1, <6>1
        <5>2. CASE ~ Fits[t]
          BY <2>5, <4>3, <4>8, <4>9, <5>2 DEF InsertRow
        <5>. QED
          BY <5>1, <5>2
      <4>5. inserted'[th] = IF Fits[t] THEN inserted[th] + 1 ELSE inserted[th]
        BY <2>5 DEF InsertRow, TypeOK
      <4>6. inserted'[th] = Len(tables'[t])
        <5>1. Len(Loaded(t, v, seen[th])) = IF Fits[t] THEN seen[th] ELSE 0
          BY <4>1, LoadedRows
        <5>2. Len(Loaded(t, v, seen[th] + 1)) = IF Fits[t] THEN seen[th] + 1 ELSE 0
          BY <4>1, <4>7 DEF Loaded
        <5>. QED
          BY <4>3, <4>4, <4>5, <5>1, <5>2
      <4>. QED
        BY <3>2, <4>1, <4>2, <4>4, <4>6 DEF LoadingOf
    <3>3. CASE o # th
      BY <2>5, <3>1, <3>3, OthersWait, LoadingKept DEF InsertRow, Loading, Target, TypeOK
    <3>. QED
      BY <3>2, <3>3
  <2>6. CASE ReportSuccess(th)
    <3>. SUFFICES ASSUME NEW o \in Thread PROVE LoadingOf(o)'
      BY DEF Loading
    <3>1. CASE o = th
      BY <2>6, <3>1, AfterGoto DEF ReportSuccess, Loading, LoadingOf, Target
    <3>2. CASE o # th
      BY <2>6, <3>2, AfterGoto, LoadingKept DEF ReportSuccess, Loading, Target
    <3>. QED
      BY <3>1, <3>2
  <2>. QED
    BY <1>3, <2>1, <2>2, <2>3, <2>4, <2>5, <2>6 DEF SyncTable
<1>4. ASSUME NEW b \in Loops, LoopStep(b) PROVE Loading'
  BY <1>1, <1>4 DEF LoopStep, Thread
<1>5. ASSUME NEW h \in Handlers, NEW body \in Asks, Trigger(h, body) PROVE Loading'
  BY <1>1, <1>5 DEF Trigger, Thread
<1>6. CASE Start
  <2>1. CASE UNCHANGED pc
    BY <1>6, <2>1, LoadingKept DEF Start, Loading, Target
  <2>2. CASE \E b \in Loops : pc[b] = "idle" /\ Goto(b, "mark")
    BY <1>1, <1>6, <2>2 DEF Start, Thread
  <2>. QED
    BY <1>6, <2>1, <2>2 DEF Start
<1>7. ASSUME NEW t \in Table, ClientWrite(t) PROVE Loading'
  <2>1. \A o \in Thread : lock # o
    BY <1>7, Constants DEF ClientWrite
  <2>. QED
    BY <1>7, <2>1, OthersWait, LoadingKept DEF ClientWrite, Loading, Target, work
<1>8. ASSUME UNCHANGED <<work, tables>> PROVE Loading'
  BY <1>8, LoadingKept DEF Loading, Target, work
<1>. QED
  BY <1>3, <1>4, <1>5, <1>6, <1>7, <1>8 DEF Next, Change, Stop, ClientPanics, vars

-----------------------------------------------------------------------------
(* What one step does to one table.                                         *)

BeingLoaded(t) == \E th \in Thread : pc[th] = "insert" /\ Target(th) = t

\* Nothing, unless it is being loaded, and its status is as it was or not quiet.
Untouched(t) ==
  /\ BeingLoaded(t) => BeingLoaded(t)'
  /\ BeingLoaded(t)' \/ /\ t \in DOMAIN tables' <=> t \in DOMAIN tables
                        /\ t \in DOMAIN tables => tables'[t] = tables[t]
  /\ status'[t] = status[t] \/ ~ IsQuiet(t)'
  /\ budget'["client"] = budget["client"]

\* A sync of it ends well.
Settled(t) ==
  /\ t \in DOMAIN tables'
  /\ \E v \in Version : tables'[t] = Snapshot[t][v]
  /\ status'[t].rows = Len(tables'[t])
  /\ budget'["client"] = budget["client"]

\* A client writes while nobody loads a table.
Written(t) ==
  /\ ~ BeingLoaded(t)
  /\ t \in DOMAIN tables' =>
       \/ tables'[t] = <<>>
       \/ t \in DOMAIN tables /\ tables'[t] \in {tables[t], Append(tables[t], ClientRow)}
  /\ budget'["client"] < budget["client"]

LEMMA StepOnTable ==
  ASSUME ClearBeforeSync, TypeOK, LockHeld, Loading, [Next]_vars, NEW t \in Table
  PROVE  Untouched(t) \/ Settled(t) \/ Written(t)
<1>. USE Constants
<1>1. ASSUME UNCHANGED tables, status'[t] = status[t] \/ ~ IsQuiet(t)',
             budget'["client"] = budget["client"],
             \A o \in Thread : pc[o] = "insert" => pc'[o] = "insert" /\ Target(o)' = Target(o)
      PROVE  Untouched(t)
  BY <1>1 DEF Untouched, BeingLoaded
<1>2. ASSUME NEW th \in Thread, NEW step, Goto(th, step), UNCHANGED <<at, tables>>,
             status'[t] = status[t] \/ ~ IsQuiet(t)', budget'["client"] = budget["client"],
             pc[th] # "insert"
      PROVE  Untouched(t)
  BY <1>1, <1>2, AfterGoto DEF Target
<1>3. ASSUME NEW th \in Thread, Return(th), UNCHANGED tables,
             status'[t] = status[t] \/ ~ IsQuiet(t)', budget'["client"] = budget["client"],
             pc[th] # "insert"
      PROVE  Untouched(t)
  BY <1>1, <1>3, AfterReturn
<1>4. ASSUME NEW event \in Event \ {"client"}, Spend(event) PROVE budget'["client"] = budget["client"]
  BY <1>4 DEF Spend, TypeOK, Event
<1>5. ASSUME NEW th \in Thread, SyncTable(th) PROVE Untouched(t) \/ Settled(t)
  <2>1. CASE Mark(th)
    <3>1. status'[t] = status[t] \/ ~ IsQuiet(t)'
      BY <2>1 DEF Mark, IsQuiet, TypeOK
    <3>. QED
      BY <1>2, <2>1, <3>1 DEF Mark
  <2>2. CASE Fetch(th) \/ Lock(th) \/ LockPoisoned(th)
    BY <1>2, <2>2 DEF Fetch, Lock, LockPoisoned
  <2>3. CASE FetchFails(th)
    BY <1>2, <1>4, <2>3 DEF FetchFails, Event
  <2>4. CASE ReportFailure(th)
    <3>1. status'[t] = status[t] \/ ~ IsQuiet(t)'
      BY <2>4 DEF ReportFailure, update_status, IsQuiet, TypeOK
    <3>. QED
      BY <1>3, <2>4, <3>1 DEF ReportFailure
  <2>5. CASE Recreate(th)
    <3>1. pc[th] = "recreate" /\ Goto(th, "insert") /\ UNCHANGED <<at, status, budget>>
      BY <2>5 DEF Recreate
    <3>2. \A x \in DOMAIN tables \cup {Target(th)} : x # Target(th) => x \in DOMAIN tables /\ tables'[x] = tables[x]
      BY <2>5 DEF Recreate
    <3>3. DOMAIN tables' = DOMAIN tables \cup {Target(th)}
      BY <2>5 DEF Recreate
    <3>4. \A o \in Thread : (pc[o] = "insert" \/ o = th) => pc'[o] = "insert" /\ Target(o)' = Target(o)
      BY <3>1, AfterGoto DEF Target
    <3>. QED
      BY <3>1, <3>2, <3>3, <3>4 DEF Untouched, BeingLoaded
  <2>6. CASE ReportMissing(th)
    BY <2>6 DEF ReportMissing, Loading, LoadingOf
  <2>7. CASE InsertRow(th)
    <3>1. pc[th] = "insert" /\ UNCHANGED <<pc, at, status, budget>>
      BY <2>7 DEF InsertRow
    <3>2. DOMAIN tables' = DOMAIN tables /\ \A x \in DOMAIN tables : x # Target(th) => tables'[x] = tables[x]
      BY <2>7, TablesTyped DEF InsertRow
    <3>. QED
      BY <3>1, <3>2 DEF Untouched, BeingLoaded, Target
  <2>8. CASE ReportSuccess(th)
    <3>1. pc[th] = "insert" /\ Goto(th, "count") /\ UNCHANGED <<at, tables, budget>>
      BY <2>8 DEF ReportSuccess
    <3>2. CASE t = Target(th)
      <4>1. t \in DOMAIN tables /\ tables[t] = Loaded(t, got[th], Size[got[th]])
            /\ inserted[th] = Len(tables[t])
        BY <2>8, <3>2 DEF ReportSuccess, Loading, LoadingOf
      <4>2. got[th] \in Version /\ 0 \in Nat
        BY DEF TypeOK
      <4>3. tables'[t] = Snapshot[t][got[th]]
        BY <3>1, <4>1, <4>2, LoadedRows
      <4>4. status'[t].rows = inserted[th]
        BY <2>8, <3>2 DEF ReportSuccess, update_status, TypeOK
      <4>. QED
        BY <3>1, <4>1, <4>2, <4>3, <4>4 DEF Settled
    <3>3. CASE t # Target(th)
      <4>1. status'[t] = status[t]
        BY <2>8, <3>3 DEF ReportSuccess, update_status, TypeOK
      <4>2. BeingLoaded(t) => BeingLoaded(t)'
        BY <3>1, <3>3, AfterGoto DEF BeingLoaded, Target
      <4>. QED
        BY <3>1, <4>1, <4>2 DEF Untouched
    <3>. QED
      BY <3>2, <3>3
  <2>9. CASE CountAndUnlock(th)
    BY <1>3, <2>9 DEF CountAndUnlock
  <2>. QED
    BY <1>5, <2>1, <2>2, <2>3, <2>4, <2>5, <2>6, <2>7, <2>8, <2>9 DEF SyncTable
<1>6. ASSUME NEW b \in Loops, LoopStep(b) PROVE Untouched(t)
  BY <1>2, <1>6 DEF LoopStep, Thread
<1>7. ASSUME NEW h \in Handlers, NEW body \in Asks, Trigger(h, body) PROVE Untouched(t)
  BY <1>2, <1>4, <1>7 DEF Trigger, Thread, Event
<1>8. CASE Start
  <2>1. budget'["client"] = budget["client"]
    BY <1>4, <1>8 DEF Start, Event
  <2>. QED
    BY <1>1, <1>2, <1>8, <2>1 DEF Start, Thread, Target
<1>9. ASSUME NEW x \in Table, ClientWrite(x) PROVE Written(t)
  <2>1. ~ BeingLoaded(t)
    BY <1>9, OthersWait DEF ClientWrite, BeingLoaded
  <2>2. budget'["client"] < budget["client"]
    BY <1>9 DEF ClientWrite, Spend, TypeOK, Event
  <2>3. t \in DOMAIN tables' =>
          \/ tables'[t] = <<>>
          \/ t \in DOMAIN tables /\ tables'[t] \in {tables[t], Append(tables[t], ClientRow)}
    <3>1. CASE ClientInsert(x)
      BY <3>1, TablesTyped DEF ClientInsert
    <3>2. CASE ClientDrop(x)
      BY <3>2 DEF ClientDrop, Restrict
    <3>3. CASE ClientCreate(x)
      BY <3>3 DEF ClientCreate
    <3>. QED
      BY <1>9, <3>1, <3>2, <3>3 DEF ClientWrite
  <2>. QED
    BY <2>1, <2>2, <2>3 DEF Written
<1>10. ASSUME UNCHANGED <<work, tables, status>>, budget'["client"] = budget["client"]
       PROVE  Untouched(t)
  BY <1>1, <1>10 DEF work, Target
<1>11. CASE Stop \/ ClientPanics
  BY <1>4, <1>10, <1>11 DEF Stop, ClientPanics, Event
<1>. QED
  BY <1>5, <1>6, <1>7, <1>8, <1>9, <1>10, <1>11 DEF Next, Change, vars

-----------------------------------------------------------------------------
(* Whole tables and a true status, of every table that is not being loaded. *)

WholeTables == \A t \in DOMAIN tables : BeingLoaded(t) \/ IsWhole(t, tables[t])

TrueStatus ==
  /\ budget["client"] <= Budget["client"]
  /\ budget["client"] = Budget["client"] =>
       \A t \in Table : BeingLoaded(t) \/ TellsTruth(t)

LEMMA WholeStep ==
  ASSUME ClearBeforeSync, TypeOK, LockHeld, Loading, WholeTables, [Next]_vars
  PROVE  WholeTables'
<1>. SUFFICES ASSUME NEW t \in DOMAIN tables' PROVE BeingLoaded(t)' \/ IsWhole(t, tables'[t])
  BY DEF WholeTables
<1>1. t \in Table
  BY NextTypes DEF TypeOK, TablesOK
<1>2. CASE Untouched(t)
  BY <1>2 DEF Untouched, WholeTables
<1>3. CASE Settled(t)
  BY <1>1, <1>3, WholeSnapshot DEF Settled
<1>4. CASE Written(t)
  <2>1. CASE tables'[t] = <<>>
    BY <1>1, <2>1, Constants, WholeSnapshot
  <2>2. CASE t \in DOMAIN tables /\ tables'[t] \in {tables[t], Append(tables[t], ClientRow)}
    BY <1>1, <1>4, <2>2, TablesTyped, WholeAppend DEF Written, WholeTables
  <2>. QED
    BY <1>4, <2>1, <2>2 DEF Written
<1>. QED
  BY <1>1, <1>2, <1>3, <1>4, StepOnTable

LEMMA StatusStep ==
  ASSUME ClearBeforeSync, TypeOK, LockHeld, Loading, TrueStatus, [Next]_vars
  PROVE  TrueStatus'
<1>1. budget["client"] \in Nat /\ budget'["client"] \in Nat /\ Budget["client"] \in Nat
  BY NextTypes, Constants DEF TypeOK, Event
<1>2. \E t : t \in Table
  BY Constants
<1>3. budget'["client"] <= budget["client"]
  BY <1>1, <1>2, StepOnTable DEF Untouched, Settled, Written
<1>4. budget'["client"] <= Budget["client"]
  BY <1>1, <1>3 DEF TrueStatus
<1>5. ASSUME budget'["client"] = Budget["client"], NEW t \in Table
      PROVE  BeingLoaded(t)' \/ TellsTruth(t)'
  <2>1. budget["client"] = Budget["client"] /\ ~ Written(t)
    BY <1>1, <1>3, <1>5 DEF TrueStatus, Written
  <2>2. CASE Untouched(t)
    BY <2>1, <2>2 DEF Untouched, TrueStatus, TellsTruth, IsQuiet
  <2>3. CASE Settled(t)
    BY <2>3 DEF Settled, TellsTruth
  <2>. QED
    BY <2>1, <2>2, <2>3, StepOnTable
<1>. QED
  BY <1>4, <1>5 DEF TrueStatus

LEMMA InitSettled == Init => LockHeld /\ Loading /\ WholeTables /\ TrueStatus
<1>. SUFFICES ASSUME Init PROVE LockHeld /\ Loading /\ WholeTables /\ TrueStatus
  OBVIOUS
<1>1. LockHeld
  BY Constants DEF Init, LockHeld, Holding
<1>2. Loading
  BY DEF Init, Loading, LoadingOf
<1>3. WholeTables
  BY DEF Init, WholeTables
<1>4. TrueStatus
  BY Constants DEF Init, TrueStatus, TellsTruth, IsQuiet, Event
<1>. QED
  BY <1>1, <1>2, <1>3, <1>4

\* With clear_before_sync, whoever looks at a table that is not locked finds one
\* whole snapshot and what clients inserted after it: never a sync half done, and
\* never the rows of two, however many threads sync the table at once.
THEOREM TablesAreWhole == ASSUME ClearBeforeSync PROVE Spec => []WholeSnapshots
<1>1. LockHeld /\ WholeTables => WholeSnapshots
  <2>1. lock = NoThread /\ LockHeld => \A t : ~ BeingLoaded(t)
    BY Constants DEF LockHeld, Holding, BeingLoaded
  <2>. QED
    BY <2>1 DEF WholeTables, WholeSnapshots
<1>2. TypeOK /\ LockHeld /\ Loading /\ WholeTables /\ [Next]_vars =>
        TypeOK' /\ LockHeld' /\ Loading' /\ WholeTables'
  BY NextTypes, LockStep, LoadingStep, WholeStep
<1>. QED
  BY <1>1, <1>2, InitTypes, InitSettled, PTL DEF Spec

\* With clear_before_sync, and until a client writes, a status without error and
\* without a sync under way counts the rows the table really has.
THEOREM StatusIsTrue == ASSUME ClearBeforeSync PROVE Spec => []QuietStatusIsTrue
<1>1. LockHeld /\ TrueStatus => QuietStatusIsTrue
  <2>1. lock = NoThread /\ LockHeld => \A t : ~ BeingLoaded(t)
    BY Constants DEF LockHeld, Holding, BeingLoaded
  <2>. QED
    BY <2>1 DEF TrueStatus, QuietStatusIsTrue
<1>2. TypeOK /\ LockHeld /\ Loading /\ TrueStatus /\ [Next]_vars =>
        TypeOK' /\ LockHeld' /\ Loading' /\ TrueStatus'
  BY NextTypes, LockStep, LoadingStep, StatusStep
<1>. QED
  BY <1>1, <1>2, InitTypes, InitSettled, PTL DEF Spec

-----------------------------------------------------------------------------
(* The atomic replacement of SyncContract.                                  *)

\* No thread holds a version the source has not had.
GotPast == \A th \in Thread : got[th] <= source[Target(th)]

LEMMA GotStep == TypeOK /\ GotPast /\ [Next]_vars => GotPast'
<1>. SUFFICES ASSUME TypeOK, GotPast, [Next]_vars PROVE GotPast'
  OBVIOUS
<1>. USE Constants
<1>1. ASSUME UNCHANGED <<source, got, at>> PROVE GotPast'
  BY <1>1 DEF GotPast, Target
<1>2. ASSUME NEW th \in Thread, Return(th), UNCHANGED source PROVE GotPast'
  <2>. SUFFICES ASSUME NEW o \in Thread PROVE got'[o] <= source'[Target(o)']
    BY DEF GotPast
  <2>1. CASE o = th
    <3>1. Target(o)' \in Table /\ source' \in [Table -> Version]
      BY NextTypes, Targets DEF TypeOK, Target
    <3>2. source'[Target(o)'] \in Nat
      BY <3>1
    <3>. QED
      BY <1>2, <2>1, <3>2, AfterReturn
  <2>2. CASE o # th
    BY <1>2, <2>2, AfterReturn DEF GotPast
  <2>. QED
    BY <2>1, <2>2
<1>3. ASSUME NEW th \in Thread, SyncTable(th) PROVE GotPast'
  <2>1. CASE Fetch(th)
    <3>1. \A o \in Thread : Target(o)' = Target(o)
      BY <2>1 DEF Fetch, Target
    <3>2. source[Target(th)] \in Nat
      BY Targets DEF TypeOK
    <3>3. got' = [got EXCEPT ![th] = source[Target(th)]] /\ source' = source
      BY <2>1 DEF Fetch
    <3>4. \A o \in Thread : got'[o] = IF o = th THEN source[Target(th)] ELSE got[o]
      BY <3>3 DEF TypeOK
    <3>. QED
      BY <3>1, <3>2, <3>3, <3>4 DEF GotPast
  <2>. QED
    BY <1>1, <1>2, <1>3, <2>1
       DEF SyncTable, Mark, FetchFails, ReportFailure, Lock, LockPoisoned, Recreate,
           ReportMissing, InsertRow, ReportSuccess, CountAndUnlock
<1>4. ASSUME NEW t \in Table, Change(t) PROVE GotPast'
  <2>1. \A x \in Table : source[x] \in Nat /\ source'[x] \in {source[x], source[x] + 1}
    BY <1>4 DEF Change, TypeOK
  <2>2. \A o \in Thread : Target(o)' = Target(o) /\ got'[o] = got[o] /\ got[o] \in Nat /\ Target(o) \in Table
    BY <1>4, Targets DEF Change, work, Target, TypeOK
  <2>. QED
    BY <2>1, <2>2 DEF GotPast
<1>. QED
  BY <1>1, <1>3, <1>4
     DEF Next, LoopStep, Trigger, Start, Stop, ClientWrite, ClientPanics, vars, work

LEMMA VisibleKept ==
  ASSUME UNCHANGED <<tables, lock>>,
         \A o \in Thread : lock = o =>
           /\ pc'[o] \in {"insert", "count"} <=> pc[o] \in {"insert", "count"}
           /\ Target(o)' = Target(o) /\ got'[o] = got[o]
  PROVE  Visible' = Visible
  BY DEF Visible

\* What the table looks like to nobody does not matter.
LEMMA VisibleLoading ==
  ASSUME TypeOK, LockHeld, NEW th \in Thread, lock = th, pc[th] \in {"insert", "count"}
  PROVE  Visible = [tables EXCEPT ![Target(th)] = Snapshot[Target(th)][got[th]]]
  BY DEF Visible

LEMMA VisibleUnlocked ==
  ASSUME lock = NoThread \/ \E th \in Thread : lock = th /\ pc[th] \notin {"insert", "count"}
  PROVE  Visible = tables
  BY Constants DEF Visible

LEMMA ServesStep ==
  ASSUME ClearBeforeSync, TypeOK, LockHeld, Loading, GotPast, [Next]_vars
  PROVE  [Readers!Next]_<<source, Visible>>
<1>. USE Constants
<1>1. ASSUME NEW th \in Thread, SyncTable(th)
      PROVE  UNCHANGED <<source, Visible>> \/ \E t \in Table : Readers!Sync(t)
  <2>1. ASSUME NEW step, Goto(th, step), UNCHANGED <<tables, lock, at>>,
               pc[th] \notin {"insert", "count"} /\ step \notin {"insert", "count"},
               \A o \in Thread : o # th => got'[o] = got[o], got'[th] = got[th] \/ lock # th
        PROVE  Visible' = Visible
    BY <2>1, AfterGoto, VisibleKept DEF Target
  <2>2. CASE Mark(th) \/ FetchFails(th) \/ LockPoisoned(th)
    BY <2>1, <2>2 DEF Mark, FetchFails, LockPoisoned
  <2>3. CASE Fetch(th)
    <3>1. lock # th
      BY <2>3 DEF Fetch, LockHeld, Holding
    <3>. QED
      BY <2>1, <2>3, <3>1 DEF Fetch, TypeOK
  <2>4. CASE ReportFailure(th)
    <3>1. lock # th /\ UNCHANGED <<tables, lock, source>>
      BY <2>4 DEF ReportFailure, LockHeld, Holding
    <3>2. Visible' = Visible
      BY <2>4, <3>1, AfterReturn, VisibleKept DEF ReportFailure
    <3>. QED
      BY <3>1, <3>2
  <2>5. CASE Lock(th)
    <3>1. Visible = tables
      BY <2>5, VisibleUnlocked DEF Lock
    <3>2. lock' = th /\ pc'[th] = "recreate"
      BY <2>5, AfterGoto DEF Lock
    <3>3. Visible' = tables'
      BY <3>2 DEF Visible
    <3>. QED
      BY <2>5, <3>1, <3>3 DEF Lock
  <2>6. CASE Recreate(th)
    <3>. DEFINE t == Target(th)
    <3>1. lock = th /\ pc[th] = "recreate" /\ UNCHANGED <<lock, source, got>> /\ t' = t
      BY <2>6 DEF Recreate, LockHeld, Holding, Target
    <3>2. Visible = tables
      BY <3>1, VisibleUnlocked
    <3>3. tables' = [x \in DOMAIN tables \cup {t} |-> IF x = t THEN <<>> ELSE tables[x]]
      BY <2>6 DEF Recreate
    <3>4. pc'[th] = "insert"
      BY <2>6, <3>3, AfterGoto DEF Recreate
    <3>5. Visible' = [tables' EXCEPT ![t] = Snapshot[t][got[th]]]
      BY <3>1, <3>4 DEF Visible
    <3>6. Visible' = [x \in DOMAIN Visible \cup {t} |->
                        IF x = t THEN Snapshot[t][got[th]] ELSE Visible[x]]
      BY <3>2, <3>3, <3>5
    <3>7. t \in Table /\ got[th] \in 0..source[t]
      <4>1. t \in Table /\ got[th] \in Nat /\ source[t] \in Nat
        BY Targets DEF TypeOK
      <4>. QED
        BY <4>1 DEF GotPast
    <3>. QED
      BY <3>1, <3>6, <3>7 DEF Readers!Sync
  <2>7. CASE ReportMissing(th)
    BY <2>7 DEF ReportMissing, Loading, LoadingOf
  <2>8. CASE InsertRow(th)
    <3>. DEFINE t == Target(th)
    <3>1. lock = th /\ pc[th] = "insert" /\ UNCHANGED <<lock, source, pc, got>> /\ t' = t
      BY <2>8 DEF InsertRow, LockHeld, Holding, Target
    <3>2. Visible = [tables EXCEPT ![t] = Snapshot[t][got[th]]]
      BY <3>1 DEF Visible
    <3>3. Visible' = [tables' EXCEPT ![t] = Snapshot[t][got[th]]]
      BY <3>1 DEF Visible
    <3>4. tables' = tables \/ tables' = [tables EXCEPT ![t] = Append(@, got[th])]
      BY <2>8 DEF InsertRow
    <3>5. [tables' EXCEPT ![t] = Snapshot[t][got[th]]] = [tables EXCEPT ![t] = Snapshot[t][got[th]]]
      BY <3>4, TablesTyped
    <3>. QED
      BY <3>1, <3>2, <3>3, <3>5
  <2>9. CASE ReportSuccess(th)
    <3>1. pc[th] = "insert" /\ pc'[th] = "count" /\ UNCHANGED <<tables, lock, source, at, got>>
          /\ \A o \in Thread : o # th => pc'[o] = pc[o]
      BY <2>9, AfterGoto DEF ReportSuccess
    <3>2. Visible' = Visible
      BY <3>1, VisibleKept DEF Target
    <3>. QED
      BY <3>1, <3>2
  <2>10. CASE CountAndUnlock(th)
    <3>. DEFINE t == Target(th)
    <3>1. lock = th /\ pc[th] = "count" /\ lock' = NoThread /\ UNCHANGED <<tables, source>>
      BY <2>10 DEF CountAndUnlock, LockHeld, Holding
    <3>2. Visible = [tables EXCEPT ![t] = Snapshot[t][got[th]]]
      BY <3>1 DEF Visible
    <3>3. t \in DOMAIN tables /\ tables[t] = Snapshot[t][got[th]]
      <4>1. t \in DOMAIN tables /\ tables[t] = Loaded(t, got[th], Size[got[th]])
        BY <3>1 DEF Loading, LoadingOf
      <4>2. t \in Table /\ got[th] \in Version /\ 0 \in Nat
        BY Targets DEF TypeOK
      <4>. QED
        BY <4>1, <4>2, LoadedRows
    <3>4. Visible = tables
      BY <3>2, <3>3, TablesTyped
    <3>5. Visible' = tables'
      BY <3>1 DEF Visible
    <3>. QED
      BY <3>1, <3>4, <3>5
  <2>. QED
    BY <1>1, <2>2, <2>3, <2>4, <2>5, <2>6, <2>7, <2>8, <2>9, <2>10
       DEF SyncTable, Mark, FetchFails, LockPoisoned, Fetch
<1>2. ASSUME NEW th \in Thread, NEW step, Goto(th, step), UNCHANGED <<tables, lock, at, got>>,
             pc[th] \notin Holding, step \notin Holding
      PROVE  Visible' = Visible
  BY <1>2, AfterGoto, VisibleKept DEF Target, Holding
<1>3. ASSUME NEW b \in Loops, LoopStep(b) PROVE UNCHANGED <<source, Visible>>
  BY <1>2, <1>3 DEF LoopStep, Thread, Holding
<1>4. ASSUME NEW h \in Handlers, NEW body \in Asks, Trigger(h, body) PROVE UNCHANGED <<source, Visible>>
  BY <1>2, <1>4 DEF Trigger, Thread, Holding
<1>5. ASSUME UNCHANGED <<tables, lock, work>> PROVE Visible' = Visible
  BY <1>5, VisibleKept DEF work, Target
<1>6. CASE Start
  BY <1>2, <1>6, VisibleKept DEF Start, Thread, Holding, Target
<1>7. CASE Stop \/ ClientPanics \/ UNCHANGED vars
  BY <1>5, <1>7 DEF Stop, ClientPanics, vars
<1>8. ASSUME NEW t \in Table, Change(t) PROVE Readers!Change(t)
  BY <1>5, <1>8 DEF Change, Readers!Change
<1>9. ASSUME NEW t \in Table, ClientWrite(t)
      PROVE  Readers!ClientInsert(t) \/ Readers!ClientDrop(t) \/ Readers!ClientCreate(t)
  <2>1. Visible = tables /\ Visible' = tables' /\ source' = source
    BY <1>9 DEF ClientWrite, Visible
  <2>2. CASE ClientInsert(t)
    BY <2>1, <2>2 DEF ClientInsert, Readers!ClientInsert, ClientRow, Readers!ClientRow
  <2>3. CASE ClientDrop(t)
    BY <2>1, <2>3 DEF ClientDrop, Readers!ClientDrop, Restrict, Readers!Restrict
  <2>4. CASE ClientCreate(t)
    BY <2>1, <2>4 DEF ClientCreate, Readers!ClientCreate
  <2>. QED
    BY <1>9, <2>2, <2>3, <2>4 DEF ClientWrite
<1>. QED
  BY <1>1, <1>3, <1>4, <1>6, <1>7, <1>8, <1>9, Zenon DEF Next, Readers!Next

\* With clear_before_sync, the steps of any number of overlapping syncs serve
\* readers as if each replaced its table at once by a snapshot the source has had.
THEOREM SyncServesReaders == ASSUME ClearBeforeSync PROVE Spec => ServesReaders
<1>1. Init => Readers!Init /\ GotPast
  <2>. SUFFICES ASSUME Init PROVE Readers!Init /\ GotPast
    OBVIOUS
  <2>1. Visible = tables
    BY Constants DEF Init, Visible
  <2>2. GotPast
    BY InitTypes, Targets DEF Init, GotPast
  <2>. QED
    BY <2>1, <2>2 DEF Init, Readers!Init
<1>2. TypeOK /\ LockHeld /\ Loading /\ GotPast /\ [Next]_vars =>
        /\ TypeOK' /\ LockHeld' /\ Loading' /\ GotPast'
        /\ [Readers!Next]_<<source, Visible>>
  BY NextTypes, LockStep, LoadingStep, GotStep, ServesStep
<1>. QED
  BY <1>1, <1>2, InitTypes, InitSettled, PTL DEF Spec, ServesReaders, Readers!Spec, Readers!vars

-----------------------------------------------------------------------------
(* Without clear_before_sync.                                               *)

\* Without clear_before_sync no sync takes a row away: only a client does.
THEOREM SyncsAppend == ASSUME ~ ClearBeforeSync PROVE Spec => SyncOnlyAppends
<1>1. ASSUME TypeOK, [Next]_vars, NEW t \in DOMAIN tables, budget'["client"] = budget["client"]
      PROVE  t \in DOMAIN tables' /\ IsPrefix(tables[t], tables'[t])
  <2>1. tables[t] \in Contents /\ tables = [x \in DOMAIN tables |-> tables[x]]
    BY <1>1, TablesTyped
  <2>2. CASE tables' = tables
    BY <2>1, <2>2 DEF IsPrefix, Contents
  <2>3. ASSUME NEW th \in Thread, InsertRow(th), tables' # tables PROVE t \in DOMAIN tables' /\ IsPrefix(tables[t], tables'[t])
    <3>1. tables' = [tables EXCEPT ![Target(th)] = Append(@, got[th])] /\ got[th] \in Version
      BY <1>1, <2>3 DEF InsertRow, TypeOK
    <3>2. t \in DOMAIN tables' /\ tables'[t] \in {tables[t], Append(tables[t], got[th])}
      BY <2>1, <3>1
    <3>3. IsPrefix(tables[t], tables[t])
      BY <2>1 DEF IsPrefix, Contents
    <3>4. IsPrefix(tables[t], Append(tables[t], got[th]))
      BY <2>1, <3>1 DEF IsPrefix, Contents
    <3>. QED
      BY <3>2, <3>3, <3>4
  <2>4. ASSUME NEW x \in Table, ClientWrite(x) PROVE FALSE
    BY <1>1, <2>4 DEF ClientWrite, Spend, TypeOK, Event
  <2>5. ASSUME NEW th \in Thread, SyncTable(th), ~ InsertRow(th) PROVE tables' = tables
    BY <2>5
       DEF SyncTable, Mark, Fetch, FetchFails, ReportFailure, Lock, LockPoisoned, Recreate,
           ReportMissing, ReportSuccess, CountAndUnlock
  <2>. QED
    BY <1>1, <2>2, <2>3, <2>4, <2>5
       DEF Next, LoopStep, Trigger, Start, Stop, Change, ClientPanics, vars
<1>2. TypeOK /\ [Next]_vars =>
        [\A t \in DOMAIN tables : budget'["client"] = budget["client"] =>
           t \in DOMAIN tables' /\ IsPrefix(tables[t], tables'[t])]_vars
  BY <1>1
<1>. QED
  BY <1>2, InitTypes, NextTypes, PTL DEF Spec, SyncOnlyAppends

-----------------------------------------------------------------------------
(* How many background threads there are.                                   *)

\* Until somebody stops it: running is set while there is one, and there is one.
RunningTells ==
  /\ budget["stop"] <= Budget["stop"]
  /\ budget["stop"] = Budget["stop"] =>
       OneBackgroundThread /\ \A b \in Loops : pc[b] # "idle" => running

LEMMA RunningStep == TypeOK /\ RunningTells /\ [Next]_vars => RunningTells'
<1>. SUFFICES ASSUME TypeOK, RunningTells, [Next]_vars PROVE RunningTells'
  OBVIOUS
<1>1. ASSUME UNCHANGED running, budget'["stop"] = budget["stop"],
             \A b \in Loops : pc[b] = "idle" => pc'[b] = "idle"
      PROVE  RunningTells'
  BY <1>1 DEF RunningTells, OneBackgroundThread
<1>2. ASSUME NEW event \in Event \ {"stop"}, Spend(event) PROVE budget'["stop"] = budget["stop"]
  BY <1>2 DEF Spend, TypeOK, Event
<1>3. ASSUME NEW th \in Thread, NEW step, Goto(th, step), pc[th] # "idle"
      PROVE  \A b \in Loops : pc[b] = "idle" => pc'[b] = "idle"
  BY <1>3, AfterGoto DEF Thread
<1>4. ASSUME NEW th \in Thread, Return(th), pc[th] # "idle"
      PROVE  \A b \in Loops : pc[b] = "idle" => pc'[b] = "idle"
  BY <1>4, AfterReturn DEF Thread
<1>5. ASSUME NEW th \in Thread, SyncTable(th) PROVE RunningTells'
  <2>1. CASE Mark(th) \/ Fetch(th) \/ Lock(th) \/ LockPoisoned(th) \/ Recreate(th) \/ ReportSuccess(th)
    BY <1>1, <1>3, <2>1 DEF Mark, Fetch, Lock, LockPoisoned, Recreate, ReportSuccess
  <2>2. CASE ReportFailure(th) \/ ReportMissing(th) \/ CountAndUnlock(th)
    BY <1>1, <1>4, <2>2 DEF ReportFailure, ReportMissing, CountAndUnlock
  <2>3. CASE FetchFails(th)
    BY <1>1, <1>2, <1>3, <2>3 DEF FetchFails, Event
  <2>4. CASE InsertRow(th)
    BY <1>1, <2>4 DEF InsertRow
  <2>. QED
    BY <1>5, <2>1, <2>2, <2>3, <2>4 DEF SyncTable
<1>6. ASSUME NEW b \in Loops, LoopStep(b) PROVE RunningTells'
  BY <1>1, <1>3, <1>6 DEF LoopStep, Thread
<1>7. ASSUME NEW h \in Handlers, NEW body \in Asks, Trigger(h, body) PROVE RunningTells'
  <2>1. \A b \in Loops : b # h
    BY SyncAssumption
  <2>2. \A b \in Loops : pc'[b] = pc[b]
    BY <1>7, <2>1, AfterGoto DEF Trigger, Thread
  <2>. QED
    BY <1>1, <1>2, <1>7, <2>2 DEF Trigger, Event
<1>8. CASE Start
  <2>1. budget'["stop"] = budget["stop"]
    BY <1>2, <1>8 DEF Start, Event
  <2>2. CASE UNCHANGED <<running, pc>>
    BY <1>1, <2>1, <2>2
  <2>3. ASSUME ~ running, running' = TRUE, NEW b \in Loops, pc[b] = "idle", Goto(b, "mark")
        PROVE  RunningTells'
    <3>1. \A c \in Loops : c # b => pc'[c] = pc[c]
      BY <2>3, AfterGoto DEF Thread
    <3>. QED
      BY <2>1, <2>3, <3>1 DEF RunningTells, OneBackgroundThread
  <2>. QED
    BY <1>8, <2>2, <2>3 DEF Start
<1>9. CASE Stop
  <2>1. budget["stop"] \in Nat /\ Budget["stop"] \in Nat /\ budget'["stop"] = budget["stop"] - 1
    BY <1>9, Constants DEF Stop, Spend, TypeOK, Event
  <2>. QED
    BY <2>1 DEF RunningTells
<1>10. CASE ClientPanics
  BY <1>1, <1>2, <1>10 DEF ClientPanics, work, Event
<1>11. ASSUME NEW t \in Table, ClientWrite(t) PROVE RunningTells'
  BY <1>1, <1>2, <1>11 DEF ClientWrite, work, Event
<1>. QED
  BY <1>1, <1>5, <1>6, <1>7, <1>8, <1>9, <1>10, <1>11 DEF Next, Change, vars, work

\* However often it is started, there is one background thread at most, until it
\* is stopped for the first time.
THEOREM OneThread == Spec => []OneThreadUntilStopped
<1>1. Init => RunningTells
  BY Constants DEF Init, RunningTells, OneBackgroundThread, Event, Thread
<1>2. RunningTells => OneThreadUntilStopped
  BY DEF RunningTells, OneThreadUntilStopped
<1>. QED
  BY <1>1, <1>2, InitTypes, NextTypes, RunningStep, PTL DEF Spec

-----------------------------------------------------------------------------
(* A background thread that syncs alone.                                    *)

Lone == budget["trigger"] = Budget["trigger"] /\ budget["stop"] = Budget["stop"]

OrderlyOf(th) ==
  /\ th \in Handlers => pc[th] = "idle"
  /\ pc[th] \in Answering \ {"dead"} => status[Target(th)].syncing
  /\ pc[th] \in {"lock", "recreate"} => got[th] >= Newest(Target(th))

Orderly ==
  /\ budget["trigger"] <= Budget["trigger"]
  /\ \A t \in Table : Newest(t) <= source[t]
  /\ Lone => \A th \in Thread : OrderlyOf(th)

LEMMA BudgetShrinks ==
  ASSUME TypeOK, [Next]_vars
  PROVE  /\ \A event \in Event : budget'[event] \in Nat /\ budget[event] \in Nat
                                 /\ budget'[event] <= budget[event]
         /\ \A h \in Handlers, body \in Asks : Trigger(h, body) => budget'["trigger"] < budget["trigger"]
<1>1. \A event \in Event : budget'[event] \in Nat /\ budget[event] \in Nat
  BY NextTypes DEF TypeOK
<1>2. ASSUME NEW spent \in Event, Spend(spent)
      PROVE  budget'[spent] < budget[spent] /\ \A event \in Event : budget'[event] <= budget[event]
  BY <1>1, <1>2 DEF Spend, TypeOK
<1>3. budget' = budget \/ \E spent \in Event : Spend(spent)
  BY DEF Next, SyncTable, Mark, Fetch, FetchFails, ReportFailure, Lock, LockPoisoned, Recreate,
         ReportMissing, InsertRow, ReportSuccess, CountAndUnlock, LoopStep, Trigger, Start, Stop,
         Change, ClientWrite, ClientPanics, vars, Event
<1>4. \A event \in Event : budget'[event] <= budget[event]
  BY <1>1, <1>2, <1>3
<1>5. \A h \in Handlers, body \in Asks : Trigger(h, body) => budget'["trigger"] < budget["trigger"]
  BY <1>2 DEF Trigger, Event
<1>. QED
  BY <1>1, <1>4, <1>5

LEMMA NewestStep ==
  ASSUME TypeOK, [Next]_vars, NEW t \in Table
  PROVE  \/ Newest(t)' \in {Newest(t), ClientRow}
         \/ \E th \in Thread : InsertRow(th) /\ t = Target(th) /\ Newest(t)' = got[th]
<1>1. CASE tables' = tables
  BY <1>1 DEF Newest
<1>2. ASSUME NEW row, NEW x \in DOMAIN tables, tables' = [tables EXCEPT ![x] = Append(@, row)],
             row \in Version \cup {ClientRow}
      PROVE  Newest(t)' = Newest(t) \/ (x = t /\ Newest(t)' = row)
  <2>1. CASE x = t
    <3>1. tables[t] \in Contents /\ t \in DOMAIN tables' /\ tables'[t] = Append(tables[t], row)
      BY <1>2, <2>1, TablesTyped
    <3>2. tables'[t] # <<>> /\ tables'[t][1] = IF tables[t] = <<>> THEN row ELSE tables[t][1]
      BY <1>2, <3>1 DEF Contents
    <3>. QED
      BY <1>2, <2>1, <3>1, <3>2 DEF Newest
  <2>2. CASE x # t
    BY <1>2, <2>2, TablesTyped DEF Newest
  <2>. QED
    BY <2>1, <2>2
<1>3. ASSUME NEW x, tables' = [y \in DOMAIN tables \cup {x} |-> IF y = x THEN <<>> ELSE tables[y]]
      PROVE  Newest(t)' \in {Newest(t), ClientRow}
  <2>1. CASE x = t
    <3>1. t \in DOMAIN tables' /\ tables'[t] = <<>>
      BY <1>3, <2>1
    <3>. QED
      BY <3>1 DEF Newest
  <2>2. CASE x # t
    <3>1. t \in DOMAIN tables' <=> t \in DOMAIN tables
      BY <1>3, <2>2
    <3>2. t \in DOMAIN tables => tables'[t] = tables[t]
      BY <1>3, <2>2
    <3>. QED
      BY <3>1, <3>2 DEF Newest
  <2>. QED
    BY <2>1, <2>2
<1>4. ASSUME NEW th \in Thread, Recreate(th) PROVE Newest(t)' \in {Newest(t), ClientRow}
  <2>1. tables' = tables \/
        tables' = [y \in DOMAIN tables \cup {Target(th)} |-> IF y = Target(th) THEN <<>> ELSE tables[y]]
    BY <1>4 DEF Recreate
  <2>. QED
    BY <1>1, <1>3, <2>1 DEF Newest
<1>5. ASSUME NEW th \in Thread, InsertRow(th)
      PROVE  Newest(t)' = Newest(t) \/ (Target(th) = t /\ Newest(t)' = got[th])
  <2>1. CASE tables' = [tables EXCEPT ![Target(th)] = Append(@, got[th])] /\ Target(th) \in DOMAIN tables
    <3>1. got[th] \in Version
      BY DEF TypeOK
    <3>. QED
      BY <1>2, <2>1, <3>1
  <2>2. CASE tables' = [tables EXCEPT ![Target(th)] = Append(@, got[th])] /\ Target(th) \notin DOMAIN tables
    BY <2>2, TablesTyped DEF Newest
  <2>. QED
    BY <1>1, <1>5, <2>1, <2>2 DEF InsertRow, Newest
<1>6. ASSUME NEW x \in Table, ClientWrite(x) PROVE Newest(t)' \in {Newest(t), ClientRow}
  <2>1. CASE ClientInsert(x)
    BY <1>2, <2>1 DEF ClientInsert
  <2>2. CASE ClientDrop(x)
    BY <2>2 DEF ClientDrop, Restrict, Newest
  <2>3. CASE ClientCreate(x)
    BY <1>3, <2>3 DEF ClientCreate
  <2>. QED
    BY <1>6, <2>1, <2>2, <2>3 DEF ClientWrite
<1>7. ASSUME NEW th \in Thread, SyncTable(th), ~ Recreate(th), ~ InsertRow(th) PROVE tables' = tables
  BY <1>7
     DEF SyncTable, Mark, Fetch, FetchFails, ReportFailure, Lock, LockPoisoned,
         ReportMissing, ReportSuccess, CountAndUnlock
<1>. QED
  BY <1>1, <1>4, <1>5, <1>6, <1>7
     DEF Next, LoopStep, Trigger, Start, Stop, Change, ClientPanics, vars

LEMMA NewestPastStep ==
  ASSUME TypeOK, GotPast, [Next]_vars, \A t \in Table : Newest(t) <= source[t]
  PROVE  \A t \in Table : Newest(t)' <= source'[t]
<1>. SUFFICES ASSUME NEW t \in Table PROVE Newest(t)' <= source'[t]
  OBVIOUS
<1>1. source[t] \in Nat /\ source'[t] \in Nat
  BY NextTypes, Constants DEF TypeOK
<1>2. source'[t] >= source[t]
  <2>1. source' = source \/ \E x \in Table : source' = [source EXCEPT ![x] = @ + 1]
    BY DEF Next, SyncTable, Mark, Fetch, FetchFails, ReportFailure, Lock, LockPoisoned, Recreate,
           ReportMissing, InsertRow, ReportSuccess, CountAndUnlock, LoopStep, Trigger, Start, Stop,
           Change, ClientWrite, ClientPanics, vars
  <2>2. ASSUME NEW x \in Table, source' = [source EXCEPT ![x] = @ + 1]
        PROVE  source'[t] \in {source[t], source[t] + 1}
    BY <2>2 DEF TypeOK
  <2>. QED
    BY <1>1, <2>1, <2>2
<1>3. Newest(t) \in Int
  <2>1. t \in DOMAIN tables => tables[t] \in Contents
    BY TablesTyped
  <2>2. t \in DOMAIN tables /\ tables[t] # <<>> => tables[t][1] \in Version \cup {ClientRow}
    <3>1. ASSUME NEW rows \in Contents, rows # <<>> PROVE rows[1] \in Version \cup {ClientRow}
      BY <3>1 DEF Contents
    <3>. QED
      BY <2>1, <3>1
  <2>3. Newest(t) \in Version \cup {ClientRow}
    BY <2>2 DEF Newest
  <2>4. \A v \in Version \cup {ClientRow} : v \in Int
    BY Constants DEF ClientRow
  <2>. QED
    BY <2>3, <2>4
<1>4. CASE Newest(t)' \in {Newest(t), ClientRow}
  BY <1>1, <1>2, <1>3, <1>4 DEF ClientRow
<1>5. ASSUME NEW th \in Thread, t = Target(th), Newest(t)' = got[th] PROVE Newest(t)' <= source'[t]
  <2>1. got[th] \in Nat /\ got[th] <= source[t]
    BY <1>5, Constants DEF TypeOK, GotPast
  <2>. QED
    BY <1>1, <1>2, <1>5, <2>1
<1>. QED
  BY <1>4, <1>5, NewestStep

LEMMA OrderlyStep ==
  TypeOK /\ GotPast /\ RunningTells /\ Orderly /\ [Next]_vars => Orderly'
<1>. SUFFICES ASSUME TypeOK, GotPast, RunningTells, Orderly, [Next]_vars PROVE Orderly'
  OBVIOUS
<1>1. budget'["trigger"] <= Budget["trigger"]
  BY BudgetShrinks, Constants DEF Orderly, Event
<1>2. \A t \in Table : Newest(t)' <= source'[t]
  BY NewestPastStep DEF Orderly
<1>. SUFFICES ASSUME Lone' PROVE \A th \in Thread : OrderlyOf(th)'
  BY <1>1, <1>2 DEF Orderly
<1>3. Lone /\ \A h \in Handlers, body \in Asks : ~ Trigger(h, body)
  BY BudgetShrinks, Constants DEF Lone, Event, Orderly, RunningTells
<1>4. \A th \in Thread : OrderlyOf(th)
  BY <1>3 DEF Orderly
<1>5. ASSUME NEW th \in Thread, NEW o \in Thread, pc[th] # "idle", o # th PROVE pc[o] = "idle"
  BY <1>3, <1>4, <1>5 DEF Lone, OrderlyOf, RunningTells, OneBackgroundThread, Thread
<1>6. ASSUME NEW th \in Thread, pc'[th] = "idle" PROVE OrderlyOf(th)'
  BY <1>6 DEF OrderlyOf, Answering
\* A step that leaves a thread alone, and its mark.
<1>7. ASSUME NEW th \in Thread, UNCHANGED <<pc[th], got[th], Target(th), status>>
      PROVE  OrderlyOf(th)'
  <2>1. got[th] \in Nat /\ Target(th) \in Table
    BY Targets, Constants DEF TypeOK
  <2>2. ASSUME pc[th] \in {"lock", "recreate"} PROVE got[th] >= Newest(Target(th))'
    <3>1. ~ \E o \in Thread : InsertRow(o) /\ Target(th) = Target(o) /\ Newest(Target(th))' = got[o]
      BY <1>5, <2>2 DEF InsertRow
    <3>2. \A t \in Table : t = Target(th) => Newest(t)' = Newest(Target(th))'
      BY <1>7 DEF Newest
    <3>3. Newest(Target(th))' \in {Newest(Target(th)), ClientRow}
      BY <2>1, <3>1, <3>2, NewestStep
    <3>. QED
      BY <1>4, <2>1, <2>2, <3>3 DEF OrderlyOf, ClientRow
  <2>. QED
    BY <1>4, <1>7, <2>2 DEF OrderlyOf
<1>8. ASSUME NEW th \in Thread, SyncTable(th), NEW o \in Thread PROVE OrderlyOf(o)'
  <2>1. pc[th] # "idle"
    BY <1>8 DEF SyncTable, Mark, Fetch, FetchFails, ReportFailure, Lock, LockPoisoned, Recreate,
                ReportMissing, InsertRow, ReportSuccess, CountAndUnlock
  <2>2. CASE o # th
    <3>1. pc'[o] = pc[o]
      BY <1>8, <2>2, AfterGoto, AfterReturn
         DEF SyncTable, Mark, Fetch, FetchFails, ReportFailure, Lock, LockPoisoned, Recreate,
             ReportMissing, InsertRow, ReportSuccess, CountAndUnlock
    <3>. QED
      BY <1>5, <1>6, <2>1, <2>2, <3>1
  <2>3. CASE o = th
    <3>0. th \notin Handlers
      BY <1>4, <2>1 DEF OrderlyOf
    <3>1. CASE Mark(th)
      BY <3>0, <3>1, <2>3, AfterGoto, Targets DEF Mark, OrderlyOf, Target, TypeOK, Answering
    <3>2. CASE Fetch(th)
      <4>1. pc'[th] = "lock" /\ got'[th] = source[Target(th)] /\ UNCHANGED <<at, tables, status>>
        BY <3>2, AfterGoto DEF Fetch, TypeOK
      <4>2. pc[th] = "fetch"
        BY <3>2 DEF Fetch
      <4>3. status[Target(th)].syncing
        BY <1>4, <4>2 DEF OrderlyOf, Answering
      <4>4. Newest(Target(th)) <= source[Target(th)]
        BY Targets DEF Orderly
      <4>5. Newest(Target(th))' = Newest(Target(th)) /\ Target(th)' = Target(th)
        BY <4>1 DEF Newest, Target
      <4>6. source[Target(th)] \in Nat
        BY Targets, Constants DEF TypeOK
      <4>7. got'[th] >= Newest(Target(th))'
        BY <4>1, <4>4, <4>5, <4>6
      <4>. QED
        BY <2>3, <3>0, <4>1, <4>3, <4>5, <4>7 DEF OrderlyOf
    <3>3. CASE FetchFails(th) \/ LockPoisoned(th) \/ Recreate(th)
      BY <1>4, <3>0, <3>3, <2>3, AfterGoto
         DEF FetchFails, LockPoisoned, Recreate, OrderlyOf, Target, Answering
    <3>4. CASE Lock(th)
      BY <1>4, <3>0, <3>4, <2>3, AfterGoto DEF Lock, OrderlyOf, Target, Answering, Newest
    <3>5. CASE ReportFailure(th) \/ ReportMissing(th) \/ CountAndUnlock(th)
      BY <3>0, <3>5, <2>3, AfterReturn
         DEF ReportFailure, ReportMissing, CountAndUnlock, OrderlyOf, Answering
    <3>6. CASE InsertRow(th)
      BY <1>4, <3>0, <3>6, <2>3 DEF InsertRow, OrderlyOf, Target, Answering
    <3>7. CASE ReportSuccess(th)
      BY <3>0, <3>7, <2>3, AfterGoto DEF ReportSuccess, OrderlyOf, Answering
    <3>. QED
      BY <1>8, <3>1, <3>2, <3>3, <3>4, <3>5, <3>6, <3>7 DEF SyncTable
  <2>. QED
    BY <2>2, <2>3
<1>9. ASSUME NEW b \in Loops, LoopStep(b), NEW o \in Thread PROVE OrderlyOf(o)'
  <2>1. CASE o = b
    <3>1. pc'[b] \in {"idle", "sleep", "recheck", "mark"}
      BY <1>9, AfterGoto DEF LoopStep, Thread
    <3>2. b \notin Handlers
      BY SyncAssumption
    <3>. QED
      BY <2>1, <3>1, <3>2 DEF OrderlyOf, Answering
  <2>2. CASE o # b
    BY <1>7, <1>9, <2>2, AfterGoto DEF LoopStep, Thread, Target
  <2>. QED
    BY <2>1, <2>2
<1>10. ASSUME Start, NEW o \in Thread PROVE OrderlyOf(o)'
  <2>1. CASE pc'[o] = pc[o]
    BY <1>7, <1>10, <2>1 DEF Start, Target
  <2>2. ASSUME NEW b \in Loops, Goto(b, "mark"), pc'[o] # pc[o] PROVE OrderlyOf(o)'
    <3>1. o = b /\ pc'[o] = "mark" /\ o \notin Handlers
      BY <2>2, AfterGoto, SyncAssumption DEF Thread
    <3>. QED
      BY <3>1 DEF OrderlyOf, Answering
  <2>. QED
    BY <1>10, <2>1, <2>2 DEF Start
<1>11. ASSUME NEW th \in Thread, UNCHANGED <<work, status>> PROVE OrderlyOf(th)'
  BY <1>7, <1>11 DEF work, Target
<1>. QED
  BY <1>3, <1>8, <1>9, <1>10, <1>11 DEF Next, Stop, Change, ClientWrite, ClientPanics, vars

\* As long as nobody triggers or stops, a table is marked all the while it is
\* synced, and no sync puts rows of an older version in the place of newer ones.
THEOREM LoneSyncOrder == Spec => []LoneSyncIsOrderly
<1>1. Init => GotPast /\ RunningTells /\ Orderly
  <2>. SUFFICES ASSUME Init PROVE GotPast /\ RunningTells /\ Orderly
    OBVIOUS
  <2>1. GotPast
    BY InitTypes, Targets DEF Init, GotPast
  <2>2. RunningTells
    BY Constants DEF Init, RunningTells, OneBackgroundThread, Event, Thread
  <2>3. Orderly
    BY Constants DEF Init, Orderly, OrderlyOf, Newest, ClientRow, Answering, Event, Thread
  <2>. QED
    BY <2>1, <2>2, <2>3
<1>2. TypeOK /\ Orderly => LoneSyncIsOrderly
  BY DEF Orderly, OrderlyOf, Lone, LoneSyncIsOrderly, InSync, Answering, TypeOK, Step
<1>. QED
  BY <1>1, <1>2, InitTypes, NextTypes, GotStep, RunningStep, OrderlyStep, PTL DEF Spec
=============================================================================
