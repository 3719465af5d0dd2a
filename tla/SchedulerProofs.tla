---------------------------- MODULE SchedulerProofs ----------------------------
(***************************************************************************)
(* Proofs about Scheduler, for any number of sources, tables, requests and *)
(* syncs and with any faults and restarts: type correctness, that the map  *)
(* and the cron table agree, that cron syncs only sources that exist, that *)
(* a sync-enabled source is scheduled, and what last_sync_at means.        *)
(***************************************************************************)
EXTENDS Scheduler, TLAPS

----------------------------------------------------------------------------
(* The inductive invariants *)

\* Entry ids are given out once, and an entry belongs to one source.
CronInv ==
  /\ \A s \in Sources : entries[s] <= lastEntry
  /\ \A s, u \in Sources : entries[s] = entries[u] /\ entries[s] # 0 => s = u
  /\ \A e \in cron : entries[e.source] = e.id
  /\ \A s \in Sources : entries[s] # 0 => [id |-> entries[s], source |-> s] \in cron

\* Requests come only to a serving process, and nothing is left to schedule then.
ProcessInv ==
  /\ proc # "up" => \A c \in Clients : pc[c] = "idle"
  /\ proc # "starting" => toSchedule = {}
  /\ \A s \in toSchedule : row[s] = "enabled"

\* A request that is going to schedule a source has its row, and one that is
\* going to delete a row leaves no entry behind and nobody who would add one.
LifecycleInv ==
  /\ \A s \in Sources : entries[s] # 0 => row[s] = "enabled" \/ s \in overtaken
  /\ \A c \in Clients : pc[c] = "schedule" =>
       row[source[c]] = "enabled" \/ source[c] \in overtaken
  /\ \A c \in Clients : pc[c] = "delete" =>
       /\ Known(source[c])
       /\ \/ entries[source[c]] = 0 /\ ~BeingCreated(source[c])
          \/ source[c] \in overtaken

\* What Start has not scheduled yet it still has to.
BootInv ==
  proc = "starting" =>
    \A s \in Sources : row[s] = "enabled" => entries[s] # 0 \/ s \in toSchedule

\* A run without an error has synced what it has visited.
RunInv ==
  \A r \in Runs :
    /\ step[r] = "list" => synced[r] = {} /\ ~firstErr[r]
    /\ step[r] = "idle" => synced[r] = {} /\ ~firstErr[r]
    /\ step[r] = "tables" /\ ~firstErr[r] => listed[r] \subseteq todo[r] \cup synced[r]

USE SchedulerAssumption DEF SchedulerAssumption

----------------------------------------------------------------------------
(* Types *)

DatabaseOK ==
  /\ row \in [Sources -> {"none", "enabled", "disabled", "deleted"}]
  /\ tables \in [Sources -> SUBSET Tables]
  /\ \A s \in Sources : tables[s] # {} => Exists(s)
  /\ lastSync \in [Sources -> {Never} \cup SUBSET Tables]

ScheduleOK ==
  /\ entries \in [Sources -> Nat]
  /\ cron \subseteq Entry
  /\ lastEntry \in Nat

RequestsOK ==
  /\ pc \in [Clients -> {"idle", "schedule", "delete"}]
  /\ source \in [Clients -> Sources \cup {None}]
  /\ \A c \in Clients : pc[c] # "idle" => source[c] \in Sources

SyncsOK ==
  /\ step \in [Runs -> {"idle", "list", "tables"}]
  /\ runSource \in [Runs -> Sources \cup {None}]
  /\ \A r \in Runs : step[r] # "idle" => runSource[r] \in Sources
  /\ ctx \in [Runs -> {"background", "request", "done"}]
  /\ listed \in [Runs -> SUBSET Tables]
  /\ todo \in [Runs -> SUBSET Tables]
  /\ synced \in [Runs -> SUBSET Tables]
  /\ firstErr \in [Runs -> BOOLEAN]

OthersOK ==
  /\ proc \in {"down", "starting", "up"}
  /\ toSchedule \subseteq Sources
  /\ overtaken \subseteq Sources
  /\ unfinished \subseteq Sources

LEMMA TypeParts ==
  /\ TypeOK <=> DatabaseOK /\ ScheduleOK /\ RequestsOK /\ SyncsOK /\ OthersOK
  /\ TypeOK' <=> DatabaseOK' /\ ScheduleOK' /\ RequestsOK' /\ SyncsOK' /\ OthersOK'
BY DEF TypeOK, DatabaseOK, ScheduleOK, RequestsOK, SyncsOK, OthersOK

LEMMA ScheduleType ==
  ASSUME ScheduleOK, NEW s \in Sources, ScheduleSource(s) \/ UnscheduleSource(s)
  PROVE  ScheduleOK'
BY DEF ScheduleOK, ScheduleSource, UnscheduleSource, Entry

LEMMA GotoType ==
  ASSUME RequestsOK, NEW c \in Clients, NEW s \in Sources,
         \/ \E label \in {"schedule", "delete"} : Goto(c, label, s)
         \/ Return(c)
  PROVE  RequestsOK'
BY DEF RequestsOK, Goto, Return

LEMMA EndRunType ==
  ASSUME SyncsOK, NEW r \in Runs, EndRun(r)
  PROVE  SyncsOK'
BY DEF SyncsOK, EndRun

\* The parts a step leaves alone keep their type.
LEMMA FrameType ==
  /\ DatabaseOK /\ UNCHANGED database => DatabaseOK'
  /\ ScheduleOK /\ UNCHANGED schedule => ScheduleOK'
  /\ RequestsOK /\ UNCHANGED requests => RequestsOK'
  /\ SyncsOK /\ UNCHANGED syncs => SyncsOK'
  /\ OthersOK /\ UNCHANGED <<process, history>> => OthersOK'
<1>1. DatabaseOK /\ UNCHANGED database => DatabaseOK'
  BY DEF DatabaseOK, database, Exists
<1>2. ScheduleOK /\ UNCHANGED schedule => ScheduleOK'
  BY DEF ScheduleOK, schedule
<1>3. RequestsOK /\ UNCHANGED requests => RequestsOK'
  BY DEF RequestsOK, requests
<1>4. SyncsOK /\ UNCHANGED syncs => SyncsOK'
  BY DEF SyncsOK, syncs
<1>5. OthersOK /\ UNCHANGED <<process, history>> => OthersOK'
  BY DEF OthersOK, process, history
<1>6. QED
  BY <1>1, <1>2, <1>3, <1>4, <1>5

LEMMA InitType == Init => TypeOK
<1> SUFFICES ASSUME Init PROVE TypeOK
  OBVIOUS
<1>1. DatabaseOK
  BY DEF Init, DatabaseOK
<1>2. ScheduleOK
  BY DEF Init, ScheduleOK
<1>3. RequestsOK
  BY DEF Init, RequestsOK
<1>4. SyncsOK
  BY DEF Init, SyncsOK
<1>5. OthersOK
  BY DEF Init, OthersOK
<1>6. QED
  BY <1>1, <1>2, <1>3, <1>4, <1>5, TypeParts

LEMMA ProcessType ==
  ASSUME TypeOK, Start \/ (\E s \in Sources : StartSource(s)) \/ Serve \/ Crash
  PROVE  TypeOK'
<1>0. DatabaseOK /\ ScheduleOK /\ RequestsOK /\ SyncsOK /\ OthersOK
  BY TypeParts
<1>1. CASE Start
  <2>1. OthersOK'
    BY <1>0, <1>1 DEF Start, OthersOK, history
  <2>2. QED
    BY <1>0, <1>1, <2>1, FrameType, TypeParts DEF Start
<1>2. ASSUME NEW s \in Sources, StartSource(s) PROVE TypeOK'
  <2>1. OthersOK'
    BY <1>0, <1>2 DEF StartSource, OthersOK, history
  <2>2. ScheduleOK'
    BY <1>0, <1>2, ScheduleType DEF StartSource
  <2>3. QED
    BY <1>0, <1>2, <2>1, <2>2, FrameType, TypeParts DEF StartSource
<1>3. CASE Serve
  <2>1. OthersOK'
    BY <1>0, <1>3 DEF Serve, OthersOK, history
  <2>2. QED
    BY <1>0, <1>3, <2>1, FrameType, TypeParts DEF Serve
<1>4. CASE Crash
  <2>1. ScheduleOK' /\ RequestsOK' /\ OthersOK'
    BY <1>4 DEF Crash, ScheduleOK, RequestsOK, OthersOK
  <2>2. SyncsOK'
    BY <1>4 DEF Crash, SyncsOK
  <2>3. QED
    BY <1>0, <1>4, <2>1, <2>2, FrameType, TypeParts DEF Crash
<1>5. QED
  BY <1>1, <1>2, <1>3, <1>4

LEMMA RequestType ==
  ASSUME TypeOK, NEW c \in Clients, Request(c)
  PROVE  TypeOK'
<1>0. DatabaseOK /\ ScheduleOK /\ RequestsOK /\ SyncsOK /\ OthersOK
  BY TypeParts
<1>1. ASSUME NEW s \in Sources, InsertSource(c, s) PROVE TypeOK'
  <2>1. RequestsOK'
    BY <1>0, <1>1, GotoType DEF InsertSource
  <2>2. DatabaseOK'
    BY <1>0, <1>1 DEF InsertSource, DatabaseOK, Exists
  <2>3. OthersOK'
    BY <1>0, <1>1 DEF InsertSource, OthersOK, process
  <2>4. QED
    BY <1>0, <1>1, <2>1, <2>2, <2>3, FrameType, TypeParts DEF InsertSource
<1>2. CASE ScheduleCreated(c)
  <2>1. source[c] \in Sources
    BY <1>0, <1>2 DEF ScheduleCreated, RequestsOK
  <2>2. RequestsOK' /\ ScheduleOK'
    BY <1>0, <1>2, <2>1, GotoType, ScheduleType DEF ScheduleCreated
  <2>3. QED
    BY <1>0, <1>2, <2>2, FrameType, TypeParts DEF ScheduleCreated
<1>3. ASSUME NEW s \in Sources, BeginDelete(c, s) PROVE TypeOK'
  <2>1. RequestsOK' /\ ScheduleOK'
    BY <1>0, <1>3, GotoType, ScheduleType DEF BeginDelete
  <2>2. OthersOK'
    BY <1>0, <1>3 DEF BeginDelete, OthersOK, process
  <2>3. QED
    BY <1>0, <1>3, <2>1, <2>2, FrameType, TypeParts DEF BeginDelete
<1>4. CASE DeleteRow(c)
  <2>1. source[c] \in Sources
    BY <1>0, <1>4 DEF DeleteRow, RequestsOK
  <2>2. RequestsOK'
    BY <1>0, <1>4, <2>1, GotoType DEF DeleteRow
  <2>3. DatabaseOK'
    BY <1>0, <1>4, <2>1 DEF DeleteRow, CascadeTables, DatabaseOK, Exists, database
  <2>4. OthersOK'
    BY <1>0, <1>4, <2>1 DEF DeleteRow, OthersOK, process
  <2>5. QED
    BY <1>0, <1>4, <2>2, <2>3, <2>4, FrameType, TypeParts DEF DeleteRow
<1>5. QED
  BY <1>1, <1>2, <1>3, <1>4 DEF Request

LEMMA SyncType ==
  ASSUME TypeOK, NEW r \in Runs, Sync(r)
  PROVE  TypeOK'
<1>0. DatabaseOK /\ ScheduleOK /\ RequestsOK /\ SyncsOK /\ OthersOK
  BY TypeParts
<1>f. ASSUME SyncsOK', UNCHANGED <<database, process, schedule, requests, history>>
      PROVE  TypeOK'
  BY <1>0, <1>f, FrameType, TypeParts
<1>1. ASSUME Fire(r) \/ AcceptSync(r) PROVE TypeOK'
  <2>1. PICK s \in Sources, context \in {"background", "request"} : BeginRun(r, s, context)
    BY <1>0, <1>1 DEF Fire, AcceptSync, ScheduleOK, Entry
  <2>2. SyncsOK'
    BY <1>0, <2>1 DEF BeginRun, SyncsOK
  <2>3. QED
    BY <1>f, <2>1, <2>2 DEF BeginRun
<1>2. CASE HandlerReturns(r)
  <2>1. SyncsOK'
    BY <1>0, <1>2 DEF HandlerReturns, SyncsOK
  <2>2. QED
    BY <1>2, <1>f, <2>1 DEF HandlerReturns
<1>3. CASE ListTables(r)
  <2>1. tables[runSource[r]] \subseteq Tables
    BY <1>0, <1>3 DEF ListTables, SyncsOK, DatabaseOK
  <2>2. CASE EndRun(r)
    BY <1>0, <1>3, <1>f, <2>2, EndRunType DEF ListTables
  <2>3. CASE ~EndRun(r)
    <3>1. SyncsOK'
      BY <1>0, <1>3, <2>1, <2>3 DEF ListTables, SyncsOK
    <3>2. QED
      BY <1>3, <1>f, <3>1 DEF ListTables
  <2>4. QED
    BY <2>2, <2>3
<1>4. ASSUME NEW t \in Tables, SyncTable(r, t) PROVE TypeOK'
  <2>1. SyncsOK'
    BY <1>0, <1>4 DEF SyncTable, FirstErr, SyncsOK
  <2>2. QED
    BY <1>4, <1>f, <2>1 DEF SyncTable
<1>5. CASE SyncSourceFails(r)
  BY <1>0, <1>5, <1>f, EndRunType DEF SyncSourceFails
<1>6. CASE UpdateSourceSyncTime(r)
  <2>1. DatabaseOK'
    BY <1>0, <1>6 DEF UpdateSourceSyncTime, DatabaseOK, SyncsOK, Exists
  <2>2. QED
    BY <1>0, <1>6, <2>1, EndRunType, FrameType, TypeParts DEF UpdateSourceSyncTime
<1>7. QED
  BY <1>1, <1>2, <1>3, <1>4, <1>5, <1>6 DEF Sync

LEMMA TypeStep == TypeOK /\ [Next]_vars => TypeOK'
<1> SUFFICES ASSUME TypeOK, [Next]_vars PROVE TypeOK'
  OBVIOUS
<1>0. DatabaseOK /\ ScheduleOK /\ RequestsOK /\ SyncsOK /\ OthersOK
  BY TypeParts
<1>1. ASSUME NEW s \in Sources, NEW t \in Tables, UpsertTable(s, t) PROVE TypeOK'
  <2>1. DatabaseOK'
    BY <1>0, <1>1 DEF UpsertTable, DatabaseOK, Exists
  <2>2. /\ UNCHANGED schedule /\ UNCHANGED requests /\ UNCHANGED syncs
        /\ UNCHANGED <<process, history>>
    BY <1>1 DEF UpsertTable
  <2>3. QED
    BY <1>0, <2>1, <2>2, FrameType, TypeParts
<1>2. CASE UNCHANGED vars
  <2>1. /\ UNCHANGED database /\ UNCHANGED schedule /\ UNCHANGED requests /\ UNCHANGED syncs
        /\ UNCHANGED <<process, history>>
    BY <1>2 DEF vars
  <2>2. QED
    BY <1>0, <2>1, FrameType, TypeParts
<1>3. QED
  BY <1>1, <1>2, ProcessType, RequestType, SyncType DEF Next

\* Every state a behaviour reaches has the types of TypeOK, the foreign key of
\* the catalog included.
THEOREM SchedulerTypeCorrect == Spec => []TypeOK
BY InitType, TypeStep, PTL DEF Spec

----------------------------------------------------------------------------
(* The map and the cron table *)

\* Only these steps change the schedule.
LEMMA ScheduleChanges ==
  ASSUME TypeOK, [Next]_vars
  PROVE  \/ UNCHANGED schedule
         \/ \E s \in Sources : ScheduleSource(s) \/ UnscheduleSource(s)
         \/ entries' = [s \in Sources |-> 0] /\ cron' = {} /\ lastEntry' = 0
<1>1. ASSUME NEW c \in Clients, ScheduleCreated(c)
      PROVE  \E s \in Sources : ScheduleSource(s)
  BY <1>1 DEF ScheduleCreated, TypeOK
<1>2. ASSUME NEW c \in Clients, Request(c)
      PROVE  \/ UNCHANGED schedule
             \/ \E s \in Sources : ScheduleSource(s) \/ UnscheduleSource(s)
  BY <1>1, <1>2 DEF Request, InsertSource, BeginDelete, DeleteRow
<1>3. ASSUME NEW r \in Runs, Sync(r) PROVE UNCHANGED schedule
  BY <1>3 DEF Sync, Fire, AcceptSync, BeginRun, HandlerReturns, ListTables, SyncTable,
              SyncSourceFails, UpdateSourceSyncTime
<1>4. ASSUME NEW s \in Sources, NEW t \in Tables, UpsertTable(s, t) PROVE UNCHANGED schedule
  BY <1>4 DEF UpsertTable
<1>5. CASE UNCHANGED vars
  BY <1>5 DEF vars
<1>6. CASE Start \/ Serve
  BY <1>6 DEF Start, Serve
<1>7. ASSUME NEW s \in Sources, StartSource(s) PROVE ScheduleSource(s)
  BY <1>7 DEF StartSource
<1>8. CASE Crash
  BY <1>8 DEF Crash
<1>9. QED
  BY <1>2, <1>3, <1>4, <1>5, <1>6, <1>7, <1>8 DEF Next

LEMMA CronScheduled ==
  ASSUME ScheduleOK, CronInv, NEW s \in Sources, ScheduleSource(s)
  PROVE  CronInv'
<1>1. \A u \in Sources : entries'[u] = IF u = s THEN lastEntry + 1 ELSE entries[u]
  BY DEF ScheduleSource, ScheduleOK
<1>2. \A u \in Sources : entries'[u] <= lastEntry'
  BY <1>1 DEF ScheduleSource, ScheduleOK, CronInv
<1>3. \A u, v \in Sources : entries'[u] = entries'[v] /\ entries'[u] # 0 => u = v
  BY <1>1 DEF ScheduleOK, CronInv
<1>4. ASSUME NEW e \in cron' PROVE entries'[e.source] = e.id
  <2>1. CASE e = [id |-> lastEntry + 1, source |-> s]
    BY <1>1, <2>1
  <2>2. CASE e \in cron /\ e.id # entries[s]
    <3>1. e.source \in Sources /\ entries[e.source] = e.id
      BY <2>2 DEF ScheduleOK, CronInv, Entry
    <3>2. QED
      BY <1>1, <2>2, <3>1
  <2>3. QED
    BY <1>4, <2>1, <2>2 DEF ScheduleSource
<1>5. ASSUME NEW u \in Sources, entries'[u] # 0
      PROVE  [id |-> entries'[u], source |-> u] \in cron'
  <2>1. CASE u = s
    BY <1>1, <2>1 DEF ScheduleSource
  <2>2. CASE u # s
    <3>1. entries'[u] = entries[u] /\ entries[u] # entries[s]
      BY <1>1, <1>5, <2>2 DEF CronInv
    <3>2. [id |-> entries[u], source |-> u] \in cron
      BY <1>5, <3>1 DEF CronInv
    <3>3. QED
      BY <3>1, <3>2 DEF ScheduleSource
  <2>3. QED
    BY <2>1, <2>2
<1>6. QED
  BY <1>2, <1>3, <1>4, <1>5 DEF CronInv

LEMMA CronUnscheduled ==
  ASSUME ScheduleOK, CronInv, NEW s \in Sources, UnscheduleSource(s)
  PROVE  CronInv'
<1>1. \A u \in Sources : entries'[u] = IF u = s THEN 0 ELSE entries[u]
  BY DEF UnscheduleSource, ScheduleOK
<1>2. \A u \in Sources : entries'[u] <= lastEntry'
  BY <1>1 DEF UnscheduleSource, ScheduleOK, CronInv
<1>3. \A u, v \in Sources : entries'[u] = entries'[v] /\ entries'[u] # 0 => u = v
  BY <1>1 DEF ScheduleOK, CronInv
<1>4. ASSUME NEW e \in cron' PROVE entries'[e.source] = e.id
  <2>1. e \in cron /\ e.id # entries[s]
    BY <1>4 DEF UnscheduleSource
  <2>2. e.source \in Sources /\ entries[e.source] = e.id
    BY <2>1 DEF ScheduleOK, CronInv, Entry
  <2>3. QED
    BY <1>1, <2>1, <2>2
<1>5. ASSUME NEW u \in Sources, entries'[u] # 0
      PROVE  [id |-> entries'[u], source |-> u] \in cron'
  <2>1. u # s /\ entries'[u] = entries[u] /\ entries[u] # entries[s]
    BY <1>1, <1>5 DEF CronInv
  <2>2. [id |-> entries[u], source |-> u] \in cron
    BY <1>5, <2>1 DEF CronInv
  <2>3. QED
    BY <2>1, <2>2 DEF UnscheduleSource
<1>6. QED
  BY <1>2, <1>3, <1>4, <1>5 DEF CronInv

LEMMA CronStep == TypeOK /\ CronInv /\ [Next]_vars => CronInv'
<1> SUFFICES ASSUME TypeOK, CronInv, [Next]_vars PROVE CronInv'
  OBVIOUS
<1>0. ScheduleOK
  BY TypeParts
<1>1. CASE UNCHANGED schedule
  BY <1>1 DEF schedule, CronInv
<1>2. CASE entries' = [s \in Sources |-> 0] /\ cron' = {} /\ lastEntry' = 0
  BY <1>2 DEF CronInv
<1>3. QED
  BY <1>0, <1>1, <1>2, ScheduleChanges, CronScheduled, CronUnscheduled

LEMMA CronAgrees == TypeOK /\ CronInv => EntriesMatchCron
<1> SUFFICES ASSUME TypeOK, CronInv, NEW s \in Sources
             PROVE  {e \in cron : e.source = s} =
                    IF entries[s] = 0 THEN {} ELSE {[id |-> entries[s], source |-> s]}
  BY DEF EntriesMatchCron
<1>1. ASSUME NEW e \in cron, e.source = s
      PROVE  entries[s] # 0 /\ e = [id |-> entries[s], source |-> s]
  <2>1. e \in Entry /\ entries[s] = e.id
    BY <1>1 DEF TypeOK, CronInv
  <2>2. QED
    BY <1>1, <2>1 DEF Entry
<1>2. entries[s] # 0 => [id |-> entries[s], source |-> s] \in cron
  BY DEF CronInv
<1>3. QED
  BY <1>1, <1>2

\* The map of the scheduler and the cron table agree, so no source is synced by
\* an entry that UnscheduleSource no longer finds, and none by two.
THEOREM MapMatchesCron == Spec => []EntriesMatchCron
<1>1. Init => CronInv
  BY DEF Init, CronInv
<1>2. QED
  BY <1>1, InitType, TypeStep, CronStep, CronAgrees, PTL DEF Spec

----------------------------------------------------------------------------
(* Requests and the life of a source *)

\* A run and Discover change neither rows nor requests nor the schedule.
LEMMA SyncFrame ==
  ASSUME NEW r \in Runs, Sync(r)
  PROVE  UNCHANGED <<row, proc, toSchedule, entries, cron, pc, source, overtaken, unfinished>>
<1>1. UNCHANGED <<row, process, schedule, requests, history>>
  <2>1. CASE Fire(r) \/ AcceptSync(r) \/ HandlerReturns(r)
    BY <2>1 DEF Fire, AcceptSync, BeginRun, HandlerReturns, database
  <2>2. CASE ListTables(r) \/ \E t \in Tables : SyncTable(r, t)
    BY <2>2 DEF ListTables, SyncTable, database
  <2>3. CASE SyncSourceFails(r) \/ UpdateSourceSyncTime(r)
    BY <2>3 DEF SyncSourceFails, UpdateSourceSyncTime, database
  <2>4. QED
    BY <2>1, <2>2, <2>3 DEF Sync
<1>2. QED
  BY <1>1 DEF process, schedule, requests, history

LEMMA CatalogFrame ==
  ASSUME NEW s \in Sources, NEW t \in Tables, UpsertTable(s, t)
  PROVE  UNCHANGED <<row, proc, toSchedule, entries, cron, pc, source, overtaken, unfinished>>
BY DEF UpsertTable, process, schedule, requests, history

LEMMA StutterFrame ==
  ASSUME UNCHANGED vars
  PROVE  UNCHANGED <<row, proc, toSchedule, entries, cron, pc, source, overtaken, unfinished>>
BY DEF vars, database, process, schedule, requests, history

LEMMA ProcessStep == TypeOK /\ ProcessInv /\ [Next]_vars => ProcessInv'
<1> SUFFICES ASSUME TypeOK, ProcessInv, [Next]_vars PROVE ProcessInv'
  OBVIOUS
<1>f. ASSUME UNCHANGED <<row, proc, toSchedule, entries, cron, pc, source, overtaken, unfinished>>
      PROVE  ProcessInv'
  BY <1>f DEF ProcessInv
<1>1. CASE Start
  BY <1>1 DEF Start, ProcessInv, TypeOK, database, requests
<1>2. ASSUME NEW s \in Sources, StartSource(s) PROVE ProcessInv'
  BY <1>2 DEF StartSource, ProcessInv, database, requests
<1>3. CASE Serve
  BY <1>3 DEF Serve, ProcessInv, database, requests
<1>4. CASE Crash
  BY <1>4 DEF Crash, ProcessInv
<1>5. ASSUME NEW c \in Clients, Request(c) PROVE ProcessInv'
  <2>1. proc = "up" /\ proc' = proc /\ toSchedule' = toSchedule
    BY <1>5 DEF Request, InsertSource, ScheduleCreated, BeginDelete, DeleteRow, Serving,
                process, ProcessInv
  <2>2. QED
    BY <2>1 DEF ProcessInv
<1>6. QED
  BY <1>f, <1>1, <1>2, <1>3, <1>4, <1>5, SyncFrame, CatalogFrame, StutterFrame DEF Next

LEMMA LifecycleStep ==
  TypeOK /\ ProcessInv /\ LifecycleInv /\ [Next]_vars => LifecycleInv'
<1> SUFFICES ASSUME TypeOK, ProcessInv, LifecycleInv, [Next]_vars PROVE LifecycleInv'
  OBVIOUS
<1>f. ASSUME UNCHANGED <<row, entries, pc, source, overtaken>> PROVE LifecycleInv'
  BY <1>f DEF LifecycleInv, BeingCreated, Known
<1>1. CASE Start \/ Serve
  BY <1>f, <1>1 DEF Start, Serve, database, schedule, requests, history
<1>2. ASSUME NEW s \in Sources, StartSource(s) PROVE LifecycleInv'
  <2>1. row[s] = "enabled" /\ \A c \in Clients : pc[c] = "idle"
    BY <1>2 DEF StartSource, ProcessInv
  <2>2. UNCHANGED <<row, pc, source, overtaken>>
    BY <1>2 DEF StartSource, database, requests, history
  <2>3. \A u \in Sources : u # s => entries'[u] = entries[u]
    BY <1>2 DEF StartSource, ScheduleSource, TypeOK
  <2>4. QED
    BY <2>1, <2>2, <2>3 DEF LifecycleInv
<1>3. CASE Crash
  BY <1>3 DEF Crash, LifecycleInv
<1>4. ASSUME NEW c \in Clients, NEW s \in Sources, InsertSource(c, s) PROVE LifecycleInv'
  <2>1. UNCHANGED <<entries, overtaken>> /\ row[s] = "none"
    BY <1>4 DEF InsertSource, schedule
  <2>2. \A u \in Sources : u # s => row'[u] = row[u]
    BY <1>4 DEF InsertSource, TypeOK
  <2>3. \/ pc'[c] = "schedule" /\ source'[c] = s /\ row'[s] = "enabled"
        \/ pc'[c] = "idle"
    BY <1>4 DEF InsertSource, Goto, Return, Applied, TypeOK
  <2>4. \A d \in Clients : d # c => pc'[d] = pc[d] /\ source'[d] = source[d]
    BY <1>4 DEF InsertSource, Goto, Return, TypeOK
  <2>5. ASSUME NEW u \in Sources, entries'[u] # 0 PROVE row'[u] = "enabled" \/ u \in overtaken'
    BY <2>1, <2>2, <2>5, <1>4 DEF LifecycleInv, InsertSource, TypeOK, Applied
  <2>6. ASSUME NEW d \in Clients, pc'[d] = "schedule"
        PROVE  row'[source'[d]] = "enabled" \/ source'[d] \in overtaken'
    <3>1. CASE d = c
      BY <2>3, <2>6, <3>1
    <3>2. CASE d # c
      <4>1. source[d] \in Sources /\ pc[d] = "schedule" /\ source'[d] = source[d]
        BY <2>4, <2>6, <3>2 DEF TypeOK
      <4>2. row[source[d]] = "enabled" \/ source[d] \in overtaken
        BY <4>1 DEF LifecycleInv
      <4>3. QED
        BY <2>1, <2>2, <4>1, <4>2
    <3>3. QED
      BY <3>1, <3>2
  <2>7. ASSUME NEW d \in Clients, pc'[d] = "delete"
        PROVE  /\ Known(source[d])' 
               /\ \/ entries'[source'[d]] = 0 /\ ~BeingCreated(source[d])'
                  \/ source'[d] \in overtaken'
    <3>1. d # c /\ pc[d] = "delete" /\ source'[d] = source[d] /\ source[d] \in Sources
      BY <2>3, <2>4, <2>7 DEF TypeOK
    <3>2. /\ row[source[d]] # "none"
          /\ \/ entries[source[d]] = 0 /\ ~BeingCreated(source[d])
             \/ source[d] \in overtaken
      BY <3>1 DEF LifecycleInv, Known
    <3>3. row'[source[d]] # "none"
      BY <2>1, <2>2, <3>1, <3>2
    <3>4. ~BeingCreated(source[d]) => ~BeingCreated(source[d])'
      BY <2>1, <2>3, <2>4, <3>1, <3>2 DEF BeingCreated
    <3>5. QED
      BY <2>1, <3>1, <3>2, <3>3, <3>4 DEF Known
  <2>8. QED
    BY <2>5, <2>6, <2>7 DEF LifecycleInv
<1>5. ASSUME NEW c \in Clients, ScheduleCreated(c) PROVE LifecycleInv'
  <2>1. /\ source[c] \in Sources /\ pc[c] = "schedule"
        /\ UNCHANGED <<row, overtaken>>
        /\ row[source[c]] = "enabled" \/ source[c] \in overtaken
    BY <1>5 DEF ScheduleCreated, database, history, TypeOK, LifecycleInv
  <2>2. \A u \in Sources : u # source[c] => entries'[u] = entries[u]
    BY <1>5, <2>1 DEF ScheduleCreated, ScheduleSource, TypeOK
  <2>3. pc'[c] = "idle" /\ \A d \in Clients : d # c => pc'[d] = pc[d] /\ source'[d] = source[d]
    BY <1>5 DEF ScheduleCreated, Return, Goto, TypeOK
  <2>4. ASSUME NEW u \in Sources, entries'[u] # 0 PROVE row'[u] = "enabled" \/ u \in overtaken'
    BY <2>1, <2>2, <2>4 DEF LifecycleInv
  <2>5. ASSUME NEW d \in Clients, pc'[d] = "schedule"
        PROVE  row'[source'[d]] = "enabled" \/ source'[d] \in overtaken'
    BY <2>1, <2>3, <2>5 DEF LifecycleInv
  <2>6. ASSUME NEW d \in Clients, pc'[d] = "delete"
        PROVE  /\ Known(source[d])'
               /\ \/ entries'[source'[d]] = 0 /\ ~BeingCreated(source[d])'
                  \/ source'[d] \in overtaken'
    <3>1. d # c /\ pc[d] = "delete" /\ source'[d] = source[d] /\ source[d] \in Sources
      BY <2>3, <2>6 DEF TypeOK
    <3>2. /\ row[source[d]] # "none"
          /\ \/ entries[source[d]] = 0 /\ ~BeingCreated(source[d])
             \/ source[d] \in overtaken
      BY <3>1 DEF LifecycleInv, Known
    <3>3. ~BeingCreated(source[d]) => source[d] # source[c] /\ ~BeingCreated(source[d])'
      BY <2>1, <2>3, <3>1 DEF BeingCreated
    <3>4. QED
      BY <2>1, <2>2, <3>1, <3>2, <3>3 DEF Known
  <2>7. QED
    BY <2>4, <2>5, <2>6 DEF LifecycleInv
<1>6. ASSUME NEW c \in Clients, NEW s \in Sources, BeginDelete(c, s) PROVE LifecycleInv'
  <2>1. /\ row' = row /\ row[s] # "none"
        /\ overtaken' = IF BeingCreated(s) THEN overtaken \cup {s} ELSE overtaken
    BY <1>6 DEF BeginDelete, database, Known
  <2>2. entries'[s] = 0 /\ \A u \in Sources : u # s => entries'[u] = entries[u]
    BY <1>6 DEF BeginDelete, UnscheduleSource, TypeOK
  <2>3. /\ pc[c] = "idle" /\ pc'[c] = "delete" /\ source'[c] = s
        /\ \A d \in Clients : d # c => pc'[d] = pc[d] /\ source'[d] = source[d]
    BY <1>6 DEF BeginDelete, Goto, TypeOK
  <2>4. ASSUME NEW u \in Sources, entries'[u] # 0 PROVE row'[u] = "enabled" \/ u \in overtaken'
    BY <2>1, <2>2, <2>4 DEF LifecycleInv
  <2>5. ASSUME NEW d \in Clients, pc'[d] = "schedule"
        PROVE  row'[source'[d]] = "enabled" \/ source'[d] \in overtaken'
    BY <2>1, <2>3, <2>5 DEF LifecycleInv
  <2>6. \A u \in Sources : ~BeingCreated(u) => ~BeingCreated(u)'
    BY <2>3 DEF BeingCreated
  <2>7. ASSUME NEW d \in Clients, pc'[d] = "delete"
        PROVE  /\ Known(source[d])'
               /\ \/ entries'[source'[d]] = 0 /\ ~BeingCreated(source[d])'
                  \/ source'[d] \in overtaken'
    <3>1. CASE d = c
      <4>1. source'[d] = s
        BY <2>3, <3>1
      <4>2. BeingCreated(source[d])' <=> \E b \in Clients : pc'[b] = "schedule" /\ source'[b] = s
        BY <4>1 DEF BeingCreated
      <4>3. ~BeingCreated(s) => ~BeingCreated(source[d])'
        BY <2>3, <4>2 DEF BeingCreated
      <4>4. QED
        BY <2>1, <2>2, <4>1, <4>3 DEF Known
    <3>2. CASE d # c
      <4>1. pc[d] = "delete" /\ source'[d] = source[d] /\ source[d] \in Sources
        BY <2>3, <2>7, <3>2 DEF TypeOK
      <4>2. /\ row[source[d]] # "none"
            /\ \/ entries[source[d]] = 0 /\ ~BeingCreated(source[d])
               \/ source[d] \in overtaken
        BY <4>1 DEF LifecycleInv, Known
      <4>3. ~BeingCreated(source[d]) => ~BeingCreated(source[d])'
        BY <2>3, <4>1 DEF BeingCreated
      <4>4. QED
        BY <2>1, <2>2, <4>1, <4>2, <4>3 DEF Known
    <3>3. QED
      BY <3>1, <3>2
  <2>8. QED
    BY <2>4, <2>5, <2>7 DEF LifecycleInv
<1>7. ASSUME NEW c \in Clients, DeleteRow(c) PROVE LifecycleInv'
  <2>1. /\ source[c] \in Sources /\ UNCHANGED <<entries, overtaken>>
        /\ \/ entries[source[c]] = 0 /\ ~BeingCreated(source[c])
           \/ source[c] \in overtaken
    BY <1>7 DEF DeleteRow, schedule, TypeOK, LifecycleInv
  <2>2. \A u \in Sources : row'[u] = IF u = source[c] /\ row' # row THEN "deleted" ELSE row[u]
    BY <1>7 DEF DeleteRow, database, TypeOK
  <2>3. pc'[c] = "idle" /\ \A d \in Clients : d # c => pc'[d] = pc[d] /\ source'[d] = source[d]
    BY <1>7 DEF DeleteRow, Return, Goto, TypeOK
  <2>4. ASSUME NEW u \in Sources, entries'[u] # 0 PROVE row'[u] = "enabled" \/ u \in overtaken'
    BY <2>1, <2>2, <2>4 DEF LifecycleInv
  <2>5. ASSUME NEW d \in Clients, pc'[d] = "schedule"
        PROVE  row'[source'[d]] = "enabled" \/ source'[d] \in overtaken'
    <3>1. pc[d] = "schedule" /\ source'[d] = source[d] /\ source[d] \in Sources
      BY <2>3, <2>5 DEF TypeOK
    <3>2. row[source[d]] = "enabled" \/ source[d] \in overtaken
      BY <3>1 DEF LifecycleInv
    <3>3. source[d] = source[c] => source[d] \in overtaken
      BY <2>1, <3>1 DEF BeingCreated
    <3>4. QED
      BY <2>1, <2>2, <3>1, <3>2, <3>3
  <2>6. ASSUME NEW d \in Clients, pc'[d] = "delete"
        PROVE  /\ Known(source[d])'
               /\ \/ entries'[source'[d]] = 0 /\ ~BeingCreated(source[d])'
                  \/ source'[d] \in overtaken'
    <3>1. d # c /\ pc[d] = "delete" /\ source'[d] = source[d] /\ source[d] \in Sources
      BY <2>3, <2>6 DEF TypeOK
    <3>2. /\ row[source[d]] # "none"
          /\ \/ entries[source[d]] = 0 /\ ~BeingCreated(source[d])
             \/ source[d] \in overtaken
      BY <3>1 DEF LifecycleInv, Known
    <3>3. ~BeingCreated(source[d]) => ~BeingCreated(source[d])'
      BY <2>3, <3>1 DEF BeingCreated
    <3>4. QED
      BY <2>1, <2>2, <3>1, <3>2, <3>3 DEF Known
  <2>7. QED
    BY <2>4, <2>5, <2>6 DEF LifecycleInv
<1>8. QED
  BY <1>f, <1>1, <1>2, <1>3, <1>4, <1>5, <1>6, <1>7, SyncFrame, CatalogFrame, StutterFrame
  DEF Next, Request

\* Cron syncs only sources that exist and are sync-enabled, except those whose
\* delete overtook the schedule of their create, with any faults and restarts.
THEOREM CronSyncsExisting == Spec => []ScheduledExist
<1>1. Init => CronInv /\ ProcessInv /\ LifecycleInv
  BY DEF Init, CronInv, ProcessInv, LifecycleInv
<1>2. TypeOK /\ CronInv /\ LifecycleInv => ScheduledExist
  BY DEF TypeOK, Entry, CronInv, LifecycleInv, ScheduledExist
<1>3. QED
  BY <1>1, <1>2, InitType, TypeStep, CronStep, ProcessStep, LifecycleStep, PTL DEF Spec

----------------------------------------------------------------------------
(* Sync-enabled sources have an entry *)

LEMMA BootStep == TypeOK /\ ProcessInv /\ BootInv /\ [Next]_vars => BootInv'
<1> SUFFICES ASSUME TypeOK, ProcessInv, BootInv, [Next]_vars PROVE BootInv'
  OBVIOUS
<1>f. ASSUME UNCHANGED <<row, proc, toSchedule, entries, cron, pc, source, overtaken, unfinished>>
      PROVE  BootInv'
  BY <1>f DEF BootInv
<1>1. CASE Start
  BY <1>1 DEF Start, BootInv, database
<1>2. ASSUME NEW s \in Sources, StartSource(s) PROVE BootInv'
  <2>1. /\ row' = row /\ toSchedule' = toSchedule \ {s} /\ proc = "starting"
        /\ entries'[s] # 0 /\ \A u \in Sources : u # s => entries'[u] = entries[u]
    BY <1>2 DEF StartSource, ScheduleSource, database, TypeOK
  <2>2. QED
    BY <2>1 DEF BootInv
<1>3. CASE Serve \/ Crash
  BY <1>3 DEF Serve, Crash, BootInv
<1>4. ASSUME NEW c \in Clients, Request(c) PROVE BootInv'
  <2>1. proc' = "up"
    BY <1>4 DEF Request, InsertSource, ScheduleCreated, BeginDelete, DeleteRow, Serving,
                process, ProcessInv
  <2>2. QED
    BY <2>1 DEF BootInv
<1>5. QED
  BY <1>f, <1>1, <1>2, <1>3, <1>4, SyncFrame, CatalogFrame, StutterFrame DEF Next

LEMMA EnabledStep ==
  TypeOK /\ ProcessInv /\ BootInv /\ EnabledAreScheduled /\ [Next]_vars => EnabledAreScheduled'
<1> SUFFICES ASSUME TypeOK, ProcessInv, BootInv, EnabledAreScheduled, [Next]_vars,
                    NEW s \in Sources, proc' = "up", row'[s] = "enabled"
             PROVE  \/ entries'[s] # 0
                    \/ \E c \in Clients : pc'[c] # "idle" /\ source'[c] = s
                    \/ s \in unfinished'
  BY DEF EnabledAreScheduled, Serving
<1>0. ASSUME proc = "up", row[s] = "enabled"
      PROVE  \/ entries[s] # 0
             \/ \E c \in Clients : pc[c] # "idle" /\ source[c] = s
             \/ s \in unfinished
  BY <1>0 DEF EnabledAreScheduled, Serving
<1>f. ASSUME UNCHANGED <<row, proc, toSchedule, entries, cron, pc, source, overtaken, unfinished>>
      PROVE  \/ entries'[s] # 0
             \/ \E c \in Clients : pc'[c] # "idle" /\ source'[c] = s
             \/ s \in unfinished'
  BY <1>0, <1>f
<1>1. CASE Serve
  BY <1>1 DEF Serve, BootInv, database, schedule
<1>2. ~Start /\ ~Crash /\ \A u \in Sources : ~StartSource(u)
  BY DEF Start, Crash, StartSource
<1>3. ASSUME NEW c \in Clients, NEW u \in Sources, InsertSource(c, u)
      PROVE  \/ entries'[s] # 0
             \/ \E d \in Clients : pc'[d] # "idle" /\ source'[d] = s
             \/ s \in unfinished'
  <2>1. /\ proc = "up" /\ pc[c] = "idle" /\ row[u] = "none"
        /\ UNCHANGED entries /\ unfinished \subseteq unfinished'
    BY <1>3 DEF InsertSource, Serving, schedule
  <2>2. \A d \in Clients : d # c => pc'[d] = pc[d] /\ source'[d] = source[d]
    BY <1>3 DEF InsertSource, Goto, Return, TypeOK
  <2>3. CASE s = u
    BY <1>3, <2>1, <2>3 DEF InsertSource, Goto, Return, Applied, RequestOutcomes, TypeOK
  <2>4. CASE s # u
    <3>1. row[s] = "enabled"
      BY <1>3, <2>4 DEF InsertSource, TypeOK
    <3>2. QED
      BY <1>0, <2>1, <2>2, <3>1
  <2>5. QED
    BY <2>3, <2>4
<1>4. ASSUME NEW c \in Clients, ScheduleCreated(c)
      PROVE  \/ entries'[s] # 0
             \/ \E d \in Clients : pc'[d] # "idle" /\ source'[d] = s
             \/ s \in unfinished'
  <2>1. /\ proc = "up" /\ UNCHANGED <<row, unfinished>> /\ source[c] \in Sources
    BY <1>4 DEF ScheduleCreated, database, process, history, TypeOK
  <2>2. \A d \in Clients : d # c => pc'[d] = pc[d] /\ source'[d] = source[d]
    BY <1>4 DEF ScheduleCreated, Goto, Return, TypeOK
  <2>3. /\ entries'[source[c]] # 0
        /\ \A u \in Sources : u # source[c] => entries'[u] = entries[u]
    BY <1>4, <2>1 DEF ScheduleCreated, ScheduleSource, TypeOK
  <2>4. QED
    BY <1>0, <2>1, <2>2, <2>3
<1>5. ASSUME NEW c \in Clients, NEW u \in Sources, BeginDelete(c, u)
      PROVE  \/ entries'[s] # 0
             \/ \E d \in Clients : pc'[d] # "idle" /\ source'[d] = s
             \/ s \in unfinished'
  <2>1. proc = "up" /\ UNCHANGED <<row, unfinished>> /\ pc[c] = "idle"
    BY <1>5 DEF BeginDelete, Serving, database
  <2>2. /\ pc'[c] = "delete" /\ source'[c] = u
        /\ \A d \in Clients : d # c => pc'[d] = pc[d] /\ source'[d] = source[d]
    BY <1>5 DEF BeginDelete, Goto, TypeOK
  <2>3. \A v \in Sources : v # u => entries'[v] = entries[v]
    BY <1>5 DEF BeginDelete, UnscheduleSource, TypeOK
  <2>4. QED
    BY <1>0, <2>1, <2>2, <2>3
<1>6. ASSUME NEW c \in Clients, DeleteRow(c)
      PROVE  \/ entries'[s] # 0
             \/ \E d \in Clients : pc'[d] # "idle" /\ source'[d] = s
             \/ s \in unfinished'
  <2>1. /\ proc = "up" /\ UNCHANGED entries /\ unfinished \subseteq unfinished'
        /\ source[c] \in Sources
    BY <1>6 DEF DeleteRow, schedule, process, TypeOK
  <2>2. \A d \in Clients : d # c => pc'[d] = pc[d] /\ source'[d] = source[d]
    BY <1>6 DEF DeleteRow, Goto, Return, TypeOK
  <2>3. CASE s = source[c]
    BY <1>6, <2>1, <2>3 DEF DeleteRow, Applied, RequestOutcomes, TypeOK
  <2>4. CASE s # source[c]
    <3>1. row[s] = "enabled"
      BY <1>6, <2>4 DEF DeleteRow, database, TypeOK
    <3>2. QED
      BY <1>0, <2>1, <2>2, <2>4, <3>1
  <2>5. QED
    BY <2>3, <2>4
<1>7. QED
  BY <1>f, <1>1, <1>2, <1>3, <1>4, <1>5, <1>6, SyncFrame, CatalogFrame, StutterFrame
  DEF Next, Request

\* A serving process has a cron entry for every sync-enabled source whose
\* create and deletes were answered without an error, restarts included.
THEOREM EnabledStayScheduled == Spec => []EnabledAreScheduled
<1>1. Init => ProcessInv /\ BootInv /\ EnabledAreScheduled
  BY DEF Init, ProcessInv, BootInv, EnabledAreScheduled, Serving
<1>2. QED
  BY <1>1, InitType, TypeStep, ProcessStep, BootStep, EnabledStep, PTL DEF Spec

----------------------------------------------------------------------------
(* What last_sync_at means *)

LEMMA RunStep == TypeOK /\ RunInv /\ [Next]_vars => RunInv'
<1> SUFFICES ASSUME TypeOK, RunInv, [Next]_vars PROVE RunInv'
  OBVIOUS
<1>f. ASSUME UNCHANGED syncs PROVE RunInv'
  BY <1>f DEF syncs, RunInv
<1>1. CASE Start \/ Serve
  BY <1>f, <1>1 DEF Start, Serve
<1>2. ASSUME NEW s \in Sources, StartSource(s) PROVE RunInv'
  BY <1>f, <1>2 DEF StartSource
<1>3. CASE Crash
  BY <1>3 DEF Crash, RunInv
<1>4. ASSUME NEW c \in Clients, Request(c) PROVE RunInv'
  BY <1>f, <1>4 DEF Request, InsertSource, ScheduleCreated, BeginDelete, DeleteRow
<1>5. ASSUME NEW s \in Sources, NEW t \in Tables, UpsertTable(s, t) PROVE RunInv'
  BY <1>f, <1>5 DEF UpsertTable
<1>6. CASE UNCHANGED vars
  BY <1>f, <1>6 DEF vars
<1>7. ASSUME NEW r \in Runs, Sync(r) PROVE RunInv'
  <2>e. ASSUME EndRun(r) PROVE RunInv'
    BY <2>e DEF EndRun, RunInv, TypeOK
  <2>1. ASSUME Fire(r) \/ AcceptSync(r) PROVE RunInv'
    <3>1. PICK s, context : BeginRun(r, s, context)
      BY <2>1 DEF Fire, AcceptSync
    <3>2. QED
      BY <3>1 DEF BeginRun, RunInv, TypeOK
  <2>2. CASE HandlerReturns(r)
    BY <2>2 DEF HandlerReturns, RunInv
  <2>3. CASE ListTables(r)
    <3>1. CASE EndRun(r)
      BY <2>e, <3>1
    <3>2. CASE ~EndRun(r)
      BY <2>3, <3>2 DEF ListTables, RunInv, TypeOK
    <3>3. QED
      BY <3>1, <3>2
  <2>4. ASSUME NEW t \in Tables, SyncTable(r, t) PROVE RunInv'
    BY <2>4 DEF SyncTable, FirstErr, RunInv, TypeOK
  <2>5. CASE SyncSourceFails(r) \/ UpdateSourceSyncTime(r)
    BY <2>e, <2>5 DEF SyncSourceFails, UpdateSourceSyncTime
  <2>6. QED
    BY <1>7, <2>1, <2>2, <2>3, <2>4, <2>5 DEF Sync
<1>8. QED
  BY <1>1, <1>2, <1>3, <1>4, <1>5, <1>6, <1>7 DEF Next

\* The steps that write last_sync_at.
LEMMA LastSyncChanges ==
  ASSUME TypeOK, [Next]_vars, NEW s \in Sources, lastSync'[s] \notin {lastSync[s], Never}
  PROVE  \E r \in Runs : UpdateSourceSyncTime(r) /\ runSource[r] = s /\ lastSync'[s] = synced[r]
<1>1. ASSUME NEW r \in Runs, UpdateSourceSyncTime(r)
      PROVE  runSource[r] = s /\ lastSync'[s] = synced[r]
  BY <1>1 DEF UpdateSourceSyncTime, TypeOK
<1>2. ~UNCHANGED lastSync
  OBVIOUS
<1>3. ASSUME NEW c \in Clients PROVE ~Request(c)
  <2>1. ~DeleteRow(c)
    BY DEF DeleteRow, database, TypeOK
  <2>2. QED
    BY <1>2, <2>1 DEF Request, InsertSource, ScheduleCreated, BeginDelete, database
<1>4. ~Start /\ ~Serve /\ ~Crash /\ ~UNCHANGED vars
  BY <1>2 DEF Start, Serve, Crash, vars, database
<1>5. ASSUME NEW u \in Sources PROVE ~StartSource(u) /\ \A t \in Tables : ~UpsertTable(u, t)
  BY <1>2 DEF StartSource, UpsertTable, database
<1>6. ASSUME NEW r \in Runs, Sync(r) PROVE UpdateSourceSyncTime(r)
  BY <1>2, <1>6 DEF Sync, Fire, AcceptSync, BeginRun, HandlerReturns, ListTables, SyncTable,
                    SyncSourceFails, database
<1>7. QED
  BY <1>1, <1>3, <1>4, <1>5, <1>6 DEF Next

\* last_sync_at is written only by a run that has synced every table it listed.
THEOREM LastSyncIsComplete == Spec => LastSyncCoversSource
<1>1. Init => RunInv
  BY DEF Init, RunInv
<1>2. ASSUME TypeOK, RunInv, [Next]_vars, NEW s \in Sources,
             lastSync'[s] \notin {lastSync[s], Never}
      PROVE  \E r \in Runs : /\ runSource[r] = s
                             /\ step[r] = "tables" /\ step'[r] = "idle"
                             /\ listed[r] \subseteq lastSync'[s]
  <2>1. PICK r \in Runs : /\ UpdateSourceSyncTime(r) /\ runSource[r] = s
                          /\ lastSync'[s] = synced[r]
    BY <1>2, LastSyncChanges
  <2>2. step[r] = "tables" /\ todo[r] = {} /\ ~firstErr[r] /\ step'[r] = "idle"
    BY <1>2, <2>1 DEF UpdateSourceSyncTime, EndRun, TypeOK
  <2>3. listed[r] \subseteq synced[r]
    BY <1>2, <2>2 DEF RunInv
  <2>4. QED
    BY <2>1, <2>2, <2>3
<1>3. TypeOK /\ RunInv /\ [Next]_vars =>
        [\A s \in Sources :
           lastSync'[s] \notin {lastSync[s], Never} =>
             \E r \in Runs : /\ runSource[r] = s
                             /\ step[r] = "tables" /\ step'[r] = "idle"
                             /\ listed[r] \subseteq lastSync'[s]]_vars
  BY <1>2
<1>4. QED
  BY <1>1, <1>3, InitType, TypeStep, RunStep, PTL DEF Spec, LastSyncCoversSource
=============================================================================
