------------------------------- MODULE Scheduler -------------------------------
(***************************************************************************)
(* Sources, their cron entries and the syncs these start: Scheduler        *)
(* (internal/digestion/scheduler.go), the handlers that create and delete  *)
(* a source (internal/api/handlers/digestion.go) and Engine.SyncSource     *)
(* (internal/digestion/sync.go), over restarts of the process.             *)
(*                                                                         *)
(* A client is one request inside CreateSource or DeleteSource.  A run is  *)
(* one goroutine inside SyncSource, which cron or a request started.  The  *)
(* row of a source and its cron entry live in two stores (the database and *)
(* the memory of the process) which the handlers change one after the      *)
(* other, with other requests in between.  ScheduleSource and              *)
(* UnscheduleSource hold a mutex and are one step each.                    *)
(*                                                                         *)
(* SyncTable of one table is one step here, which succeeds or fails;       *)
(* module TableSync has what is inside.  A source is its id: uuid.New      *)
(* never returns an id twice, so a deleted source does not come back.      *)
(***************************************************************************)
EXTENDS Integers

CONSTANTS
  Sources,   \* source ids
  Tables,    \* names of tables a source may have
  Clients,   \* requests that may create or delete at the same time
  Runs,      \* goroutines that may be inside SyncSource at the same time
  None,      \* not a source
  Never,     \* last_sync_at is NULL
  Faults     \* the faults the environment may produce

AllFaults ==
  { "sync fails", \* SyncTable fails by itself: see TableSync for the reasons
    "platform",   \* a platform statement fails, before or after its commit
    "cancel",     \* the client of a create or delete goes away
    "crash" }     \* the process dies and is restarted

ASSUME SchedulerAssumption ==
  /\ None \notin Sources
  /\ \A T \in SUBSET Tables : T # Never
  /\ Faults \subseteq AllFaults

VARIABLES
  row,        \* sources: sync_enabled of each row
  tables,     \* discovered_tables with sync_enabled, by source
  lastSync,   \* sources.last_sync_at: the tables the run that set it synced
  proc,       \* main: not running, in Scheduler.Start, serving
  toSchedule, \* sources Start has loaded and not scheduled yet
  entries,    \* Scheduler.entries: cron entry of a source, 0 if it has none
  cron,       \* entries of the cron table
  lastEntry,  \* the last entry id cron has given out
  pc,         \* where each request stands
  source,     \* the source it is about
  step,       \* where each run stands in SyncSource
  runSource,  \* its sourceID
  ctx,        \* its context
  listed,     \* tables: what ListTables returned to it
  todo,       \* those of them the loop has still to visit
  synced,     \* those SyncTable has synced for it
  firstErr,   \* its firstErr is not nil
  overtaken,  \* history: deleted between the insert and the schedule of the create
  unfinished  \* history: the statement of its create or delete was not answered "ok"

database == <<row, tables, lastSync>>
process == <<proc, toSchedule>>
schedule == <<entries, cron, lastEntry>>
requests == <<pc, source>>
syncs == <<step, runSource, ctx, listed, todo, synced, firstErr>>
history == <<overtaken, unfinished>>
vars == <<database, process, schedule, requests, syncs, history>>

Exists(s) == row[s] \in {"enabled", "disabled"}
Known(s) == row[s] # "none"          \* a client may have its id
Entry == [id : Nat \ {0}, source : Sources]
Serving == proc = "up"

\* What a statement of a request may do: take effect and be answered, have no
\* effect and fail, take effect and fail.
RequestOutcomes ==
  {"ok"} \cup (IF Faults \cap {"platform", "cancel"} # {}
               THEN {"error", "lost"} ELSE {})
\* The same of a run, whose context may be done.
RunOutcomes(r) ==
  IF ctx[r] = "done" THEN {"error"}
  ELSE {"ok"} \cup (IF "platform" \in Faults THEN {"error", "lost"} ELSE {})
Applied(o) == o # "error"

Goto(c, label, s) ==
  /\ pc' = [pc EXCEPT ![c] = label]
  /\ source' = [source EXCEPT ![c] = s]
Return(c) == Goto(c, "idle", None)

----------------------------------------------------------------------------
(* The scheduler *)

\* An old entry is removed and a new one added.  AddFunc cannot fail: every
\* interval the INTEGER column holds is a duration that cron parses.
ScheduleSource(s) ==
  /\ lastEntry' = lastEntry + 1
  /\ cron' = {e \in cron : e.id # entries[s]} \cup {[id |-> lastEntry + 1, source |-> s]}
  /\ entries' = [entries EXCEPT ![s] = lastEntry + 1]

\* Mutant: the entry is forgotten, not removed.
ForgetSource(s) ==
  /\ entries' = [entries EXCEPT ![s] = 0]
  /\ UNCHANGED <<cron, lastEntry>>

UnscheduleSource(s) ==
  /\ cron' = {e \in cron : e.id # entries[s]}
  /\ entries' = [entries EXCEPT ![s] = 0]
  /\ UNCHANGED lastEntry

\* main starts and Scheduler.Start loads the sources.  If the statement fails,
\* main exits.
Start ==
  /\ proc = "down"
  /\ proc' = "starting"
  /\ toSchedule' = {s \in Sources : row[s] = "enabled"}
  /\ UNCHANGED <<database, schedule, requests, syncs, history>>

StartSource(s) ==
  /\ proc = "starting"
  /\ s \in toSchedule
  /\ ScheduleSource(s)
  /\ toSchedule' = toSchedule \ {s}
  /\ UNCHANGED <<database, proc, requests, syncs, history>>

\* cron.Start, then the HTTP server.
Serve ==
  /\ proc = "starting"
  /\ toSchedule = {}
  /\ proc' = "up"
  /\ UNCHANGED <<database, toSchedule, schedule, requests, syncs, history>>

\* The process ends, with it the cron table and all goroutines.
Crash ==
  /\ "crash" \in Faults
  /\ proc # "down"
  /\ proc' = "down"
  /\ toSchedule' = {}
  /\ entries' = [s \in Sources |-> 0]
  /\ cron' = {}
  /\ lastEntry' = 0
  /\ pc' = [c \in Clients |-> "idle"]
  /\ source' = [c \in Clients |-> None]
  /\ step' = [r \in Runs |-> "idle"]
  /\ runSource' = [r \in Runs |-> None]
  /\ ctx' = [r \in Runs |-> "background"]
  /\ listed' = [r \in Runs |-> {}]
  /\ todo' = [r \in Runs |-> {}]
  /\ synced' = [r \in Runs |-> {}]
  /\ firstErr' = [r \in Runs |-> FALSE]
  /\ overtaken' = {}
  /\ unfinished' = {}
  /\ UNCHANGED database

----------------------------------------------------------------------------
(* Creating and deleting a source *)

\* RegisterSource draws the id and inserts the row; a source that is not
\* sync-enabled is answered at once.
InsertSource(c, s) ==
  /\ Serving /\ pc[c] = "idle" /\ row[s] = "none"
  /\ \E enabled \in {"enabled", "disabled"}, o \in RequestOutcomes :
       /\ row' = IF Applied(o) THEN [row EXCEPT ![s] = enabled] ELSE row
       /\ unfinished' = IF o = "lost" THEN unfinished \cup {s} ELSE unfinished
       /\ IF o = "ok" /\ enabled = "enabled" THEN Goto(c, "schedule", s) ELSE Return(c)
  /\ UNCHANGED <<tables, lastSync, process, schedule, syncs, overtaken>>

\* Mutant: the handler answers without scheduling.
AnswerCreated(c) ==
  /\ pc[c] = "schedule"
  /\ Return(c)
  /\ UNCHANGED <<database, process, schedule, syncs, history>>

ScheduleCreated(c) ==
  /\ pc[c] = "schedule"
  /\ ScheduleSource(source[c])
  /\ Return(c)
  /\ UNCHANGED <<database, process, syncs, history>>

BeingCreated(s) == \E c \in Clients : pc[c] = "schedule" /\ source[c] = s

\* Mutant: the handler leaves the cron entry alone.
DeleteOnly(c, s) ==
  /\ Serving /\ pc[c] = "idle" /\ Known(s)
  /\ Goto(c, "delete", s)
  /\ UNCHANGED <<database, process, schedule, syncs, history>>

\* DeleteSource unschedules first.  It does not look whether the row exists.
BeginDelete(c, s) ==
  /\ Serving /\ pc[c] = "idle" /\ Known(s)
  /\ UnscheduleSource(s)
  /\ overtaken' = IF BeingCreated(s) THEN overtaken \cup {s} ELSE overtaken
  /\ Goto(c, "delete", s)
  /\ UNCHANGED <<database, process, syncs, unfinished>>

\* Mutant: discovered_tables has no ON DELETE CASCADE.
KeepTables(s) == tables

\* The catalog of a source goes with its row.
CascadeTables(s) == [tables EXCEPT ![s] = {}]

DeleteRow(c) ==
  /\ pc[c] = "delete"
  /\ \E o \in RequestOutcomes :
       /\ IF Applied(o)
          THEN /\ row' = [row EXCEPT ![source[c]] = "deleted"]
               /\ tables' = CascadeTables(source[c])
               /\ lastSync' = [lastSync EXCEPT ![source[c]] = Never]
          ELSE UNCHANGED database
       /\ unfinished' = IF o = "ok" THEN unfinished ELSE unfinished \cup {source[c]}
  /\ Return(c)
  /\ UNCHANGED <<process, schedule, syncs, overtaken>>

\* Discover upserts the tables it finds one by one; the foreign key wants the
\* source.  Nothing takes a table out of the catalog again.
UpsertTable(s, t) ==
  /\ Serving /\ Exists(s) /\ t \notin tables[s]
  /\ tables' = [tables EXCEPT ![s] = @ \cup {t}]
  /\ UNCHANGED <<row, lastSync, process, schedule, requests, syncs, history>>

----------------------------------------------------------------------------
(* SyncSource *)

BeginRun(r, s, context) ==
  /\ Serving /\ step[r] = "idle"
  /\ step' = [step EXCEPT ![r] = "list"]
  /\ runSource' = [runSource EXCEPT ![r] = s]
  /\ ctx' = [ctx EXCEPT ![r] = context]
  /\ UNCHANGED <<database, process, schedule, requests, listed, todo, synced, firstErr, history>>

\* An entry is due.  cron starts its function whether or not the last one ended.
Fire(r) == \E e \in cron : BeginRun(r, e.source, "background")

\* The handler starts a goroutine and answers 202.
AcceptSync(r) == \E s \in Sources : Known(s) /\ BeginRun(r, s, "request")

\* The handler has returned: net/http cancels the context of its request.
\* echo recycles c, so that a goroutine that asks c for the request after that
\* gets the context of a request that came later; that one ends, too.
HandlerReturns(r) ==
  /\ ctx[r] = "request"
  /\ ctx' = [ctx EXCEPT ![r] = "done"]
  /\ UNCHANGED <<database, process, schedule, requests, step, runSource, listed, todo,
                 synced, firstErr, history>>

EndRun(r) ==
  /\ step' = [step EXCEPT ![r] = "idle"]
  /\ runSource' = [runSource EXCEPT ![r] = None]
  /\ ctx' = [ctx EXCEPT ![r] = "background"]
  /\ listed' = [listed EXCEPT ![r] = {}]
  /\ todo' = [todo EXCEPT ![r] = {}]
  /\ synced' = [synced EXCEPT ![r] = {}]
  /\ firstErr' = [firstErr EXCEPT ![r] = FALSE]

\* A source that does not exist has no tables, which is no error.
ListTables(r) ==
  /\ step[r] = "list"
  /\ \E o \in RunOutcomes(r) :
       IF o = "ok"
       THEN /\ step' = [step EXCEPT ![r] = "tables"]
            /\ listed' = [listed EXCEPT ![r] = tables[runSource[r]]]
            /\ todo' = [todo EXCEPT ![r] = tables[runSource[r]]]
            /\ UNCHANGED <<runSource, ctx, synced, firstErr>>
       ELSE EndRun(r)
  /\ UNCHANGED <<database, process, schedule, requests, history>>

\* SyncTable reads the source first and its job last, both under the context.
MaySucceed(r) == ctx[r] # "done" /\ Exists(runSource[r])
MayFail(r) == ~MaySucceed(r) \/ Faults \cap {"sync fails", "platform"} # {}

\* Mutant: the error of the last table decides.
LastErr(err, failed) == failed

\* The first error is kept; the loop goes on after it.
FirstErr(err, failed) == err \/ failed

SyncTable(r, t) ==
  /\ step[r] = "tables"
  /\ t \in todo[r]
  /\ \E failed \in BOOLEAN :
       /\ IF failed THEN MayFail(r) ELSE MaySucceed(r)
       /\ synced' = IF failed THEN synced ELSE [synced EXCEPT ![r] = @ \cup {t}]
       /\ firstErr' = [firstErr EXCEPT ![r] = FirstErr(@, failed)]
  /\ todo' = [todo EXCEPT ![r] = @ \ {t}]
  /\ UNCHANGED <<database, process, schedule, requests, step, runSource, ctx, listed, history>>

SyncSourceFails(r) ==
  /\ step[r] = "tables" /\ todo[r] = {} /\ firstErr[r]
  /\ EndRun(r)
  /\ UNCHANGED <<database, process, schedule, requests, history>>

\* Its error is ignored, and so is a row that is gone.
UpdateSourceSyncTime(r) ==
  /\ step[r] = "tables" /\ todo[r] = {} /\ ~firstErr[r]
  /\ \E o \in RunOutcomes(r) :
       lastSync' = IF Applied(o) /\ Exists(runSource[r])
                   THEN [lastSync EXCEPT ![runSource[r]] = synced[r]] ELSE lastSync
  /\ EndRun(r)
  /\ UNCHANGED <<row, tables, process, schedule, requests, history>>

----------------------------------------------------------------------------

Init ==
  /\ row = [s \in Sources |-> "none"]
  /\ tables = [s \in Sources |-> {}]
  /\ lastSync = [s \in Sources |-> Never]
  /\ proc = "down"
  /\ toSchedule = {}
  /\ entries = [s \in Sources |-> 0]
  /\ cron = {}
  /\ lastEntry = 0
  /\ pc = [c \in Clients |-> "idle"]
  /\ source = [c \in Clients |-> None]
  /\ step = [r \in Runs |-> "idle"]
  /\ runSource = [r \in Runs |-> None]
  /\ ctx = [r \in Runs |-> "background"]
  /\ listed = [r \in Runs |-> {}]
  /\ todo = [r \in Runs |-> {}]
  /\ synced = [r \in Runs |-> {}]
  /\ firstErr = [r \in Runs |-> FALSE]
  /\ overtaken = {}
  /\ unfinished = {}

Request(c) ==
  \/ \E s \in Sources : InsertSource(c, s) \/ BeginDelete(c, s)
  \/ ScheduleCreated(c)
  \/ DeleteRow(c)

Sync(r) ==
  \/ Fire(r)
  \/ AcceptSync(r)
  \/ HandlerReturns(r)
  \/ ListTables(r)
  \/ \E t \in Tables : SyncTable(r, t)
  \/ SyncSourceFails(r)
  \/ UpdateSourceSyncTime(r)

Next ==
  \/ Start
  \/ \E s \in Sources : StartSource(s)
  \/ Serve
  \/ Crash
  \/ \E c \in Clients : Request(c)
  \/ \E s \in Sources, t \in Tables : UpsertTable(s, t)
  \/ \E r \in Runs : Sync(r)

Spec == Init /\ [][Next]_vars

----------------------------------------------------------------------------
(* Properties *)

\* Everything has its type, and the catalog's foreign key holds: a table
\* belongs to a source that exists (init-platform.sql:66).
TypeOK ==
  /\ row \in [Sources -> {"none", "enabled", "disabled", "deleted"}]
  /\ tables \in [Sources -> SUBSET Tables]
  /\ \A s \in Sources : tables[s] # {} => Exists(s)
  /\ lastSync \in [Sources -> {Never} \cup SUBSET Tables]
  /\ proc \in {"down", "starting", "up"}
  /\ toSchedule \subseteq Sources
  /\ entries \in [Sources -> Nat]
  /\ cron \subseteq Entry
  /\ lastEntry \in Nat
  /\ pc \in [Clients -> {"idle", "schedule", "delete"}]
  /\ source \in [Clients -> Sources \cup {None}]
  /\ \A c \in Clients : pc[c] # "idle" => source[c] \in Sources
  /\ step \in [Runs -> {"idle", "list", "tables"}]
  /\ runSource \in [Runs -> Sources \cup {None}]
  /\ \A r \in Runs : step[r] # "idle" => runSource[r] \in Sources
  /\ ctx \in [Runs -> {"background", "request", "done"}]
  /\ listed \in [Runs -> SUBSET Tables]
  /\ todo \in [Runs -> SUBSET Tables]
  /\ synced \in [Runs -> SUBSET Tables]
  /\ firstErr \in [Runs -> BOOLEAN]
  /\ overtaken \subseteq Sources
  /\ unfinished \subseteq Sources

\* The scheduler's map and the cron table agree: an entry of the cron table is
\* the one the map has for its source, so no source is synced by an entry that
\* UnscheduleSource no longer finds, and none by two (scheduler.go:53-92).
EntriesMatchCron ==
  \A s \in Sources :
    {e \in cron : e.source = s} = IF entries[s] = 0 THEN {} ELSE {[id |-> entries[s], source |-> s]}

\* Cron syncs only sources that exist and are sync-enabled, whatever fails and
\* whenever the process restarts - except one whose delete came between the two
\* steps of its create (digestion.go:75-83 against 93-94), which is scheduled
\* until the next restart.
ScheduledExist ==
  \A e \in cron : row[e.source] = "enabled" \/ e.source \in overtaken

\* A serving process has an entry for every sync-enabled source, except while a
\* create or delete of it is under way, and after one that was answered with
\* an error (digestion.go:75-98), until the next restart.
EnabledAreScheduled ==
  Serving =>
    \A s \in Sources :
      row[s] = "enabled" =>
        \/ entries[s] # 0
        \/ \E c \in Clients : pc[c] # "idle" /\ source[c] = s
        \/ s \in unfinished

\* last_sync_at of a source is written by a run that has synced every table it
\* listed, whatever failed for other runs (sync.go:20-35).
LastSyncCoversSource ==
  [][\A s \in Sources :
       lastSync'[s] \notin {lastSync[s], Never} =>
         \E r \in Runs : /\ runSource[r] = s
                         /\ step[r] = "tables" /\ step'[r] = "idle"
                         /\ listed[r] \subseteq lastSync'[s]]_vars

\* What README.md:399-402 of the engine says of an accepted sync: it iterates
\* through all tables of the source and syncs each.  So, when nothing fails and
\* the source is there, no table is given up.
AcceptedSyncsReachTables ==
  \A r \in Runs :
    step[r] = "tables" /\ Exists(runSource[r]) => listed[r] = todo[r] \cup synced[r]
=============================================================================
