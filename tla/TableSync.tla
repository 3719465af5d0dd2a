----------------------------- MODULE TableSync -----------------------------
(***************************************************************************)
(* Full snapshot sync of ONE source table into the platform database:      *)
(* Engine.SyncTable and Engine.runFullSync (internal/digestion/sync.go)    *)
(* with the store methods they call (internal/digestion/store/store.go).   *)
(*                                                                         *)
(* A worker is one goroutine inside SyncTable, started by the cron entry   *)
(* of the source or by an HTTP request.  Nothing in the code keeps two     *)
(* workers off the same table.  Every statement sent to the platform       *)
(* database is one atomic action (each runs in autocommit mode), so all    *)
(* that happens between two statements of a worker interleaves with the    *)
(* statements of the others.                                               *)
(*                                                                         *)
(* The source table is not a variable: it may hold anything when a sync    *)
(* opens its query, and that query reads one MVCC snapshot of it.  A row's *)
(* data and its row_hash are the same value here (computeHash is taken to  *)
(* be injective), a row key is a member of Keys (tables with a primary     *)
(* key; buildRowKey without one is the subject of another module).         *)
(***************************************************************************)
EXTENDS Integers, Sequences, FiniteSets

CONSTANTS
  Keys,      \* row keys of the table
  Vals,      \* row contents
  Nil,       \* "no row": not a content
  Workers,   \* goroutines that may be inside SyncTable at the same time
  MaxJobs,   \* bound: sync jobs created in a behaviour
  MaxClock,  \* bound: last value of the clock, in seconds
  BufCap,    \* capacity of the row channel (100 in postgres.go)
  Faults     \* the faults the environment may produce, see below

AllFaults ==
  { "source",     \* the source database fails while connecting or streaming
    "platform",   \* a platform statement fails, before or after its commit
    "cancel",     \* the context of a sync is cancelled
    "crash" }     \* the process dies and is restarted

ASSUME ConstantsAssumption ==
  /\ IsFiniteSet(Keys)
  /\ Nil \notin Vals
  /\ MaxJobs \in Nat
  /\ MaxClock \in Nat
  /\ BufCap \in Nat
  /\ Faults \subseteq AllFaults

VARIABLES
  clock,        \* time.Now().Unix()
  rows,         \* ingested_rows of the table, by row_key
  changes,      \* the change log of the table, by row_key, oldest first
  jobs,         \* sync_jobs of the table; a job's id is its index
  snapshots,    \* snapshots of the table
  table,        \* last_snapshot_version and last_row_count of the table
  sourceStatus, \* sources.status
  pc,           \* where each worker stands in SyncTable
  cancelled,    \* the worker's ctx is done
  run,          \* the local variables of each worker
  unlogged,     \* history: keys for which a write or its log entry was lost
  abandoned     \* history: jobs whose worker could not record how they ended

platform == <<rows, changes, jobs, snapshots, table, sourceStatus>>
history == <<unlogged, abandoned>>
vars == <<clock, platform, pc, cancelled, run, history>>

----------------------------------------------------------------------------
(* Values *)

Version == Nat    \* bounded by MaxClock through Tick
JobId == Nat      \* 0 is "no job"; bounded by MaxJobs through BeginSync

NoStats == [ins |-> 0, upd |-> 0, unch |-> 0, del |-> 0]
Stats == [ins : Nat, upd : Nat, unch : Nat, del : Nat]
RowsScanned(s) == s.ins + s.upd + s.unch

\* A row that was never ingested has no content.
NoRow == [val |-> Nil, seen |-> 0, deleted |-> FALSE]
Row == [val : Vals \cup {Nil}, seen : Version, deleted : BOOLEAN]
Ingested(k) == rows[k].val # Nil
Live(k) == Ingested(k) /\ ~rows[k].deleted

Change == [op : {"INSERT", "UPDATE", "DELETE"}, job : JobId, ver : Version,
           old : Vals \cup {Nil}, new : Vals \cup {Nil}]
Job == [status : {"pending", "running", "completed", "failed"},
        ver : Version, stats : Stats]
Snapshot == [ver : Version, job : JobId, stats : Stats]

\* job: SyncJob.ID, ver: version, snap: what the source query reads,
\* pend: rows of snap not yet received from rowCh, key and old: the row at
\* hand and the stored data found for it, stats: the counters of
\* runFullSync, dels: deletedKeys not yet logged.
Run == [job : JobId, ver : Version, snap : [Keys -> Vals \cup {Nil}],
        pend : SUBSET Keys, key : Keys \cup {Nil}, old : Vals \cup {Nil},
        stats : Stats, dels : SUBSET Keys]
NoRun == [job |-> 0, ver |-> 0, snap |-> [k \in Keys |-> Nil], pend |-> {},
          key |-> Nil, old |-> Nil, stats |-> NoStats, dels |-> {}]

PCs == { "idle",      \* not in SyncTable
         "start",     \* the job is pending
         "version",   \* the job is running
         "open",      \* version taken
         "stream",    \* in the range over rowCh
         "upsert",    \* UpsertRow has looked the row up
         "log",       \* a new or changed row was written
         "mark",      \* rowCh and errCh are closed, no error
         "deleted",   \* stale rows are marked, DELETEs to be logged
         "logdel",    \* old data of one deleted row was read
         "stats",     \* CompleteSyncJob was called
         "snapshot",  \* UpdateTableSyncStats was called
         "close",     \* returning an error, conn.Close() to run
         "fail",      \* connector closed
         "srcerr" }   \* FailSyncJob was called

----------------------------------------------------------------------------
(* Statements                                                              *)
(*                                                                         *)
(* A statement on the platform database is applied and acknowledged, or    *)
(* not applied and an error, or applied and the acknowledgement is lost.   *)
(* Once the context is done pgx refuses the statement.  (A cancellation    *)
(* that overtakes a statement in flight is that statement followed by      *)
(* Cancel: the next statement fails and the database is the same.)         *)

Outcomes(w) ==
  CASE cancelled[w] -> {"error"}
    [] ~cancelled[w] /\ "platform" \in Faults -> {"ok", "error", "lost"}
    [] OTHER -> {"ok"}

Applied(o) == o # "error"

Goto(w, label) == pc' = [pc EXCEPT ![w] = label]
Return(w) ==
  /\ Goto(w, "idle")
  /\ run' = [run EXCEPT ![w] = NoRun]
  /\ cancelled' = [cancelled EXCEPT ![w] = FALSE]

\* The keys of rows that w has written and not logged yet.
Owed(w) == run[w].dels \cup (IF pc[w] \in {"log", "logdel"} THEN {run[w].key} ELSE {})

\* The history variables after a step that may leave these keys without the log
\* entry of a write, or this job without its worker.
Unlogs(keys, logged) == IF logged THEN unlogged ELSE unlogged \cup keys
Abandons(job, recorded) == IF recorded THEN abandoned ELSE abandoned \cup {job}

----------------------------------------------------------------------------
(* SyncTable up to the call of runFullSync *)

\* The id of the job that is created next.
StaleJobId == Len(jobs)   \* mutant: the id of the job before
NewJobId == Len(jobs) + 1

\* CreateSyncJob.  An error returns to the caller; if the acknowledgement is
\* lost the row of the job stays "pending" for ever.
BeginSync(w) ==
  /\ pc[w] = "idle"
  /\ Len(jobs) < MaxJobs
  /\ \E o \in Outcomes(w) \ {"error"} :
       /\ jobs' = Append(jobs, [status |-> "pending", ver |-> 0, stats |-> NoStats])
       /\ IF o = "ok"
          THEN /\ Goto(w, "start")
               /\ run' = [run EXCEPT ![w].job = NewJobId]
          ELSE UNCHANGED <<pc, run>>
       /\ abandoned' = Abandons(NewJobId, o = "ok")
  /\ UNCHANGED <<clock, rows, changes, snapshots, table, sourceStatus, cancelled, unlogged>>

\* Mutant StatusOfTable: UPDATE sync_jobs ... WHERE table_id, not WHERE id.
StatusOfTable(j, status) ==
  jobs' = [i \in 1..Len(jobs) |-> [jobs[i] EXCEPT !.status = status]]
SetStatus(j, status) == jobs' = [jobs EXCEPT ![j].status = status]

\* StartSyncJob.  An error returns at once: FailSyncJob is not called.
StartJob(w) ==
  /\ pc[w] = "start"
  /\ \E o \in Outcomes(w) :
       /\ IF Applied(o) THEN SetStatus(run[w].job, "running") ELSE UNCHANGED jobs
       /\ IF o = "ok"
          THEN Goto(w, "version") /\ UNCHANGED <<run, cancelled>>
          ELSE Return(w)
       /\ abandoned' = Abandons(run[w].job, o = "ok")
  /\ UNCHANGED <<clock, rows, changes, snapshots, table, sourceStatus, unlogged>>

----------------------------------------------------------------------------
(* runFullSync: the stream *)

\* The version is the wall clock in seconds, read before the source query.
TakeVersion(w) ==
  /\ pc[w] = "version"
  /\ run' = [run EXCEPT ![w].ver = clock]
  /\ Goto(w, "open")
  /\ UNCHANGED <<clock, platform, cancelled, history>>

\* connectorForSource and StreamRows: the query sees one snapshot of the
\* source table, whatever it holds now.
OpenStream(w) ==
  /\ pc[w] = "open"
  /\ \E snap \in [Keys -> Vals \cup {Nil}] :
       run' = [run EXCEPT ![w].snap = snap,
                          ![w].pend = {k \in Keys : snap[k] # Nil}]
  /\ Goto(w, "stream")
  /\ UNCHANGED <<clock, platform, cancelled, history>>

\* The connector cannot be opened: there is nothing to close.  (pgxpool.New
\* does not dial, so a context that is done is noticed by the query.)
ConnectError(w) ==
  /\ pc[w] = "open"
  /\ "source" \in Faults
  /\ Goto(w, "fail")
  /\ UNCHANGED <<clock, platform, cancelled, run, history>>

\* A row is received and UpsertRow looks up the stored row.  Rows arrive in
\* no particular order (the query has no ORDER BY).
NextRow(w) ==
  /\ pc[w] = "stream"
  /\ \E k \in run[w].pend, o \in Outcomes(w) :
       IF o = "ok"
       THEN /\ run' = [run EXCEPT ![w].pend = @ \ {k}, ![w].key = k,
                                  ![w].old = rows[k].val]
            /\ Goto(w, "upsert")
       ELSE /\ run' = [run EXCEPT ![w].pend = @ \ {k}]
            /\ Goto(w, "close")
  /\ UNCHANGED <<clock, platform, cancelled, history>>

\* Mutant: errCh is read before rowCh is drained.
StreamErrorEarly(w) ==
  /\ pc[w] = "stream"
  /\ "source" \in Faults \/ cancelled[w]
  /\ Goto(w, "close")
  /\ UNCHANGED <<clock, platform, cancelled, run, history>>

\* Mutant: errCh is not read.
IgnoreStreamError(w) ==
  /\ pc[w] = "stream"
  /\ "source" \in Faults \/ cancelled[w]
  /\ run' = [run EXCEPT ![w].pend = {}]
  /\ Goto(w, "mark")
  /\ UNCHANGED <<clock, platform, cancelled, history>>

\* The producer gave up: rowCh is closed early, errCh holds the error.
StreamError(w) ==
  /\ pc[w] = "stream"
  /\ "source" \in Faults \/ cancelled[w]
  /\ run' = [run EXCEPT ![w].pend = {}]
  /\ Goto(w, "close")
  /\ UNCHANGED <<clock, platform, cancelled, history>>

EndOfStream(w) ==
  /\ pc[w] = "stream"
  /\ run[w].pend = {}
  /\ Goto(w, "mark")
  /\ UNCHANGED <<clock, platform, cancelled, run, history>>

\* The second statement of UpsertRow.  What it writes depends on the row the
\* FIRST statement found: none (INSERT), another content (UPDATE), the same
\* content (touch: the watermark alone, is_deleted is left as it is).
\* Mutant UntouchedRow: an unchanged row is left alone.
UntouchedRow(cur, old, new, ver) ==
  IF old = new THEN cur ELSE [val |-> new, seen |-> ver, deleted |-> FALSE]
UpsertedRow(cur, old, new, ver) ==
  IF old = new THEN [cur EXCEPT !.seen = ver]
               ELSE [val |-> new, seen |-> ver, deleted |-> FALSE]

\* UNIQUE (table_id, row_key): another worker inserted the row meanwhile.
\* Mutant NoUniqueKey: the table has no such constraint.
NoUniqueKey(old, cur) == FALSE
UniqueViolation(old, cur) == old = Nil /\ cur.val # Nil

\* Mutant CountTouched: an unchanged row counts as an update.
CountTouched(s, old, new) ==
  IF old = Nil THEN [s EXCEPT !.ins = @ + 1] ELSE [s EXCEPT !.upd = @ + 1]
CountRow(s, old, new) ==
  CASE old = Nil -> [s EXCEPT !.ins = @ + 1]
    [] old = new -> [s EXCEPT !.unch = @ + 1]
    [] OTHER     -> [s EXCEPT !.upd = @ + 1]

\* Mutant LogNewOnly: updates are not logged.
LogNewOnly(old, new) == IF old = Nil THEN "log" ELSE "stream"
AfterUpsert(old, new) == IF old = new THEN "stream" ELSE "log"

Upsert(w) ==
  LET k == run[w].key
      old == run[w].old
      new == run[w].snap[k]
      violated == UniqueViolation(old, rows[k])
  IN
  /\ pc[w] = "upsert"
  /\ \E o \in Outcomes(w) :
       /\ rows' = IF Applied(o) /\ ~violated
                  THEN [rows EXCEPT ![k] = UpsertedRow(@, old, new, run[w].ver)]
                  ELSE rows
       /\ IF o = "ok" /\ ~violated
          THEN /\ run' = [run EXCEPT ![w].stats = CountRow(@, old, new)]
               /\ Goto(w, AfterUpsert(old, new))
          ELSE /\ Goto(w, "close")
               /\ UNCHANGED run
       /\ unlogged' = Unlogs({k}, violated \/ old = new \/ o # "lost")
  /\ UNCHANGED <<clock, changes, jobs, snapshots, table, sourceStatus, cancelled, abandoned>>

\* InsertChange for the row just written; its error is ignored.
\* Mutant ChangeAfterWrite: the old data is read back after the write.
ChangeAfterWrite(r) ==
  [op |-> IF r.old = Nil THEN "INSERT" ELSE "UPDATE", job |-> r.job,
   ver |-> r.ver, old |-> IF r.old = Nil THEN Nil ELSE r.snap[r.key],
   new |-> r.snap[r.key]]
RowChange(r) ==
  [op |-> IF r.old = Nil THEN "INSERT" ELSE "UPDATE", job |-> r.job,
   ver |-> r.ver, old |-> r.old, new |-> r.snap[r.key]]

\* Mutant RetryChange: a change that could not be logged is upserted again.
RetryChange(w) ==
  /\ pc[w] = "log"
  /\ \E o \in Outcomes(w) :
       /\ changes' = IF Applied(o)
                     THEN [changes EXCEPT ![run[w].key] = Append(@, RowChange(run[w]))]
                     ELSE changes
       /\ Goto(w, IF o = "ok" THEN "stream" ELSE "upsert")
  /\ UNCHANGED <<clock, rows, jobs, snapshots, table, sourceStatus, cancelled, run, history>>

LogChange(w) ==
  LET k == run[w].key IN
  /\ pc[w] = "log"
  /\ \E o \in Outcomes(w) :
       /\ changes' = IF Applied(o)
                     THEN [changes EXCEPT ![k] = Append(@, RowChange(run[w]))]
                     ELSE changes
       /\ unlogged' = Unlogs({k}, Applied(o))
  /\ Goto(w, "stream")
  /\ UNCHANGED <<clock, rows, jobs, snapshots, table, sourceStatus, cancelled, run, abandoned>>

----------------------------------------------------------------------------
(* runFullSync: deletes *)

\* The rows MarkDeletedRows selects.
\* Mutant SeenKeys: last_seen_version <= $2.
SeenKeys(ver) == {k \in Keys : Live(k) /\ rows[k].seen <= ver}
StaleKeys(ver) == {k \in Keys : Live(k) /\ rows[k].seen < ver}

CountDeleted(s, stale) == [s EXCEPT !.del = Cardinality(stale)]

\* MarkDeletedRows, one UPDATE ... RETURNING row_key.
MarkDeleted(w) ==
  LET stale == StaleKeys(run[w].ver) IN
  /\ pc[w] = "mark"
  /\ \E o \in Outcomes(w) :
       /\ rows' = IF Applied(o)
                  THEN [k \in Keys |-> IF k \in stale
                                       THEN [rows[k] EXCEPT !.deleted = TRUE]
                                       ELSE rows[k]]
                  ELSE rows
       /\ IF o = "ok"
          THEN /\ run' = [run EXCEPT ![w].dels = stale,
                                     ![w].stats = CountDeleted(@, stale)]
               /\ Goto(w, "deleted")
          ELSE Goto(w, "close") /\ UNCHANGED run
       /\ unlogged' = Unlogs(stale, o # "lost")
  /\ UNCHANGED <<clock, changes, jobs, snapshots, table, sourceStatus, cancelled, abandoned>>

\* GetDeletedRowData for one of the deleted keys; on error the old data of
\* the change is empty.
ReadDeleted(w) ==
  /\ pc[w] = "deleted"
  /\ \E k \in run[w].dels, o \in Outcomes(w) :
       /\ run' = [run EXCEPT ![w].dels = @ \ {k}, ![w].key = k,
                             ![w].old = IF o = "ok" THEN rows[k].val ELSE Nil]
       /\ unlogged' = Unlogs({k}, o = "ok")
  /\ Goto(w, "logdel")
  /\ UNCHANGED <<clock, platform, cancelled, abandoned>>

DeleteChange(r) ==
  [op |-> "DELETE", job |-> r.job, ver |-> r.ver, old |-> r.old, new |-> Nil]

LogDelete(w) ==
  LET k == run[w].key IN
  /\ pc[w] = "logdel"
  /\ \E o \in Outcomes(w) :
       /\ changes' = IF Applied(o)
                     THEN [changes EXCEPT ![k] = Append(@, DeleteChange(run[w]))]
                     ELSE changes
       /\ unlogged' = Unlogs({k}, Applied(o))
  /\ Goto(w, "deleted")
  /\ UNCHANGED <<clock, rows, jobs, snapshots, table, sourceStatus, cancelled, run, abandoned>>

----------------------------------------------------------------------------
(* SyncTable after runFullSync; the three errors on the success path are   *)
(* logged and ignored, and so are the two on the failure path.             *)

\* CompleteSyncJob.  runFullSync has returned: the deferred Close of the
\* connector has run, and there is no row left to wait for.
CompleteJob(w) ==
  /\ pc[w] = "deleted"
  /\ run[w].dels = {}
  /\ \E o \in Outcomes(w) :
       /\ jobs' = IF Applied(o)
                  THEN [jobs EXCEPT ![run[w].job] =
                          [status |-> "completed", ver |-> run[w].ver,
                           stats |-> run[w].stats]]
                  ELSE jobs
       /\ abandoned' = Abandons(run[w].job, Applied(o))
  /\ Goto(w, "stats")
  /\ UNCHANGED <<clock, rows, changes, snapshots, table, sourceStatus, cancelled, run, unlogged>>

\* Mutant SwappedStats: the two int64 arguments change places.
SwappedStats(r) == [lastVer |-> RowsScanned(r.stats), count |-> r.ver]
TableStats(r) == [lastVer |-> r.ver, count |-> RowsScanned(r.stats)]

UpdateTableSyncStats(w) ==
  /\ pc[w] = "stats"
  /\ \E o \in Outcomes(w) :
       table' = IF Applied(o) THEN TableStats(run[w]) ELSE table
  /\ Goto(w, "snapshot")
  /\ UNCHANGED <<clock, rows, changes, jobs, snapshots, sourceStatus, cancelled, run, history>>

\* ON CONFLICT (table_id, version) DO NOTHING
\* Mutant AnySnapshot: no UNIQUE (table_id, version).
AnySnapshot(s) == snapshots \cup {s}
AddSnapshot(s) ==
  IF \E t \in snapshots : t.ver = s.ver THEN snapshots ELSE snapshots \cup {s}

CreateSnapshot(w) ==
  /\ pc[w] = "snapshot"
  /\ \E o \in Outcomes(w) :
       snapshots' = IF Applied(o)
                    THEN AddSnapshot([ver |-> run[w].ver, job |-> run[w].job,
                                      stats |-> run[w].stats])
                    ELSE snapshots
  /\ Return(w)
  /\ UNCHANGED <<clock, rows, changes, jobs, table, sourceStatus, history>>

\* The deferred conn.Close() on an error path.  pgxpool's Close waits for
\* the connection of the source query, which the producer gives back when it
\* has sent its last row; nobody receives any more, so the rows left have to
\* fit into the channel, unless the context of the producer is done.
CanClose(w) == Cardinality(run[w].pend) <= BufCap \/ cancelled[w]

\* Unless the source fails before the channel is full: then the producer gives
\* its connection back.  Nobody reads its error.
ProducerFails(w) ==
  /\ pc[w] = "close"
  /\ "source" \in Faults
  /\ run[w].pend # {}
  /\ run' = [run EXCEPT ![w].pend = {}]
  /\ UNCHANGED <<clock, platform, pc, cancelled, history>>

CloseConn(w) ==
  /\ pc[w] = "close"
  /\ CanClose(w)
  /\ Goto(w, "fail")
  /\ UNCHANGED <<clock, platform, cancelled, run, history>>

\* Mutant: FailSyncJob is forgotten.
SkipFailJob(w) ==
  /\ pc[w] = "fail"
  /\ Goto(w, "srcerr")
  /\ UNCHANGED <<clock, platform, cancelled, run, history>>

FailJob(w) ==
  /\ pc[w] = "fail"
  /\ \E o \in Outcomes(w) :
       /\ IF Applied(o) THEN SetStatus(run[w].job, "failed") ELSE UNCHANGED jobs
       /\ abandoned' = Abandons(run[w].job, Applied(o))
  /\ Goto(w, "srcerr")
  /\ UNCHANGED <<clock, rows, changes, snapshots, table, sourceStatus, cancelled, run, unlogged>>

MarkSourceError(w) ==
  /\ pc[w] = "srcerr"
  /\ \E o \in Outcomes(w) :
       sourceStatus' = IF Applied(o) THEN "error" ELSE sourceStatus
  /\ Return(w)
  /\ UNCHANGED <<clock, rows, changes, jobs, snapshots, table, history>>

----------------------------------------------------------------------------
(* The environment *)

\* The caller's context is done: the HTTP request ended or its client left.
Cancel(w) ==
  /\ "cancel" \in Faults
  /\ pc[w] # "idle"
  /\ ~cancelled[w]
  /\ cancelled' = [cancelled EXCEPT ![w] = TRUE]
  /\ UNCHANGED <<clock, platform, pc, run, history>>

\* The process dies with all its workers.  The new process repairs nothing:
\* main.go and Scheduler.Start read no job.
Crash ==
  /\ "crash" \in Faults
  /\ \E w \in Workers : pc[w] # "idle"
  /\ pc' = [w \in Workers |-> "idle"]
  /\ run' = [w \in Workers |-> NoRun]
  /\ cancelled' = [w \in Workers |-> FALSE]
  /\ unlogged' = unlogged \cup UNION {Owed(w) : w \in Workers}
  /\ abandoned' = abandoned \cup {run[w].job : w \in {v \in Workers : pc[v] # "idle"}}
  /\ UNCHANGED <<clock, platform>>

Tick ==
  /\ clock < MaxClock
  /\ clock' = clock + 1
  /\ UNCHANGED <<platform, pc, cancelled, run, history>>

----------------------------------------------------------------------------
(* Specification *)

\* A table that was discovered and never synced.
Init ==
  /\ clock = 1
  /\ rows = [k \in Keys |-> NoRow]
  /\ changes = [k \in Keys |-> <<>>]
  /\ jobs = <<>>
  /\ snapshots = {}
  /\ table = [lastVer |-> 0, count |-> 0]
  /\ sourceStatus = "discovered"
  /\ pc = [w \in Workers |-> "idle"]
  /\ cancelled = [w \in Workers |-> FALSE]
  /\ run = [w \in Workers |-> NoRun]
  /\ unlogged = {}
  /\ abandoned = {}

\* What the goroutine of w does once it is inside SyncTable.
Step(w) ==
  \/ StartJob(w)
  \/ TakeVersion(w)
  \/ OpenStream(w)
  \/ ConnectError(w)
  \/ NextRow(w)
  \/ StreamError(w)
  \/ EndOfStream(w)
  \/ Upsert(w)
  \/ LogChange(w)
  \/ MarkDeleted(w)
  \/ ReadDeleted(w)
  \/ LogDelete(w)
  \/ CompleteJob(w)
  \/ UpdateTableSyncStats(w)
  \/ CreateSnapshot(w)
  \/ CloseConn(w)
  \/ FailJob(w)
  \/ MarkSourceError(w)

Next ==
  \/ \E w \in Workers : BeginSync(w) \/ Step(w) \/ ProducerFails(w) \/ Cancel(w)
  \/ Crash
  \/ Tick

Spec == Init /\ [][Next]_vars

\* A goroutine that can go on goes on; nobody has to start a sync.
Fairness == \A w \in Workers : WF_vars(Step(w))
FairSpec == Spec /\ Fairness

----------------------------------------------------------------------------
(* Properties *)

\* The platform database and the workers hold what their columns and Go types
\* allow; a worker inside SyncTable has a job that exists, and the row it has
\* at hand is one its snapshot holds.
PlatformTypeOK ==
  /\ rows \in [Keys -> Row]
  /\ changes \in [Keys -> Seq(Change)]
  /\ jobs \in Seq(Job)
  /\ snapshots \subseteq Snapshot
  /\ table \in [lastVer : Version, count : Nat]
  /\ sourceStatus \in {"discovered", "error"}
WorkerTypeOK ==
  /\ pc \in [Workers -> PCs]
  /\ cancelled \in [Workers -> BOOLEAN]
  /\ run \in [Workers -> Run]
AtHandOK ==
  \A w \in Workers :
    /\ pc[w] # "idle" => run[w].job \in 1..Len(jobs)
    /\ pc[w] \in {"stream", "upsert", "log"} => run[w].pend \subseteq {k \in Keys : run[w].snap[k] # Nil}
    /\ pc[w] \in {"upsert", "log"} => run[w].key \in Keys /\ run[w].snap[run[w].key] # Nil
    /\ pc[w] = "logdel" => run[w].key \in Keys
HistoryOK == unlogged \subseteq Keys /\ abandoned \subseteq 1..Len(jobs)
TypeOK ==
  /\ clock \in Nat
  /\ PlatformTypeOK
  /\ WorkerTypeOK
  /\ AtHandOK
  /\ HistoryOK

\* MarkDeletedRows deletes no row that the worker's own source snapshot
\* holds (sync.go:165 "Mark rows not seen in this sync as deleted").  True of
\* a worker that is alone on the table, whatever fails around it.
DeletesOnlyAbsent ==
  [][ \A k \in Keys : Live(k) /\ rows'[k].deleted =>
        \E w \in Workers :
          pc[w] = "mark" /\ pc'[w] # "mark" /\ run[w].snap[k] = Nil ]_vars

\* From MarkDeletedRows to the end of its sync a worker that is alone sees
\* its snapshot in ingested_rows: each source row is stored with the source's
\* content and this version, and a row the source does not have is live only
\* if a sync of the same second stored it.
Marked(w) == pc[w] \in {"deleted", "logdel", "stats", "snapshot"}
SyncedRunMirrorsSource ==
  \A w \in Workers : Marked(w) =>
    \A k \in Keys :
      IF run[w].snap[k] = Nil
      THEN Live(k) => rows[k].seen = run[w].ver
      ELSE rows[k].val = run[w].snap[k] /\ rows[k].seen = run[w].ver

\* The log of a key, replayed, gives its row, except between the statement
\* that writes the row and the InsertChange that follows it, and except for a
\* key of which a write or an entry was lost (sync.go ignores the errors of
\* InsertChange and GetDeletedRowData, and returns on those of the others).
LogPending(k) == \E w \in Workers : k \in Owed(w)
LastChange(k) == changes[k][Len(changes[k])]
DataAfter(e) == IF e.op = "DELETE" THEN e.old ELSE e.new
Replays(k) ==
  IF changes[k] = <<>> THEN ~Ingested(k)
  ELSE /\ Ingested(k)
       /\ rows[k].val = DataAfter(LastChange(k))
       /\ rows[k].deleted <=> LastChange(k).op = "DELETE"
LogReplays == \A k \in Keys \ unlogged : ~LogPending(k) => Replays(k)

\* The entries of such a key chain (sql-engine README, "Change log"): the first
\* is the only INSERT, each later one starts from the data the one before it
\* left, a DELETE is followed by an UPDATE only, and versions do not go back.
Follows(p, e) ==
  /\ e.old = DataAfter(p)
  /\ p.op = "DELETE" => e.op = "UPDATE"
  /\ p.ver <= e.ver
IsChain(s) ==
  \A i \in 1..Len(s) :
    /\ s[i].op = "INSERT" <=> i = 1
    /\ i > 1 => Follows(s[i - 1], s[i])
LogChains == \A k \in Keys \ unlogged : IsChain(changes[k])

\* A job that is not over has a worker that will end it, unless its row was
\* created without an acknowledgement, its start or its end could not be
\* recorded, or the process died: these are the jobs that stay pending or
\* running for ever, and there are no others.
NoOrphanJobs ==
  \A j \in 1..Len(jobs) : jobs[j].status \in {"pending", "running"} =>
    \/ j \in abandoned
    \/ \E w \in Workers : pc[w] # "idle" /\ run[w].job = j

\* Nobody reports on a job that is not its own, or twice: however many syncs
\* overlap, a job goes from pending to running to completed or failed (sql-engine
\* README, "status values"), and the record of a job that is over is final.
JobFlow == {<<"pending", "running">>, <<"running", "completed">>, <<"running", "failed">>}
JobsMoveForward ==
  [][ /\ Len(jobs') >= Len(jobs)
      /\ \A j \in 1..Len(jobs) :
           jobs'[j] = jobs[j] \/ <<jobs[j].status, jobs'[j].status>> \in JobFlow
      /\ \A j \in Len(jobs) + 1..Len(jobs') : jobs'[j].status = "pending" ]_vars

\* last_snapshot_version of the table never goes back, and snapshots are taken
\* in the order of their versions, whatever fails around a worker that is alone.
WatermarkMonotone ==
  [][ /\ table'.lastVer >= table.lastVer
      /\ \A s \in snapshots, t \in snapshots' \ snapshots : s.ver < t.ver ]_vars

\* A sync that was started ends (sql-engine README, "status values": pending,
\* running, then completed or failed).
SyncTerminates == \A w \in Workers : pc[w] # "idle" ~> pc[w] = "idle"

\* What is left to do for a sync, as a number: every row costs at most five steps
\* (receive, upsert, log; read and log if it is to be deleted).
TailWork ==
  [ idle |-> 0, srcerr |-> 1, snapshot |-> 1, fail |-> 2, stats |-> 2, close |-> 3,
    deleted |-> 4, logdel |-> 5, mark |-> 5, stream |-> 6, log |-> 7, upsert |-> 8,
    open |-> 7, version |-> 8, start |-> 9 ]
RowWork(w) ==
  CASE pc[w] \in {"deleted", "logdel"} -> 2 * Cardinality(run[w].dels)
    [] pc[w] = "mark" -> 2 * Cardinality(Keys)
    [] pc[w] \in {"stream", "upsert", "log"} -> 2 * Cardinality(Keys) + 3 * Cardinality(run[w].pend)
    [] pc[w] \in {"start", "version", "open"} -> 5 * Cardinality(Keys)
    [] OTHER -> 0
Work(w) == TailWork[pc[w]] + RowWork(w)

\* No loop of a sync goes round for ever: each of its statements, whatever its
\* outcome, brings the sync nearer to its end, and nothing that the other workers
\* or the environment do puts it back.  A sync ends after at most 5n + 9 steps of
\* its own, n the number of row keys; nothing is retried (sync.go).
WorkShrinks ==
  [][ \A w \in Workers :
        /\ pc[w] # "idle" => Work(w)' <= Work(w)
        /\ Step(w) => Work(w)' < Work(w) ]_vars

\* Until the process dies every worker keeps to the contract of its connector
\* (StreamContract, which RowStream implements): it goes on to MarkDeletedRows
\* only from a complete stream, and closes a connector it has stopped reading
\* only when that is possible.
StreamState(w) ==
  CASE pc[w] \in {"stream", "upsert", "log"} -> "open"
    [] pc[w] \in {"mark", "deleted", "logdel"} -> "complete"
    [] pc[w] = "close" -> "abandoned"
    [] OTHER -> "closed"
Left(w) == IF StreamState(w) = "closed" THEN 0 ELSE Cardinality(run[w].pend)
Stream(w) == INSTANCE StreamContract WITH
  MayFail <- "source" \in Faults, left <- Left(w), state <- StreamState(w),
  cancelled <- cancelled[w]
StreamsKeepContract ==
  /\ \A w \in Workers : Stream(w)!Init
  /\ [][ Crash \/ \A w \in Workers : [Stream(w)!Next]_(Stream(w)!vars) ]_vars

\* However many syncs overlap and whatever fails, the log holds at most one
\* INSERT for a key, and a key that has one is stored.
Inserts(k) == {i \in 1..Len(changes[k]) : changes[k][i].op = "INSERT"}
OneInsertPerKey ==
  \A k \in Keys :
    /\ \A i, j \in Inserts(k) : i = j
    /\ Inserts(k) # {} => Ingested(k)

\* As long as the database accepts the statements of a live context, the
\* counters of a completed job are the numbers of its entries in the log.
Logged(j, op) ==
  LET Entries(k) == {i \in 1..Len(changes[k]) :
                       changes[k][i].job = j /\ changes[k][i].op = op}
  IN Cardinality(UNION { {k} \X Entries(k) : k \in Keys })
StatsMatchLog ==
  \A j \in 1..Len(jobs) : jobs[j].status = "completed" =>
    /\ Logged(j, "INSERT") = jobs[j].stats.ins
    /\ Logged(j, "UPDATE") = jobs[j].stats.upd
    /\ Logged(j, "DELETE") = jobs[j].stats.del

\* As long as the database accepts the statements of a live context, a
\* snapshot is the record of a completed job (sql-engine README, "Each
\* snapshot corresponds to one completed sync run"), of its version and with
\* its counters, and the jobs whose snapshot was dropped have a twin of the
\* same second.
SnapshotsAreCompletedRuns ==
  /\ \A s \in snapshots :
       jobs[s.job] = [status |-> "completed", ver |-> s.ver, stats |-> s.stats]
  /\ \A s, t \in snapshots : s.ver = t.ver => s = t
=============================================================================
