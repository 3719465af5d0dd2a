# Specifications of the manju backend

TLA+ specifications of the two services of this repository, model-checked with
TLC on small instances and proved, as far as they go, with TLAPS.

* `core-services-sql-engine` (the *SQL digestion engine*) copies tables of
  source databases into the platform database, keeps a change log and a
  snapshot history, and does so from cron and from HTTP requests.
* `core-services-object-store` (the *file store*) keeps objects in an
  S3-compatible backend and one row per object in the platform database.

Paths below are relative to `src/`; `digestion/` stands for
`core-services-sql-engine/internal/digestion/`, `filestore/` for
`core-services-object-store/pkg/filestore/`.

## Inventory

| Component | State it keeps | Operations | Hard part | What makes it correct |
|---|---|---|---|---|
| Table sync (`digestion/sync.go`) | none of its own; drives `ingested_rows`, `changes`, `sync_jobs`, `snapshots`, table statistics | `SyncTable`, `runFullSync` | about a dozen statements in autocommit, some with ignored errors; nothing keeps two syncs off one table; the request context ends early; restart | a completed sync mirrors the source; nothing is deleted that the source holds; the log replays to the table; jobs end |
| Row stream (`digestion/connector/postgres.go`) | a goroutine, `rowCh` (100), `errCh` (1), one pool connection | `StreamRows`, `Close` | error and end of stream arrive on two channels; a reader that stops; `Close` waits for the connection | no silent truncation; the goroutine ends and returns the connection |
| Platform store (`digestion/store/store.go`) | the tables of `init-platform.sql` | one method per statement | look-up and write of a row are two statements; unique keys; `ON CONFLICT DO NOTHING` | constraints meet concurrency |
| Scheduler (`digestion/scheduler.go`) | `entries` (source to cron entry) under a mutex, the cron table | `Start`, `ScheduleSource`, `UnscheduleSource`, `Stop` | HTTP handlers call it around their database statements; it forgets everything at a restart | a cron entry exists exactly for a sync-enabled source |
| Engine and handlers (`engine.go`, `internal/api/handlers/digestion.go`) | `sources` | create, delete, discover, sync | two stores updated one after the other; a goroutine that outlives its request | a deleted source is not synced; an accepted sync runs |
| Source sync (`sync.go:15`) | none; writes `sources.last_sync_at` | `SyncSource` | one table fails among others; the source is deleted meanwhile | last_sync_at means that every table was synced |
| Discovery (`digestion/discovery.go`, catalog queries of `connector/postgres.go`) | none of its own; writes `discovered_tables`, `_columns`, `_foreign_keys`, `sources.status` | `Discover` | a query per table, at its own moment; upserts and delete-then-insert without a transaction; a join on names | whatever an earlier discovery left, one undisturbed discovery repairs the catalog; nothing outlives its source |
| Row keys and change detection (`sync.go:187`, `changes.go`, `normalizeValue`) | none | `buildRowKey`, `computeHash`, `changedColumns` | map order, unescaped separator, absent against null, float64 | live rows are the snapshot's; the log is the difference between two snapshots; changed columns are named |
| Catalog reads (`catalog.go`) | none | one SELECT each | | |
| File store (`filestore/store.go`, `pgstore.go`, `minio.go`) | objects, `stored_files`, the emitted events | `Upload`, `Download`, `Delete`, `UpdateStatus`; reads | two stores without a transaction; best-effort clean-up under a request's context; racing requests | an answered upload stays; a file is deleted once; no orphan objects |
| HTTP APIs (`internal/api` of both services) | none | parse, call, answer | contexts that end with the request | |
| Start-up, deployment, seed data | environment | `main` | nothing is repaired at start | |

How they interact. HTTP handlers and the cron library call the engine; the engine
opens a connector per sync, reads its row stream over channels, and sends
statements to the store. The scheduler is called by the handlers that create and
delete sources. The file store is called by its own handlers only; it reports
lifecycle events to an `EventEmitter` (a log, in the server). The two services
share the PostgreSQL database but no table. The hazards this leads to are listed,
each at its line, in `PROJECT.json`.

## Modules

| Module | What it is |
|---|---|
| `TableSync` | one source table, any number of workers inside `SyncTable`, the platform database, the faults around them |
| `MCTableSync` | its fault sets and symmetry for TLC |
| `TableSyncProofs` | theorems about types, inserts, mirroring and jobs |
| `TableSyncLogProofs` | theorems about the watermark, the snapshots and the change log |
| `TableSyncRunProofs` | theorems about one run: its counters, its stream, its job, its end |
| `RowKeys` | pure operators: what a sync makes of one source row - its normalised values, its key, its JSON, the changed columns |
| `KeyedTable` | successive syncs of one table at the level of its data, over `RowKeys` |
| `MCKeyedTable` | the values and the source tables TLC runs them on |
| `KeyedTableProofs` | theorems about both |
| `StreamContract` | abstract: what a sync may rely on when it reads a stream |
| `RowStream` | the goroutine, the channels and the connection of `StreamRows`; implements `StreamContract` |
| `MCRowStream` | the module TLC runs |
| `RowStreamProofs` | theorems about types, the refinement, who waits for whom, and the end of a stream |
| `Discovery` | requests inside `Discover`, the schema of the source, the catalog tables, deletes and faults |
| `MCDiscovery` | its schemas, fault set and symmetry for TLC |
| `DiscoveryProofs` | theorems about it |
| `Scheduler` | sources, their cron entries, the requests that create and delete them, `SyncSource`, restarts |
| `MCScheduler` | its fault sets and symmetry for TLC |
| `SchedulerProofs` | theorems about it |
| `FileStore` | objects, `stored_files`, events and any number of requests |
| `MCFileStore` | its fault set and symmetry for TLC |
| `FileStoreProofs` | theorems about it |

`StreamContract` is the joint between the first two subsystems: `RowStream`
implements it (`Contract == Stream!Spec`, a refinement mapping from channel
positions to "rows left"), and `TableSync`, in which the stream is just the set of
rows not yet received, behaves as it allows (`StreamsKeepContract`). Both sides
are proved. `TableSync` therefore need not carry the channels. In the
same way `Scheduler` takes the sync of one table as one step that succeeds or
fails, and `TableSync` has what is inside; a run that cron or a request starts in
`Scheduler` is what begins a worker of `TableSync`, once per table.

`TableSync` and `KeyedTable` are two views of the same code. `TableSync` has every
statement, every overlap and every fault, and takes keys and data as values.
`KeyedTable` has one sync after the other, its failures as a whole, and takes rows
apart: their columns come and go, their primary key is what the last `Discover`
made of it, and two rows may get one key. Neither would be checkable with the
other's detail. `Discovery` is where that primary key comes from.

### TableSync and the code

A worker's `pc` says which statement of `SyncTable`/`runFullSync` is next; `run`
holds its local variables. One statement to the platform database is one action.

| Actions | Code |
|---|---|
| `BeginSync`, `StartJob` | `SyncTable` up to `StartSyncJob`: job pending, running |
| `TakeVersion` | `version := time.Now().Unix()` |
| `ConnectError`, `OpenStream` | `connectorForSource`, `StreamRows`: the snapshot is fixed when the query starts |
| `NextRow`, `Upsert`, `LogChange` | one turn of the row loop: `UpsertRow`'s look-up, its `INSERT`/`UPDATE`/touch, `InsertChange` |
| `StreamError`, `EndOfStream`, `ProducerFails` | `<-errCh`, the end of `rowCh` |
| `MarkDeleted`, `ReadDeleted`, `LogDelete` | `MarkDeletedRows`, `GetDeletedRowData`, `InsertChange` of a DELETE |
| `CompleteJob`, `UpdateTableSyncStats`, `CreateSnapshot` | the success path |
| `CloseConn`, `FailJob`, `MarkSourceError` | the deferred `conn.Close()` and the failure path |
| `Cancel`, `Crash`, `Tick` | end of a request context, death of the process, the clock |

A platform statement has one of the outcomes of `Outcomes`: it succeeds, it fails
without effect, or it takes effect and its reply is lost; under a finished context
it fails. Data and hash of a row are one value, the source table is whatever it is
when the query starts, and a row key is a member of `Keys`.

`unlogged` and `abandoned` are history variables, never read by an action. A key
enters `unlogged` when a write of its row is not followed by its log entry (the
errors of `InsertChange` and `GetDeletedRowData` are ignored, a lost reply ends the
sync, a crash ends everything); a job enters `abandoned` when its start or its end
could not be recorded or its process died. The code gives less than one would
like for exactly these, and the invariants say that it is only these.

### RowKeys, KeyedTable and the code

What Go and PostgreSQL make of a value are functions on an abstract set of values:
`Normal` is `normalizeValue`'s switch, `Text` is `fmt.Sprintf("%v")`, `Join` is
`strings.Join` with `|`, `Json` is `json.Marshal` (some values have none), `Reread`
is a trip through `any`, which turns numbers into `float64`. Nothing is assumed to
be injective but SHA-256. A row is a function from the columns it has.

| Definitions | Code |
|---|---|
| `NormalRow` | `normalizeValue` of each column of a streamed row |
| `RowKey`, `KeyBy`, `Orders` | `buildRowKey`: by the primary key, or by all columns in any order the map gives |
| `HasJson`, `Encoded` | `json.Marshal` of the row, which is hashed and stored |
| `ChangedColumns` | `changedColumns` |
| `Begin`, `ReceiveRow`, `RefuseRow`, `Fail`, `Complete` | one sync: the query, a row with its upsert and its log entry, a row the database refuses, an error, the deletes |
| `ChangeSource`, `Rediscover` | the source table is written or altered; `Discover` replaces `primary_key_columns` |

`before`, `steady` and `keyed` are history: the sync before this one, the rows every
completed sync has received, and whether the key columns have always told the rows
apart.

### Discovery and the code

A client is a request inside `Discover`; `listed`, `ids`, `fresh` and `rows` are its
local results. Each query to the source sees the schema of its moment, each
statement to the platform database commits by itself.

| Actions | Code |
|---|---|
| `BeginDiscover`, `ConnectError`, `MarkConnected` | `GetSource`, `connectorForSource`, `UpdateSourceConnected` |
| `ListTables`, `ReadKey`, `KeysRead` | `DiscoverTables` and `discoverPrimaryKeys`, a query per listed table |
| `UpsertTable`, `ReadColumns`, `InsertColumn` | one turn of the loop over the tables |
| `ReadForeignKeys`, `ClearLinks`, `InsertLink` | `DiscoverForeignKeys`, `DeleteFKsForSource`, `InsertFK` |
| `Finish`, `Fail` | the last `UpdateSourceStatus` |
| `Migrate`, `DeleteSource`, `Cancel`, `Crash` | the schema changes; the source goes, with its catalog by cascade; the request ends; the process dies |

`ForeignKeyRows` is the three-way join of the query, on the name of a constraint and
the schema of its table. A column's description is its type, with all that
`ON CONFLICT` overwrites, and its size, which stands for what it keeps.
`undisturbed` is history: the discovery that began last began alone, and since then
nothing failed, began or changed.

### RowStream and the code

`producer` and `consumer` walk through the goroutine and through the part of
`runFullSync` that reads. The deferred calls run in their order: `rows.Close()`,
`close(errCh)`, `close(rowCh)`. A row is its position, so `rowCh` holds
`received + 1 .. sent`. The pool has one connection that matters: the one the
goroutine holds between `Query` and `rows.Close()`; `pool.Close()` waits for it.

### Scheduler and the code

`row` and `tables` are in the database and survive a restart; `entries` and `cron`
are in the process and do not. A client is a request inside `CreateSource` or
`DeleteSource`, a run a goroutine inside `SyncSource`.

| Actions | Code |
|---|---|
| `Start`, `StartSource`, `Serve`, `Crash` | `main`: `Scheduler.Start` loads the sources and schedules them one by one, then cron and the HTTP server run; the process ends |
| `InsertSource`, `ScheduleCreated` | `CreateSource`: `RegisterSource`, then `ScheduleSource` |
| `BeginDelete`, `DeleteRow` | `DeleteSource`: `UnscheduleSource`, then the row, with its tables by cascade |
| `UpsertTable` | `Discover` adds one table |
| `Fire`, `AcceptSync`, `HandlerReturns` | cron starts a run under `context.Background()`; a request starts one under its own context, which ends when the handler returns |
| `ListTables`, `SyncTable`, `SyncSourceFails`, `UpdateSourceSyncTime` | `SyncSource`: the list, one table, the end with and without `firstErr` |

The mutex makes `ScheduleSource` and `UnscheduleSource` one step each. `AddFunc`
cannot fail: an interval that the INTEGER column holds is always a duration.
`overtaken` and `unfinished` are history variables: they name the sources for
which the code gives less than one would like, and the invariants say that it is
only these.

### FileStore and the code

A client is a request; `pc` is its next call. The backend and the database are
called one after the other, each call one action with the outcomes of `Outcomes`.
A row of `stored_files` is its status and its `is_deleted`; a file without a row
has the status `"none"`. `acked` are the files whose upload was answered.
`UpdateStatus` writes any of the four statuses on any row, as the handler allows.
`stranded` and `disowned` are history: the files whose object a request may have
left behind (a lost reply of `PutObject` or of the soft delete, a refused clean-up,
a crash in between), and those whose upload lost the reply to the INSERT.

## Runs

| Run | Instance | What it shows |
|---|---|---|
| `sync_faults` | 1 worker, 2 keys, 2 contents, 2 jobs; all faults | a sync past `MarkDeletedRows` mirrors its snapshot; it deletes only absent rows; the log of a key nothing was lost of replays and chains; open jobs have a worker or a reason; the watermark does not go back; workers keep the stream contract; every step brings the sync nearer to its end |
| `sync_sequential` | 1 worker, 2 keys, 2 contents, 3 jobs, 2 seconds; source faults; fair | every sync ends; the log chains over a third sync |
| `sync_overlapping` | 2 workers, 2 keys, 2 contents, 2 jobs; source faults, cancellation, crash | one INSERT per key; counters equal the log; snapshots are completed runs; jobs only move forward |
| `keys_tables` | 9 source tables over 2 columns and 11 values; 3 syncs, 2 changes; failures anywhere | live rows are rows of the snapshot; a row that never leaves stays live; the log is the difference of two snapshots; changed columns are named |
| `stream_contract` | up to 4 rows, a channel of 2; the source may fail; fair | the stream implements its contract; the goroutine and the sync wait for each other in one case only; every step brings the end nearer; the connection comes back |
| `discovery_faults` | 2 tables, 2 schemas, 3 discoveries, 2 at a time, 1 schema change, 1 fault of any kind, deletion | the catalog is closed; a source reported as discovered has its tables; one undisturbed discovery repairs the catalog; simple foreign keys are found |
| `sched_faults` | 2 sources, 2 tables, 2 requests and 1 run at a time; all faults, any number of restarts | the map and the cron table agree; cron syncs existing sources; enabled sources are scheduled; last_sync_at is complete |
| `files_faults` | 2 files, 3 requests at a time, 5 in all; all faults | answered uploads stay stored; a file is deleted once; objects without a row and rows without an object are those a fault has left |
| `sync_false_delete` | 2 workers, 1 row, no fault | **violated**: an overlapping sync makes the other delete a row the source has |
| `sync_stuck` | 2 workers, 3 rows, a channel of 1, no fault; fair | **violated**: a sync waits for ever in `conn.Close()` |
| `sched_accepted` | 1 source, 1 table, 1 run, no fault | **violated**: a sync a client asked for gives its tables up when the handler returns |
| `discovery_stale` | 1 request, 2 discoveries, a dropped column, no fault | **violated**: the column stays in the catalog |

The four violations are recorded as findings in `PROJECT.json`, with the sentence
of the repository each one contradicts.

Bounds. `MaxJobs`, `MaxClock` (TableSync), `MaxRows` (RowStream) and `MaxCalls`
(FileStore) bound counters that only grow. Three jobs are enough for a row to be
inserted, deleted and met again; two seconds for syncs in the same and in
different seconds; two keys for one row to be missing while another is present;
two contents for a change. `BufCap` is 0 in most runs of `TableSync`, the
strictest channel, which makes a reader that stops wait at once; `sync_stuck`
has 1 and more rows, so that the wait is not an artefact of a missing buffer; with
100, as in the code, it needs a table of more than a hundred rows. In
`stream_contract` the channel is shorter than the table, so it fills. Two files
and three requests give every race on one file and the bucket. `Scheduler`
needs no bound on time: an id is used once, entry ids start again with the
process, so its states are finite with any number of restarts; two sources show
that what happens to one leaves the other alone, two tables that one may fail
when the other does not, and runs share nothing in this module but
`last_sync_at`, so one at a time is enough. `MaxCalls`, `MaxMigrations` and
`MaxFaults` of `Discovery` let two discoveries overlap, one of them fail or meet the
other schema, and a third come after them to repair; the two schemas differ in
tables, keys, types and foreign keys, one of which is composite and one refers to
its own table. `MaxSyncs` and `MaxChanges` of `KeyedTable` give a completed sync, a
failed or changed one and a completed one after it; its tables hold two numbers
that are one `float64`, texts with the separator, two times of one second, a NaN, a
null, a dropped column, another key, no key.

Deadlock is checked in `sched_faults`, where a process can always be restarted. In
the other runs it is not: a sync that waits in `conn.Close()` is a real end of the
model (`sync_stuck` is about it), and a bounded behaviour stops when its jobs or
calls are used up.

Fairness. `sync_sequential` and `sync_stuck` assume weak fairness of each worker's
own steps: a goroutine that can go on does, and a call to a database returns,
with an error if it must. The clock, cancellation and crashes are not fair.
`stream_contract` assumes weak fairness of the two goroutines. Nothing assumes
that anybody cancels a context.

Which faults a property is checked under, and what it excepts, is part of what it
says. With every fault:

* `LogReplays` and `LogChains` speak of the keys not in `unlogged`, `NoOrphanJobs`
  excepts `abandoned`, `NoOrphanBlobs` `stranded`, `LiveRecordsHaveObjects`
  `disowned`. These sets are not empty in the code as it is: `FailSyncJob` runs
  under the context whose end made the sync fail, and so does the clean-up of a
  failed upload ("best-effort", says its comment); nothing is repaired at start.
* `SyncedRunMirrorsSource`, `DeletesOnlyAbsent`, `LogReplays`, `LogChains` and
  `WatermarkMonotone` are true of a worker that is alone and false of two that
  overlap, which nothing in the code prevents.
* `StatsMatchLog` and `SnapshotsAreCompletedRuns` hold of overlapping syncs as long
  as the database accepts the statements of a live context.
* `SteadyRowsAreLive` is about rows that never leave. One that leaves and comes back
  unchanged is touched by `UpsertRow` and stays deleted until its data changes
  (store.go:550): this is why `SyncedRunMirrorsSource` compares data and version
  and says nothing of `deleted`, and why `LogIsTheDifference` allows an unchanged
  row to have no entry.
* `CatalogRepaired` speaks of what the schema has. What it has no more stays: dropped
  tables in `discovered_tables`, dropped columns (`discovery_stale`).
* `SimpleKeysDetected` excepts the foreign keys the query does get wrong: composite
  ones, those that cross schemas and those whose name another constraint of
  the schema has.
* `ScheduledExist` and `EnabledAreScheduled` hold for all but the sources they
  except: a delete that falls between the two steps of a create leaves an entry
  behind that fires until the process restarts (its runs find no tables and
  succeed), although README.md:651 of the engine says that deleting a source
  unschedules it immediately.

## Proofs

All theorems hold for every value of the constants: any number of rows, contents,
workers, values, schemas, files and requests, any set of faults, no bound on jobs or
calls.

| Theorem | Says |
|---|---|
| `TableSyncProofs!TypeCorrect` | `Spec => []TypeOK` |
| `TableSyncProofs!OneInsert` | `Spec => []OneInsertPerKey`, with any overlap and any fault |
| `TableSyncProofs!SoleWorkerMirrors` | `Spec => []SyncedRunMirrorsSource` if all workers are one |
| `TableSyncProofs!SoleWorkerDeletesOnlyAbsent` | `Spec => DeletesOnlyAbsent` if all workers are one |
| `TableSyncProofs!NoOrphans` | `Spec => []NoOrphanJobs`, with any overlap and any fault |
| `TableSyncLogProofs!SoleWorkerVersionsGrow` | `Spec => WatermarkMonotone` if all workers are one |
| `TableSyncLogProofs!CompletedRuns` | `Spec => []SnapshotsAreCompletedRuns` without platform faults, with any overlap |
| `TableSyncLogProofs!SoleWorkerLogReplays` | `Spec => []LogReplays` if all workers are one |
| `TableSyncLogProofs!SoleWorkerLogChains` | `Spec => []LogChains` if all workers are one |
| `TableSyncRunProofs!CountersMatch` | `Spec => []StatsMatchLog` without platform faults, with any overlap |
| `TableSyncRunProofs!ContractKept` | `Spec => StreamsKeepContract`, with any overlap and any fault |
| `TableSyncRunProofs!JobsAreFinal` | `Spec => JobsMoveForward`, with any overlap and any fault |
| `TableSyncRunProofs!SyncsShrink` | `Spec => WorkShrinks`, with any overlap and any fault |
| `KeyedTableProofs!TypeCorrect` | `Spec => []TypeOK` |
| `KeyedTableProofs!SyncMirrors` | `Spec => []LiveRowsAreTheSnapshots` |
| `KeyedTableProofs!SteadyRowsStay` | `Spec => []SteadyRowsAreLive` |
| `KeyedTableProofs!LogIsDifference` | `Spec => []LogIsTheDifference` |
| `KeyedTableProofs!ColumnsAreNamed` | `Spec => []UpdatesNameTheirColumns` |
| `DiscoveryProofs!TypeCorrect` | `Spec => []TypeOK` |
| `DiscoveryProofs!CatalogStaysClosed` | `Spec => []CatalogIsClosed` |
| `DiscoveryProofs!ReportedIsComplete` | `Spec => []DiscoveredIsComplete` |
| `DiscoveryProofs!DiscoveryRepairs` | `Spec => []CatalogRepaired` |
| `DiscoveryProofs!SimpleKeysAreDetected` | `Spec => []SimpleKeysDetected` |
| `RowStreamProofs!StreamTypeCorrect` | `Spec => []TypeOK` |
| `RowStreamProofs!StreamImplementsContract` | `Spec => Stream!Spec` |
| `RowStreamProofs!StreamHasNoOtherDeadlock` | `Spec => []NoOtherDeadlock` |
| `RowStreamProofs!StreamWorkShrinks` | `Spec => WorkShrinks` |
| `SchedulerProofs!SchedulerTypeCorrect` | `Spec => []TypeOK` |
| `SchedulerProofs!MapMatchesCron` | `Spec => []EntriesMatchCron` |
| `SchedulerProofs!CronSyncsExisting` | `Spec => []ScheduledExist`, with any faults and restarts |
| `SchedulerProofs!EnabledStayScheduled` | `Spec => []EnabledAreScheduled`, with any faults and restarts |
| `SchedulerProofs!LastSyncIsComplete` | `Spec => LastSyncCoversSource` |
| `FileStoreProofs!FileStoreTypeCorrect` | `Spec => []TypeOK` |
| `FileStoreProofs!AnsweredUploadsStay` | `Spec => []AckedFilesAreStored`, with any requests and any fault |
| `FileStoreProofs!OneDeletion` | `Spec => []DeletedOnce`, with any requests and any fault |
| `FileStoreProofs!NoOrphans` | `Spec => []NoOrphanBlobs`, with any requests and any fault |
| `FileStoreProofs!LiveRecords` | `Spec => []LiveRecordsHaveObjects`, with any requests and any fault |

The arguments, each by an inductive invariant that stands in the proof module,
before its theorem:

* `InsertInv` (one INSERT): between the successful `INSERT` of a row and its log
  entry the worker it succeeded for is the only one that may log it; the unique
  key lets the `INSERT` succeed once. The property alone does not say who may
  still log.
* `MirrorInv` (a sole worker mirrors): no stored row is newer than the worker's
  version, the row it looked up is still the row stored, and every row received so
  far is stored with this version. So `last_seen_version < version` picks exactly
  rows the snapshot does not hold. With a second worker the first and the second
  part fail, and `sync_false_delete` is what happens then: the assumption
  `SoleWorker` is needed, and the code does not establish it.
* `JobsInv` (no orphan jobs): no two workers share a job, and past `CompleteSyncJob` or
  `FailSyncJob` the job is over or in `abandoned`. Without the first part a worker
  could end the job another one is still needed for.
* `VersionInv` (the watermark): nothing recorded is newer than the clock, nor than the
  version of a worker that is alone and has taken one.
* `SnapshotInv` (snapshots): a worker between `CompleteSyncJob` and `CreateSnapshot`
  whose context lives finds its counters in its job, and nobody works any more on a
  job that has a snapshot.
* `LogInv` (the log): a key whose row was written and not logged yet differs from what
  its log leaves by that write alone, and the worker holds both sides of it. It
  needs `MirrorInv` for the row the worker has looked up and `VersionInv` for the
  order of the entries.
* `StatsInv` (the counters): `StatsMatchLog` says that a completed job tallies with the
  log. Until then its worker tallies, but for the one entry it owes, unless its
  context is done; and then it cannot complete its job, since without platform
  faults a statement fails only under a context that is done. Nobody appends for
  a completed job, which needs `JobsInv`. `Positions` are the entries of a job as
  one set of pairs, so that an `Append` adds one element (`CountAppend`).
* `ContractKept` needs types only: what a worker does to its own stream is a step of
  the contract (`StreamStep`), what another does is not seen in it (`OthersStay`).
* `PhaseInv` (jobs move forward): a job is pending until `StartSyncJob` and running until
  its end is recorded. With `JobsInv`, no other worker reports on it.
* `Work` (a sync ends): what a sync has left to do, as a number, from 5n + 9 at its
  start to 0. Every step of a worker lowers its number, whatever the outcome of
  the statement, and no step of another worker or of the environment raises it.
* `IInv` of `KeyedTable`: a record with the version of the sync is that of a row
  received in it; after a completed sync only such records are live; a row received
  under a key of its own is stored there (`OwnKeys`); a record under the key of a row
  that is not received yet still has what the sync before left (`OldRows`). The
  properties speak of completed syncs only, the invariant of half-done ones.
* `ClosedInv` (the catalog): what a request has upserted has a row as long as the source
  is there, and every table listed to it is upserted or still to do.
* `RepairInv` (repair): while nothing disturbs the one request under way, each step
  has repaired exactly what the steps before it have written, described by one
  conjunct per stage (`KeysProgress` to `LinksProgress`). The foreign keys need the
  identity of the writer, so that two rows of one text count as two.
* `StreamInv` (the stream contract): `rowCh` is closed after `errCh`; a goroutine
  that ends without a failure has sent every row; one that ends with a failure has
  put it into `errCh` before. The refinement maps each step of `RowStream` to a step
  of `StreamContract` or a stutter.
* `WaitInv` (no other deadlock): the goroutine finds `errCh` empty when it has an error,
  it has closed both channels when it ends, it holds the connection only while it
  works on the query, and a sync that was told of the end has nobody left to
  wait for. `Work` does for the two sides what it does for a sync.
* `CronInv` (the map and cron): an entry id is given out once and stands in the map
  for one source only, so removing the entry of one source by its id removes no
  other's.
* `ProcessInv`, `LifecycleInv` (cron syncs what exists): while sources are loaded no
  request runs; a request that is about to schedule a source has its row; one that
  is about to delete a row has removed the entry, and nobody is left who would add
  it again - or the source is in `overtaken`. The property speaks of entries only
  and does not say what a request under way may still do to them.
* `BootInv` (enabled sources are scheduled): until the server serves, a source
  without an entry is one that `Start` has still to schedule.
* `RunInv` (last_sync_at): as long as `firstErr` is nil, what a run has listed it has
  synced or still has to visit.
* `StoredInv` (answered uploads): an upload has its file to itself until it is
  answered, its row does not exist before its insert, and an object is removed only
  by the upload's own clean-up or after its row is marked deleted.
* `ObjectInv` (live rows): the clean-up of an upload meets a live row only if the reply
  to its INSERT was lost.
* `DeletedInv` (one deletion): the `UPDATE ... WHERE is_deleted = FALSE` succeeds
  once, and the request it succeeded for is the only one that may emit the event.

Assumptions on constants are named (`ConstantsAssumption`, `RowKeysAssumption`,
`KeyedTableAssumption`, `StreamAssumption`, `DiscoveryAssumption`,
`SchedulerAssumption`, `FileStoreAssumption`) and evaluated by TLC in every run.
`SoleWorker` (all workers are one) and the absence of platform faults are hypotheses
of the theorems that name them, not assumptions of the model.

Model-checked only: liveness (`SyncTerminates`, `ConnectionReturned`), because
fairness and ENABLED are beyond the prover. What these two rest on is proved:
`WorkShrinks` says that neither a sync nor a stream can go round for ever, so one
that does not end must stop somewhere, and `NoOtherDeadlock` says where the
goroutine and the sync stop together: at the sync that has stopped reading. TLC
adds that under fairness a side that can go on does. Every invariant and every
action property of a passing run is proved, under the hypotheses the table names.

## Plan

Done, in this order: `TableSync`; `StreamContract` and `RowStream`; `FileStore`;
`Scheduler`; `Discovery`; `RowKeys` and `KeyedTable`; the history variables that let
every safety property stand with every fault; the proofs above.

Left:

1. An abstract `Replica` (a table and a log that changes with it) which `KeyedTable`
   implements while the key columns tell the rows apart; `LogIsTheDifference` is its
   content today.
2. `SyncTerminates` with cancellation: a cancelled sync ends also when it does not read.
3. `SyncedRunMirrorsSource` and `WatermarkMonotone` without `SoleWorker`: a sync that no
   other sync of the table overlaps leaves the table equal to what it read, whatever
   overlapping syncs have left in it before. It takes a history variable that names
   the syncs under way which have met another.

## Not modelled

* Catalog reads of the engine, listing, browsing, presigned URLs and duplicate look-up
  of the file store: one statement each that changes nothing.
* `guessTimestampColumn`, the estimated row count, `mapType` and `detectSemanticType`:
  functions of one column that nothing later reads. `CountRows` and
  `DeleteColumnsForTable` have no caller.
* Parsing, JSON shapes, routing, configuration, DSN masking, deployment files, seed
  data: sequential, and no property is about them.
* `ChanEmitter`: a helper of unit tests. `LogEmitter` and `NoOpEmitter` never block and
  never fail.
* `sync_enabled` of a table: nothing in the code sets it to false. `sources.status` in
  `Scheduler`: it is in `TableSync` and `Discovery`.
* The content of files beyond equality; SHA-256 is taken to be injective.
* A clock that steps back, and PostgreSQL isolation below one statement: every
  statement runs by itself and is atomic.
* A source that is deleted while a sync of it runs: its statements fail or change
  nothing, and the cascade takes what they wrote.
