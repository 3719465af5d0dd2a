------------------------------- MODULE Discovery -------------------------------
(***************************************************************************)
(* Schema discovery of ONE source: Engine.Discover (internal/digestion/    *)
(* discovery.go) with the catalog queries of the connector                 *)
(* (connector/postgres.go) and the store methods that write the catalog    *)
(* (store/store.go), while the schema of the source changes, other         *)
(* discoveries of it run and the source is deleted.                        *)
(*                                                                         *)
(* A client is one request inside Discover.  Each catalog query sees the   *)
(* schema of its own moment, and each statement to the platform database   *)
(* commits by itself: nothing ties the queries or the statements of one    *)
(* discovery together.  A table id is its name: an upsert keeps the id, and *)
(* a deleted source does not come back.                                    *)
(***************************************************************************)
EXTENDS Integers

CONSTANTS
  Tables,      \* qualified names of tables
  SchemaOf,    \* the schema (namespace) each of them is in
  Columns,     \* names of columns
  Types,       \* what of a column's description follows from its type
  Sizes,       \* the rest: length, precision, scale, uniqueness, default
  NoColumn,    \* "no such column"
  Keys,        \* primary keys: what primary_key_columns may hold
  NoKey,       \* the one of a table without a primary key
  Schemas,     \* the schemas the source may have
  Clients,     \* requests that may be inside Discover at the same time
  MaxCalls,    \* bound: discoveries in a behaviour
  MaxMigrations, \* bound: changes of the schema
  MaxFaults,   \* bound: faults
  Faults       \* the faults the environment may produce

AllFaults ==
  { "source",     \* a query to the source fails
    "platform",   \* a platform statement fails, before or after its commit
    "cancel",     \* the context of a discovery is cancelled
    "crash" }     \* the process dies and is restarted

Metas == [type : Types, size : Sizes]
Described == [Columns -> Metas \cup {NoColumn}]
\* A foreign key pairs columns of one table with columns of another.
ForeignKeys == [name : STRING, from : Tables, to : Tables, pairs : SUBSET (Columns \X Columns)]
SchemaType == [tables : SUBSET Tables, key : [Tables -> Keys],
               columns : [Tables -> Described], fks : SUBSET ForeignKeys]

ASSUME DiscoveryAssumption ==
  /\ Tables # {}
  /\ NoColumn \notin Metas
  /\ NoKey \in Keys
  /\ Schemas \subseteq SchemaType
  /\ \A s \in Schemas : \A k \in s.fks : {k.from, k.to} \subseteq s.tables
  /\ MaxCalls \in Nat
  /\ MaxMigrations \in Nat
  /\ MaxFaults \in Nat
  /\ Faults \subseteq AllFaults

VARIABLES
  schema,      \* the schema of the source now
  exists,      \* the row of the source
  status,      \* its status
  known,       \* discovered_tables: the tables that have a row
  key,         \* their primary_key_columns
  columns,     \* discovered_columns, by table and name
  links,       \* discovered_foreign_keys
  calls,       \* discoveries so far
  migrations,  \* changes of the schema so far
  faults,      \* faults so far
  pc,          \* where each request stands in Discover
  cancelled,   \* its context is done
  number,      \* which discovery it is
  listed,      \* the []TableMeta: the tables listed to it
  readKey,     \* and their primary keys, once read
  todo,        \* those whose key is not read yet; then those not upserted yet
  ids,         \* tableIDMap: those that it has upserted
  table,       \* the table at hand
  fresh,       \* its columns that are not inserted yet
  rows,        \* the foreign keys that are not inserted yet
  undisturbed  \* history: the discovery that began last began alone, and since
               \* then no call failed, nothing else began and the schema and the
               \* source stayed

catalog == <<exists, status, known, key, columns, links>>
tables == <<number, listed, readKey>>
progress == <<todo, ids, table>>
pending == <<fresh, rows>>
locals == <<tables, progress, pending>>
requests == <<pc, cancelled, locals>>
counters == <<calls, migrations, faults>>
begun == <<calls, migrations>>
vars == <<schema, catalog, counters, requests, undisturbed>>

Statuses == {"pending", "connected", "discovered", "error"}
PCs == { "idle", "connect", "tables", "keys", "upsert", "columns", "insert",
         "constraints", "clear", "link", "finish", "fail" }

\* The queries have an ORDER BY, and the loops follow it: which of the rest
\* comes next is fixed, and nothing here depends on how.
NextOf(rest) == CHOOSE x \in rest : TRUE

Absent == [c \in Columns |-> NoColumn]
NoKeys == [t \in Tables |-> NoKey]

----------------------------------------------------------------------------
(* The query of DiscoverForeignKeys: table_constraints joined with          *)
(* key_column_usage (the referencing columns) and constraint_column_usage   *)
(* (the referenced ones), by the name of the constraint and the schema of   *)
(* its table, without a position.                                           *)

Usage(s) == {u \in [fk : s.fks, column : Columns] : \E p \in u.fk.pairs : p[1] = u.column}
Targets(s) == {u \in [fk : s.fks, column : Columns] : \E p \in u.fk.pairs : p[2] = u.column}
\* Mutant JoinByTable: key columns are taken from any constraint of the table.
JoinByTable(s) ==
  { j \in [tc : s.fks, kcu : Usage(s), ccu : Targets(s)] :
      /\ j.kcu.fk.from = j.tc.from
      /\ j.ccu.fk.name = j.tc.name /\ SchemaOf[j.ccu.fk.to] = SchemaOf[j.tc.from] }
ForeignKeyRows(s) ==
  { j \in [tc : s.fks, kcu : Usage(s), ccu : Targets(s)] :
      /\ j.kcu.fk.name = j.tc.name /\ SchemaOf[j.kcu.fk.from] = SchemaOf[j.tc.from]
      /\ j.ccu.fk.name = j.tc.name /\ SchemaOf[j.ccu.fk.to] = SchemaOf[j.tc.from] }
\* What a row of the result says.
Edge(j) == [name |-> j.tc.name, from |-> j.tc.from, fromColumn |-> j.kcu.column,
            to |-> j.ccu.fk.to, toColumn |-> j.ccu.column]

JoinRow == [tc : ForeignKeys, kcu : [fk : ForeignKeys, column : Columns],
            ccu : [fk : ForeignKeys, column : Columns]]
\* A row of discovered_foreign_keys: its id is who wrote it and from what;
\* resolved: to_table_id is not NULL.
Link == [by : Nat, row : JoinRow, resolved : BOOLEAN]

ATable == CHOOSE t \in Tables : TRUE

----------------------------------------------------------------------------
(* Calls *)

CanFault(kind) == kind \in Faults /\ faults < MaxFaults
\* A statement takes effect and is answered, has no effect and fails, takes
\* effect and fails; under a context that is done it fails.
Statement(d) ==
  IF cancelled[d] THEN {"error"}
  ELSE {"ok"} \cup (IF CanFault("platform") THEN {"error", "lost"} ELSE {})
\* A query to the source is answered or fails.
Query(d) ==
  IF cancelled[d] THEN {"error"}
  ELSE {"ok"} \cup (IF CanFault("source") THEN {"error"} ELSE {})
Applied(o) == o # "error"
\* A call that failed is a fault of its own unless the context was done.
CountFault(d, o) == faults' = IF o = "ok" \/ cancelled[d] THEN faults ELSE faults + 1
Note(d, o) == CountFault(d, o) /\ undisturbed' = (undisturbed /\ o = "ok")

Goto(d, label) == pc' = [pc EXCEPT ![d] = label] /\ UNCHANGED cancelled
\* The requests ds are over.
Reset(local, ds, value) == [d \in Clients |-> IF d \in ds THEN value ELSE local[d]]
Over(ds) ==
  /\ pc' = Reset(pc, ds, "idle")
  /\ cancelled' = Reset(cancelled, ds, FALSE)
  /\ number' = Reset(number, ds, 0)
  /\ listed' = Reset(listed, ds, {})
  /\ readKey' = Reset(readKey, ds, NoKeys)
  /\ todo' = Reset(todo, ds, {})
  /\ ids' = Reset(ids, ds, {})
  /\ table' = Reset(table, ds, ATable)
  /\ fresh' = Reset(fresh, ds, Absent)
  /\ rows' = Reset(rows, ds, {})
Return(d) == Over({d})


----------------------------------------------------------------------------
(* Discover: tables *)

\* GetSource finds the row.
BeginDiscover(d) ==
  /\ pc[d] = "idle"
  /\ exists
  /\ calls < MaxCalls
  /\ calls' = calls + 1
  /\ Goto(d, "connect")
  /\ number' = [number EXCEPT ![d] = calls + 1]
  /\ undisturbed' = (\A e \in Clients : pc[e] = "idle")
  /\ UNCHANGED <<schema, catalog, migrations, faults, listed, readKey, progress, pending>>

\* connectorForSource fails.
ConnectError(d) ==
  /\ pc[d] = "connect"
  /\ CanFault("source")
  /\ faults' = faults + 1
  /\ Goto(d, "fail")
  /\ undisturbed' = FALSE
  /\ UNCHANGED <<schema, catalog, begun, locals>>

SetStatus(o, value) == status' = IF Applied(o) /\ exists THEN value ELSE status

\* UpdateSourceConnected; its error is logged.
MarkConnected(d) ==
  /\ pc[d] = "connect"
  /\ \E o \in Statement(d) : SetStatus(o, "connected") /\ Note(d, o)
  /\ Goto(d, "tables")
  /\ UNCHANGED <<schema, exists, known, key, columns, links, begun, locals>>

\* The query of DiscoverTables.
ListTables(d) ==
  /\ pc[d] = "tables"
  /\ \E o \in Query(d) :
       /\ Note(d, o)
       /\ IF o = "ok"
          THEN /\ listed' = [listed EXCEPT ![d] = schema.tables]
               /\ todo' = [todo EXCEPT ![d] = schema.tables]
               /\ Goto(d, "keys")
          ELSE Goto(d, "fail") /\ UNCHANGED <<listed, todo>>
  /\ UNCHANGED <<schema, catalog, begun, number, readKey, ids, table, pending>>

\* discoverPrimaryKeys of one listed table: a query of its own, which finds
\* nothing if the table has been dropped.
KeyNow(t) == IF t \in schema.tables THEN schema.key[t] ELSE NoKey
ReadKey(d) ==
  LET t == NextOf(todo[d]) IN
  /\ pc[d] = "keys"
  /\ todo[d] # {}
  /\ \E o \in Query(d) :
       /\ Note(d, o)
       /\ IF o = "ok"
          THEN /\ readKey' = [readKey EXCEPT ![d][t] = KeyNow(t)]
               /\ todo' = [todo EXCEPT ![d] = @ \ {t}]
               /\ UNCHANGED <<pc, cancelled>>
          ELSE Goto(d, "fail") /\ UNCHANGED <<readKey, todo>>
  /\ UNCHANGED <<schema, catalog, begun, number, listed, ids, table, pending>>

KeysRead(d) ==
  /\ pc[d] = "keys"
  /\ todo[d] = {}
  /\ todo' = [todo EXCEPT ![d] = listed[d]]
  /\ Goto(d, "upsert")
  /\ UNCHANGED <<schema, catalog, counters, tables, ids, table, pending, undisturbed>>

\* INSERT ... ON CONFLICT DO UPDATE: the row keeps its id and takes the new
\* key.  The row refers to its source, so without the source it fails.
\* Mutant Unreferenced: discovered_tables does not refer to sources.
Unreferenced == TRUE
Referenced == exists
\* Mutant KeepKey: ON CONFLICT leaves primary_key_columns alone.
KeepKey(t, new) == IF t \in known THEN key[t] ELSE new
UpsertedKey(t, new) == new
\* An error ends the discovery; the status stays "connected".
\* Mutant SkipTable: the error is logged and the loop goes on.
SkipTable(d, t) ==
  /\ todo' = [todo EXCEPT ![d] = @ \ {t}]
  /\ Goto(d, "upsert")
  /\ UNCHANGED <<tables, ids, table, pending>>
GiveUp(d, t) == Return(d)

UpsertTable(d) ==
  LET t == NextOf(todo[d]) IN
  /\ pc[d] = "upsert"
  /\ todo[d] # {}
  /\ \E o \in Statement(d) :
       /\ CountFault(d, o)
       /\ IF Applied(o) /\ Referenced
          THEN /\ known' = known \cup {t}
               /\ key' = [key EXCEPT ![t] = UpsertedKey(t, readKey[d][t])]
          ELSE UNCHANGED <<known, key>>
       /\ IF o = "ok" /\ Referenced
          THEN /\ todo' = [todo EXCEPT ![d] = @ \ {t}]
               /\ ids' = [ids EXCEPT ![d] = @ \cup {t}]
               /\ table' = [table EXCEPT ![d] = t]
               /\ Goto(d, "columns")
               /\ UNCHANGED <<tables, pending, undisturbed>>
          ELSE GiveUp(d, t) /\ undisturbed' = FALSE
  /\ UNCHANGED <<schema, exists, status, columns, links, begun>>

TablesDone(d) ==
  /\ pc[d] = "upsert"
  /\ todo[d] = {}
  /\ Goto(d, "constraints")
  /\ UNCHANGED <<schema, catalog, counters, locals, undisturbed>>

----------------------------------------------------------------------------
(* Discover: columns *)

\* DiscoverColumns of the table at hand; nothing if it has been dropped.  An
\* error is logged and the table keeps the columns it has.
ReadColumns(d) ==
  LET t == table[d] IN
  /\ pc[d] = "columns"
  /\ \E o \in Query(d) :
       /\ Note(d, o)
       /\ fresh' = [fresh EXCEPT ![d] =
                      IF o = "ok" /\ t \in schema.tables THEN schema.columns[t] ELSE Absent]
  /\ Goto(d, "insert")
  /\ UNCHANGED <<schema, catalog, begun, tables, progress, rows>>

\* ON CONFLICT overwrites the type (with what follows from it) and keeps the
\* rest: max_length, precision, scale, is_unique, the default.
\* Mutant TypeOnly: the statement leaves the rest out.
TypeOnly(old, new) == [type |-> new.type]
InsertedColumn(old, new) == IF old = NoColumn THEN new ELSE [type |-> new.type, size |-> old.size]

\* InsertColumn; its error is logged.
InsertColumn(d) ==
  LET t == table[d]
      rest == {x \in Columns : fresh[d][x] # NoColumn}
      c == NextOf(rest)
  IN
  /\ pc[d] = "insert"
  /\ rest # {}
  /\ \E o \in Statement(d) :
       /\ CountFault(d, o)
       /\ undisturbed' = (undisturbed /\ o = "ok" /\ exists)
       /\ columns' = IF Applied(o) /\ exists
                     THEN [columns EXCEPT ![t][c] = InsertedColumn(@, fresh[d][c])]
                     ELSE columns
       /\ fresh' = [fresh EXCEPT ![d][c] = NoColumn]
  /\ UNCHANGED <<schema, exists, status, known, key, links, begun, pc, cancelled,
                 tables, progress, rows>>

ColumnsDone(d) ==
  /\ pc[d] = "insert"
  /\ fresh[d] = Absent
  /\ Goto(d, "upsert")
  /\ UNCHANGED <<schema, catalog, counters, locals, undisturbed>>

----------------------------------------------------------------------------
(* Discover: foreign keys; every error from here on is logged or ignored *)

ReadForeignKeys(d) ==
  /\ pc[d] = "constraints"
  /\ \E o \in Query(d) :
       /\ Note(d, o)
       /\ IF o = "ok"
          THEN /\ rows' = [rows EXCEPT ![d] = ForeignKeyRows(schema)]
               /\ Goto(d, "clear")
          ELSE Goto(d, "finish") /\ UNCHANGED rows
  /\ UNCHANGED <<schema, catalog, begun, tables, progress, fresh>>

\* DeleteFKsForSource
ClearLinks(d) ==
  /\ pc[d] = "clear"
  /\ \E o \in Statement(d) :
       /\ Note(d, o)
       /\ links' = IF Applied(o) THEN {} ELSE links
  /\ Goto(d, "link")
  /\ UNCHANGED <<schema, exists, status, known, key, columns, begun, locals>>

\* InsertFK, unless the referencing table was not upserted by this discovery.
\* The referenced table is looked up in tableIDMap as well.
NewLink(d, j) == [by |-> number[d], row |-> j, resolved |-> j.ccu.fk.to \in ids[d]]
InsertLink(d) ==
  LET j == NextOf(rows[d]) IN
  /\ pc[d] = "link"
  /\ rows[d] # {}
  /\ rows' = [rows EXCEPT ![d] = @ \ {j}]
  /\ IF j.tc.from \in ids[d]
     THEN \E o \in Statement(d) :
            /\ CountFault(d, o)
            /\ undisturbed' = (undisturbed /\ o = "ok" /\ exists)
            /\ links' = IF Applied(o) /\ exists THEN links \cup {NewLink(d, j)} ELSE links
     ELSE UNCHANGED <<links, faults, undisturbed>>
  /\ UNCHANGED <<schema, exists, status, known, key, columns, begun, pc, cancelled,
                 tables, progress, fresh>>

LinksDone(d) ==
  /\ pc[d] = "link"
  /\ rows[d] = {}
  /\ Goto(d, "finish")
  /\ UNCHANGED <<schema, catalog, counters, locals, undisturbed>>

Finish(d) ==
  /\ pc[d] = "finish"
  /\ \E o \in Statement(d) : SetStatus(o, "discovered") /\ Note(d, o)
  /\ Return(d)
  /\ UNCHANGED <<schema, exists, known, key, columns, links, begun>>

Fail(d) ==
  /\ pc[d] = "fail"
  /\ \E o \in Statement(d) : SetStatus(o, "error") /\ CountFault(d, o)
  /\ undisturbed' = FALSE
  /\ Return(d)
  /\ UNCHANGED <<schema, exists, known, key, columns, links, begun>>

----------------------------------------------------------------------------
(* The environment *)

\* Somebody changes the schema of the source.
Migrate ==
  /\ migrations < MaxMigrations
  /\ migrations' = migrations + 1
  /\ \E s \in Schemas \ {schema} : schema' = s
  /\ undisturbed' = FALSE
  /\ UNCHANGED <<catalog, calls, faults, requests>>

\* DeleteSource; ON DELETE CASCADE takes the catalog with it.
Cascade ==
  /\ known' = {}
  /\ key' = NoKeys
  /\ columns' = [t \in Tables |-> Absent]
  /\ links' = {}
DeleteSource ==
  /\ exists
  /\ exists' = FALSE
  /\ Cascade
  /\ undisturbed' = FALSE
  /\ UNCHANGED <<schema, status, counters, requests>>

Cancel(d) ==
  /\ CanFault("cancel")
  /\ faults' = faults + 1
  /\ pc[d] # "idle"
  /\ ~cancelled[d]
  /\ cancelled' = [cancelled EXCEPT ![d] = TRUE]
  /\ UNCHANGED <<schema, catalog, begun, pc, locals, undisturbed>>

Crash ==
  /\ CanFault("crash")
  /\ faults' = faults + 1
  /\ \E d \in Clients : pc[d] # "idle"
  /\ Over(Clients)
  /\ undisturbed' = FALSE
  /\ UNCHANGED <<schema, catalog, begun>>

\* A source that was registered and never discovered.
Init ==
  /\ schema \in Schemas
  /\ exists = TRUE
  /\ status = "pending"
  /\ known = {}
  /\ key = NoKeys
  /\ columns = [t \in Tables |-> Absent]
  /\ links = {}
  /\ calls = 0
  /\ migrations = 0
  /\ faults = 0
  /\ pc = [d \in Clients |-> "idle"]
  /\ cancelled = [d \in Clients |-> FALSE]
  /\ number = [d \in Clients |-> 0]
  /\ listed = [d \in Clients |-> {}]
  /\ readKey = [d \in Clients |-> NoKeys]
  /\ todo = [d \in Clients |-> {}]
  /\ ids = [d \in Clients |-> {}]
  /\ table = [d \in Clients |-> ATable]
  /\ fresh = [d \in Clients |-> Absent]
  /\ rows = [d \in Clients |-> {}]
  /\ undisturbed = FALSE

Discover(d) ==
  \/ BeginDiscover(d)
  \/ ConnectError(d)
  \/ MarkConnected(d)
  \/ ListTables(d)
  \/ ReadKey(d)
  \/ KeysRead(d)
  \/ UpsertTable(d)
  \/ TablesDone(d)
  \/ ReadColumns(d)
  \/ InsertColumn(d)
  \/ ColumnsDone(d)
  \/ ReadForeignKeys(d)
  \/ ClearLinks(d)
  \/ InsertLink(d)
  \/ LinksDone(d)
  \/ Finish(d)
  \/ Fail(d)

Next ==
  \/ \E d \in Clients : Discover(d) \/ Cancel(d)
  \/ Migrate
  \/ DeleteSource
  \/ Crash

Spec == Init /\ [][Next]_vars

----------------------------------------------------------------------------
(* Properties *)

\* The catalog and the requests hold what their columns and Go types allow.
CatalogTypeOK ==
  /\ exists \in BOOLEAN
  /\ status \in Statuses
  /\ known \subseteq Tables
  /\ key \in [Tables -> Keys]
  /\ columns \in [Tables -> Described]
  /\ links \subseteq Link
RequestTypeOK ==
  /\ pc \in [Clients -> PCs]
  /\ cancelled \in [Clients -> BOOLEAN]
  /\ number \in [Clients -> Nat]
  /\ listed \in [Clients -> SUBSET Tables]
  /\ readKey \in [Clients -> [Tables -> Keys]]
  /\ todo \in [Clients -> SUBSET Tables]
  /\ ids \in [Clients -> SUBSET Tables]
  /\ table \in [Clients -> Tables]
  /\ fresh \in [Clients -> Described]
  /\ rows \in [Clients -> SUBSET JoinRow]
TypeOK ==
  /\ schema \in Schemas
  /\ CatalogTypeOK
  /\ RequestTypeOK
  /\ calls \in Nat
  /\ migrations \in Nat
  /\ faults \in Nat
  /\ undisturbed \in BOOLEAN

\* The catalog is closed at every moment, whoever deletes the source while
\* discoveries of it run: without its source nothing of it is left, columns
\* belong to tables that have a row, and so do both ends of a foreign key that
\* is resolved.
CatalogIsClosed ==
  /\ ~exists => known = {}
  /\ \A t \in Tables \ known : columns[t] = Absent
  /\ \A l \in links : /\ l.row.tc.from \in known
                      /\ l.resolved => l.row.ccu.fk.to \in known

\* A discovery that has come to the foreign keys has a row for every table
\* the source listed to it, as long as the source is there: it may tell its
\* caller that the source is discovered.
PastTables == {"constraints", "clear", "link", "finish"}
DiscoveredIsComplete ==
  \A d \in Clients : pc[d] \in PastTables /\ exists => listed[d] \subseteq known

\* One discovery that nobody disturbs repairs the catalog, whatever overlapping,
\* failed and cancelled discoveries and older schemas have left in it: every
\* table has its key, every column its type, and the foreign keys are those
\* of the query, each once, resolved where the referenced table is listed.
\* (What the schema has no more, tables and columns, stays.)
Settled == undisturbed /\ \A d \in Clients : pc[d] = "idle"
TableRepaired(t) ==
  /\ t \in known
  /\ key[t] = schema.key[t]
  /\ \A c \in Columns : schema.columns[t][c] # NoColumn =>
       columns[t][c] # NoColumn /\ columns[t][c].type = schema.columns[t][c].type
LinksRepaired ==
  /\ {l.row : l \in links} = {j \in ForeignKeyRows(schema) : j.tc.from \in schema.tables}
  /\ \A l, m \in links : l.row = m.row => l = m
  /\ \A l \in links : l.resolved <=> l.row.ccu.fk.to \in schema.tables
CatalogRepaired ==
  Settled => /\ exists /\ status = "discovered"
             /\ \A t \in schema.tables : TableRepaired(t)
             /\ LinksRepaired

\* What the query of DiscoverForeignKeys returns for a foreign key of one pair
\* of columns, within one schema, whose name no other has there: that pair, once.
\* So that is what the catalog holds of it after such a discovery.
Simple(s, k) ==
  /\ \E p \in k.pairs : k.pairs = {p}
  /\ SchemaOf[k.to] = SchemaOf[k.from]
  /\ \A other \in s.fks : other.name = k.name /\ SchemaOf[k.from] \in {SchemaOf[other.from], SchemaOf[other.to]}
                            => other = k
SimpleKeysDetected ==
  Settled => \A k \in schema.fks : Simple(schema, k) =>
    \E l \in links :
      /\ \E p \in k.pairs : Edge(l.row) = [name |-> k.name, from |-> k.from, fromColumn |-> p[1],
                                           to |-> k.to, toColumn |-> p[2]]
      /\ l.resolved
      /\ \A m \in links : m.row.tc = k => m = l

\* What the README of the engine says of step 5, "Deletes old columns for each
\* table and re-inserts from information_schema.columns": after an undisturbed
\* discovery the columns of a table are the source's.
ColumnsAreCurrent ==
  Settled => \A t \in schema.tables : \A c \in Columns :
    columns[t][c] # NoColumn => schema.columns[t][c] # NoColumn
=============================================================================
