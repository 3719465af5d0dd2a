------------------------------ MODULE KeyedTable ------------------------------
(***************************************************************************)
(* Successive full syncs of one table, at the level of its data: the rows  *)
(* the source holds, the keys buildRowKey gives them, and the records and  *)
(* log entries that runFullSync (internal/digestion/sync.go) and           *)
(* UpsertRow, MarkDeletedRows and InsertChange (store/store.go) make of    *)
(* them.                                                                   *)
(*                                                                         *)
(* TableSync has the overlapping syncs and the statements that fail one by *)
(* one; here a worker is alone, a sync fails as a whole, and a lookup and  *)
(* the write that follows it are one step.  Two syncs are at least a       *)
(* second apart, so the number of a sync stands for its version.           *)
(***************************************************************************)
EXTENDS RowKeys

CONSTANTS
  Sources,     \* what the source table may be: its rows and its primary key
  MaxChanges,  \* bound: changes of the source table and rediscoveries
  MaxSyncs     \* bound: syncs in a behaviour

\* Rows of one table have the same columns, and differ on its primary key.
IsTable(s) ==
  /\ s.rows \in Seq(Row)
  /\ s.key \in ColumnLists
  /\ \A i, j \in DOMAIN s.rows : DOMAIN s.rows[i] = DOMAIN s.rows[j]
  /\ s.key # <<>> => \A i, j \in DOMAIN s.rows :
                       (\A k \in DOMAIN s.key : At(s.rows[i], s.key[k]) = At(s.rows[j], s.key[k])) => i = j

ASSUME KeyedTableAssumption ==
  /\ \A s \in Sources : IsTable(s)
  /\ MaxChanges \in Nat
  /\ MaxSyncs \in Nat

VARIABLES
  source,    \* the source table now
  pk,        \* primary_key_columns, as the last Discover found them
  changes,   \* changes of the source table and rediscoveries so far
  stored,    \* ingested_rows by row_key, of the keys it has
  version,   \* the version of the sync that began last
  pc,        \* where that sync is
  cols,      \* table.PrimaryKeyColumns, as it read them
  snap,      \* the rows its query reads, as StreamRows sends them
  todo,      \* the rows of snap not received yet
  log,       \* its entries in the change log
  before,    \* history: the rows that the sync before it sent, its key columns
             \* and whether it completed
  steady,    \* history: the rows that every completed sync has received
  keyed      \* history: every sync had the same key columns, at least one, and
             \* they gave different rows different keys

environment == <<source, pk, changes>>
progress == <<pc, todo>>
begun == <<version, cols, snap, keyed>>
history == <<before, steady>>
vars == <<environment, stored, progress, begun, log, history>>

PCs == {"idle", "stream", "done", "failed"}
Record == [data : Data, seen : Nat, deleted : BOOLEAN]
\* The old_data of an insertion and the new_data of a deletion are null.
NoData == <<>>
Entry == [op : {"INSERT", "UPDATE", "DELETE"}, key : Keys, old : Data, new : Data, columns : SUBSET Cols]

Live(k) == k \in DOMAIN stored /\ ~stored[k].deleted
\* Different rows have different keys.
Unique(rows, order) ==
  \A i, j \in DOMAIN rows : KeyBy(rows[i], order) = KeyBy(rows[j], order) => i = j
Received(rows) == {rows[i] : i \in DOMAIN rows}

Init ==
  /\ source \in Sources
  /\ pk = source.key
  /\ changes = 0
  /\ stored = <<>>
  /\ version = 0
  /\ pc = "idle"
  /\ cols = <<>>
  /\ snap = <<>>
  /\ todo = {}
  /\ log = {}
  /\ before = [rows |-> <<>>, cols |-> <<>>, completed |-> FALSE]
  /\ steady = Row
  /\ keyed = TRUE

----------------------------------------------------------------------------
(* The source and its discovery *)

\* The table is written, and may be altered, at any time.
ChangeSource ==
  /\ changes < MaxChanges
  /\ changes' = changes + 1
  /\ source' \in Sources
  /\ UNCHANGED <<pk, stored, progress, begun, log, history>>

\* Discover, of this table's key.
Rediscover ==
  /\ changes < MaxChanges
  /\ changes' = changes + 1
  /\ pk' = source.key
  /\ UNCHANGED <<source, stored, progress, begun, log, history>>

----------------------------------------------------------------------------
(* One sync *)

\* SyncTable reads the table's record; StreamRows runs its query.
Begin ==
  /\ pc # "stream"
  /\ version < MaxSyncs
  /\ version' = version + 1
  /\ pc' = "stream"
  /\ cols' = pk
  /\ snap' = [i \in DOMAIN source.rows |-> NormalRow(source.rows[i])]
  /\ todo' = DOMAIN source.rows
  /\ log' = {}
  /\ before' = [rows |-> snap, cols |-> cols, completed |-> pc = "done"]
  /\ keyed' = (keyed /\ pk # <<>> /\ Unique(snap', pk) /\ (version > 0 => cols = pk))
  /\ UNCHANGED <<environment, stored, steady>>

\* UpsertRow of a row with this data on the key k: the record it leaves.
Upserted(k, data) ==
  IF k \in DOMAIN stored /\ stored[k].data = data
  THEN [data |-> data, seen |-> version, deleted |-> stored[k].deleted]
  ELSE [data |-> data, seen |-> version, deleted |-> FALSE]

\* The entry that is logged for it, if any.
\* Mutant LogTouched: a touched record is logged as an update.
Insertion(k, data) == [op |-> "INSERT", key |-> k, old |-> NoData, new |-> data, columns |-> {}]
Update(k, data) == [op |-> "UPDATE", key |-> k, old |-> stored[k].data, new |-> data,
                    columns |-> ChangedColumns(stored[k].data, data)]
LogTouched(k, data) ==
  IF k \notin DOMAIN stored THEN {Insertion(k, data)} ELSE {Update(k, data)}
Logged(k, data) ==
  IF k \notin DOMAIN stored THEN {Insertion(k, data)}
  ELSE IF stored[k].data # data THEN {Update(k, data)}
  ELSE {}

ReceiveRow ==
  /\ pc = "stream"
  /\ \E i \in todo :
       /\ HasJson(snap[i])
       /\ todo' = todo \ {i}
       /\ \E k \in RowKey(snap[i], cols) :
            /\ stored' = [l \in DOMAIN stored \cup {k} |->
                            IF l = k THEN Upserted(k, Encoded(snap[i])) ELSE stored[l]]
            /\ log' = log \cup Logged(k, Encoded(snap[i]))
  /\ UNCHANGED <<environment, pc, begun, history>>

\* A row without a JSON is written with no data, which ingested_rows refuses.
RefuseRow ==
  /\ pc = "stream"
  /\ \E i \in todo : ~HasJson(snap[i])
  /\ pc' = "failed"
  /\ UNCHANGED <<environment, stored, todo, begun, log, history>>

\* The stream or a statement fails.
Fail ==
  /\ pc = "stream"
  /\ pc' = "failed"
  /\ UNCHANGED <<environment, stored, todo, begun, log, history>>

\* The records that MarkDeletedRows selects.
\* Mutant OldStale: a record is kept for one more sync.  Mutant AllStale: <= for <.
AllStale == {k \in DOMAIN stored : ~stored[k].deleted /\ stored[k].seen <= version}
OldStale == {k \in DOMAIN stored : ~stored[k].deleted /\ stored[k].seen < version - 1}
Stale == {k \in DOMAIN stored : ~stored[k].deleted /\ stored[k].seen < version}
Deletion(k) == [op |-> "DELETE", key |-> k, old |-> stored[k].data, new |-> NoData, columns |-> {}]

Complete ==
  /\ pc = "stream"
  /\ todo = {}
  /\ pc' = "done"
  /\ stored' = [k \in DOMAIN stored |->
                  IF k \in Stale
                  THEN [data |-> stored[k].data, seen |-> stored[k].seen, deleted |-> TRUE]
                  ELSE stored[k]]
  /\ log' = log \cup {Deletion(k) : k \in Stale}
  /\ steady' = steady \cap Received(snap)
  /\ UNCHANGED <<environment, todo, begun, before>>

Next ==
  \/ ChangeSource
  \/ Rediscover
  \/ Begin
  \/ ReceiveRow
  \/ RefuseRow
  \/ Fail
  \/ Complete

Spec == Init /\ [][Next]_vars

----------------------------------------------------------------------------
(* Properties *)

\* Every variable has its type: records and log entries of sync.go and store.go.
TypeOK ==
  /\ source \in Sources
  /\ pk \in ColumnLists
  /\ changes \in 0..MaxChanges
  /\ DOMAIN stored \subseteq Keys
  /\ \A k \in DOMAIN stored : stored[k] \in Record
  /\ version \in 0..MaxSyncs
  /\ pc \in PCs
  /\ cols \in ColumnLists
  /\ snap \in Seq(Row)
  /\ todo \subseteq DOMAIN snap
  /\ log \subseteq Entry
  /\ before.rows \in Seq(Row) /\ before.cols \in ColumnLists /\ before.completed \in BOOLEAN
  /\ steady \subseteq Row
  /\ keyed \in BOOLEAN

\* What a completed sync leaves live are rows of its snapshot, each under a key
\* of its own with the data it has there, whatever the keys were and whichever
\* syncs failed before it.
LiveRowsAreTheSnapshots ==
  pc = "done" =>
    \A k \in DOMAIN stored : Live(k) =>
      \E i \in DOMAIN snap : k \in RowKey(snap[i], cols) /\ stored[k].data = Encoded(snap[i])

\* As long as the key columns tell the rows apart and stay the same, a row that
\* every completed sync has received is live, with its data, after each of them,
\* whatever failed in between (UpsertRow does not undelete an unchanged row, so
\* it must never have been deleted).
SteadyRowsAreLive ==
  pc = "done" /\ keyed =>
    \A row \in steady : LET k == KeyBy(row, cols) IN Live(k) /\ stored[k].data = Encoded(row)

\* Of two completed syncs that follow each other, with the same key columns
\* telling the rows apart, the log of the second is the difference of what they
\* received: an update where a key has other data, a deletion only where a key
\* is gone, an insertion only where a key is new, and nothing for the rest.
Comparable ==
  /\ pc = "done" /\ before.completed
  /\ cols # <<>> /\ cols = before.cols
  /\ Unique(snap, cols) /\ Unique(before.rows, cols)
KeysOf(rows) == {KeyBy(rows[i], cols) : i \in DOMAIN rows}
LogIsTheDifference ==
  Comparable =>
    /\ \A i \in DOMAIN before.rows, j \in DOMAIN snap :
         KeyBy(before.rows[i], cols) = KeyBy(snap[j], cols) =>
           {e \in log : e.key = KeyBy(snap[j], cols)} =
             IF Encoded(before.rows[i]) = Encoded(snap[j]) THEN {}
             ELSE {[op |-> "UPDATE", key |-> KeyBy(snap[j], cols),
                    old |-> Encoded(before.rows[i]), new |-> Encoded(snap[j]),
                    columns |-> ChangedColumns(Encoded(before.rows[i]), Encoded(snap[j]))]}
    /\ \A e \in log :
         /\ e.op = "DELETE" => e.key \in KeysOf(before.rows) \ KeysOf(snap)
         /\ e.op = "INSERT" => e.key \in KeysOf(snap) \ KeysOf(before.rows)

\* changed_columns of a logged update names every column whose stored data
\* differ, but for the two differences that reading both sides as float64 and
\* as a map hides: a number rounded to the same one, and a null column dropped.
\* It names no column whose data is the same.
Differing(old, new) ==
  {c \in DOMAIN old \cup DOMAIN new : ~(c \in DOMAIN old \cap DOMAIN new /\ old[c] = new[c])}
UpdatesNameTheirColumns ==
  \A e \in log : e.op = "UPDATE" =>
    /\ e.columns \subseteq Differing(e.old, e.new)
    /\ \A c \in Differing(e.old, e.new) \ e.columns :
         SameButForRounding(e.old, e.new, c) \/ NullColumnGone(e.old, e.new, c)
=============================================================================
