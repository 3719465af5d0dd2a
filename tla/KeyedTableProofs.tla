--------------------------- MODULE KeyedTableProofs ---------------------------
(***************************************************************************)
(* Proofs about KeyedTable, for every set of columns and values, every     *)
(* source table and any number of changes and syncs.                       *)
(*                                                                         *)
(* KeyBy, Encoded and ChangedColumns are opaque in all but the lemmas on   *)
(* rows: what the syncs guarantee follows from which keys are equal.       *)
(***************************************************************************)
EXTENDS KeyedTable, FiniteSetTheorems, TLAPS

----------------------------------------------------------------------------
(* Lemmas on rows *)

\* A row read at any column gives a value.
LEMMA AtType ==
  ASSUME NEW row \in Row, NEW c
  PROVE  At(row, c) \in Values
BY RowKeysAssumption DEF At, Row

\* A key column list gives a key.
LEMMA KeyType ==
  ASSUME NEW row \in Row, NEW order \in ColumnLists
  PROVE  KeyBy(row, order) \in Keys
<1>1. PICK n \in 0..Cardinality(Cols) : order \in [1..n -> Cols]
  BY DEF ColumnLists
<1> DEFINE parts == [i \in DOMAIN order |-> Text[At(row, order[i])]]
<1>2. \A i \in DOMAIN order : Text[At(row, order[i])] \in Texts
  BY AtType, RowKeysAssumption
<1>3. DOMAIN order = 1..n
  BY <1>1
<1>4. parts \in [1..n -> Texts]
  BY <1>2, <1>3
<1>5. Join(parts) \in Keys
  BY <1>1, <1>4, RowKeysAssumption
<1> QED
  BY <1>5 DEF KeyBy

\* So does buildRowKey, in whichever order it takes the columns.
LEMMA RowKeyType ==
  ASSUME NEW row \in Row, NEW order \in ColumnLists
  PROVE  RowKey(row, order) \subseteq Keys
BY KeyType DEF RowKey, Orders

\* With key columns there is one key.
LEMMA RowKeyOfColumns ==
  ASSUME NEW row, NEW order, order # <<>>
  PROVE  RowKey(row, order) = {KeyBy(row, order)}
BY DEF RowKey

LEMMA NormalRowType ==
  ASSUME NEW row \in Row
  PROVE  NormalRow(row) \in Row
<1>1. PICK cs \in SUBSET Cols : row \in [cs -> Values]
  BY DEF Row
<1>2. NormalRow(row) \in [cs -> Values]
  BY <1>1, RowKeysAssumption DEF NormalRow
<1> QED
  BY <1>1, <1>2 DEF Row

LEMMA EncodedType ==
  ASSUME NEW row \in Row, HasJson(row)
  PROVE  Encoded(row) \in Data
<1>1. PICK cs \in SUBSET Cols : row \in [cs -> Values]
  BY DEF Row
<1>2. \A c \in cs : Json[row[c]] \in Jsons
  BY <1>1, RowKeysAssumption DEF HasJson
<1>3. Encoded(row) \in [cs -> Jsons]
  BY <1>1, <1>2 DEF Encoded
<1> QED
  BY <1>3 DEF Data

LEMMA DataColumns ==
  ASSUME NEW data \in Data
  PROVE  DOMAIN data \subseteq Cols
BY DEF Data

LEMMA ChangedColumnsType ==
  ASSUME NEW old \in Data, NEW new \in Data
  PROVE  ChangedColumns(old, new) \in SUBSET Cols
BY DataColumns DEF ChangedColumns

LEMMA NoDataType == NoData \in Data
<1>1. NoData \in [{} -> Jsons]
  BY DEF NoData
<1> QED
  BY <1>1 DEF Data

\* What changedColumns names, against what differs.
LEMMA ChangedColumnsExplained ==
  ASSUME NEW old, NEW new
  PROVE  /\ ChangedColumns(old, new) \subseteq Differing(old, new)
         /\ \A c \in Differing(old, new) \ ChangedColumns(old, new) :
              SameButForRounding(old, new, c) \/ NullColumnGone(old, new, c)
<1>1. ASSUME NEW c \in ChangedColumns(old, new)
      PROVE  c \in Differing(old, new)
  BY <1>1 DEF ChangedColumns, Differing, Decoded
<1>2. ASSUME NEW c \in Differing(old, new) \ ChangedColumns(old, new)
      PROVE  SameButForRounding(old, new, c) \/ NullColumnGone(old, new, c)
  <2>1. c \in DOMAIN old /\ Decoded(old, c) = Decoded(new, c)
    BY <1>2 DEF ChangedColumns, Differing
  <2>2. CASE c \in DOMAIN new
    BY <1>2, <2>1, <2>2 DEF Differing, Decoded, SameButForRounding
  <2>3. CASE c \notin DOMAIN new
    BY <1>2, <2>1, <2>3 DEF Decoded, NullColumnGone
  <2> QED
    BY <2>2, <2>3
<1> QED
  BY <1>1, <1>2

----------------------------------------------------------------------------
(* Types *)

LEMMA SourceType ==
  ASSUME NEW s \in Sources
  PROVE  s.rows \in Seq(Row) /\ s.key \in ColumnLists
BY KeyedTableAssumption DEF IsTable

LEMMA NoColumnsType == <<>> \in ColumnLists
<1>1. <<>> \in [1..0 -> Cols]
  OBVIOUS
<1>2. 0 \in 0..Cardinality(Cols)
  BY FS_CardinalityType, RowKeysAssumption
<1> QED
  BY <1>1, <1>2 DEF ColumnLists

LEMMA UpsertedType ==
  ASSUME TypeOK, NEW k, NEW data \in Data
  PROVE  Upserted(k, data) \in Record
<1>1. version \in Nat
  BY KeyedTableAssumption DEF TypeOK
<1>2. CASE k \in DOMAIN stored /\ stored[k].data = data
  <2>1. stored[k].deleted \in BOOLEAN
    BY <1>2 DEF TypeOK, Record
  <2> QED
    BY <1>1, <1>2, <2>1 DEF Upserted, Record
<1>3. CASE ~(k \in DOMAIN stored /\ stored[k].data = data)
  BY <1>1, <1>3 DEF Upserted, Record
<1> QED
  BY <1>2, <1>3

LEMMA LoggedType ==
  ASSUME TypeOK, NEW k \in Keys, NEW data \in Data
  PROVE  Logged(k, data) \subseteq Entry
<1>1. Insertion(k, data) \in Entry
  BY NoDataType DEF Insertion, Entry
<1>2. ASSUME k \in DOMAIN stored
      PROVE  Update(k, data) \in Entry
  <2>1. stored[k].data \in Data
    BY <1>2 DEF TypeOK, Record
  <2>2. ChangedColumns(stored[k].data, data) \in SUBSET Cols
    BY <2>1, ChangedColumnsType
  <2> QED
    BY <2>1, <2>2 DEF Update, Entry
<1> QED
  BY <1>1, <1>2 DEF Logged

LEMMA InitTypes == Init => TypeOK
<1> SUFFICES ASSUME Init PROVE TypeOK
  OBVIOUS
<1>1. source \in Sources /\ pk \in ColumnLists /\ cols \in ColumnLists
  BY SourceType, NoColumnsType DEF Init
<1>2. changes \in 0..MaxChanges /\ version \in 0..MaxSyncs
  BY KeyedTableAssumption DEF Init
<1>3. DOMAIN stored = {} /\ DOMAIN snap = {} /\ snap \in Seq(Row)
  BY DEF Init
<1>4. before.rows \in Seq(Row) /\ before.cols \in ColumnLists /\ before.completed \in BOOLEAN
  BY NoColumnsType DEF Init
<1> QED
  BY <1>1, <1>2, <1>3, <1>4 DEF Init, TypeOK, PCs

LEMMA BeginTypes == TypeOK /\ Begin => TypeOK'
<1> SUFFICES ASSUME TypeOK, Begin PROVE TypeOK'
  OBVIOUS
<1>1. source.rows \in Seq(Row)
  BY SourceType DEF TypeOK
<1>2. snap' \in Seq(Row) /\ DOMAIN snap' = DOMAIN source.rows
  <2>1. PICK n \in Nat : source.rows \in [1..n -> Row]
    BY <1>1
  <2>2. snap' \in [1..n -> Row]
    BY <2>1, NormalRowType DEF Begin
  <2> QED
    BY <2>1, <2>2
<1>3. todo' \subseteq DOMAIN snap'
  BY <1>2 DEF Begin
<1>4. version' \in 0..MaxSyncs
  BY KeyedTableAssumption DEF TypeOK, Begin
<1>5. keyed' \in BOOLEAN
  BY DEF TypeOK, Begin
<1>6. before'.rows \in Seq(Row) /\ before'.cols \in ColumnLists
  BY DEF TypeOK, Begin
<1>7. before'.completed \in BOOLEAN
  BY DEF Begin
<1>8. /\ source' \in Sources /\ pk' \in ColumnLists /\ changes' \in 0..MaxChanges
      /\ DOMAIN stored' \subseteq Keys /\ (\A k \in DOMAIN stored' : stored'[k] \in Record)
      /\ steady' \subseteq Row
  BY DEF TypeOK, Begin, environment
<1>9. pc' \in PCs /\ cols' \in ColumnLists /\ log' \subseteq Entry
  BY DEF TypeOK, Begin, PCs
<1> QED
  BY <1>2, <1>3, <1>4, <1>5, <1>6, <1>7, <1>8, <1>9 DEF TypeOK

\* What ReceiveRow does, for the row and the key it picks.
Receives(i, k) ==
  /\ pc = "stream"
  /\ i \in todo
  /\ k \in RowKey(snap[i], cols)
  /\ HasJson(snap[i])
  /\ todo' = todo \ {i}
  /\ stored' = [l \in DOMAIN stored \cup {k} |->
                  IF l = k THEN Upserted(k, Encoded(snap[i])) ELSE stored[l]]
  /\ log' = log \cup Logged(k, Encoded(snap[i]))
  /\ UNCHANGED <<environment, pc, begun, history>>

LEMMA ReceiveRowPicks ==
  ReceiveRow => \E i \in todo : \E k \in RowKey(snap[i], cols) : Receives(i, k)
BY DEF ReceiveRow, Receives

\* The row received, its key and its data have their types.
LEMMA ReceivedTypes ==
  ASSUME TypeOK, NEW i, NEW k, Receives(i, k)
  PROVE  /\ i \in DOMAIN snap
         /\ snap[i] \in Row
         /\ k \in Keys
         /\ Encoded(snap[i]) \in Data
<1>1. i \in DOMAIN snap /\ snap[i] \in Row
  BY DEF TypeOK, Receives
<1>2. k \in Keys
  BY <1>1, RowKeyType DEF TypeOK, Receives
<1>3. Encoded(snap[i]) \in Data
  BY <1>1, EncodedType DEF Receives
<1> QED
  BY <1>1, <1>2, <1>3

LEMMA ReceiveRowTypes ==
  ASSUME TypeOK, NEW i, NEW k, Receives(i, k)
  PROVE  TypeOK'
<1>1. /\ k \in Keys /\ Encoded(snap[i]) \in Data
  BY ReceivedTypes
<1>2. Upserted(k, Encoded(snap[i])) \in Record
  BY <1>1, UpsertedType
<1>3. DOMAIN stored' \subseteq Keys /\ \A l \in DOMAIN stored' : stored'[l] \in Record
  BY <1>1, <1>2 DEF TypeOK, Receives
<1>4. log' \subseteq Entry
  BY <1>1, LoggedType DEF TypeOK, Receives
<1>5. todo' \subseteq DOMAIN snap'
  BY DEF TypeOK, Receives, begun
<1>6. /\ source' = source /\ pk' = pk /\ changes' = changes /\ pc' = pc /\ cols' = cols
      /\ version' = version /\ snap' = snap /\ keyed' = keyed /\ before' = before /\ steady' = steady
  BY DEF Receives, environment, begun, history
<1> QED
  BY <1>3, <1>4, <1>5, <1>6 DEF TypeOK

LEMMA CompleteTypes == TypeOK /\ Complete => TypeOK'
<1> SUFFICES ASSUME TypeOK, Complete PROVE TypeOK'
  OBVIOUS
<1>1. DOMAIN stored' = DOMAIN stored
  BY DEF Complete
<1>2. \A k \in DOMAIN stored : stored'[k] \in Record
  BY DEF TypeOK, Complete, Record
<1>3. \A k \in Stale : Deletion(k) \in Entry
  <2>1. \A k \in Stale : k \in Keys /\ stored[k].data \in Data
    BY DEF TypeOK, Stale, Record
  <2> QED
    BY <2>1, NoDataType DEF Deletion, Entry
<1>4. log' \subseteq Entry
  BY <1>3 DEF TypeOK, Complete
<1>5. pc' \in PCs /\ steady' \subseteq Row
  BY DEF TypeOK, Complete, PCs
<1>6. /\ source' = source /\ pk' = pk /\ changes' = changes /\ cols' = cols /\ todo' = todo
      /\ version' = version /\ snap' = snap /\ keyed' = keyed /\ before' = before
  BY DEF Complete, environment, begun
<1> QED
  BY <1>1, <1>2, <1>4, <1>5, <1>6 DEF TypeOK

LEMMA NextTypes == TypeOK /\ [Next]_vars => TypeOK'
<1> SUFFICES ASSUME TypeOK, [Next]_vars PROVE TypeOK'
  OBVIOUS
<1>1. CASE ChangeSource
  BY <1>1, KeyedTableAssumption DEF TypeOK, ChangeSource, progress, begun, history
<1>2. CASE Rediscover
  BY <1>2, KeyedTableAssumption, SourceType DEF TypeOK, Rediscover, progress, begun, history
<1>3. CASE Begin
  BY <1>3, BeginTypes
<1>4. CASE ReceiveRow
  BY <1>4, ReceiveRowPicks, ReceiveRowTypes
<1>5. CASE RefuseRow
  BY <1>5 DEF TypeOK, RefuseRow, PCs, environment, begun, history
<1>6. CASE Fail
  BY <1>6 DEF TypeOK, Fail, PCs, environment, begun, history
<1>7. CASE Complete
  BY <1>7, CompleteTypes
<1>8. CASE UNCHANGED vars
  BY <1>8 DEF TypeOK, vars, environment, progress, begun, history
<1> QED
  BY <1>1, <1>2, <1>3, <1>4, <1>5, <1>6, <1>7, <1>8 DEF Next

\* Every variable keeps its type: whatever rows the source sends, the records
\* and the log entries of runFullSync stay well formed.
THEOREM TypeCorrect == Spec => []TypeOK
<1>1. Init => TypeOK
  BY InitTypes
<1>2. TypeOK /\ [Next]_vars => TypeOK'
  BY NextTypes
<1> QED
  BY <1>1, <1>2, PTL DEF Spec

----------------------------------------------------------------------------
(* The inductive invariant *)

\* The keys under which rows have been received in this sync, if there are key
\* columns.
Got == {KeyBy(snap[i], cols) : i \in DOMAIN snap \ todo}
Told == cols # <<>> /\ Unique(snap, cols)

\* A record with the version of the sync is that of a row it has received.
Witnessed ==
  \A k \in DOMAIN stored :
    /\ stored[k].seen <= version
    /\ stored[k].seen = version =>
         \E i \in DOMAIN snap \ todo : k \in RowKey(snap[i], cols) /\ stored[k].data = Encoded(snap[i])
\* After a completed sync only such records are live.
Finished ==
  /\ pc = "done" =>
       /\ todo = {}
       /\ steady \subseteq Received(snap)
       /\ \A k \in DOMAIN stored : Live(k) => stored[k].seen = version
  /\ version = 0 => DOMAIN stored = {} /\ pc = "idle"
\* A row received under a key of its own is stored there.
OwnKeys ==
  Told => \A i \in DOMAIN snap \ todo :
            LET k == KeyBy(snap[i], cols) IN
            k \in DOMAIN stored /\ stored[k].seen = version /\ stored[k].data = Encoded(snap[i])
\* The record of a row that every completed sync has received is not deleted.
Steady ==
  keyed =>
    /\ version > 0 => Told
    /\ \A row \in steady : KeyBy(row, cols) \in DOMAIN stored => Live(KeyBy(row, cols))
\* The sync before completed and can be compared with this one.
Compared ==
  /\ pc \in {"stream", "done"} /\ before.completed
  /\ cols = before.cols /\ Told /\ Unique(before.rows, cols)
OldRows ==
  Compared =>
    /\ KeysOf(before.rows) \subseteq DOMAIN stored
    /\ \A i \in DOMAIN before.rows :
         KeyBy(before.rows[i], cols) \notin Got =>
           stored[KeyBy(before.rows[i], cols)].data = Encoded(before.rows[i])
    /\ \A k \in DOMAIN stored : Live(k) => k \in Got \cup KeysOf(before.rows)
Entries ==
  Compared =>
    /\ \A i \in DOMAIN before.rows, j \in DOMAIN snap \ todo :
         KeyBy(before.rows[i], cols) = KeyBy(snap[j], cols) =>
           {e \in log : e.key = KeyBy(snap[j], cols)} =
             IF Encoded(before.rows[i]) = Encoded(snap[j]) THEN {}
             ELSE {[op |-> "UPDATE", key |-> KeyBy(snap[j], cols),
                    old |-> Encoded(before.rows[i]), new |-> Encoded(snap[j]),
                    columns |-> ChangedColumns(Encoded(before.rows[i]), Encoded(snap[j]))]}
    /\ \A e \in log :
         /\ e.op = "DELETE" => e.key \in KeysOf(before.rows) \ KeysOf(snap)
         /\ e.op = "INSERT" => e.key \in KeysOf(snap) \ KeysOf(before.rows)
         /\ pc = "stream" => e.key \in Got

IInv == TypeOK /\ Witnessed /\ Finished /\ OwnKeys /\ Steady /\ OldRows /\ Entries /\ UpdatesNameTheirColumns

LEMMA InitInv == Init => IInv
<1> SUFFICES ASSUME Init PROVE IInv
  OBVIOUS
<1>1. TypeOK
  BY InitTypes
<1>2. DOMAIN stored = {} /\ DOMAIN snap = {} /\ log = {} /\ version = 0 /\ pc = "idle"
  BY DEF Init
<1>3. Witnessed /\ Finished /\ OwnKeys /\ UpdatesNameTheirColumns
  BY <1>2 DEF Witnessed, Finished, OwnKeys, UpdatesNameTheirColumns
<1>4. Steady
  BY <1>2 DEF Steady
<1>5. OldRows /\ Entries
  BY <1>2 DEF OldRows, Entries, Compared
<1> QED
  BY <1>1, <1>3, <1>4, <1>5 DEF IInv

\* The source and the discovered key change nothing the invariant is about.
LEMMA SameInv ==
  ASSUME IInv, TypeOK', UNCHANGED <<stored, progress, begun, log, history>>
  PROVE  IInv'
<1>1. /\ stored' = stored /\ pc' = pc /\ todo' = todo /\ version' = version /\ cols' = cols
      /\ snap' = snap /\ keyed' = keyed /\ log' = log /\ before' = before /\ steady' = steady
  BY DEF progress, begun, history
<1>2. (Witnessed /\ Finished /\ OwnKeys /\ Steady)'
  BY <1>1 DEF IInv, Witnessed, Finished, OwnKeys, Steady, Told, Live
<1>3. (OldRows /\ Entries)'
  BY <1>1 DEF IInv, OldRows, Entries, Compared, Told, Live, Got, KeysOf
<1>4. UpdatesNameTheirColumns'
  BY <1>1 DEF IInv, UpdatesNameTheirColumns
<1> QED
  BY <1>2, <1>3, <1>4 DEF IInv

\* A sync that fails leaves what it has written.
LEMMA FailedInv ==
  ASSUME IInv, TypeOK', pc = "stream", pc' = "failed",
         UNCHANGED <<environment, stored, todo, begun, log, history>>
  PROVE  IInv'
<1>1. /\ stored' = stored /\ todo' = todo /\ version' = version /\ cols' = cols
      /\ snap' = snap /\ keyed' = keyed /\ log' = log /\ before' = before /\ steady' = steady
  BY DEF begun, history
<1>2. version # 0
  BY DEF IInv, Finished
<1>3. (Witnessed /\ OwnKeys /\ Steady /\ UpdatesNameTheirColumns)'
  BY <1>1 DEF IInv, Witnessed, OwnKeys, Steady, Told, Live, UpdatesNameTheirColumns
<1>4. (Finished /\ OldRows /\ Entries)'
  BY <1>1, <1>2 DEF Finished, OldRows, Entries, Compared
<1> QED
  BY <1>3, <1>4 DEF IInv

\* A sync begins: nothing is received yet, and the rows of the sync before it
\* are the stored ones if it completed.
LEMMA BeginInv ==
  ASSUME IInv, TypeOK', Begin
  PROVE  IInv'
<1>1. TypeOK /\ Witnessed /\ Finished /\ OwnKeys /\ Steady
  BY DEF IInv
<1>2. version \in Nat /\ version' = version + 1 /\ pc' = "stream" /\ log' = {}
  BY <1>1, KeyedTableAssumption DEF Begin, TypeOK
<1>3. stored' = stored /\ steady' = steady
  BY DEF Begin
<1>4. DOMAIN snap' \ todo' = {}
  BY DEF Begin
<1>5. \A k \in DOMAIN stored : stored[k].seen \in Nat
  BY <1>1 DEF TypeOK, Record
<1>6. Witnessed'
  BY <1>1, <1>2, <1>3, <1>5 DEF Witnessed
<1>7. Finished' /\ OwnKeys'
  BY <1>2, <1>4 DEF Finished, OwnKeys
<1>8. Steady'
  <2> SUFFICES ASSUME keyed' PROVE Told' /\ \A row \in steady' : (KeyBy(row, cols) \in DOMAIN stored => Live(KeyBy(row, cols)))'
    BY DEF Steady
  <2>1. keyed /\ pk # <<>> /\ Unique(snap', pk) /\ (version > 0 => cols = pk) /\ cols' = pk
    BY DEF Begin
  <2>2. Told'
    BY <2>1 DEF Told
  <2>3. CASE version = 0
    BY <1>1, <1>3, <2>2, <2>3 DEF Finished
  <2>4. CASE version > 0
    BY <1>1, <1>3, <2>1, <2>2, <2>4 DEF Steady, Live
  <2> QED
    BY <1>2, <2>3, <2>4
<1>9. ASSUME Compared'
      PROVE  /\ pc = "done" /\ todo = {} /\ Told /\ cols' = cols
             /\ KeysOf(before.rows)' = Got
  <2>1. before' = [rows |-> snap, cols |-> cols, completed |-> pc = "done"] /\ cols' = pk
    BY DEF Begin
  <2>2. pc = "done" /\ cols' = cols /\ before'.rows = snap
    BY <1>9, <2>1 DEF Compared
  <2>3. todo = {}
    BY <1>1, <2>2 DEF Finished
  <2>4. Told
    BY <1>9, <2>2 DEF Compared, Told
  <2> QED
    BY <2>2, <2>3, <2>4 DEF KeysOf, Got
<1>10. OldRows'
  <2> SUFFICES ASSUME Compared' PROVE (/\ KeysOf(before.rows) \subseteq DOMAIN stored
                                       /\ \A i \in DOMAIN before.rows :
                                            stored[KeyBy(before.rows[i], cols)].data = Encoded(before.rows[i])
                                       /\ \A k \in DOMAIN stored : Live(k) => k \in KeysOf(before.rows))'
    BY DEF OldRows
  <2>1. before'.rows = snap
    BY DEF Begin
  <2>2. \A i \in DOMAIN snap : KeyBy(snap[i], cols) \in DOMAIN stored /\ stored[KeyBy(snap[i], cols)].data = Encoded(snap[i])
    BY <1>1, <1>9 DEF OwnKeys
  <2>3. \A k \in DOMAIN stored : Live(k) => k \in Got
    <3>1. ASSUME NEW k \in DOMAIN stored, Live(k)
          PROVE  \E i \in DOMAIN snap : k \in RowKey(snap[i], cols)
      BY <1>1, <1>9, <3>1 DEF Finished, Witnessed
    <3> QED
      BY <1>9, <3>1, RowKeyOfColumns DEF Got, Told
  <2>4. Got \subseteq DOMAIN stored
    BY <2>2 DEF Got
  <2> QED
    BY <1>3, <1>9, <2>1, <2>2, <2>3, <2>4 DEF Live
<1>11. Entries' /\ UpdatesNameTheirColumns'
  BY <1>2, <1>4 DEF Entries, UpdatesNameTheirColumns
<1> QED
  BY <1>6, <1>7, <1>8, <1>10, <1>11 DEF IInv

\* What a received row leaves of the records.
LEMMA ReceivedRecords ==
  ASSUME TypeOK, NEW i, NEW k, Receives(i, k)
  PROVE  /\ DOMAIN stored' = DOMAIN stored \cup {k}
         /\ \A l \in DOMAIN stored \ {k} : stored'[l] = stored[l]
         /\ stored'[k].seen = version
         /\ stored'[k].data = Encoded(snap[i])
         /\ stored'[k].deleted => k \in DOMAIN stored /\ stored[k].deleted
BY DEF Receives, Upserted

\* With keys of their own, the row received has one that none had before it.
LEMMA ReceivedKey ==
  ASSUME TypeOK, NEW i, NEW k, Receives(i, k), Told
  PROVE  /\ k = KeyBy(snap[i], cols)
         /\ k \notin Got
         /\ Got' = Got \cup {k}
         /\ Told'
<1>1. i \in DOMAIN snap /\ i \in todo
  BY ReceivedTypes DEF Receives
<1>2. k = KeyBy(snap[i], cols)
  BY RowKeyOfColumns DEF Receives, Told
<1>3. k \notin Got
  BY <1>1, <1>2 DEF Got, Told, Unique
<1>4. snap' = snap /\ cols' = cols /\ todo' = todo \ {i}
  BY DEF Receives, begun
<1>5. DOMAIN snap' \ todo' = (DOMAIN snap \ todo) \cup {i}
  BY <1>1, <1>4
<1>6. Got' = Got \cup {k}
  BY <1>2, <1>4, <1>5 DEF Got
<1> QED
  BY <1>2, <1>3, <1>4, <1>6 DEF Told

LEMMA ReceiveRowInv ==
  ASSUME IInv, TypeOK', NEW i, NEW k, Receives(i, k)
  PROVE  IInv'
<1>1. TypeOK /\ Witnessed /\ Finished /\ OwnKeys /\ Steady
  BY DEF IInv
<1>2. /\ snap' = snap /\ cols' = cols /\ version' = version /\ keyed' = keyed
      /\ before' = before /\ steady' = steady /\ pc' = pc /\ pc = "stream"
      /\ todo' = todo \ {i} /\ i \in todo /\ k \in RowKey(snap[i], cols)
      /\ log' = log \cup Logged(k, Encoded(snap[i]))
  BY DEF Receives, begun, history
<1>3. /\ i \in DOMAIN snap /\ version \in Nat /\ version # 0
  BY <1>1, ReceivedTypes, KeyedTableAssumption, <1>2 DEF TypeOK, Finished
<1>4. /\ DOMAIN stored' = DOMAIN stored \cup {k}
      /\ \A l \in DOMAIN stored \ {k} : stored'[l] = stored[l]
      /\ stored'[k].seen = version
      /\ stored'[k].data = Encoded(snap[i])
      /\ stored'[k].deleted => k \in DOMAIN stored /\ stored[k].deleted
  BY <1>1, ReceivedRecords
<1>5. DOMAIN snap' \ todo' = (DOMAIN snap \ todo) \cup {i}
  BY <1>2, <1>3
<1>6. Witnessed'
  <2> SUFFICES ASSUME NEW l \in DOMAIN stored'
               PROVE  /\ stored'[l].seen <= version
                      /\ stored'[l].seen = version =>
                           \E j \in DOMAIN snap' \ todo' : l \in RowKey(snap[j], cols) /\ stored'[l].data = Encoded(snap[j])
    BY <1>2 DEF Witnessed
  <2>1. CASE l = k
    BY <1>2, <1>3, <1>4, <1>5, <2>1
  <2>2. CASE l # k
    BY <1>1, <1>4, <1>5, <2>2 DEF Witnessed
  <2> QED
    BY <2>1, <2>2
<1>7. Finished'
  BY <1>2, <1>3 DEF Finished
<1>8. OwnKeys'
  <2> SUFFICES ASSUME Told', NEW j \in DOMAIN snap' \ todo'
               PROVE  LET l == KeyBy(snap[j], cols) IN
                      l \in DOMAIN stored' /\ stored'[l].seen = version /\ stored'[l].data = Encoded(snap[j])
    BY <1>2 DEF OwnKeys
  <2>1. Told
    BY <1>2 DEF Told
  <2>2. k = KeyBy(snap[i], cols) /\ k \notin Got
    BY <1>1, <2>1, ReceivedKey
  <2>3. CASE j = i
    BY <1>4, <2>2, <2>3
  <2>4. CASE j # i
    <3>1. j \in DOMAIN snap \ todo
      BY <1>5, <2>4
    <3>2. KeyBy(snap[j], cols) \in DOMAIN stored \ {k}
      BY <1>1, <2>1, <2>2, <3>1 DEF OwnKeys, Got
    <3> QED
      BY <1>1, <1>4, <2>1, <3>1, <3>2 DEF OwnKeys
  <2> QED
    BY <2>3, <2>4
<1>9. Steady'
  <2> SUFFICES ASSUME keyed' PROVE Told' /\ \A row \in steady' : (KeyBy(row, cols) \in DOMAIN stored => Live(KeyBy(row, cols)))'
    BY DEF Steady
  <2>1. Told'
    BY <1>1, <1>2, <1>3 DEF Steady, Told
  <2>2. ASSUME NEW row \in steady, KeyBy(row, cols) \in DOMAIN stored'
        PROVE  ~stored'[KeyBy(row, cols)].deleted
    <3>1. KeyBy(row, cols) \in DOMAIN stored => Live(KeyBy(row, cols))
      BY <1>1, <1>2 DEF Steady
    <3> QED
      BY <1>4, <2>2, <3>1 DEF Live
  <2> QED
    BY <1>2, <2>1, <2>2 DEF Live
<1>10. ASSUME Compared'
       PROVE  Compared /\ k = KeyBy(snap[i], cols) /\ k \notin Got /\ Got' = Got \cup {k}
  <2>1. Compared
    BY <1>2, <1>10 DEF Compared, Told
  <2> QED
    BY <1>1, <2>1, ReceivedKey DEF Compared
<1>11. OldRows'
  <2> SUFFICES ASSUME Compared'
               PROVE  /\ KeysOf(before.rows) \subseteq DOMAIN stored'
                      /\ \A b \in DOMAIN before.rows :
                           KeyBy(before.rows[b], cols) \notin Got' =>
                             stored'[KeyBy(before.rows[b], cols)].data = Encoded(before.rows[b])
                      /\ \A l \in DOMAIN stored' : ~stored'[l].deleted => l \in Got' \cup KeysOf(before.rows)
    BY <1>2 DEF OldRows, Live, KeysOf
  <2>1. OldRows /\ Compared
    BY <1>10 DEF IInv
  <2>2. KeysOf(before.rows) \subseteq DOMAIN stored'
    BY <1>4, <2>1 DEF OldRows
  <2>3. ASSUME NEW b \in DOMAIN before.rows, KeyBy(before.rows[b], cols) \notin Got'
        PROVE  stored'[KeyBy(before.rows[b], cols)].data = Encoded(before.rows[b])
    <3>1. KeyBy(before.rows[b], cols) \in DOMAIN stored \ {k} /\ KeyBy(before.rows[b], cols) \notin Got
      BY <1>10, <2>1, <2>3 DEF OldRows, KeysOf
    <3> QED
      BY <1>4, <2>1, <3>1 DEF OldRows
  <2>4. ASSUME NEW l \in DOMAIN stored', ~stored'[l].deleted
        PROVE  l \in Got' \cup KeysOf(before.rows)
    <3>1. CASE l = k
      BY <1>10, <3>1
    <3>2. CASE l # k
      BY <1>4, <1>10, <2>1, <2>4, <3>2 DEF OldRows, Live
    <3> QED
      BY <3>1, <3>2
  <2> QED
    BY <2>2, <2>3, <2>4
<1>12. Entries'
  <2> DEFINE Diff(x, y, l) == IF x = y THEN {} ELSE {[op |-> "UPDATE", key |-> l, old |-> x, new |-> y,
                                                     columns |-> ChangedColumns(x, y)]}
  <2> SUFFICES ASSUME Compared'
               PROVE  /\ \A b \in DOMAIN before.rows, j \in DOMAIN snap' \ todo' :
                           KeyBy(before.rows[b], cols) = KeyBy(snap[j], cols) =>
                             {e \in log' : e.key = KeyBy(snap[j], cols)} =
                               Diff(Encoded(before.rows[b]), Encoded(snap[j]), KeyBy(snap[j], cols))
                      /\ \A e \in log' :
                           /\ e.op = "DELETE" => e.key \in KeysOf(before.rows) \ KeysOf(snap)
                           /\ e.op = "INSERT" => e.key \in KeysOf(snap) \ KeysOf(before.rows)
                           /\ e.key \in Got'
    BY <1>2 DEF Entries, KeysOf
  <2>1. Entries /\ OldRows /\ Compared /\ k = KeyBy(snap[i], cols) /\ k \notin Got /\ Got' = Got \cup {k}
    BY <1>10 DEF IInv
  <2>2. \A e \in Logged(k, Encoded(snap[i])) :
          /\ e.key = k /\ e.op # "DELETE"
          /\ e.op = "INSERT" => k \notin DOMAIN stored
    BY DEF Logged, Insertion, Update
  <2>3. \A e \in log : e.key # k
    BY <1>2, <2>1 DEF Entries
  <2>4. ASSUME NEW e \in log'
        PROVE  /\ e.op = "DELETE" => e.key \in KeysOf(before.rows) \ KeysOf(snap)
               /\ e.op = "INSERT" => e.key \in KeysOf(snap) \ KeysOf(before.rows)
               /\ e.key \in Got'
    <3>1. CASE e \in log
      BY <1>2, <2>1, <3>1 DEF Entries
    <3>2. CASE e \in Logged(k, Encoded(snap[i]))
      <4>1. k \in KeysOf(snap)
        BY <1>3, <2>1 DEF KeysOf
      <4>2. k \notin DOMAIN stored => k \notin KeysOf(before.rows)
        BY <2>1 DEF OldRows
      <4> QED
        BY <2>1, <2>2, <3>2, <4>1, <4>2
    <3> QED
      BY <1>2, <3>1, <3>2
  <2>5. ASSUME NEW b \in DOMAIN before.rows, NEW j \in DOMAIN snap' \ todo',
               KeyBy(before.rows[b], cols) = KeyBy(snap[j], cols)
        PROVE  {e \in log' : e.key = KeyBy(snap[j], cols)} =
                 Diff(Encoded(before.rows[b]), Encoded(snap[j]), KeyBy(snap[j], cols))
    <3>1. CASE j = i
      <4>1. {e \in log' : e.key = k} = Logged(k, Encoded(snap[i]))
        BY <1>2, <2>2, <2>3
      <4>2. k \in DOMAIN stored /\ stored[k].data = Encoded(before.rows[b])
        BY <2>1, <2>5, <3>1 DEF OldRows, KeysOf
      <4>3. Logged(k, Encoded(snap[i])) = Diff(Encoded(before.rows[b]), Encoded(snap[i]), k)
        BY <4>2 DEF Logged, Update
      <4> QED
        BY <2>1, <3>1, <4>1, <4>3
    <3>2. CASE j # i
      <4>1. j \in DOMAIN snap \ todo
        BY <1>5, <3>2
      <4>2. KeyBy(snap[j], cols) # k
        BY <2>1, <4>1 DEF Got
      <4>3. {e \in log' : e.key = KeyBy(snap[j], cols)} = {e \in log : e.key = KeyBy(snap[j], cols)}
        BY <1>2, <2>2, <4>2
      <4> QED
        BY <2>1, <2>5, <4>1, <4>3 DEF Entries
    <3> QED
      BY <3>1, <3>2
  <2> QED
    BY <2>4, <2>5
<1>13. UpdatesNameTheirColumns'
  <2> SUFFICES ASSUME NEW e \in log', e.op = "UPDATE"
               PROVE  /\ e.columns \subseteq Differing(e.old, e.new)
                      /\ \A c \in Differing(e.old, e.new) \ e.columns :
                           SameButForRounding(e.old, e.new, c) \/ NullColumnGone(e.old, e.new, c)
    BY DEF UpdatesNameTheirColumns
  <2>1. CASE e \in log
    BY <2>1 DEF IInv, UpdatesNameTheirColumns
  <2>2. CASE e \in Logged(k, Encoded(snap[i]))
    <3>1. e.columns = ChangedColumns(e.old, e.new)
      BY <2>2 DEF Logged, Insertion, Update
    <3> QED
      BY <3>1, ChangedColumnsExplained
  <2> QED
    BY <1>2, <2>1, <2>2
<1> QED
  BY <1>6, <1>7, <1>8, <1>9, <1>11, <1>12, <1>13 DEF IInv

LEMMA CompleteInv ==
  ASSUME IInv, TypeOK', Complete
  PROVE  IInv'
<1>1. TypeOK /\ Witnessed /\ Finished /\ OwnKeys /\ Steady
  BY DEF IInv
<1>2. /\ snap' = snap /\ cols' = cols /\ version' = version /\ keyed' = keyed /\ before' = before
      /\ pc = "stream" /\ pc' = "done" /\ todo = {} /\ todo' = todo
      /\ steady' = steady \cap Received(snap)
      /\ log' = log \cup {Deletion(k) : k \in Stale}
  BY DEF Complete, begun
<1>3. version \in Nat /\ version # 0
  BY <1>1, <1>2, KeyedTableAssumption DEF TypeOK, Finished
<1>4. /\ DOMAIN stored' = DOMAIN stored
      /\ \A k \in DOMAIN stored :
           /\ stored'[k].data = stored[k].data
           /\ stored'[k].seen = stored[k].seen
           /\ k \in Stale => stored'[k].deleted
           /\ k \notin Stale => stored'[k] = stored[k]
  BY DEF Complete
<1>5. Witnessed'
  BY <1>1, <1>2, <1>4 DEF Witnessed
<1>6. \A k \in DOMAIN stored : stored[k].seen \in Nat /\ stored[k].seen <= version
  BY <1>1 DEF TypeOK, Record, Witnessed
<1>7. \A k \in DOMAIN stored' : ~stored'[k].deleted => ~stored[k].deleted /\ stored'[k].seen = version
  BY <1>3, <1>4, <1>6 DEF Stale
<1>8. Finished'
  BY <1>2, <1>3, <1>7 DEF Finished, Live
<1>9. OwnKeys'
  <2> SUFFICES ASSUME Told', NEW j \in DOMAIN snap \ todo
               PROVE  LET l == KeyBy(snap[j], cols) IN
                      l \in DOMAIN stored' /\ stored'[l].seen = version /\ stored'[l].data = Encoded(snap[j])
    BY <1>2 DEF OwnKeys
  <2> QED
    BY <1>1, <1>2, <1>4 DEF OwnKeys, Told
<1>10. ASSUME Told, NEW j \in DOMAIN snap
       PROVE  KeyBy(snap[j], cols) \in DOMAIN stored \ Stale
  BY <1>1, <1>2, <1>3, <1>10 DEF OwnKeys, Stale
<1>11. Steady'
  <2> SUFFICES ASSUME keyed' PROVE Told' /\ \A row \in steady' : (KeyBy(row, cols) \in DOMAIN stored => Live(KeyBy(row, cols)))'
    BY DEF Steady
  <2>1. Told /\ Told'
    BY <1>1, <1>2, <1>3 DEF Steady, Told
  <2>2. ASSUME NEW row \in steady'
        PROVE  KeyBy(row, cols) \in DOMAIN stored' /\ ~stored'[KeyBy(row, cols)].deleted
    <3>1. PICK j \in DOMAIN snap : row = snap[j]
      BY <1>2 DEF Received
    <3>2. KeyBy(row, cols) \in DOMAIN stored \ Stale
      BY <1>10, <2>1, <3>1
    <3>3. ~stored[KeyBy(row, cols)].deleted
      BY <1>1, <1>2, <3>2 DEF Steady, Live
    <3> QED
      BY <1>4, <3>2, <3>3
  <2> QED
    BY <1>2, <2>1, <2>2 DEF Live
<1>12. ASSUME Compared'
       PROVE  Compared /\ OldRows /\ Entries /\ Told /\ Got' = Got /\ Got = KeysOf(snap)
  BY <1>2, <1>12 DEF IInv, Compared, Told, Got, KeysOf
<1>13. OldRows'
  <2> SUFFICES ASSUME Compared'
               PROVE  /\ KeysOf(before.rows) \subseteq DOMAIN stored'
                      /\ \A b \in DOMAIN before.rows :
                           KeyBy(before.rows[b], cols) \notin Got' =>
                             stored'[KeyBy(before.rows[b], cols)].data = Encoded(before.rows[b])
                      /\ \A l \in DOMAIN stored' : ~stored'[l].deleted => l \in Got' \cup KeysOf(before.rows)
    BY <1>2 DEF OldRows, Live, KeysOf
  <2>1. \A b \in DOMAIN before.rows : KeyBy(before.rows[b], cols) \in KeysOf(before.rows)
    BY DEF KeysOf
  <2> QED
    BY <1>4, <1>7, <1>12, <2>1 DEF OldRows, Live
<1>14. ASSUME Told, NEW k \in Stale
       PROVE  k \notin KeysOf(snap)
  BY <1>10, <1>14 DEF KeysOf
<1>15. Entries'
  <2> DEFINE Diff(x, y, l) == IF x = y THEN {} ELSE {[op |-> "UPDATE", key |-> l, old |-> x, new |-> y,
                                                     columns |-> ChangedColumns(x, y)]}
  <2> SUFFICES ASSUME Compared'
               PROVE  /\ \A b \in DOMAIN before.rows, j \in DOMAIN snap :
                           KeyBy(before.rows[b], cols) = KeyBy(snap[j], cols) =>
                             {e \in log' : e.key = KeyBy(snap[j], cols)} =
                               Diff(Encoded(before.rows[b]), Encoded(snap[j]), KeyBy(snap[j], cols))
                      /\ \A e \in log' :
                           /\ e.op = "DELETE" => e.key \in KeysOf(before.rows) \ KeysOf(snap)
                           /\ e.op = "INSERT" => e.key \in KeysOf(snap) \ KeysOf(before.rows)
    BY <1>2 DEF Entries, KeysOf
  <2>1. \A k \in Stale : k \in KeysOf(before.rows) \ KeysOf(snap)
    <3>1. ASSUME NEW k \in Stale
          PROVE  k \in DOMAIN stored /\ Live(k)
      BY DEF Stale, Live
    <3> QED
      BY <1>12, <1>14, <3>1 DEF OldRows
  <2>2. \A e \in {Deletion(k) : k \in Stale} : e.op = "DELETE" /\ e.key \in KeysOf(before.rows) \ KeysOf(snap)
    BY <2>1 DEF Deletion
  <2>3. \A e \in log' :
          /\ e.op = "DELETE" => e.key \in KeysOf(before.rows) \ KeysOf(snap)
          /\ e.op = "INSERT" => e.key \in KeysOf(snap) \ KeysOf(before.rows)
    <3>1. \A e \in log :
            /\ e.op = "DELETE" => e.key \in KeysOf(before.rows) \ KeysOf(snap)
            /\ e.op = "INSERT" => e.key \in KeysOf(snap) \ KeysOf(before.rows)
      BY <1>12 DEF Entries
    <3> QED
      BY <1>2, <2>2, <3>1
  <2>4. ASSUME NEW b \in DOMAIN before.rows, NEW j \in DOMAIN snap,
               KeyBy(before.rows[b], cols) = KeyBy(snap[j], cols)
        PROVE  {e \in log' : e.key = KeyBy(snap[j], cols)} =
                 Diff(Encoded(before.rows[b]), Encoded(snap[j]), KeyBy(snap[j], cols))
    <3>1. KeyBy(snap[j], cols) \in KeysOf(snap)
      BY DEF KeysOf
    <3>2. {e \in log' : e.key = KeyBy(snap[j], cols)} = {e \in log : e.key = KeyBy(snap[j], cols)}
      BY <1>2, <2>2, <3>1
    <3> QED
      BY <1>2, <1>12, <2>4, <3>2 DEF Entries
  <2> QED
    BY <2>3, <2>4
<1>16. UpdatesNameTheirColumns'
  <2>1. \A e \in {Deletion(k) : k \in Stale} : e.op # "UPDATE"
    BY DEF Deletion
  <2> QED
    BY <1>2, <2>1 DEF IInv, UpdatesNameTheirColumns
<1> QED
  BY <1>5, <1>8, <1>9, <1>11, <1>13, <1>15, <1>16 DEF IInv

LEMMA NextInv == IInv /\ [Next]_vars => IInv'
<1> SUFFICES ASSUME IInv, [Next]_vars PROVE IInv'
  OBVIOUS
<1>1. TypeOK'
  BY NextTypes DEF IInv
<1>2. CASE ChangeSource
  BY <1>1, <1>2, SameInv DEF ChangeSource
<1>3. CASE Rediscover
  BY <1>1, <1>3, SameInv DEF Rediscover
<1>4. CASE Begin
  BY <1>1, <1>4, BeginInv
<1>5. CASE ReceiveRow
  BY <1>1, <1>5, ReceiveRowPicks, ReceiveRowInv
<1>6. CASE RefuseRow
  BY <1>1, <1>6, FailedInv DEF RefuseRow
<1>7. CASE Fail
  BY <1>1, <1>7, FailedInv DEF Fail
<1>8. CASE Complete
  BY <1>1, <1>8, CompleteInv
<1>9. CASE UNCHANGED vars
  BY <1>1, <1>9, SameInv DEF vars
<1> QED
  BY <1>2, <1>3, <1>4, <1>5, <1>6, <1>7, <1>8, <1>9 DEF Next

THEOREM Invariant == Spec => []IInv
<1>1. Init => IInv
  BY InitInv
<1>2. IInv /\ [Next]_vars => IInv'
  BY NextInv
<1> QED
  BY <1>1, <1>2, PTL DEF Spec

----------------------------------------------------------------------------
(* The properties *)

LEMMA InvMirrors == IInv => LiveRowsAreTheSnapshots
BY DEF IInv, Finished, Witnessed, LiveRowsAreTheSnapshots

LEMMA InvSteady == IInv => SteadyRowsAreLive
<1> SUFFICES ASSUME IInv, pc = "done", keyed, NEW row \in steady
             PROVE  Live(KeyBy(row, cols)) /\ stored[KeyBy(row, cols)].data = Encoded(row)
  BY DEF SteadyRowsAreLive
<1>1. version > 0 /\ todo = {}
  BY KeyedTableAssumption DEF IInv, TypeOK, Finished
<1>2. Told
  BY <1>1 DEF IInv, Steady
<1>3. PICK i \in DOMAIN snap : row = snap[i]
  BY DEF IInv, Finished, Received
<1>4. KeyBy(row, cols) \in DOMAIN stored /\ stored[KeyBy(row, cols)].data = Encoded(row)
  BY <1>1, <1>2, <1>3 DEF IInv, OwnKeys
<1> QED
  BY <1>4 DEF IInv, Steady

LEMMA InvDifference == IInv => LogIsTheDifference
<1> SUFFICES ASSUME IInv, Comparable PROVE LogIsTheDifference
  BY DEF LogIsTheDifference
<1>1. Compared /\ Entries /\ todo = {}
  BY DEF IInv, Finished, Comparable, Compared, Told
<1> QED
  BY <1>1 DEF Entries, LogIsTheDifference

\* What is live after a completed sync is the snapshot it read, whichever syncs
\* failed before it, and whatever the keys.
THEOREM SyncMirrors == Spec => []LiveRowsAreTheSnapshots
BY Invariant, InvMirrors, PTL

\* Under key columns that stay the same and tell the rows apart, a row that is
\* in the source at every completed sync is never lost.
THEOREM SteadyRowsStay == Spec => []SteadyRowsAreLive
BY Invariant, InvSteady, PTL

\* The log entries of a completed sync are the difference of its snapshot and
\* the one before.
THEOREM LogIsDifference == Spec => []LogIsTheDifference
BY Invariant, InvDifference, PTL

\* changed_columns hides roundings and dropped nulls, and nothing else.
THEOREM ColumnsAreNamed == Spec => []UpdatesNameTheirColumns
<1>1. IInv => UpdatesNameTheirColumns
  BY DEF IInv
<1> QED
  BY <1>1, Invariant, PTL
=============================================================================
