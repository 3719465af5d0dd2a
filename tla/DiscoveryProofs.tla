---------------------------- MODULE DiscoveryProofs ----------------------------
(***************************************************************************)
(* Proofs about Discovery, for any number of clients, tables, columns,     *)
(* schemas, calls and faults: type correctness, that the catalog is closed *)
(* at every moment, that a discovery which reports success has a row for   *)
(* every table, and that an undisturbed one repairs the catalog.           *)
(***************************************************************************)
EXTENDS Discovery, TLAPS

USE DiscoveryAssumption DEF DiscoveryAssumption

\* NextOf picks an element: all the proofs need of the order of the queries.
LEMMA NextOfIsIn ==
  ASSUME NEW S, S # {}
  PROVE  NextOf(S) \in S
BY DEF NextOf

----------------------------------------------------------------------------
(* Types *)

LEMMA Defaults ==
  /\ NoKeys \in [Tables -> Keys]
  /\ Absent \in Described
  /\ ATable \in Tables
BY DEF NoKeys, Absent, Described, ATable

\* The rows of the foreign key query are rows of the join.
LEMMA RowsType ==
  ASSUME NEW s \in Schemas
  PROVE  ForeignKeyRows(s) \subseteq JoinRow
<1>1. s.fks \subseteq ForeignKeys
  BY DEF SchemaType
<1>2. Usage(s) \subseteq [fk : ForeignKeys, column : Columns]
  BY <1>1 DEF Usage
<1>3. Targets(s) \subseteq [fk : ForeignKeys, column : Columns]
  BY <1>1 DEF Targets
<1>4. QED
  BY <1>1, <1>2, <1>3 DEF ForeignKeyRows, JoinRow

LEMMA SchemaParts ==
  ASSUME NEW s \in Schemas
  PROVE  /\ s.tables \subseteq Tables
         /\ s.key \in [Tables -> Keys]
         /\ s.columns \in [Tables -> Described]
BY DEF SchemaType

LEMMA OverType ==
  ASSUME RequestTypeOK, NEW ds, Over(ds)
  PROVE  RequestTypeOK'
BY Defaults DEF RequestTypeOK, Over, Reset, PCs

\* What is left of TypeOK.
RestTypeOK ==
  /\ schema \in Schemas
  /\ calls \in Nat
  /\ migrations \in Nat
  /\ faults \in Nat
  /\ undisturbed \in BOOLEAN

LEMMA DisturbedType ==
  ASSUME undisturbed' = FALSE
  PROVE  undisturbed' \in BOOLEAN
OBVIOUS

LEMMA NoteType ==
  ASSUME RestTypeOK, NEW d \in Clients, NEW o, Note(d, o)
  PROVE  faults' \in Nat /\ undisturbed' \in BOOLEAN
BY DEF RestTypeOK, Note, CountFault

LEMMA CountFaultType ==
  ASSUME RestTypeOK, NEW d \in Clients, NEW o, CountFault(d, o)
  PROVE  faults' \in Nat
BY DEF RestTypeOK, CountFault

LEMMA TypeParts == TypeOK <=> RestTypeOK /\ CatalogTypeOK /\ RequestTypeOK
BY DEF TypeOK, RestTypeOK

LEMMA TypePartsNext == TypeOK' <=> RestTypeOK' /\ CatalogTypeOK' /\ RequestTypeOK'
BY DEF TypeOK, RestTypeOK

LEMMA CatalogFrame ==
  ASSUME CatalogTypeOK, UNCHANGED catalog
  PROVE  CatalogTypeOK'
BY DEF CatalogTypeOK, catalog

LEMMA StatusType ==
  ASSUME CatalogTypeOK, NEW o, NEW value \in Statuses, SetStatus(o, value),
         UNCHANGED <<exists, known, key, columns, links>>
  PROVE  CatalogTypeOK'
BY DEF CatalogTypeOK, SetStatus

LEMMA TypeStep == TypeOK /\ [Next]_vars => TypeOK'
<1> SUFFICES ASSUME TypeOK, [Next]_vars PROVE TypeOK'
  OBVIOUS
<1>0. RestTypeOK /\ CatalogTypeOK /\ RequestTypeOK
  BY TypeParts
<1>1. ASSUME NEW d \in Clients, BeginDiscover(d) PROVE TypeOK'
  <2>1. RequestTypeOK' /\ RestTypeOK'
    BY <1>0, <1>1 DEF BeginDiscover, RestTypeOK, RequestTypeOK, locals, tables, progress, pending, Goto, PCs
  <2>2. QED
    BY <1>0, <1>1, <2>1, CatalogFrame, TypePartsNext DEF BeginDiscover
<1>2. ASSUME NEW d \in Clients, ConnectError(d) PROVE TypeOK'
  <2>1. RequestTypeOK'
    BY <1>0, <1>2 DEF ConnectError, RequestTypeOK, locals, tables, progress, pending, Goto, PCs
  <2>2. RestTypeOK'
    <3>1. undisturbed' \in BOOLEAN
      BY <1>2, DisturbedType DEF ConnectError
    <3>2. schema' \in Schemas /\ calls' \in Nat /\ migrations' \in Nat /\ faults' \in Nat
      BY <1>0, <1>2 DEF ConnectError, RestTypeOK, begun
    <3>3. QED
      BY <3>1, <3>2 DEF RestTypeOK
  <2>3. QED
    BY <1>0, <1>2, <2>1, <2>2, CatalogFrame, TypePartsNext DEF ConnectError
<1>3. ASSUME NEW d \in Clients, MarkConnected(d) PROVE TypeOK'
  <2>1. RequestTypeOK'
    BY <1>0, <1>3 DEF MarkConnected, RequestTypeOK, locals, tables, progress, pending, Goto, PCs
  <2>2. CatalogTypeOK'
    BY <1>0, <1>3, StatusType DEF MarkConnected, Statuses
  <2>3. RestTypeOK'
    BY <1>0, <1>3, NoteType DEF MarkConnected, RestTypeOK, begun
  <2>4. QED
    BY <2>1, <2>2, <2>3, TypePartsNext
<1>4. ASSUME NEW d \in Clients, ListTables(d) PROVE TypeOK'
  <2>1. RequestTypeOK'
    BY <1>0, <1>4, SchemaParts DEF ListTables, RestTypeOK, RequestTypeOK, locals, tables, progress, pending, Goto, PCs
  <2>2. RestTypeOK'
    BY <1>0, <1>4, NoteType DEF ListTables, RestTypeOK, begun
  <2>3. QED
    BY <1>0, <1>4, <2>1, <2>2, CatalogFrame, TypePartsNext DEF ListTables
<1>5. ASSUME NEW d \in Clients, ReadKey(d) PROVE TypeOK'
  <2> DEFINE t == NextOf(todo[d])
  <2>1. t \in Tables
    BY <1>0, <1>5, NextOfIsIn DEF ReadKey, RequestTypeOK
  <2>2. KeyNow(t) \in Keys
    BY <1>0, <2>1, SchemaParts DEF KeyNow, RestTypeOK
  <2> HIDE DEF t
  <2>3. /\ readKey' = readKey \/ readKey' = [readKey EXCEPT ![d][t] = KeyNow(t)]
        /\ todo' = todo \/ todo' = [todo EXCEPT ![d] = @ \ {t}]
        /\ UNCHANGED <<pc, cancelled>> \/ Goto(d, "fail")
        /\ UNCHANGED <<number, listed, ids, table, pending>>
    BY <1>5 DEF ReadKey, t
  <2>4. RequestTypeOK'
    <3>1. readKey' \in [Clients -> [Tables -> Keys]]
      <4>1. readKey[d] \in [Tables -> Keys]
        BY <1>0 DEF RequestTypeOK
      <4>2. [readKey[d] EXCEPT ![t] = KeyNow(t)] \in [Tables -> Keys]
        BY <2>1, <2>2, <4>1
      <4>3. QED
        BY ZenonT(60), <1>0, <2>3, <4>2 DEF RequestTypeOK
    <3>2. todo' \in [Clients -> SUBSET Tables]
      BY <1>0, <2>3 DEF RequestTypeOK
    <3>3. pc' \in [Clients -> PCs]
      BY <1>0, <2>3 DEF RequestTypeOK, Goto, PCs
    <3>4. QED
      BY <1>0, <2>3, <3>1, <3>2, <3>3 DEF RequestTypeOK, pending, Goto
  <2>5. RestTypeOK'
    BY <1>0, <1>5, NoteType DEF ReadKey, RestTypeOK, begun
  <2>6. QED
    BY <1>0, <1>5, <2>4, <2>5, CatalogFrame, TypePartsNext DEF ReadKey
<1>6. ASSUME NEW d \in Clients,
             KeysRead(d) \/ TablesDone(d) \/ ColumnsDone(d) \/ LinksDone(d)
      PROVE  TypeOK'
  <2>1. RequestTypeOK'
    BY <1>0, <1>6
    DEF KeysRead, TablesDone, ColumnsDone, LinksDone, RequestTypeOK, locals, tables, progress, pending, Goto, PCs
  <2>2. RestTypeOK'
    BY <1>0, <1>6 DEF KeysRead, TablesDone, ColumnsDone, LinksDone, RestTypeOK, counters
  <2>3. UNCHANGED catalog
    BY <1>6 DEF KeysRead, TablesDone, ColumnsDone, LinksDone
  <2>4. QED
    BY <1>0, <2>1, <2>2, <2>3, CatalogFrame, TypePartsNext
<1>7. ASSUME NEW d \in Clients, UpsertTable(d) PROVE TypeOK'
  <2> DEFINE t == NextOf(todo[d])
  <2>1. t \in Tables
    BY <1>0, <1>7, NextOfIsIn DEF UpsertTable, RequestTypeOK
  <2>2. readKey[d][t] \in Keys
    BY <1>0, <2>1 DEF RequestTypeOK
  <2>3. /\ \/ Return(d)
           \/ /\ todo' = [todo EXCEPT ![d] = @ \ {t}]
              /\ ids' = [ids EXCEPT ![d] = @ \cup {t}]
              /\ table' = [table EXCEPT ![d] = t]
              /\ Goto(d, "columns")
              /\ UNCHANGED <<tables, pending>>
        /\ \/ known' = known /\ key' = key
           \/ known' = known \cup {t} /\ key' = [key EXCEPT ![t] = readKey[d][t]]
        /\ UNCHANGED <<exists, status, columns, links>>
    BY <1>7 DEF UpsertTable, UpsertedKey, GiveUp
  <2> HIDE DEF t
  <2>4. RequestTypeOK'
    <3>1. CASE Return(d)
      BY <1>0, <3>1, OverType DEF Return
    <3>2. CASE ~Return(d)
      <4>1. todo' \in [Clients -> SUBSET Tables]
        <5>1. todo[d] \ {t} \in SUBSET Tables
          BY <1>0 DEF RequestTypeOK
        <5>2. todo' = [todo EXCEPT ![d] = todo[d] \ {t}]
          BY <2>3, <3>2
        <5>3. QED
          BY <1>0, <5>1, <5>2 DEF RequestTypeOK
      <4>2. ids' \in [Clients -> SUBSET Tables]
        BY SMTT(60), <1>0, <2>1, <2>3, <3>2 DEF RequestTypeOK
      <4>3. table' \in [Clients -> Tables]
        BY <1>0, <2>1, <2>3, <3>2 DEF RequestTypeOK
      <4>4. pc' \in [Clients -> PCs]
        BY <1>0, <2>3, <3>2 DEF RequestTypeOK, Goto, PCs
      <4>5. QED
        BY <1>0, <2>3, <3>2, <4>1, <4>2, <4>3, <4>4 DEF RequestTypeOK, tables, pending, Goto
    <3>3. QED
      BY <3>1, <3>2
  <2>5. CatalogTypeOK'
    BY <1>0, <2>1, <2>2, <2>3 DEF CatalogTypeOK
  <2>6. RestTypeOK'
    <3>1. undisturbed' = undisturbed \/ undisturbed' = FALSE
      BY <1>7 DEF UpsertTable
    <3>2. undisturbed' \in BOOLEAN
      BY <1>0, <3>1 DEF RestTypeOK
    <3>3. \E o : CountFault(d, o)
      BY <1>7 DEF UpsertTable
    <3>4. QED
      BY <1>0, <1>7, <3>2, <3>3, CountFaultType DEF UpsertTable, RestTypeOK, begun
  <2>7. QED
    BY <2>4, <2>5, <2>6, TypePartsNext
<1>8. ASSUME NEW d \in Clients, ReadColumns(d) PROVE TypeOK'
  <2>1. table[d] \in Tables
    BY <1>0 DEF RequestTypeOK
  <2>2. schema.columns[table[d]] \in Described
    BY <1>0, <2>1, SchemaParts DEF RestTypeOK
  <2>3. PICK new \in Described : fresh' = [fresh EXCEPT ![d] = new]
    BY <1>8, <2>2, Defaults DEF ReadColumns
  <2>4. RequestTypeOK'
    BY <1>0, <1>8, <2>3 DEF ReadColumns, RequestTypeOK, locals, tables, progress, pending, Goto, PCs
  <2>5. RestTypeOK'
    BY <1>0, <1>8, NoteType DEF ReadColumns, RestTypeOK, begun
  <2>6. QED
    BY <1>0, <1>8, <2>4, <2>5, CatalogFrame, TypePartsNext DEF ReadColumns
<1>9. ASSUME NEW d \in Clients, InsertColumn(d) PROVE TypeOK'
  <2> DEFINE t == table[d]
             rest == {x \in Columns : fresh[d][x] # NoColumn}
             c == NextOf(rest)
             new == fresh[d][c]
  <2>0. t \in Tables /\ fresh[d] \in Described
    BY <1>0 DEF RequestTypeOK
  <2>1. c \in rest
    BY <1>9, NextOfIsIn DEF InsertColumn
  <2>2. c \in Columns /\ new \in Metas
    BY <2>0, <2>1 DEF Described
  <2>3. columns[t][c] \in Metas \cup {NoColumn}
    BY <1>0, <2>0, <2>2 DEF CatalogTypeOK, Described
  <2>4. InsertedColumn(columns[t][c], new) \in Metas
    BY <2>2, <2>3 DEF InsertedColumn, Metas
  <2>5. /\ \/ columns' = columns
           \/ columns' = [columns EXCEPT ![t][c] = InsertedColumn(columns[t][c], new)]
        /\ fresh' = [fresh EXCEPT ![d][c] = NoColumn]
        /\ UNCHANGED <<schema, exists, status, known, key, links, begun, pc, cancelled,
                       tables, progress, rows>>
        /\ undisturbed' \in BOOLEAN
        /\ \E o : CountFault(d, o)
    BY <1>9 DEF InsertColumn
  <2> HIDE DEF t, rest, c, new
  <2>6. CatalogTypeOK'
    BY <1>0, <2>0, <2>2, <2>4, <2>5 DEF CatalogTypeOK, Described
  <2>7. RequestTypeOK'
    BY <1>0, <2>2, <2>5 DEF RequestTypeOK, tables, progress, Described
  <2>8. RestTypeOK'
    BY <1>0, <2>5, CountFaultType DEF RestTypeOK, begun
  <2>9. QED
    BY <2>6, <2>7, <2>8, TypePartsNext
<1>10. ASSUME NEW d \in Clients, ReadForeignKeys(d) PROVE TypeOK'
  <2>1. RequestTypeOK'
    <3>1. ForeignKeyRows(schema) \subseteq JoinRow
      BY <1>0, RowsType DEF RestTypeOK
    <3>2. rows' = rows \/ rows' = [rows EXCEPT ![d] = ForeignKeyRows(schema)]
      BY <1>10 DEF ReadForeignKeys
    <3>3. rows' \in [Clients -> SUBSET JoinRow]
      BY <1>0, <3>1, <3>2 DEF RequestTypeOK
    <3>4. QED
      BY <1>0, <1>10, <3>3 DEF ReadForeignKeys, RequestTypeOK, locals, tables, progress, pending, Goto, PCs
  <2>2. RestTypeOK'
    BY <1>0, <1>10, NoteType DEF ReadForeignKeys, RestTypeOK, begun
  <2>3. QED
    BY <1>0, <1>10, <2>1, <2>2, CatalogFrame, TypePartsNext DEF ReadForeignKeys
<1>11. ASSUME NEW d \in Clients, ClearLinks(d) PROVE TypeOK'
  <2>1. RequestTypeOK'
    BY <1>0, <1>11 DEF ClearLinks, RequestTypeOK, locals, tables, progress, pending, Goto, PCs
  <2>2. CatalogTypeOK'
    BY <1>0, <1>11 DEF ClearLinks, CatalogTypeOK
  <2>3. RestTypeOK'
    BY <1>0, <1>11, NoteType DEF ClearLinks, RestTypeOK, begun
  <2>4. QED
    BY <2>1, <2>2, <2>3, TypePartsNext
<1>12. ASSUME NEW d \in Clients, InsertLink(d) PROVE TypeOK'
  <2> DEFINE j == NextOf(rows[d])
  <2>0. j \in JoinRow /\ number[d] \in Nat
    BY <1>0, <1>12, NextOfIsIn DEF InsertLink, RequestTypeOK
  <2>1. NewLink(d, j) \in Link
    BY <2>0 DEF NewLink, Link
  <2>2. /\ links' = links \/ links' = links \cup {NewLink(d, j)}
        /\ rows' = [rows EXCEPT ![d] = @ \ {j}]
        /\ UNCHANGED <<schema, exists, status, known, key, columns, begun, pc, cancelled,
                       tables, progress, fresh>>
        /\ \/ UNCHANGED <<faults, undisturbed>>
           \/ undisturbed' \in BOOLEAN /\ \E o : CountFault(d, o)
    BY <1>12 DEF InsertLink
  <2> HIDE DEF j
  <2>3. CatalogTypeOK'
    BY <1>0, <2>1, <2>2 DEF CatalogTypeOK
  <2>4. RequestTypeOK'
    BY <1>0, <2>2 DEF RequestTypeOK, tables, progress
  <2>5. RestTypeOK'
    BY <1>0, <2>2, CountFaultType DEF RestTypeOK, begun
  <2>6. QED
    BY <2>3, <2>4, <2>5, TypePartsNext
<1>13. ASSUME NEW d \in Clients, Finish(d) PROVE TypeOK'
  <2>1. RestTypeOK'
    BY <1>0, <1>13, NoteType DEF Finish, RestTypeOK, begun
  <2>2. CatalogTypeOK'
    BY <1>0, <1>13, StatusType DEF Finish, Statuses
  <2>3. QED
    BY <1>0, <1>13, <2>1, <2>2, OverType, TypePartsNext DEF Finish, Return
<1>14. ASSUME NEW d \in Clients, Fail(d) PROVE TypeOK'
  <2>1. RestTypeOK'
    BY <1>0, <1>14, CountFaultType DEF Fail, RestTypeOK, begun
  <2>2. CatalogTypeOK'
    BY <1>0, <1>14, StatusType DEF Fail, Statuses
  <2>3. QED
    BY <1>0, <1>14, <2>1, <2>2, OverType, TypePartsNext DEF Fail, Return
<1>15. ASSUME Migrate PROVE TypeOK'
  <2>1. RestTypeOK'
    <3>1. undisturbed' \in BOOLEAN
      BY <1>15, DisturbedType DEF Migrate
    <3>2. schema' \in Schemas /\ calls' \in Nat /\ migrations' \in Nat /\ faults' \in Nat
      BY <1>0, <1>15 DEF Migrate, RestTypeOK
    <3>3. QED
      BY <3>1, <3>2 DEF RestTypeOK
  <2>2. QED
    BY <1>0, <1>15, <2>1, CatalogFrame, TypePartsNext
    DEF Migrate, requests, RequestTypeOK, locals, tables, progress, pending
<1>16. ASSUME DeleteSource PROVE TypeOK'
  <2>1. CatalogTypeOK'
    BY <1>0, <1>16 DEF DeleteSource, Cascade, CatalogTypeOK, NoKeys, Absent, Described
  <2>2. QED
    BY <1>0, <1>16, <2>1, TypePartsNext
    DEF DeleteSource, requests, RestTypeOK, counters, RequestTypeOK, locals, tables, progress, pending
<1>17. ASSUME NEW d \in Clients, Cancel(d) PROVE TypeOK'
  <2>1. RequestTypeOK'
    BY <1>0, <1>17 DEF Cancel, RequestTypeOK, locals, tables, progress, pending
  <2>2. RestTypeOK'
    BY <1>0, <1>17 DEF Cancel, RestTypeOK, begun
  <2>3. QED
    BY <1>0, <1>17, <2>1, <2>2, CatalogFrame, TypePartsNext DEF Cancel
<1>18. ASSUME Crash PROVE TypeOK'
  <2>1. RequestTypeOK'
    BY <1>0, <1>18, OverType DEF Crash
  <2>2. RestTypeOK'
    <3>1. undisturbed' \in BOOLEAN
      BY <1>18, DisturbedType DEF Crash
    <3>2. schema' \in Schemas /\ calls' \in Nat /\ migrations' \in Nat /\ faults' \in Nat
      BY <1>0, <1>18 DEF Crash, RestTypeOK, begun
    <3>3. QED
      BY <3>1, <3>2 DEF RestTypeOK
  <2>3. QED
    BY <1>0, <1>18, <2>1, <2>2, CatalogFrame, TypePartsNext DEF Crash
<1>19. ASSUME UNCHANGED vars PROVE TypeOK'
  BY <1>0, <1>19, CatalogFrame, TypePartsNext
  DEF vars, requests, counters, RestTypeOK, RequestTypeOK, locals, tables, progress, pending
<1>20. QED
  BY <1>1, <1>2, <1>3, <1>4, <1>5, <1>6, <1>7, <1>8, <1>9, <1>10, <1>11, <1>12, <1>13,
     <1>14, <1>15, <1>16, <1>17, <1>18, <1>19 DEF Next, Discover

\* The catalog and the requests of every discovery hold what their types allow.
THEOREM TypeCorrect == Spec => []TypeOK
<1>1. Init => TypeOK
  <2> SUFFICES ASSUME Init PROVE TypeOK
    OBVIOUS
  <2>1. CatalogTypeOK
    BY Defaults DEF Init, CatalogTypeOK, Statuses
  <2>2. RequestTypeOK
    BY Defaults DEF Init, RequestTypeOK, PCs
  <2>3. undisturbed \in BOOLEAN
    BY DEF Init
  <2>4. RestTypeOK
    BY <2>3 DEF Init, RestTypeOK
  <2>5. QED
    BY <2>1, <2>2, <2>4, TypeParts
<1>2. QED
  BY <1>1, TypeStep, PTL DEF Spec

----------------------------------------------------------------------------
(* The catalog is closed, and what is reported as discovered is complete *)

\* A request inside a table has upserted it.
AtHand == \A d \in Clients : pc[d] \in {"columns", "insert"} => table[d] \in ids[d]
\* What a request has upserted is there as long as the source is.
IdsAreKnown == exists => \A d \in Clients : ids[d] \subseteq known
\* Every table listed to a request is still to do or upserted.
Accounted ==
  \A d \in Clients :
    /\ pc[d] \in {"upsert", "columns", "insert"} => listed[d] \subseteq todo[d] \cup ids[d]
    /\ pc[d] \in PastTables => listed[d] \subseteq ids[d]

ClosedInv == AtHand /\ IdsAreKnown /\ Accounted /\ CatalogIsClosed

\* The variables that the invariant is about.
closedVars == <<exists, known, columns, links, pc, listed, todo, ids, table>>

LEMMA ClosedFrame ==
  ASSUME ClosedInv, UNCHANGED closedVars
  PROVE  ClosedInv'
BY DEF ClosedInv, AtHand, IdsAreKnown, Accounted, CatalogIsClosed, closedVars

\* A request that only moves on, outside the loop over the tables.
LEMMA ClosedMove ==
  ASSUME TypeOK, ClosedInv, NEW d \in Clients, NEW label \in PCs,
         pc' = [pc EXCEPT ![d] = label],
         UNCHANGED <<exists, known, columns, links, listed, ids, table, todo>>,
         \/ label \in {"idle", "connect", "tables", "keys", "fail"}
         \/ pc[d] \in PastTables /\ label \in PastTables
         \/ pc[d] = "columns" /\ label = "insert"
         \/ pc[d] = "insert" /\ label = "upsert"
         \/ pc[d] = "upsert" /\ label = "constraints" /\ todo[d] = {}
  PROVE  ClosedInv'
<1>1. pc \in [Clients -> PCs]
  BY DEF TypeOK, RequestTypeOK
<1>2. AtHand'
  BY <1>1 DEF ClosedInv, AtHand, PastTables
<1>3. IdsAreKnown'
  BY DEF ClosedInv, IdsAreKnown
<1>4. Accounted'
  BY <1>1 DEF ClosedInv, Accounted, PastTables
<1>5. CatalogIsClosed'
  BY DEF ClosedInv, CatalogIsClosed
<1>6. QED
  BY <1>2, <1>3, <1>4, <1>5 DEF ClosedInv

LEMMA ClosedOver ==
  ASSUME TypeOK, ClosedInv, NEW ds, Over(ds), UNCHANGED <<exists, known, columns, links>>
  PROVE  ClosedInv'
<1>1. AtHand'
  BY DEF ClosedInv, AtHand, Over, Reset, TypeOK, RequestTypeOK
<1>2. IdsAreKnown'
  BY DEF ClosedInv, IdsAreKnown, Over, Reset, TypeOK, RequestTypeOK
<1>3. Accounted'
  BY DEF ClosedInv, Accounted, Over, Reset, TypeOK, RequestTypeOK, PastTables
<1>4. CatalogIsClosed'
  BY DEF ClosedInv, CatalogIsClosed
<1>5. QED
  BY <1>1, <1>2, <1>3, <1>4 DEF ClosedInv

LEMMA ClosedStep == TypeOK /\ ClosedInv /\ [Next]_vars => ClosedInv'
<1> SUFFICES ASSUME TypeOK, ClosedInv, [Next]_vars PROVE ClosedInv'
  OBVIOUS
<1>0. /\ pc \in [Clients -> PCs]
      /\ listed \in [Clients -> SUBSET Tables]
      /\ todo \in [Clients -> SUBSET Tables]
      /\ ids \in [Clients -> SUBSET Tables]
      /\ table \in [Clients -> Tables]
      /\ columns \in [Tables -> Described]
  BY DEF TypeOK, RequestTypeOK, CatalogTypeOK
<1>1. ASSUME NEW d \in Clients,
             BeginDiscover(d) \/ ConnectError(d) \/ MarkConnected(d) \/ ReadForeignKeys(d) \/ LinksDone(d)
      PROVE  ClosedInv'
  <2>1. PICK label \in PCs : Goto(d, label)
    BY <1>1 DEF BeginDiscover, ConnectError, MarkConnected, ReadForeignKeys, LinksDone, PCs
  <2>2. \/ label \in {"connect", "tables", "fail"}
        \/ pc[d] \in PastTables /\ label \in PastTables
    BY <1>0, <1>1, <2>1 DEF BeginDiscover, ConnectError, MarkConnected, ReadForeignKeys, LinksDone,
       Goto, PastTables
  <2>3. UNCHANGED <<exists, known, columns, links, listed, ids, table, todo>>
    BY <1>1 DEF BeginDiscover, ConnectError, MarkConnected, ReadForeignKeys, LinksDone, SetStatus,
       catalog, locals, tables, progress
  <2>4. QED
    BY <2>1, <2>2, <2>3, ClosedMove DEF Goto
<1>2. ASSUME NEW d \in Clients, ReadColumns(d) \/ ColumnsDone(d) \/ TablesDone(d)
      PROVE  ClosedInv'
  <2>1. PICK label \in PCs : Goto(d, label)
    BY <1>2 DEF ReadColumns, ColumnsDone, TablesDone, PCs
  <2>2. \/ pc[d] = "columns" /\ label = "insert"
        \/ pc[d] = "insert" /\ label = "upsert"
        \/ pc[d] = "upsert" /\ label = "constraints" /\ todo[d] = {}
    BY <1>0, <1>2, <2>1 DEF ReadColumns, ColumnsDone, TablesDone, Goto
  <2>3. UNCHANGED <<exists, known, columns, links, listed, ids, table, todo>>
    BY <1>2 DEF ReadColumns, ColumnsDone, TablesDone, catalog, locals, tables, progress
  <2>4. QED
    BY <2>1, <2>2, <2>3, ClosedMove DEF Goto
<1>3. ASSUME NEW d \in Clients, ListTables(d) \/ ReadKey(d) \/ KeysRead(d) PROVE ClosedInv'
  <2>1. /\ pc[d] \in {"tables", "keys"}
        /\ pc' = pc \/ \E label \in {"keys", "upsert", "fail"} : pc' = [pc EXCEPT ![d] = label]
        /\ pc'[d] = "upsert" => todo'[d] = listed'[d]
    BY <1>0, <1>3 DEF ListTables, ReadKey, KeysRead, Goto, tables
  <2>2. /\ \A e \in Clients \ {d} : todo'[e] = todo[e] /\ listed'[e] = listed[e]
        /\ UNCHANGED <<exists, known, columns, links, ids, table>>
    BY <1>0, <1>3 DEF ListTables, ReadKey, KeysRead, catalog, tables
  <2>3. AtHand'
    BY <1>0, <2>1, <2>2 DEF ClosedInv, AtHand
  <2>4. IdsAreKnown'
    BY <2>2 DEF ClosedInv, IdsAreKnown
  <2>5. Accounted'
    <3>1. ASSUME NEW e \in Clients, e # d
          PROVE  pc'[e] = pc[e]
      BY <1>0, <2>1, <3>1
    <3>2. pc'[d] \in {"tables", "keys", "upsert", "fail"}
      BY <1>0, <2>1
    <3>3. QED
      BY <2>1, <2>2, <3>1, <3>2 DEF ClosedInv, Accounted, PastTables
  <2>6. CatalogIsClosed'
    BY <2>2 DEF ClosedInv, CatalogIsClosed
  <2>7. QED
    BY <2>3, <2>4, <2>5, <2>6 DEF ClosedInv
<1>4. ASSUME NEW d \in Clients, UpsertTable(d) PROVE ClosedInv'
  <2> DEFINE t == NextOf(todo[d])
  <2>1. /\ UNCHANGED <<exists, columns, links>>
        /\ known \subseteq known'
        /\ known' = known \/ exists
        /\ \/ Return(d)
           \/ /\ todo' = [todo EXCEPT ![d] = @ \ {t}]
              /\ ids' = [ids EXCEPT ![d] = @ \cup {t}]
              /\ table' = [table EXCEPT ![d] = t]
              /\ pc' = [pc EXCEPT ![d] = "columns"]
              /\ UNCHANGED listed
              /\ t \in known'
    BY <1>4 DEF UpsertTable, GiveUp, Applied, Referenced, Goto, tables
  <2>2. pc[d] = "upsert"
    BY <1>4 DEF UpsertTable
  <2> HIDE DEF t
  <2>3. CatalogIsClosed'
    BY <2>1 DEF ClosedInv, CatalogIsClosed
  <2>4. CASE Return(d)
    <3>1. AtHand'
      BY <1>0, <2>4 DEF ClosedInv, AtHand, Return, Over, Reset
    <3>2. IdsAreKnown'
      BY <1>0, <2>1, <2>4 DEF ClosedInv, IdsAreKnown, Return, Over, Reset
    <3>3. Accounted'
      BY <1>0, <2>4 DEF ClosedInv, Accounted, Return, Over, Reset, PastTables
    <3>4. QED
      BY <2>3, <3>1, <3>2, <3>3 DEF ClosedInv
  <2>5. CASE ~Return(d)
    <3>1. AtHand'
      BY <1>0, <2>1, <2>5 DEF ClosedInv, AtHand
    <3>2. IdsAreKnown'
      BY <1>0, <2>1, <2>5 DEF ClosedInv, IdsAreKnown
    <3>3. Accounted'
      BY <1>0, <2>1, <2>2, <2>5 DEF ClosedInv, Accounted, PastTables
    <3>4. QED
      BY <2>3, <3>1, <3>2, <3>3 DEF ClosedInv
  <2>6. QED
    BY <2>4, <2>5
<1>5. ASSUME NEW d \in Clients, InsertColumn(d) PROVE ClosedInv'
  <2>1. /\ UNCHANGED <<exists, known, links, pc, listed, todo, ids, table>>
        /\ \/ columns' = columns
           \/ exists /\ \E c, new : columns' = [columns EXCEPT ![table[d]][c] = new]
    BY <1>5 DEF InsertColumn, tables, progress
  <2>2. pc[d] = "insert"
    BY <1>5 DEF InsertColumn
  <2>3. \A t \in Tables \ known : columns'[t] = columns[t]
    BY <1>0, <2>1, <2>2 DEF ClosedInv, AtHand, IdsAreKnown
  <2>4. AtHand' /\ IdsAreKnown' /\ Accounted'
    BY <2>1 DEF ClosedInv, AtHand, IdsAreKnown, Accounted
  <2>5. CatalogIsClosed'
    BY <2>1, <2>3 DEF ClosedInv, CatalogIsClosed
  <2>6. QED
    BY <2>4, <2>5 DEF ClosedInv
<1>6. ASSUME NEW d \in Clients, ClearLinks(d) PROVE ClosedInv'
  <2>1. links' \subseteq links
    BY <1>6 DEF ClearLinks
  <2>2. /\ UNCHANGED <<exists, known, columns, listed, todo, ids, table>>
        /\ pc[d] = "clear" /\ pc' = [pc EXCEPT ![d] = "link"]
    BY <1>6 DEF ClearLinks, Goto, locals, tables, progress
  <2>3. AtHand' /\ Accounted'
    BY <1>0, <2>2 DEF ClosedInv, AtHand, Accounted, PastTables
  <2>4. IdsAreKnown' /\ CatalogIsClosed'
    BY <2>1, <2>2 DEF ClosedInv, IdsAreKnown, CatalogIsClosed
  <2>5. QED
    BY <2>3, <2>4 DEF ClosedInv
<1>7. ASSUME NEW d \in Clients, InsertLink(d) PROVE ClosedInv'
  <2> DEFINE j == NextOf(rows[d])
  <2>1. /\ UNCHANGED <<exists, known, columns, pc, listed, todo, ids, table>>
        /\ \/ links' = links
           \/ exists /\ j.tc.from \in ids[d] /\ links' = links \cup {NewLink(d, j)}
    BY <1>7 DEF InsertLink, tables, progress
  <2> HIDE DEF j
  <2>2. AtHand' /\ IdsAreKnown' /\ Accounted'
    BY <2>1 DEF ClosedInv, AtHand, IdsAreKnown, Accounted
  <2>3. CASE links' = links
    BY <2>1, <2>2, <2>3 DEF ClosedInv, CatalogIsClosed
  <2>4. CASE exists /\ j.tc.from \in ids[d] /\ links' = links \cup {NewLink(d, j)}
    <3>1. ids[d] \subseteq known
      BY <2>4 DEF ClosedInv, IdsAreKnown
    <3>2. /\ NewLink(d, j).row = j
          /\ NewLink(d, j).resolved <=> j.ccu.fk.to \in ids[d]
      BY DEF NewLink
    <3>3. \A l \in links' : l.row.tc.from \in known /\ (l.resolved => l.row.ccu.fk.to \in known)
      BY <2>4, <3>1, <3>2 DEF ClosedInv, CatalogIsClosed
    <3>4. CatalogIsClosed'
      BY <2>1, <3>3 DEF ClosedInv, CatalogIsClosed
    <3>5. QED
      BY <2>2, <3>4 DEF ClosedInv
  <2>5. QED
    BY <2>1, <2>3, <2>4
<1>8. ASSUME NEW d \in Clients, Finish(d) \/ Fail(d) PROVE ClosedInv'
  BY <1>8, ClosedOver DEF Finish, Fail, Return
<1>9. ASSUME Migrate PROVE ClosedInv'
  BY <1>9, ClosedFrame DEF Migrate, catalog, requests, locals, tables, progress, closedVars
<1>10. ASSUME DeleteSource PROVE ClosedInv'
  <2>1. /\ known' = {} /\ links' = {} /\ ~exists' /\ \A t \in Tables : columns'[t] = Absent
        /\ UNCHANGED <<pc, listed, todo, ids, table>>
    BY <1>10 DEF DeleteSource, Cascade, requests, locals, tables, progress
  <2>2. AtHand' /\ IdsAreKnown' /\ Accounted' /\ CatalogIsClosed'
    BY <2>1 DEF ClosedInv, AtHand, IdsAreKnown, Accounted, CatalogIsClosed
  <2>3. QED
    BY <2>2 DEF ClosedInv
<1>11. ASSUME NEW d \in Clients, Cancel(d) PROVE ClosedInv'
  BY <1>11, ClosedFrame DEF Cancel, catalog, locals, tables, progress, closedVars
<1>12. ASSUME Crash PROVE ClosedInv'
  BY <1>12, ClosedOver DEF Crash, catalog
<1>13. ASSUME UNCHANGED vars PROVE ClosedInv'
  BY <1>13, ClosedFrame DEF vars, catalog, requests, locals, tables, progress, closedVars
<1>14. QED
  BY <1>1, <1>2, <1>3, <1>4, <1>5, <1>6, <1>7, <1>8, <1>9, <1>10, <1>11, <1>12, <1>13
  DEF Next, Discover

THEOREM ClosedInvariant == Spec => [](TypeOK /\ ClosedInv)
<1>1. Init => ClosedInv
  BY DEF Init, ClosedInv, AtHand, IdsAreKnown, Accounted, CatalogIsClosed, PastTables
<1>2. QED
  BY <1>1, TypeCorrect, ClosedStep, PTL DEF Spec

\* Whatever overlaps, fails or is deleted: nothing of the catalog is left
\* without its source or without its table.
THEOREM CatalogStaysClosed == Spec => []CatalogIsClosed
<1>1. ClosedInv => CatalogIsClosed
  BY DEF ClosedInv
<1>2. QED
  BY <1>1, ClosedInvariant, PTL

\* A discovery that reports success has a row for every table listed to it.
THEOREM ReportedIsComplete == Spec => []DiscoveredIsComplete
<1>1. ClosedInv => DiscoveredIsComplete
  BY DEF ClosedInv, Accounted, IdsAreKnown, DiscoveredIsComplete
<1>2. QED
  BY <1>1, ClosedInvariant, PTL

----------------------------------------------------------------------------
(* One undisturbed discovery repairs the catalog *)

Busy(d) == pc[d] # "idle"

ColumnRepaired(t, c) ==
  schema.columns[t][c] # NoColumn =>
    columns[t][c] # NoColumn /\ columns[t][c].type = schema.columns[t][c].type
RowRepaired(t) == t \in known /\ key[t] = schema.key[t]
ColumnsRepaired(t) == \A c \in Columns : ColumnRepaired(t, c)
Repaired == exists /\ status = "discovered" /\ (\A t \in schema.tables : TableRepaired(t)) /\ LinksRepaired

\* How far an undisturbed discovery has come.
KeysProgress(d) ==
  pc[d] = "keys" =>
    /\ listed[d] = schema.tables
    /\ todo[d] \subseteq listed[d]
    /\ \A t \in listed[d] \ todo[d] : readKey[d][t] = schema.key[t]
TablesProgress(d) ==
  pc[d] \in {"upsert", "columns", "insert"} =>
    /\ listed[d] = schema.tables
    /\ todo[d] \subseteq listed[d]
    /\ ids[d] = listed[d] \ todo[d]
    /\ \A t \in listed[d] : readKey[d][t] = schema.key[t]
    /\ \A t \in ids[d] : RowRepaired(t)
    /\ \A t \in ids[d] : pc[d] = "upsert" \/ t # table[d] => ColumnsRepaired(t)
    /\ pc[d] # "upsert" => table[d] \in schema.tables
ColumnsProgress(d) ==
  pc[d] = "insert" =>
    \A c \in Columns :
      /\ fresh[d][c] \in {NoColumn, schema.columns[table[d]][c]}
      /\ fresh[d][c] = NoColumn => ColumnRepaired(table[d], c)
Upserted(d) ==
  pc[d] \in PastTables =>
    /\ ids[d] = schema.tables
    /\ \A t \in schema.tables : RowRepaired(t) /\ ColumnsRepaired(t)
LinksProgress(d) ==
  /\ pc[d] = "clear" => rows[d] = ForeignKeyRows(schema)
  /\ pc[d] = "link" =>
       /\ rows[d] \subseteq ForeignKeyRows(schema)
       /\ {l.row : l \in links} = {j \in ForeignKeyRows(schema) \ rows[d] : j.tc.from \in schema.tables}
       /\ \A l, m \in links : l.row = m.row => l = m
       /\ \A l \in links : l.resolved <=> l.row.ccu.fk.to \in schema.tables
  /\ pc[d] = "finish" => LinksRepaired
Progress(d) ==
  /\ pc[d] # "fail"
  /\ KeysProgress(d)
  /\ TablesProgress(d)
  /\ ColumnsProgress(d)
  /\ Upserted(d)
  /\ LinksProgress(d)

\* A request that has not come to its tables has upserted none.
NothingYet == \A d \in Clients : pc[d] \in {"idle", "connect", "tables", "keys"} => ids[d] = {}
RepairInv ==
  /\ NothingYet
  /\ undisturbed =>
       /\ exists
       /\ \A d, e \in Clients : Busy(d) /\ Busy(e) => d = e
       /\ \A d \in Clients : Busy(d) => Progress(d)
       /\ (\A d \in Clients : ~Busy(d)) => Repaired

LEMMA NothingYetStep == TypeOK /\ NothingYet /\ [Next]_vars => NothingYet'
<1> SUFFICES ASSUME TypeOK, NothingYet, [Next]_vars PROVE NothingYet'
  OBVIOUS
<1>0. pc \in [Clients -> PCs] /\ ids \in [Clients -> SUBSET Tables]
  BY DEF TypeOK, RequestTypeOK
<1>1. ASSUME NEW d \in Clients,
             \/ BeginDiscover(d) \/ ConnectError(d) \/ MarkConnected(d) \/ ListTables(d)
             \/ ReadKey(d) \/ KeysRead(d) \/ TablesDone(d) \/ ReadColumns(d) \/ InsertColumn(d)
             \/ ColumnsDone(d) \/ ReadForeignKeys(d) \/ ClearLinks(d) \/ InsertLink(d) \/ LinksDone(d)
      PROVE  NothingYet'
  <2>1. ids' = ids
    BY <1>1 DEF BeginDiscover, ConnectError, MarkConnected, ListTables, ReadKey, KeysRead, TablesDone,
       ReadColumns, InsertColumn, ColumnsDone, ReadForeignKeys, ClearLinks, InsertLink, LinksDone,
       locals, progress
  <2>2. \/ pc' = pc
        \/ \E label \in PCs \ {"idle", "connect", "tables", "keys"} : pc' = [pc EXCEPT ![d] = label]
        \/ /\ pc[d] \in {"idle", "connect", "tables", "keys"}
           /\ \E label \in PCs : pc' = [pc EXCEPT ![d] = label]
    BY <1>1 DEF BeginDiscover, ConnectError, MarkConnected, ListTables, ReadKey, KeysRead, TablesDone,
       ReadColumns, InsertColumn, ColumnsDone, ReadForeignKeys, ClearLinks, InsertLink, LinksDone,
       Goto, PCs
  <2>3. QED
    BY <1>0, <2>1, <2>2 DEF NothingYet
<1>10. ASSUME NEW ds, Over(ds), NEW e \in Clients
       PROVE  \/ ids'[e] = {}
              \/ pc'[e] = pc[e] /\ ids'[e] = ids[e]
  <2>1. pc'[e] = (IF e \in ds THEN "idle" ELSE pc[e]) /\ ids'[e] = (IF e \in ds THEN {} ELSE ids[e])
    BY <1>10 DEF Over, Reset
  <2>2. QED
    BY <2>1
<1>3. ASSUME NEW ds, Over(ds) PROVE NothingYet'
  <2>1. \A e \in Clients : ids'[e] = {} \/ (pc'[e] = pc[e] /\ ids'[e] = ids[e])
    BY <1>3, <1>10
  <2>2. QED
    BY <2>1 DEF NothingYet
<1>2. ASSUME NEW d \in Clients, UpsertTable(d) PROVE NothingYet'
  <2>1. CASE Over({d})
    BY <1>3, <2>1
  <2>2. CASE pc' = [pc EXCEPT ![d] = "columns"] /\ \A e \in Clients \ {d} : ids'[e] = ids[e]
    <3>1. pc'[d] = "columns" /\ \A e \in Clients \ {d} : pc'[e] = pc[e] /\ ids'[e] = ids[e]
      BY <1>0, <2>2
    <3>2. QED
      BY <3>1 DEF NothingYet
  <2>3. \/ Over({d})
        \/ pc' = [pc EXCEPT ![d] = "columns"] /\ \A e \in Clients \ {d} : ids'[e] = ids[e]
    BY <1>0, <1>2 DEF UpsertTable, GiveUp, Return, Goto
  <2>4. QED
    BY <2>1, <2>2, <2>3
<1>4. ASSUME UNCHANGED <<pc, ids>> PROVE NothingYet'
  BY <1>4 DEF NothingYet
<1>5. ASSUME NEW d \in Clients, Finish(d) \/ Fail(d) PROVE NothingYet'
  BY <1>3, <1>5 DEF Finish, Fail, Return
<1>6. ASSUME Crash PROVE NothingYet'
  BY <1>3, <1>6 DEF Crash
<1>7. ASSUME NEW d \in Clients, Cancel(d) PROVE NothingYet'
  BY <1>4, <1>7 DEF Cancel, locals, progress
<1>8. ASSUME Migrate \/ DeleteSource \/ UNCHANGED vars PROVE NothingYet'
  BY <1>4, <1>8 DEF Migrate, DeleteSource, vars, requests, locals, progress
<1>9. QED
  BY <1>1, <1>2, <1>5, <1>6, <1>7, <1>8 DEF Next, Discover

\* A step of the only request that is busy, which nothing disturbs.
LEMMA SoleStep ==
  ASSUME RepairInv, undisturbed, NothingYet', exists', NEW d \in Clients, Busy(d),
         \A e \in Clients : e # d => pc'[e] = pc[e],
         Busy(d)' => Progress(d)', ~Busy(d)' => Repaired'
  PROVE  RepairInv'
<1>1. \A e \in Clients : e # d => ~Busy(e) /\ ~Busy(e)'
  BY DEF RepairInv, Busy
<1>2. \A e, f \in Clients : Busy(e)' /\ Busy(f)' => e = f
  BY <1>1
<1>3. \A e \in Clients : Busy(e)' => Progress(e)'
  BY <1>1
<1>4. (\A e \in Clients : ~Busy(e)') => Repaired'
  OBVIOUS
<1>5. QED
  BY <1>2, <1>3, <1>4 DEF RepairInv

LEMMA SoleProgress ==
  ASSUME RepairInv, undisturbed, NEW d \in Clients, Busy(d)
  PROVE  exists /\ Progress(d)
BY DEF RepairInv

\* The parts of Progress do not depend on each other's variables.
LEMMA ProgressParts ==
  ASSUME NEW d \in Clients, pc'[d] # "fail", KeysProgress(d)', TablesProgress(d)',
         ColumnsProgress(d)', Upserted(d)', LinksProgress(d)'
  PROVE  Progress(d)'
BY DEF Progress

LEMMA RepairStep == TypeOK /\ RepairInv /\ [Next]_vars => RepairInv'
<1> SUFFICES ASSUME TypeOK, RepairInv, [Next]_vars PROVE RepairInv'
  OBVIOUS
<1>0. /\ pc \in [Clients -> PCs]
      /\ listed \in [Clients -> SUBSET Tables]
      /\ readKey \in [Clients -> [Tables -> Keys]]
      /\ todo \in [Clients -> SUBSET Tables]
      /\ ids \in [Clients -> SUBSET Tables]
      /\ table \in [Clients -> Tables]
      /\ fresh \in [Clients -> Described]
      /\ rows \in [Clients -> SUBSET JoinRow]
      /\ columns \in [Tables -> Described]
      /\ key \in [Tables -> Keys]
      /\ schema.columns \in [Tables -> Described]
      /\ schema.tables \subseteq Tables
  BY SchemaParts DEF TypeOK, RequestTypeOK, CatalogTypeOK
<1>n. NothingYet'
  BY NothingYetStep DEF RepairInv
<1>u. ASSUME ~undisturbed' PROVE RepairInv'
  BY <1>u, <1>n DEF RepairInv
<1>1. ASSUME NEW d \in Clients, BeginDiscover(d) PROVE RepairInv'
  <2> SUFFICES ASSUME undisturbed' PROVE RepairInv'
    BY <1>u
  <2>1. /\ \A e \in Clients : pc[e] = "idle"
        /\ pc' = [pc EXCEPT ![d] = "connect"]
        /\ exists'
    BY <1>1 DEF BeginDiscover, Goto, catalog
  <2>2. \A e \in Clients : Busy(e)' <=> e = d
    BY <1>0, <2>1 DEF Busy
  <2>3. Progress(d)'
    BY <1>0, <2>1 DEF Progress, KeysProgress, TablesProgress, ColumnsProgress, Upserted,
       LinksProgress, PastTables
  <2>4. QED
    BY <1>n, <2>1, <2>2, <2>3 DEF RepairInv
<1>2. ASSUME NEW d \in Clients, ConnectError(d) \/ Fail(d) PROVE RepairInv'
  BY <1>2, <1>u DEF ConnectError, Fail
<1>3. ASSUME NEW d \in Clients, MarkConnected(d) PROVE RepairInv'
  <2> SUFFICES ASSUME undisturbed' PROVE RepairInv'
    BY <1>u
  <2>1. undisturbed /\ pc[d] = "connect" /\ pc' = [pc EXCEPT ![d] = "tables"] /\ exists' = exists
    BY <1>3 DEF MarkConnected, Note, Goto
  <2>2. Busy(d) /\ Busy(d)' /\ \A e \in Clients : e # d => pc'[e] = pc[e]
    BY <1>0, <2>1 DEF Busy
  <2>3. Progress(d)'
    BY <1>0, <2>1 DEF Progress, KeysProgress, TablesProgress, ColumnsProgress, Upserted,
       LinksProgress, PastTables
  <2>4. QED
    BY <1>n, <2>1, <2>2, <2>3, SoleProgress, SoleStep
<1>4. ASSUME NEW d \in Clients, ListTables(d) PROVE RepairInv'
  <2> SUFFICES ASSUME undisturbed' PROVE RepairInv'
    BY <1>u
  <2>1. /\ undisturbed /\ pc[d] = "tables" /\ pc' = [pc EXCEPT ![d] = "keys"]
        /\ exists' = exists /\ schema' = schema
        /\ listed'[d] = schema.tables /\ todo'[d] = schema.tables
    BY <1>0, <1>4 DEF ListTables, Note, Goto, catalog
  <2>2. Busy(d) /\ Busy(d)' /\ \A e \in Clients : e # d => pc'[e] = pc[e]
    BY <1>0, <2>1 DEF Busy
  <2>3. Progress(d)'
    BY <1>0, <2>1 DEF Progress, KeysProgress, TablesProgress, ColumnsProgress, Upserted,
       LinksProgress, PastTables
  <2>4. QED
    BY <1>n, <2>1, <2>2, <2>3, SoleProgress, SoleStep
<1>5. ASSUME NEW d \in Clients, ReadKey(d) PROVE RepairInv'
  <2> SUFFICES ASSUME undisturbed' PROVE RepairInv'
    BY <1>u
  <2> DEFINE t == NextOf(todo[d])
  <2>1. /\ undisturbed /\ pc[d] = "keys" /\ pc' = pc
        /\ UNCHANGED <<exists, schema, listed>>
        /\ readKey' = [readKey EXCEPT ![d][t] = KeyNow(t)]
        /\ todo' = [todo EXCEPT ![d] = @ \ {t}]
        /\ todo[d] # {}
    BY <1>5 DEF ReadKey, Note, catalog
  <2>2. t \in todo[d] /\ t \in Tables
    BY <1>0, <2>1, NextOfIsIn
  <2> HIDE DEF t
  <2>3. Busy(d) /\ Busy(d)' /\ \A e \in Clients : e # d => pc'[e] = pc[e]
    BY <2>1 DEF Busy
  <2>4. Progress(d) /\ exists
    BY <2>1, <2>3, SoleProgress
  <2>5. KeyNow(t) = schema.key[t]
    BY <2>1, <2>2, <2>4 DEF Progress, KeysProgress, KeyNow
  <2>6. readKey'[d][t] = KeyNow(t) /\ \A s \in Tables \ {t} : readKey'[d][s] = readKey[d][s]
    BY <1>0, <2>1, <2>2
  <2>7. todo'[d] = todo[d] \ {t}
    BY <1>0, <2>1
  <2>8. KeysProgress(d)'
    BY <1>0, <2>1, <2>4, <2>5, <2>6, <2>7 DEF Progress, KeysProgress
  <2>9. Progress(d)'
    BY <2>1, <2>8 DEF Progress, TablesProgress, ColumnsProgress, Upserted, LinksProgress, PastTables
  <2>10. QED
    BY <1>n, <2>1, <2>3, <2>4, <2>9, SoleStep
<1>6. ASSUME NEW d \in Clients, KeysRead(d) PROVE RepairInv'
  <2> SUFFICES ASSUME undisturbed' PROVE RepairInv'
    BY <1>u
  <2>1. /\ undisturbed /\ pc[d] = "keys" /\ pc' = [pc EXCEPT ![d] = "upsert"]
        /\ UNCHANGED <<exists, schema, listed, readKey, ids>>
        /\ todo[d] = {} /\ todo'[d] = listed[d]
    BY <1>0, <1>6 DEF KeysRead, Goto, catalog, tables
  <2>2. Busy(d) /\ Busy(d)' /\ \A e \in Clients : e # d => pc'[e] = pc[e]
    BY <1>0, <2>1 DEF Busy
  <2>3. Progress(d) /\ exists
    BY <2>1, <2>2, SoleProgress
  <2>4. ids[d] = {}
    BY <2>1 DEF RepairInv, NothingYet
  <2>5. TablesProgress(d)'
    BY <1>0, <2>1, <2>3, <2>4 DEF Progress, KeysProgress, TablesProgress
  <2>6. Progress(d)'
    BY <1>0, <2>1, <2>5 DEF Progress, KeysProgress, ColumnsProgress, Upserted, LinksProgress, PastTables
  <2>7. QED
    BY <1>n, <2>1, <2>2, <2>3, <2>6, SoleStep
<1>7. ASSUME NEW d \in Clients, UpsertTable(d) PROVE RepairInv'
  <2> SUFFICES ASSUME undisturbed' PROVE RepairInv'
    BY <1>u
  <2> DEFINE t == NextOf(todo[d])
  <2>1. /\ undisturbed /\ pc[d] = "upsert" /\ pc' = [pc EXCEPT ![d] = "columns"]
        /\ UNCHANGED <<exists, schema, columns, listed, readKey>>
        /\ todo' = [todo EXCEPT ![d] = @ \ {t}]
        /\ ids' = [ids EXCEPT ![d] = @ \cup {t}]
        /\ table' = [table EXCEPT ![d] = t]
        /\ known' = known \cup {t}
        /\ key' = [key EXCEPT ![t] = readKey[d][t]]
        /\ todo[d] # {}
    BY <1>7 DEF UpsertTable, Applied, UpsertedKey, Goto, tables
  <2>2. t \in todo[d] /\ t \in Tables
    BY <1>0, <2>1, NextOfIsIn
  <2> HIDE DEF t
  <2>3. Busy(d) /\ Busy(d)' /\ \A e \in Clients : e # d => pc'[e] = pc[e]
    BY <1>0, <2>1 DEF Busy
  <2>4. Progress(d) /\ exists
    BY <2>1, <2>3, SoleProgress
  <2>5. todo'[d] = todo[d] \ {t} /\ ids'[d] = ids[d] \cup {t} /\ table'[d] = t
    BY <1>0, <2>1
  <2>6. pc[d] = "upsert" /\ TablesProgress(d)
    BY <2>1, <2>4 DEF Progress
  <2>7. /\ listed[d] = schema.tables /\ todo[d] \subseteq listed[d] /\ ids[d] = listed[d] \ todo[d]
        /\ \A s \in listed[d] : readKey[d][s] = schema.key[s]
        /\ \A s \in ids[d] : RowRepaired(s) /\ ColumnsRepaired(s)
    BY <2>6 DEF TablesProgress
  <2>8. \A s \in ids'[d] : RowRepaired(s)'
    BY <1>0, <2>1, <2>2, <2>5, <2>7 DEF RowRepaired
  <2>9. \A s \in ids'[d] : s # table'[d] => ColumnsRepaired(s)'
    BY <2>1, <2>5, <2>7 DEF ColumnsRepaired, ColumnRepaired
  <2>10. listed'[d] = schema'.tables /\ \A s \in listed'[d] : readKey'[d][s] = schema'.key[s]
    BY <2>1, <2>7
  <2>11. todo'[d] \subseteq listed'[d] /\ ids'[d] = listed'[d] \ todo'[d]
    BY <2>1, <2>2, <2>5, <2>7
  <2>12. TablesProgress(d)'
    <3>1. table'[d] \in schema'.tables
      BY <2>1, <2>2, <2>5, <2>7
    <3>2. pc'[d] = "columns"
      BY <1>0, <2>1
    <3>3. QED
      BY <2>8, <2>9, <2>10, <2>11, <3>1, <3>2 DEF TablesProgress
  <2>13. Progress(d)'
    BY <1>0, <2>1, <2>12 DEF Progress, KeysProgress, ColumnsProgress, Upserted, LinksProgress, PastTables
  <2>14. QED
    BY <1>n, <2>1, <2>3, <2>4, <2>13, SoleStep
<1>8. ASSUME NEW d \in Clients, TablesDone(d) PROVE RepairInv'
  <2> SUFFICES ASSUME undisturbed' PROVE RepairInv'
    BY <1>u
  <2>1. /\ undisturbed /\ pc[d] = "upsert" /\ pc' = [pc EXCEPT ![d] = "constraints"]
        /\ UNCHANGED <<exists, schema, known, key, columns, ids>>
        /\ todo[d] = {}
    BY <1>8 DEF TablesDone, Goto, catalog, locals, progress
  <2>2. Busy(d) /\ Busy(d)' /\ \A e \in Clients : e # d => pc'[e] = pc[e]
    BY <1>0, <2>1 DEF Busy
  <2>3. Progress(d) /\ exists
    BY <2>1, <2>2, SoleProgress
  <2>4. TablesProgress(d)
    BY <2>3 DEF Progress
  <2>5. ids[d] = schema.tables /\ \A t \in schema.tables : RowRepaired(t) /\ ColumnsRepaired(t)
    BY <2>1, <2>4 DEF TablesProgress
  <2>6. Upserted(d)'
    BY <2>1, <2>5 DEF Upserted, RowRepaired, ColumnsRepaired, ColumnRepaired
  <2>7. Progress(d)'
    BY <1>0, <2>1, <2>6 DEF Progress, KeysProgress, TablesProgress, ColumnsProgress, LinksProgress, PastTables
  <2>8. QED
    BY <1>n, <2>1, <2>2, <2>3, <2>7, SoleStep
<1>9. ASSUME NEW d \in Clients, ReadColumns(d) PROVE RepairInv'
  <2> SUFFICES ASSUME undisturbed' PROVE RepairInv'
    BY <1>u
  <2>1. /\ undisturbed /\ pc[d] = "columns" /\ pc' = [pc EXCEPT ![d] = "insert"]
        /\ UNCHANGED <<exists, schema, known, key, columns, listed, readKey, todo, ids, table>>
        /\ fresh' = [fresh EXCEPT ![d] =
                       IF table[d] \in schema.tables THEN schema.columns[table[d]] ELSE Absent]
    BY <1>9 DEF ReadColumns, Note, Goto, catalog, tables, progress
  <2>2. Busy(d) /\ Busy(d)' /\ \A e \in Clients : e # d => pc'[e] = pc[e]
    BY <1>0, <2>1 DEF Busy
  <2>3. Progress(d) /\ exists
    BY <2>1, <2>2, SoleProgress
  <2>4. fresh'[d] = schema.columns[table[d]] \/ fresh'[d] = Absent
    BY <1>0, <2>1
  <2>5. TablesProgress(d)'
    BY <1>0, <2>1, <2>3 DEF Progress, TablesProgress, RowRepaired, ColumnsRepaired, ColumnRepaired
  <2>6. table[d] \in schema.tables => ColumnsProgress(d)'
    BY <1>0, <2>1 DEF ColumnsProgress, ColumnRepaired
  <2>7. table[d] \in schema.tables
    BY <1>0, <2>1, <2>3 DEF Progress, TablesProgress
  <2>8. Progress(d)'
    BY <1>0, <2>1, <2>5, <2>6, <2>7 DEF Progress, KeysProgress, Upserted, LinksProgress, PastTables
  <2>9. QED
    BY <1>n, <2>1, <2>2, <2>3, <2>8, SoleStep
<1>10. ASSUME NEW d \in Clients, InsertColumn(d) PROVE RepairInv'
  <2> SUFFICES ASSUME undisturbed' PROVE RepairInv'
    BY <1>u
  <2> DEFINE t == table[d]
             rest == {x \in Columns : fresh[d][x] # NoColumn}
             c == NextOf(rest)
             new == fresh[d][c]
  <2>1. /\ undisturbed /\ pc[d] = "insert" /\ rest # {}
        /\ UNCHANGED <<exists, schema, pc, known, key, listed, readKey, todo, ids, table>>
        /\ columns' = [columns EXCEPT ![t][c] = InsertedColumn(columns[t][c], new)]
        /\ fresh' = [fresh EXCEPT ![d][c] = NoColumn]
    BY <1>10 DEF InsertColumn, Applied, tables, progress
  <2>2. c \in Columns /\ new # NoColumn
    BY <2>1, NextOfIsIn
  <2>3. t \in Tables
    BY <1>0
  <2> HIDE DEF c, rest
  <2>4. Busy(d) /\ Busy(d)' /\ \A e \in Clients : e # d => pc'[e] = pc[e]
    BY <2>1 DEF Busy
  <2>5. Progress(d) /\ exists
    BY <2>1, <2>4, SoleProgress
  <2>6. InsertedColumn(columns[t][c], new) # NoColumn /\ InsertedColumn(columns[t][c], new).type = new.type
    <3>1. new \in Metas
      BY <1>0, <2>2 DEF Described
    <3>2. columns[t][c] \in Metas \cup {NoColumn}
      BY <1>0, <2>2, <2>3 DEF Described
    <3>3. InsertedColumn(columns[t][c], new) \in Metas
      BY <3>1, <3>2 DEF InsertedColumn, Metas
    <3>4. QED
      BY <3>1, <3>2, <3>3 DEF InsertedColumn
  <2>7. /\ columns'[t][c] = InsertedColumn(columns[t][c], new)
        /\ \A x \in Columns \ {c} : columns'[t][x] = columns[t][x]
        /\ \A s \in Tables \ {t} : columns'[s] = columns[s]
    BY <1>0, <2>1, <2>2, <2>3 DEF Described
  <2>8. fresh'[d][c] = NoColumn /\ \A x \in Columns \ {c} : fresh'[d][x] = fresh[d][x]
    BY <1>0, <2>1, <2>2 DEF Described
  <2>9. TablesProgress(d)'
    <3>1. listed[d] \subseteq Tables /\ ids[d] \subseteq Tables
      BY <1>0
    <3>2. \A s \in ids[d] : s # t /\ ColumnsRepaired(s) => ColumnsRepaired(s)'
      BY <2>1, <2>7, <3>1 DEF ColumnsRepaired, ColumnRepaired
    <3>3. TablesProgress(d)
      BY <2>5 DEF Progress
    <3>4. QED
      BY <2>1, <3>2, <3>3 DEF TablesProgress, RowRepaired
  <2>10. ColumnsProgress(d)'
    <3>1. new = schema.columns[t][c]
      BY <2>1, <2>2, <2>5 DEF Progress, ColumnsProgress
    <3>2. \A x \in Columns : x = c => ColumnRepaired(table[d], x)'
      BY <2>1, <2>6, <2>7, <3>1 DEF ColumnRepaired
    <3>3. \A x \in Columns \ {c} :
            /\ fresh'[d][x] \in {NoColumn, schema.columns[table[d]][x]}
            /\ fresh'[d][x] = NoColumn => ColumnRepaired(table[d], x)'
      BY <2>1, <2>5, <2>7, <2>8 DEF Progress, ColumnsProgress, ColumnRepaired
    <3>4. QED
      BY <2>1, <2>8, <3>2, <3>3 DEF ColumnsProgress
  <2>11. Progress(d)'
    BY <2>1, <2>9, <2>10 DEF Progress, KeysProgress, Upserted, LinksProgress, PastTables
  <2>12. QED
    BY <1>n, <2>1, <2>4, <2>5, <2>11, SoleStep
<1>11. ASSUME NEW d \in Clients, ColumnsDone(d) PROVE RepairInv'
  <2> SUFFICES ASSUME undisturbed' PROVE RepairInv'
    BY <1>u
  <2>1. /\ undisturbed /\ pc[d] = "insert" /\ pc' = [pc EXCEPT ![d] = "upsert"]
        /\ UNCHANGED <<exists, schema, known, key, columns, listed, readKey, todo, ids, table>>
        /\ fresh[d] = Absent
    BY <1>11 DEF ColumnsDone, Goto, catalog, locals, tables, progress
  <2>2. Busy(d) /\ Busy(d)' /\ \A e \in Clients : e # d => pc'[e] = pc[e]
    BY <1>0, <2>1 DEF Busy
  <2>3. Progress(d) /\ exists
    BY <2>1, <2>2, SoleProgress
  <2>4. ColumnsRepaired(table[d])
    BY <2>1, <2>3 DEF Progress, ColumnsProgress, ColumnsRepaired, Absent
  <2>5. TablesProgress(d)'
    <3>1. TablesProgress(d)
      BY <2>3 DEF Progress
    <3>2. \A t \in ids[d] : RowRepaired(t) /\ ColumnsRepaired(t)
      BY <2>1, <2>4, <3>1 DEF TablesProgress
    <3>3. \A t \in ids[d] : RowRepaired(t)' /\ ColumnsRepaired(t)'
      BY <2>1, <3>2 DEF RowRepaired, ColumnsRepaired, ColumnRepaired
    <3>4. QED
      BY <2>1, <3>1, <3>3 DEF TablesProgress
  <2>6. Progress(d)'
    BY <1>0, <2>1, <2>5 DEF Progress, KeysProgress, ColumnsProgress, Upserted, LinksProgress, PastTables
  <2>7. QED
    BY <1>n, <2>1, <2>2, <2>3, <2>6, SoleStep
<1>12. ASSUME NEW d \in Clients, ReadForeignKeys(d) PROVE RepairInv'
  <2> SUFFICES ASSUME undisturbed' PROVE RepairInv'
    BY <1>u
  <2>1. /\ undisturbed /\ pc[d] = "constraints" /\ pc' = [pc EXCEPT ![d] = "clear"]
        /\ UNCHANGED <<exists, schema, known, key, columns, ids>>
        /\ rows' = [rows EXCEPT ![d] = ForeignKeyRows(schema)]
    BY <1>12 DEF ReadForeignKeys, Note, Goto, catalog, progress
  <2>2. Busy(d) /\ Busy(d)' /\ \A e \in Clients : e # d => pc'[e] = pc[e]
    BY <1>0, <2>1 DEF Busy
  <2>3. Progress(d) /\ exists
    BY <2>1, <2>2, SoleProgress
  <2>4. Upserted(d)'
    BY <1>0, <2>1, <2>3 DEF Progress, Upserted, PastTables, RowRepaired, ColumnsRepaired, ColumnRepaired
  <2>5. rows'[d] = ForeignKeyRows(schema)'
    BY <1>0, <2>1 DEF ForeignKeyRows, Usage, Targets
  <2>6. Progress(d)'
    BY <1>0, <2>1, <2>4, <2>5 DEF Progress, KeysProgress, TablesProgress, ColumnsProgress, LinksProgress
  <2>7. QED
    BY <1>n, <2>1, <2>2, <2>3, <2>6, SoleStep
<1>13. ASSUME NEW d \in Clients, ClearLinks(d) PROVE RepairInv'
  <2> SUFFICES ASSUME undisturbed' PROVE RepairInv'
    BY <1>u
  <2>1. /\ undisturbed /\ pc[d] = "clear" /\ pc' = [pc EXCEPT ![d] = "link"]
        /\ UNCHANGED <<exists, schema, known, key, columns, ids, rows>>
        /\ links' = {}
    BY <1>13 DEF ClearLinks, Applied, Note, Goto, locals, progress, pending
  <2>2. Busy(d) /\ Busy(d)' /\ \A e \in Clients : e # d => pc'[e] = pc[e]
    BY <1>0, <2>1 DEF Busy
  <2>3. Progress(d) /\ exists
    BY <2>1, <2>2, SoleProgress
  <2>4. Upserted(d)'
    BY <1>0, <2>1, <2>3 DEF Progress, Upserted, PastTables, RowRepaired, ColumnsRepaired, ColumnRepaired
  <2>5. rows'[d] = ForeignKeyRows(schema')
    BY <2>1, <2>3 DEF Progress, LinksProgress
  <2>6. LinksProgress(d)'
    BY <1>0, <2>1, <2>5 DEF LinksProgress
  <2>7. Progress(d)'
    BY <1>0, <2>1, <2>4, <2>6 DEF Progress, KeysProgress, TablesProgress, ColumnsProgress
  <2>8. QED
    BY <1>n, <2>1, <2>2, <2>3, <2>7, SoleStep
<1>14. ASSUME NEW d \in Clients, InsertLink(d) PROVE RepairInv'
  <2> SUFFICES ASSUME undisturbed' PROVE RepairInv'
    BY <1>u
  <2> DEFINE j == NextOf(rows[d])
             all == ForeignKeyRows(schema)
  <2>1. /\ undisturbed /\ pc[d] = "link" /\ rows[d] # {}
        /\ UNCHANGED <<exists, schema, pc, known, key, columns, ids>>
        /\ rows' = [rows EXCEPT ![d] = @ \ {j}]
        /\ links' = IF j.tc.from \in ids[d] THEN links \cup {NewLink(d, j)} ELSE links
    BY <1>14 DEF InsertLink, Applied, tables, progress
  <2>2. j \in rows[d]
    BY <2>1, NextOfIsIn
  <2> HIDE DEF j
  <2>3. Busy(d) /\ Busy(d)' /\ \A e \in Clients : e # d => pc'[e] = pc[e]
    BY <2>1 DEF Busy
  <2>4. Progress(d) /\ exists
    BY <2>1, <2>3, SoleProgress
  <2>5. ids[d] = schema.tables
    BY <2>1, <2>4 DEF Progress, Upserted, PastTables
  <2>6. Upserted(d)'
    BY <2>1, <2>4 DEF Progress, Upserted, RowRepaired, ColumnsRepaired, ColumnRepaired
  <2>7. rows'[d] = rows[d] \ {j}
    BY <1>0, <2>1
  <2>8. /\ rows[d] \subseteq all
        /\ {l.row : l \in links} = {i \in all \ rows[d] : i.tc.from \in schema.tables}
        /\ \A l, m \in links : l.row = m.row => l = m
        /\ \A l \in links : l.resolved <=> l.row.ccu.fk.to \in schema.tables
    BY <2>1, <2>4 DEF Progress, LinksProgress
  <2>9. /\ NewLink(d, j).row = j
        /\ NewLink(d, j).resolved <=> j.ccu.fk.to \in schema.tables
    BY <2>5 DEF NewLink
  <2>10. \A l \in links : l.row # j
    BY <2>2, <2>8
  <2> HIDE DEF all
  <2>11. {l.row : l \in links'} = {i \in all \ rows'[d] : i.tc.from \in schema.tables}
    <3>1. CASE j.tc.from \in schema.tables
      <4>1. links' = links \cup {NewLink(d, j)}
        BY <2>1, <2>5, <3>1
      <4>2. {l.row : l \in links'} = {l.row : l \in links} \cup {j}
        BY <2>9, <4>1
      <4>3. {i \in all \ rows'[d] : i.tc.from \in schema.tables}
              = {i \in all \ rows[d] : i.tc.from \in schema.tables} \cup {j}
        BY <2>2, <2>7, <2>8, <3>1
      <4>4. QED
        BY <2>8, <4>2, <4>3
    <3>2. CASE j.tc.from \notin schema.tables
      BY <2>1, <2>5, <2>7, <2>8, <3>2
    <3>3. QED
      BY <3>1, <3>2
  <2>12. \A l, m \in links' : l.row = m.row => l = m
    BY <2>1, <2>8, <2>9, <2>10
  <2>13. \A l \in links' : l.resolved <=> l.row.ccu.fk.to \in schema.tables
    BY <2>1, <2>8, <2>9
  <2>14. LinksProgress(d)'
    <3>1. rows'[d] \subseteq all
      BY <2>7, <2>8
    <3>2. all = ForeignKeyRows(schema')
      BY <2>1 DEF all
    <3>3. QED
      BY <2>1, <2>11, <2>12, <2>13, <3>1, <3>2 DEF LinksProgress
  <2>15. Progress(d)'
    BY <2>1, <2>6, <2>14 DEF Progress, KeysProgress, TablesProgress, ColumnsProgress
  <2>16. QED
    BY <1>n, <2>1, <2>3, <2>4, <2>15, SoleStep
<1>15. ASSUME NEW d \in Clients, LinksDone(d) PROVE RepairInv'
  <2> SUFFICES ASSUME undisturbed' PROVE RepairInv'
    BY <1>u
  <2>1. /\ undisturbed /\ pc[d] = "link" /\ pc' = [pc EXCEPT ![d] = "finish"]
        /\ UNCHANGED <<exists, schema, known, key, columns, links, ids>>
        /\ rows[d] = {}
    BY <1>15 DEF LinksDone, Goto, catalog, locals, progress
  <2>2. Busy(d) /\ Busy(d)' /\ \A e \in Clients : e # d => pc'[e] = pc[e]
    BY <1>0, <2>1 DEF Busy
  <2>3. Progress(d) /\ exists
    BY <2>1, <2>2, SoleProgress
  <2>4. Upserted(d)'
    BY <1>0, <2>1, <2>3 DEF Progress, Upserted, PastTables, RowRepaired, ColumnsRepaired, ColumnRepaired
  <2>5. LinksRepaired
    <3>1. LinksProgress(d)
      BY <2>3 DEF Progress
    <3>2. /\ {l.row : l \in links} = {j \in ForeignKeyRows(schema) \ rows[d] : j.tc.from \in schema.tables}
          /\ \A l, m \in links : l.row = m.row => l = m
          /\ \A l \in links : l.resolved <=> l.row.ccu.fk.to \in schema.tables
      BY <2>1, <3>1 DEF LinksProgress
    <3>3. ForeignKeyRows(schema) \ rows[d] = ForeignKeyRows(schema)
      BY <2>1
    <3>4. QED
      BY <3>2, <3>3 DEF LinksRepaired
  <2>6. LinksRepaired'
    BY <2>1, <2>5 DEF LinksRepaired
  <2>7. Progress(d)'
    BY <1>0, <2>1, <2>4, <2>6 DEF Progress, KeysProgress, TablesProgress, ColumnsProgress, LinksProgress
  <2>8. QED
    BY <1>n, <2>1, <2>2, <2>3, <2>7, SoleStep
<1>16. ASSUME NEW d \in Clients, Finish(d) PROVE RepairInv'
  <2> SUFFICES ASSUME undisturbed' PROVE RepairInv'
    BY <1>u
  <2>1. /\ undisturbed /\ pc[d] = "finish" /\ Over({d})
        /\ UNCHANGED <<exists, schema, known, key, columns, links>>
        /\ status' = IF exists THEN "discovered" ELSE status
    BY <1>16 DEF Finish, SetStatus, Applied, Note, Return
  <2>2. Busy(d) /\ ~Busy(d)' /\ \A e \in Clients : e # d => pc'[e] = pc[e]
    BY <1>0, <2>1 DEF Busy, Over, Reset
  <2>3. Progress(d) /\ exists
    BY <2>1, <2>2, SoleProgress
  <2>4. LinksRepaired /\ \A t \in schema.tables : TableRepaired(t)
    BY <2>1, <2>3
    DEF Progress, Upserted, LinksProgress, PastTables, TableRepaired, RowRepaired, ColumnsRepaired,
        ColumnRepaired
  <2>5. Repaired'
    BY <2>1, <2>3, <2>4 DEF Repaired, LinksRepaired, TableRepaired
  <2>6. QED
    BY <1>n, <2>1, <2>2, <2>3, <2>5, SoleStep
<1>17. ASSUME Migrate \/ DeleteSource \/ Crash PROVE RepairInv'
  BY <1>17, <1>u DEF Migrate, DeleteSource, Crash
<1>18. ASSUME UNCHANGED <<schema, catalog, pc, locals, undisturbed>> PROVE RepairInv'
  <2>1. \A d \in Clients : (Busy(d)' <=> Busy(d)) /\ (Progress(d)' <=> Progress(d))
    BY <1>18 DEF Busy, Progress, KeysProgress, TablesProgress, ColumnsProgress, Upserted, LinksProgress,
       RowRepaired, ColumnsRepaired, ColumnRepaired, LinksRepaired, catalog, locals, tables, progress, pending
  <2>2. Repaired' <=> Repaired
    BY <1>18 DEF Repaired, TableRepaired, LinksRepaired, catalog
  <2>3. exists' = exists /\ undisturbed' = undisturbed
    BY <1>18 DEF catalog
  <2>4. QED
    BY <1>n, <2>1, <2>2, <2>3 DEF RepairInv
<1>19. ASSUME NEW d \in Clients, Cancel(d) PROVE RepairInv'
  BY <1>18, <1>19 DEF Cancel
<1>20. ASSUME UNCHANGED vars PROVE RepairInv'
  BY <1>18, <1>20 DEF vars, requests
<1>21. QED
  BY <1>1, <1>2, <1>3, <1>4, <1>5, <1>6, <1>7, <1>8, <1>9, <1>10, <1>11, <1>12, <1>13, <1>14,
     <1>15, <1>16, <1>17, <1>19, <1>20 DEF Next, Discover

\* One undisturbed discovery repairs the catalog, whatever earlier ones have left.
THEOREM DiscoveryRepairs == Spec => []CatalogRepaired
<1>1. Init => RepairInv
  BY DEF Init, RepairInv, NothingYet
<1>2. RepairInv => CatalogRepaired
  BY DEF RepairInv, CatalogRepaired, Settled, Repaired, Busy
<1>3. QED
  BY <1>1, <1>2, TypeCorrect, RepairStep, PTL DEF Spec

----------------------------------------------------------------------------
(* The foreign key query *)

\* For a key of one pair of columns, within one schema, under a name of its
\* own there, the join returns that pair and nothing else.
LEMMA SimpleKeyRows ==
  ASSUME NEW s \in Schemas, NEW k \in s.fks, Simple(s, k), NEW p, k.pairs = {p}
  PROVE  LET row == [tc |-> k, kcu |-> [fk |-> k, column |-> p[1]], ccu |-> [fk |-> k, column |-> p[2]]]
         IN  /\ row \in ForeignKeyRows(s)
             /\ \A j \in ForeignKeyRows(s) : j.tc = k => j = row
<1> DEFINE used == [fk |-> k, column |-> p[1]]
           target == [fk |-> k, column |-> p[2]]
           row == [tc |-> k, kcu |-> used, ccu |-> target]
<1>1. k \in ForeignKeys
  BY DEF SchemaType
<1>2. p \in Columns \X Columns
  BY <1>1 DEF ForeignKeys
<1>3. used \in Usage(s) /\ target \in Targets(s)
  BY <1>2 DEF Usage, Targets
<1>4. SchemaOf[k.to] = SchemaOf[k.from]
  BY DEF Simple
<1>5. row \in ForeignKeyRows(s)
  BY <1>3, <1>4 DEF ForeignKeyRows
<1>6. ASSUME NEW j \in ForeignKeyRows(s), j.tc = k
      PROVE  j = row
  <2>1. /\ j \in [tc : s.fks, kcu : Usage(s), ccu : Targets(s)]
        /\ j.kcu.fk.name = k.name /\ SchemaOf[j.kcu.fk.from] = SchemaOf[k.from]
        /\ j.ccu.fk.name = k.name /\ SchemaOf[j.ccu.fk.to] = SchemaOf[k.from]
    BY <1>6 DEF ForeignKeyRows
  <2>2. j.kcu \in [fk : s.fks, column : Columns] /\ \E q \in j.kcu.fk.pairs : q[1] = j.kcu.column
    BY <2>1 DEF Usage
  <2>3. j.ccu \in [fk : s.fks, column : Columns] /\ \E q \in j.ccu.fk.pairs : q[2] = j.ccu.column
    BY <2>1 DEF Targets
  <2>4. \A other \in s.fks :
          other.name = k.name /\ SchemaOf[k.from] \in {SchemaOf[other.from], SchemaOf[other.to]} => other = k
    BY DEF Simple
  <2>5. j.kcu.fk = k /\ j.ccu.fk = k
    BY <2>1, <2>2, <2>3, <2>4
  <2>6. j.kcu = used /\ j.ccu = target
    BY <2>2, <2>3, <2>5
  <2>7. QED
    BY <1>6, <2>1, <2>6
<1>7. QED
  BY <1>5, <1>6

\* A foreign key of the usual kind is in the catalog, as it is and once.
THEOREM SimpleKeysAreDetected == Spec => []SimpleKeysDetected
<1>1. ASSUME TypeOK, CatalogRepaired, Settled, NEW k \in schema.fks, Simple(schema, k)
      PROVE  \E l \in links :
               /\ \E p \in k.pairs : Edge(l.row) = [name |-> k.name, from |-> k.from, fromColumn |-> p[1],
                                                    to |-> k.to, toColumn |-> p[2]]
               /\ l.resolved
               /\ \A m \in links : m.row.tc = k => m = l
  <2>1. schema \in Schemas
    BY <1>1 DEF TypeOK
  <2>2. PICK p \in k.pairs : k.pairs = {p}
    BY <1>1 DEF Simple
  <2> DEFINE row == [tc |-> k, kcu |-> [fk |-> k, column |-> p[1]], ccu |-> [fk |-> k, column |-> p[2]]]
  <2>3. /\ row \in ForeignKeyRows(schema)
        /\ \A j \in ForeignKeyRows(schema) : j.tc = k => j = row
    BY <1>1, <2>1, <2>2, SimpleKeyRows
  <2>4. k.from \in schema.tables /\ k.to \in schema.tables
    BY <1>1, <2>1
  <2>5. row.tc = k /\ row.ccu.fk = k
    OBVIOUS
  <2>6. Edge(row) = [name |-> k.name, from |-> k.from, fromColumn |-> p[1], to |-> k.to, toColumn |-> p[2]]
    BY DEF Edge
  <2> HIDE DEF row
  <2>7. /\ {l.row : l \in links} = {j \in ForeignKeyRows(schema) : j.tc.from \in schema.tables}
        /\ \A l, m \in links : l.row = m.row => l = m
        /\ \A l \in links : l.resolved <=> l.row.ccu.fk.to \in schema.tables
    BY <1>1 DEF CatalogRepaired, LinksRepaired
  <2>8. PICK l \in links : l.row = row
    BY <2>3, <2>4, <2>5, <2>7
  <2>9. l.resolved
    BY <2>4, <2>5, <2>7, <2>8
  <2>10. \A m \in links : m.row.tc = k => m = l
    BY <2>3, <2>7, <2>8
  <2>11. QED
    BY <2>2, <2>6, <2>8, <2>9, <2>10
<1>2. TypeOK /\ CatalogRepaired => SimpleKeysDetected
  BY <1>1 DEF SimpleKeysDetected
<1>3. QED
  BY <1>2, TypeCorrect, DiscoveryRepairs, PTL
=============================================================================
