---------------------------- MODULE FileStoreProofs ----------------------------
(***************************************************************************)
(* Proofs about FileStore, for any number of files and requests and with   *)
(* any faults: type correctness, that an answered upload stays stored,     *)
(* that racing deletes end in one file.deleted event, which objects can be *)
(* left without a live row, and which live rows without an object.         *)
(***************************************************************************)
EXTENDS FileStore, SequenceTheorems, TLAPS

----------------------------------------------------------------------------
(* The inductive invariants *)

\* Why AckedFilesAreStored holds: an upload has its file to itself until it
\* is answered, so nobody else's cleanup meets it, and an object is removed
\* only after its row is marked deleted.
Uploading(c) == pc[c] \in {"ensure", "make", "put", "stat", "insert", "cleanup", "uploaded"}
IsStored(f) == Recorded(f) /\ (~records[f].deleted => f \in blobs)
FilesInv ==
  /\ acked \subseteq issued
  /\ \A f \in Files : Recorded(f) => f \in issued
  /\ \A f \in Files : records[f].deleted => Recorded(f)
  /\ \A f \in acked : IsStored(f)
RequestInv(c) ==
  /\ Uploading(c) => file[c] \in issued \ acked
  /\ pc[c] \in {"ensure", "make", "put", "stat", "insert"} => ~Recorded(file[c])
  /\ pc[c] \in {"stat", "insert"} => file[c] \in blobs
  /\ pc[c] = "uploaded" => IsStored(file[c])
  /\ pc[c] = "remove" => records[file[c]].deleted
StoredInv ==
  /\ FilesInv
  /\ \A c \in Clients : RequestInv(c)
  /\ \A c, d \in Clients : Uploading(c) /\ Uploading(d) /\ file[d] = file[c] => d = c

\* Why LiveRecordsHaveObjects holds: the cleanup of an upload meets a live row
\* only if the reply to its INSERT was lost.
ObjectInv ==
  /\ LiveRecordsHaveObjects
  /\ \A c \in Clients : pc[c] = "cleanup" /\ Live(file[c]) => file[c] \in disowned

\* Why DeletedOnce holds: the UPDATE that marks the row succeeds once, and the
\* request it succeeded for is the only one that emits the event.
Deleting(c) == pc[c] \in {"remove", "deleted"}
DeletedInv ==
  /\ \A f \in Files : /\ \A i, j \in Deletions(f) : i = j
                      /\ Deletions(f) # {} => records[f].deleted
  /\ \A c \in Clients : Deleting(c) => records[file[c]].deleted /\ Deletions(file[c]) = {}
  /\ \A c, d \in Clients : Deleting(c) /\ Deleting(d) /\ file[d] = file[c] => d = c

USE FileStoreAssumption DEF FileStoreAssumption

----------------------------------------------------------------------------
(* Types *)

LEMMA EmitType ==
  ASSUME events \in [Files -> Seq(EventTypes)], NEW f \in Files, NEW t \in EventTypes,
         Emit(f, t)
  PROVE  events' \in [Files -> Seq(EventTypes)]
<1>1. events[f] \in Seq(EventTypes)
  OBVIOUS
<1>2. Append(events[f], t) \in Seq(EventTypes)
  BY <1>1
<1>3. events' = [events EXCEPT ![f] = Append(events[f], t)]
  BY DEF Emit
<1>4. QED
  BY <1>2, <1>3

\* Where a request stands, and its file.
RequestsOK ==
  /\ pc \in [Clients -> PCs]
  /\ file \in [Clients -> Files \cup {NoFile}]
  /\ cancelled \in [Clients -> BOOLEAN]
  /\ \A c \in Clients : pc[c] # "idle" => file[c] \in Files

LEMMA GotoType ==
  ASSUME RequestsOK, NEW c \in Clients, pc[c] # "idle", NEW label \in PCs, Goto(c, label)
  PROVE  RequestsOK'
BY DEF RequestsOK, Goto

LEMMA ReturnType ==
  ASSUME RequestsOK, NEW c \in Clients, Return(c)
  PROVE  RequestsOK'
BY DEF RequestsOK, Return, PCs

LEMMA BeginType ==
  ASSUME RequestsOK, calls \in Nat, NEW c \in Clients, NEW f \in Files,
         NEW label \in PCs, Begin(c, f, label)
  PROVE  RequestsOK' /\ calls' \in Nat
BY DEF RequestsOK, Begin

\* TypeOK without the history variables.
StateOK ==
  /\ bucket \in BOOLEAN
  /\ blobs \subseteq Files
  /\ records \in [Files -> FileRecord]
  /\ events \in [Files -> Seq(EventTypes)]
  /\ issued \subseteq Files
  /\ acked \subseteq Files
  /\ calls \in Nat
  /\ RequestsOK

LEMMA StateStep == StateOK /\ [Next]_vars => StateOK'
<1> SUFFICES ASSUME StateOK, [Next]_vars PROVE StateOK'
  OBVIOUS
<1>0. RequestsOK
  BY DEF StateOK, RequestsOK
<1>f. ASSUME RequestsOK', UNCHANGED <<bucket, records, events, issued, acked, calls>>,
             blobs' \subseteq Files
      PROVE  StateOK'
  BY <1>f DEF StateOK, RequestsOK
<1>1. ASSUME NEW c \in Clients, BeginUpload(c) PROVE StateOK'
  <2>1. PICK f \in Files \ issued : Begin(c, f, "ensure") /\ issued' = issued \cup {f}
    BY <1>1 DEF BeginUpload
  <2>2. RequestsOK' /\ calls' \in Nat
    BY <1>0, <2>1, BeginType DEF PCs, StateOK
  <2>3. QED
    BY <1>1, <2>1, <2>2 DEF BeginUpload, stores, StateOK, RequestsOK
<1>2. ASSUME NEW c \in Clients, EnsureBucket(c) \/ StatObject(c) PROVE StateOK'
  <2>1. RequestsOK'
    BY <1>0, <1>2, GotoType, ReturnType DEF EnsureBucket, StatObject, PCs
  <2>2. QED
    BY <1>2, <1>f, <2>1 DEF EnsureBucket, StatObject, stores, StateOK
<1>3. ASSUME NEW c \in Clients, MakeBucket(c) PROVE StateOK'
  <2>1. RequestsOK'
    BY <1>0, <1>3, GotoType, ReturnType DEF MakeBucket, PCs
  <2>2. bucket' \in BOOLEAN
    BY <1>3 DEF MakeBucket
  <2>3. QED
    BY <1>3, <2>1, <2>2 DEF MakeBucket, StateOK, RequestsOK
<1>4. ASSUME NEW c \in Clients, PutObject(c) \/ Cleanup(c) \/ RemoveObject(c) PROVE StateOK'
  <2>1. RequestsOK'
    BY <1>0, <1>4, GotoType, ReturnType DEF PutObject, Cleanup, RemoveObject, PCs
  <2>2. file[c] \in Files
    BY <1>0, <1>4 DEF PutObject, Cleanup, RemoveObject, RequestsOK
  <2>3. blobs' \subseteq Files
    BY <1>4, <2>2 DEF PutObject, Cleanup, RemoveObject, StateOK
  <2>4. QED
    BY <1>4, <1>f, <2>1, <2>3 DEF PutObject, Cleanup, RemoveObject
<1>5. ASSUME NEW c \in Clients, InsertRecord(c) PROVE StateOK'
  <2>1. RequestsOK'
    BY <1>0, <1>5, GotoType DEF InsertRecord, PCs
  <2>2. records' \in [Files -> FileRecord]
    BY <1>5 DEF InsertRecord, StateOK, RequestsOK, FileRecord, Statuses
  <2>3. QED
    BY <1>5, <2>1, <2>2 DEF InsertRecord, StateOK, RequestsOK
<1>6. ASSUME NEW c \in Clients, SoftDelete(c) PROVE StateOK'
  <2>1. RequestsOK'
    BY <1>0, <1>6, GotoType, ReturnType DEF SoftDelete, PCs
  <2>2. records' \in [Files -> FileRecord]
    BY <1>6 DEF SoftDelete, StateOK, RequestsOK, FileRecord, Statuses
  <2>3. QED
    BY <1>6, <2>1, <2>2 DEF SoftDelete, StateOK, RequestsOK
<1>7. ASSUME NEW c \in Clients, EmitUploaded(c) \/ EmitDeleted(c) \/ EmitStatus(c)
      PROVE StateOK'
  <2>1. RequestsOK'
    BY <1>0, <1>7, ReturnType DEF EmitUploaded, EmitDeleted, EmitStatus
  <2>2. file[c] \in Files
    BY <1>0, <1>7 DEF EmitUploaded, EmitDeleted, EmitStatus, RequestsOK
  <2>3. \E t \in EventTypes : Emit(file[c], t)
    BY <1>7 DEF EmitUploaded, EmitDeleted, EmitStatus, EventTypes
  <2>4. events' \in [Files -> Seq(EventTypes)]
    BY <2>2, <2>3, EmitType DEF StateOK
  <2>5. acked' \subseteq Files
    BY <1>7, <2>2 DEF EmitUploaded, EmitDeleted, EmitStatus, StateOK
  <2>6. QED
    BY <1>7, <2>1, <2>4, <2>5 DEF EmitUploaded, EmitDeleted, EmitStatus, StateOK, RequestsOK
<1>8. ASSUME NEW c \in Clients, BeginDelete(c) \/ BeginDownload(c) PROVE StateOK'
  <2>1. PICK f \in Files, l \in {"softDelete", "read"} : Begin(c, f, l)
    BY <1>8 DEF BeginDelete, BeginDownload
  <2>2. RequestsOK' /\ calls' \in Nat
    BY <1>0, <2>1, BeginType DEF PCs, StateOK
  <2>3. QED
    BY <1>8, <2>2 DEF BeginDelete, BeginDownload, stores, StateOK, RequestsOK
<1>9. ASSUME NEW c \in Clients, ReadObject(c) PROVE StateOK'
  <2>1. RequestsOK'
    BY <1>0, <1>9, ReturnType DEF ReadObject
  <2>2. QED
    BY <1>9, <1>f, <2>1 DEF ReadObject, stores, StateOK
<1>10. ASSUME NEW c \in Clients, UpdateStatus(c) PROVE StateOK'
  <2>1. PICK f \in Files, status \in Statuses :
          /\ records' = [records EXCEPT ![f] = WithStatus(@, status)]
          /\ \/ status \in {"processing", "processed"} /\ Begin(c, f, status)
             \/ calls' = calls + 1 /\ UNCHANGED <<pc, file, cancelled>>
    BY <1>10 DEF UpdateStatus
  <2>2. records' \in [Files -> FileRecord]
    <3>1. WithStatus(records[f], status) \in FileRecord
      BY <2>1 DEF WithStatus, StateOK, FileRecord, Statuses
    <3>2. records' = [records EXCEPT ![f] = WithStatus(records[f], status)]
      BY <2>1
    <3>3. QED
      BY <2>1, <3>1, <3>2 DEF StateOK
  <2>3. RequestsOK' /\ calls' \in Nat
    <3>1. CASE Begin(c, f, status) /\ status \in {"processing", "processed"}
      BY <1>0, <3>1, BeginType DEF PCs, StateOK
    <3>2. CASE calls' = calls + 1 /\ UNCHANGED <<pc, file, cancelled>>
      BY <1>0, <3>2 DEF RequestsOK, StateOK
    <3>3. QED
      BY <2>1, <3>1, <3>2
  <2>4. QED
    BY <1>10, <2>2, <2>3 DEF UpdateStatus, StateOK, RequestsOK
<1>11. ASSUME NEW c \in Clients, Cancel(c) PROVE StateOK'
  BY <1>11 DEF Cancel, stores, StateOK, RequestsOK
<1>12. CASE Crash
  BY <1>12 DEF Crash, stores, StateOK, RequestsOK, PCs
<1>13. CASE UNCHANGED vars
  BY <1>13 DEF vars, stores, StateOK, RequestsOK
<1>14. QED
  BY <1>1, <1>2, <1>3, <1>4, <1>5, <1>6, <1>7, <1>8, <1>9, <1>10, <1>11, <1>12, <1>13
     DEF Next, Upload, Delete, Download, Status

\* Only a file that a request is about is lost.
LEMMA HistoryStep == TypeOK /\ [Next]_vars => stranded' \subseteq Files /\ disowned' \subseteq Files
<1> SUFFICES ASSUME TypeOK, [Next]_vars PROVE stranded' \subseteq Files /\ disowned' \subseteq Files
  OBVIOUS
<1>0. \A c \in Clients : pc[c] # "idle" => file[c] \in Files
  BY DEF TypeOK
<1>1. ASSUME NEW c \in Clients,
             PutObject(c) \/ InsertRecord(c) \/ Cleanup(c) \/ SoftDelete(c) \/ RemoveObject(c)
      PROVE  /\ stranded' \subseteq stranded \cup {file[c]}
             /\ disowned' \subseteq disowned \cup {file[c]}
             /\ pc[c] # "idle"
  BY <1>1 DEF PutObject, InsertRecord, Cleanup, SoftDelete, RemoveObject, Strands
<1>2. CASE Crash
  <2>1. \A c \in Clients : HoldsObject(c) => file[c] \in Files
    BY <1>0 DEF HoldsObject
  <2>2. QED
    BY <1>2, <2>1 DEF Crash, TypeOK
<1>3. \/ UNCHANGED history
      \/ Crash
      \/ \E c \in Clients :
           PutObject(c) \/ InsertRecord(c) \/ Cleanup(c) \/ SoftDelete(c) \/ RemoveObject(c)
  BY DEF Next, Upload, Delete, Download, Status, BeginUpload, EnsureBucket, MakeBucket, StatObject,
     EmitUploaded, BeginDelete, EmitDeleted, BeginDownload, ReadObject, UpdateStatus, EmitStatus,
     Cancel, vars, history
<1>4. QED
  BY <1>0, <1>1, <1>2, <1>3 DEF TypeOK, history

LEMMA TypeStep == TypeOK /\ [Next]_vars => TypeOK'
BY StateStep, HistoryStep DEF TypeOK, StateOK, RequestsOK

\* The two stores and the requests stay within their types.
THEOREM FileStoreTypeCorrect == Spec => []TypeOK
<1>1. Init => TypeOK
  <2> SUFFICES ASSUME Init PROVE TypeOK
    OBVIOUS
  <2>1. events \in [Files -> Seq(EventTypes)]
    <3>1. <<>> \in Seq(EventTypes)
      OBVIOUS
    <3>2. QED
      BY <3>1 DEF Init
  <2>2. records \in [Files -> FileRecord]
    BY DEF Init, NoRecord, FileRecord
  <2>3. bucket \in BOOLEAN /\ cancelled \in [Clients -> BOOLEAN]
    BY DEF Init
  <2>4. pc \in [Clients -> PCs] /\ \A c \in Clients : pc[c] = "idle"
    BY DEF Init, PCs
  <2>5. file \in [Clients -> Files \cup {NoFile}]
    BY DEF Init
  <2>6. blobs \subseteq Files /\ issued \subseteq Files /\ acked \subseteq Files /\ calls \in Nat
    BY DEF Init
  <2>7. stranded \subseteq Files /\ disowned \subseteq Files
    BY DEF Init
  <2>8. QED
    BY <2>1, <2>2, <2>3, <2>4, <2>5, <2>6, <2>7 DEF TypeOK
<1>2. QED
  BY <1>1, TypeStep, PTL DEF Spec

----------------------------------------------------------------------------
(* Answered uploads *)

\* What Goto and Return do to the other requests.
LEMMA OneMoves ==
  ASSUME pc \in [Clients -> PCs], file \in [Clients -> Files \cup {NoFile}], NEW c \in Clients
  PROVE  /\ \A l : Goto(c, l) => /\ pc'[c] = l
                               /\ file' = file
                               /\ \A d \in Clients \ {c} : pc'[d] = pc[d]
         /\ Return(c) => /\ pc'[c] = "idle"
                         /\ \A d \in Clients \ {c} : pc'[d] = pc[d] /\ file'[d] = file[d]
BY DEF Goto, Return

\* A step of one request that leaves the stores and the answers alone, and
\* stays in its upload or is in none.
LEMMA StoredRequest ==
  ASSUME TypeOK, StoredInv, NEW c \in Clients,
         UNCHANGED <<blobs, records, issued, acked>>,
         \A d \in Clients \ {c} : pc'[d] = pc[d] /\ file'[d] = file[d],
         RequestInv(c)',
         Uploading(c)' => Uploading(c) /\ file'[c] = file[c]
  PROVE  StoredInv'
<1>1. FilesInv'
  BY DEF StoredInv, FilesInv, IsStored, Recorded
<1>2. \A d \in Clients \ {c} : RequestInv(d)'
  BY DEF StoredInv, RequestInv, IsStored, Recorded, Uploading
<1>3. \A d \in Clients : Uploading(d)' => Uploading(d) /\ file'[d] = file[d]
  BY DEF Uploading
<1>4. QED
  BY <1>1, <1>2, <1>3 DEF StoredInv

\* No step breaks the reasons why answered uploads stay stored.
LEMMA StoredStep == TypeOK /\ StoredInv /\ [Next]_vars => StoredInv'
<1> SUFFICES ASSUME TypeOK, StoredInv, [Next]_vars PROVE StoredInv'
  OBVIOUS
<1>0. \A c \in Clients : RequestInv(c)
  BY DEF StoredInv
<1>1. ASSUME NEW c \in Clients, BeginUpload(c) PROVE StoredInv'
  BY <1>1 DEF BeginUpload, Begin, stores,
     TypeOK, StoredInv, FilesInv, RequestInv, Uploading, IsStored, Recorded
<1>2. ASSUME NEW c \in Clients, EnsureBucket(c) \/ MakeBucket(c) PROVE StoredInv'
  <2>1. UNCHANGED <<blobs, records, issued, acked>>
    BY <1>2 DEF EnsureBucket, MakeBucket, stores
  <2>2. pc[c] \in {"ensure", "make"}
    BY <1>2 DEF EnsureBucket, MakeBucket
  <2>3. Return(c) \/ \E l \in {"put", "make"} : Goto(c, l)
    BY <1>2 DEF EnsureBucket, MakeBucket
  <2>4. /\ \A d \in Clients \ {c} : pc'[d] = pc[d] /\ file'[d] = file[d]
        /\ \/ pc'[c] = "idle"
           \/ pc'[c] \in {"put", "make"} /\ file'[c] = file[c]
    BY ONLY <2>3, TypeOK, OneMoves DEF TypeOK
  <2>5. Uploading(c)
    BY <2>2 DEF Uploading
  <2>6. RequestInv(c)
    BY <1>0
  <2>7. RequestInv(c)'
    BY ONLY <2>1, <2>2, <2>4, <2>5, <2>6 DEF RequestInv, Uploading, Recorded, IsStored
  <2>8. Uploading(c)' => Uploading(c) /\ file'[c] = file[c]
    BY ONLY <2>4, <2>5 DEF Uploading
  <2>9. QED
    BY <2>1, <2>4, <2>7, <2>8, StoredRequest
<1>3. ASSUME NEW c \in Clients, Cancel(c) PROVE StoredInv'
  BY <1>3 DEF Cancel, stores, StoredInv, FilesInv, RequestInv, Uploading, IsStored, Recorded
<1>4. ASSUME NEW c \in Clients, PutObject(c) PROVE StoredInv'
  <2>1. UNCHANGED <<records, issued, acked>> /\ pc[c] = "put"
    BY <1>4 DEF PutObject
  <2>2. PICK o \in {"ok", "error", "lost"} :
          /\ blobs' = IF Applied(o) THEN blobs \cup {file[c]} ELSE blobs
          /\ IF o = "ok" THEN \E next \in {"stat", "insert"} : Goto(c, next) ELSE Return(c)
    BY <1>4 DEF PutObject, Backend, Outcomes
  <2>3. /\ \A d \in Clients \ {c} : pc'[d] = pc[d] /\ file'[d] = file[d]
        /\ \/ pc'[c] = "idle"
           \/ pc'[c] \in {"stat", "insert"} /\ file'[c] = file[c] /\ file[c] \in blobs'
        /\ blobs \subseteq blobs'
    BY <2>2, OneMoves DEF Applied, TypeOK
  <2>4. FilesInv'
    BY <2>1, <2>3 DEF StoredInv, FilesInv, IsStored, Recorded
  <2>5. \A d \in Clients : RequestInv(d)'
    BY <2>1, <2>3 DEF StoredInv, RequestInv, Uploading, IsStored, Recorded
  <2>6. \A d \in Clients : Uploading(d)' => Uploading(d) /\ file'[d] = file[d]
    BY <2>1, <2>3 DEF Uploading
  <2>7. QED
    BY <2>4, <2>5, <2>6 DEF StoredInv
<1>5. ASSUME NEW c \in Clients, StatObject(c) PROVE StoredInv'
  BY <1>5 DEF StatObject, stores, StoredInv, FilesInv, RequestInv, Uploading, IsStored, Recorded, Goto
<1>6. ASSUME NEW c \in Clients, InsertRecord(c) PROVE StoredInv'
  BY <1>6 DEF InsertRecord, Applied, FileRecord,
     TypeOK, StoredInv, FilesInv, RequestInv, Uploading, IsStored, Recorded, Goto
<1>7. ASSUME NEW c \in Clients, Cleanup(c) PROVE StoredInv'
  BY <1>7 DEF Cleanup, Applied,
     TypeOK, StoredInv, FilesInv, RequestInv, Uploading, IsStored, Recorded, Return
<1>8. ASSUME NEW c \in Clients, EmitUploaded(c) PROVE StoredInv'
  BY <1>8 DEF EmitUploaded,
     TypeOK, StoredInv, FilesInv, RequestInv, Uploading, IsStored, Recorded, Return
<1>9. ASSUME NEW c \in Clients, BeginDelete(c) \/ BeginDownload(c) PROVE StoredInv'
  <2>1. UNCHANGED <<blobs, records, issued, acked>>
    BY <1>9 DEF BeginDelete, BeginDownload, stores
  <2>2. PICK f \in Files, l \in {"softDelete", "read"} : Begin(c, f, l)
    BY <1>9 DEF BeginDelete, BeginDownload
  <2>3. /\ \A d \in Clients \ {c} : pc'[d] = pc[d] /\ file'[d] = file[d]
        /\ pc'[c] \in {"softDelete", "read"}
    BY <2>2 DEF Begin, TypeOK
  <2>4. RequestInv(c)' /\ ~Uploading(c)'
    BY <2>3 DEF RequestInv, Uploading
  <2>5. QED
    BY <2>1, <2>3, <2>4, StoredRequest
<1>10. ASSUME NEW c \in Clients, SoftDelete(c) PROVE StoredInv'
  <2>1. UNCHANGED <<blobs, issued, acked>> /\ pc[c] = "softDelete" /\ file[c] \in Files
    BY <1>10 DEF SoftDelete, TypeOK
  <2>2. \/ /\ Recorded(file[c]) /\ ~records[file[c]].deleted
           /\ records' = [records EXCEPT ![file[c]] = [status |-> "deleted", deleted |-> TRUE]]
        \/ records' = records
    BY <1>10 DEF SoftDelete, Deletable, Live
  <2>3. \/ Return(c)
        \/ Goto(c, "remove") /\ records'[file[c]].deleted
    BY <1>10, <2>1 DEF SoftDelete, Applied, TypeOK
  <2>4. /\ \A f \in Files \ {file[c]} : records'[f] = records[f]
        /\ \/ records'[file[c]] = records[file[c]]
           \/ /\ Recorded(file[c]) /\ records'[file[c]].status # "none"
              /\ records'[file[c]].deleted
    <3>1. CASE records' = records
      BY <3>1
    <3>2. CASE /\ Recorded(file[c])
               /\ records' = [records EXCEPT ![file[c]] = [status |-> "deleted", deleted |-> TRUE]]
      <4>1. records'[file[c]] = [status |-> "deleted", deleted |-> TRUE]
        BY <2>1, <3>2 DEF TypeOK
      <4>2. QED
        BY <3>2, <4>1
    <3>3. QED
      BY <2>2, <3>1, <3>2
  <2>5. FilesInv'
    <3>1. FilesInv
      BY DEF StoredInv
    <3>2. acked \subseteq Files
      BY DEF TypeOK
    <3>3. QED
      BY ONLY <2>1, <2>4, <3>1, <3>2 DEF FilesInv, Recorded, IsStored
  <2>6. /\ \A d \in Clients \ {c} : pc'[d] = pc[d] /\ file'[d] = file[d]
        /\ \/ pc'[c] = "idle"
           \/ pc'[c] = "remove" /\ file'[c] = file[c] /\ records'[file[c]].deleted
    BY ONLY <2>3, TypeOK, OneMoves DEF TypeOK
  <2>7. RequestInv(c)' /\ ~Uploading(c)'
    BY ONLY <2>6 DEF RequestInv, Uploading
  <2>8. \A d \in Clients \ {c} : RequestInv(d)'
    <3> SUFFICES ASSUME NEW d \in Clients \ {c} PROVE RequestInv(d)'
      OBVIOUS
    <3>0. RequestInv(d) /\ pc'[d] = pc[d] /\ file'[d] = file[d]
      BY ONLY <1>0, <2>6
    <3>1. CASE pc[d] = "idle"
      BY ONLY <3>0, <3>1 DEF RequestInv, Uploading
    <3>2. CASE pc[d] # "idle"
      <4>1. file[d] \in Files
        BY <3>2 DEF TypeOK
      <4>2. QED
        BY ONLY <2>1, <2>4, <3>0, <4>1 DEF RequestInv, Uploading, Recorded, IsStored
    <3>3. QED
      BY <3>1, <3>2
  <2>9. QED
    BY <2>5, <2>6, <2>7, <2>8 DEF StoredInv, Uploading
<1>11. ASSUME NEW c \in Clients, RemoveObject(c) PROVE StoredInv'
  BY <1>11 DEF RemoveObject, Applied,
     TypeOK, StoredInv, FilesInv, RequestInv, Uploading, IsStored, Recorded, Goto
<1>12. ASSUME NEW c \in Clients, EmitDeleted(c) PROVE StoredInv'
  BY <1>12 DEF EmitDeleted, StoredInv, FilesInv, RequestInv, Uploading, IsStored, Recorded, Return
<1>13. ASSUME NEW c \in Clients, ReadObject(c) PROVE StoredInv'
  <2>1. UNCHANGED <<blobs, records, issued, acked>>
    BY <1>13 DEF ReadObject, stores
  <2>2. /\ \A d \in Clients \ {c} : pc'[d] = pc[d] /\ file'[d] = file[d]
        /\ pc'[c] = "idle"
    BY <1>13 DEF ReadObject, TypeOK, Return
  <2>3. QED
    BY <2>1, <2>2, StoredRequest DEF RequestInv, Uploading
<1>14. ASSUME NEW c \in Clients, UpdateStatus(c) PROVE StoredInv'
  <2>1. PICK f \in Files, status \in Statuses :
          /\ Recorded(f)
          /\ records' = [records EXCEPT ![f] = WithStatus(@, status)]
          /\ \/ status \in {"processing", "processed"} /\ Begin(c, f, status)
             \/ UNCHANGED <<pc, file>>
    BY <1>14 DEF UpdateStatus
  <2>2. UNCHANGED <<blobs, issued, acked>>
    BY <1>14 DEF UpdateStatus
  <2>3. \A g \in Files : records'[g].deleted = records[g].deleted /\ (Recorded(g)' <=> Recorded(g))
    <3>1. /\ WithStatus(records[f], status).deleted = records[f].deleted
          /\ WithStatus(records[f], status).status = status
      BY DEF TypeOK, FileRecord, WithStatus
    <3>2. status # "none"
      BY DEF Statuses
    <3>3. QED
      BY <2>1, <3>1, <3>2 DEF TypeOK, Recorded
  <2>4. \A d \in Clients : Uploading(d)' \/ pc'[d] = "remove" => pc'[d] = pc[d] /\ file'[d] = file[d] /\ file[d] \in Files
    <3>1. CASE status \in {"processing", "processed"} /\ Begin(c, f, status)
      BY <3>1 DEF Begin, Uploading, TypeOK
    <3>2. CASE UNCHANGED <<pc, file>>
      BY <3>2 DEF Uploading, TypeOK
    <3>3. QED
      BY <2>1, <3>1, <3>2
  <2>5. FilesInv'
    <3>1. FilesInv /\ acked \subseteq Files
      BY DEF StoredInv, TypeOK
    <3>2. QED
      BY ONLY <2>2, <2>3, <3>1 DEF FilesInv, IsStored
  <2>6. \A d \in Clients : RequestInv(d)'
    BY ONLY <1>0, <2>2, <2>3, <2>4 DEF RequestInv, IsStored, Uploading
  <2>7. QED
    BY <2>4, <2>5, <2>6 DEF StoredInv, Uploading
<1>15. ASSUME NEW c \in Clients, EmitStatus(c) PROVE StoredInv'
  BY <1>15 DEF EmitStatus, StoredInv, FilesInv, RequestInv, Uploading, IsStored, Recorded, Return
<1>16. CASE Crash
  BY <1>16 DEF Crash, stores, StoredInv, FilesInv, RequestInv, Uploading, IsStored, Recorded
<1>17. CASE UNCHANGED vars
  BY <1>17 DEF vars, stores, StoredInv, FilesInv, RequestInv, Uploading, IsStored, Recorded
<1>18. QED
  BY <1>1, <1>2, <1>3, <1>4, <1>5, <1>6, <1>7, <1>8, <1>9, <1>10, <1>11, <1>12, <1>13,
     <1>14, <1>15, <1>16, <1>17 DEF Next, Upload, Delete, Download, Status

\* A file whose upload was answered keeps its row, and its object until the
\* row is deleted, with any requests and any faults.
THEOREM AnsweredUploadsStay == Spec => []AckedFilesAreStored
<1>1. Init => StoredInv
  BY DEF Init, StoredInv, FilesInv, RequestInv, NoRecord, Recorded, Uploading
<1>2. StoredInv => AckedFilesAreStored
  BY DEF StoredInv, FilesInv, AckedFilesAreStored, IsStored
<1>3. QED
  BY <1>1, <1>2, StoredStep, FileStoreTypeCorrect, PTL DEF Spec

----------------------------------------------------------------------------
(* Deletes *)

\* What one more event does to the positions of file.deleted.
LEMMA DeletionsAfter ==
  ASSUME NEW s \in Seq(EventTypes), NEW t \in EventTypes
  PROVE  LET At(u) == {i \in 1..Len(u) : u[i] = "deleted"} IN
         /\ t # "deleted" => At(Append(s, t)) = At(s)
         /\ t = "deleted" /\ At(s) = {} => At(Append(s, t)) = {Len(s) + 1}
<1>1. /\ Len(Append(s, t)) = Len(s) + 1
      /\ \A i \in 1..Len(s) : Append(s, t)[i] = s[i]
      /\ Append(s, t)[Len(s) + 1] = t
      /\ Len(s) \in Nat
  BY AppendProperties
<1>2. 1..(Len(s) + 1) = (1..Len(s)) \cup {Len(s) + 1}
  BY <1>1
<1>3. QED
  BY <1>1, <1>2

\* A step that appends no file.deleted, keeps deleted rows deleted and starts
\* no second delete.
LEMMA NoDeletion ==
  ASSUME DeletedInv,
         \A f \in Files : Deletions(f)' = Deletions(f),
         \A f \in Files : records[f].deleted => records'[f].deleted,
         \A c \in Clients : Deleting(c)' => /\ Deleting(c)
                                           /\ file'[c] = file[c]
                                           /\ file[c] \in Files
  PROVE  DeletedInv'
BY DEF DeletedInv

LEMMA DeletedStep == TypeOK /\ StoredInv /\ DeletedInv /\ [Next]_vars => DeletedInv'
<1> SUFFICES ASSUME TypeOK, StoredInv, DeletedInv, [Next]_vars PROVE DeletedInv'
  OBVIOUS
<1>0. \A c \in Clients : Deleting(c) => file[c] \in Files
  BY DEF Deleting, TypeOK
<1>e. ASSUME events' = events PROVE \A f \in Files : Deletions(f)' = Deletions(f)
  BY <1>e DEF Deletions
<1>a. ASSUME NEW c \in Clients, NEW t \in EventTypes \ {"deleted"}, Emit(file[c], t)
      PROVE  \A f \in Files : Deletions(f)' = Deletions(f)
  <2> SUFFICES ASSUME NEW f \in Files PROVE Deletions(f)' = Deletions(f)
    OBVIOUS
  <2>1. events[f] \in Seq(EventTypes)
    BY DEF TypeOK
  <2>2. events'[f] = events[f] \/ events'[f] = Append(events[f], t)
    BY <1>a DEF Emit, TypeOK
  <2>3. QED
    BY <2>1, <2>2, DeletionsAfter DEF Deletions
<1>m. ASSUME NEW c \in Clients, Return(c) \/ \E l \in PCs \ {"remove", "deleted"} : Goto(c, l)
      PROVE  \A d \in Clients : Deleting(d)' => Deleting(d) /\ file'[d] = file[d]
  BY <1>m DEF Deleting, Return, Goto, TypeOK
<1>b. ASSUME NEW c \in Clients, NEW f \in Files, NEW l \in PCs \ {"remove", "deleted"}, Begin(c, f, l)
      PROVE  \A d \in Clients : Deleting(d)' => Deleting(d) /\ file'[d] = file[d]
  BY <1>b DEF Deleting, Begin, TypeOK
<1>1. ASSUME NEW c \in Clients, BeginUpload(c) PROVE DeletedInv'
  <2>1. \A d \in Clients : Deleting(d)' => Deleting(d) /\ file'[d] = file[d]
    BY <1>1, <1>b DEF BeginUpload, PCs
  <2>2. events' = events /\ records' = records
    BY <1>1 DEF BeginUpload, stores
  <2>3. QED
    BY <1>0, <1>e, <2>1, <2>2, NoDeletion
<1>2. ASSUME NEW c \in Clients, EnsureBucket(c) \/ MakeBucket(c) \/ PutObject(c) \/ StatObject(c) \/ Cleanup(c)
      PROVE DeletedInv'
  <2>1. \A d \in Clients : Deleting(d)' => Deleting(d) /\ file'[d] = file[d]
    BY <1>2, <1>m DEF EnsureBucket, MakeBucket, PutObject, StatObject, Cleanup, PCs
  <2>2. events' = events /\ records' = records
    BY <1>2 DEF EnsureBucket, MakeBucket, PutObject, StatObject, Cleanup, stores
  <2>3. QED
    BY <1>0, <1>e, <2>1, <2>2, NoDeletion
<1>3. ASSUME NEW c \in Clients, InsertRecord(c) PROVE DeletedInv'
  <2>1. \A d \in Clients : Deleting(d)' => Deleting(d) /\ file'[d] = file[d]
    BY <1>3, <1>m DEF InsertRecord, PCs
  <2>2. events' = events
    BY <1>3 DEF InsertRecord
  <2>3. file[c] \in Files /\ ~records[file[c]].deleted
    BY <1>3 DEF InsertRecord, TypeOK, StoredInv, FilesInv, RequestInv
  <2>4. \A f \in Files \ {file[c]} : records'[f] = records[f]
    BY <1>3 DEF InsertRecord, TypeOK
  <2>5. \A f \in Files : records[f].deleted => records'[f].deleted
    BY <2>3, <2>4
  <2>6. QED
    BY <1>0, <1>e, <2>1, <2>2, <2>5, NoDeletion
<1>4. ASSUME NEW c \in Clients, EmitUploaded(c) \/ EmitStatus(c) PROVE DeletedInv'
  <2>1. \A d \in Clients : Deleting(d)' => Deleting(d) /\ file'[d] = file[d]
    BY <1>4, <1>m DEF EmitUploaded, EmitStatus
  <2>2. records' = records
    BY <1>4 DEF EmitUploaded, EmitStatus
  <2>3. PICK t \in EventTypes \ {"deleted"} : Emit(file[c], t)
    BY <1>4 DEF EmitUploaded, EmitStatus, EventTypes
  <2>4. QED
    BY <1>0, <1>a, <2>1, <2>2, <2>3, NoDeletion
<1>5. ASSUME NEW c \in Clients, BeginDelete(c) \/ BeginDownload(c) PROVE DeletedInv'
  <2>1. \A d \in Clients : Deleting(d)' => Deleting(d) /\ file'[d] = file[d]
    BY <1>5, <1>b DEF BeginDelete, BeginDownload, PCs
  <2>2. events' = events /\ records' = records
    BY <1>5 DEF BeginDelete, BeginDownload, stores
  <2>3. QED
    BY <1>0, <1>e, <2>1, <2>2, NoDeletion
<1>6. ASSUME NEW c \in Clients, UpdateStatus(c) PROVE DeletedInv'
  <2>1. PICK f \in Files, status \in Statuses :
          /\ records' = [records EXCEPT ![f] = WithStatus(@, status)]
          /\ \/ status \in {"processing", "processed"} /\ Begin(c, f, status)
             \/ UNCHANGED <<pc, file, cancelled>>
    BY <1>6 DEF UpdateStatus
  <2>2. \A d \in Clients : Deleting(d)' => Deleting(d) /\ file'[d] = file[d]
    <3>1. CASE status \in {"processing", "processed"} /\ Begin(c, f, status)
      BY <1>b, <3>1 DEF PCs
    <3>2. CASE UNCHANGED <<pc, file, cancelled>>
      BY <3>2 DEF Deleting
    <3>3. QED
      BY <2>1, <3>1, <3>2
  <2>3. events' = events
    BY <1>6 DEF UpdateStatus
  <2>4. WithStatus(records[f], status).deleted = records[f].deleted
    BY DEF TypeOK, FileRecord, WithStatus
  <2>5. \A g \in Files : records[g].deleted => records'[g].deleted
    BY <2>1, <2>4 DEF TypeOK
  <2>6. QED
    BY <1>0, <1>e, <2>2, <2>3, <2>5, NoDeletion
<1>7. ASSUME NEW c \in Clients, SoftDelete(c) PROVE DeletedInv'
  <2>1. file[c] \in Files /\ pc[c] = "softDelete" /\ events' = events
    BY <1>7 DEF SoftDelete, TypeOK
  <2>2. \A f \in Files \ {file[c]} : records'[f] = records[f]
    BY <1>7 DEF SoftDelete, TypeOK
  <2>3. \A f \in Files : records[f].deleted => records'[f].deleted
    BY <1>7, <2>1 DEF SoftDelete, TypeOK
  <2>4. CASE Return(c)
    <3>1. \A d \in Clients : Deleting(d)' => Deleting(d) /\ file'[d] = file[d]
      BY <1>m, <2>4
    <3>2. QED
      BY <1>0, <1>e, <2>1, <2>3, <3>1, NoDeletion
  <2>5. CASE Goto(c, "remove") /\ ~records[file[c]].deleted /\ records'[file[c]].deleted
    <3>1. /\ file' = file
          /\ \A d \in Clients \ {c} : Deleting(d)' = Deleting(d)
      BY <2>5 DEF Goto, Deleting, TypeOK
    <3>2. Deletions(file[c]) = {} /\ \A d \in Clients : Deleting(d) => file[d] # file[c]
      BY <2>1, <2>5 DEF DeletedInv
    <3>3. \A f \in Files : Deletions(f)' = Deletions(f)
      BY <1>e, <2>1
    <3>4. QED
      BY <1>0, <2>1, <2>3, <2>5, <3>1, <3>2, <3>3 DEF DeletedInv
  <2>6. QED
    BY <1>7, <2>1, <2>4, <2>5 DEF SoftDelete, Deletable, Live, Applied, TypeOK
<1>8. ASSUME NEW c \in Clients, RemoveObject(c) PROVE DeletedInv'
  <2>1. \A d \in Clients : Deleting(d)' => Deleting(d) /\ file'[d] = file[d]
    BY <1>8 DEF RemoveObject, Goto, Deleting, TypeOK
  <2>2. events' = events /\ records' = records
    BY <1>8 DEF RemoveObject
  <2>3. QED
    BY <1>0, <1>e, <2>1, <2>2, NoDeletion
<1>9. ASSUME NEW c \in Clients, EmitDeleted(c) PROVE DeletedInv'
  <2>0. PICK f \in Files : f = file[c]
    BY <1>9 DEF EmitDeleted, TypeOK
  <2>1. Deleting(c) /\ records' = records
    BY <1>9 DEF EmitDeleted, Deleting
  <2>2. /\ \A d \in Clients \ {c} : Deleting(d)' = Deleting(d) /\ file'[d] = file[d]
        /\ ~Deleting(c)'
    BY <1>9 DEF EmitDeleted, Return, Deleting, TypeOK
  <2>3. Deletions(f) = {} /\ records[f].deleted
    BY <2>0, <2>1 DEF DeletedInv
  <2>4. Deletions(f)' = {Len(events[f]) + 1}
    <3>1. events[f] \in Seq(EventTypes) /\ "deleted" \in EventTypes
      BY <2>0, <2>1 DEF TypeOK, EventTypes
    <3>2. events'[f] = Append(events[f], "deleted")
      BY <1>9, <2>0, <2>1 DEF EmitDeleted, Emit, TypeOK
    <3>3. QED
      BY <2>3, <3>1, <3>2, DeletionsAfter DEF Deletions
  <2>5. \A g \in Files \ {f} : Deletions(g)' = Deletions(g)
    BY <1>9, <2>0 DEF EmitDeleted, Emit, Deletions, TypeOK
  <2>6. \A d \in Clients \ {c} : Deleting(d) => file[d] # f
    BY <2>0, <2>1 DEF DeletedInv
  <2>7. \A g \in Files : /\ \A i, j \in Deletions(g)' : i = j
                         /\ Deletions(g)' # {} => records'[g].deleted
    BY <2>1, <2>3, <2>4, <2>5 DEF DeletedInv
  <2>8. \A d \in Clients : Deleting(d)' =>
          Deleting(d) /\ file'[d] = file[d] /\ file[d] \in Files \ {f}
    BY <1>0, <2>2, <2>6
  <2>9. QED
    BY <2>1, <2>5, <2>7, <2>8 DEF DeletedInv
<1>10. ASSUME NEW c \in Clients, ReadObject(c) PROVE DeletedInv'
  <2>1. \A d \in Clients : Deleting(d)' => Deleting(d) /\ file'[d] = file[d]
    BY <1>10, <1>m DEF ReadObject
  <2>2. events' = events /\ records' = records
    BY <1>10 DEF ReadObject, stores
  <2>3. QED
    BY <1>0, <1>e, <2>1, <2>2, NoDeletion
<1>11. CASE UNCHANGED <<pc, file, events, records>>
  <2>1. \A d \in Clients : Deleting(d)' => Deleting(d) /\ file'[d] = file[d]
    BY <1>11 DEF Deleting
  <2>2. QED
    BY <1>0, <1>e, <1>11, <2>1, NoDeletion
<1>12. CASE Crash
  <2>1. \A d \in Clients : ~Deleting(d)'
    BY <1>12 DEF Crash, Deleting
  <2>2. events' = events /\ records' = records
    BY <1>12 DEF Crash, stores
  <2>3. QED
    BY <1>e, <2>1, <2>2, NoDeletion
<1>13. QED
  BY <1>1, <1>2, <1>3, <1>4, <1>5, <1>6, <1>7, <1>8, <1>9, <1>10, <1>11, <1>12
     DEF Next, Upload, Delete, Download, Status, Cancel, stores, vars

\* Deletes of one file that race end in one file.deleted event, and the row of
\* a file with that event stays deleted, with any requests and any faults.
THEOREM OneDeletion == Spec => []DeletedOnce
<1>1. Init => StoredInv
  BY DEF Init, StoredInv, FilesInv, RequestInv, NoRecord, Recorded, Uploading
<1>2. Init => DeletedInv
  BY DEF Init, DeletedInv, Deletions, Deleting
<1>3. DeletedInv => DeletedOnce
  BY DEF DeletedInv, DeletedOnce
<1>4. QED
  BY <1>1, <1>2, <1>3, StoredStep, DeletedStep, FileStoreTypeCorrect, PTL DEF Spec

----------------------------------------------------------------------------
(* Objects *)

\* A step of one request that puts no object, hides no live row, and keeps,
\* removes, records or loses the object it holds.
LEMMA OrphanRequest ==
  ASSUME NoOrphanBlobs, TypeOK, NEW c \in Clients,
         blobs' \subseteq blobs, stranded \subseteq stranded',
         \A f \in Files : Live(f) => Live(f)',
         \A d \in Clients \ {c} : pc'[d] = pc[d] /\ file'[d] = file[d],
         HoldsObject(c) => \/ HoldsObject(c)' /\ file'[c] = file[c]
                           \/ file[c] \notin blobs'
                           \/ \E f \in Files : f = file[c] /\ Live(f)'
                           \/ file[c] \in stranded'
  PROVE  NoOrphanBlobs'
<1> SUFFICES ASSUME NEW f \in blobs', ~Live(f)', f \notin stranded'
             PROVE  \E d \in Clients : file'[d] = f /\ HoldsObject(d)'
  BY DEF NoOrphanBlobs
<1>1. PICK d \in Clients : file[d] = f /\ HoldsObject(d)
  BY DEF NoOrphanBlobs, TypeOK
<1>2. CASE d = c
  <2>1. HoldsObject(c) /\ file[c] = f
    BY <1>1, <1>2
  <2>2. HoldsObject(c)' /\ file'[c] = f
    BY <2>1
  <2>3. QED
    BY <2>2
<1>3. CASE d # c
  BY <1>1, <1>3 DEF HoldsObject
<1>4. QED
  BY <1>2, <1>3

LEMMA OrphanStep == TypeOK /\ NoOrphanBlobs /\ [Next]_vars => NoOrphanBlobs'
<1> SUFFICES ASSUME TypeOK, NoOrphanBlobs, [Next]_vars PROVE NoOrphanBlobs'
  OBVIOUS
<1>a. ASSUME records' = records PROVE \A f \in Files : Live(f) => Live(f)'
  BY <1>a DEF Live, Recorded
<1>1. ASSUME NEW c \in Clients, NEW f \in Files, NEW l \in PCs, Begin(c, f, l),
             UNCHANGED <<blobs, stranded>>, \A g \in Files : Live(g) => Live(g)'
      PROVE NoOrphanBlobs'
  <2>1. ~HoldsObject(c) /\ \A d \in Clients \ {c} : pc'[d] = pc[d] /\ file'[d] = file[d]
    BY <1>1 DEF Begin, HoldsObject, TypeOK
  <2>2. QED
    BY <1>1, <2>1, OrphanRequest
<1>2. ASSUME NEW c \in Clients, BeginUpload(c) \/ BeginDelete(c) \/ BeginDownload(c)
      PROVE NoOrphanBlobs'
  <2>1. PICK f \in Files, l \in {"ensure", "softDelete", "read"} : Begin(c, f, l)
    BY <1>2 DEF BeginUpload, BeginDelete, BeginDownload
  <2>2. UNCHANGED <<blobs, stranded, records>>
    BY <1>2 DEF BeginUpload, BeginDelete, BeginDownload, stores, history
  <2>3. QED
    BY <1>1, <1>a, <2>1, <2>2 DEF PCs
<1>3. ASSUME NEW c \in Clients,
             \/ EnsureBucket(c) \/ MakeBucket(c) \/ EmitUploaded(c)
             \/ EmitDeleted(c) \/ ReadObject(c) \/ EmitStatus(c)
      PROVE NoOrphanBlobs'
  <2>1. UNCHANGED <<blobs, stranded, records>> /\ ~HoldsObject(c)
    BY <1>3 DEF EnsureBucket, MakeBucket, EmitUploaded, EmitDeleted, ReadObject, EmitStatus,
       HoldsObject, stores, history
  <2>2. Return(c) \/ \E l \in PCs : Goto(c, l)
    BY <1>3 DEF EnsureBucket, MakeBucket, EmitUploaded, EmitDeleted, ReadObject, EmitStatus, PCs
  <2>3. \A d \in Clients \ {c} : pc'[d] = pc[d] /\ file'[d] = file[d]
    BY <2>2 DEF Return, Goto, TypeOK
  <2>4. QED
    BY <1>a, <2>1, <2>3, OrphanRequest
<1>4. ASSUME NEW c \in Clients, PutObject(c) PROVE NoOrphanBlobs'
  <2>1. /\ records' = records /\ pc[c] = "put" /\ file[c] \in Files
    BY <1>4 DEF PutObject, TypeOK
  <2>2. \/ /\ blobs' \subseteq blobs \cup {file[c]} /\ stranded' = stranded
           /\ \E next \in {"stat", "insert"} : Goto(c, next)
        \/ blobs' = blobs /\ stranded' = stranded /\ Return(c)
        \/ blobs' = blobs \cup {file[c]} /\ stranded' = stranded \cup {file[c]} /\ Return(c)
    BY <1>4 DEF PutObject, Strands, Applied, Backend, Outcomes
  <2>3. \A d \in Clients \ {c} : pc'[d] = pc[d] /\ file'[d] = file[d]
    BY <2>2 DEF Return, Goto, TypeOK
  <2>4. blobs' \subseteq blobs \cup {file[c]} /\ stranded \subseteq stranded'
    BY <2>2
  <2>5. ASSUME file[c] \in blobs', file[c] \notin stranded'
        PROVE  \/ HoldsObject(c)' /\ file'[c] = file[c]
               \/ file[c] \in blobs
    BY <2>2, <2>5, OneMoves DEF HoldsObject, TypeOK
  <2> SUFFICES ASSUME NEW f \in blobs', ~Live(f)', f \notin stranded'
               PROVE  \E d \in Clients : file'[d] = f /\ HoldsObject(d)'
    BY DEF NoOrphanBlobs
  <2>6. CASE f = file[c] /\ HoldsObject(c)' /\ file'[c] = file[c]
    BY <2>6
  <2>7. CASE f \in blobs
    <3>1. PICK d \in Clients : file[d] = f /\ HoldsObject(d)
      BY <2>1, <2>4, <2>7 DEF NoOrphanBlobs, Live, Recorded
    <3>2. d # c
      BY <2>1, <3>1 DEF HoldsObject
    <3>3. QED
      BY <2>3, <3>1, <3>2 DEF HoldsObject
  <2>8. QED
    BY <2>4, <2>5, <2>6, <2>7
<1>5. ASSUME NEW c \in Clients, StatObject(c) PROVE NoOrphanBlobs'
  <2>1. UNCHANGED <<blobs, stranded, records>> /\ \E l \in {"insert", "cleanup"} : Goto(c, l)
    BY <1>5 DEF StatObject, stores, history
  <2>2. /\ \A d \in Clients \ {c} : pc'[d] = pc[d] /\ file'[d] = file[d]
        /\ HoldsObject(c)' /\ file'[c] = file[c]
    BY <2>1 DEF Goto, TypeOK, HoldsObject
  <2>3. QED
    BY <1>a, <2>1, <2>2, OrphanRequest
<1>6. ASSUME NEW c \in Clients, InsertRecord(c) PROVE NoOrphanBlobs'
  <2> DEFINE row == [status |-> "active", deleted |-> FALSE]
  <2>1. UNCHANGED <<blobs, stranded>> /\ pc[c] = "insert" /\ file[c] \in Files
    BY <1>6 DEF InsertRecord, TypeOK
  <2>2. \/ Goto(c, "uploaded") /\ records' = [records EXCEPT ![file[c]] = row]
        \/ Goto(c, "cleanup") /\ (records' = records \/ records' = [records EXCEPT ![file[c]] = row])
    BY <1>6 DEF InsertRecord, Applied
  <2>3. row.status = "active" /\ row.deleted = FALSE
    OBVIOUS
  <2> HIDE DEF row
  <2>4. \A f \in Files : Live(f) => Live(f)'
    BY <2>1, <2>2, <2>3 DEF Live, Recorded, TypeOK
  <2>5. /\ \A d \in Clients \ {c} : pc'[d] = pc[d] /\ file'[d] = file[d]
        /\ file'[c] = file[c]
        /\ HoldsObject(c)' \/ \E f \in Files : f = file[c] /\ Live(f)'
    BY <2>1, <2>2, <2>3 DEF Goto, TypeOK, HoldsObject, Live, Recorded
  <2>6. QED
    BY <2>1, <2>4, <2>5, OrphanRequest
<1>7. ASSUME NEW c \in Clients, Cleanup(c) \/ RemoveObject(c) PROVE NoOrphanBlobs'
  <2>1. /\ records' = records /\ blobs' \subseteq blobs /\ stranded \subseteq stranded'
        /\ file[c] \notin blobs' \/ file[c] \in stranded'
    BY <1>7 DEF Cleanup, RemoveObject, Strands
  <2>2. Return(c) \/ Goto(c, "deleted")
    BY <1>7 DEF Cleanup, RemoveObject
  <2>3. \A d \in Clients \ {c} : pc'[d] = pc[d] /\ file'[d] = file[d]
    BY <2>2 DEF Return, Goto, TypeOK
  <2>4. QED
    BY <1>a, <2>1, <2>3, OrphanRequest
<1>8. ASSUME NEW c \in Clients, SoftDelete(c) PROVE NoOrphanBlobs'
  <2>1. blobs' = blobs /\ pc[c] = "softDelete" /\ file[c] \in Files /\ stranded \subseteq stranded'
    BY <1>8 DEF SoftDelete, TypeOK, Strands
  <2>2. \/ Return(c) /\ records' = records
        \/ Return(c) /\ file[c] \in stranded'
        \/ Goto(c, "remove")
    BY <1>8 DEF SoftDelete, Strands, Applied, DB, Outcomes
  <2>3. /\ \A d \in Clients \ {c} : pc'[d] = pc[d] /\ file'[d] = file[d]
        /\ \A f \in Files \ {file[c]} : records'[f] = records[f]
    BY <1>8, <2>2 DEF SoftDelete, Return, Goto, TypeOK
  <2>4. records' = records \/ file[c] \in stranded' \/ (HoldsObject(c)' /\ file'[c] = file[c])
    BY <2>2 DEF Goto, TypeOK, HoldsObject
  <2> SUFFICES ASSUME NEW f \in blobs', ~Live(f)', f \notin stranded'
               PROVE  \E d \in Clients : file'[d] = f /\ HoldsObject(d)'
    BY DEF NoOrphanBlobs
  <2>5. CASE f = file[c] /\ HoldsObject(c)' /\ file'[c] = file[c]
    BY <2>5
  <2>6. CASE records'[f] = records[f]
    <3>1. PICK d \in Clients : file[d] = f /\ HoldsObject(d)
      BY <2>1, <2>6 DEF NoOrphanBlobs, Live, Recorded
    <3>2. d # c
      BY <2>1, <3>1 DEF HoldsObject
    <3>3. QED
      BY <2>3, <3>1, <3>2 DEF HoldsObject
  <2>7. f \in Files
    BY <2>1 DEF TypeOK
  <2>8. QED
    BY <2>3, <2>4, <2>5, <2>6, <2>7
<1>9. ASSUME NEW c \in Clients, UpdateStatus(c) PROVE NoOrphanBlobs'
  <2>1. PICK f \in Files, status \in Statuses :
          /\ Recorded(f)
          /\ records' = [records EXCEPT ![f] = WithStatus(@, status)]
          /\ \/ status \in {"processing", "processed"} /\ Begin(c, f, status)
             \/ UNCHANGED <<pc, file>>
    BY <1>9 DEF UpdateStatus
  <2>2. UNCHANGED <<blobs, stranded>>
    BY <1>9 DEF UpdateStatus, history
  <2>3. \A g \in Files : Live(g) => Live(g)'
    <3>1. /\ WithStatus(records[f], status).deleted = records[f].deleted
          /\ WithStatus(records[f], status).status = status
      BY DEF TypeOK, FileRecord, WithStatus
    <3>2. status # "none"
      BY DEF Statuses
    <3>3. QED
      BY <2>1, <3>1, <3>2 DEF TypeOK, Live, Recorded
  <2>4. CASE status \in {"processing", "processed"} /\ Begin(c, f, status)
    BY <1>1, <2>2, <2>3, <2>4 DEF PCs
  <2>5. CASE UNCHANGED <<pc, file>>
    BY <2>2, <2>3, <2>5, OrphanRequest DEF HoldsObject
  <2>6. QED
    BY <2>1, <2>4, <2>5
<1>10. CASE Crash
  <2>1. blobs' = blobs /\ records' = records /\ \A d \in Clients : HoldsObject(d) => file[d] \in stranded'
    BY <1>10 DEF Crash, stores
  <2>2. stranded \subseteq stranded'
    BY <1>10 DEF Crash
  <2>3. QED
    BY <2>1, <2>2 DEF NoOrphanBlobs, Live, Recorded
<1>11. CASE UNCHANGED <<pc, file, blobs, records, stranded>>
  BY <1>11 DEF NoOrphanBlobs, HoldsObject, Live, Recorded
<1>12. QED
  BY <1>2, <1>3, <1>4, <1>5, <1>6, <1>7, <1>8, <1>9, <1>10, <1>11
     DEF Next, Upload, Delete, Download, Status, Cancel, stores, history, vars

\* Every object has its live row or a request that will see to it, unless a call
\* of a request about it went wrong, with any requests and any faults.
THEOREM NoOrphans == Spec => []NoOrphanBlobs
<1>1. Init => NoOrphanBlobs
  BY DEF Init, NoOrphanBlobs
<1>2. QED
  BY <1>1, OrphanStep, FileStoreTypeCorrect, PTL DEF Spec

\* A step that makes no row live, removes no object and brings no request to its
\* cleanup.
LEMMA ObjectKeep ==
  ASSUME ObjectInv, TypeOK, blobs \subseteq blobs', disowned \subseteq disowned',
         \A f \in Files : Live(f)' => Live(f),
         \A c \in Clients : pc'[c] = "cleanup" => pc[c] = "cleanup" /\ file'[c] = file[c]
  PROVE  ObjectInv'
<1>1. LiveRecordsHaveObjects'
  BY DEF ObjectInv, LiveRecordsHaveObjects
<1>2. \A c \in Clients : pc[c] = "cleanup" => file[c] \in Files
  BY DEF TypeOK
<1>3. QED
  BY <1>1, <1>2 DEF ObjectInv

LEMMA ObjectStep == TypeOK /\ StoredInv /\ ObjectInv /\ [Next]_vars => ObjectInv'
<1> SUFFICES ASSUME TypeOK, StoredInv, ObjectInv, [Next]_vars PROVE ObjectInv'
  OBVIOUS
<1>a. ASSUME records' = records PROVE \A f \in Files : Live(f)' => Live(f)
  BY <1>a DEF Live, Recorded
<1>b. ASSUME NEW c \in Clients, NEW f \in Files, NEW l \in PCs \ {"cleanup"}, Begin(c, f, l)
      PROVE  \A d \in Clients : pc'[d] = "cleanup" => pc[d] = "cleanup" /\ file'[d] = file[d]
  BY <1>b DEF Begin, TypeOK
<1>m. ASSUME NEW c \in Clients, Return(c) \/ \E l \in PCs \ {"cleanup"} : Goto(c, l)
      PROVE  \A d \in Clients : pc'[d] = "cleanup" => pc[d] = "cleanup" /\ file'[d] = file[d]
  BY <1>m DEF Return, Goto, TypeOK
<1>1. ASSUME NEW c \in Clients, BeginUpload(c) \/ BeginDelete(c) \/ BeginDownload(c)
      PROVE ObjectInv'
  <2>1. PICK f \in Files, l \in {"ensure", "softDelete", "read"} : Begin(c, f, l)
    BY <1>1 DEF BeginUpload, BeginDelete, BeginDownload
  <2>2. UNCHANGED <<blobs, disowned, records>>
    BY <1>1 DEF BeginUpload, BeginDelete, BeginDownload, stores, history
  <2>3. QED
    BY <1>a, <1>b, <2>1, <2>2, ObjectKeep DEF PCs
<1>2. ASSUME NEW c \in Clients,
             \/ EnsureBucket(c) \/ MakeBucket(c) \/ PutObject(c) \/ EmitUploaded(c)
             \/ EmitDeleted(c) \/ ReadObject(c) \/ EmitStatus(c)
      PROVE ObjectInv'
  <2>1. UNCHANGED <<disowned, records>> /\ blobs \subseteq blobs'
    BY <1>2 DEF EnsureBucket, MakeBucket, PutObject, EmitUploaded, EmitDeleted, ReadObject,
       EmitStatus, stores, history
  <2>2. Return(c) \/ \E l \in PCs \ {"cleanup"} : Goto(c, l)
    BY <1>2 DEF EnsureBucket, MakeBucket, PutObject, EmitUploaded, EmitDeleted, ReadObject,
       EmitStatus, PCs
  <2>3. QED
    BY <1>a, <1>m, <2>1, <2>2, ObjectKeep
<1>3. ASSUME NEW c \in Clients, StatObject(c) PROVE ObjectInv'
  <2>1. UNCHANGED <<blobs, disowned, records>> /\ \E l \in {"insert", "cleanup"} : Goto(c, l)
    BY <1>3 DEF StatObject, stores, history
  <2>2. ~Recorded(file[c])
    BY <1>3 DEF StatObject, StoredInv, RequestInv
  <2>3. file' = file /\ \A d \in Clients \ {c} : pc'[d] = pc[d]
    BY <2>1 DEF Goto, TypeOK
  <2>4. QED
    BY <2>1, <2>2, <2>3 DEF ObjectInv, LiveRecordsHaveObjects, Live, Recorded
<1>4. ASSUME NEW c \in Clients, InsertRecord(c) PROVE ObjectInv'
  <2>1. blobs' = blobs /\ pc[c] = "insert" /\ file[c] \in Files
    BY <1>4 DEF InsertRecord, TypeOK
  <2>2. ~Recorded(file[c]) /\ file[c] \in blobs
    BY <2>1 DEF StoredInv, RequestInv
  <2>3. \A f \in Files \ {file[c]} : records'[f] = records[f]
    BY <1>4 DEF InsertRecord, TypeOK
  <2>4. /\ file' = file /\ \A d \in Clients \ {c} : pc'[d] = pc[d]
        /\ disowned \subseteq disowned'
        /\ pc'[c] = "cleanup" => records' = records \/ file[c] \in disowned'
    BY <1>4 DEF InsertRecord, Goto, TypeOK, Applied, DB, Outcomes
  <2>5. \A d \in Clients \ {c} : pc[d] = "cleanup" => file[d] # file[c] /\ file[d] \in Files
    BY <2>1 DEF StoredInv, Uploading, TypeOK
  <2>6. LiveRecordsHaveObjects'
    BY <2>1, <2>2, <2>3, <2>4 DEF ObjectInv, LiveRecordsHaveObjects, Live, Recorded
  <2>7. ASSUME NEW d \in Clients, pc'[d] = "cleanup", Live(file[d])'
        PROVE  file'[d] \in disowned'
    <3>1. CASE d = c
      BY <2>2, <2>4, <2>7, <3>1 DEF Live, Recorded
    <3>2. CASE d # c
      <4>1. records'[file[d]] = records[file[d]] /\ pc[d] = "cleanup" /\ file'[d] = file[d]
        BY <2>3, <2>4, <2>5, <2>7, <3>2
      <4>2. Live(file[d])
        BY <2>7, <4>1 DEF Live, Recorded
      <4>3. QED
        BY <2>4, <4>1, <4>2 DEF ObjectInv
    <3>3. QED
      BY <3>1, <3>2
  <2>8. QED
    BY <2>6, <2>7 DEF ObjectInv
<1>5. ASSUME NEW c \in Clients, Cleanup(c) \/ RemoveObject(c) PROVE ObjectInv'
  <2>1. /\ UNCHANGED <<records, disowned>> /\ blobs \ {file[c]} \subseteq blobs'
        /\ pc[c] \in {"cleanup", "remove"}
    BY <1>5 DEF Cleanup, RemoveObject
  <2>2. Return(c) \/ Goto(c, "deleted")
    BY <1>5 DEF Cleanup, RemoveObject
  <2>3. \A d \in Clients : pc'[d] = "cleanup" => pc[d] = "cleanup" /\ file'[d] = file[d]
    BY <1>m, <2>2 DEF PCs
  <2>4. Live(file[c]) => file[c] \in disowned
    <3>1. pc[c] = "remove" => ~Live(file[c])
      BY DEF StoredInv, RequestInv, Live
    <3>2. QED
      BY <2>1, <3>1 DEF ObjectInv
  <2>5. QED
    BY <2>1, <2>3, <2>4 DEF ObjectInv, LiveRecordsHaveObjects, Live, Recorded
<1>6. ASSUME NEW c \in Clients, SoftDelete(c) PROVE ObjectInv'
  <2>1. UNCHANGED <<blobs, disowned>> /\ file[c] \in Files
    BY <1>6 DEF SoftDelete, TypeOK
  <2>2. \A f \in Files : Live(f)' => Live(f)
    <3>1. \/ records' = records
          \/ records' = [records EXCEPT ![file[c]] = [status |-> "deleted", deleted |-> TRUE]]
      BY <1>6 DEF SoftDelete
    <3>2. \A f \in Files : records'[f] = records[f] \/ records'[f].deleted
      BY <2>1, <3>1 DEF TypeOK
    <3>3. QED
      BY <3>2 DEF Live, Recorded
  <2>3. Return(c) \/ Goto(c, "remove")
    BY <1>6 DEF SoftDelete
  <2>4. \A d \in Clients : pc'[d] = "cleanup" => pc[d] = "cleanup" /\ file'[d] = file[d]
    BY <1>m, <2>3 DEF PCs
  <2>5. QED
    BY <2>1, <2>2, <2>4, ObjectKeep
<1>7. ASSUME NEW c \in Clients, UpdateStatus(c) PROVE ObjectInv'
  <2>1. PICK f \in Files, status \in Statuses :
          /\ Recorded(f)
          /\ records' = [records EXCEPT ![f] = WithStatus(@, status)]
          /\ \/ status \in {"processing", "processed"} /\ Begin(c, f, status)
             \/ UNCHANGED <<pc, file>>
    BY <1>7 DEF UpdateStatus
  <2>2. UNCHANGED <<blobs, disowned>>
    BY <1>7 DEF UpdateStatus, history
  <2>3. \A g \in Files : Live(g)' => Live(g)
    <3>1. /\ WithStatus(records[f], status).deleted = records[f].deleted
          /\ WithStatus(records[f], status).status = status
      BY DEF TypeOK, FileRecord, WithStatus
    <3>2. QED
      BY <2>1, <3>1 DEF TypeOK, Live, Recorded
  <2>4. \A d \in Clients : pc'[d] = "cleanup" => pc[d] = "cleanup" /\ file'[d] = file[d]
    BY <1>b, <2>1 DEF PCs
  <2>5. QED
    BY <2>2, <2>3, <2>4, ObjectKeep
<1>8. CASE Crash
  <2>1. UNCHANGED <<blobs, records, disowned>> /\ \A c \in Clients : pc'[c] # "cleanup"
    BY <1>8 DEF Crash, stores
  <2>2. QED
    BY <1>a, <2>1, ObjectKeep
<1>9. CASE UNCHANGED <<pc, file, blobs, records, disowned>>
  BY <1>9, <1>a, ObjectKeep
<1>10. QED
  BY <1>1, <1>2, <1>3, <1>4, <1>5, <1>6, <1>7, <1>8, <1>9
     DEF Next, Upload, Delete, Download, Status, Cancel, stores, history, vars

\* A row that readers are shown has its object, unless its upload lost the reply
\* to the INSERT, with any requests and any faults.
THEOREM LiveRecords == Spec => []LiveRecordsHaveObjects
<1>1. Init => StoredInv
  BY DEF Init, StoredInv, FilesInv, RequestInv, NoRecord, Recorded, Uploading
<1>2. Init => ObjectInv
  BY DEF Init, ObjectInv, LiveRecordsHaveObjects, NoRecord, Live, Recorded
<1>3. ObjectInv => LiveRecordsHaveObjects
  BY DEF ObjectInv
<1>4. QED
  BY <1>1, <1>2, <1>3, StoredStep, ObjectStep, FileStoreTypeCorrect, PTL DEF Spec
=============================================================================
