------------------------------- MODULE FileStore -------------------------------
(***************************************************************************)
(* The file store (core-services-object-store/pkg/filestore): the objects  *)
(* in the storage backend, the rows of stored_files and the lifecycle      *)
(* events, under any number of requests of one tenant.                     *)
(*                                                                         *)
(* A client is one request inside Store.Upload, Delete, Download or        *)
(* UpdateStatus.  Each call to the backend and each statement to the       *)
(* database is one atomic action, so the two stores are updated one after  *)
(* the other and other requests come in between.  A file is its id, which  *)
(* is part of its object key; uuid.New never returns an id twice.          *)
(***************************************************************************)
EXTENDS Integers, Sequences

CONSTANTS
  Files,     \* file ids
  Clients,   \* requests that may run at the same time
  NoFile,    \* not a file id
  MaxCalls,  \* bound: requests in a behaviour
  Faults     \* the faults the environment may produce

AllFaults ==
  { "db refuses",       \* a statement has no effect and returns an error
    "db loses",         \* a statement takes effect, its reply is lost
    "backend refuses",  \* the same of a call to the storage backend
    "backend loses",
    "cancel",           \* the context of a request is cancelled
    "crash" }           \* the process dies and is restarted

ASSUME FileStoreAssumption ==
  /\ NoFile \notin Files
  /\ MaxCalls \in Nat
  /\ Faults \subseteq AllFaults

VARIABLES
  bucket,     \* the bucket of the tenant exists
  blobs,      \* files whose object is in the backend
  records,    \* stored_files, by id
  events,     \* events emitted, by file, oldest first
  issued,     \* ids uuid.New has returned
  acked,      \* files whose upload was answered with their record
  calls,      \* requests so far
  pc,         \* where each request stands
  file,       \* the file it is about
  cancelled,  \* its context is done
  stranded,   \* history: files whose object a request may have left behind
  disowned    \* history: files whose upload lost the reply to the INSERT

stores == <<bucket, blobs, records, events>>
history == <<stranded, disowned>>
vars == <<stores, issued, acked, calls, pc, file, cancelled, history>>

Statuses == {"active", "processing", "processed", "deleted"}
\* A file without a row has no status.
NoRecord == [status |-> "none", deleted |-> FALSE]
FileRecord == [status : Statuses \cup {"none"}, deleted : BOOLEAN]
Recorded(f) == records[f].status # "none"
Live(f) == Recorded(f) /\ ~records[f].deleted

EventTypes == {"uploaded", "processing", "processed", "deleted"}
PCs == { "idle",
         "ensure", "make", "put", "stat", "insert", "cleanup", "uploaded", \* Upload
         "softDelete", "remove", "deleted",                                \* Delete
         "read",                                                           \* Download
         "processing", "processed" }                                       \* UpdateStatus

----------------------------------------------------------------------------
(* Calls.  A call is refused, or takes effect and is answered, or takes     *)
(* effect and its answer is lost.  Every call of a request uses the         *)
(* request's context; once it is done every call is refused.  A context that *)
(* is done while a call is under way is an answer that is lost.             *)

Outcomes(c, refuses, loses) ==
  IF cancelled[c] THEN {"error"}
  ELSE {"ok"} \cup (IF refuses \in Faults THEN {"error"} ELSE {})
              \cup (IF loses \in Faults THEN {"lost"} ELSE {})
DB(c) == Outcomes(c, "db refuses", "db loses")
Backend(c) == Outcomes(c, "backend refuses", "backend loses")
Applied(o) == o # "error"

Goto(c, label) ==
  /\ pc' = [pc EXCEPT ![c] = label]
  /\ UNCHANGED <<file, cancelled>>
Return(c) ==
  /\ pc' = [pc EXCEPT ![c] = "idle"]
  /\ file' = [file EXCEPT ![c] = NoFile]
  /\ cancelled' = [cancelled EXCEPT ![c] = FALSE]

\* A request about f begins; its first call follows.
Begin(c, f, label) ==
  /\ pc[c] = "idle"
  /\ calls < MaxCalls
  /\ calls' = calls + 1
  /\ pc' = [pc EXCEPT ![c] = label]
  /\ file' = [file EXCEPT ![c] = f]
  /\ UNCHANGED cancelled

\* c is between the steps that put an object and record it, or that mark its
\* row deleted and remove it.
HoldsObject(c) == pc[c] \in {"stat", "insert", "cleanup", "remove"}

\* A request about f loses sight of its object, or does not.
Strands(f, lost) == stranded' = IF lost THEN stranded \cup {f} ELSE stranded

Emit(f, type) == events' = [events EXCEPT ![f] = Append(@, type)]

----------------------------------------------------------------------------
(* Upload *)

\* The id is drawn between the bucket and the object; nobody sees it earlier.
BeginUpload(c) ==
  /\ \E f \in Files \ issued :
       /\ Begin(c, f, "ensure")
       /\ issued' = issued \cup {f}
  /\ UNCHANGED <<stores, acked, history>>

EnsureBucket(c) ==
  /\ pc[c] = "ensure"
  /\ \E o \in Backend(c) :
       IF o = "ok" THEN Goto(c, IF bucket THEN "put" ELSE "make") ELSE Return(c)
  /\ UNCHANGED <<stores, issued, acked, calls, history>>

\* Another request may have made the bucket: BucketAlreadyOwnedByYou is fine.
MakeBucket(c) ==
  /\ pc[c] = "make"
  /\ \E o \in Backend(c) :
       /\ bucket' = (bucket \/ Applied(o))
       /\ IF o = "ok" THEN Goto(c, "put") ELSE Return(c)
  /\ UNCHANGED <<blobs, records, events, issued, acked, calls, history>>

\* An upload that returns an error is not cleaned up.  The size is known or
\* not; if not, the object is looked at.
PutObject(c) ==
  /\ pc[c] = "put"
  /\ \E o \in IF bucket THEN Backend(c) ELSE {"error"} :
       /\ blobs' = IF Applied(o) THEN blobs \cup {file[c]} ELSE blobs
       /\ Strands(file[c], o = "lost")
       /\ IF o = "ok"
          THEN \E next \in {"stat", "insert"} : Goto(c, next)
          ELSE Return(c)
  /\ UNCHANGED <<bucket, records, events, issued, acked, calls, disowned>>

StatObject(c) ==
  /\ pc[c] = "stat"
  /\ \E o \in Backend(c) : Goto(c, IF o = "ok" THEN "insert" ELSE "cleanup")
  /\ UNCHANGED <<stores, issued, acked, calls, history>>

\* Mutant: the error of the insert is not looked at.
InsertUnchecked(c) ==
  /\ pc[c] = "insert"
  /\ \E o \in DB(c) :
       records' = IF Applied(o)
                  THEN [records EXCEPT ![file[c]] = [status |-> "active", deleted |-> FALSE]]
                  ELSE records
  /\ Goto(c, "uploaded")
  /\ UNCHANGED <<bucket, blobs, events, issued, acked, calls, history>>
InsertRecord(c) ==
  /\ pc[c] = "insert"
  /\ \E o \in DB(c) :
       /\ records' = IF Applied(o)
                     THEN [records EXCEPT ![file[c]] = [status |-> "active", deleted |-> FALSE]]
                     ELSE records
       /\ disowned' = IF o = "lost" THEN disowned \cup {file[c]} ELSE disowned
       /\ Goto(c, IF o = "ok" THEN "uploaded" ELSE "cleanup")
  /\ UNCHANGED <<bucket, blobs, events, issued, acked, calls, stranded>>

\* The object of a failed upload is deleted, best effort.
\* Mutant: it is not.
NoCleanup(c) ==
  /\ pc[c] = "cleanup"
  /\ Return(c)
  /\ UNCHANGED <<stores, issued, acked, calls, history>>
Cleanup(c) ==
  /\ pc[c] = "cleanup"
  /\ \E o \in Backend(c) :
       /\ blobs' = IF Applied(o) THEN blobs \ {file[c]} ELSE blobs
       /\ Strands(file[c], ~Applied(o))
  /\ Return(c)
  /\ UNCHANGED <<bucket, records, events, issued, acked, calls, disowned>>

EmitUploaded(c) ==
  /\ pc[c] = "uploaded"
  /\ Emit(file[c], "uploaded")
  /\ acked' = acked \cup {file[c]}
  /\ Return(c)
  /\ UNCHANGED <<bucket, blobs, records, issued, calls, history>>

----------------------------------------------------------------------------
(* Delete, Download, UpdateStatus *)

\* getFileRecord finds a live row; otherwise the request ends without effect.
BeginDelete(c) ==
  /\ \E f \in Files : Live(f) /\ Begin(c, f, "softDelete")
  /\ UNCHANGED <<stores, issued, acked, history>>

\* UPDATE ... WHERE is_deleted = FALSE.  No row updated: ErrNotFound.
\* Mutant DeletableAgain: the WHERE clause does not look at is_deleted.
DeletableAgain(f) == Recorded(f)
Deletable(f) == Live(f)
SoftDelete(c) ==
  LET f == file[c] IN
  /\ pc[c] = "softDelete"
  /\ \E o \in DB(c) :
       /\ records' = IF Applied(o) /\ Deletable(f)
                     THEN [records EXCEPT ![f] = [status |-> "deleted", deleted |-> TRUE]]
                     ELSE records
       /\ Strands(f, o = "lost" /\ Deletable(f))
       /\ IF o = "ok" /\ Deletable(f) THEN Goto(c, "remove") ELSE Return(c)
  /\ UNCHANGED <<bucket, blobs, events, issued, acked, calls, disowned>>

\* The error of the backend is ignored.
RemoveObject(c) ==
  /\ pc[c] = "remove"
  /\ \E o \in Backend(c) :
       /\ blobs' = IF Applied(o) THEN blobs \ {file[c]} ELSE blobs
       /\ Strands(file[c], ~Applied(o))
  /\ Goto(c, "deleted")
  /\ UNCHANGED <<bucket, records, events, issued, acked, calls, disowned>>

EmitDeleted(c) ==
  /\ pc[c] = "deleted"
  /\ Emit(file[c], "deleted")
  /\ Return(c)
  /\ UNCHANGED <<bucket, blobs, records, issued, acked, calls, history>>

BeginDownload(c) ==
  /\ \E f \in Files : Live(f) /\ Begin(c, f, "read")
  /\ UNCHANGED <<stores, issued, acked, history>>

\* GetObject is lazy: the object is read while the response is streamed, and
\* may be gone by then.
ReadObject(c) ==
  /\ pc[c] = "read"
  /\ Return(c)
  /\ UNCHANGED <<stores, issued, acked, calls, history>>

\* One UPDATE by id, deleted or not; no row: ErrNotFound, no effect.  Only two
\* of the statuses have an event.
\* Mutant Undeleted: the row is written as a live one.
Undeleted(r, status) == [status |-> status, deleted |-> FALSE]
WithStatus(r, status) == [r EXCEPT !.status = status]
UpdateStatus(c) ==
  /\ \E f \in Files, status \in Statuses, o \in DB(c) \ {"error"} :
       /\ Recorded(f)
       /\ records' = [records EXCEPT ![f] = WithStatus(@, status)]
       /\ IF o = "ok" /\ status \in {"processing", "processed"}
          THEN Begin(c, f, status)
          ELSE /\ pc[c] = "idle"
               /\ calls < MaxCalls
               /\ calls' = calls + 1
               /\ UNCHANGED <<pc, file, cancelled>>
  /\ UNCHANGED <<bucket, blobs, events, issued, acked, history>>

\* Mutant: the event of a status is named after the status of the row by then.
EmitRowStatus(c) ==
  /\ pc[c] \in {"processing", "processed"}
  /\ Emit(file[c], records[file[c]].status)
  /\ Return(c)
  /\ UNCHANGED <<bucket, blobs, records, issued, acked, calls, history>>
EmitStatus(c) ==
  /\ pc[c] \in {"processing", "processed"}
  /\ Emit(file[c], pc[c])
  /\ Return(c)
  /\ UNCHANGED <<bucket, blobs, records, issued, acked, calls, history>>

----------------------------------------------------------------------------
(* The environment *)

Cancel(c) ==
  /\ "cancel" \in Faults
  /\ pc[c] # "idle"
  /\ ~cancelled[c]
  /\ cancelled' = [cancelled EXCEPT ![c] = TRUE]
  /\ UNCHANGED <<stores, issued, acked, calls, pc, file, history>>

\* Every request is lost; nothing is repaired when the service starts.
Crash ==
  /\ "crash" \in Faults
  /\ \E c \in Clients : pc[c] # "idle"
  /\ pc' = [c \in Clients |-> "idle"]
  /\ file' = [c \in Clients |-> NoFile]
  /\ cancelled' = [c \in Clients |-> FALSE]
  /\ stranded' = stranded \cup {file[c] : c \in {d \in Clients : HoldsObject(d)}}
  /\ UNCHANGED <<stores, issued, acked, calls, disowned>>

Init ==
  /\ bucket = FALSE
  /\ blobs = {}
  /\ records = [f \in Files |-> NoRecord]
  /\ events = [f \in Files |-> <<>>]
  /\ issued = {}
  /\ acked = {}
  /\ calls = 0
  /\ pc = [c \in Clients |-> "idle"]
  /\ file = [c \in Clients |-> NoFile]
  /\ cancelled = [c \in Clients |-> FALSE]
  /\ stranded = {}
  /\ disowned = {}

Upload(c) ==
  \/ BeginUpload(c)
  \/ EnsureBucket(c)
  \/ MakeBucket(c)
  \/ PutObject(c)
  \/ StatObject(c)
  \/ InsertRecord(c)
  \/ Cleanup(c)
  \/ EmitUploaded(c)
Delete(c) ==
  \/ BeginDelete(c)
  \/ SoftDelete(c)
  \/ RemoveObject(c)
  \/ EmitDeleted(c)
Download(c) == BeginDownload(c) \/ ReadObject(c)
Status(c) == UpdateStatus(c) \/ EmitStatus(c)

Next ==
  \/ \E c \in Clients : Upload(c) \/ Delete(c) \/ Download(c) \/ Status(c) \/ Cancel(c)
  \/ Crash

Spec == Init /\ [][Next]_vars

----------------------------------------------------------------------------
(* Properties *)

\* The two stores, the events and the requests hold what their Go types and
\* columns allow, and a request that is under way is about a file.
TypeOK ==
  /\ bucket \in BOOLEAN
  /\ blobs \subseteq Files
  /\ records \in [Files -> FileRecord]
  /\ events \in [Files -> Seq(EventTypes)]
  /\ issued \subseteq Files
  /\ acked \subseteq Files
  /\ calls \in Nat
  /\ pc \in [Clients -> PCs]
  /\ file \in [Clients -> Files \cup {NoFile}]
  /\ cancelled \in [Clients -> BOOLEAN]
  /\ \A c \in Clients : pc[c] # "idle" => file[c] \in Files
  /\ stranded \subseteq Files
  /\ disowned \subseteq Files

\* A file whose upload was answered with 201 has its row for ever, and its
\* object until somebody deletes the file, whatever fails and whoever else
\* uploads, deletes or updates (store.go, Upload and Delete).
AckedFilesAreStored ==
  \A f \in acked : Recorded(f) /\ (~records[f].deleted => f \in blobs)

\* Deletes of one file that race end in one file.deleted event at most, and a
\* file with that event stays deleted, whatever status it is given later.
Deletions(f) == {i \in 1..Len(events[f]) : events[f][i] = "deleted"}
DeletedOnce ==
  \A f \in Files :
    /\ \A i, j \in Deletions(f) : i = j
    /\ Deletions(f) # {} => records[f].deleted

\* An object has a live row or a request that will record or remove it, unless a
\* request lost it: PutObject stored it and returned an error (nothing cleans
\* up after that), the best-effort Delete after a failed statement or a soft
\* delete was refused, the soft delete took effect without a reply, or the
\* process died in between.  These are the orphaned blobs, and there are no
\* others (store.go:62, "so that orphaned blobs do not accumulate").
NoOrphanBlobs ==
  \A f \in blobs : Live(f) \/ f \in stranded \/ \E c \in Clients : file[c] = f /\ HoldsObject(c)

\* The row that readers are shown can be downloaded: a row that is not deleted
\* has its object, unless the reply to its INSERT was lost, in which case the
\* upload removes the object of a row that exists.
LiveRecordsHaveObjects == \A f \in Files : Live(f) => f \in blobs \/ f \in disowned
=============================================================================
