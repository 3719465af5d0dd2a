-------------------------- MODULE TableSyncProofs --------------------------
(***************************************************************************)
(* Theorems about TableSync, for every set of keys, contents and workers   *)
(* and every value of the bounds and of Faults.                            *)
(***************************************************************************)
EXTENDS TableSync, FiniteSetTheorems, SequenceTheorems, TLAPS

----------------------------------------------------------------------------
(* The inductive invariants *)

\* w is between the INSERT of row k and the InsertChange that follows it.
LoggingInsert(w, k) == pc[w] = "log" /\ run[w].key = k /\ run[w].old = Nil

\* Why OneInsertPerKey holds: the INSERT of a row succeeds once, and the
\* worker it succeeded for is the only one that may log it.
InsertInv ==
  \A k \in Keys :
    /\ \A i, j \in Inserts(k) : i = j
    /\ Inserts(k) # {} => Ingested(k)
    /\ \A w \in Workers : LoggingInsert(w, k) =>
         /\ Ingested(k)
         /\ Inserts(k) = {}
         /\ \A v \in Workers : LoggingInsert(v, k) => v = w

\* Why no job is orphaned without a reason: the job of a worker is its own, and
\* past CompleteSyncJob or FailSyncJob it is over or could not be ended.
JobsInv ==
  /\ \A v, w \in Workers : pc[v] # "idle" /\ pc[w] # "idle" /\ run[v].job = run[w].job => v = w
  /\ \A w \in Workers :
       pc[w] \in {"stats", "snapshot", "srcerr"} =>
         jobs[run[w].job].status \in {"completed", "failed"} \/ run[w].job \in abandoned
  /\ NoOrphanJobs

\* Why a worker that is alone mirrors the source: no row is newer than its
\* version, the row it looked up is still the one stored, and every row it
\* has received so far is stored with this version.
Received(w, k) ==
  /\ run[w].snap[k] # Nil
  /\ k \notin run[w].pend
  /\ ~(pc[w] = "upsert" /\ run[w].key = k)
Versioned(w) == pc[w] \in {"open", "stream", "upsert", "log", "mark"} \/ Marked(w)
WorkerMirrors(w) ==
  /\ Versioned(w) => /\ run[w].ver <= clock
                     /\ \A k \in Keys : rows[k].seen <= run[w].ver
  /\ pc[w] = "upsert" => rows[run[w].key].val = run[w].old
  /\ pc[w] = "mark" => run[w].pend = {}
  /\ pc[w] \in {"stream", "upsert", "log", "mark"} =>
       \A k \in Keys : Received(w, k) =>
         rows[k].val = run[w].snap[k] /\ rows[k].seen = run[w].ver
  /\ Marked(w) => \A k \in Keys :
       IF run[w].snap[k] = Nil
       THEN Live(k) => rows[k].seen = run[w].ver
       ELSE rows[k].val = run[w].snap[k] /\ rows[k].seen = run[w].ver
MirrorInv ==
  /\ \A k \in Keys : rows[k].seen <= clock
  /\ \A w \in Workers : WorkerMirrors(w)

----------------------------------------------------------------------------
(* Lemmas about the operators of the model *)

\* Changing the status of a job leaves a list of jobs of the same length.
LEMMA SetStatusType ==
  ASSUME jobs \in Seq(Job), NEW j \in 1..Len(jobs),
         NEW st \in {"pending", "running", "completed", "failed"},
         SetStatus(j, st)
  PROVE  jobs' \in Seq(Job) /\ Len(jobs') = Len(jobs)
<1> DEFINE job == [jobs[j] EXCEPT !.status = st]
<1>1. jobs[j] \in Job
  OBVIOUS
<1>2. job \in Job
  BY <1>1 DEF Job
<1>3. jobs' = [jobs EXCEPT ![j] = job]
  BY DEF SetStatus
<1>4. QED
  BY <1>2, <1>3, ExceptSeq

\* A worker that returns from SyncTable is idle and holds nothing.
LEMMA ReturnType ==
  ASSUME WorkerTypeOK, NEW w \in Workers, Return(w)
  PROVE  /\ WorkerTypeOK'
         /\ pc' = [pc EXCEPT ![w] = "idle"]
         /\ \A v \in Workers \ {w} : run'[v] = run[v]
<1>1. NoRun \in Run
  BY DEF NoRun, Run, NoStats, Stats, JobId, Version
<1>2. QED
  BY <1>1 DEF WorkerTypeOK, Return, Goto, PCs

\* A row that is upserted is a row.
LEMMA UpsertedRowType ==
  ASSUME NEW cur \in Row, NEW old \in Vals \cup {Nil}, NEW new \in Vals, NEW ver \in Version
  PROVE  UpsertedRow(cur, old, new, ver) \in Row
  BY DEF UpsertedRow, Row

\* Counting a row leaves counters.
LEMMA CountRowType ==
  ASSUME NEW s \in Stats, NEW old, NEW new
  PROVE  CountRow(s, old, new) \in Stats
  BY DEF CountRow, Stats

----------------------------------------------------------------------------
(* Type correctness *)

\* TypeOK without the history variables.
StateOK == clock \in Nat /\ PlatformTypeOK /\ WorkerTypeOK /\ AtHandOK

LEMMA StateTypes == StateOK /\ [Next]_vars => StateOK'
<1> SUFFICES ASSUME StateOK, [Next]_vars PROVE StateOK'
  OBVIOUS
<1> USE DEF StateOK
<1>1. ASSUME NEW w \in Workers, BeginSync(w) PROVE StateOK'
  <2>1. PICK o \in Outcomes(w) :
          /\ jobs' = Append(jobs, [status |-> "pending", ver |-> 0, stats |-> NoStats])
          /\ IF o = "ok" THEN /\ Goto(w, "start")
                              /\ run' = [run EXCEPT ![w].job = NewJobId]
                         ELSE UNCHANGED <<pc, run>>
    BY <1>1 DEF BeginSync
  <2>2. jobs' \in Seq(Job) /\ Len(jobs') = Len(jobs) + 1
    BY <2>1 DEF PlatformTypeOK, Job, NoStats, Stats, Version
  <2>3. PlatformTypeOK'
    BY <1>1, <2>2 DEF BeginSync, PlatformTypeOK
  <2>4. WorkerTypeOK'
    <3>1. NewJobId \in JobId
      BY DEF NewJobId, JobId, PlatformTypeOK
    <3>2. run' \in [Workers -> Run]
      <4> DEFINE r == [run[w] EXCEPT !.job = NewJobId]
      <4>1. r \in Run
        BY <3>1 DEF WorkerTypeOK, Run
      <4>2. run' = run \/ run' = [run EXCEPT ![w] = r]
        BY <2>1
      <4> HIDE DEF r
      <4>3. QED
        BY <4>1, <4>2 DEF WorkerTypeOK
    <3>3. QED
      BY <1>1, <2>1, <3>2 DEF BeginSync, WorkerTypeOK, Goto, PCs
  <2>5. AtHandOK'
    BY <1>1, <2>1, <2>2 DEF AtHandOK, WorkerTypeOK, Goto, NewJobId, PlatformTypeOK, Run, JobId
  <2>6. QED
    BY <1>1, <2>3, <2>4, <2>5 DEF BeginSync
<1>2. ASSUME NEW w \in Workers, StartJob(w) PROVE StateOK'
  <2>1. jobs' \in Seq(Job) /\ Len(jobs') = Len(jobs)
    BY <1>2, SetStatusType DEF StartJob, AtHandOK, PlatformTypeOK
  <2>2. WorkerTypeOK'
    BY <1>2, ReturnType DEF StartJob, WorkerTypeOK, Goto, PCs
  <2>3. AtHandOK'
    BY <1>2, <2>1, ReturnType DEF StartJob, AtHandOK, WorkerTypeOK, Goto
  <2>4. QED
    BY <1>2, <2>1, <2>2, <2>3 DEF StartJob, PlatformTypeOK
<1>3. ASSUME NEW w \in Workers, TakeVersion(w) PROVE StateOK'
  <2>1. WorkerTypeOK'
    BY ZenonT(60), <1>3 DEF TakeVersion, WorkerTypeOK, Goto, PCs, Run, Version
  <2>2. AtHandOK'
    BY <1>3 DEF TakeVersion, AtHandOK, WorkerTypeOK, Goto, Run, platform
  <2>3. QED
    BY <1>3, <2>1, <2>2 DEF TakeVersion, platform, PlatformTypeOK
<1>4. ASSUME NEW w \in Workers, OpenStream(w) PROVE StateOK'
  <2>1. PICK snap \in [Keys -> Vals \cup {Nil}] :
          run' = [run EXCEPT ![w].snap = snap,
                             ![w].pend = {k \in Keys : snap[k] # Nil}]
    BY <1>4 DEF OpenStream
  <2> DEFINE pend == {k \in Keys : snap[k] # Nil}
             r == [run[w] EXCEPT !.snap = snap, !.pend = pend]
  <2>2. r \in Run /\ r.job = run[w].job /\ r.pend = pend /\ r.snap = snap
    <3>1. pend \in SUBSET Keys
      OBVIOUS
    <3> HIDE DEF pend
    <3>2. QED
      BY <3>1 DEF Run, WorkerTypeOK
  <2>3. run' = [run EXCEPT ![w] = r]
    BY <2>1
  <2> HIDE DEF r
  <2>4. WorkerTypeOK'
    BY <1>4, <2>2, <2>3 DEF OpenStream, WorkerTypeOK, Goto, PCs
  <2>5. AtHandOK'
    BY <1>4, <2>2, <2>3 DEF OpenStream, AtHandOK, WorkerTypeOK, Goto, platform
  <2>6. QED
    BY <1>4, <2>4, <2>5 DEF OpenStream, platform, PlatformTypeOK
<1>5. ASSUME NEW w \in Workers, ConnectError(w) PROVE StateOK'
  BY <1>5 DEF ConnectError, platform, PlatformTypeOK, WorkerTypeOK, AtHandOK, Goto, PCs
<1>6. ASSUME NEW w \in Workers, NextRow(w) PROVE StateOK'
  <2>1. PICK k \in run[w].pend, o \in Outcomes(w) :
          IF o = "ok"
          THEN /\ run' = [run EXCEPT ![w].pend = @ \ {k}, ![w].key = k,
                                     ![w].old = rows[k].val]
               /\ Goto(w, "upsert")
          ELSE /\ run' = [run EXCEPT ![w].pend = @ \ {k}]
               /\ Goto(w, "close")
    BY <1>6 DEF NextRow
  <2>2. k \in Keys /\ run[w].snap[k] # Nil /\ rows[k].val \in Vals \cup {Nil}
    BY <1>6 DEF NextRow, AtHandOK, WorkerTypeOK, PlatformTypeOK, Run, Row
  <2>3. CASE o = "ok"
    <3> DEFINE r == [run[w] EXCEPT !.pend = @ \ {k}, !.key = k, !.old = rows[k].val]
    <3>1. /\ r \in Run
          /\ r.job = run[w].job
          /\ r.snap = run[w].snap
          /\ r.pend = run[w].pend \ {k}
          /\ r.key = k
      BY <2>2 DEF Run, WorkerTypeOK
    <3>2. run' = [run EXCEPT ![w] = r] /\ Goto(w, "upsert")
      BY <2>1, <2>3
    <3> HIDE DEF r
    <3>3. WorkerTypeOK'
      BY <1>6, <3>1, <3>2 DEF NextRow, WorkerTypeOK, Goto, PCs
    <3>4. AtHandOK'
      BY <1>6, <2>2, <3>1, <3>2 DEF NextRow, AtHandOK, WorkerTypeOK, Goto, platform
    <3>5. QED
      BY <1>6, <3>3, <3>4 DEF NextRow, platform, PlatformTypeOK
  <2>4. CASE o # "ok"
    <3> DEFINE r == [run[w] EXCEPT !.pend = @ \ {k}]
    <3>1. r \in Run /\ r.job = run[w].job
      BY DEF Run, WorkerTypeOK
    <3>2. run' = [run EXCEPT ![w] = r] /\ Goto(w, "close")
      BY <2>1, <2>4
    <3> HIDE DEF r
    <3>3. WorkerTypeOK'
      BY <1>6, <3>1, <3>2 DEF NextRow, WorkerTypeOK, Goto, PCs
    <3>4. AtHandOK'
      BY <1>6, <3>1, <3>2 DEF NextRow, AtHandOK, WorkerTypeOK, Goto, platform
    <3>5. QED
      BY <1>6, <3>3, <3>4 DEF NextRow, platform, PlatformTypeOK
  <2>5. QED
    BY <2>3, <2>4
<1>7. ASSUME NEW w \in Workers, StreamError(w) PROVE StateOK'
  <2>1. WorkerTypeOK'
    BY ZenonT(60), <1>7 DEF StreamError, WorkerTypeOK, Goto, PCs, Run
  <2>2. AtHandOK'
    BY <1>7 DEF StreamError, AtHandOK, WorkerTypeOK, Goto, Run, platform
  <2>3. QED
    BY <1>7, <2>1, <2>2 DEF StreamError, platform, PlatformTypeOK
<1>8. ASSUME NEW w \in Workers, EndOfStream(w) PROVE StateOK'
  BY <1>8 DEF EndOfStream, platform, PlatformTypeOK, WorkerTypeOK, AtHandOK, Goto, PCs
<1>9. ASSUME NEW w \in Workers, Upsert(w) PROVE StateOK'
  <2> DEFINE k == run[w].key
  <2>1. /\ k \in Keys
        /\ run[w].snap[k] \in Vals
        /\ run[w].old \in Vals \cup {Nil}
        /\ run[w].ver \in Version
        /\ rows[k] \in Row
        /\ run[w].stats \in Stats
    BY <1>9 DEF Upsert, AtHandOK, WorkerTypeOK, PlatformTypeOK, Run
  <2> DEFINE row == UpsertedRow(rows[k], run[w].old, run[w].snap[k], run[w].ver)
  <2>2. PlatformTypeOK'
    <3>1. row \in Row
      BY <2>1, UpsertedRowType
    <3>2. rows' = rows \/ rows' = [rows EXCEPT ![k] = row]
      BY <1>9 DEF Upsert
    <3> HIDE DEF row, k
    <3>3. QED
      BY <1>9, <2>1, <3>1, <3>2 DEF Upsert, PlatformTypeOK
  <2>3. CountRow(run[w].stats, run[w].old, run[w].snap[k]) \in Stats
    BY <2>1, CountRowType
  <2>4. run' \in [Workers -> Run] /\ \A v \in Workers :
          /\ run'[v].job = run[v].job /\ run'[v].pend = run[v].pend
          /\ run'[v].key = run[v].key /\ run'[v].snap = run[v].snap
    <3> DEFINE s == CountRow(run[w].stats, run[w].old, run[w].snap[k])
               r == [run[w] EXCEPT !.stats = s]
    <3>1. run' = run \/ run' = [run EXCEPT ![w] = r]
      BY <1>9 DEF Upsert
    <3> HIDE DEF s
    <3>2. /\ r \in Run
          /\ r.job = run[w].job /\ r.pend = run[w].pend
          /\ r.key = run[w].key /\ r.snap = run[w].snap
      BY <2>3 DEF s, WorkerTypeOK, Run
    <3> HIDE DEF r
    <3>3. QED
      BY <3>1, <3>2 DEF WorkerTypeOK
  <2>5. WorkerTypeOK'
    BY <1>9, <2>4 DEF Upsert, WorkerTypeOK, Goto, PCs, AfterUpsert
  <2>6. AtHandOK'
    BY <1>9, <2>1, <2>4 DEF Upsert, AtHandOK, WorkerTypeOK, Goto, AfterUpsert
  <2>7. QED
    BY <1>9, <2>2, <2>5, <2>6 DEF Upsert
<1>10. ASSUME NEW w \in Workers, LogChange(w) PROVE StateOK'
  <2>1. RowChange(run[w]) \in Change
    BY <1>10 DEF LogChange, RowChange, Change, AtHandOK, WorkerTypeOK, Run
  <2>2. PlatformTypeOK'
    BY <1>10, <2>1 DEF LogChange, PlatformTypeOK, AtHandOK
  <2>3. WorkerTypeOK' /\ AtHandOK'
    BY <1>10 DEF LogChange, WorkerTypeOK, AtHandOK, Goto, PCs
  <2>4. QED
    BY <1>10, <2>2, <2>3 DEF LogChange
<1>11. ASSUME NEW w \in Workers, MarkDeleted(w) PROVE StateOK'
  <2> DEFINE stale == StaleKeys(run[w].ver)
  <2>1. stale \in SUBSET Keys /\ Cardinality(stale) \in Nat
    BY FS_Subset, FS_CardinalityType, ConstantsAssumption DEF StaleKeys
  <2>2. PlatformTypeOK'
    <3> DEFINE marked == [k \in Keys |-> IF k \in stale
                                        THEN [rows[k] EXCEPT !.deleted = TRUE]
                                        ELSE rows[k]]
    <3>1. rows' = rows \/ rows' = marked
      BY <1>11 DEF MarkDeleted
    <3>2. marked \in [Keys -> Row]
      <4> HIDE DEF stale
      <4>1. \A k \in Keys : [rows[k] EXCEPT !.deleted = TRUE] \in Row /\ rows[k] \in Row
        BY DEF PlatformTypeOK, Row
      <4>2. QED
        BY <4>1
    <3> HIDE DEF marked
    <3>3. QED
      BY <1>11, <3>1, <3>2 DEF MarkDeleted, PlatformTypeOK
  <2>3. PICK o \in Outcomes(w) :
          IF o = "ok"
          THEN /\ run' = [run EXCEPT ![w].dels = stale,
                                     ![w].stats = CountDeleted(@, stale)]
               /\ Goto(w, "deleted")
          ELSE Goto(w, "close") /\ UNCHANGED run
    BY <1>11 DEF MarkDeleted
  <2> HIDE DEF stale
  <2>4. run' \in [Workers -> Run] /\ \A v \in Workers :
          /\ run'[v].job = run[v].job /\ run'[v].pend = run[v].pend
          /\ run'[v].key = run[v].key /\ run'[v].snap = run[v].snap
    <3> DEFINE s == CountDeleted(run[w].stats, stale)
               r == [run[w] EXCEPT !.dels = stale, !.stats = s]
    <3>1. s \in Stats
      <4> DEFINE n == Cardinality(stale)
      <4> HIDE DEF n
      <4>1. s = [run[w].stats EXCEPT !.del = n]
        BY DEF n, CountDeleted
      <4>2. QED
        BY <2>1, <4>1 DEF n, WorkerTypeOK, Run, Stats
    <3>2. run' = run \/ run' = [run EXCEPT ![w] = r]
      BY <2>3
    <3> HIDE DEF s
    <3>3. /\ r \in Run
          /\ r.job = run[w].job /\ r.pend = run[w].pend
          /\ r.key = run[w].key /\ r.snap = run[w].snap
      BY <2>1, <3>1 DEF WorkerTypeOK, Run
    <3> HIDE DEF r
    <3>4. QED
      BY <3>2, <3>3 DEF WorkerTypeOK
  <2>5. WorkerTypeOK'
    BY <1>11, <2>3, <2>4 DEF MarkDeleted, WorkerTypeOK, Goto, PCs
  <2>6. AtHandOK'
    BY <1>11, <2>3, <2>4 DEF MarkDeleted, AtHandOK, WorkerTypeOK, Goto
  <2>7. QED
    BY <1>11, <2>2, <2>5, <2>6 DEF MarkDeleted
<1>12. ASSUME NEW w \in Workers, ReadDeleted(w) PROVE StateOK'
  <2>1. PICK k \in run[w].dels, o \in Outcomes(w) :
          run' = [run EXCEPT ![w].dels = @ \ {k}, ![w].key = k,
                             ![w].old = IF o = "ok" THEN rows[k].val ELSE Nil]
    BY <1>12 DEF ReadDeleted
  <2>2. k \in Keys /\ rows[k].val \in Vals \cup {Nil}
    BY DEF WorkerTypeOK, PlatformTypeOK, Run, Row
  <2> DEFINE old == IF o = "ok" THEN rows[k].val ELSE Nil
             r == [run[w] EXCEPT !.dels = @ \ {k}, !.key = k, !.old = old]
  <2>6. run' = [run EXCEPT ![w] = r]
    BY <2>1
  <2>7. /\ r \in Run
        /\ r.job = run[w].job /\ r.key = k
    <3>1. old \in Vals \cup {Nil}
      BY <2>2
    <3> HIDE DEF old
    <3>2. QED
      BY <2>2, <3>1 DEF WorkerTypeOK, Run
  <2> HIDE DEF r
  <2>3. WorkerTypeOK'
    BY <1>12, <2>6, <2>7 DEF ReadDeleted, WorkerTypeOK, Goto, PCs
  <2>4. AtHandOK'
    BY ZenonT(60), <1>12, <2>2, <2>6, <2>7 DEF ReadDeleted, AtHandOK, WorkerTypeOK, Goto, platform
  <2>5. QED
    BY <1>12, <2>3, <2>4 DEF ReadDeleted, platform, PlatformTypeOK
<1>13. ASSUME NEW w \in Workers, LogDelete(w) PROVE StateOK'
  <2>1. DeleteChange(run[w]) \in Change
    BY <1>13 DEF LogDelete, DeleteChange, Change, WorkerTypeOK, Run
  <2>2. PlatformTypeOK'
    BY <1>13, <2>1 DEF LogDelete, PlatformTypeOK, AtHandOK
  <2>3. WorkerTypeOK' /\ AtHandOK'
    BY <1>13 DEF LogDelete, WorkerTypeOK, AtHandOK, Goto, PCs
  <2>4. QED
    BY <1>13, <2>2, <2>3 DEF LogDelete
<1>14. ASSUME NEW w \in Workers, CompleteJob(w) PROVE StateOK'
  <2> DEFINE job == [status |-> "completed", ver |-> run[w].ver, stats |-> run[w].stats]
  <2>1. job \in Job /\ run[w].job \in 1..Len(jobs)
    BY <1>14 DEF CompleteJob, Job, WorkerTypeOK, AtHandOK, Run
  <2>2. jobs' = jobs \/ jobs' = [jobs EXCEPT ![run[w].job] = job]
    BY <1>14 DEF CompleteJob
  <2> HIDE DEF job
  <2>3. jobs' \in Seq(Job) /\ Len(jobs') = Len(jobs)
    BY SMTT(60), <2>1, <2>2, ExceptSeq DEF PlatformTypeOK
  <2>4. QED
    BY <1>14, <2>3 DEF CompleteJob, PlatformTypeOK, WorkerTypeOK, AtHandOK, Goto, PCs
<1>15. ASSUME NEW w \in Workers, UpdateTableSyncStats(w) PROVE StateOK'
  <2>1. TableStats(run[w]) \in [lastVer : Version, count : Nat]
    BY DEF TableStats, RowsScanned, WorkerTypeOK, Run, Stats
  <2>2. PlatformTypeOK'
    BY <1>15, <2>1 DEF UpdateTableSyncStats, PlatformTypeOK
  <2>3. WorkerTypeOK' /\ AtHandOK'
    BY <1>15 DEF UpdateTableSyncStats, WorkerTypeOK, AtHandOK, Goto, PCs
  <2>4. QED
    BY <1>15, <2>2, <2>3 DEF UpdateTableSyncStats
<1>16. ASSUME NEW w \in Workers, CreateSnapshot(w) PROVE StateOK'
  <2>1. PlatformTypeOK'
    BY <1>16 DEF CreateSnapshot, AddSnapshot, PlatformTypeOK, WorkerTypeOK, Run, Snapshot
  <2>2. WorkerTypeOK' /\ AtHandOK'
    BY <1>16, ReturnType DEF CreateSnapshot, AtHandOK, WorkerTypeOK
  <2>3. QED
    BY <1>16, <2>1, <2>2 DEF CreateSnapshot
<1>17. ASSUME NEW w \in Workers, CloseConn(w) PROVE StateOK'
  BY <1>17 DEF CloseConn, platform, PlatformTypeOK, WorkerTypeOK, AtHandOK, Goto, PCs
<1>18. ASSUME NEW w \in Workers, FailJob(w) PROVE StateOK'
  <2>1. jobs' \in Seq(Job) /\ Len(jobs') = Len(jobs)
    BY <1>18, SetStatusType DEF FailJob, AtHandOK, PlatformTypeOK
  <2>2. WorkerTypeOK' /\ AtHandOK'
    BY <1>18, <2>1 DEF FailJob, WorkerTypeOK, AtHandOK, Goto, PCs
  <2>3. QED
    BY <1>18, <2>1, <2>2 DEF FailJob, PlatformTypeOK
<1>19. ASSUME NEW w \in Workers, MarkSourceError(w) PROVE StateOK'
  <2>1. WorkerTypeOK' /\ AtHandOK'
    BY <1>19, ReturnType DEF MarkSourceError, AtHandOK, WorkerTypeOK
  <2>2. QED
    BY <1>19, <2>1 DEF MarkSourceError, PlatformTypeOK
<1>20. ASSUME NEW w \in Workers, Cancel(w) PROVE StateOK'
  BY <1>20 DEF Cancel, platform, PlatformTypeOK, WorkerTypeOK, AtHandOK
<1>21. CASE Crash
  <2>1. NoRun \in Run
    BY DEF NoRun, Run, NoStats, Stats, JobId, Version
  <2>2. QED
    BY <1>21, <2>1 DEF Crash, platform, PlatformTypeOK, WorkerTypeOK, AtHandOK, PCs
<1>22. CASE Tick
  BY <1>22 DEF Tick, platform, PlatformTypeOK, WorkerTypeOK, AtHandOK
<1>23. CASE UNCHANGED vars
  BY <1>23 DEF vars, platform, PlatformTypeOK, WorkerTypeOK, AtHandOK
<1>24. ASSUME NEW w \in Workers, ProducerFails(w) PROVE StateOK'
  <2> DEFINE r == [run[w] EXCEPT !.pend = {}]
  <2>1. r \in Run /\ r.job = run[w].job
    BY DEF WorkerTypeOK, Run
  <2>2. run' = [run EXCEPT ![w] = r]
    BY <1>24 DEF ProducerFails
  <2> HIDE DEF r
  <2>3. UNCHANGED <<clock, platform, pc, cancelled>> /\ pc[w] = "close"
    BY <1>24 DEF ProducerFails
  <2>4. WorkerTypeOK'
    BY <2>1, <2>2, <2>3 DEF WorkerTypeOK
  <2>5. \A v \in Workers : run'[v].job = run[v].job
    BY <2>1, <2>2 DEF WorkerTypeOK
  <2>6. \A v \in Workers : pc[v] # "close" => run'[v] = run[v]
    BY <2>2, <2>3 DEF WorkerTypeOK
  <2>7. AtHandOK'
    BY <2>3, <2>5, <2>6 DEF AtHandOK, platform
  <2>8. QED
    BY <1>24, <2>4, <2>7 DEF ProducerFails, platform, PlatformTypeOK
<1>25. QED
  BY <1>1, <1>2, <1>3, <1>4, <1>5, <1>6, <1>7, <1>8, <1>9, <1>10, <1>11, <1>12,
     <1>13, <1>14, <1>15, <1>16, <1>17, <1>18, <1>19, <1>20, <1>21, <1>22, <1>23,
     <1>24 DEF Next, Step

\* What a worker owes to the log are keys.
LEMMA OwedType ==
  ASSUME StateOK, NEW w \in Workers
  PROVE  Owed(w) \subseteq Keys
<1>1. run[w].dels \subseteq Keys
  BY DEF StateOK, WorkerTypeOK, Run
<1>2. QED
  BY <1>1 DEF Owed, StateOK, AtHandOK

\* The list of jobs never gets shorter.
LEMMA JobsGrow ==
  ASSUME StateOK, [Next]_vars
  PROVE  Len(jobs) \in Nat /\ Len(jobs') \in Nat /\ Len(jobs) <= Len(jobs')
<1>1. jobs \in Seq(Job) /\ jobs' \in Seq(Job)
  BY StateTypes DEF StateOK, PlatformTypeOK
<1>2. ASSUME NEW w \in Workers, BeginSync(w) PROVE Len(jobs') = Len(jobs) + 1
  BY <1>1, <1>2 DEF BeginSync
<1>3. ASSUME NEW j, NEW r, jobs' = [jobs EXCEPT ![j] = r] PROVE Len(jobs') = Len(jobs)
  BY <1>1, <1>3
<1>4. ASSUME NEW w \in Workers, StartJob(w) \/ FailJob(w) \/ CompleteJob(w) PROVE Len(jobs') = Len(jobs)
  BY <1>4, <1>3 DEF StartJob, FailJob, CompleteJob, SetStatus
<1>5. \/ jobs' = jobs
      \/ \E w \in Workers : BeginSync(w) \/ StartJob(w) \/ FailJob(w) \/ CompleteJob(w)
  BY ZenonT(60) DEF Next, Step, TakeVersion, OpenStream, ConnectError, NextRow, StreamError, EndOfStream,
     ProducerFails, Upsert, LogChange, MarkDeleted, ReadDeleted, LogDelete, UpdateTableSyncStats,
     CreateSnapshot, CloseConn, MarkSourceError, Cancel, Crash, Tick, platform, vars
<1>6. QED
  BY <1>1, <1>2, <1>4, <1>5

LEMMA HistoryTypes ==
  ASSUME StateOK, HistoryOK, [Next]_vars
  PROVE  HistoryOK'
<1>1. Len(jobs) \in Nat /\ Len(jobs') \in Nat /\ Len(jobs) <= Len(jobs')
  BY JobsGrow
<1>2. unlogged' \subseteq Keys
  <2>1. ASSUME NEW w \in Workers, Upsert(w) \/ LogChange(w) \/ LogDelete(w)
        PROVE  unlogged' \subseteq unlogged \cup {run[w].key} /\ run[w].key \in Keys
    BY <2>1 DEF Upsert, LogChange, LogDelete, Unlogs, StateOK, AtHandOK
  <2>2. ASSUME NEW w \in Workers, MarkDeleted(w) PROVE unlogged' \subseteq unlogged \cup Keys
    BY <2>2 DEF MarkDeleted, Unlogs, StaleKeys
  <2>3. ASSUME NEW w \in Workers, ReadDeleted(w) PROVE unlogged' \subseteq unlogged \cup Keys
    <3>1. run[w].dels \subseteq Keys
      BY DEF StateOK, WorkerTypeOK, Run
    <3>2. QED
      BY <2>3, <3>1 DEF ReadDeleted, Unlogs
  <2>4. CASE Crash
    BY <2>4, OwedType DEF Crash, HistoryOK
  <2>5. \/ unlogged' = unlogged
        \/ Crash
        \/ \E w \in Workers : Upsert(w) \/ LogChange(w) \/ LogDelete(w) \/ MarkDeleted(w) \/ ReadDeleted(w)
    BY DEF Next, Step, BeginSync, StartJob, TakeVersion, OpenStream, ConnectError, NextRow, StreamError,
       EndOfStream, ProducerFails, CompleteJob, UpdateTableSyncStats, CreateSnapshot, CloseConn, FailJob,
       MarkSourceError, Cancel, Tick, history, vars
  <2>6. QED
    BY <2>1, <2>2, <2>3, <2>4, <2>5 DEF HistoryOK
<1>3. abandoned' \subseteq 1..Len(jobs')
  <2>1. ASSUME NEW w \in Workers, BeginSync(w) PROVE abandoned' \subseteq abandoned \cup {Len(jobs')}
    BY <2>1 DEF BeginSync, Abandons, NewJobId, StateOK, PlatformTypeOK
  <2>2. ASSUME NEW w \in Workers, StartJob(w) \/ CompleteJob(w) \/ FailJob(w)
        PROVE  abandoned' \subseteq abandoned \cup {run[w].job} /\ run[w].job \in 1..Len(jobs)
    BY <2>2 DEF StartJob, CompleteJob, FailJob, Abandons, StateOK, AtHandOK
  <2>3. CASE Crash
    BY <1>1, <2>3 DEF Crash, HistoryOK, StateOK, AtHandOK, platform
  <2>4. ASSUME NEW w \in Workers, BeginSync(w) PROVE Len(jobs') > 0
    BY <2>4 DEF BeginSync, StateOK, PlatformTypeOK
  <2>5. \/ abandoned' = abandoned
        \/ Crash
        \/ \E w \in Workers : BeginSync(w) \/ StartJob(w) \/ CompleteJob(w) \/ FailJob(w)
    BY ZenonT(60) DEF Next, Step, TakeVersion, OpenStream, ConnectError, NextRow, StreamError, EndOfStream,
       ProducerFails, Upsert, LogChange, MarkDeleted, ReadDeleted, LogDelete, UpdateTableSyncStats,
       CreateSnapshot, CloseConn, MarkSourceError, Cancel, Tick, history, vars
  <2>6. abandoned \subseteq 1..Len(jobs') /\ 1..Len(jobs) \subseteq 1..Len(jobs')
    BY <1>1 DEF HistoryOK
  <2>7. ASSUME NEW w \in Workers, BeginSync(w) PROVE Len(jobs') \in 1..Len(jobs')
    BY <1>1, <2>4, <2>7
  <2>8. QED
    BY <2>1, <2>2, <2>3, <2>5, <2>6, <2>7
<1>4. QED
  BY <1>2, <1>3 DEF HistoryOK

\* Every reachable state is well typed.
THEOREM TypeCorrect == Spec => []TypeOK
<1>1. Init => TypeOK
  <2> SUFFICES ASSUME Init PROVE TypeOK
    OBVIOUS
  <2>1. PlatformTypeOK
    BY DEF Init, PlatformTypeOK, Row, NoRow, Version
  <2>2. WorkerTypeOK
    BY DEF Init, WorkerTypeOK, NoRun, Run, NoStats, Stats, JobId, Version, PCs
  <2>3. QED
    BY <2>1, <2>2 DEF Init, TypeOK, AtHandOK, HistoryOK
<1>2. TypeOK /\ [Next]_vars => TypeOK'
  BY StateTypes, HistoryTypes DEF TypeOK, StateOK
<1>3. QED
  BY <1>1, <1>2, PTL DEF Spec

----------------------------------------------------------------------------
(* At most one INSERT per key, however many syncs overlap *)

\* A step that changes no INSERT of the log, removes no row and brings no
\* worker between the two statements of an insert keeps the invariant.
LEMMA InsertFrame ==
  ASSUME InsertInv,
         \A k \in Keys : Inserts(k)' = Inserts(k),
         \A k \in Keys : Ingested(k) => Ingested(k)',
         \A w \in Workers, k \in Keys : LoggingInsert(w, k)' => LoggingInsert(w, k)
  PROVE  InsertInv'
  BY DEF InsertInv

\* Appending a change of another kind leaves the INSERTs of the log.
LEMMA AppendOther ==
  ASSUME changes \in [Keys -> Seq(Change)], NEW c \in Change, c.op # "INSERT",
         NEW j \in Keys, changes' = [changes EXCEPT ![j] = Append(@, c)],
         NEW k \in Keys
  PROVE  Inserts(k)' = Inserts(k)
<1>1. CASE k = j
  <2>1. /\ changes'[k] = Append(changes[k], c)
        /\ changes[k] \in Seq(Change)
    BY <1>1
  <2>2. /\ Len(changes'[k]) = Len(changes[k]) + 1
        /\ changes'[k][Len(changes[k]) + 1] = c
        /\ \A i \in 1..Len(changes[k]) : changes'[k][i] = changes[k][i]
        /\ Len(changes[k]) \in Nat
    BY <2>1
  <2>3. QED
    BY <2>2 DEF Inserts
<1>2. CASE k # j
  BY <1>2 DEF Inserts
<1>3. QED
  BY <1>1, <1>2

\* Appending an INSERT adds one.
LEMMA AppendInsert ==
  ASSUME changes \in [Keys -> Seq(Change)], NEW c \in Change,
         NEW k \in Keys, changes' = [changes EXCEPT ![k] = Append(@, c)],
         Inserts(k) = {}
  PROVE  \A i, j \in Inserts(k)' : i = j
<1>1. /\ changes'[k] = Append(changes[k], c)
      /\ changes[k] \in Seq(Change)
  OBVIOUS
<1>2. /\ Len(changes'[k]) = Len(changes[k]) + 1
      /\ \A i \in 1..Len(changes[k]) : changes'[k][i] = changes[k][i]
      /\ Len(changes[k]) \in Nat
  BY <1>1
<1>3. \A i \in Inserts(k)' : i = Len(changes[k]) + 1
  BY <1>2 DEF Inserts
<1>4. QED
  BY <1>3

\* However many workers are on the table and whatever fails, the log holds at
\* most one INSERT for a key, and a key that has one is stored.
THEOREM OneInsert == Spec => []OneInsertPerKey
<1>1. Init => InsertInv
  BY DEF Init, InsertInv, Inserts, LoggingInsert
<1>2. TypeOK /\ InsertInv /\ [Next]_vars => InsertInv'
  <2> SUFFICES ASSUME TypeOK, InsertInv, [Next]_vars PROVE InsertInv'
    OBVIOUS
  <2> USE DEF TypeOK
  \* Steps that write neither rows nor changes.
  <2>1. ASSUME UNCHANGED <<rows, changes>>,
               \A w \in Workers, k \in Keys : LoggingInsert(w, k)' => LoggingInsert(w, k)
        PROVE  InsertInv'
    BY <2>1, InsertFrame DEF Inserts, Ingested
  <2>2. ASSUME NEW w \in Workers, BeginSync(w) PROVE InsertInv'
    <3>1. \A v \in Workers : pc'[v] = "log" => pc[v] = "log" /\ run'[v] = run[v]
      BY <2>2 DEF BeginSync, Goto, WorkerTypeOK
    <3>2. QED
      BY <2>1, <2>2, <3>1 DEF BeginSync, LoggingInsert
  <2>3. ASSUME NEW w \in Workers, StartJob(w) PROVE InsertInv'
    <3>1. \A v \in Workers : pc'[v] = "log" => pc[v] = "log" /\ run'[v] = run[v]
      BY <2>3 DEF StartJob, Goto, Return, WorkerTypeOK
    <3>2. QED
      BY <2>1, <2>3, <3>1 DEF StartJob, LoggingInsert
  <2>4. ASSUME NEW w \in Workers, TakeVersion(w) PROVE InsertInv'
    BY <2>1, <2>4 DEF TakeVersion, Goto, WorkerTypeOK, LoggingInsert, platform
  <2>5. ASSUME NEW w \in Workers, OpenStream(w) PROVE InsertInv'
    <3>1. \A v \in Workers : pc'[v] = "log" => pc[v] = "log" /\ run'[v] = run[v]
      BY <2>5 DEF OpenStream, Goto, WorkerTypeOK
    <3>2. QED
      BY <2>1, <2>5, <3>1 DEF OpenStream, LoggingInsert, platform
  <2>6. ASSUME NEW w \in Workers, ConnectError(w) PROVE InsertInv'
    BY <2>1, <2>6 DEF ConnectError, Goto, WorkerTypeOK, LoggingInsert, platform
  <2>7. ASSUME NEW w \in Workers, NextRow(w) PROVE InsertInv'
    <3>1. \A v \in Workers : pc'[v] = "log" => pc[v] = "log" /\ run'[v] = run[v]
      BY <2>7 DEF NextRow, Goto, WorkerTypeOK
    <3>2. QED
      BY <2>1, <2>7, <3>1 DEF NextRow, LoggingInsert, platform
  <2>8. ASSUME NEW w \in Workers, StreamError(w) PROVE InsertInv'
    BY <2>1, <2>8 DEF StreamError, Goto, WorkerTypeOK, LoggingInsert, platform
  <2>9. ASSUME NEW w \in Workers, EndOfStream(w) PROVE InsertInv'
    BY <2>1, <2>9 DEF EndOfStream, Goto, WorkerTypeOK, LoggingInsert, platform
  <2>10. ASSUME NEW w \in Workers, Upsert(w) PROVE InsertInv'
    <3>8. PICK k \in Keys : k = run[w].key
      BY <2>10 DEF Upsert, AtHandOK
    <3> DEFINE old == run[w].old
               new == run[w].snap[k]
               row == UpsertedRow(rows[k], old, new, run[w].ver)
    <3>1. /\ new # Nil
          /\ rows \in [Keys -> Row]
      BY <2>10, <3>8 DEF Upsert, AtHandOK, PlatformTypeOK
    <3>2. changes' = changes
      BY <2>10 DEF Upsert
    <3>3. \A v \in Workers : v # w /\ pc'[v] = "log" => pc[v] = "log" /\ run'[v] = run[v]
      BY <2>10 DEF Upsert, Goto, WorkerTypeOK
    <3>4. /\ run'[w].key = k
          /\ run'[w].old = old
      BY <2>10, <3>8 DEF Upsert, WorkerTypeOK, Run
    <3>5. CASE pc'[w] = "log"
      <4>1. /\ rows' = [rows EXCEPT ![k] = row]
            /\ ~UniqueViolation(old, rows[k])
            /\ old # new
        BY <2>10, <3>5, <3>8 DEF Upsert, Goto, WorkerTypeOK, Applied, AfterUpsert
      <4>2. rows'[k].val = new
        BY <3>1, <4>1 DEF UpsertedRow
      <4>3. \A j \in Keys : Ingested(j) => Ingested(j)'
        BY <3>1, <4>1, <4>2 DEF Ingested
      <4>4. CASE old = Nil
        <5>1. ~Ingested(k)
          BY <4>1, <4>4 DEF UniqueViolation, Ingested
        <5>2. /\ Inserts(k) = {}
              /\ \A v \in Workers : ~LoggingInsert(v, k)
          BY <3>1, <5>1 DEF InsertInv
        <5>3. \A j \in Keys : Inserts(j)' = Inserts(j)
          BY <3>2 DEF Inserts
        <5>4. /\ \A v \in Workers, j \in Keys :
                   LoggingInsert(v, j)' => LoggingInsert(v, j) \/ (v = w /\ j = k)
              /\ Ingested(k)'
          BY <3>1, <3>3, <3>4, <4>2 DEF LoggingInsert, Ingested
        <5>5. QED
          BY <3>1, <4>3, <5>2, <5>3, <5>4 DEF InsertInv
      <4>5. CASE old # Nil
        <5>1. \A v \in Workers, j \in Keys : LoggingInsert(v, j)' => LoggingInsert(v, j)
          BY <3>3, <3>4, <4>5 DEF LoggingInsert
        <5>2. QED
          BY <3>2, <4>3, <5>1, InsertFrame DEF Inserts
      <4>6. QED
        BY <4>4, <4>5
    <3>6. CASE pc'[w] # "log"
      <4>1. rows' = rows \/ (rows' = [rows EXCEPT ![k] = row])
        BY <2>10, <3>8 DEF Upsert
      <4>2. row.val # Nil \/ row.val = rows[k].val
        BY <3>1 DEF UpsertedRow, Row
      <4>3. \A j \in Keys : Ingested(j) => Ingested(j)'
        BY <3>1, <4>1, <4>2 DEF Ingested
      <4>4. \A v \in Workers, j \in Keys : LoggingInsert(v, j)' => LoggingInsert(v, j)
        BY <3>3, <3>6 DEF LoggingInsert
      <4>5. QED
        BY <3>2, <4>3, <4>4, InsertFrame DEF Inserts
    <3>7. QED
      BY <3>5, <3>6
  <2>11. ASSUME NEW w \in Workers, LogChange(w) PROVE InsertInv'
    <3>7. PICK k \in Keys : k = run[w].key
      BY <2>11 DEF LogChange, AtHandOK
    <3> DEFINE c == RowChange(run[w])
    <3>1. /\ c \in Change
          /\ changes \in [Keys -> Seq(Change)]
          /\ pc[w] = "log"
      BY <2>11 DEF LogChange, RowChange, Change, AtHandOK, WorkerTypeOK, PlatformTypeOK, Run
    <3>2. changes' = changes \/ changes' = [changes EXCEPT ![k] = Append(@, c)]
      BY <2>11, <3>7 DEF LogChange
    <3>3. /\ \A j \in Keys : Ingested(j)' <=> Ingested(j)
          /\ \A v \in Workers, j \in Keys :
               LoggingInsert(v, j)' => LoggingInsert(v, j) /\ v # w
      BY <2>11 DEF LogChange, Goto, WorkerTypeOK, Ingested, LoggingInsert
    <3>4. CASE c.op # "INSERT" \/ changes' = changes
      <4>1. \A j \in Keys : Inserts(j)' = Inserts(j)
        <5> HIDE DEF c
        <5>1. CASE changes' = changes
          BY <5>1 DEF Inserts
        <5>2. CASE changes' # changes
          BY <3>1, <3>2, <3>4, <5>2, AppendOther
        <5>3. QED
          BY <5>1, <5>2
      <4>2. QED
        BY <3>3, <4>1, InsertFrame
    <3>5. CASE c.op = "INSERT" /\ changes' # changes
      <4>1. LoggingInsert(w, k)
        BY <3>1, <3>5, <3>7 DEF RowChange, LoggingInsert
      <4>2. /\ Ingested(k)
            /\ Inserts(k) = {}
            /\ \A v \in Workers : LoggingInsert(v, k) => v = w
        BY <3>1, <4>1 DEF InsertInv
      <4> HIDE DEF c
      <4>3. \A i, j \in Inserts(k)' : i = j
        BY <3>1, <3>2, <3>5, <4>2, AppendInsert
      <4>4. \A j \in Keys \ {k} : Inserts(j)' = Inserts(j)
        BY <3>1, <3>2 DEF Inserts
      <4>5. QED
        BY <3>1, <3>3, <4>2, <4>3, <4>4 DEF InsertInv
    <3>6. QED
      BY <3>4, <3>5
  <2>12. ASSUME NEW w \in Workers, MarkDeleted(w) PROVE InsertInv'
    <3>1. \A k \in Keys : rows'[k].val = rows[k].val
      BY <2>12 DEF MarkDeleted, PlatformTypeOK, Row
    <3>2. changes' = changes
      BY <2>12 DEF MarkDeleted
    <3>3. \A v \in Workers : pc'[v] = "log" => pc[v] = "log" /\ run'[v] = run[v]
      BY <2>12 DEF MarkDeleted, Goto, WorkerTypeOK
    <3>4. QED
      BY <3>1, <3>2, <3>3, InsertFrame DEF Inserts, Ingested, LoggingInsert
  <2>13. ASSUME NEW w \in Workers, ReadDeleted(w) PROVE InsertInv'
    <3>1. \A v \in Workers : pc'[v] = "log" => pc[v] = "log" /\ run'[v] = run[v]
      BY <2>13 DEF ReadDeleted, Goto, WorkerTypeOK
    <3>2. QED
      BY <2>1, <2>13, <3>1 DEF ReadDeleted, LoggingInsert, platform
  <2>14. ASSUME NEW w \in Workers, LogDelete(w) PROVE InsertInv'
    <3>5. PICK k \in Keys : k = run[w].key
      BY <2>14 DEF LogDelete, AtHandOK
    <3> DEFINE c == DeleteChange(run[w])
    <3>1. /\ c \in Change
          /\ c.op # "INSERT"
          /\ changes \in [Keys -> Seq(Change)]
      BY <2>14 DEF LogDelete, DeleteChange, Change, AtHandOK, WorkerTypeOK, PlatformTypeOK, Run
    <3>2. changes' = changes \/ changes' = [changes EXCEPT ![k] = Append(@, c)]
      BY <2>14, <3>5 DEF LogDelete
    <3>3. \A j \in Keys : Inserts(j)' = Inserts(j)
      <4> HIDE DEF c
      <4>1. CASE changes' = changes
        BY <4>1 DEF Inserts
      <4>2. CASE changes' # changes
        BY <3>1, <3>2, <4>2, AppendOther
      <4>3. QED
        BY <4>1, <4>2
    <3>4. QED
      BY <2>14, <3>3, InsertFrame DEF LogDelete, Goto, WorkerTypeOK, Ingested, LoggingInsert
  <2>15. ASSUME NEW w \in Workers, CompleteJob(w) PROVE InsertInv'
    BY <2>1, <2>15 DEF CompleteJob, Goto, WorkerTypeOK, LoggingInsert
  <2>16. ASSUME NEW w \in Workers, UpdateTableSyncStats(w) PROVE InsertInv'
    BY <2>1, <2>16 DEF UpdateTableSyncStats, Goto, WorkerTypeOK, LoggingInsert
  <2>17. ASSUME NEW w \in Workers, CreateSnapshot(w) PROVE InsertInv'
    BY <2>1, <2>17, ReturnType DEF CreateSnapshot, WorkerTypeOK, LoggingInsert
  <2>18. ASSUME NEW w \in Workers, CloseConn(w) PROVE InsertInv'
    BY <2>1, <2>18 DEF CloseConn, Goto, WorkerTypeOK, LoggingInsert, platform
  <2>19. ASSUME NEW w \in Workers, FailJob(w) PROVE InsertInv'
    BY <2>1, <2>19 DEF FailJob, Goto, WorkerTypeOK, LoggingInsert
  <2>20. ASSUME NEW w \in Workers, MarkSourceError(w) PROVE InsertInv'
    BY <2>1, <2>20, ReturnType DEF MarkSourceError, WorkerTypeOK, LoggingInsert
  <2>21. ASSUME NEW w \in Workers, Cancel(w) PROVE InsertInv'
    BY <2>1, <2>21 DEF Cancel, LoggingInsert, platform
  <2>22. CASE Crash
    BY <2>1, <2>22 DEF Crash, LoggingInsert, platform
  <2>23. CASE Tick
    BY <2>1, <2>23 DEF Tick, LoggingInsert, platform
  <2>24. CASE UNCHANGED vars
    BY <2>1, <2>24 DEF vars, LoggingInsert, platform
  <2>25. ASSUME NEW w \in Workers, ProducerFails(w) PROVE InsertInv'
    BY <2>1, <2>25 DEF ProducerFails, WorkerTypeOK, LoggingInsert, platform
  <2>26. QED
    BY <2>2, <2>3, <2>4, <2>5, <2>6, <2>7, <2>8, <2>9, <2>10, <2>11, <2>12, <2>13,
       <2>14, <2>15, <2>16, <2>17, <2>18, <2>19, <2>20, <2>21, <2>22, <2>23, <2>24,
       <2>25 DEF Next, Step
<1>3. InsertInv => OneInsertPerKey
  BY DEF InsertInv, OneInsertPerKey
<1>4. QED
  BY <1>1, <1>2, <1>3, TypeCorrect, PTL DEF Spec

----------------------------------------------------------------------------
(* A worker that is alone on the table mirrors its source snapshot *)

SoleWorker == \A v, w \in Workers : v = w

\* Where a worker has no version yet or no longer uses it.
Unversioned == {"idle", "start", "version", "close", "fail", "srcerr"}

\* A step into such a place that leaves rows and clock keeps the invariant.
LEMMA MirrorLeave ==
  ASSUME MirrorInv, UNCHANGED <<clock, rows>>,
         \A w \in Workers : pc'[w] \in Unversioned
  PROVE  MirrorInv'
  BY DEF MirrorInv, WorkerMirrors, Versioned, Marked, Unversioned

\* So does a step of a worker that has marked the stale rows and keeps its
\* snapshot and version.
LEMMA MirrorStay ==
  ASSUME MirrorInv, UNCHANGED <<clock, rows>>,
         \A w \in Workers : /\ Marked(w) /\ Marked(w)'
                            /\ run'[w].snap = run[w].snap
                            /\ run'[w].ver = run[w].ver
  PROVE  MirrorInv'
  BY DEF MirrorInv, WorkerMirrors, Versioned, Marked, Live, Ingested

\* The stale rows of a worker that is alone are rows its snapshot does not
\* hold.
LEMMA StaleAreAbsent ==
  ASSUME TypeOK, MirrorInv, NEW w \in Workers, pc[w] = "mark",
         NEW k \in Keys, k \in StaleKeys(run[w].ver)
  PROVE  run[w].snap[k] = Nil
<1>1. rows[k].seen < run[w].ver /\ rows[k].seen \in Nat /\ run[w].ver \in Nat
  BY DEF StaleKeys, TypeOK, PlatformTypeOK, WorkerTypeOK, Row, Run, Version
<1>2. SUFFICES ASSUME run[w].snap[k] # Nil PROVE FALSE
  OBVIOUS
<1>3. Received(w, k)
  BY <1>2 DEF Received, MirrorInv, WorkerMirrors
<1>4. QED
  BY <1>1, <1>3 DEF MirrorInv, WorkerMirrors

\* The invariant is inductive when no two workers share the table.
LEMMA MirrorInductive ==
  ASSUME SoleWorker
  PROVE  /\ Init => MirrorInv
         /\ TypeOK /\ MirrorInv /\ [Next]_vars => MirrorInv'
<1>1. Init => MirrorInv
  BY DEF Init, MirrorInv, WorkerMirrors, Versioned, Marked, NoRow
<1>2. TypeOK /\ MirrorInv /\ [Next]_vars => MirrorInv'
  <2> SUFFICES ASSUME TypeOK, MirrorInv, [Next]_vars PROVE MirrorInv'
    OBVIOUS
  <2> USE SoleWorker DEF SoleWorker
  <2>a. /\ clock \in Nat
        /\ \A k \in Keys : rows[k].seen \in Nat
        /\ pc \in [Workers -> PCs]
        /\ run \in [Workers -> Run]
        /\ rows \in [Keys -> Row]
    BY DEF TypeOK, PlatformTypeOK, WorkerTypeOK, Row, Version
  <2>b. \A w \in Workers :
          /\ run[w].ver \in Nat
          /\ run[w].pend \subseteq Keys
          /\ run[w].snap \in [Keys -> Vals \cup {Nil}]
    BY <2>a DEF Run, Version
  <2>1. ASSUME NEW w \in Workers, BeginSync(w) PROVE MirrorInv'
    BY <2>1, <2>a, MirrorLeave DEF BeginSync, Goto, Unversioned
  <2>2. ASSUME NEW w \in Workers, StartJob(w) PROVE MirrorInv'
    BY <2>2, <2>a, MirrorLeave DEF StartJob, Goto, Return, Unversioned
  <2>3. ASSUME NEW w \in Workers, TakeVersion(w) PROVE MirrorInv'
    <3>1. /\ UNCHANGED <<clock, rows>>
          /\ \A v \in Workers : pc'[v] = "open" /\ run'[v].ver = clock
      BY <2>3, <2>a DEF TakeVersion, Goto, platform, Run
    <3>2. QED
      BY <3>1, <2>a DEF MirrorInv, WorkerMirrors, Versioned, Marked
  <2>4. ASSUME NEW w \in Workers, OpenStream(w) PROVE MirrorInv'
    <3>1. PICK snap \in [Keys -> Vals \cup {Nil}] :
            run' = [run EXCEPT ![w].snap = snap,
                               ![w].pend = {k \in Keys : snap[k] # Nil}]
      BY <2>4 DEF OpenStream
    <3> DEFINE pend == {k \in Keys : snap[k] # Nil}
    <3>2. /\ UNCHANGED <<clock, rows>>
          /\ pc[w] = "open"
          /\ pc'[w] = "stream"
      BY <2>4, <2>a DEF OpenStream, Goto, platform
    <3>3. /\ run'[w].ver = run[w].ver
          /\ run'[w].snap = snap
          /\ run'[w].pend = pend
      <4> HIDE DEF pend
      <4>1. QED
        BY <3>1, <2>a DEF pend, Run
    <3>4. \A k \in Keys : ~Received(w, k)'
      BY <3>3 DEF Received
    <3>5. WorkerMirrors(w)'
      BY <3>2, <3>3, <3>4 DEF MirrorInv, WorkerMirrors, Versioned, Marked
    <3>6. QED
      BY <3>2, <3>5 DEF MirrorInv
  <2>5. ASSUME NEW w \in Workers, ConnectError(w) PROVE MirrorInv'
    BY <2>5, <2>a, MirrorLeave DEF ConnectError, Goto, platform, Unversioned
  <2>6. ASSUME NEW w \in Workers, NextRow(w) PROVE MirrorInv'
    <3>1. PICK k \in run[w].pend, o \in Outcomes(w) :
            IF o = "ok"
            THEN /\ run' = [run EXCEPT ![w].pend = @ \ {k}, ![w].key = k,
                                       ![w].old = rows[k].val]
                 /\ Goto(w, "upsert")
            ELSE /\ run' = [run EXCEPT ![w].pend = @ \ {k}]
                 /\ Goto(w, "close")
      BY <2>6 DEF NextRow
    <3>2. UNCHANGED <<clock, rows>> /\ pc[w] = "stream"
      BY <2>6 DEF NextRow, platform
    <3>3. CASE o = "ok"
      <4>1. /\ run'[w].ver = run[w].ver
            /\ run'[w].snap = run[w].snap
            /\ run'[w].pend = run[w].pend \ {k}
            /\ run'[w].key = k
            /\ run'[w].old = rows[k].val
            /\ pc'[w] = "upsert"
        BY <3>1, <3>3, <2>a DEF Goto, Run
      <4>2. \A j \in Keys : Received(w, j)' => Received(w, j)
        BY <3>2, <4>1 DEF Received
      <4>3. WorkerMirrors(w)'
        BY <3>2, <4>1, <4>2 DEF MirrorInv, WorkerMirrors, Versioned, Marked
      <4>4. QED
        BY <3>2, <4>3 DEF MirrorInv
    <3>4. CASE o # "ok"
      BY <3>1, <3>2, <3>4, <2>a, MirrorLeave DEF Goto, Unversioned
    <3>5. QED
      BY <3>3, <3>4
  <2>7. ASSUME NEW w \in Workers, StreamError(w) PROVE MirrorInv'
    BY <2>7, <2>a, MirrorLeave DEF StreamError, Goto, platform, Unversioned
  <2>8. ASSUME NEW w \in Workers, EndOfStream(w) PROVE MirrorInv'
    <3>1. /\ UNCHANGED <<clock, rows, run>>
          /\ pc[w] = "stream"
          /\ pc'[w] = "mark"
          /\ run[w].pend = {}
      BY <2>8, <2>a DEF EndOfStream, Goto, platform
    <3>2. \A k \in Keys : Received(w, k)' => Received(w, k)
      BY <3>1 DEF Received
    <3>3. WorkerMirrors(w)'
      BY <3>1, <3>2 DEF MirrorInv, WorkerMirrors, Versioned, Marked
    <3>4. QED
      BY <3>1, <3>3 DEF MirrorInv
  <2>9. ASSUME NEW w \in Workers, Upsert(w) PROVE MirrorInv'
    <3>1. PICK k \in Keys : k = run[w].key
      BY <2>9 DEF Upsert, TypeOK, AtHandOK
    <3> DEFINE old == run[w].old
               new == run[w].snap[k]
               row == UpsertedRow(rows[k], old, new, run[w].ver)
    <3>2. /\ pc[w] = "upsert"
          /\ rows[k].val = old
          /\ new # Nil
      BY <2>9, <3>1 DEF Upsert, MirrorInv, WorkerMirrors, TypeOK, AtHandOK
    <3>3. row.val = new /\ row.seen = run[w].ver
      BY <3>2, <2>a DEF UpsertedRow, Row
    <3>4. /\ clock' = clock
          /\ rows' = rows \/ rows' = [rows EXCEPT ![k] = row]
          /\ pc'[w] \in {"stream", "log", "close"}
          /\ pc'[w] # "close" => rows' = [rows EXCEPT ![k] = row]
          /\ run'[w].ver = run[w].ver
          /\ run'[w].snap = run[w].snap
          /\ run'[w].pend = run[w].pend
          /\ run'[w].key = run[w].key
      BY <2>9, <3>1, <2>a DEF Upsert, Goto, Run, AfterUpsert, Applied
    <3> HIDE DEF row, new
    <3>5. /\ run[w].ver <= clock
          /\ \A j \in Keys : rows[j].seen <= run[w].ver
      BY <3>2 DEF MirrorInv, WorkerMirrors, Versioned
    <3>6. \A j \in Keys : rows'[j].seen <= run[w].ver
      BY <3>3, <3>4, <3>5, <2>a, <2>b
    <3>7. pc'[w] # "close" => \A j \in Keys : Received(w, j)' =>
            rows'[j].val = run'[w].snap[j] /\ rows'[j].seen = run'[w].ver
      <4> SUFFICES ASSUME pc'[w] # "close", NEW j \in Keys, Received(w, j)'
                   PROVE  rows'[j].val = run'[w].snap[j] /\ rows'[j].seen = run'[w].ver
        OBVIOUS
      <4>1. CASE j = k
        BY <3>3, <3>4, <4>1, <2>a DEF new
      <4>2. CASE j # k
        <5>1. Received(w, j)
          BY <3>1, <3>4, <4>2 DEF Received
        <5>2. QED
          BY <3>2, <3>4, <4>2, <5>1, <2>a DEF MirrorInv, WorkerMirrors
      <4>3. QED
        BY <4>1, <4>2
    <3>8. WorkerMirrors(w)'
      BY <3>4, <3>5, <3>6, <3>7 DEF WorkerMirrors, Versioned, Marked
    <3>9. \A j \in Keys : rows'[j].seen \in Nat
      BY <3>3, <3>4, <2>a, <2>b
    <3>10. \A j \in Keys : rows'[j].seen <= clock'
      BY <3>4, <3>5, <3>6, <3>9, <2>a, <2>b
    <3>11. QED
      BY <3>8, <3>10 DEF MirrorInv
  <2>10. ASSUME NEW w \in Workers, LogChange(w) PROVE MirrorInv'
    <3>1. /\ UNCHANGED <<clock, rows, run>>
          /\ pc[w] = "log"
          /\ pc'[w] = "stream"
      BY <2>10, <2>a DEF LogChange, Goto
    <3>2. \A k \in Keys : Received(w, k)' => Received(w, k)
      BY <3>1 DEF Received
    <3>3. WorkerMirrors(w)'
      BY <3>1, <3>2 DEF MirrorInv, WorkerMirrors, Versioned, Marked
    <3>4. QED
      BY <3>1, <3>3 DEF MirrorInv
  <2>11. ASSUME NEW w \in Workers, MarkDeleted(w) PROVE MirrorInv'
    <3> DEFINE stale == StaleKeys(run[w].ver)
    <3>1. /\ clock' = clock
          /\ pc[w] = "mark"
          /\ pc'[w] \in {"deleted", "close"}
          /\ run'[w].ver = run[w].ver
          /\ run'[w].snap = run[w].snap
      BY <2>11, <2>a DEF MarkDeleted, Goto, Run
    <3>2. \A k \in Keys : rows'[k].val = rows[k].val /\ rows'[k].seen = rows[k].seen
      BY <2>11, <2>a DEF MarkDeleted, Row
    <3>3. pc'[w] = "deleted" => \A k \in stale : rows'[k].deleted
      <4> HIDE DEF stale
      <4>1. stale \subseteq Keys
        BY DEF stale, StaleKeys
      <4>2. QED
        BY <2>11, <2>a, <4>1 DEF MarkDeleted, Row, Goto, Applied, stale
    <3>4. pc'[w] = "deleted" => \A k \in Keys :
            IF run[w].snap[k] = Nil
            THEN Live(k)' => rows[k].seen = run[w].ver
            ELSE rows[k].val = run[w].snap[k] /\ rows[k].seen = run[w].ver
      <4> SUFFICES ASSUME pc'[w] = "deleted", NEW k \in Keys
                   PROVE IF run[w].snap[k] = Nil
                         THEN Live(k)' => rows[k].seen = run[w].ver
                         ELSE rows[k].val = run[w].snap[k] /\ rows[k].seen = run[w].ver
        OBVIOUS
      <4>1. CASE run[w].snap[k] # Nil
        BY <3>1, <4>1 DEF MirrorInv, WorkerMirrors, Received
      <4>2. CASE run[w].snap[k] = Nil
        <5> SUFFICES ASSUME Live(k)' PROVE rows[k].seen = run[w].ver
          BY <4>2
        <5>1. k \notin stale
          BY <3>3 DEF Live
        <5>2. Live(k)
          BY <2>11, <2>a, <3>2 DEF MarkDeleted, Live, Ingested, Row
        <5>3. ~(rows[k].seen < run[w].ver)
          BY <5>1, <5>2 DEF StaleKeys
        <5>4. rows[k].seen <= run[w].ver
          BY <3>1 DEF MirrorInv, WorkerMirrors, Versioned
        <5>5. QED
          BY <5>3, <5>4, <2>a, <2>b
      <4>3. QED
        BY <4>1, <4>2
    <3>5. WorkerMirrors(w)'
      BY <3>1, <3>2, <3>4 DEF MirrorInv, WorkerMirrors, Versioned, Marked
    <3>6. QED
      BY <3>1, <3>2, <3>5 DEF MirrorInv
  <2>12. ASSUME NEW w \in Workers, ReadDeleted(w) PROVE MirrorInv'
    <3>1. /\ UNCHANGED <<clock, rows>>
          /\ pc[w] = "deleted"
          /\ pc'[w] = "logdel"
          /\ run'[w].snap = run[w].snap
          /\ run'[w].ver = run[w].ver
      BY <2>12, <2>a DEF ReadDeleted, Goto, platform, Run
    <3>2. QED
      BY <3>1, MirrorStay DEF Marked
  <2>13. ASSUME NEW w \in Workers, LogDelete(w) PROVE MirrorInv'
    BY <2>13, <2>a, MirrorStay DEF LogDelete, Goto, Marked
  <2>14. ASSUME NEW w \in Workers, CompleteJob(w) PROVE MirrorInv'
    BY <2>14, <2>a, MirrorStay DEF CompleteJob, Goto, Marked
  <2>15. ASSUME NEW w \in Workers, UpdateTableSyncStats(w) PROVE MirrorInv'
    BY <2>15, <2>a, MirrorStay DEF UpdateTableSyncStats, Goto, Marked
  <2>16. ASSUME NEW w \in Workers, CreateSnapshot(w) PROVE MirrorInv'
    BY <2>16, <2>a, MirrorLeave DEF CreateSnapshot, Return, Goto, Unversioned
  <2>17. ASSUME NEW w \in Workers, CloseConn(w) PROVE MirrorInv'
    BY <2>17, <2>a, MirrorLeave DEF CloseConn, Goto, platform, Unversioned
  <2>18. ASSUME NEW w \in Workers, FailJob(w) PROVE MirrorInv'
    BY <2>18, <2>a, MirrorLeave DEF FailJob, Goto, Unversioned
  <2>19. ASSUME NEW w \in Workers, MarkSourceError(w) PROVE MirrorInv'
    BY <2>19, <2>a, MirrorLeave DEF MarkSourceError, Return, Goto, Unversioned
  <2>20. ASSUME NEW w \in Workers, Cancel(w) PROVE MirrorInv'
    BY <2>20 DEF Cancel, platform, MirrorInv, WorkerMirrors, Versioned, Marked, Received,
       Live, Ingested
  <2>21. CASE Crash
    BY <2>21, MirrorLeave DEF Crash, platform, Unversioned
  <2>22. CASE Tick
    BY <2>22, <2>a, <2>b DEF Tick, platform, MirrorInv, WorkerMirrors, Versioned, Marked,
       Received, Live, Ingested
  <2>23. CASE UNCHANGED vars
    BY <2>23 DEF vars, platform, MirrorInv, WorkerMirrors, Versioned, Marked, Received,
       Live, Ingested
  <2>24. ASSUME NEW w \in Workers, ProducerFails(w) PROVE MirrorInv'
    BY <2>24, MirrorLeave DEF ProducerFails, platform, Unversioned
  <2>25. QED
    BY <2>1, <2>2, <2>3, <2>4, <2>5, <2>6, <2>7, <2>8, <2>9, <2>10, <2>11, <2>12,
       <2>13, <2>14, <2>15, <2>16, <2>17, <2>18, <2>19, <2>20, <2>21, <2>22, <2>23,
       <2>24 DEF Next, Step
<1>3. QED
  BY <1>1, <1>2

\* Whatever fails around it, a worker that is alone on the table sees its
\* source snapshot in ingested_rows from MarkDeletedRows to the end.
THEOREM SoleWorkerMirrors ==
  ASSUME SoleWorker
  PROVE  Spec => []SyncedRunMirrorsSource
<1>1. MirrorInv => SyncedRunMirrorsSource
  BY DEF MirrorInv, WorkerMirrors, SyncedRunMirrorsSource
<1>2. QED
  BY <1>1, MirrorInductive, TypeCorrect, PTL DEF Spec

\* Whatever fails around it, a worker that is alone on the table deletes no
\* row that its source snapshot holds.
THEOREM SoleWorkerDeletesOnlyAbsent ==
  ASSUME SoleWorker
  PROVE  Spec => DeletesOnlyAbsent
<1> DEFINE Absent == \A k \in Keys : Live(k) /\ rows'[k].deleted =>
             \E w \in Workers :
               pc[w] = "mark" /\ pc'[w] # "mark" /\ run[w].snap[k] = Nil
<1>1. TypeOK /\ MirrorInv /\ [Next]_vars => [Absent]_vars
  <2> SUFFICES ASSUME TypeOK, MirrorInv, Next, NEW k \in Keys,
                      Live(k), rows'[k].deleted
               PROVE  \E w \in Workers :
                        pc[w] = "mark" /\ pc'[w] # "mark" /\ run[w].snap[k] = Nil
    BY DEF vars
  <2>1. ~rows[k].deleted
    BY DEF Live
  <2>2. CASE rows' = rows
    BY <2>1, <2>2
  <2>3. ASSUME NEW w \in Workers, Upsert(w) PROVE FALSE
    <3>1. PICK j \in Keys : j = run[w].key
      BY <2>3 DEF Upsert, TypeOK, AtHandOK
    <3> DEFINE row == UpsertedRow(rows[j], run[w].old, run[w].snap[j], run[w].ver)
    <3>2. rows' = rows \/ rows' = [rows EXCEPT ![j] = row]
      BY <2>3, <3>1 DEF Upsert
    <3>3. rows[j] \in Row /\ rows \in [Keys -> Row]
      BY DEF TypeOK, PlatformTypeOK
    <3>4. row.deleted => rows[j].deleted
      BY <3>3 DEF UpsertedRow, Row
    <3> HIDE DEF row
    <3>5. QED
      BY <2>1, <3>2, <3>3, <3>4
  <2>4. ASSUME NEW w \in Workers, MarkDeleted(w)
        PROVE  pc[w] = "mark" /\ pc'[w] # "mark" /\ run[w].snap[k] = Nil
    <3>1. k \in StaleKeys(run[w].ver)
      BY <2>1, <2>4 DEF MarkDeleted
    <3>2. pc[w] = "mark" /\ pc'[w] # "mark"
      BY <2>4 DEF MarkDeleted, Goto, TypeOK, WorkerTypeOK
    <3>3. QED
      BY <3>1, <3>2, StaleAreAbsent
  <2>5. rows' = rows \/ \E w \in Workers : Upsert(w) \/ MarkDeleted(w)
    BY ZenonT(60) DEF Next, Step, BeginSync, StartJob, TakeVersion, OpenStream, ConnectError,
       NextRow, StreamError, EndOfStream, ProducerFails, LogChange, ReadDeleted, LogDelete,
       CompleteJob, UpdateTableSyncStats, CreateSnapshot, CloseConn, FailJob,
       MarkSourceError, Cancel, Crash, Tick, platform
  <2>6. QED
    BY <2>2, <2>3, <2>4, <2>5
<1>2. QED
  BY <1>1, MirrorInductive, TypeCorrect, PTL DEF Spec, DeletesOnlyAbsent

----------------------------------------------------------------------------
(* Jobs that stay pending or running *)

\* The status of one job is set.
LEMMA StatusSet ==
  ASSUME jobs \in Seq(Job), NEW j \in 1..Len(jobs),
         NEW st \in {"pending", "running", "completed", "failed"}, SetStatus(j, st)
  PROVE  /\ Len(jobs') = Len(jobs)
         /\ jobs'[j].status = st
         /\ \A i \in 1..Len(jobs) \ {j} : jobs'[i] = jobs[i]
<1>1. jobs[j] \in Job
  OBVIOUS
<1> DEFINE job == [jobs[j] EXCEPT !.status = st]
<1>2. job.status = st
  BY <1>1 DEF Job
<1>3. jobs' = [jobs EXCEPT ![j] = job]
  BY DEF SetStatus
<1> HIDE DEF job
<1>4. QED
  BY <1>2, <1>3

\* A step that keeps the jobs, and that keeps each worker in or out of SyncTable.
LEMMA JobsKeep ==
  ASSUME JobsInv, jobs' = jobs, abandoned' = abandoned,
         \A v \in Workers :
           /\ pc'[v] # "idle" <=> pc[v] # "idle"
           /\ pc[v] # "idle" => run'[v].job = run[v].job
           /\ pc'[v] \in {"stats", "snapshot", "srcerr"} => pc[v] \in {"stats", "snapshot", "srcerr"}
  PROVE  JobsInv'
<1>1. NoOrphanJobs'
  BY DEF JobsInv, NoOrphanJobs
<1>2. QED
  BY <1>1 DEF JobsInv

\* A worker sets the status of its job, or abandons it, and stays in SyncTable.
LEMMA JobsRecord ==
  ASSUME JobsInv, TypeOK, NEW w \in Workers, pc[w] # "idle", pc'[w] # "idle",
         Len(jobs') = Len(jobs),
         \A j \in 1..Len(jobs) \ {run[w].job} : jobs'[j] = jobs[j],
         abandoned \subseteq abandoned', run' = run,
         \A v \in Workers \ {w} : pc'[v] = pc[v],
         pc'[w] \in {"stats", "snapshot", "srcerr"} =>
           jobs'[run[w].job].status \in {"completed", "failed"} \/ run[w].job \in abandoned'
  PROVE  JobsInv'
<1>1. \A v \in Workers \ {w} : pc[v] # "idle" =>
        run[v].job # run[w].job /\ run[v].job \in 1..Len(jobs) /\ jobs'[run[v].job] = jobs[run[v].job]
  BY DEF JobsInv, TypeOK, AtHandOK
<1>2. ASSUME NEW v \in Workers, pc'[v] \in {"stats", "snapshot", "srcerr"}
      PROVE  jobs'[run'[v].job].status \in {"completed", "failed"} \/ run'[v].job \in abandoned'
  <2>1. CASE v = w
    BY <1>2, <2>1
  <2>2. CASE v # w
    BY <1>1, <1>2, <2>2 DEF JobsInv
  <2>3. QED
    BY <2>1, <2>2
<1>3. NoOrphanJobs'
  <2> SUFFICES ASSUME NEW j \in 1..Len(jobs'), jobs'[j].status \in {"pending", "running"}
               PROVE  j \in abandoned' \/ \E v \in Workers : pc'[v] # "idle" /\ run'[v].job = j
    BY DEF NoOrphanJobs
  <2>1. CASE j = run[w].job
    BY <2>1
  <2>2. CASE j # run[w].job
    BY <2>2 DEF JobsInv, NoOrphanJobs
  <2>3. QED
    BY <2>1, <2>2
<1>4. \A u, v \in Workers : pc'[u] # "idle" /\ pc'[v] # "idle" /\ run'[u].job = run'[v].job => u = v
  <2>1. \A v \in Workers : pc'[v] # "idle" => pc[v] # "idle"
    OBVIOUS
  <2>2. QED
    BY <2>1 DEF JobsInv
<1>5. QED
  BY <1>2, <1>3, <1>4 DEF JobsInv

\* A worker leaves whose job is over or abandoned.
LEMMA JobsLeave ==
  ASSUME JobsInv, TypeOK, NEW w \in Workers, jobs' = jobs, abandoned' = abandoned,
         pc[w] \in {"stats", "snapshot", "srcerr"},
         pc' = [pc EXCEPT ![w] = "idle"], \A v \in Workers \ {w} : run'[v] = run[v]
  PROVE  JobsInv'
<1>1. pc'[w] = "idle" /\ \A v \in Workers \ {w} : pc'[v] = pc[v] /\ run'[v] = run[v]
  BY DEF TypeOK, WorkerTypeOK
<1>2. NoOrphanJobs'
  BY <1>1 DEF JobsInv, NoOrphanJobs
<1>3. QED
  BY <1>1, <1>2 DEF JobsInv

\* JobsInv is inductive.
LEMMA JobsInductive == TypeOK /\ JobsInv /\ [Next]_vars => JobsInv'
<1> SUFFICES ASSUME TypeOK, JobsInv, [Next]_vars PROVE JobsInv'
  OBVIOUS
<1>a. /\ pc \in [Workers -> PCs] /\ run \in [Workers -> Run] /\ jobs \in Seq(Job)
      /\ \A w \in Workers : pc[w] # "idle" => run[w].job \in 1..Len(jobs)
  BY DEF TypeOK, WorkerTypeOK, AtHandOK, PlatformTypeOK
<1>1. ASSUME NEW w \in Workers, BeginSync(w) PROVE JobsInv'
  <2>1. PICK o \in Outcomes(w) \ {"error"} :
          /\ jobs' = Append(jobs, [status |-> "pending", ver |-> 0, stats |-> NoStats])
          /\ IF o = "ok" THEN /\ Goto(w, "start")
                              /\ run' = [run EXCEPT ![w].job = NewJobId]
                         ELSE UNCHANGED <<pc, run>>
          /\ abandoned' = Abandons(NewJobId, o = "ok")
    BY <1>1 DEF BeginSync
  <2>2. /\ Len(jobs) \in Nat /\ Len(jobs') = Len(jobs) + 1 /\ NewJobId = Len(jobs')
        /\ \A j \in 1..Len(jobs) : jobs'[j] = jobs[j]
        /\ pc[w] = "idle" /\ abandoned \subseteq abandoned'
    BY <1>1, <2>1, <1>a DEF BeginSync, NewJobId, Abandons
  <2>3. \A v \in Workers \ {w} : pc'[v] = pc[v] /\ run'[v] = run[v]
    BY <2>1, <1>a DEF Goto
  <2>4. \/ pc'[w] = "start" /\ run'[w].job = NewJobId
        \/ pc'[w] = "idle" /\ NewJobId \in abandoned'
    <3>1. CASE o = "ok"
      BY <2>1, <3>1, <1>a DEF Goto, Run
    <3>2. CASE o # "ok"
      BY <2>1, <2>2, <3>2 DEF Abandons
    <3>3. QED
      BY <3>1, <3>2
  <2>5. \A v \in Workers \ {w} : pc[v] # "idle" => run[v].job # NewJobId /\ run[v].job \in 1..Len(jobs)
    BY <2>2, <1>a
  <2>6. \A u, v \in Workers : pc'[u] # "idle" /\ pc'[v] # "idle" /\ run'[u].job = run'[v].job => u = v
    BY <2>3, <2>4, <2>5 DEF JobsInv
  <2>7. ASSUME NEW v \in Workers, pc'[v] \in {"stats", "snapshot", "srcerr"}
        PROVE  jobs'[run'[v].job].status \in {"completed", "failed"} \/ run'[v].job \in abandoned'
    <3>1. v # w
      BY <2>4, <2>7
    <3>2. QED
      BY <2>2, <2>3, <2>5, <2>7, <3>1 DEF JobsInv
  <2>8. NoOrphanJobs'
    <3> SUFFICES ASSUME NEW j \in 1..Len(jobs'), jobs'[j].status \in {"pending", "running"}
                 PROVE  j \in abandoned' \/ \E v \in Workers : pc'[v] # "idle" /\ run'[v].job = j
      BY DEF NoOrphanJobs
    <3>1. CASE j = NewJobId
      BY <2>4, <3>1
    <3>2. CASE j # NewJobId
      <4>1. j \in 1..Len(jobs) /\ jobs[j].status \in {"pending", "running"}
        BY <2>2, <3>2
      <4>2. QED
        BY <2>2, <2>3, <4>1 DEF JobsInv, NoOrphanJobs
    <3>3. QED
      BY <3>1, <3>2
  <2>9. QED
    BY <2>6, <2>7, <2>8 DEF JobsInv
<1>2. ASSUME NEW w \in Workers, StartJob(w) PROVE JobsInv'
  <2>1. PICK o \in Outcomes(w) :
          /\ IF Applied(o) THEN SetStatus(run[w].job, "running") ELSE UNCHANGED jobs
          /\ IF o = "ok" THEN Goto(w, "version") /\ UNCHANGED <<run, cancelled>> ELSE Return(w)
          /\ abandoned' = Abandons(run[w].job, o = "ok")
    BY <1>2 DEF StartJob
  <2>2. pc[w] = "start" /\ run[w].job \in 1..Len(jobs)
    BY <1>2, <1>a DEF StartJob
  <2>3. Len(jobs') = Len(jobs) /\ \A j \in 1..Len(jobs) \ {run[w].job} : jobs'[j] = jobs[j]
    BY <2>1, <2>2, <1>a, StatusSet
  <2>4. CASE o = "ok"
    <3>1. run' = run /\ pc'[w] = "version" /\ (\A v \in Workers \ {w} : pc'[v] = pc[v]) /\ abandoned' = abandoned
      BY <2>1, <2>4, <1>a DEF Goto, Abandons
    <3>2. QED
      BY <2>2, <2>3, <3>1, JobsRecord
  <2>5. CASE o # "ok"
    <3>1. /\ pc' = [pc EXCEPT ![w] = "idle"] /\ (\A v \in Workers \ {w} : run'[v] = run[v])
          /\ abandoned' = abandoned \cup {run[w].job}
      BY <2>1, <2>5, <1>a DEF Return, Goto, Abandons
    <3>2. pc'[w] = "idle" /\ \A v \in Workers \ {w} : pc'[v] = pc[v]
      BY <3>1, <1>a
    <3>3. \A v \in Workers \ {w} : pc[v] # "idle" =>
            run[v].job # run[w].job /\ run[v].job \in 1..Len(jobs) /\ jobs'[run[v].job] = jobs[run[v].job]
      BY <2>2, <2>3, <1>a DEF JobsInv
    <3>4. NoOrphanJobs'
      <4> SUFFICES ASSUME NEW j \in 1..Len(jobs'), jobs'[j].status \in {"pending", "running"}, j # run[w].job
                   PROVE  j \in abandoned' \/ \E v \in Workers : pc'[v] # "idle" /\ run'[v].job = j
        BY <3>1 DEF NoOrphanJobs
      <4>1. j \in 1..Len(jobs) /\ jobs'[j] = jobs[j]
        BY <2>3
      <4>2. QED
        BY <3>1, <3>2, <4>1 DEF JobsInv, NoOrphanJobs
    <3>5. \A v \in Workers : pc'[v] \in {"stats", "snapshot", "srcerr"} =>
            jobs'[run'[v].job].status \in {"completed", "failed"} \/ run'[v].job \in abandoned'
      BY <3>1, <3>2, <3>3 DEF JobsInv
    <3>6. QED
      BY <3>1, <3>2, <3>4, <3>5 DEF JobsInv
  <2>6. QED
    BY <2>4, <2>5
<1>3. ASSUME NEW w \in Workers, CompleteJob(w) PROVE JobsInv'
  <2>1. /\ pc[w] = "deleted" /\ pc'[w] = "stats" /\ run' = run /\ \A v \in Workers \ {w} : pc'[v] = pc[v]
        /\ run[w].job \in 1..Len(jobs)
    BY <1>3, <1>a DEF CompleteJob, Goto
  <2> DEFINE done == [status |-> "completed", ver |-> run[w].ver, stats |-> run[w].stats]
  <2>2. PICK o \in Outcomes(w) :
          /\ jobs' = IF Applied(o) THEN [jobs EXCEPT ![run[w].job] = done] ELSE jobs
          /\ abandoned' = Abandons(run[w].job, Applied(o))
    BY <1>3 DEF CompleteJob
  <2>3. done.status = "completed"
    OBVIOUS
  <2> HIDE DEF done
  <2>4. /\ Len(jobs') = Len(jobs) /\ \A j \in 1..Len(jobs) \ {run[w].job} : jobs'[j] = jobs[j]
        /\ jobs'[run[w].job].status = "completed" \/ run[w].job \in abandoned'
        /\ abandoned \subseteq abandoned'
    BY <2>1, <2>2, <2>3, <1>a DEF Abandons
  <2>5. QED
    BY <2>1, <2>4, JobsRecord
<1>4. ASSUME NEW w \in Workers, FailJob(w) PROVE JobsInv'
  <2>1. /\ pc[w] = "fail" /\ pc'[w] = "srcerr" /\ run' = run /\ \A v \in Workers \ {w} : pc'[v] = pc[v]
        /\ run[w].job \in 1..Len(jobs)
    BY <1>4, <1>a DEF FailJob, Goto
  <2>2. PICK o \in Outcomes(w) :
          /\ IF Applied(o) THEN SetStatus(run[w].job, "failed") ELSE UNCHANGED jobs
          /\ abandoned' = Abandons(run[w].job, Applied(o))
    BY <1>4 DEF FailJob
  <2>3. /\ Len(jobs') = Len(jobs) /\ \A j \in 1..Len(jobs) \ {run[w].job} : jobs'[j] = jobs[j]
        /\ jobs'[run[w].job].status = "failed" \/ run[w].job \in abandoned'
        /\ abandoned \subseteq abandoned'
    BY <2>1, <2>2, <1>a, StatusSet DEF Abandons
  <2>4. QED
    BY <2>1, <2>3, JobsRecord
<1>5. ASSUME NEW w \in Workers, UpdateTableSyncStats(w) PROVE JobsInv'
  BY <1>5, <1>a, JobsKeep DEF UpdateTableSyncStats, Goto, history
<1>6. ASSUME NEW w \in Workers, CreateSnapshot(w) PROVE JobsInv'
  BY <1>6, <1>a, JobsLeave DEF CreateSnapshot, Return, Goto, history
<1>7. ASSUME NEW w \in Workers, MarkSourceError(w) PROVE JobsInv'
  BY <1>7, <1>a, JobsLeave DEF MarkSourceError, Return, Goto, history
<1>8. CASE Crash
  <2>1. /\ jobs' = jobs /\ \A v \in Workers : pc'[v] = "idle"
        /\ abandoned \subseteq abandoned'
        /\ \A v \in Workers : pc[v] # "idle" => run[v].job \in abandoned'
    BY <1>8 DEF Crash, platform
  <2>2. QED
    BY <2>1 DEF JobsInv, NoOrphanJobs
<1>9. CASE UNCHANGED vars
  BY <1>9, JobsKeep DEF vars, platform, history
<1>10. CASE Tick
  BY <1>10, JobsKeep DEF Tick, platform, history
<1>11. ASSUME NEW w \in Workers,
              \/ TakeVersion(w) \/ OpenStream(w) \/ ConnectError(w) \/ NextRow(w)
              \/ StreamError(w) \/ EndOfStream(w) \/ Upsert(w) \/ LogChange(w)
              \/ MarkDeleted(w) \/ ReadDeleted(w) \/ LogDelete(w) \/ CloseConn(w)
              \/ ProducerFails(w) \/ Cancel(w)
       PROVE JobsInv'
  <2> SUFFICES /\ jobs' = jobs /\ abandoned' = abandoned
               /\ \A v \in Workers : run'[v].job = run[v].job
               /\ \A v \in Workers \ {w} : pc'[v] = pc[v]
               /\ pc'[w] = pc[w] \/ (pc[w] # "idle" /\ pc'[w] \notin {"idle", "stats", "snapshot", "srcerr"})
    BY JobsKeep
  <2>1. CASE TakeVersion(w)
    BY <2>1, <1>a DEF TakeVersion, Goto, platform, history, Run
  <2>2. CASE OpenStream(w)
    BY <2>2, <1>a DEF OpenStream, Goto, platform, history, Run
  <2>3. CASE ConnectError(w)
    BY <2>3, <1>a DEF ConnectError, Goto, platform, history
  <2>4. CASE NextRow(w)
    <3>1. PICK k \in run[w].pend, o \in Outcomes(w) :
            IF o = "ok"
            THEN /\ run' = [run EXCEPT ![w].pend = @ \ {k}, ![w].key = k,
                                       ![w].old = rows[k].val]
                 /\ Goto(w, "upsert")
            ELSE /\ run' = [run EXCEPT ![w].pend = @ \ {k}]
                 /\ Goto(w, "close")
      BY <2>4 DEF NextRow
    <3> DEFINE r == [run[w] EXCEPT !.pend = @ \ {k}, !.key = k, !.old = rows[k].val]
               d == [run[w] EXCEPT !.pend = @ \ {k}]
    <3>2. run' = [run EXCEPT ![w] = r] \/ run' = [run EXCEPT ![w] = d]
      BY <3>1
    <3>3. r.job = run[w].job /\ d.job = run[w].job
      BY <1>a DEF Run
    <3> HIDE DEF r, d
    <3>4. \A v \in Workers : run'[v].job = run[v].job
      BY <3>2, <3>3, <1>a
    <3>5. QED
      BY <2>4, <3>4, <1>a DEF NextRow, Goto, platform, history
  <2>5. CASE StreamError(w)
    BY <2>5, <1>a DEF StreamError, Goto, platform, history, Run
  <2>6. CASE EndOfStream(w)
    BY <2>6, <1>a DEF EndOfStream, Goto, platform, history
  <2>7. CASE Upsert(w)
    <3>1. AfterUpsert(run[w].old, run[w].snap[run[w].key]) \in {"log", "stream"}
      BY DEF AfterUpsert
    <3> DEFINE s == CountRow(run[w].stats, run[w].old, run[w].snap[run[w].key])
               r == [run[w] EXCEPT !.stats = s]
    <3>2. run' = run \/ run' = [run EXCEPT ![w] = r]
      BY <2>7 DEF Upsert
    <3> HIDE DEF s
    <3>3. r.job = run[w].job
      BY <1>a DEF Run
    <3> HIDE DEF r
    <3>4. \A v \in Workers : run'[v].job = run[v].job
      BY <3>2, <3>3, <1>a
    <3>5. QED
      BY <2>7, <3>1, <3>4, <1>a DEF Upsert, Goto
  <2>8. CASE LogChange(w)
    BY <2>8, <1>a DEF LogChange, Goto
  <2>9. CASE MarkDeleted(w)
    <3> DEFINE stale == StaleKeys(run[w].ver)
               s == CountDeleted(run[w].stats, stale)
               r == [run[w] EXCEPT !.dels = stale, !.stats = s]
    <3>1. run' = run \/ run' = [run EXCEPT ![w] = r]
      BY <2>9 DEF MarkDeleted
    <3> HIDE DEF stale, s
    <3>2. r.job = run[w].job
      BY <1>a DEF Run
    <3> HIDE DEF r
    <3>3. \A v \in Workers : run'[v].job = run[v].job
      BY <3>1, <3>2, <1>a
    <3>4. QED
      BY <2>9, <3>3, <1>a DEF MarkDeleted, Goto
  <2>10. CASE ReadDeleted(w)
    BY <2>10, <1>a DEF ReadDeleted, Goto, platform, Run
  <2>11. CASE LogDelete(w)
    BY <2>11, <1>a DEF LogDelete, Goto
  <2>12. CASE CloseConn(w)
    BY <2>12, <1>a DEF CloseConn, Goto, platform, history
  <2>13. CASE ProducerFails(w)
    BY <2>13, <1>a DEF ProducerFails, platform, history, Run
  <2>14. CASE Cancel(w)
    BY <2>14 DEF Cancel, platform, history
  <2>15. QED
    BY <1>11, <2>1, <2>2, <2>3, <2>4, <2>5, <2>6, <2>7, <2>8, <2>9, <2>10, <2>11, <2>12,
       <2>13, <2>14
<1>12. QED
  BY <1>1, <1>2, <1>3, <1>4, <1>5, <1>6, <1>7, <1>8, <1>9, <1>10, <1>11 DEF Next, Step

\* However many syncs overlap and whatever fails, the only jobs that stay pending
\* or running without a worker are those whose worker could not record how they
\* went, or died.
THEOREM NoOrphans == Spec => []NoOrphanJobs
<1>1. Init => JobsInv
  BY DEF Init, JobsInv, NoOrphanJobs
<1>2. JobsInv => NoOrphanJobs
  BY DEF JobsInv
<1>3. QED
  BY <1>1, <1>2, JobsInductive, TypeCorrect, PTL DEF Spec
=============================================================================
