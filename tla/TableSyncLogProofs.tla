------------------------- MODULE TableSyncLogProofs -------------------------
(***************************************************************************)
(* What a sync leaves behind it, for every set of keys and contents: the   *)
(* log of a worker that is alone on the table replays and chains, its      *)
(* versions only grow, and, for any number of workers, a snapshot is the   *)
(* record of a completed job.                                              *)
(***************************************************************************)
EXTENDS TableSyncProofs

----------------------------------------------------------------------------
(* The local variables of a worker *)

\* Receiving a row changes only the row at hand.
LEMMA NextRowRun ==
  ASSUME TypeOK, NEW w \in Workers, NextRow(w)
  PROVE  /\ run'[w].job = run[w].job /\ run'[w].ver = run[w].ver
         /\ run'[w].snap = run[w].snap /\ run'[w].dels = run[w].dels
         /\ run'[w].stats = run[w].stats
         /\ pc[w] = "stream" /\ pc'[w] \in {"upsert", "close"}
<1>1. PICK k \in run[w].pend, o \in Outcomes(w) :
        IF o = "ok"
        THEN /\ run' = [run EXCEPT ![w].pend = @ \ {k}, ![w].key = k, ![w].old = rows[k].val]
             /\ Goto(w, "upsert")
        ELSE /\ run' = [run EXCEPT ![w].pend = @ \ {k}]
             /\ Goto(w, "close")
  BY DEF NextRow
<1> DEFINE r == [run[w] EXCEPT !.pend = @ \ {k}, !.key = k, !.old = rows[k].val]
           d == [run[w] EXCEPT !.pend = @ \ {k}]
<1>2. run' = [run EXCEPT ![w] = r] \/ run' = [run EXCEPT ![w] = d]
  BY <1>1
<1>3. /\ r.job = run[w].job /\ r.ver = run[w].ver /\ r.snap = run[w].snap
      /\ r.dels = run[w].dels /\ r.stats = run[w].stats
      /\ d.job = run[w].job /\ d.ver = run[w].ver /\ d.snap = run[w].snap
      /\ d.dels = run[w].dels /\ d.stats = run[w].stats
  BY DEF TypeOK, WorkerTypeOK, Run
<1> HIDE DEF r, d
<1>4. QED
  BY <1>1, <1>2, <1>3 DEF NextRow, Goto, TypeOK, WorkerTypeOK

\* Writing a row changes only the counters.
LEMMA UpsertRun ==
  ASSUME TypeOK, NEW w \in Workers, Upsert(w)
  PROVE  /\ run'[w].job = run[w].job /\ run'[w].ver = run[w].ver
         /\ run'[w].snap = run[w].snap /\ run'[w].dels = run[w].dels
         /\ run'[w].key = run[w].key /\ run'[w].old = run[w].old
<1> DEFINE s == CountRow(run[w].stats, run[w].old, run[w].snap[run[w].key])
           r == [run[w] EXCEPT !.stats = s]
<1>1. run' = run \/ run' = [run EXCEPT ![w] = r]
  BY DEF Upsert
<1> HIDE DEF s
<1>2. /\ r.job = run[w].job /\ r.ver = run[w].ver /\ r.snap = run[w].snap
      /\ r.dels = run[w].dels /\ r.key = run[w].key /\ r.old = run[w].old
  BY DEF TypeOK, WorkerTypeOK, Run
<1> HIDE DEF r
<1>3. QED
  BY <1>1, <1>2 DEF TypeOK, WorkerTypeOK

\* Marking the stale rows changes only the keys to log and the counters.
LEMMA MarkDeletedRun ==
  ASSUME TypeOK, NEW w \in Workers, MarkDeleted(w)
  PROVE  /\ run'[w].job = run[w].job /\ run'[w].ver = run[w].ver /\ run'[w].snap = run[w].snap
         /\ pc[w] = "mark"
         /\ \/ pc'[w] = "deleted" /\ run'[w].dels = StaleKeys(run[w].ver)
            \/ pc'[w] = "close" /\ run' = run
<1> DEFINE stale == StaleKeys(run[w].ver)
           s == CountDeleted(run[w].stats, stale)
           r == [run[w] EXCEPT !.dels = stale, !.stats = s]
<1>1. \/ run' = [run EXCEPT ![w] = r] /\ Goto(w, "deleted")
      \/ run' = run /\ Goto(w, "close")
  BY DEF MarkDeleted
<1> HIDE DEF stale, s
<1>2. /\ r.job = run[w].job /\ r.ver = run[w].ver /\ r.snap = run[w].snap
      /\ r.dels = stale
  BY DEF TypeOK, WorkerTypeOK, Run
<1> HIDE DEF r
<1>3. QED
  BY <1>1, <1>2 DEF stale, MarkDeleted, Goto, TypeOK, WorkerTypeOK

\* Reading a deleted row changes only the row at hand and the keys left.
LEMMA ReadDeletedRun ==
  ASSUME TypeOK, NEW w \in Workers, ReadDeleted(w)
  PROVE  /\ run'[w].job = run[w].job /\ run'[w].ver = run[w].ver
         /\ run'[w].snap = run[w].snap /\ run'[w].stats = run[w].stats
         /\ pc[w] = "deleted" /\ pc'[w] = "logdel"
         /\ run'[w].key \in run[w].dels
         /\ run'[w].dels = run[w].dels \ {run'[w].key}
         /\ \/ run'[w].old = rows[run'[w].key].val /\ unlogged' = unlogged
            \/ unlogged' = unlogged \cup {run'[w].key}
<1>1. PICK k \in run[w].dels, o \in Outcomes(w) :
        /\ run' = [run EXCEPT ![w].dels = @ \ {k}, ![w].key = k,
                              ![w].old = IF o = "ok" THEN rows[k].val ELSE Nil]
        /\ unlogged' = Unlogs({k}, o = "ok")
  BY DEF ReadDeleted
<1> DEFINE old == IF o = "ok" THEN rows[k].val ELSE Nil
           r == [run[w] EXCEPT !.dels = @ \ {k}, !.key = k, !.old = old]
<1>2. run' = [run EXCEPT ![w] = r]
  BY <1>1
<1>3. /\ old = rows[k].val /\ unlogged' = unlogged
      \/ unlogged' = unlogged \cup {k}
  BY <1>1 DEF Unlogs
<1> HIDE DEF old
<1>4. /\ r.job = run[w].job /\ r.ver = run[w].ver /\ r.snap = run[w].snap
      /\ r.stats = run[w].stats /\ r.key = k /\ r.dels = run[w].dels \ {k} /\ r.old = old
  BY DEF TypeOK, WorkerTypeOK, Run
<1> HIDE DEF r
<1>5. QED
  BY <1>2, <1>3, <1>4 DEF ReadDeleted, Goto, TypeOK, WorkerTypeOK

----------------------------------------------------------------------------
(* Versions *)

\* What was recorded is not newer than the clock, nor than a worker that is
\* alone and has taken its version.
NotAfter(ver) ==
  /\ \A k \in Keys : \A i \in 1..Len(changes[k]) : changes[k][i].ver <= ver
  /\ table.lastVer <= ver
  /\ \A s \in snapshots : s.ver <= ver
VersionInv ==
  /\ NotAfter(clock)
  /\ \A w \in Workers : Versioned(w) => run[w].ver <= clock /\ NotAfter(run[w].ver)

\* A step that records nothing and gives the worker no new version.
LEMMA VersionKeep ==
  ASSUME TypeOK, VersionInv, UNCHANGED <<changes, table, snapshots>>, clock <= clock', clock' \in Nat,
         \A w \in Workers : Versioned(w)' => Versioned(w) /\ run'[w].ver = run[w].ver
  PROVE  VersionInv'
<1>1. \A v \in Nat : NotAfter(v)' <=> NotAfter(v)
  BY DEF NotAfter
<1>2. /\ clock \in Nat
      /\ \A w \in Workers : run[w].ver \in Nat
      /\ \A k \in Keys : changes[k] \in Seq(Change)
      /\ table.lastVer \in Nat
      /\ \A s \in snapshots : s.ver \in Nat
  BY DEF TypeOK, PlatformTypeOK, WorkerTypeOK, Run, Version, Snapshot
<1>3. \A k \in Keys : \A i \in 1..Len(changes[k]) : changes[k][i].ver \in Nat
  <2>1. \A k \in Keys : \A i \in 1..Len(changes[k]) : changes[k][i] \in Change
    BY <1>2
  <2>2. QED
    BY <2>1 DEF Change, Version
<1>4. NotAfter(clock')
  BY <1>2, <1>3 DEF VersionInv, NotAfter
<1>5. QED
  BY <1>1, <1>2, <1>4 DEF VersionInv, NotAfter

\* VersionInv is inductive when no two workers share the table.
LEMMA VersionInductive ==
  ASSUME SoleWorker
  PROVE  TypeOK /\ VersionInv /\ [Next]_vars => VersionInv'
<1> SUFFICES ASSUME TypeOK, VersionInv, [Next]_vars PROVE VersionInv'
  OBVIOUS
<1> USE SoleWorker DEF SoleWorker
<1>a. /\ pc \in [Workers -> PCs] /\ run \in [Workers -> Run] /\ clock \in Nat
      /\ \A w \in Workers : run[w].ver \in Nat
      /\ \A k \in Keys : changes[k] \in Seq(Change)
  BY DEF TypeOK, WorkerTypeOK, PlatformTypeOK, Run, Version
<1>b. \A k \in Keys : \A i \in 1..Len(changes[k]) : changes[k][i].ver \in Nat
  <2>1. \A k \in Keys : \A i \in 1..Len(changes[k]) : changes[k][i] \in Change
    BY <1>a
  <2>2. QED
    BY <2>1 DEF Change, Version
<1>1. ASSUME NEW w \in Workers,
             \/ BeginSync(w) \/ StartJob(w) \/ OpenStream(w) \/ ConnectError(w)
             \/ NextRow(w) \/ StreamError(w) \/ EndOfStream(w) \/ Upsert(w)
             \/ MarkDeleted(w) \/ ReadDeleted(w) \/ CompleteJob(w) \/ CloseConn(w)
             \/ ProducerFails(w) \/ FailJob(w) \/ MarkSourceError(w) \/ Cancel(w)
      PROVE VersionInv'
  <2> SUFFICES /\ UNCHANGED <<clock, changes, table, snapshots>>
               /\ Versioned(w)' => Versioned(w) /\ run'[w].ver = run[w].ver
    BY <1>a, VersionKeep
  <2>1. CASE BeginSync(w)
    BY <2>1, <1>a DEF BeginSync, Goto, Versioned, Marked
  <2>2. CASE StartJob(w)
    BY <2>2, <1>a DEF StartJob, Goto, Return, Versioned, Marked
  <2>3. CASE OpenStream(w)
    BY <2>3, <1>a DEF OpenStream, Goto, platform, Versioned, Marked, Run
  <2>4. CASE ConnectError(w)
    BY <2>4, <1>a DEF ConnectError, Goto, platform, Versioned, Marked
  <2>5. CASE NextRow(w)
    BY <2>5, NextRowRun DEF NextRow, platform, Versioned
  <2>6. CASE StreamError(w)
    BY <2>6, <1>a DEF StreamError, Goto, platform, Versioned, Marked
  <2>7. CASE EndOfStream(w)
    BY <2>7, <1>a DEF EndOfStream, Goto, platform, Versioned, Marked
  <2>8. CASE Upsert(w)
    BY <2>8, UpsertRun DEF Upsert, Versioned
  <2>9. CASE MarkDeleted(w)
    BY <2>9, MarkDeletedRun DEF MarkDeleted, Versioned
  <2>10. CASE ReadDeleted(w)
    BY <2>10, ReadDeletedRun DEF ReadDeleted, platform, Versioned, Marked
  <2>11. CASE CompleteJob(w)
    BY <2>11, <1>a DEF CompleteJob, Goto, Versioned, Marked
  <2>12. CASE CloseConn(w)
    BY <2>12, <1>a DEF CloseConn, Goto, platform, Versioned, Marked
  <2>13. CASE ProducerFails(w)
    BY <2>13, <1>a DEF ProducerFails, platform, Versioned, Marked
  <2>14. CASE FailJob(w)
    BY <2>14, <1>a DEF FailJob, Goto, Versioned, Marked
  <2>15. CASE MarkSourceError(w)
    BY <2>15, <1>a DEF MarkSourceError, Goto, Return, Versioned, Marked
  <2>16. CASE Cancel(w)
    BY <2>16 DEF Cancel, platform, Versioned, Marked
  <2>17. QED
    BY <1>1, <2>1, <2>2, <2>3, <2>4, <2>5, <2>6, <2>7, <2>8, <2>9, <2>10, <2>11, <2>12,
       <2>13, <2>14, <2>15, <2>16
<1>2. ASSUME NEW w \in Workers, TakeVersion(w) PROVE VersionInv'
  <2>1. UNCHANGED <<clock, changes, table, snapshots>> /\ run'[w].ver = clock
    BY <1>2, <1>a DEF TakeVersion, platform, Run
  <2>2. NotAfter(clock)'
    BY <2>1 DEF VersionInv, NotAfter
  <2>3. NotAfter(run[w].ver)'
    BY <2>1, <2>2 DEF NotAfter
  <2>4. QED
    BY <1>a, <2>1, <2>2, <2>3 DEF VersionInv
<1>3. ASSUME NEW w \in Workers, LogChange(w) \/ LogDelete(w) PROVE VersionInv'
  <2>1. /\ UNCHANGED <<clock, table, snapshots, run>> /\ Versioned(w) /\ run[w].key \in Keys
        /\ Versioned(w)'
    BY <1>3, <1>a DEF LogChange, LogDelete, Goto, Versioned, Marked, TypeOK, AtHandOK
  <2>2. run[w].ver <= clock /\ NotAfter(clock) /\ NotAfter(run[w].ver)
    BY <2>1 DEF VersionInv
  <2>3. PICK e : /\ e.ver = run[w].ver
                 /\ \/ changes' = changes
                    \/ changes' = [changes EXCEPT ![run[w].key] = Append(@, e)]
    BY <1>3 DEF LogChange, LogDelete, RowChange, DeleteChange
  <2>4. \A k \in Keys : \A i \in 1..Len(changes'[k]) :
          changes'[k][i].ver = run[w].ver \/ (i \in 1..Len(changes[k]) /\ changes'[k][i] = changes[k][i])
    <3>1. CASE changes' = changes
      BY <3>1
    <3>2. CASE changes' = [changes EXCEPT ![run[w].key] = Append(@, e)]
      <4> SUFFICES ASSUME NEW k \in Keys, NEW i \in 1..Len(changes'[k])
                   PROVE  changes'[k][i].ver = run[w].ver
                          \/ (i \in 1..Len(changes[k]) /\ changes'[k][i] = changes[k][i])
        OBVIOUS
      <4>1. CASE k # run[w].key
        BY <3>2, <4>1 DEF TypeOK, PlatformTypeOK
      <4>2. CASE k = run[w].key
        <5>1. changes'[k] = Append(changes[k], e)
          BY <2>1, <3>2, <4>2 DEF TypeOK, PlatformTypeOK
        <5>2. changes[k] \in Seq(Change)
          BY <1>a
        <5>3. QED
          BY <2>3, <5>1, <5>2
      <4>3. QED
        BY <4>1, <4>2
    <3>3. QED
      BY <2>3, <3>1, <3>2
  <2>5. NotAfter(clock)' /\ NotAfter(run[w].ver)'
    <3> SUFFICES ASSUME NEW v \in Nat, run[w].ver <= v, NotAfter(v) PROVE NotAfter(v)'
      BY <1>a, <2>1, <2>2
    <3>1. \A k \in Keys : \A i \in 1..Len(changes'[k]) : changes'[k][i].ver <= v
      BY <2>4 DEF NotAfter
    <3>2. QED
      BY <2>1, <3>1 DEF NotAfter
  <2>6. QED
    BY <2>1, <2>2, <2>5 DEF VersionInv
<1>4. ASSUME NEW w \in Workers, UpdateTableSyncStats(w) PROVE VersionInv'
  <2>1. /\ UNCHANGED <<clock, changes, snapshots, run>> /\ Versioned(w)
        /\ table' = table \/ table'.lastVer = run[w].ver
    BY <1>4 DEF UpdateTableSyncStats, TableStats, Versioned, Marked
  <2>2. run[w].ver <= clock /\ NotAfter(clock) /\ NotAfter(run[w].ver)
    BY <2>1 DEF VersionInv
  <2>3. NotAfter(clock)' /\ NotAfter(run[w].ver)'
    BY <1>a, <2>1, <2>2 DEF NotAfter
  <2>4. QED
    BY <2>1, <2>2, <2>3 DEF VersionInv
<1>5. ASSUME NEW w \in Workers, CreateSnapshot(w) PROVE VersionInv'
  <2>1. /\ UNCHANGED <<clock, changes, table>> /\ Versioned(w) /\ ~Versioned(w)'
        /\ \A s \in snapshots' : s \in snapshots \/ s.ver = run[w].ver
    BY <1>5, <1>a DEF CreateSnapshot, AddSnapshot, Return, Goto, Versioned, Marked
  <2>2. run[w].ver <= clock /\ NotAfter(clock)
    BY <2>1 DEF VersionInv
  <2>3. NotAfter(clock)'
    BY <2>1, <2>2 DEF NotAfter
  <2>4. QED
    BY <2>1, <2>3 DEF VersionInv
<1>6. CASE Crash
  <2>1. \A w \in Workers : ~Versioned(w)'
    BY <1>6 DEF Crash, Versioned, Marked
  <2>2. QED
    BY <1>6, <1>a, <2>1, VersionKeep DEF Crash, platform
<1>7. CASE Tick
  BY <1>7, <1>a, VersionKeep DEF Tick, platform, Versioned, Marked
<1>8. CASE UNCHANGED vars
  BY <1>8, <1>a, VersionKeep DEF vars, platform, Versioned, Marked
<1>9. QED
  BY <1>1, <1>2, <1>3, <1>4, <1>5, <1>6, <1>7, <1>8 DEF Next, Step

\* The versions of a worker that is alone on the table only grow: the table's
\* last version, and the snapshots, whatever fails around it.
THEOREM SoleWorkerVersionsGrow ==
  ASSUME SoleWorker
  PROVE  Spec => WatermarkMonotone
<1> DEFINE Grows == /\ table'.lastVer >= table.lastVer
                    /\ \A s \in snapshots, t \in snapshots' \ snapshots : s.ver < t.ver
<1>1. Init => VersionInv
  BY DEF Init, VersionInv, NotAfter, Versioned, Marked
<1>2. TypeOK /\ VersionInv /\ [Next]_vars => [Grows]_vars
  <2> SUFFICES ASSUME TypeOK, VersionInv, Next PROVE Grows
    BY DEF vars
  <2>a. table.lastVer \in Nat /\ (\A w \in Workers : run[w].ver \in Nat) /\ \A s \in snapshots : s.ver \in Nat
    BY DEF TypeOK, PlatformTypeOK, WorkerTypeOK, Run, Version, Snapshot
  <2>1. ASSUME NEW w \in Workers, UpdateTableSyncStats(w) PROVE Grows
    <3>1. Versioned(w) /\ snapshots' = snapshots /\ (table' = table \/ table'.lastVer = run[w].ver)
      BY <2>1 DEF UpdateTableSyncStats, TableStats, Versioned, Marked
    <3>2. QED
      BY <2>a, <3>1 DEF VersionInv, NotAfter
  <2>2. ASSUME NEW w \in Workers, CreateSnapshot(w) PROVE Grows
    <3>1. /\ Versioned(w) /\ table' = table
          /\ \A t \in snapshots' \ snapshots :
                t.ver = run[w].ver /\ \A s \in snapshots : s.ver # run[w].ver
      BY <2>2 DEF CreateSnapshot, AddSnapshot, Versioned, Marked
    <3>2. QED
      BY <2>a, <3>1 DEF VersionInv, NotAfter
  <2>3. CASE UNCHANGED <<table, snapshots>>
    BY <2>3, <2>a
  <2>4. \/ table' = table /\ snapshots' = snapshots
        \/ \E w \in Workers : UpdateTableSyncStats(w) \/ CreateSnapshot(w)
    <3>1. ASSUME NEW w \in Workers,
                 \/ BeginSync(w) \/ StartJob(w) \/ TakeVersion(w) \/ OpenStream(w)
                 \/ ConnectError(w) \/ NextRow(w) \/ StreamError(w) \/ EndOfStream(w)
                 \/ Upsert(w) \/ LogChange(w) \/ MarkDeleted(w) \/ ReadDeleted(w)
          PROVE  table' = table /\ snapshots' = snapshots
      BY <3>1 DEF BeginSync, StartJob, TakeVersion, OpenStream, ConnectError, NextRow,
         StreamError, EndOfStream, Upsert, LogChange, MarkDeleted, ReadDeleted, platform
    <3>2. ASSUME NEW w \in Workers,
                 \/ LogDelete(w) \/ CompleteJob(w) \/ CloseConn(w) \/ ProducerFails(w)
                 \/ FailJob(w) \/ MarkSourceError(w) \/ Cancel(w)
          PROVE  table' = table /\ snapshots' = snapshots
      BY <3>2 DEF LogDelete, CompleteJob, CloseConn, ProducerFails, FailJob, MarkSourceError,
         Cancel, platform
    <3>3. CASE Crash \/ Tick
      BY <3>3 DEF Crash, Tick, platform
    <3>4. QED
      BY <3>1, <3>2, <3>3 DEF Next, Step
  <2>5. QED
    BY <2>1, <2>2, <2>3, <2>4
<1>3. QED
  BY <1>1, <1>2, VersionInductive, TypeCorrect, PTL DEF Spec, WatermarkMonotone

----------------------------------------------------------------------------
(* Snapshots *)

\* Why a snapshot is the record of a completed job, as long as the database
\* accepts the statements of a live context: past CompleteSyncJob the job holds
\* what the snapshot will, and nobody works on the job of a snapshot any more.
Completed(ver, stats) == [status |-> "completed", ver |-> ver, stats |-> stats]
JobHoldsRun(w) ==
  pc[w] \in {"stats", "snapshot"} /\ ~cancelled[w] =>
    jobs[run[w].job] = Completed(run[w].ver, run[w].stats)
SnapshotInv ==
  /\ \A w \in Workers : JobHoldsRun(w)
  /\ \A s \in snapshots :
       /\ s.job \in 1..Len(jobs)
       /\ jobs[s.job] = Completed(s.ver, s.stats)
       /\ \A w \in Workers : pc[w] # "idle" => run[w].job # s.job
  /\ \A s, t \in snapshots : s.ver = t.ver => s = t

\* What a worker does to a job that is its own leaves every snapshot's job alone.
LEMMA SnapshotsKeep ==
  ASSUME SnapshotInv, NEW w \in Workers, snapshots' = snapshots,
         Len(jobs') = Len(jobs),
         \A j \in 1..Len(jobs) : jobs'[j] = jobs[j] \/ (pc[w] # "idle" /\ j = run[w].job),
         \A v \in Workers : pc'[v] # "idle" => pc[v] # "idle" /\ run'[v].job = run[v].job,
         \A v \in Workers : JobHoldsRun(v)'
  PROVE  SnapshotInv'
<1>1. ASSUME NEW s \in snapshots
      PROVE  /\ s.job \in 1..Len(jobs')
             /\ jobs'[s.job] = Completed(s.ver, s.stats)
             /\ \A v \in Workers : pc'[v] # "idle" => run'[v].job # s.job
  BY DEF SnapshotInv
<1>2. QED
  BY <1>1 DEF SnapshotInv, Completed

\* A worker stands where its job holds what the snapshot will, or goes
\* nowhere near.
LEMMA RunsKeep ==
  ASSUME SnapshotInv, jobs' = jobs, NEW v \in Workers,
         \/ pc'[v] \notin {"stats", "snapshot"}
         \/ /\ pc[v] \in {"stats", "snapshot"} /\ run'[v] = run[v]
            /\ cancelled[v] => cancelled'[v]
  PROVE  JobHoldsRun(v)'
<1>1. CASE pc'[v] \notin {"stats", "snapshot"}
  BY <1>1 DEF JobHoldsRun
<1>2. CASE /\ pc[v] \in {"stats", "snapshot"} /\ run'[v] = run[v]
           /\ cancelled[v] => cancelled'[v]
  BY <1>2 DEF JobHoldsRun, SnapshotInv, Completed
<1>3. QED
  BY <1>1, <1>2

\* SnapshotInv is inductive as long as the platform database has no faults.
LEMMA SnapshotInductive ==
  ASSUME "platform" \notin Faults
  PROVE  TypeOK /\ JobsInv /\ SnapshotInv /\ [Next]_vars => SnapshotInv'
<1> SUFFICES ASSUME TypeOK, JobsInv, SnapshotInv, [Next]_vars PROVE SnapshotInv'
  OBVIOUS
<1>a. /\ pc \in [Workers -> PCs] /\ run \in [Workers -> Run] /\ jobs \in Seq(Job)
      /\ cancelled \in [Workers -> BOOLEAN]
      /\ \A w \in Workers : pc[w] # "idle" => run[w].job \in 1..Len(jobs)
  BY DEF TypeOK, WorkerTypeOK, AtHandOK, PlatformTypeOK
<1>b. \A w \in Workers : \A o \in Outcomes(w) : o = IF cancelled[w] THEN "error" ELSE "ok"
  <2> TAKE w \in Workers
  <2>1. CASE cancelled[w]
    BY <2>1 DEF Outcomes
  <2>2. CASE ~cancelled[w]
    BY <2>2 DEF Outcomes
  <2>3. QED
    BY <2>1, <2>2
<1>1. ASSUME NEW w \in Workers, BeginSync(w) PROVE SnapshotInv'
  <2>1. PICK o \in Outcomes(w) \ {"error"} :
          /\ jobs' = Append(jobs, [status |-> "pending", ver |-> 0, stats |-> NoStats])
          /\ IF o = "ok" THEN /\ Goto(w, "start")
                              /\ run' = [run EXCEPT ![w].job = NewJobId]
                         ELSE UNCHANGED <<pc, run>>
    BY <1>1 DEF BeginSync
  <2>2. /\ Len(jobs) \in Nat /\ Len(jobs') = Len(jobs) + 1 /\ NewJobId = Len(jobs')
        /\ \A j \in 1..Len(jobs) : jobs'[j] = jobs[j]
        /\ pc[w] = "idle" /\ snapshots' = snapshots /\ cancelled' = cancelled
    BY <1>1, <2>1, <1>a DEF BeginSync, NewJobId
  <2>3. \A v \in Workers \ {w} : pc'[v] = pc[v] /\ run'[v] = run[v]
    BY <2>1, <1>a DEF Goto
  <2>4. (pc'[w] = "start" /\ run'[w].job = NewJobId) \/ pc'[w] = "idle"
    <3>1. CASE o = "ok"
      BY <2>1, <3>1, <1>a DEF Goto, Run
    <3>2. CASE o # "ok"
      BY <2>1, <2>2, <3>2
    <3>3. QED
      BY <3>1, <3>2
  <2>5. ASSUME NEW v \in Workers PROVE JobHoldsRun(v)'
    <3>1. CASE v = w
      BY <2>4, <3>1 DEF JobHoldsRun
    <3>2. CASE v # w
      <4>1. pc[v] # "idle" => jobs'[run[v].job] = jobs[run[v].job]
        BY <1>a, <2>2
      <4>2. QED
        BY <2>2, <2>3, <3>2, <4>1 DEF JobHoldsRun, SnapshotInv, Completed
    <3>3. QED
      BY <3>1, <3>2
  <2>6. ASSUME NEW s \in snapshots
        PROVE  /\ s.job \in 1..Len(jobs')
               /\ jobs'[s.job] = Completed(s.ver, s.stats)
               /\ \A v \in Workers : pc'[v] # "idle" => run'[v].job # s.job
    BY <2>2, <2>3, <2>4 DEF SnapshotInv
  <2>7. QED
    BY <2>2, <2>5, <2>6 DEF SnapshotInv, Completed
<1>2. ASSUME NEW w \in Workers, StartJob(w) \/ FailJob(w) PROVE SnapshotInv'
  <2>1. /\ snapshots' = snapshots /\ pc[w] # "idle"
        /\ pc'[w] \notin {"stats", "snapshot"}
        /\ pc'[w] # "idle" => run'[w] = run[w]
        /\ \A v \in Workers \ {w} : pc'[v] = pc[v] /\ run'[v] = run[v] /\ cancelled'[v] = cancelled[v]
    BY <1>2, <1>a DEF StartJob, FailJob, Goto, Return
  <2>2. /\ Len(jobs') = Len(jobs)
        /\ \A j \in 1..Len(jobs) : jobs'[j] = jobs[j] \/ j = run[w].job
    <3>1. jobs' = jobs \/ \E st \in {"running", "failed"} : SetStatus(run[w].job, st)
      BY <1>2 DEF StartJob, FailJob
    <3>2. QED
      BY <1>a, <2>1, <3>1, StatusSet
  <2>3. ASSUME NEW v \in Workers PROVE JobHoldsRun(v)'
    <3>1. CASE v = w
      BY <2>1, <3>1 DEF JobHoldsRun
    <3>2. CASE v # w
      <4>1. pc[v] # "idle" => jobs'[run[v].job] = jobs[run[v].job]
        BY <1>a, <2>1, <2>2, <3>2 DEF JobsInv
      <4>2. QED
        BY <2>1, <3>2, <4>1 DEF JobHoldsRun, SnapshotInv, Completed
    <3>3. QED
      BY <3>1, <3>2
  <2>4. QED
    BY <2>1, <2>2, <2>3, SnapshotsKeep
<1>3. ASSUME NEW w \in Workers, CompleteJob(w) PROVE SnapshotInv'
  <2>1. PICK o \in Outcomes(w) :
          jobs' = IF Applied(o)
                  THEN [jobs EXCEPT ![run[w].job] = Completed(run[w].ver, run[w].stats)]
                  ELSE jobs
    BY <1>3 DEF CompleteJob, Completed
  <2>2. /\ snapshots' = snapshots /\ pc[w] = "deleted" /\ run' = run /\ cancelled' = cancelled
        /\ pc'[w] = "stats" /\ \A v \in Workers \ {w} : pc'[v] = pc[v]
    BY <1>3, <1>a DEF CompleteJob, Goto
  <2>3. /\ Len(jobs') = Len(jobs)
        /\ \A j \in 1..Len(jobs) \ {run[w].job} : jobs'[j] = jobs[j]
        /\ Applied(o) => jobs'[run[w].job] = Completed(run[w].ver, run[w].stats)
    BY <1>a, <2>1, <2>2
  <2>4. ASSUME NEW v \in Workers PROVE JobHoldsRun(v)'
    <3>1. CASE v = w
      BY <1>b, <2>2, <2>3, <3>1 DEF JobHoldsRun, Applied, Completed
    <3>2. CASE v # w
      <4>1. pc[v] # "idle" => jobs'[run[v].job] = jobs[run[v].job]
        BY <1>a, <2>2, <2>3, <3>2 DEF JobsInv
      <4>2. QED
        BY <2>2, <3>2, <4>1 DEF JobHoldsRun, SnapshotInv, Completed
    <3>3. QED
      BY <3>1, <3>2
  <2>5. QED
    BY <2>2, <2>3, <2>4, SnapshotsKeep
<1>4. ASSUME NEW w \in Workers, CreateSnapshot(w) PROVE SnapshotInv'
  <2> DEFINE s == [ver |-> run[w].ver, job |-> run[w].job, stats |-> run[w].stats]
  <2>1. /\ jobs' = jobs /\ pc[w] = "snapshot" /\ pc'[w] = "idle"
        /\ \A v \in Workers \ {w} : pc'[v] = pc[v] /\ run'[v] = run[v] /\ cancelled'[v] = cancelled[v]
        /\ snapshots' = snapshots \/ (~cancelled[w] /\ snapshots' = AddSnapshot(s))
    BY <1>4, <1>a, <1>b DEF CreateSnapshot, Return, Goto, Applied
  <2>2. \A v \in Workers : JobHoldsRun(v)'
    BY <2>1 DEF JobHoldsRun, SnapshotInv, Completed
  <2>3. CASE snapshots' = snapshots
    BY <1>a, <2>1, <2>2, <2>3, SnapshotsKeep
  <2>4. CASE ~cancelled[w] /\ snapshots' = AddSnapshot(s)
    <3>1. /\ s.job \in 1..Len(jobs) /\ jobs[s.job] = Completed(s.ver, s.stats)
          /\ \A v \in Workers : pc'[v] # "idle" => run'[v].job # s.job
      BY <1>a, <2>1, <2>4 DEF JobsInv, SnapshotInv, JobHoldsRun
    <3>2. \A t \in snapshots : \A v \in Workers : pc'[v] # "idle" => run'[v].job # t.job
      BY <2>1 DEF SnapshotInv
    <3>3. \/ snapshots' = snapshots
          \/ snapshots' = snapshots \cup {s} /\ \A t \in snapshots : t.ver # s.ver
      BY <2>4 DEF AddSnapshot
    <3> HIDE DEF s
    <3>4. \A t \in snapshots' : t = s \/ t \in snapshots
      BY <3>3
    <3>5. \A t \in snapshots' : /\ t.job \in 1..Len(jobs')
                                /\ jobs'[t.job] = Completed(t.ver, t.stats)
                                /\ \A v \in Workers : pc'[v] # "idle" => run'[v].job # t.job
      BY <2>1, <3>1, <3>2, <3>4 DEF SnapshotInv
    <3>6. \A t, u \in snapshots' : t.ver = u.ver => t = u
      BY <3>3 DEF SnapshotInv
    <3>7. QED
      BY <2>2, <3>5, <3>6 DEF SnapshotInv, Completed
  <2>5. QED
    BY <2>1, <2>3, <2>4
<1>5. ASSUME NEW w \in Workers,
             \/ TakeVersion(w) \/ OpenStream(w) \/ ConnectError(w) \/ NextRow(w)
             \/ StreamError(w) \/ EndOfStream(w) \/ Upsert(w) \/ LogChange(w)
             \/ MarkDeleted(w) \/ ReadDeleted(w) \/ LogDelete(w)
             \/ CloseConn(w) \/ ProducerFails(w)
      PROVE SnapshotInv'
  <2> SUFFICES /\ jobs' = jobs /\ snapshots' = snapshots /\ pc[w] # "idle"
               /\ cancelled' = cancelled
               /\ run'[w].job = run[w].job /\ pc'[w] \notin {"idle", "stats", "snapshot"}
               /\ \A v \in Workers \ {w} : pc'[v] = pc[v] /\ run'[v] = run[v]
    <3>1. \A v \in Workers : JobHoldsRun(v)'
      <4>1. ASSUME NEW v \in Workers, v # w PROVE JobHoldsRun(v)'
        BY <4>1 DEF JobHoldsRun, SnapshotInv, Completed
      <4>2. QED
        BY <4>1, RunsKeep
    <3>2. QED
      BY <3>1, SnapshotsKeep
  <2>1. CASE TakeVersion(w)
    BY <2>1, <1>a DEF TakeVersion, Goto, platform, Run
  <2>2. CASE OpenStream(w)
    BY <2>2, <1>a DEF OpenStream, Goto, platform, Run
  <2>3. CASE ConnectError(w)
    BY <2>3, <1>a DEF ConnectError, Goto, platform
  <2>4. CASE NextRow(w)
    <3>1. \A v \in Workers \ {w} : pc'[v] = pc[v] /\ run'[v] = run[v]
      BY <2>4, <1>a DEF NextRow, Goto
    <3>2. QED
      BY <2>4, <3>1, NextRowRun DEF NextRow, platform
  <2>5. CASE StreamError(w)
    BY <2>5, <1>a DEF StreamError, Goto, platform, Run
  <2>6. CASE EndOfStream(w)
    BY <2>6, <1>a DEF EndOfStream, Goto, platform
  <2>7. CASE Upsert(w)
    BY <2>7, <1>a, UpsertRun DEF Upsert, Goto, AfterUpsert
  <2>8. CASE LogChange(w)
    BY <2>8, <1>a DEF LogChange, Goto
  <2>9. CASE MarkDeleted(w)
    BY <2>9, <1>a, MarkDeletedRun DEF MarkDeleted, Goto
  <2>10. CASE ReadDeleted(w)
    <3>1. \A v \in Workers \ {w} : pc'[v] = pc[v] /\ run'[v] = run[v]
      BY <2>10, <1>a DEF ReadDeleted, Goto
    <3>2. QED
      BY <2>10, <3>1, ReadDeletedRun DEF ReadDeleted, platform
  <2>11. CASE LogDelete(w)
    BY <2>11, <1>a DEF LogDelete, Goto
  <2>12. CASE CloseConn(w)
    BY <2>12, <1>a DEF CloseConn, Goto, platform
  <2>13. CASE ProducerFails(w)
    BY <2>13, <1>a DEF ProducerFails, platform, Run
  <2>14. QED
    BY <1>5, <2>1, <2>2, <2>3, <2>4, <2>5, <2>6, <2>7, <2>8, <2>9, <2>10, <2>11, <2>12, <2>13
<1>6. ASSUME NEW w \in Workers, UpdateTableSyncStats(w) \/ Cancel(w) PROVE SnapshotInv'
  <2>1. /\ jobs' = jobs /\ snapshots' = snapshots /\ run' = run
        /\ \A v \in Workers : cancelled[v] => cancelled'[v]
        /\ \A v \in Workers : /\ pc'[v] = pc[v] \/ (pc[v] = "stats" /\ pc'[v] = "snapshot")
    BY <1>6, <1>a DEF UpdateTableSyncStats, Cancel, Goto, platform
  <2>2. \A v \in Workers : JobHoldsRun(v)'
    BY <2>1, RunsKeep
  <2>3. QED
    BY <2>1, <2>2, SnapshotsKeep
<1>7. ASSUME NEW w \in Workers, MarkSourceError(w) PROVE SnapshotInv'
  <2>1. /\ jobs' = jobs /\ snapshots' = snapshots /\ pc'[w] = "idle"
        /\ \A v \in Workers \ {w} : pc'[v] = pc[v] /\ run'[v] = run[v] /\ cancelled'[v] = cancelled[v]
    BY <1>7, <1>a DEF MarkSourceError, Goto, Return
  <2>2. \A v \in Workers : JobHoldsRun(v)'
    BY <2>1, RunsKeep
  <2>3. QED
    BY <2>1, <2>2, SnapshotsKeep
<1>8. CASE Crash \/ Tick \/ UNCHANGED vars
  <2>1. /\ jobs' = jobs /\ snapshots' = snapshots
        /\ \A v \in Workers :
              \/ pc'[v] = "idle"
              \/ pc'[v] = pc[v] /\ run'[v] = run[v] /\ cancelled'[v] = cancelled[v]
    BY <1>8 DEF Crash, Tick, vars, platform
  <2>2. \A v \in Workers : JobHoldsRun(v)'
    BY <2>1, RunsKeep
  <2>3. ASSUME NEW s \in snapshots, NEW v \in Workers, pc'[v] # "idle"
        PROVE  run'[v].job # s.job
    BY <2>1, <2>3 DEF SnapshotInv
  <2>4. QED
    BY <2>1, <2>2, <2>3 DEF SnapshotInv, Completed
<1>9. QED
  BY <1>1, <1>2, <1>3, <1>4, <1>5, <1>6, <1>7, <1>8 DEF Next, Step

\* However many syncs overlap and wherever they are cancelled, every snapshot is
\* the record of a completed job and no two have the same version, as long as
\* the platform database has no faults of its own.
THEOREM CompletedRuns ==
  ASSUME "platform" \notin Faults
  PROVE  Spec => []SnapshotsAreCompletedRuns
<1>1. Init => SnapshotInv /\ JobsInv
  BY DEF Init, SnapshotInv, JobHoldsRun, JobsInv, NoOrphanJobs
<1>2. SnapshotInv => SnapshotsAreCompletedRuns
  BY DEF SnapshotInv, SnapshotsAreCompletedRuns, Completed
<1>3. QED
  BY <1>1, <1>2, TypeCorrect, JobsInductive, SnapshotInductive, PTL DEF Spec

----------------------------------------------------------------------------
(* The change log *)

\* Why the log of a key replays and chains for a worker that is alone: a row it
\* has written and not logged yet differs from what the log leaves by that write
\* alone.
Written(w, k) ==
  /\ rows[k].val = run[w].snap[k]
  /\ ~rows[k].deleted
  /\ IF changes[k] = <<>> THEN run[w].old = Nil
     ELSE run[w].old # Nil /\ run[w].old = DataAfter(LastChange(k))
Removed(k) ==
  /\ changes[k] # <<>>
  /\ Ingested(k)
  /\ rows[k].deleted
  /\ LastChange(k).op # "DELETE"
  /\ LastChange(k).new = rows[k].val
KeyLogs(k) ==
  /\ IsChain(changes[k])
  /\ ~LogPending(k) => Replays(k)
  /\ \A w \in Workers :
       /\ pc[w] = "log" /\ run[w].key = k => Written(w, k)
       /\ pc[w] = "logdel" /\ run[w].key = k => Removed(k) /\ run[w].old = rows[k].val
       /\ k \in run[w].dels => Removed(k)
DeletesInHand(w) ==
  /\ pc[w] \notin {"deleted", "logdel"} => run[w].dels = {}
  /\ pc[w] = "logdel" => run[w].key \notin run[w].dels
LogInv ==
  /\ \A w \in Workers : DeletesInHand(w)
  /\ \A k \in Keys \ unlogged : KeyLogs(k)

\* A chain and an entry that follows its last one.
LEMMA ChainAppend ==
  ASSUME NEW s \in Seq(Change), NEW e \in Change, IsChain(s),
         e.op = "INSERT" <=> s = <<>>,
         s # <<>> => Follows(s[Len(s)], e)
  PROVE  IsChain(Append(s, e))
<1> DEFINE t == Append(s, e)
<1>1. /\ Len(s) \in Nat /\ Len(t) = Len(s) + 1 /\ t[Len(s) + 1] = e
      /\ \A i \in 1..Len(s) : t[i] = s[i]
      /\ s = <<>> <=> Len(s) = 0
  OBVIOUS
<1> HIDE DEF t
<1>2. ASSUME NEW i \in 1..Len(t)
      PROVE  /\ t[i].op = "INSERT" <=> i = 1
             /\ i > 1 => Follows(t[i - 1], t[i])
  <2>1. CASE i = Len(s) + 1
    <3>1. t[i] = e /\ (i > 1 => t[i - 1] = s[Len(s)] /\ s # <<>>)
      BY <1>1, <2>1
    <3>2. QED
      BY <1>1, <2>1, <3>1
  <2>2. CASE i # Len(s) + 1
    <3>1. i \in 1..Len(s) /\ t[i] = s[i] /\ (i > 1 => t[i - 1] = s[i - 1])
      BY <1>1, <2>2
    <3>2. QED
      BY <3>1 DEF IsChain
  <2>3. QED
    BY <2>1, <2>2
<1>3. IsChain(t)
  BY <1>2 DEF IsChain
<1>4. QED
  BY <1>3 DEF t

\* A key whose row and log stay, and whom no worker takes in hand.
LEMMA KeyKeep ==
  ASSUME NEW k \in Keys, KeyLogs(k), changes'[k] = changes[k],
         rows'[k].val = rows[k].val, rows'[k].deleted = rows[k].deleted,
         \A v \in Workers :
           /\ pc'[v] = "log" /\ run'[v].key = k =>
                /\ pc[v] = "log" /\ run[v].key = k
                /\ run'[v].old = run[v].old /\ run'[v].snap = run[v].snap
           /\ pc'[v] = "logdel" /\ run'[v].key = k =>
                pc[v] = "logdel" /\ run[v].key = k /\ run'[v].old = run[v].old
           /\ k \in run'[v].dels => k \in run[v].dels
           /\ k \in Owed(v) => k \in Owed(v)'
  PROVE  KeyLogs(k)'
<1>1. IsChain(changes[k])'
  BY DEF KeyLogs, IsChain, Follows, DataAfter
<1>2. Replays(k)' <=> Replays(k)
  BY DEF Replays, Ingested, LastChange, DataAfter
<1>3. (~LogPending(k) => Replays(k))'
  BY <1>2 DEF KeyLogs, LogPending
<1>4. Removed(k) => Removed(k)'
  BY DEF Removed, Ingested, LastChange
<1>5. ASSUME NEW v \in Workers, pc'[v] = "log", run'[v].key = k PROVE Written(v, k)'
  <2>1. Written(v, k)
    BY <1>5 DEF KeyLogs
  <2>2. QED
    BY <1>5, <2>1 DEF Written, LastChange, DataAfter
<1>6. ASSUME NEW v \in Workers, pc'[v] = "logdel", run'[v].key = k
      PROVE  Removed(k)' /\ run'[v].old = rows'[k].val
  BY <1>4, <1>6 DEF KeyLogs
<1>7. ASSUME NEW v \in Workers, k \in run'[v].dels PROVE Removed(k)'
  BY <1>4, <1>7 DEF KeyLogs
<1>8. QED
  BY <1>1, <1>3, <1>5, <1>6, <1>7 DEF KeyLogs

\* A worker with nothing to log, before and after a step that leaves the rows
\* and the log.
LEMMA LogQuiet ==
  ASSUME SoleWorker, LogInv, NEW w \in Workers,
         rows' = rows, changes' = changes, unlogged' = unlogged,
         pc[w] \notin {"log", "logdel"}, pc'[w] \notin {"log", "logdel"},
         run[w].dels = {}, run'[w].dels = {}
  PROVE  LogInv'
<1>1. DeletesInHand(w)'
  BY DEF DeletesInHand
<1>2. ASSUME NEW k \in Keys, k \notin unlogged PROVE KeyLogs(k)'
  <2>1. KeyLogs(k) /\ k \notin Owed(w)
    BY <1>2 DEF LogInv, Owed
  <2>2. \A v \in Workers : v = w
    BY DEF SoleWorker
  <2>3. QED
    BY <2>1, <2>2, KeyKeep
<1>3. QED
  BY <1>1, <1>2 DEF LogInv, SoleWorker

\* Nothing a worker does to its rows, its log or what it has to log changes.
LEMMA LogSame ==
  ASSUME LogInv, rows' = rows, changes' = changes, unlogged' = unlogged,
         pc' = pc, run' = run
  PROVE  LogInv'
<1>1. ASSUME NEW k \in Keys, k \notin unlogged PROVE KeyLogs(k)'
  <2>1. KeyLogs(k) /\ \A v \in Workers : Owed(v)' = Owed(v)
    BY <1>1 DEF LogInv, Owed
  <2>2. QED
    BY <2>1, KeyKeep
<1>2. QED
  BY <1>1 DEF LogInv, DeletesInHand

\* An entry is added to the log of the row at hand of a worker that is alone.
LEMMA EntryAdded ==
  ASSUME SoleWorker, TypeOK, VersionInv, LogInv,
         NEW w \in Workers, pc[w] \in {"log", "logdel"}, pc'[w] \in {"stream", "deleted"},
         rows' = rows, run' = run,
         pc[w] = "log" => pc'[w] = "stream", pc[w] = "logdel" => pc'[w] = "deleted",
         NEW e \in Change, e.ver = run[w].ver,
         \/ changes' = [changes EXCEPT ![run[w].key] = Append(@, e)] /\ unlogged' = unlogged
         \/ changes' = changes /\ unlogged' = unlogged \cup {run[w].key},
         run[w].key \in Keys \ unlogged =>
           /\ e.op = "INSERT" <=> changes[run[w].key] = <<>>
           /\ changes[run[w].key] # <<>> =>
                /\ e.old = DataAfter(LastChange(run[w].key))
                /\ LastChange(run[w].key).op # "DELETE" \/ e.op = "UPDATE"
           /\ Ingested(run[w].key) /\ rows[run[w].key].val = DataAfter(e)
           /\ rows[run[w].key].deleted <=> e.op = "DELETE"
  PROVE  LogInv'
<1> DEFINE key == run[w].key
<1>a. /\ changes \in [Keys -> Seq(Change)] /\ key \in Keys
      /\ \A v \in Workers : v = w
      /\ unlogged \subseteq unlogged'
  BY DEF SoleWorker, TypeOK, PlatformTypeOK, AtHandOK
<1>1. DeletesInHand(w)'
  BY DEF LogInv, DeletesInHand
<1>2. ASSUME NEW k \in Keys, k \notin unlogged', k # key PROVE KeyLogs(k)'
  <2>1. KeyLogs(k) /\ changes'[k] = changes[k]
    BY <1>2, <1>a DEF LogInv
  <2>2. k \in Owed(w) => k \in Owed(w)'
    BY <1>2 DEF Owed
  <2>3. QED
    BY <1>2, <1>a, <2>1, <2>2, KeyKeep
<1>3. ASSUME key \notin unlogged' PROVE KeyLogs(key)'
  <2>1. /\ key \notin unlogged /\ KeyLogs(key)
        /\ changes'[key] = Append(changes[key], e)
    BY <1>3, <1>a DEF LogInv
  <2> DEFINE s == changes[key]
  <2>2. s \in Seq(Change) /\ IsChain(s)
    BY <1>a, <2>1 DEF KeyLogs
  <2>3. s # <<>> => Follows(s[Len(s)], e)
    <3> SUFFICES ASSUME s # <<>> PROVE Follows(s[Len(s)], e)
      OBVIOUS
    <3>1. Len(s) \in 1..Len(s)
      BY <2>2
    <3>2. s[Len(s)].ver <= e.ver
      BY <1>a, <3>1 DEF VersionInv, NotAfter, Versioned, Marked
    <3>3. QED
      BY <1>a, <2>1, <3>2 DEF Follows, LastChange
  <2>4. e.op = "INSERT" <=> s = <<>>
    BY <1>a, <2>1
  <2>5. IsChain(Append(s, e))
    BY <2>2, <2>3, <2>4, ChainAppend
  <2>6. IsChain(changes'[run'[w].key])
    BY <2>1, <2>5
  <2>7. changes'[key] # <<>> /\ changes'[key][Len(changes'[key])] = e
    BY <2>1, <2>2
  <2>8. Replays(key)'
    BY <1>a, <2>1, <2>7 DEF Replays, Ingested, LastChange, DataAfter
  <2>9. key \notin run'[w].dels
    BY DEF LogInv, DeletesInHand
  <2>10. pc'[w] \notin {"log", "logdel"}
    OBVIOUS
  <2>11. QED
    BY <1>a, <2>6, <2>8, <2>9, <2>10 DEF KeyLogs
<1>4. ASSUME NEW k \in (Keys \ unlogged)' PROVE KeyLogs(k)'
  BY <1>2, <1>3, <1>4
<1>5. QED
  BY <1>1, <1>4, <1>a DEF LogInv

\* LogInv is inductive when no two workers share the table.
LEMMA LogInductive ==
  ASSUME SoleWorker
  PROVE  TypeOK /\ MirrorInv /\ VersionInv /\ LogInv /\ [Next]_vars => LogInv'
<1> SUFFICES ASSUME TypeOK, MirrorInv, VersionInv, LogInv, [Next]_vars PROVE LogInv'
  OBVIOUS
<1>a. /\ pc \in [Workers -> PCs] /\ run \in [Workers -> Run]
      /\ rows \in [Keys -> Row] /\ changes \in [Keys -> Seq(Change)]
      /\ \A v, w \in Workers : v = w
      /\ unlogged \subseteq Keys
  BY DEF TypeOK, WorkerTypeOK, PlatformTypeOK, HistoryOK, SoleWorker
<1>b. \A w \in Workers : pc[w] \notin {"deleted", "logdel"} => run[w].dels = {}
  BY DEF LogInv, DeletesInHand
<1>1. ASSUME NEW w \in Workers,
             \/ BeginSync(w) \/ StartJob(w) \/ TakeVersion(w) \/ OpenStream(w)
             \/ ConnectError(w) \/ NextRow(w) \/ StreamError(w) \/ EndOfStream(w)
             \/ CompleteJob(w) \/ UpdateTableSyncStats(w) \/ CreateSnapshot(w)
             \/ CloseConn(w) \/ ProducerFails(w) \/ FailJob(w) \/ MarkSourceError(w)
      PROVE LogInv'
  <2> SUFFICES /\ rows' = rows /\ changes' = changes /\ unlogged' = unlogged
               /\ pc[w] \notin {"log", "logdel"} /\ pc'[w] \notin {"log", "logdel"}
               /\ run[w].dels = {} /\ run'[w].dels = {}
    BY LogQuiet
  <2>a. NoRun.dels = {}
    BY DEF NoRun
  <2>1. CASE BeginSync(w)
    <3>1. run'[w].dels = run[w].dels /\ pc'[w] \in {"idle", "start"}
      BY <2>1, <1>a DEF BeginSync, Goto, Run
    <3>2. QED
      BY <2>1, <1>b, <3>1 DEF BeginSync
  <2>2. CASE StartJob(w)
    BY <2>2, <2>a, <1>a, <1>b DEF StartJob, Goto, Return
  <2>3. CASE TakeVersion(w)
    BY <2>3, <1>a, <1>b DEF TakeVersion, Goto, platform, history, Run
  <2>4. CASE OpenStream(w)
    <3>1. run'[w].dels = run[w].dels
      BY <2>4, <1>a DEF OpenStream, Run
    <3>2. QED
      BY <2>4, <1>a, <1>b, <3>1 DEF OpenStream, Goto, platform, history
  <2>5. CASE ConnectError(w)
    BY <2>5, <1>a, <1>b DEF ConnectError, Goto, platform, history
  <2>6. CASE NextRow(w)
    BY <2>6, <1>b, NextRowRun DEF NextRow, platform, history
  <2>7. CASE StreamError(w)
    BY SMTT(60), <2>7, <1>a, <1>b DEF StreamError, Goto, platform, history, Run
  <2>8. CASE EndOfStream(w)
    BY <2>8, <1>a, <1>b DEF EndOfStream, Goto, platform, history
  <2>9. CASE CompleteJob(w)
    BY <2>9, <1>a, <1>b DEF CompleteJob, Goto
  <2>10. CASE UpdateTableSyncStats(w)
    BY <2>10, <1>a, <1>b DEF UpdateTableSyncStats, Goto, history
  <2>11. CASE CreateSnapshot(w)
    BY <2>11, <2>a, <1>a, <1>b DEF CreateSnapshot, Goto, Return, history
  <2>12. CASE CloseConn(w)
    BY <2>12, <1>a, <1>b DEF CloseConn, Goto, platform, history
  <2>13. CASE ProducerFails(w)
    <3>1. run'[w].dels = run[w].dels
      BY <2>13, <1>a DEF ProducerFails, Run
    <3>2. QED
      BY <2>13, <1>b, <3>1 DEF ProducerFails, platform, history
  <2>14. CASE FailJob(w)
    BY <2>14, <1>a, <1>b DEF FailJob, Goto
  <2>15. CASE MarkSourceError(w)
    BY <2>15, <2>a, <1>a, <1>b DEF MarkSourceError, Goto, Return, history
  <2>16. QED
    BY <1>1, <2>1, <2>2, <2>3, <2>4, <2>5, <2>6, <2>7, <2>8, <2>9, <2>10, <2>11, <2>12,
       <2>13, <2>14, <2>15
<1>2. ASSUME NEW w \in Workers, Upsert(w) PROVE LogInv'
  <2>k. PICK key : key = run[w].key
    OBVIOUS
  <2> DEFINE old == run[w].old
             new == run[w].snap[key]
  <2>1. /\ pc[w] = "upsert" /\ changes' = changes /\ unlogged \subseteq unlogged'
        /\ key \in Keys /\ new # Nil /\ rows[key].val = old /\ run[w].dels = {}
        /\ pc'[w] \in {"log", "stream", "close"}
        /\ pc'[w] = "log" => old # new
    BY <1>2, <1>a, <1>b, <2>k
       DEF Upsert, Unlogs, TypeOK, AtHandOK, MirrorInv, WorkerMirrors, Goto, AfterUpsert
  <2>2. /\ run'[w].dels = {} /\ run'[w].key = key /\ run'[w].snap = run[w].snap
        /\ run'[w].old = old
    BY <1>2, <2>1, <2>k, UpsertRun
  <2>3. \/ rows' = rows /\ pc'[w] # "log"
        \/ /\ old = new /\ pc'[w] # "log"
           /\ rows' = [rows EXCEPT ![key] = UpsertedRow(@, old, new, run[w].ver)]
        \/ /\ old # new
           /\ rows' = [rows EXCEPT ![key] = UpsertedRow(@, old, new, run[w].ver)]
           /\ pc'[w] = "log" \/ key \in unlogged'
    BY <1>2, <1>a, <2>k DEF Upsert, Unlogs, Goto, AfterUpsert, Applied, Outcomes
  <2>4. \A k \in Keys : k # key => rows'[k] = rows[k]
    BY <1>a, <2>3
  <2>5. ASSUME NEW k \in Keys, k \notin unlogged, k # key PROVE KeyLogs(k)'
    <3>1. KeyLogs(k) /\ k \notin Owed(w)
      BY <2>1, <2>5 DEF LogInv, Owed
    <3>2. QED
      BY <1>a, <2>1, <2>2, <2>4, <2>5, <3>1, KeyKeep
  <2>6. ASSUME key \notin unlogged' PROVE KeyLogs(key)'
    <3>1. KeyLogs(key) /\ key \notin Owed(w) /\ Replays(key)
      BY <1>a, <2>1, <2>6 DEF LogInv, KeyLogs, LogPending, Owed
    <3>2. CASE /\ pc'[w] # "log"
               /\ rows'[key].val = rows[key].val /\ rows'[key].deleted = rows[key].deleted
      <4>0. pc'[w] \notin {"log", "logdel"} /\ key \notin Owed(w) /\ key \notin run'[w].dels
        BY <2>1, <2>2, <3>1, <3>2
      <4>1. \A v \in Workers : /\ pc'[v] \notin {"log", "logdel"} /\ key \notin Owed(v)
                               /\ key \notin run'[v].dels
        BY <1>a, <4>0
      <4>2. key \in Keys /\ changes'[key] = changes[key]
        BY <2>1
      <4>3. QED
        BY <3>1, <3>2, <4>1, <4>2, KeyKeep
    <3>3. CASE old # new /\ pc'[w] = "log"
               /\ rows'[key] = [val |-> new, seen |-> run[w].ver, deleted |-> FALSE]
      <4>1. LogPending(key)'
        BY <2>2, <3>3 DEF LogPending, Owed
      <4>2. Written(w, key)'
        BY <2>1, <2>2, <3>1, <3>3 DEF Written, Replays, Ingested, LastChange
      <4>3. IsChain(changes'[key])
        BY <2>1, <3>1 DEF KeyLogs
      <4>4. QED
        BY <1>a, <2>2, <3>3, <4>1, <4>2, <4>3 DEF KeyLogs
    <3>4. QED
      BY ZenonT(60), <1>a, <2>1, <2>3, <2>6, <3>2, <3>3 DEF UpsertedRow, Row
  <2>7. \A v \in Workers : DeletesInHand(v)'
    BY <1>a, <2>1, <2>2 DEF DeletesInHand
  <2>8. QED
    <3>1. ASSUME NEW k \in Keys, k \notin unlogged' PROVE KeyLogs(k)'
      BY <2>1, <2>5, <2>6, <3>1
    <3>2. QED
      BY <2>7, <3>1 DEF LogInv
<1>3. ASSUME NEW w \in Workers, LogChange(w) PROVE LogInv'
  <2> DEFINE key == run[w].key
             e == RowChange(run[w])
  <2>1. /\ pc[w] = "log" /\ pc'[w] = "stream" /\ rows' = rows /\ run' = run
        /\ key \in Keys /\ run[w].snap[key] # Nil
        /\ \/ changes' = [changes EXCEPT ![key] = Append(@, e)] /\ unlogged' = unlogged
           \/ changes' = changes /\ unlogged' = unlogged \cup {key}
    BY <1>3, <1>a DEF LogChange, Goto, Unlogs, TypeOK, AtHandOK
  <2>2. /\ e \in Change /\ e.ver = run[w].ver /\ e.old = run[w].old
        /\ e.new = run[w].snap[key]
        /\ e.op = IF run[w].old = Nil THEN "INSERT" ELSE "UPDATE"
    BY <1>a, <2>1 DEF RowChange, Change, Run
  <2>3. ASSUME key \notin unlogged
        PROVE  /\ e.op = "INSERT" <=> changes[key] = <<>>
               /\ changes[key] # <<>> =>
                    /\ e.old = DataAfter(LastChange(key))
                    /\ LastChange(key).op # "DELETE" \/ e.op = "UPDATE"
               /\ Ingested(key) /\ rows[key].val = DataAfter(e)
               /\ rows[key].deleted <=> e.op = "DELETE"
    <3>1. Written(w, key)
      BY <2>1, <2>3 DEF LogInv, KeyLogs
    <3> HIDE DEF e
    <3>2. DataAfter(e) = e.new
      BY <2>2 DEF DataAfter
    <3>3. QED
      BY <2>1, <2>2, <3>1, <3>2 DEF Written, Ingested
  <2> HIDE DEF e
  <2>4. QED
    BY <2>1, <2>2, <2>3, EntryAdded
<1>4. ASSUME NEW w \in Workers, MarkDeleted(w) PROVE LogInv'
  <2> DEFINE stale == StaleKeys(run[w].ver)
  <2>1. /\ pc[w] = "mark" /\ run[w].dels = {} /\ changes' = changes
        /\ unlogged \subseteq unlogged' /\ pc'[w] \in {"deleted", "close"}
        /\ \A k \in Keys \ stale : rows'[k] = rows[k]
        /\ \A k \in Keys : rows'[k].val = rows[k].val
    <3>1. \/ rows' = rows
          \/ rows' = [k \in Keys |-> IF k \in stale THEN [rows[k] EXCEPT !.deleted = TRUE]
                                                    ELSE rows[k]]
      BY <1>4 DEF MarkDeleted
    <3>2. \A k \in Keys : rows'[k] = rows[k] \/ (k \in stale /\ rows'[k] = [rows[k] EXCEPT !.deleted = TRUE])
      BY <3>1
    <3>3. \A k \in Keys : [rows[k] EXCEPT !.deleted = TRUE].val = rows[k].val
      BY <1>a DEF Row
    <3>4. QED
      BY ZenonT(60), <1>4, <1>a, <1>b, <3>2, <3>3, MarkDeletedRun DEF MarkDeleted, Unlogs
  <2>2. \/ /\ pc'[w] = "deleted" /\ run'[w].dels = stale
           /\ \A k \in stale : rows'[k].deleted
        \/ /\ pc'[w] = "close" /\ run'[w].dels = {}
           /\ \A k \in stale \ unlogged' : rows'[k].deleted = rows[k].deleted
    <3>1. PICK o \in Outcomes(w) :
            /\ rows' = IF Applied(o)
                       THEN [k \in Keys |-> IF k \in stale
                                            THEN [rows[k] EXCEPT !.deleted = TRUE]
                                            ELSE rows[k]]
                       ELSE rows
            /\ IF o = "ok" THEN Goto(w, "deleted") ELSE Goto(w, "close")
            /\ unlogged' = Unlogs(stale, o # "lost")
      BY <1>4 DEF MarkDeleted
    <3>2. stale \subseteq Keys
      BY DEF StaleKeys
    <3>3. CASE o = "ok"
      <4>1. \A k \in stale : rows'[k].deleted
        BY <1>a, <3>1, <3>2, <3>3 DEF Applied, Row
      <4>2. pc'[w] = "deleted"
        BY <1>a, <3>1, <3>3 DEF Goto
      <4>3. QED
        BY <1>4, <4>1, <4>2, MarkDeletedRun
    <3>4. CASE o # "ok"
      <4>1. pc'[w] = "close" /\ run'[w].dels = {}
        BY <1>4, <1>a, <2>1, <3>1, <3>4, MarkDeletedRun DEF Goto
      <4>2. o = "lost" => stale \subseteq unlogged'
        BY <3>1 DEF Unlogs
      <4>3. o # "lost" => rows' = rows
        BY <3>1, <3>4 DEF Outcomes, Applied
      <4>4. QED
        BY <4>1, <4>2, <4>3
    <3>5. QED
      BY <3>3, <3>4
  <2>3. ASSUME NEW k \in Keys, k \notin unlogged' PROVE KeyLogs(k)'
    <3>1. k \notin unlogged /\ KeyLogs(k) /\ k \notin Owed(w) /\ Replays(k)
      BY <1>a, <2>1, <2>3 DEF LogInv, KeyLogs, LogPending, Owed
    <3>2. CASE k \in stale /\ pc'[w] = "deleted"
      <4>1. /\ rows[k].val # Nil /\ ~rows[k].deleted
            /\ rows'[k].deleted /\ rows'[k].val = rows[k].val
            /\ k \in run'[w].dels
        BY <2>1, <2>2, <3>2 DEF StaleKeys, Live, Ingested
      <4>2. Removed(k)'
        BY <2>1, <3>1, <4>1 DEF Removed, Replays, Ingested, LastChange, DataAfter
      <4>3. IsChain(changes'[k])
        BY <2>1, <3>1 DEF KeyLogs
      <4>4. LogPending(k)'
        BY <4>1 DEF LogPending, Owed
      <4>5. QED
        BY <1>a, <2>1, <4>2, <4>3, <4>4 DEF KeyLogs
    <3>3. CASE k \notin stale \/ pc'[w] = "close"
      <4>1. rows'[k].deleted = rows[k].deleted /\ rows'[k].val = rows[k].val
        BY <2>1, <2>2, <2>3, <3>3
      <4>2. k \notin run'[w].dels
        BY <2>2, <3>3
      <4>3. QED
        BY <1>a, <2>1, <3>1, <4>1, <4>2, KeyKeep
    <3>4. QED
      BY <2>1, <3>2, <3>3
  <2>4. \A v \in Workers : DeletesInHand(v)'
    BY <1>a, <2>2 DEF DeletesInHand
  <2>5. QED
    BY <2>3, <2>4 DEF LogInv
<1>5. ASSUME NEW w \in Workers, ReadDeleted(w) PROVE LogInv'
  <2> DEFINE key == run'[w].key
  <2>1. /\ rows' = rows /\ changes' = changes /\ unlogged \subseteq unlogged'
        /\ pc[w] = "deleted" /\ pc'[w] = "logdel"
        /\ key \in run[w].dels /\ run'[w].dels = run[w].dels \ {key}
        /\ key \notin unlogged' => run'[w].old = rows[key].val
    BY <1>5, ReadDeletedRun DEF ReadDeleted, platform
  <2>2. ASSUME NEW k \in Keys, k \notin unlogged' PROVE KeyLogs(k)'
    <3>1. KeyLogs(k)
      BY <2>1, <2>2 DEF LogInv
    <3>2. CASE k # key
      <4>1. k \in Owed(w) => k \in Owed(w)'
        BY <2>1, <3>2 DEF Owed
      <4>2. QED
        BY <1>a, <2>1, <3>1, <3>2, <4>1, KeyKeep
    <3>3. CASE k = key
      <4>1. Removed(k)
        BY <2>1, <3>1, <3>3 DEF KeyLogs
      <4>2. Removed(k)' /\ run'[w].old = rows'[k].val
        BY <2>1, <2>2, <3>3, <4>1 DEF Removed, Ingested, LastChange
      <4>3. LogPending(k)'
        BY <2>1, <3>3 DEF LogPending, Owed
      <4>4. IsChain(changes'[k])
        BY <2>1, <3>1 DEF KeyLogs
      <4>5. QED
        BY <1>a, <2>1, <4>2, <4>3, <4>4 DEF KeyLogs
    <3>4. QED
      BY <3>2, <3>3
  <2>3. \A v \in Workers : DeletesInHand(v)'
    BY <1>a, <2>1 DEF DeletesInHand
  <2>4. QED
    BY <2>2, <2>3 DEF LogInv
<1>6. ASSUME NEW w \in Workers, LogDelete(w) PROVE LogInv'
  <2> DEFINE key == run[w].key
             e == DeleteChange(run[w])
  <2>1. /\ pc[w] = "logdel" /\ pc'[w] = "deleted" /\ rows' = rows /\ run' = run
        /\ key \in Keys
        /\ \/ changes' = [changes EXCEPT ![key] = Append(@, e)] /\ unlogged' = unlogged
           \/ changes' = changes /\ unlogged' = unlogged \cup {key}
    BY <1>6, <1>a DEF LogDelete, Goto, Unlogs, TypeOK, AtHandOK
  <2>2. /\ e \in Change /\ e.ver = run[w].ver /\ e.old = run[w].old /\ e.op = "DELETE"
    BY <1>a, <2>1 DEF DeleteChange, Change, Run
  <2>3. ASSUME key \notin unlogged
        PROVE  /\ e.op = "INSERT" <=> changes[key] = <<>>
               /\ changes[key] # <<>> =>
                    /\ e.old = DataAfter(LastChange(key))
                    /\ LastChange(key).op # "DELETE" \/ e.op = "UPDATE"
               /\ Ingested(key) /\ rows[key].val = DataAfter(e)
               /\ rows[key].deleted <=> e.op = "DELETE"
    <3>1. Removed(key) /\ run[w].old = rows[key].val
      BY <2>1, <2>3 DEF LogInv, KeyLogs
    <3> HIDE DEF e
    <3>2. DataAfter(e) = e.old /\ DataAfter(LastChange(key)) = LastChange(key).new
      BY <2>2, <3>1 DEF DataAfter, Removed
    <3>3. QED
      BY <2>1, <2>2, <3>1, <3>2 DEF Removed
  <2> HIDE DEF e
  <2>4. QED
    BY <2>1, <2>2, <2>3, EntryAdded
<1>7. CASE Crash
  <2>1. /\ rows' = rows /\ changes' = changes
        /\ \A v \in Workers : pc'[v] = "idle" /\ run'[v].dels = {}
        /\ \A v \in Workers : Owed(v) \subseteq unlogged'
        /\ unlogged \subseteq unlogged'
    BY <1>7 DEF Crash, platform, NoRun
  <2>2. ASSUME NEW k \in Keys, k \notin unlogged' PROVE KeyLogs(k)'
    <3>1. KeyLogs(k) /\ \A v \in Workers : k \notin Owed(v)
      BY <2>1, <2>2 DEF LogInv
    <3>2. QED
      BY <2>1, <3>1, KeyKeep
  <2>3. \A v \in Workers : DeletesInHand(v)'
    BY <2>1 DEF DeletesInHand
  <2>4. QED
    BY <2>2, <2>3 DEF LogInv
<1>8. CASE Tick \/ UNCHANGED vars \/ \E w \in Workers : Cancel(w)
  BY <1>8, LogSame DEF Tick, Cancel, vars, platform, history
<1>9. QED
  BY <1>1, <1>2, <1>3, <1>4, <1>5, <1>6, <1>7, <1>8 DEF Next, Step

\* A table that was never synced.
LEMMA LogInit == Init => VersionInv /\ LogInv
<1>1. Init => VersionInv
  BY DEF Init, VersionInv, NotAfter, Versioned, Marked
<1>2. Init => LogInv
  BY DEF Init, LogInv, DeletesInHand, KeyLogs, IsChain, Replays, Ingested, NoRow, NoRun
<1>3. QED
  BY <1>1, <1>2

\* Of a worker that is alone on the table, through every fault and restart: the
\* log of a key replays to its row unless a write or an entry of it was lost.
THEOREM SoleWorkerLogReplays ==
  ASSUME SoleWorker
  PROVE  Spec => []LogReplays
<1>1. Init => MirrorInv /\ VersionInv /\ LogInv
  BY LogInit, MirrorInductive
<1>2. LogInv => LogReplays
  BY DEF LogInv, LogReplays, KeyLogs
<1>3. QED
  BY <1>1, <1>2, TypeCorrect, MirrorInductive, VersionInductive, LogInductive, PTL DEF Spec

\* And the entries of such a key chain.
THEOREM SoleWorkerLogChains ==
  ASSUME SoleWorker
  PROVE  Spec => []LogChains
<1>1. Init => MirrorInv /\ VersionInv /\ LogInv
  BY LogInit, MirrorInductive
<1>2. LogInv => LogChains
  BY DEF LogInv, LogChains, KeyLogs
<1>3. QED
  BY <1>1, <1>2, TypeCorrect, MirrorInductive, VersionInductive, LogInductive, PTL DEF Spec
=============================================================================
