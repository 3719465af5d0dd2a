------------------------- MODULE TableSyncRunProofs -------------------------
(***************************************************************************)
(* One run of a sync, for any number of workers: its counters are the      *)
(* numbers of its entries in the log, it keeps the contract of its         *)
(* connector, its job only moves forward, and it comes to an end.          *)
(***************************************************************************)
EXTENDS TableSyncLogProofs

----------------------------------------------------------------------------
(* Counting the entries of a log *)

Ops == {"INSERT", "UPDATE", "DELETE"}

\* The entries of job j with this operation, and their number, in a log c.
Positions(c, j, op) ==
  {p \in Keys \X Nat : /\ p[2] \in 1..Len(c[p[1]])
                       /\ c[p[1]][p[2]].job = j
                       /\ c[p[1]][p[2]].op = op}
Count(c, j, op) == Cardinality(Positions(c, j, op))

LEMMA LoggedIsCount ==
  ASSUME changes \in [Keys -> Seq(Change)], NEW j, NEW op
  PROVE  Logged(j, op) = Count(changes, j, op)
<1> DEFINE E(k) == {i \in 1..Len(changes[k]) : changes[k][i].job = j /\ changes[k][i].op = op}
<1>1. \A k \in Keys : Len(changes[k]) \in Nat
  OBVIOUS
<1>2. UNION { {k} \X E(k) : k \in Keys } = Positions(changes, j, op)
  <2>1. ASSUME NEW p \in UNION { {k} \X E(k) : k \in Keys } PROVE p \in Positions(changes, j, op)
    <3>1. PICK k \in Keys : p \in {k} \X E(k)
      BY <2>1
    <3>2. p[1] = k /\ p[2] \in E(k) /\ p \in Keys \X Nat
      BY <1>1, <3>1
    <3>3. QED
      BY <3>2 DEF Positions
  <2>2. ASSUME NEW p \in Positions(changes, j, op) PROVE p \in UNION { {k} \X E(k) : k \in Keys }
    <3>1. p[1] \in Keys /\ p[2] \in E(p[1]) /\ p = <<p[1], p[2]>>
      BY <2>2 DEF Positions
    <3>2. p \in {p[1]} \X E(p[1])
      BY <3>1
    <3>3. QED
      BY <3>1, <3>2
  <2>3. QED
    BY <2>1, <2>2
<1>3. QED
  BY <1>2 DEF Logged, Count

LEMMA PositionsFinite ==
  ASSUME NEW c \in [Keys -> Seq(Change)], NEW j, NEW op
  PROVE  IsFiniteSet(Positions(c, j, op)) /\ Count(c, j, op) \in Nat
<1> DEFINE f == [k \in Keys |-> {k} \X (1..Len(c[k]))]
           R == {f[k] : k \in Keys}
<1>1. ASSUME NEW k \in Keys PROVE IsFiniteSet(f[k])
  <2>1. Len(c[k]) \in Int
    OBVIOUS
  <2>2. \A m \in Int : IsFiniteSet(1..m)
    BY FS_Interval
  <2>3. IsFiniteSet({k}) /\ IsFiniteSet(1..Len(c[k]))
    BY <2>1, <2>2, FS_Singleton
  <2>4. QED
    BY <2>3, FS_Product
<1>2. f \in Surjection(Keys, R)
  BY DEF Surjection
<1>3. IsFiniteSet(UNION R)
  <2>1. IsFiniteSet(R)
    BY <1>2, FS_Surjection, ConstantsAssumption
  <2>2. \A T \in R : IsFiniteSet(T)
    BY <1>1
  <2>3. QED
    BY <2>1, <2>2, FS_UNION
<1>4. Positions(c, j, op) \subseteq UNION R
  <2> SUFFICES ASSUME NEW p \in Positions(c, j, op) PROVE p \in f[p[1]] /\ p[1] \in Keys
    OBVIOUS
  <2>1. p[1] \in Keys /\ p[2] \in 1..Len(c[p[1]]) /\ p = <<p[1], p[2]>>
    BY DEF Positions
  <2>2. QED
    BY <2>1
<1>5. QED
  BY <1>3, <1>4, FS_Subset, FS_CardinalityType DEF Count

\* A new entry is counted once, for its job and its operation only.
Appended(c, k, e) == [c EXCEPT ![k] = Append(@, e)]
LEMMA CountAppend ==
  ASSUME NEW c \in [Keys -> Seq(Change)], NEW k \in Keys, NEW e \in Change, NEW j, NEW op
  PROVE  Count(Appended(c, k, e), j, op)
           = Count(c, j, op) + (IF e.job = j /\ e.op = op THEN 1 ELSE 0)
<1> DEFINE n == Len(c[k]) + 1
           new == <<k, n>>
           d == Appended(c, k, e)
<1>1. /\ n \in Nat
      /\ \A l \in Keys : Len(d[l]) = IF l = k THEN n ELSE Len(c[l])
      /\ d[k][n] = e
      /\ \A l \in Keys : \A i \in 1..Len(c[l]) : d[l][i] = c[l][i]
  <2>1. c[k] \in Seq(Change) /\ d[k] = Append(c[k], e) /\ \A l \in Keys \ {k} : d[l] = c[l]
    BY DEF Appended
  <2>2. /\ Len(d[k]) = Len(c[k]) + 1 /\ d[k][n] = e /\ Len(c[k]) \in Nat
        /\ \A i \in 1..Len(c[k]) : d[k][i] = c[k][i]
    BY <2>1
  <2> HIDE DEF d
  <2>3. \A l \in Keys : \A i \in 1..Len(c[l]) : d[l][i] = c[l][i]
    BY <2>1, <2>2
  <2>4. QED
    BY <2>1, <2>2, <2>3
<1>2. new \in Keys \X Nat /\ new[1] = k /\ new[2] = n /\ new \notin Positions(c, j, op)
  BY <1>1 DEF Positions
<1>3. \A p \in Keys \X Nat : p # new =>
        (p \in Positions(d, j, op) <=> p \in Positions(c, j, op))
  <2> TAKE p \in Keys \X Nat
  <2> HAVE p # new
  <2>1. p[1] \in Keys /\ p[2] \in Nat /\ p = <<p[1], p[2]>>
    OBVIOUS
  <2>2. \A l \in Keys : Len(c[l]) \in Nat
    OBVIOUS
  <2>3. p[2] \in 1..Len(d[p[1]]) <=> p[2] \in 1..Len(c[p[1]])
    BY <1>1, <2>1, <2>2
  <2>4. QED
    BY <1>1, <2>1, <2>3 DEF Positions
<1>4. new \in Positions(d, j, op) <=> e.job = j /\ e.op = op
  BY <1>1, <1>2 DEF Positions
<1>5. Positions(d, j, op) \subseteq Keys \X Nat /\ Positions(c, j, op) \subseteq Keys \X Nat
  BY DEF Positions
<1> HIDE DEF new, n, d
<1>6. CASE e.job = j /\ e.op = op
  <2>1. Positions(d, j, op) = Positions(c, j, op) \cup {new}
    BY <1>2, <1>3, <1>4, <1>5, <1>6
  <2>2. IsFiniteSet(Positions(c, j, op))
    BY PositionsFinite
  <2>3. Cardinality(Positions(c, j, op) \cup {new}) = Cardinality(Positions(c, j, op)) + 1
    BY <1>2, <2>2, FS_AddElement
  <2>4. QED
    BY <1>6, <2>1, <2>3 DEF Count, d
<1>7. CASE ~(e.job = j /\ e.op = op)
  <2>1. Positions(d, j, op) = Positions(c, j, op)
    <3>1. new \notin Positions(d, j, op)
      BY <1>4, <1>7
    <3>2. \A p : p \in Positions(d, j, op) <=> p \in Positions(c, j, op)
      BY <1>2, <1>3, <1>5, <3>1, Zenon
    <3>3. QED
      BY <3>2, Zenon
  <2>2. Count(c, j, op) \in Nat
    BY PositionsFinite
  <2>3. QED
    BY <1>7, <2>1, <2>2 DEF Count, d
<1>8. QED
  BY <1>6, <1>7

\* A job without entries counts none.
LEMMA CountNone ==
  ASSUME NEW c, NEW j, NEW op, \A k \in Keys : \A i \in 1..Len(c[k]) : c[k][i].job # j
  PROVE  Count(c, j, op) = 0
<1>1. Positions(c, j, op) = {}
  BY DEF Positions
<1>2. QED
  BY <1>1, FS_EmptySet DEF Count

----------------------------------------------------------------------------
(* The counters of a job and its entries in the log *)

\* The log c holds the entries a worker with these local variables has counted,
\* but for those it is about to append.
Tallies(c, r, at) ==
  /\ Count(c, r.job, "INSERT") + (IF at = "log" /\ r.old = Nil THEN 1 ELSE 0) = r.stats.ins
  /\ Count(c, r.job, "UPDATE") + (IF at = "log" /\ r.old # Nil THEN 1 ELSE 0) = r.stats.upd
  /\ Count(c, r.job, "DELETE") + Cardinality(r.dels) + (IF at = "logdel" THEN 1 ELSE 0)
       = r.stats.del
Matches(c, j, s) ==
  /\ Count(c, j, "INSERT") = s.ins
  /\ Count(c, j, "UPDATE") = s.upd
  /\ Count(c, j, "DELETE") = s.del

\* Why StatsMatchLog holds as long as the database accepts the statements of a
\* live context: until its job is completed a worker tallies, unless its context
\* is done, and then it will not complete the job; nobody appends to a job that is
\* completed.
Unmarked == {"start", "version", "open", "stream", "upsert", "log", "mark"}
Counting == Unmarked \cup {"deleted", "logdel"}
Completing == {"stats", "snapshot", "srcerr"}
Counts(w) ==
  /\ pc[w] \in Counting /\ ~cancelled[w] => Tallies(changes, run[w], pc[w])
  /\ pc[w] \in Unmarked /\ ~cancelled[w] => run[w].stats.del = 0 /\ run[w].dels = {}
  /\ pc[w] = "idle" => run[w].stats = NoStats /\ run[w].dels = {}
  /\ pc[w] \notin Completing \cup {"idle"} => jobs[run[w].job].status # "completed"
StatsInv ==
  /\ \A w \in Workers : Counts(w)
  /\ \A k \in Keys : \A i \in 1..Len(changes[k]) : changes[k][i].job \in 1..Len(jobs)
  /\ \A j \in 1..Len(jobs) : jobs[j].status = "completed" => Matches(changes, j, jobs[j].stats)

\* Without faults of its own the database answers every live context.
LEMMA PlatformAnswers ==
  ASSUME "platform" \notin Faults, NEW w \in Workers, NEW o \in Outcomes(w)
  PROVE  (cancelled[w] => o = "error") /\ (~cancelled[w] => o = "ok")
  BY DEF Outcomes

\* A worker that appends nothing and completes no job keeps the others' counts.
LEMMA StatsKeep ==
  ASSUME TypeOK, JobsInv, StatsInv, NEW w \in Workers, pc[w] # "idle",
         changes' = changes, Len(jobs') = Len(jobs),
         \A j \in 1..Len(jobs) :
           jobs'[j] = jobs[j] \/ (j = run[w].job /\ jobs'[j].status # "completed"),
         \A v \in Workers \ {w} : pc'[v] = pc[v] /\ run'[v] = run[v] /\ cancelled'[v] = cancelled[v],
         Counts(w)'
  PROVE  StatsInv'
<1>1. ASSUME NEW v \in Workers PROVE Counts(v)'
  <2>1. CASE v = w
    BY <2>1
  <2>2. CASE v # w
    <3>1. pc[v] # "idle" => run[v].job \in 1..Len(jobs) /\ run[v].job # run[w].job
      BY <2>2 DEF JobsInv, TypeOK, AtHandOK
    <3>2. pc[v] # "idle" => jobs'[run[v].job] = jobs[run[v].job]
      BY <3>1
    <3>3. pc'[v] = pc[v] /\ run'[v] = run[v] /\ cancelled'[v] = cancelled[v]
      BY <2>2
    <3>4. Counts(v)
      BY DEF StatsInv
    <3>5. QED
      BY <3>2, <3>3, <3>4 DEF Counts, Completing
  <2>3. QED
    BY <2>1, <2>2
<1>2. QED
  BY <1>1 DEF StatsInv

\* A worker appends an entry of its job that it has counted.
LEMMA StatsLog ==
  ASSUME TypeOK, JobsInv, StatsInv, NEW w \in Workers, pc[w] \in {"log", "logdel"},
         NEW k \in Keys, NEW e \in Change, e.job = run[w].job,
         changes' = Appended(changes, k, e),
         jobs' = jobs, run' = run, cancelled' = cancelled,
         \A v \in Workers \ {w} : pc'[v] = pc[v],
         pc'[w] \in Counting,
         ~cancelled[w] => Tallies(changes', run[w], pc'[w]),
         pc'[w] \in Unmarked /\ ~cancelled[w] => run[w].stats.del = 0 /\ run[w].dels = {}
  PROVE  StatsInv'
<1>0. changes \in [Keys -> Seq(Change)]
  BY DEF TypeOK, PlatformTypeOK
<1>1. \A j, op : j # run[w].job => Count(changes', j, op) = Count(changes, j, op)
  <2> TAKE j, op
  <2> HAVE j # run[w].job
  <2>1. Count(changes', j, op) = Count(changes, j, op) + (IF e.job = j /\ e.op = op THEN 1 ELSE 0)
    BY <1>0, CountAppend
  <2>2. Count(changes, j, op) \in Nat /\ e.job # j
    BY <1>0, PositionsFinite
  <2>3. QED
    BY <2>1, <2>2
<1>2. run[w].job \in 1..Len(jobs) /\ jobs[run[w].job].status # "completed"
  BY DEF TypeOK, AtHandOK, StatsInv, Counts, Completing
<1>3. ASSUME NEW v \in Workers PROVE Counts(v)'
  <2>1. CASE v = w
    BY <1>2, <2>1 DEF Counts, Counting, Unmarked, Completing
  <2>2. CASE v # w
    <3>1. pc[v] # "idle" => run[v].job # run[w].job
      BY <2>2 DEF JobsInv
    <3>2. Counts(v)
      BY DEF StatsInv
    <3>3. pc[v] \in Counting => pc[v] # "idle"
      BY DEF Counting, Unmarked
    <3>4. pc[v] # "idle" /\ Tallies(changes, run[v], pc[v]) => Tallies(changes', run[v], pc[v])
      BY <1>1, <3>1 DEF Tallies
    <3>5. QED
      BY <2>2, <3>2, <3>3, <3>4 DEF Counts
  <2>3. QED
    BY <2>1, <2>2
<1>4. ASSUME NEW l \in Keys, NEW i \in 1..Len(changes'[l]) PROVE changes'[l][i].job \in 1..Len(jobs')
  <2>1. CASE l # k
    BY <1>0, <1>4, <2>1 DEF StatsInv, Appended
  <2>2. CASE l = k
    <3>1. changes[k] \in Seq(Change) /\ changes'[k] = Append(changes[k], e)
      BY <1>0 DEF Appended
    <3>2. changes'[k][i] = e \/ (i \in 1..Len(changes[k]) /\ changes'[k][i] = changes[k][i])
      BY <1>4, <2>2, <3>1
    <3>3. QED
      BY <1>2, <2>2, <3>2 DEF StatsInv
  <2>3. QED
    BY <2>1, <2>2
<1>5. ASSUME NEW j \in 1..Len(jobs), jobs[j].status = "completed" PROVE Matches(changes', j, jobs[j].stats)
  <2>1. j # run[w].job /\ Matches(changes, j, jobs[j].stats)
    BY <1>2, <1>5 DEF StatsInv
  <2>2. QED
    BY <1>1, <2>1 DEF Matches
<1>6. QED
  BY <1>3, <1>4, <1>5 DEF StatsInv

\* StatsInv is inductive as long as the platform database has no faults.
LEMMA StatsInductive ==
  ASSUME "platform" \notin Faults
  PROVE  TypeOK /\ JobsInv /\ StatsInv /\ [Next]_vars => StatsInv'
<1> SUFFICES ASSUME TypeOK, JobsInv, StatsInv, [Next]_vars PROVE StatsInv'
  OBVIOUS
<1>a. /\ pc \in [Workers -> PCs] /\ run \in [Workers -> Run] /\ jobs \in Seq(Job)
      /\ cancelled \in [Workers -> BOOLEAN] /\ changes \in [Keys -> Seq(Change)]
      /\ \A w \in Workers : pc[w] # "idle" => run[w].job \in 1..Len(jobs)
  BY DEF TypeOK, WorkerTypeOK, AtHandOK, PlatformTypeOK
<1>b. \A w \in Workers : Counts(w)
  BY DEF StatsInv
<1>c. NoRun.stats = NoStats /\ NoRun.dels = {}
  BY DEF NoRun
<1>d. \A j, op : Count(changes, j, op) \in Nat
  BY <1>a, PositionsFinite
<1>1. ASSUME NEW w \in Workers, BeginSync(w) PROVE StatsInv'
  <2>1. PICK o \in Outcomes(w) \ {"error"} :
          /\ jobs' = Append(jobs, [status |-> "pending", ver |-> 0, stats |-> NoStats])
          /\ IF o = "ok" THEN /\ Goto(w, "start")
                              /\ run' = [run EXCEPT ![w].job = NewJobId]
                         ELSE UNCHANGED <<pc, run>>
    BY <1>1 DEF BeginSync
  <2>2. /\ Len(jobs) \in Nat /\ Len(jobs') = Len(jobs) + 1 /\ NewJobId = Len(jobs')
        /\ \A j \in 1..Len(jobs) : jobs'[j] = jobs[j]
        /\ jobs'[NewJobId].status = "pending"
        /\ pc[w] = "idle" /\ changes' = changes /\ cancelled' = cancelled
    BY <1>1, <2>1, <1>a DEF BeginSync, NewJobId
  <2>3. \A v \in Workers \ {w} : pc'[v] = pc[v] /\ run'[v] = run[v]
    BY <2>1, <1>a DEF Goto
  <2>4. \/ /\ pc'[w] = "start" /\ run'[w].job = NewJobId
           /\ run'[w].stats = run[w].stats /\ run'[w].dels = run[w].dels
        \/ pc'[w] = pc[w] /\ run'[w] = run[w]
    <3>1. CASE o = "ok"
      BY <2>1, <3>1, <1>a DEF Goto, Run
    <3>2. CASE o # "ok"
      BY <2>1, <3>2
    <3>3. QED
      BY <3>1, <3>2
  <2>5. \A op : Count(changes, NewJobId, op) = 0
    <3>1. \A k \in Keys : \A i \in 1..Len(changes[k]) : changes[k][i].job # NewJobId
      BY <2>2 DEF StatsInv
    <3>2. QED
      BY <3>1, CountNone
  <2>6. ASSUME NEW v \in Workers PROVE Counts(v)'
    <3>1. CASE pc'[v] = pc[v] /\ run'[v] = run[v]
      <4>1. pc[v] # "idle" => jobs'[run[v].job] = jobs[run[v].job]
        BY <1>a, <2>2
      <4>2. QED
        BY <1>b, <2>2, <3>1, <4>1 DEF Counts, Completing
    <3>2. CASE v = w /\ pc'[w] = "start" /\ run'[w].job = NewJobId
               /\ run'[w].stats = run[w].stats /\ run'[w].dels = run[w].dels
      <4>1. run'[w].stats = NoStats /\ run'[w].dels = {}
        BY <1>b, <2>2, <3>2 DEF Counts
      <4>2. Tallies(changes', run'[w], pc'[w])
        BY <2>2, <2>5, <3>2, <4>1, FS_EmptySet DEF Tallies, NoStats
      <4>3. QED
        BY <2>2, <3>2, <4>1, <4>2 DEF Counts, NoStats, Completing
    <3>3. QED
      BY <2>3, <2>4, <3>1, <3>2
  <2>7. ASSUME NEW j \in 1..Len(jobs'), jobs'[j].status = "completed"
        PROVE  Matches(changes', j, jobs'[j].stats)
    <3>1. j \in 1..Len(jobs)
      BY <2>2, <2>7
    <3>2. QED
      BY <2>2, <2>7, <3>1 DEF StatsInv
  <2>8. \A k \in Keys : \A i \in 1..Len(changes'[k]) : changes'[k][i].job \in 1..Len(jobs')
    BY <2>2 DEF StatsInv
  <2>9. QED
    BY <2>6, <2>7, <2>8 DEF StatsInv
<1>2. ASSUME NEW w \in Workers, StartJob(w) \/ FailJob(w) PROVE StatsInv'
  <2>1. /\ changes' = changes /\ pc[w] \in {"start", "fail"}
        /\ \/ pc'[w] = "version" /\ pc[w] = "start" /\ run'[w] = run[w] /\ cancelled'[w] = cancelled[w]
           \/ pc'[w] = "srcerr"
           \/ pc'[w] = "idle" /\ run'[w] = NoRun
        /\ \A v \in Workers \ {w} : pc'[v] = pc[v] /\ run'[v] = run[v] /\ cancelled'[v] = cancelled[v]
    BY <1>2, <1>a DEF StartJob, FailJob, Goto, Return
  <2>2. /\ Len(jobs') = Len(jobs)
        /\ \A j \in 1..Len(jobs) : jobs'[j] = jobs[j] \/ (j = run[w].job /\ jobs'[j].status # "completed")
    <3>1. jobs' = jobs \/ \E st \in {"running", "failed"} : SetStatus(run[w].job, st)
      BY <1>2 DEF StartJob, FailJob
    <3>2. QED
      BY <1>a, <2>1, <3>1, StatusSet
  <2>3. Counts(w)'
    <3>1. CASE pc'[w] = "version" /\ pc[w] = "start" /\ run'[w] = run[w] /\ cancelled'[w] = cancelled[w]
      <4>1. jobs'[run[w].job].status # "completed"
        BY <1>a, <1>b, <2>2, <3>1 DEF Counts, Completing
      <4>2. Tallies(changes, run[w], "start") => Tallies(changes, run[w], "version")
        BY DEF Tallies
      <4>3. QED
        BY <1>b, <2>1, <3>1, <4>1, <4>2 DEF Counts, Counting, Unmarked, Completing
    <3>2. CASE pc'[w] = "srcerr"
      BY <3>2 DEF Counts, Counting, Unmarked, Completing
    <3>3. CASE pc'[w] = "idle" /\ run'[w] = NoRun
      BY <1>c, <3>3 DEF Counts, Counting, Unmarked, Completing
    <3>4. QED
      BY <2>1, <3>1, <3>2, <3>3
  <2>4. QED
    BY <2>1, <2>2, <2>3, StatsKeep
<1>3. ASSUME NEW w \in Workers, CompleteJob(w) PROVE StatsInv'
  <2>1. PICK o \in Outcomes(w) :
          jobs' = IF Applied(o)
                  THEN [jobs EXCEPT ![run[w].job] = Completed(run[w].ver, run[w].stats)]
                  ELSE jobs
    BY <1>3 DEF CompleteJob, Completed
  <2>2. /\ changes' = changes /\ pc[w] = "deleted" /\ run[w].dels = {}
        /\ run' = run /\ cancelled' = cancelled
        /\ pc'[w] = "stats" /\ \A v \in Workers \ {w} : pc'[v] = pc[v]
    BY <1>3, <1>a DEF CompleteJob, Goto
  <2>3. CASE cancelled[w]
    <3>1. jobs' = jobs
      BY <2>1, <2>3, PlatformAnswers DEF Applied
    <3>2. Counts(w)'
      BY <2>2 DEF Counts, Counting, Unmarked, Completing
    <3>3. QED
      BY <2>2, <3>1, <3>2, StatsKeep
  <2>4. CASE ~cancelled[w]
    <3>1. /\ Len(jobs') = Len(jobs)
          /\ jobs'[run[w].job].stats = run[w].stats
          /\ \A j \in 1..Len(jobs) \ {run[w].job} : jobs'[j] = jobs[j]
      BY <1>a, <2>1, <2>2, <2>4, PlatformAnswers DEF Applied, Completed
    <3>2. Tallies(changes, run[w], "deleted")
      BY <1>b, <2>2, <2>4 DEF Counts, Counting
    <3>3. Matches(changes, run[w].job, run[w].stats)
      BY <1>d, <2>2, <3>2, FS_EmptySet DEF Matches, Tallies
    <3>4. \A j \in 1..Len(jobs') : jobs'[j].status = "completed" => Matches(changes', j, jobs'[j].stats)
      BY <2>2, <3>1, <3>3 DEF StatsInv
    <3>5. ASSUME NEW v \in Workers PROVE Counts(v)'
      <4>1. CASE v = w
        BY <2>2, <4>1 DEF Counts, Counting, Unmarked, Completing
      <4>2. CASE v # w
        <5>1. pc[v] # "idle" => jobs'[run[v].job] = jobs[run[v].job]
          BY <1>a, <2>2, <3>1, <4>2 DEF JobsInv
        <5>2. QED
          BY <1>b, <2>2, <4>2, <5>1 DEF Counts, Completing
      <4>3. QED
        BY <4>1, <4>2
    <3>6. QED
      BY <2>2, <3>1, <3>4, <3>5 DEF StatsInv
  <2>5. QED
    BY <2>3, <2>4
<1>4. ASSUME NEW w \in Workers, LogChange(w) PROVE StatsInv'
  <2>1. PICK o \in Outcomes(w) :
          changes' = IF Applied(o) THEN [changes EXCEPT ![run[w].key] = Append(@, RowChange(run[w]))]
                                   ELSE changes
    BY <1>4 DEF LogChange
  <2>2. /\ pc[w] = "log" /\ pc'[w] = "stream" /\ \A v \in Workers \ {w} : pc'[v] = pc[v]
        /\ jobs' = jobs /\ run' = run /\ cancelled' = cancelled
    BY <1>4, <1>a DEF LogChange, Goto
  <2>3. CASE cancelled[w]
    <3>1. changes' = changes
      BY <2>1, <2>3, PlatformAnswers DEF Applied
    <3>2. Counts(w)'
      BY <1>b, <2>2, <2>3 DEF Counts, Completing
    <3>3. QED
      BY <2>2, <3>1, <3>2, StatsKeep
  <2>4. CASE ~cancelled[w]
    <3> DEFINE e == RowChange(run[w])
    <3>1. run[w].key \in Keys /\ run[w].snap[run[w].key] \in Vals \cup {Nil} /\ run[w] \in Run
      BY <1>a, <2>2 DEF TypeOK, AtHandOK, Run
    <3>2. /\ e \in Change /\ e.job = run[w].job
          /\ e.op = IF run[w].old = Nil THEN "INSERT" ELSE "UPDATE"
      BY <3>1 DEF RowChange, Change, Run
    <3>3. changes' = Appended(changes, run[w].key, e)
      BY <2>1, <2>4, PlatformAnswers DEF Applied, Appended
    <3> HIDE DEF e
    <3>4. \A op : Count(changes', run[w].job, op)
                    = Count(changes, run[w].job, op) + (IF e.op = op THEN 1 ELSE 0)
      BY <1>a, <3>1, <3>2, <3>3, CountAppend
    <3>5. /\ Tallies(changes, run[w], "log")
          /\ run[w].stats.del = 0 /\ run[w].dels = {}
      BY <1>b, <2>2, <2>4 DEF Counts, Counting, Unmarked
    <3>6. Tallies(changes', run[w], "stream")
      BY <1>d, <3>2, <3>4, <3>5, FS_EmptySet DEF Tallies
    <3>7. QED
      BY <2>2, <3>1, <3>2, <3>3, <3>5, <3>6, StatsLog DEF Counting, Unmarked
  <2>5. QED
    BY <2>3, <2>4
<1>5. ASSUME NEW w \in Workers, LogDelete(w) PROVE StatsInv'
  <2>1. PICK o \in Outcomes(w) :
          changes' = IF Applied(o) THEN [changes EXCEPT ![run[w].key] = Append(@, DeleteChange(run[w]))]
                                   ELSE changes
    BY <1>5 DEF LogDelete
  <2>2. /\ pc[w] = "logdel" /\ pc'[w] = "deleted" /\ \A v \in Workers \ {w} : pc'[v] = pc[v]
        /\ jobs' = jobs /\ run' = run /\ cancelled' = cancelled
    BY <1>5, <1>a DEF LogDelete, Goto
  <2>3. CASE cancelled[w]
    <3>1. changes' = changes
      BY <2>1, <2>3, PlatformAnswers DEF Applied
    <3>2. Counts(w)'
      BY <1>b, <2>2, <2>3 DEF Counts, Completing
    <3>3. QED
      BY <2>2, <3>1, <3>2, StatsKeep
  <2>4. CASE ~cancelled[w]
    <3> DEFINE e == DeleteChange(run[w])
    <3>1. run[w].key \in Keys /\ run[w] \in Run
      BY <1>a, <2>2 DEF TypeOK, AtHandOK
    <3>2. e \in Change /\ e.job = run[w].job /\ e.op = "DELETE"
      BY <3>1 DEF DeleteChange, Change, Run
    <3>3. changes' = Appended(changes, run[w].key, e)
      BY <2>1, <2>4, PlatformAnswers DEF Applied, Appended
    <3> HIDE DEF e
    <3>4. \A op : Count(changes', run[w].job, op)
                    = Count(changes, run[w].job, op) + (IF e.op = op THEN 1 ELSE 0)
      BY <1>a, <3>1, <3>2, <3>3, CountAppend
    <3>5. Tallies(changes, run[w], "logdel")
      BY <1>b, <2>2, <2>4 DEF Counts, Counting
    <3>6. Cardinality(run[w].dels) \in Nat
      BY <3>1, ConstantsAssumption, FS_Subset, FS_CardinalityType DEF Run
    <3>7. Tallies(changes', run[w], "deleted")
      BY <1>d, <3>2, <3>4, <3>5, <3>6 DEF Tallies
    <3>8. QED
      BY <2>2, <3>1, <3>2, <3>3, <3>7, StatsLog DEF Counting, Unmarked
  <2>5. QED
    BY <2>3, <2>4
<1>6. ASSUME NEW w \in Workers,
             \/ TakeVersion(w) \/ OpenStream(w) \/ ConnectError(w) \/ NextRow(w)
             \/ StreamError(w) \/ EndOfStream(w) \/ Upsert(w)
             \/ MarkDeleted(w) \/ ReadDeleted(w) \/ CloseConn(w) \/ ProducerFails(w)
      PROVE StatsInv'
  <2>0. run[w].key \in Keys \cup {Nil} /\ run[w].dels \subseteq Keys /\ run[w].stats \in Stats
        /\ IsFiniteSet(run[w].dels)
    BY <1>a, ConstantsAssumption, FS_Subset DEF Run
  <2> SUFFICES /\ jobs' = jobs /\ changes' = changes /\ pc[w] # "idle"
               /\ cancelled' = cancelled
               /\ \A v \in Workers \ {w} : pc'[v] = pc[v] /\ run'[v] = run[v]
               /\ pc[w] \notin Completing /\ pc'[w] \notin Completing \cup {"idle"}
               /\ run'[w].job = run[w].job
               /\ ~cancelled[w] /\ pc'[w] \in Counting => Tallies(changes, run'[w], pc'[w])
               /\ ~cancelled[w] /\ pc'[w] \in Unmarked => run'[w].stats.del = 0 /\ run'[w].dels = {}
    <3>1. Counts(w)'
      BY <1>b DEF Counts
    <3>2. QED
      BY <3>1, StatsKeep
  <2> USE DEF Counting, Unmarked, Completing
  \* Steps that leave what is counted.
  <2>1. ASSUME /\ run'[w].job = run[w].job /\ run'[w].stats = run[w].stats
               /\ run'[w].dels = run[w].dels
               /\ pc[w] \in Unmarked \ {"log"} /\ pc'[w] \in Unmarked \ {"log"}
        PROVE  /\ ~cancelled[w] => Tallies(changes, run'[w], pc'[w])
               /\ ~cancelled[w] => run'[w].stats.del = 0 /\ run'[w].dels = {}
    <3>1. Tallies(changes, run[w], pc[w]) => Tallies(changes, run'[w], pc'[w])
      BY <2>1 DEF Tallies
    <3>2. QED
      BY <1>b, <2>1, <3>1 DEF Counts
  <2>2. CASE TakeVersion(w)
    <3>1. /\ pc[w] = "version" /\ pc'[w] = "open" /\ run'[w].job = run[w].job
          /\ run'[w].stats = run[w].stats /\ run'[w].dels = run[w].dels
      BY <2>2, <1>a DEF TakeVersion, Goto, Run
    <3>2. QED
      BY <1>a, <2>1, <2>2, <3>1 DEF TakeVersion, Goto, platform
  <2>3. CASE OpenStream(w)
    <3>1. /\ pc[w] = "open" /\ pc'[w] = "stream" /\ run'[w].job = run[w].job
          /\ run'[w].stats = run[w].stats /\ run'[w].dels = run[w].dels
      BY <2>3, <1>a DEF OpenStream, Goto, Run
    <3>2. QED
      BY <1>a, <2>1, <2>3, <3>1 DEF OpenStream, Goto, platform
  <2>4. CASE ConnectError(w) \/ CloseConn(w)
    BY <2>4, <1>a DEF ConnectError, CloseConn, Goto, platform
  <2>5. CASE NextRow(w)
    <3>1. \A v \in Workers \ {w} : pc'[v] = pc[v] /\ run'[v] = run[v]
      BY <2>5, <1>a DEF NextRow, Goto
    <3>2. changes' = changes /\ jobs' = jobs /\ cancelled' = cancelled
      BY <2>5 DEF NextRow, platform
    <3>3. CASE pc'[w] = "upsert"
      BY <2>1, <2>5, <3>1, <3>2, <3>3, NextRowRun
    <3>4. CASE pc'[w] = "close"
      BY <2>5, <3>1, <3>2, <3>4, NextRowRun
    <3>5. QED
      BY <2>5, <3>3, <3>4, NextRowRun
  <2>6. CASE StreamError(w)
    BY <2>6, <1>a DEF StreamError, Goto, platform, Run
  <2>7. CASE EndOfStream(w)
    <3>1. pc[w] = "stream" /\ pc'[w] = "mark" /\ run' = run
      BY <2>7, <1>a DEF EndOfStream, Goto
    <3>2. QED
      BY <1>a, <2>1, <2>7, <3>1 DEF EndOfStream, Goto, platform
  <2>8. CASE Upsert(w)
    <3> DEFINE old == run[w].old
               new == run[w].snap[run[w].key]
    <3>1. /\ changes' = changes /\ jobs' = jobs /\ cancelled' = cancelled /\ pc[w] = "upsert"
          /\ \A v \in Workers \ {w} : pc'[v] = pc[v] /\ run'[v] = run[v]
      BY <2>8, <1>a DEF Upsert, Goto
    <3>2. new # Nil
      BY <3>1 DEF TypeOK, AtHandOK
    <3>3. \/ pc'[w] = "close"
          \/ /\ pc'[w] = AfterUpsert(old, new)
             /\ run'[w].stats = CountRow(run[w].stats, old, new)
      <4>1. \/ Goto(w, "close")
            \/ /\ Goto(w, AfterUpsert(old, new))
               /\ run' = [run EXCEPT ![w].stats = CountRow(@, old, new)]
        BY <2>8 DEF Upsert
      <4> HIDE DEF old, new
      <4>2. QED
        BY <4>1, <1>a DEF Goto, Run
    <3>4. CASE pc'[w] = "close"
      BY <2>8, <3>1, <3>4, UpsertRun
    <3>5. CASE pc'[w] = AfterUpsert(old, new) /\ run'[w].stats = CountRow(run[w].stats, old, new)
      <4>1. run'[w].job = run[w].job /\ run'[w].dels = run[w].dels /\ run'[w].old = old
        BY <2>8, UpsertRun
      <4>2. ~cancelled[w] => /\ Tallies(changes, run[w], "upsert")
                             /\ run[w].stats.del = 0 /\ run[w].dels = {}
        BY <1>b, <3>1 DEF Counts
      <4> HIDE DEF new
      <4>3. pc'[w] \in {"stream", "log"}
        BY <3>5 DEF AfterUpsert
      <4>4. run'[w].stats.del = run[w].stats.del
        BY <2>0, <3>5 DEF CountRow, Stats
      <4>5. Tallies(changes, run[w], "upsert") => Tallies(changes, run'[w], pc'[w])
        <5>1. CASE old = Nil
          BY <1>d, <2>0, <3>2, <3>5, <4>1, <5>1 DEF Tallies, CountRow, AfterUpsert, Stats
        <5>2. CASE old = new
          BY <1>d, <2>0, <3>2, <3>5, <4>1, <5>2 DEF Tallies, CountRow, AfterUpsert, Stats
        <5>3. CASE old # Nil /\ old # new
          BY <1>d, <2>0, <3>2, <3>5, <4>1, <5>3 DEF Tallies, CountRow, AfterUpsert, Stats
        <5>4. QED
          BY <5>1, <5>2, <5>3
      <4>6. QED
        BY <3>1, <4>1, <4>2, <4>3, <4>4, <4>5
    <3>6. QED
      BY <3>3, <3>4, <3>5
  <2>9. CASE MarkDeleted(w)
    <3> DEFINE stale == StaleKeys(run[w].ver)
    <3>1. /\ changes' = changes /\ jobs' = jobs /\ cancelled' = cancelled /\ pc[w] = "mark"
          /\ \A v \in Workers \ {w} : pc'[v] = pc[v] /\ run'[v] = run[v]
          /\ run'[w].job = run[w].job
      BY <2>9, <1>a, MarkDeletedRun DEF MarkDeleted, Goto
    <3>2. \/ pc'[w] = "close"
          \/ pc'[w] = "deleted" /\ run'[w].dels = stale /\ run'[w].stats = CountDeleted(run[w].stats, stale)
      <4>1. \/ Goto(w, "close")
            \/ /\ Goto(w, "deleted")
               /\ run' = [run EXCEPT ![w].dels = stale, ![w].stats = CountDeleted(@, stale)]
        BY <2>9 DEF MarkDeleted
      <4> HIDE DEF stale
      <4>2. QED
        BY <4>1, <1>a DEF Goto, Run
    <3>3. CASE pc'[w] = "close"
      BY <3>1, <3>3
    <3>4. CASE /\ pc'[w] = "deleted" /\ run'[w].dels = stale
               /\ run'[w].stats = CountDeleted(run[w].stats, stale)
      <4>1. ~cancelled[w] => /\ Tallies(changes, run[w], "mark")
                             /\ run[w].stats.del = 0 /\ run[w].dels = {}
        BY <1>b, <3>1 DEF Counts
      <4>2. Cardinality(stale) \in Nat
        <5>1. stale \subseteq Keys
          BY DEF StaleKeys
        <5>2. QED
          BY <5>1, ConstantsAssumption, FS_Subset, FS_CardinalityType
      <4> HIDE DEF stale
      <4>3. /\ run'[w].stats.ins = run[w].stats.ins /\ run'[w].stats.upd = run[w].stats.upd
            /\ run'[w].stats.del = Cardinality(stale)
        BY <2>0, <3>4 DEF CountDeleted, Stats
      <4>4. ~cancelled[w] => Tallies(changes, run'[w], pc'[w])
        <5>1. ~cancelled[w] => /\ Count(changes, run[w].job, "INSERT") = run[w].stats.ins
                               /\ Count(changes, run[w].job, "UPDATE") = run[w].stats.upd
                               /\ Count(changes, run[w].job, "DELETE") = 0
          BY <1>d, <4>1, FS_EmptySet DEF Tallies
        <5>2. QED
          BY <1>d, <3>1, <3>4, <4>2, <4>3, <5>1 DEF Tallies
      <4>5. QED
        BY <3>1, <3>4, <4>4
    <3>5. QED
      BY <3>2, <3>3, <3>4
  <2>10. CASE ReadDeleted(w)
    <3>1. \A v \in Workers \ {w} : pc'[v] = pc[v] /\ run'[v] = run[v]
      BY <2>10, <1>a DEF ReadDeleted, Goto
    <3>2. changes' = changes /\ jobs' = jobs /\ cancelled' = cancelled
      BY <2>10 DEF ReadDeleted, platform
    <3>3. /\ run'[w].job = run[w].job /\ run'[w].stats = run[w].stats
          /\ pc[w] = "deleted" /\ pc'[w] = "logdel" /\ run'[w].key \in run[w].dels
          /\ run'[w].dels = run[w].dels \ {run'[w].key}
      BY <2>10, ReadDeletedRun
    <3>4. /\ Cardinality(run'[w].dels) = Cardinality(run[w].dels) - 1
          /\ Cardinality(run[w].dels) \in Nat
      <4>1. \A k \in run[w].dels :
              Cardinality(run[w].dels \ {k}) = Cardinality(run[w].dels) - 1
        BY <2>0, FS_RemoveElement
      <4>2. QED
        BY <2>0, <3>3, <4>1, FS_CardinalityType
    <3>5. ~cancelled[w] => Tallies(changes, run[w], "deleted")
      BY <1>b, <3>3 DEF Counts
    <3>6. ~cancelled[w] => Tallies(changes, run'[w], "logdel")
      BY <1>d, <3>3, <3>4, <3>5 DEF Tallies
    <3>7. QED
      BY <3>1, <3>2, <3>3, <3>6
  <2>11. CASE ProducerFails(w)
    BY <2>11, <1>a DEF ProducerFails, platform, Run
  <2>12. QED
    BY <1>6, <2>2, <2>3, <2>4, <2>5, <2>6, <2>7, <2>8, <2>9, <2>10, <2>11
<1>7. ASSUME NEW w \in Workers,
             UpdateTableSyncStats(w) \/ CreateSnapshot(w) \/ MarkSourceError(w) \/ Cancel(w)
      PROVE StatsInv'
  <2>1. /\ jobs' = jobs /\ changes' = changes /\ pc[w] # "idle"
        /\ \A v \in Workers \ {w} : pc'[v] = pc[v] /\ run'[v] = run[v] /\ cancelled'[v] = cancelled[v]
        /\ \/ pc'[w] = "snapshot"
           \/ pc'[w] = "idle" /\ run'[w] = NoRun
           \/ pc'[w] = pc[w] /\ run'[w] = run[w] /\ cancelled'[w]
    BY <1>7, <1>a DEF UpdateTableSyncStats, CreateSnapshot, MarkSourceError, Cancel, Return, Goto, platform
  <2>2. Counts(w)'
    BY <1>b, <1>c, <2>1 DEF Counts, Counting, Unmarked, Completing
  <2>3. QED
    BY <2>1, <2>2, StatsKeep
<1>8. CASE Crash \/ Tick \/ UNCHANGED vars
  <2>1. /\ jobs' = jobs /\ changes' = changes
        /\ \A v \in Workers :
              \/ pc'[v] = "idle" /\ run'[v] = NoRun
              \/ pc'[v] = pc[v] /\ run'[v] = run[v] /\ cancelled'[v] = cancelled[v]
    BY <1>8 DEF Crash, Tick, vars, platform
  <2>2. \A v \in Workers : Counts(v)'
    BY <1>b, <1>c, <2>1 DEF Counts, Counting, Unmarked, Completing
  <2>3. QED
    BY <2>1, <2>2 DEF StatsInv
<1>9. QED
  BY <1>1, <1>2, <1>3, <1>4, <1>5, <1>6, <1>7, <1>8 DEF Next, Step

\* However many syncs overlap and wherever they are cancelled or die, the
\* counters of a completed job are the numbers of its entries in the log, as long
\* as the platform database has no faults of its own.
THEOREM CountersMatch ==
  ASSUME "platform" \notin Faults
  PROVE  Spec => []StatsMatchLog
<1>1. Init => JobsInv
  BY DEF Init, JobsInv, NoOrphanJobs
<1>2. Init => StatsInv
  BY DEF Init, StatsInv, Counts, NoRun, Counting, Unmarked, Completing
<1>3. TypeOK /\ StatsInv => StatsMatchLog
  BY LoggedIsCount DEF TypeOK, PlatformTypeOK, StatsInv, StatsMatchLog, Matches
<1>4. QED
  BY <1>1, <1>2, <1>3, TypeCorrect, JobsInductive, StatsInductive, PTL DEF Spec

----------------------------------------------------------------------------
(* Every worker keeps the contract of its connector *)

StreamKept(w) == [Stream(w)!Next]_(Stream(w)!vars)

\* What another worker does is not seen in this one's stream.
LEMMA StreamUndisturbed ==
  ASSUME NEW v \in Workers, pc'[v] = pc[v], run'[v] = run[v], cancelled'[v] = cancelled[v]
  PROVE  StreamKept(v)
  BY DEF StreamKept, Stream!vars, Left, StreamState

\* Between two streams only the context may change.
LEMMA StreamClosed ==
  ASSUME TypeOK, TypeOK', NEW w \in Workers, StreamState(w) = "closed", StreamState(w)' = "closed"
  PROVE  StreamKept(w)
<1>1. Left(w) = 0 /\ Left(w)' = 0
  BY DEF Left
<1>2. cancelled[w] \in BOOLEAN /\ cancelled'[w] \in BOOLEAN
  BY DEF TypeOK, WorkerTypeOK
<1>3. CASE cancelled'[w] = cancelled[w]
  BY <1>1, <1>3 DEF StreamKept, Stream!vars
<1>4. CASE cancelled'[w] = ~cancelled[w]
  <2>1. Stream(w)!Context
    BY <1>1, <1>4 DEF Stream!Context
  <2>2. QED
    BY <2>1 DEF StreamKept, Stream!Next
<1>5. QED
  BY <1>2, <1>3, <1>4

\* A step of one worker leaves the others where they are.
LEMMA OthersStay ==
  ASSUME TypeOK, NEW w \in Workers,
         BeginSync(w) \/ Step(w) \/ ProducerFails(w) \/ Cancel(w)
  PROVE  \A v \in Workers \ {w} : pc'[v] = pc[v] /\ run'[v] = run[v] /\ cancelled'[v] = cancelled[v]
<1>a. /\ pc \in [Workers -> PCs] /\ run \in [Workers -> Run] /\ cancelled \in [Workers -> BOOLEAN]
  BY DEF TypeOK, WorkerTypeOK
<1>1. CASE BeginSync(w) \/ ProducerFails(w) \/ Cancel(w)
  BY <1>1, <1>a DEF BeginSync, ProducerFails, Cancel, Goto
<1>2. CASE StartJob(w) \/ TakeVersion(w) \/ OpenStream(w) \/ ConnectError(w) \/ NextRow(w) \/ StreamError(w)
  BY <1>2, <1>a DEF StartJob, TakeVersion, OpenStream, ConnectError, NextRow, StreamError, Return, Goto
<1>3. CASE EndOfStream(w) \/ Upsert(w) \/ LogChange(w) \/ MarkDeleted(w) \/ ReadDeleted(w) \/ LogDelete(w)
  BY <1>3, <1>a DEF EndOfStream, Upsert, LogChange, MarkDeleted, ReadDeleted, LogDelete, Goto
<1>4. CASE CompleteJob(w) \/ UpdateTableSyncStats(w) \/ CreateSnapshot(w) \/ CloseConn(w)
           \/ FailJob(w) \/ MarkSourceError(w)
  BY <1>4, <1>a DEF CompleteJob, UpdateTableSyncStats, CreateSnapshot, CloseConn, FailJob, MarkSourceError,
     Return, Goto
<1>5. QED
  BY <1>1, <1>2, <1>3, <1>4 DEF Step

\* A step of a worker is a step of the contract, or none.
LEMMA StreamStep ==
  ASSUME TypeOK, TypeOK', NEW w \in Workers,
         BeginSync(w) \/ Step(w) \/ ProducerFails(w) \/ Cancel(w)
  PROVE  StreamKept(w)
<1>a. /\ pc \in [Workers -> PCs] /\ run \in [Workers -> Run] /\ cancelled \in [Workers -> BOOLEAN]
  BY DEF TypeOK, WorkerTypeOK
<1>b. /\ IsFiniteSet(run[w].pend) /\ Cardinality(run[w].pend) \in Nat
      /\ IsFiniteSet(run'[w].pend) /\ Cardinality(run'[w].pend) \in Nat
  <2>1. run[w].pend \subseteq Keys /\ run'[w].pend \subseteq Keys
    BY DEF TypeOK, WorkerTypeOK, Run
  <2>2. QED
    BY <2>1, ConstantsAssumption, FS_Subset, FS_CardinalityType
<1>1. CASE BeginSync(w) \/ StartJob(w) \/ TakeVersion(w) \/ ConnectError(w)
           \/ UpdateTableSyncStats(w) \/ CreateSnapshot(w) \/ FailJob(w) \/ MarkSourceError(w)
  <2>1. StreamState(w) = "closed" /\ StreamState(w)' = "closed"
    BY <1>1, <1>a DEF BeginSync, StartJob, TakeVersion, ConnectError, UpdateTableSyncStats,
       CreateSnapshot, FailJob, MarkSourceError, Return, Goto, StreamState
  <2>2. QED
    BY <2>1, StreamClosed
<1>2. CASE OpenStream(w)
  <2>1. pc[w] = "open" /\ pc'[w] = "stream" /\ cancelled'[w] = cancelled[w]
    BY <1>2, <1>a DEF OpenStream, Goto
  <2>2. StreamState(w) = "closed" /\ StreamState(w)' = "open"
    BY <2>1 DEF StreamState
  <2>3. Left(w)' \in Nat
    BY <1>b, <2>2 DEF Left
  <2>4. Stream(w)!Open
    BY <2>1, <2>2, <2>3 DEF Stream!Open
  <2>5. QED
    BY <2>4 DEF StreamKept, Stream!Next
<1>3. CASE NextRow(w)
  <2>1. /\ pc[w] = "stream" /\ pc'[w] \in {"upsert", "close"} /\ cancelled'[w] = cancelled[w]
        /\ \E k \in run[w].pend : run'[w].pend = run[w].pend \ {k}
    <3>1. PICK k \in run[w].pend, o \in Outcomes(w) :
            IF o = "ok"
            THEN /\ run' = [run EXCEPT ![w].pend = @ \ {k}, ![w].key = k, ![w].old = rows[k].val]
                 /\ Goto(w, "upsert")
            ELSE /\ run' = [run EXCEPT ![w].pend = @ \ {k}]
                 /\ Goto(w, "close")
      BY <1>3 DEF NextRow
    <3>2. run'[w].pend = run[w].pend \ {k}
      BY <3>1, <1>a DEF Run
    <3>3. QED
      BY <1>3, <1>a, <3>1, <3>2 DEF NextRow, Goto
  <2>2. Cardinality(run[w].pend) > 0 /\ Cardinality(run'[w].pend) = Cardinality(run[w].pend) - 1
    <3>1. \A k \in run[w].pend : Cardinality(run[w].pend \ {k}) = Cardinality(run[w].pend) - 1
      BY <1>b, FS_RemoveElement
    <3>2. QED
      BY <1>b, <2>1, <3>1
  <2>3. StreamState(w) = "open" /\ Left(w) = Cardinality(run[w].pend)
    BY <2>1 DEF StreamState, Left
  <2>4. CASE pc'[w] = "upsert"
    <3>1. Left(w)' = Left(w) - 1 /\ StreamState(w)' = "open"
      BY <2>2, <2>3, <2>4 DEF StreamState, Left
    <3>2. Stream(w)!Receive
      BY <2>1, <2>2, <2>3, <3>1 DEF Stream!Receive
    <3>3. QED
      BY <3>2 DEF StreamKept, Stream!Next
  <2>5. CASE pc'[w] = "close"
    <3>1. Left(w)' = Left(w) - 1 /\ StreamState(w)' = "abandoned"
      BY <2>2, <2>3, <2>5 DEF StreamState, Left
    <3>2. Left(w)' \in Nat
      BY <1>b, <2>2, <2>3, <3>1
    <3>3. Stream(w)!Abandon
      BY <2>1, <2>3, <3>1, <3>2 DEF Stream!Abandon
    <3>4. QED
      BY <3>3 DEF StreamKept, Stream!Next
  <2>6. QED
    BY <2>1, <2>4, <2>5
<1>4. CASE StreamError(w)
  <2>1. /\ pc[w] = "stream" /\ pc'[w] = "close" /\ cancelled'[w] = cancelled[w]
        /\ "source" \in Faults \/ cancelled[w]
        /\ run'[w].pend = {}
    BY <1>4, <1>a DEF StreamError, Goto, Run
  <2>2. StreamState(w) = "open" /\ StreamState(w)' = "abandoned" /\ Left(w)' = 0
    BY <2>1, FS_EmptySet DEF StreamState, Left
  <2>3. Stream(w)!Fail
    BY <2>1, <2>2 DEF Stream!Fail
  <2>4. QED
    BY <2>3 DEF StreamKept, Stream!Next
<1>5. CASE EndOfStream(w)
  <2>1. /\ pc[w] = "stream" /\ pc'[w] = "mark" /\ cancelled'[w] = cancelled[w]
        /\ run[w].pend = {} /\ run'[w] = run[w]
    BY <1>5, <1>a DEF EndOfStream, Goto
  <2>2. StreamState(w) = "open" /\ StreamState(w)' = "complete" /\ Left(w) = 0 /\ Left(w)' = 0
    BY <2>1, FS_EmptySet DEF StreamState, Left
  <2>3. Stream(w)!End
    BY <2>1, <2>2 DEF Stream!End
  <2>4. QED
    BY <2>3 DEF StreamKept, Stream!Next
<1>6. CASE Upsert(w) \/ LogChange(w) \/ MarkDeleted(w) \/ ReadDeleted(w) \/ LogDelete(w)
  <2>1. run'[w].pend = run[w].pend /\ cancelled'[w] = cancelled[w]
    <3>1. CASE Upsert(w)
      BY <3>1, <1>a DEF Upsert, Run
    <3>2. CASE LogChange(w) \/ LogDelete(w)
      BY <3>2, <1>a DEF LogChange, LogDelete
    <3>3. CASE MarkDeleted(w)
      BY <3>3, <1>a DEF MarkDeleted, Run
    <3>4. CASE ReadDeleted(w)
      BY <3>4, <1>a DEF ReadDeleted, Run
    <3>5. QED
      BY <1>6, <3>1, <3>2, <3>3, <3>4
  <2>2. \/ StreamState(w) \in {"open", "complete"} /\ StreamState(w)' = StreamState(w)
        \/ StreamState(w) \in {"open", "complete"} /\ StreamState(w)' = "abandoned"
    BY <1>6, <1>a DEF Upsert, AfterUpsert, LogChange, MarkDeleted, ReadDeleted, LogDelete, Goto, StreamState
  <2>3. Left(w)' = Left(w) /\ Left(w) \in Nat
    BY <1>b, <2>1, <2>2 DEF Left
  <2>4. CASE StreamState(w)' = StreamState(w)
    BY <2>1, <2>3, <2>4 DEF StreamKept, Stream!vars
  <2>5. CASE StreamState(w) \in {"open", "complete"} /\ StreamState(w)' = "abandoned"
    <3>1. Stream(w)!Abandon
      BY <2>1, <2>3, <2>5 DEF Stream!Abandon
    <3>2. QED
      BY <3>1 DEF StreamKept, Stream!Next
  <2>6. QED
    BY <2>2, <2>4, <2>5
<1>7. CASE CompleteJob(w) \/ CloseConn(w)
  <2>1. /\ StreamState(w) \in {"complete", "abandoned"} /\ StreamState(w)' = "closed"
        /\ StreamState(w) = "abandoned" => CanClose(w)
        /\ cancelled'[w] = cancelled[w]
    BY <1>7, <1>a DEF CompleteJob, CloseConn, Goto, StreamState
  <2>2. Left(w)' = 0 /\ (CanClose(w) => Left(w) <= BufCap \/ cancelled[w])
    BY <2>1 DEF Left, CanClose
  <2>3. Stream(w)!Close
    BY <2>1, <2>2 DEF Stream!Close
  <2>4. QED
    BY <2>3 DEF StreamKept, Stream!Next
<1>8. CASE ProducerFails(w)
  <2>1. /\ pc[w] = "close" /\ pc'[w] = pc[w] /\ cancelled'[w] = cancelled[w]
        /\ "source" \in Faults /\ run'[w].pend = {}
    BY <1>8, <1>a DEF ProducerFails, Run
  <2>2. StreamState(w) = "abandoned" /\ StreamState(w)' = StreamState(w) /\ Left(w)' = 0
    BY <2>1, FS_EmptySet DEF StreamState, Left
  <2>3. Stream(w)!LateFail
    BY <2>1, <2>2 DEF Stream!LateFail
  <2>4. QED
    BY <2>3 DEF StreamKept, Stream!Next
<1>9. CASE Cancel(w)
  <2>1. ~cancelled[w] /\ cancelled'[w] /\ pc' = pc /\ run' = run
    BY <1>9, <1>a DEF Cancel
  <2>2. StreamState(w)' = StreamState(w) /\ Left(w)' = Left(w)
    BY <2>1 DEF StreamState, Left
  <2>3. Stream(w)!Context
    BY <2>1, <2>2, <1>a DEF Stream!Context
  <2>4. QED
    BY <2>3 DEF StreamKept, Stream!Next
<1>10. QED
  BY <1>1, <1>2, <1>3, <1>4, <1>5, <1>6, <1>7, <1>8, <1>9 DEF Step

\* However many workers there are and whatever fails, each of them goes on to
\* MarkDeletedRows only from a stream that was complete, and closes a connector
\* it has stopped reading only when the rows left fit into the channel or its
\* context is done (connector.go:72).
THEOREM ContractKept == Spec => StreamsKeepContract
<1>1. Init => \A w \in Workers : Stream(w)!Init
  BY DEF Init, Stream!Init, Left, StreamState
<1>2. TypeOK /\ TypeOK' /\ [Next]_vars =>
        [Crash \/ \A w \in Workers : [Stream(w)!Next]_(Stream(w)!vars)]_vars
  <2> SUFFICES ASSUME TypeOK, TypeOK', [Next]_vars, ~Crash, NEW v \in Workers
               PROVE  StreamKept(v)
    BY DEF StreamKept
  <2>1. ASSUME NEW w \in Workers, BeginSync(w) \/ Step(w) \/ ProducerFails(w) \/ Cancel(w)
        PROVE  StreamKept(v)
    <3>1. CASE v = w
      BY <2>1, <3>1, StreamStep
    <3>2. CASE v # w
      <4>1. pc'[v] = pc[v] /\ run'[v] = run[v] /\ cancelled'[v] = cancelled[v]
        BY <2>1, <3>2, OthersStay
      <4>2. QED
        BY <4>1, StreamUndisturbed
    <3>3. QED
      BY <3>1, <3>2
  <2>2. CASE Tick \/ UNCHANGED vars
    BY <2>2, StreamUndisturbed DEF Tick, vars
  <2>3. QED
    BY <2>1, <2>2 DEF Next
<1>3. QED
  BY <1>1, <1>2, TypeCorrect, PTL DEF Spec, StreamsKeepContract

----------------------------------------------------------------------------
(* Jobs move forward *)

\* Between StartSyncJob and the record of its end a job is running, before that
\* it is pending.
Busy == { "version", "open", "stream", "upsert", "log", "mark", "deleted", "logdel",
          "close", "fail" }
PhaseInv ==
  \A w \in Workers :
    /\ pc[w] = "start" => jobs[run[w].job].status = "pending"
    /\ pc[w] \in Busy => jobs[run[w].job].status = "running"

JobsForward ==
  /\ Len(jobs') >= Len(jobs)
  /\ \A j \in 1..Len(jobs) :
       jobs'[j] = jobs[j] \/ <<jobs[j].status, jobs'[j].status>> \in JobFlow
  /\ \A j \in Len(jobs) + 1..Len(jobs') : jobs'[j].status = "pending"

\* A worker reports on its job, which is nobody else's, or leaves it as it is.
LEMMA JobReported ==
  ASSUME TypeOK, JobsInv, PhaseInv, NEW w \in Workers, pc[w] # "idle",
         Len(jobs') = Len(jobs),
         \A j \in 1..Len(jobs) \ {run[w].job} : jobs'[j] = jobs[j],
         \A v \in Workers \ {w} : pc'[v] = pc[v] /\ run'[v] = run[v],
         \/ jobs'[run[w].job] = jobs[run[w].job]
         \/ <<jobs[run[w].job].status, jobs'[run[w].job].status>> \in JobFlow,
         pc'[w] # "start",
         pc'[w] \in Busy => run'[w].job = run[w].job /\ jobs'[run[w].job].status = "running"
  PROVE  PhaseInv' /\ JobsForward
<1>1. JobsForward
  <2>1. Len(jobs) \in Nat
    BY DEF TypeOK, PlatformTypeOK
  <2>2. \A j \in 1..Len(jobs) :
          jobs'[j] = jobs[j] \/ <<jobs[j].status, jobs'[j].status>> \in JobFlow
    OBVIOUS
  <2>3. QED
    BY <2>1, <2>2 DEF JobsForward
<1>2. PhaseInv'
  <2> SUFFICES ASSUME NEW v \in Workers
               PROVE  /\ pc'[v] = "start" => jobs'[run'[v].job].status = "pending"
                      /\ pc'[v] \in Busy => jobs'[run'[v].job].status = "running"
    BY DEF PhaseInv
  <2>1. CASE v = w
    BY <2>1
  <2>2. CASE v # w /\ pc[v] # "idle"
    <3>1. run[v].job \in 1..Len(jobs) \ {run[w].job}
      BY <2>2 DEF JobsInv, TypeOK, AtHandOK
    <3>2. pc'[v] = pc[v] /\ jobs'[run'[v].job] = jobs[run[v].job]
      BY <2>2, <3>1
    <3>3. QED
      BY <3>2 DEF PhaseInv
  <2>3. CASE v # w /\ pc[v] = "idle"
    BY <2>3 DEF Busy
  <2>4. QED
    BY <2>1, <2>2, <2>3
<1>3. QED
  BY <1>1, <1>2

\* A worker inside SyncTable that leaves the jobs as they are.
LEMMA JobsUntouched ==
  ASSUME TypeOK, JobsInv, PhaseInv, NEW w \in Workers, pc[w] # "idle", jobs' = jobs,
         \A v \in Workers \ {w} : pc'[v] = pc[v] /\ run'[v] = run[v],
         pc'[w] # "start",
         pc'[w] \in Busy => pc[w] \in Busy /\ run'[w].job = run[w].job
  PROVE  PhaseInv' /\ JobsForward
<1>1. pc'[w] \in Busy => run'[w].job = run[w].job /\ jobs'[run[w].job].status = "running"
  BY DEF PhaseInv
<1>2. QED
  BY <1>1, JobReported

\* PhaseInv is inductive, and its steps move the jobs forward.
LEMMA PhaseStep ==
  ASSUME TypeOK, JobsInv, PhaseInv, [Next]_vars
  PROVE  PhaseInv' /\ JobsForward
<1>a. /\ pc \in [Workers -> PCs] /\ run \in [Workers -> Run] /\ jobs \in Seq(Job)
      /\ \A w \in Workers : pc[w] # "idle" => run[w].job \in 1..Len(jobs)
  BY DEF TypeOK, WorkerTypeOK, AtHandOK, PlatformTypeOK
<1>1. ASSUME NEW w \in Workers, BeginSync(w) PROVE PhaseInv' /\ JobsForward
  <2> DEFINE new == [status |-> "pending", ver |-> 0, stats |-> NoStats]
  <2>1. /\ jobs' = Append(jobs, new)
        /\ pc[w] = "idle"
        /\ pc'[w] = "idle" \/ (pc'[w] = "start" /\ run'[w].job = NewJobId)
    BY <1>1, <1>a DEF BeginSync, Goto, Run
  <2>2. /\ Len(jobs) \in Nat /\ Len(jobs') = Len(jobs) + 1 /\ NewJobId = Len(jobs')
        /\ \A j \in 1..Len(jobs) : jobs'[j] = jobs[j]
        /\ jobs'[Len(jobs) + 1] = new /\ new.status = "pending"
    BY <2>1, <1>a DEF NewJobId
  <2> HIDE DEF new
  <2>3. JobsForward
    BY <2>2 DEF JobsForward
  <2>4. \A v \in Workers \ {w} : pc'[v] = pc[v] /\ run'[v] = run[v]
    BY <1>1, OthersStay
  <2>5. PhaseInv'
    <3> SUFFICES ASSUME NEW v \in Workers
                 PROVE  /\ pc'[v] = "start" => jobs'[run'[v].job].status = "pending"
                        /\ pc'[v] \in Busy => jobs'[run'[v].job].status = "running"
      BY DEF PhaseInv
    <3>1. CASE v = w
      BY <2>1, <2>2, <3>1 DEF Busy
    <3>2. CASE v # w /\ pc[v] # "idle"
      <4>1. jobs'[run'[v].job] = jobs[run[v].job] /\ pc'[v] = pc[v]
        BY <2>2, <2>4, <3>2, <1>a
      <4>2. QED
        BY <4>1 DEF PhaseInv
    <3>3. CASE v # w /\ pc[v] = "idle"
      BY <2>4, <3>3 DEF Busy
    <3>4. QED
      BY <3>1, <3>2, <3>3
  <2>6. QED
    BY <2>3, <2>5
<1>2. ASSUME NEW w \in Workers, StartJob(w) PROVE PhaseInv' /\ JobsForward
  <2>1. PICK o \in Outcomes(w) :
          /\ IF Applied(o) THEN SetStatus(run[w].job, "running") ELSE UNCHANGED jobs
          /\ IF o = "ok" THEN Goto(w, "version") /\ UNCHANGED <<run, cancelled>> ELSE Return(w)
    BY <1>2 DEF StartJob
  <2>2. pc[w] = "start" /\ run[w].job \in 1..Len(jobs) /\ jobs[run[w].job].status = "pending"
    BY <1>2, <1>a DEF StartJob, PhaseInv
  <2>3. \A v \in Workers \ {w} : pc'[v] = pc[v] /\ run'[v] = run[v]
    BY <1>2, OthersStay DEF Step
  <2>4. CASE o = "ok"
    <3>1. pc'[w] = "version" /\ run' = run /\ SetStatus(run[w].job, "running")
      BY <2>1, <2>4, <1>a DEF Goto, Applied
    <3>2. /\ Len(jobs') = Len(jobs) /\ jobs'[run[w].job].status = "running"
          /\ \A j \in 1..Len(jobs) \ {run[w].job} : jobs'[j] = jobs[j]
      BY <2>2, <3>1, <1>a, StatusSet
    <3>3. QED
      BY <2>2, <2>3, <3>1, <3>2, JobReported DEF JobFlow
  <2>5. CASE o # "ok"
    <3>1. pc'[w] = "idle"
      BY <2>1, <2>5, <1>a DEF Return, Goto
    <3>2. CASE jobs' = jobs
      BY <2>2, <2>3, <3>1, <3>2, JobsUntouched DEF Busy
    <3>3. CASE SetStatus(run[w].job, "running")
      <4>1. /\ Len(jobs') = Len(jobs) /\ jobs'[run[w].job].status = "running"
            /\ \A j \in 1..Len(jobs) \ {run[w].job} : jobs'[j] = jobs[j]
        BY <2>2, <3>3, <1>a, StatusSet
      <4>2. QED
        BY <2>2, <2>3, <3>1, <4>1, JobReported DEF JobFlow, Busy
    <3>4. QED
      BY <2>1, <3>2, <3>3
  <2>6. QED
    BY <2>4, <2>5
<1>3. ASSUME NEW w \in Workers, CompleteJob(w) \/ FailJob(w) PROVE PhaseInv' /\ JobsForward
  <2>1. /\ pc[w] \in {"deleted", "fail"} /\ pc'[w] \in {"stats", "srcerr"} /\ run' = run
        /\ run[w].job \in 1..Len(jobs) /\ jobs[run[w].job].status = "running"
    BY <1>3, <1>a DEF CompleteJob, FailJob, Goto, PhaseInv, Busy
  <2>2. \A v \in Workers \ {w} : pc'[v] = pc[v] /\ run'[v] = run[v]
    BY <1>3, OthersStay DEF Step
  <2>3. CASE jobs' = jobs
    BY <2>1, <2>2, <2>3, JobsUntouched DEF Busy
  <2>4. CASE /\ Len(jobs') = Len(jobs) /\ jobs'[run[w].job].status \in {"completed", "failed"}
             /\ \A j \in 1..Len(jobs) \ {run[w].job} : jobs'[j] = jobs[j]
    BY <2>1, <2>2, <2>4, JobReported DEF JobFlow, Busy
  <2>5. CASE SetStatus(run[w].job, "failed")
    BY <2>1, <2>4, <2>5, <1>a, StatusSet
  <2>6. CASE jobs' = [jobs EXCEPT ![run[w].job] =
                        [status |-> "completed", ver |-> run[w].ver, stats |-> run[w].stats]]
    BY <2>1, <2>4, <2>6, <1>a
  <2>7. QED
    BY <1>3, <2>3, <2>5, <2>6 DEF CompleteJob, FailJob
<1>4. ASSUME NEW w \in Workers,
             \/ TakeVersion(w) \/ OpenStream(w) \/ ConnectError(w) \/ NextRow(w) \/ StreamError(w)
             \/ EndOfStream(w) \/ Upsert(w) \/ LogChange(w) \/ MarkDeleted(w) \/ ReadDeleted(w)
             \/ LogDelete(w) \/ UpdateTableSyncStats(w) \/ CreateSnapshot(w) \/ CloseConn(w)
             \/ MarkSourceError(w) \/ ProducerFails(w) \/ Cancel(w)
      PROVE  PhaseInv' /\ JobsForward
  <2>1. \A v \in Workers \ {w} : pc'[v] = pc[v] /\ run'[v] = run[v]
    BY <1>4, OthersStay DEF Step
  <2>2. jobs' = jobs
    BY ZenonT(60), <1>4 DEF TakeVersion, OpenStream, ConnectError, NextRow, StreamError, EndOfStream,
       Upsert, LogChange, MarkDeleted, ReadDeleted, LogDelete, UpdateTableSyncStats,
       CreateSnapshot, CloseConn, MarkSourceError, ProducerFails, Cancel, platform
  <2>3. CASE Cancel(w)
    <3>1. pc' = pc /\ run' = run /\ pc[w] # "idle"
      BY <2>3 DEF Cancel
    <3>2. QED
      BY <2>2, <3>1 DEF PhaseInv, JobsForward, TypeOK, PlatformTypeOK
  <2>4. CASE \/ TakeVersion(w) \/ OpenStream(w) \/ ConnectError(w) \/ StreamError(w) \/ EndOfStream(w)
             \/ LogChange(w) \/ LogDelete(w) \/ CloseConn(w) \/ ProducerFails(w)
    <3>1. pc[w] \in Busy /\ pc'[w] \in Busy
      BY <2>4, <1>a DEF TakeVersion, OpenStream, ConnectError, StreamError, EndOfStream, LogChange,
         LogDelete, CloseConn, ProducerFails, Goto, Busy
    <3>2. run[w] \in Run
      BY <1>a
    <3>3. CASE OpenStream(w)
      <4>1. PICK snap \in [Keys -> Vals \cup {Nil}] :
              run' = [run EXCEPT ![w].snap = snap, ![w].pend = {k \in Keys : snap[k] # Nil}]
        BY <3>3 DEF OpenStream
      <4> DEFINE pend == {k \in Keys : snap[k] # Nil}
      <4>2. run' = [run EXCEPT ![w].snap = snap, ![w].pend = pend]
        BY <4>1
      <4> HIDE DEF pend
      <4>3. run'[w].job = run[w].job
        BY <3>2, <4>2, <1>a DEF Run
      <4>4. QED
        BY <2>1, <2>2, <3>1, <4>3, JobsUntouched DEF Busy
    <3>4. CASE \/ TakeVersion(w) \/ ConnectError(w) \/ StreamError(w) \/ EndOfStream(w)
               \/ LogChange(w) \/ LogDelete(w) \/ CloseConn(w) \/ ProducerFails(w)
      <4>1. run'[w].job = run[w].job
        BY <3>2, <3>4, <1>a DEF TakeVersion, ConnectError, StreamError, EndOfStream, LogChange,
           LogDelete, CloseConn, ProducerFails, Run
      <4>2. QED
        BY <2>1, <2>2, <3>1, <4>1, JobsUntouched DEF Busy
    <3>5. QED
      BY <2>4, <3>3, <3>4
  <2>5. CASE NextRow(w) \/ Upsert(w) \/ MarkDeleted(w) \/ ReadDeleted(w)
    <3>1. pc[w] \in Busy /\ pc'[w] \in Busy
      BY <2>5, <1>a DEF NextRow, Upsert, AfterUpsert, MarkDeleted, ReadDeleted, Goto, Busy
    <3>2. run'[w].job = run[w].job
      BY <2>5, NextRowRun, UpsertRun, MarkDeletedRun, ReadDeletedRun
    <3>3. QED
      BY <2>1, <2>2, <3>1, <3>2, JobsUntouched DEF Busy
  <2>6. CASE UpdateTableSyncStats(w) \/ CreateSnapshot(w) \/ MarkSourceError(w)
    <3>1. pc[w] # "idle" /\ pc'[w] \in {"snapshot", "idle"}
      BY <2>6, <1>a DEF UpdateTableSyncStats, CreateSnapshot, MarkSourceError, Return, Goto
    <3>2. QED
      BY <2>1, <2>2, <3>1, JobsUntouched DEF Busy
  <2>7. QED
    BY <1>4, <2>3, <2>4, <2>5, <2>6
<1>5. CASE Crash \/ Tick \/ UNCHANGED vars
  <2>1. jobs' = jobs
    BY <1>5 DEF Crash, Tick, vars, platform
  <2>2. JobsForward
    BY <2>1, <1>a DEF JobsForward
  <2>3. CASE Crash
    <3>1. \A w \in Workers : pc'[w] = "idle"
      BY <2>3 DEF Crash
    <3>2. PhaseInv'
      BY <3>1 DEF PhaseInv, Busy
    <3>3. QED
      BY <2>2, <3>2
  <2>4. CASE Tick \/ UNCHANGED vars
    <3>1. pc' = pc /\ run' = run
      BY <2>4 DEF Tick, vars
    <3>2. PhaseInv'
      BY <2>1, <3>1 DEF PhaseInv
    <3>3. QED
      BY <2>2, <3>2
  <2>5. QED
    BY <1>5, <2>2, <2>3, <2>4
<1>6. QED
  BY <1>1, <1>2, <1>3, <1>4, <1>5 DEF Next, Step

\* However many syncs overlap and whatever fails, a job goes from pending to
\* running to completed or failed, never back, and what a job that is over says
\* is final.
THEOREM JobsAreFinal == Spec => JobsMoveForward
<1>1. Init => JobsInv
  BY DEF Init, JobsInv, NoOrphanJobs
<1>2. Init => PhaseInv
  BY DEF Init, PhaseInv, Busy
<1>3. TypeOK /\ JobsInv /\ PhaseInv /\ [Next]_vars => PhaseInv'
  BY PhaseStep
<1>4. TypeOK /\ JobsInv /\ PhaseInv /\ [Next]_vars =>
        [ /\ Len(jobs') >= Len(jobs)
          /\ \A j \in 1..Len(jobs) :
               jobs'[j] = jobs[j] \/ <<jobs[j].status, jobs'[j].status>> \in JobFlow
          /\ \A j \in Len(jobs) + 1..Len(jobs') : jobs'[j].status = "pending" ]_vars
  BY PhaseStep DEF JobsForward
<1>5. QED
  BY <1>1, <1>2, <1>3, <1>4, TypeCorrect, JobsInductive, PTL DEF Spec, JobsMoveForward

----------------------------------------------------------------------------
(* A sync comes to an end *)

\* Work(w) as a function of where the worker stands and of how many rows and
\* deletes it has left.
WorkAt(at, p, d) ==
  TailWork[at] +
  CASE at \in {"deleted", "logdel"} -> 2 * d
    [] at = "mark" -> 2 * Cardinality(Keys)
    [] at \in {"stream", "upsert", "log"} -> 2 * Cardinality(Keys) + 3 * p
    [] at \in {"start", "version", "open"} -> 5 * Cardinality(Keys)
    [] OTHER -> 0

LEMMA KeysCount == Cardinality(Keys) \in Nat
BY ConstantsAssumption, FS_CardinalityType

\* Its values, one by one.
WorkTable(p, d) ==
  /\ WorkAt("idle", p, d) = 0
  /\ WorkAt("start", p, d) = 9 + 5 * Cardinality(Keys)
  /\ WorkAt("version", p, d) = 8 + 5 * Cardinality(Keys)
  /\ WorkAt("open", p, d) = 7 + 5 * Cardinality(Keys)
  /\ WorkAt("stream", p, d) = 6 + 2 * Cardinality(Keys) + 3 * p
  /\ WorkAt("upsert", p, d) = 8 + 2 * Cardinality(Keys) + 3 * p
  /\ WorkAt("log", p, d) = 7 + 2 * Cardinality(Keys) + 3 * p
  /\ WorkAt("mark", p, d) = 5 + 2 * Cardinality(Keys)
  /\ WorkAt("deleted", p, d) = 4 + 2 * d
  /\ WorkAt("logdel", p, d) = 5 + 2 * d
  /\ WorkAt("stats", p, d) = 2
  /\ WorkAt("snapshot", p, d) = 1
  /\ WorkAt("close", p, d) = 3
  /\ WorkAt("fail", p, d) = 2
  /\ WorkAt("srcerr", p, d) = 1

LEMMA WorkValues == ASSUME NEW p \in Nat, NEW d \in Nat PROVE WorkTable(p, d)
BY KeysCount DEF WorkAt, TailWork, WorkTable

LEMMA WorkAtType ==
  ASSUME NEW at \in PCs, NEW p \in Nat, NEW d \in Nat PROVE WorkAt(at, p, d) \in Nat
<1>1. WorkTable(p, d)
  BY WorkValues
<1>2. QED
  BY <1>1, KeysCount DEF WorkTable, PCs

\* A worker that stays where it is has the same work left.
LEMMA WorkSame ==
  ASSUME NEW w \in Workers, pc'[w] = pc[w], run'[w] = run[w]
  PROVE  Work(w)' = Work(w)
BY DEF Work, RowWork

\* Every step of a sync does some of its work.
LEMMA StepWorks ==
  ASSUME TypeOK, TypeOK', NEW w \in Workers, Step(w)
  PROVE  Work(w)' < Work(w)
<1> DEFINE p == Cardinality(run[w].pend)
           d == Cardinality(run[w].dels)
           pp == Cardinality(run'[w].pend)
           dd == Cardinality(run'[w].dels)
           n == Cardinality(Keys)
<1>a. /\ pc \in [Workers -> PCs] /\ run \in [Workers -> Run] /\ run[w] \in Run
  BY DEF TypeOK, WorkerTypeOK
<1>b. /\ IsFiniteSet(run[w].pend) /\ IsFiniteSet(run[w].dels)
      /\ p \in Nat /\ d \in Nat /\ pp \in Nat /\ dd \in Nat /\ pp <= n /\ dd <= n
  <2>1. /\ run[w].pend \subseteq Keys /\ run[w].dels \subseteq Keys
        /\ run'[w].pend \subseteq Keys /\ run'[w].dels \subseteq Keys
    BY DEF TypeOK, WorkerTypeOK, Run
  <2>2. QED
    BY <2>1, ConstantsAssumption, FS_Subset, FS_CardinalityType
<1>c. Work(w) = WorkAt(pc[w], p, d) /\ Work(w)' = WorkAt(pc'[w], pp, dd) /\ n \in Nat
  BY KeysCount DEF Work, RowWork, WorkAt
<1>d. /\ \A k \in run[w].pend : p > 0 /\ Cardinality(run[w].pend \ {k}) = p - 1
      /\ \A k \in run[w].dels : d > 0 /\ Cardinality(run[w].dels \ {k}) = d - 1
  <2>1. \A k \in run[w].pend : run[w].pend # {} /\ Cardinality(run[w].pend \ {k}) = p - 1
    BY <1>b, FS_RemoveElement
  <2>2. \A k \in run[w].dels : run[w].dels # {} /\ Cardinality(run[w].dels \ {k}) = d - 1
    BY <1>b, FS_RemoveElement
  <2>3. (p = 0 <=> run[w].pend = {}) /\ (d = 0 <=> run[w].dels = {})
    BY <1>b, FS_EmptySet
  <2>4. ASSUME NEW k \in run[w].pend PROVE p > 0
    BY <1>b, <2>3
  <2>5. ASSUME NEW k \in run[w].dels PROVE d > 0
    BY <1>b, <2>3
  <2>6. QED
    BY <2>1, <2>2, <2>4, <2>5
<1>e. WorkTable(p, d) /\ WorkTable(pp, dd)
  BY <1>b, WorkValues
<1>1. CASE StartJob(w) \/ TakeVersion(w) \/ ConnectError(w)
  <2>1. \/ pc[w] = "start" /\ pc'[w] \in {"version", "idle"}
        \/ pc[w] = "version" /\ pc'[w] = "open"
        \/ pc[w] = "open" /\ pc'[w] = "fail"
    BY <1>1, <1>a DEF StartJob, TakeVersion, ConnectError, Return, Goto
  <2> HIDE DEF p, d, pp, dd
  <2>2. QED
    BY <1>b, <1>c, <2>1, <1>e DEF WorkTable
<1>2. CASE OpenStream(w)
  <2>1. pc[w] = "open" /\ pc'[w] = "stream"
    BY <1>2, <1>a DEF OpenStream, Goto
  <2> HIDE DEF p, d, pp, dd
  <2>2. QED
    BY <1>b, <1>c, <2>1, <1>e DEF WorkTable
<1>3. CASE NextRow(w)
  <2>1. \E k \in run[w].pend : run'[w].pend = run[w].pend \ {k}
    BY <1>3, <1>a DEF NextRow, Run
  <2>2. p > 0 /\ pp = p - 1
    BY <1>d, <2>1
  <2>3. pc[w] = "stream" /\ pc'[w] \in {"upsert", "close"}
    BY <1>3, NextRowRun
  <2> HIDE DEF p, d, pp, dd
  <2>4. QED
    BY <1>b, <1>c, <2>2, <2>3, <1>e DEF WorkTable
<1>4. CASE StreamError(w) \/ EndOfStream(w)
  <2>1. pc[w] = "stream" /\ pc'[w] \in {"close", "mark"}
    BY <1>4, <1>a DEF StreamError, EndOfStream, Goto
  <2> HIDE DEF p, d, pp, dd
  <2>2. QED
    BY <1>b, <1>c, <2>1, <1>e DEF WorkTable
<1>5. CASE Upsert(w) \/ LogChange(w)
  <2>1. run'[w].pend = run[w].pend
    <3>1. CASE Upsert(w)
      BY <3>1, <1>a DEF Upsert, Run
    <3>2. CASE LogChange(w)
      BY <3>2 DEF LogChange
    <3>3. QED
      BY <1>5, <3>1, <3>2
  <2>2. pp = p
    BY <2>1
  <2>3. \/ pc[w] = "upsert" /\ pc'[w] \in {"log", "stream", "close"}
        \/ pc[w] = "log" /\ pc'[w] = "stream"
    BY <1>5, <1>a DEF Upsert, AfterUpsert, LogChange, Goto
  <2> HIDE DEF p, d, pp, dd
  <2>4. QED
    BY <1>b, <1>c, <2>2, <2>3, <1>e DEF WorkTable
<1>6. CASE MarkDeleted(w)
  <2>1. pc[w] = "mark" /\ pc'[w] \in {"deleted", "close"}
    BY <1>6, MarkDeletedRun
  <2> HIDE DEF p, d, pp, dd
  <2>2. QED
    BY <1>b, <1>c, <2>1, <1>e DEF WorkTable
<1>7. CASE ReadDeleted(w)
  <2>1. pc[w] = "deleted" /\ pc'[w] = "logdel" /\ \E k \in run[w].dels : run'[w].dels = run[w].dels \ {k}
    BY <1>7, ReadDeletedRun
  <2>2. d > 0 /\ dd = d - 1
    BY <1>d, <2>1
  <2> HIDE DEF p, d, pp, dd
  <2>3. QED
    BY <1>b, <1>c, <2>1, <2>2, <1>e DEF WorkTable
<1>8. CASE LogDelete(w)
  <2>1. pc[w] = "logdel" /\ pc'[w] = "deleted" /\ run' = run
    BY <1>8, <1>a DEF LogDelete, Goto
  <2>2. dd = d
    BY <2>1
  <2> HIDE DEF p, d, pp, dd
  <2>3. QED
    BY <1>b, <1>c, <2>1, <2>2, <1>e DEF WorkTable
<1>9. CASE CompleteJob(w) \/ UpdateTableSyncStats(w) \/ CreateSnapshot(w) \/ CloseConn(w)
           \/ FailJob(w) \/ MarkSourceError(w)
  <2>1. \/ pc[w] = "deleted" /\ pc'[w] = "stats"
        \/ pc[w] = "stats" /\ pc'[w] = "snapshot"
        \/ pc[w] \in {"snapshot", "srcerr"} /\ pc'[w] = "idle"
        \/ pc[w] = "close" /\ pc'[w] = "fail"
        \/ pc[w] = "fail" /\ pc'[w] = "srcerr"
    BY <1>9, <1>a DEF CompleteJob, UpdateTableSyncStats, CreateSnapshot, CloseConn, FailJob,
       MarkSourceError, Return, Goto
  <2> HIDE DEF p, d, pp, dd
  <2>2. QED
    BY <1>b, <1>c, <2>1, <1>e DEF WorkTable
<1>10. QED
  BY <1>1, <1>2, <1>3, <1>4, <1>5, <1>6, <1>7, <1>8, <1>9 DEF Step

\* However many syncs overlap and whatever fails, every step of a sync brings it
\* nearer to its end and nothing puts it back: a sync takes at most 5n + 9 steps of
\* its own, n the number of row keys.
THEOREM SyncsShrink == Spec => WorkShrinks
<1>1. TypeOK /\ TypeOK' /\ [Next]_vars =>
        [ \A w \in Workers :
            /\ pc[w] # "idle" => Work(w)' <= Work(w)
            /\ Step(w) => Work(w)' < Work(w) ]_vars
  <2> SUFFICES ASSUME TypeOK, TypeOK', [Next]_vars, NEW v \in Workers, pc[v] # "idle"
               PROVE  Work(v)' <= Work(v)
    BY StepWorks DEF Next
  <2>a. Work(v) \in Nat /\ Work(v)' \in Nat
    <3> DEFINE p == Cardinality(run[v].pend)
               d == Cardinality(run[v].dels)
               pp == Cardinality(run'[v].pend)
               dd == Cardinality(run'[v].dels)
    <3>1. /\ run[v].pend \subseteq Keys /\ run[v].dels \subseteq Keys /\ pc[v] \in PCs
          /\ run'[v].pend \subseteq Keys /\ run'[v].dels \subseteq Keys /\ pc'[v] \in PCs
      BY DEF TypeOK, WorkerTypeOK, Run
    <3>2. p \in Nat /\ d \in Nat /\ pp \in Nat /\ dd \in Nat
      BY <3>1, ConstantsAssumption, FS_Subset, FS_CardinalityType
    <3>3. Work(v) = WorkAt(pc[v], p, d) /\ Work(v)' = WorkAt(pc'[v], pp, dd)
      BY DEF Work, RowWork, WorkAt
    <3> HIDE DEF p, d, pp, dd
    <3>4. QED
      BY <3>1, <3>2, <3>3, WorkAtType
  <2>1. ASSUME NEW w \in Workers, BeginSync(w) \/ Step(w) \/ ProducerFails(w) \/ Cancel(w)
        PROVE  Work(v)' <= Work(v)
    <3>1. CASE v # w
      <4>1. Work(v)' = Work(v)
        BY <2>1, <3>1, OthersStay, WorkSame
      <4>2. QED
        BY <2>a, <4>1
    <3>2. CASE v = w /\ Step(w)
      BY <2>a, <3>2, StepWorks
    <3>3. CASE v = w /\ ProducerFails(w)
      <4>1. pc[v] = "close" /\ pc'[v] = "close"
        BY <3>3 DEF ProducerFails
      <4>2. Work(v)' = Work(v)
        BY <4>1 DEF Work, RowWork
      <4>3. QED
        BY <2>a, <4>2
    <3>4. CASE v = w /\ Cancel(w)
      <4>1. Work(v)' = Work(v)
        BY <3>4, WorkSame DEF Cancel
      <4>2. QED
        BY <2>a, <4>1
    <3>5. QED
      BY <2>1, <3>1, <3>2, <3>3, <3>4 DEF BeginSync
  <2>2. CASE Crash
    <3>1. pc'[v] = "idle"
      BY <2>2 DEF Crash
    <3>2. Work(v)' = 0
      BY <3>1 DEF Work, RowWork, TailWork
    <3>3. QED
      BY <2>a, <3>2
  <2>3. CASE Tick \/ UNCHANGED vars
    <3>1. pc' = pc /\ run' = run
      BY <2>3 DEF Tick, vars
    <3>2. Work(v)' = Work(v)
      BY <3>1, WorkSame
    <3>3. QED
      BY <2>a, <3>2
  <2>4. QED
    BY <2>1, <2>2, <2>3 DEF Next
<1>2. QED
  BY <1>1, TypeCorrect, PTL DEF Spec, WorkShrinks
=============================================================================
