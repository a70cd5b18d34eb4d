------------------------- MODULE ChunkBuilderProofs -------------------------
(***************************************************************************)
(* Proofs about ChunkBuilder for any number of workers, tables and chunks  *)
(* and for every --max-threads-per-table, with and without --use-defer.    *)
(* The inductive invariant follows every job from the builder's hand over  *)
(* the queues to the worker that runs it: a table's counter, its status    *)
(* and the chunks still to be dumped are each explained by the jobs that   *)
(* are on their way.                                                       *)
(***************************************************************************)
EXTENDS ChunkBuilder, Counting

StageTables(s) == IF s = 1 THEN NonTransactional ELSE Transactional

(* The tables whose chunks go to q->defer. *)
Deferring(t) == UseDefer /\ kind[t] = "INTEGER"

(* The builder has sent the JOB_SHUTDOWN jobs of stage s. *)
Past(s) == builder.stage > s \/ builder.pc = "done"

(* What q->queue and q->defer of stage s may hold. *)
QueueJobs(s) ==
    {j \in Job : IF j.type = "SHUTDOWN" THEN j = NoJob
                 ELSE /\ j.dbt \in StageTables(s)
                      /\ j.type \in {"DUMP", "DEFER"} => status[j.dbt] = "READY"
                      /\ j.type = "DUMP" => ~Deferring(j.dbt)
                      /\ j.type = "DEFER" => Deferring(j.dbt)}

DeferJobs(s) ==
    {j \in Job : IF j.type = "SHUTDOWN" THEN j = NoJob
                 ELSE /\ j.dbt \in StageTables(s)
                      /\ j.type = "DUMP" /\ status[j.dbt] = "READY" /\ Deferring(j.dbt)}

QueuesOK ==
    \A s \in Stages : queue[s] \in Seq(QueueJobs(s)) /\ defer[s] \in Seq(DeferJobs(s))

(* What the builder and the workers hold. *)
BuilderHolds ==
    builder.pc = "push" =>
        /\ builder.job.dbt \in StageTables(builder.stage)
        /\ builder.job.type \in {"DETERMINE_CHUNK_TYPE", "DUMP"}
        /\ builder.job.type = "DUMP" => status[builder.job.dbt] = "READY"

WorkerHolds(w) ==
    /\ worker[w].pc = "request" => worker[w].loop = "queue"
    /\ worker[w].pc \in {"run", "release"} =>
         /\ worker[w].job.type # "SHUTDOWN"
         /\ \A s \in Stages : worker[w].stage = s =>
              worker[w].job \in IF worker[w].loop = "queue" THEN QueueJobs(s)
                                                           ELSE DeferJobs(s)
    /\ worker[w].pc = "release" => worker[w].job.type = "DUMP"

HandsOK == BuilderHolds /\ \A w \in Workers : WorkerHolds(w)

(* Nothing but JOB_SHUTDOWN follows a JOB_SHUTDOWN; none comes before the  *)
(* builder is done with the stage.                                         *)
Closed(q) ==
    \A m, n \in DOMAIN q : m < n /\ q[m].type = "SHUTDOWN" => q[n].type = "SHUTDOWN"

Drained(q) == \A n \in DOMAIN q : q[n].type = "SHUTDOWN"

Open(q) == \A n \in DOMAIN q : q[n].type # "SHUTDOWN"

OrderOK ==
    /\ builder.pc = "done" => builder.stage = 2
    /\ builder.stage = 1 => queue[2] = <<>> /\ defer[2] = <<>>
    /\ \A s \in Stages :
        /\ Closed(queue[s]) /\ Closed(defer[s])
        /\ ~Past(s) => Open(queue[s]) /\ Open(defer[s])

(* Unless a signal came, a worker leaves a loop only at a JOB_SHUTDOWN.    *)
Place(w) ==
    /\ worker[w].stage = 2 => Past(1) /\ Drained(queue[1]) /\ Drained(defer[1])
    /\ \A s \in Stages : worker[w].stage = s /\ worker[w].loop = "defer" =>
            Past(s) /\ Drained(queue[s])
    /\ worker[w].pc = "end" =>
            worker[w].stage = 2 /\ worker[w].loop = "defer" /\ Drained(defer[2])

PlacesOK ==
    ~shutdown_triggered =>
        /\ builder.stage = 1 => request[2] = 0
        /\ \A w \in Workers : Place(w)

(* The lists of tables and the builder's walk along one of them.           *)
Distinct(q) == \A m, n \in DOMAIN q : q[m] = q[n] => m = n

Member(t, q) == \E n \in DOMAIN q : q[n] = t

WalkOK ==
    builder.pc = "walk" =>
        /\ Distinct(builder.iter)
        /\ \A t \in Tables : Member(t, builder.iter) =>
                Member(t, table_list[builder.stage])
        /\ \/ WorkLeft
           \/ \A t \in Tables : Member(t, table_list[builder.stage]) =>
                Member(t, builder.iter)

ListsOK ==
    /\ \A s \in Stages : /\ table_list[s] \in Seq(StageTables(s))
                         /\ Distinct(table_list[s])
    /\ WalkOK
    /\ ~shutdown_triggered => \A s \in Stages :
        Past(s) \/ (builder.stage = s /\ builder.pc = "finish") =>
            table_list[s] = <<>>

(* One token or job for each worker that waits for one. *)
ShutdownJobs == {NoJob}

WorkerRecord ==
    [pc : {"request", "pop", "run", "release", "end"}, stage : Stages,
     loop : {"queue", "defer"}, job : Job]

Asking(s) == {r \in WorkerRecord : r.stage = s /\ r.loop = "queue" /\ r.pc = "pop"}
Before(s) == {r \in WorkerRecord : r.stage < s \/ (r.stage = s /\ r.loop = "queue")}

AnswersOK ==
    ~shutdown_triggered => \A s \in Stages :
        /\ builder.stage = s /\ builder.pc # "done" =>
             request[s] + Len(queue[s]) + (IF builder.pc = "wait" THEN 0 ELSE 1)
               = Many(Workers, worker, Asking(s))
        /\ Past(s) => Items(queue[s], ShutdownJobs) = Many(Workers, worker, Before(s))

(* The jobs of a set J that are on their way: Carried counts those in the  *)
(* builder's hand, on q->queue and with a worker, Left those that are not  *)
(* processed yet, wherever they are.                                       *)
InBuilder(J) == IF builder.pc = "push" /\ builder.job \in J THEN 1 ELSE 0
With(pcs, J) == Many(Workers, worker, {r \in WorkerRecord : r.pc \in pcs /\ r.job \in J})
Both(q, J) == Items(q[1], J) + Items(q[2], J)
Carried(J) == InBuilder(J) + Both(queue, J) + With({"run", "release"}, J)
Left(J) == InBuilder(J) + Both(queue, J) + Both(defer, J) + With({"run"}, J)

JobsOf(type, t) == {j \in Job : j.type = type /\ j.dbt = t}
Chunk(t, n) == {j \in Job : j.type = "DUMP" /\ j.dbt = t /\ j.chunk = n}

DefiningOK ==
    \A t \in Tables :
        /\ Carried(JobsOf("DETERMINE_CHUNK_TYPE", t))
             <= IF status[t] = "DEFINING" THEN 1 ELSE 0
        /\ ~shutdown_triggered =>
             Carried(JobsOf("DETERMINE_CHUNK_TYPE", t))
               = IF status[t] = "DEFINING" THEN 1 ELSE 0
        /\ status[t] # "READY" => running[t] = 0 /\ given[t] = 0

(* The threads that keep the counter of table t up. *)
Busy(t) == IF Deferring(t) THEN InBuilder(JobsOf("DUMP", t)) + Carried(JobsOf("DEFER", t))
                           ELSE Carried(JobsOf("DUMP", t))

CountersOK ==
    \A t \in Tables :
        /\ kind[t] = "NONE" =>
             /\ Busy(t) <= given[t] /\ given[t] <= 1
             /\ Listed(t) => given[t] = 0 /\ running[t] = 0
        /\ kind[t] # "NONE" /\ ~Deferring(t) =>
             /\ Busy(t) <= running[t] /\ running[t] <= MaxThreadsPerTable
             /\ ~shutdown_triggered => Busy(t) = running[t]
        /\ Deferring(t) /\ ~shutdown_triggered /\ Listed(t) =>
             Busy(t) = running[t] /\ running[t] <= MaxThreadsPerTable

ChunksOK ==
    \A t \in Tables :
        /\ ~Listed(t) => given[t] > 0
        /\ \A n \in 1 .. MaxChunks :
            /\ dumped[t][n] + Left(Chunk(t, n)) <= IF n <= given[t] THEN 1 ELSE 0
            /\ ~shutdown_triggered =>
                 dumped[t][n] + Left(Chunk(t, n)) = IF n <= given[t] THEN 1 ELSE 0

IInv ==
    /\ TypeOK /\ QueuesOK /\ HandsOK /\ OrderOK /\ PlacesOK /\ ListsOK /\ AnswersOK
    /\ DefiningOK /\ CountersOK /\ ChunksOK

-----------------------------------------------------------------------------
(* One item goes on, or comes off, one of the two queues of a kind; the    *)
(* JOB_SHUTDOWN jobs go on at once.                                        *)
Put(q, r, s, x) ==
    s \in Stages /\ r[s] = Append(q[s], x) /\ \A u \in Stages \ {s} : r[u] = q[u]

Taken(q, r, s) ==
    /\ s \in Stages /\ q[s] # <<>> /\ r[s] = Tail(q[s])
    /\ \A u \in Stages \ {s} : r[u] = q[u]

Filled(q, r, s) ==
    s \in Stages /\ r[s] = enqueue_shutdown_jobs(q[s]) /\ \A u \in Stages \ {s} : r[u] = q[u]

LEMMA NumThreadsType == NumThreads \in Nat /\ NumThreads >= 1
<1>1. NumThreads \in Nat
  BY ThreadsAssumption, FS_CardinalityType DEF NumThreads
<1>2. NumThreads # 0
  BY ThreadsAssumption, FS_EmptySet DEF NumThreads
<1> QED
  BY <1>1, <1>2

LEMMA NoJobType == NoJob \in Job /\ NoJob.type = "SHUTDOWN" /\ NoJob.dbt = NoTable
  BY DEF NoJob, Job

(* What a queue holds after a step, and how many items of a kind. *)
LEMMA PutItems ==
    ASSUME NEW q \in [Stages -> Seq(Job)], NEW r, NEW s, NEW x \in Job, Put(q, r, s, x)
    PROVE  /\ \A u \in Stages : \A n \in DOMAIN r[u] :
                 (u = s /\ r[u][n] = x) \/ (n \in DOMAIN q[u] /\ r[u][n] = q[u][n])
           /\ Len(r[s]) = Len(q[s]) + 1
           /\ \A J : Both(r, J) = IF x \in J THEN Both(q, J) + 1 ELSE Both(q, J)
<1>1. s \in Stages /\ r[s] = Append(q[s], x) /\ \A u \in Stages \ {s} : r[u] = q[u]
  BY DEF Put
<1>2. q[s] \in Seq(Job)
  BY <1>1
<1>3. \A n \in DOMAIN r[s] : r[s][n] = x \/ (n \in DOMAIN q[s] /\ r[s][n] = q[s][n])
  BY <1>1, <1>2
<1>4. \A J : Items(r[s], J) = IF x \in J THEN Items(q[s], J) + 1 ELSE Items(q[s], J)
  <2> DEFINE a == r[s]
             b == q[s]
  <2>1. b \in Seq(Job) /\ a = Append(b, x)
    BY <1>1, <1>2
  <2> HIDE DEF a, b
  <2>2. \A J : Items(Append(b, x), J) = IF x \in J THEN Items(b, J) + 1 ELSE Items(b, J)
    BY <2>1, ItemsAppend
  <2> QED
    BY <2>1, <2>2 DEF a, b
<1>5. \A J : Items(q[1], J) \in Nat /\ Items(q[2], J) \in Nat
  <2>1. q[1] \in Seq(Job) /\ q[2] \in Seq(Job)
    BY DEF Stages
  <2> QED
    BY <2>1, ItemsBound
<1>6. \A J : Both(r, J) = IF x \in J THEN Both(q, J) + 1 ELSE Both(q, J)
  <2>1. CASE s = 1
    <3>1. r[2] = q[2]
      BY <1>1, <2>1 DEF Stages
    <3> QED
      BY <1>4, <1>5, <2>1, <3>1 DEF Both
  <2>2. CASE s = 2
    <3>1. r[1] = q[1]
      BY <1>1, <2>2 DEF Stages
    <3> QED
      BY <1>4, <1>5, <2>2, <3>1 DEF Both
  <2> QED
    BY <1>1, <2>1, <2>2 DEF Stages
<1>7. Len(r[s]) = Len(q[s]) + 1
  BY <1>1, <1>2
<1> QED
  BY <1>1, <1>3, <1>6, <1>7

LEMMA TakenItems ==
    ASSUME NEW q \in [Stages -> Seq(Job)], NEW r, NEW s, Taken(q, r, s)
    PROVE  /\ Head(q[s]) \in Job /\ 1 \in DOMAIN q[s] /\ Head(q[s]) = q[s][1]
           /\ \A u \in Stages \ {s} : r[u] = q[u]
           /\ \A n \in DOMAIN r[s] : n + 1 \in DOMAIN q[s] /\ r[s][n] = q[s][n + 1]
           /\ Len(r[s]) = Len(q[s]) - 1
           /\ \A J : Both(r, J) = IF Head(q[s]) \in J THEN Both(q, J) - 1 ELSE Both(q, J)
<1>1. /\ s \in Stages /\ q[s] # <<>> /\ r[s] = Tail(q[s])
      /\ \A u \in Stages \ {s} : r[u] = q[u]
  BY DEF Taken
<1>2. q[s] \in Seq(Job)
  BY <1>1
<1>3. /\ \A n \in DOMAIN r[s] : n + 1 \in DOMAIN q[s] /\ r[s][n] = q[s][n + 1]
      /\ Head(q[s]) \in Job /\ 1 \in DOMAIN q[s] /\ Head(q[s]) = q[s][1]
      /\ Len(r[s]) = Len(q[s]) - 1
  BY <1>1, <1>2
<1>4. \A J : Items(r[s], J) = IF Head(q[s]) \in J THEN Items(q[s], J) - 1 ELSE Items(q[s], J)
  BY <1>1, <1>2, ItemsTail
<1>5. \A J : Items(q[1], J) \in Nat /\ Items(q[2], J) \in Nat
  <2>1. q[1] \in Seq(Job) /\ q[2] \in Seq(Job)
    BY DEF Stages
  <2> QED
    BY <2>1, ItemsBound
<1>6. \A J : Both(r, J) = IF Head(q[s]) \in J THEN Both(q, J) - 1 ELSE Both(q, J)
  <2>1. CASE s = 1
    <3>1. r[2] = q[2]
      BY <1>1, <2>1 DEF Stages
    <3> QED
      BY <1>4, <1>5, <2>1, <3>1 DEF Both
  <2>2. CASE s = 2
    <3>1. r[1] = q[1]
      BY <1>1, <2>2 DEF Stages
    <3> QED
      BY <1>4, <1>5, <2>2, <3>1 DEF Both
  <2> QED
    BY <1>1, <2>1, <2>2 DEF Stages
<1> QED
  BY <1>1, <1>3, <1>6

LEMMA FilledItems ==
    ASSUME NEW q \in [Stages -> Seq(Job)], NEW r, NEW s, Filled(q, r, s)
    PROVE  /\ \A u \in Stages \ {s} : r[u] = q[u]
           /\ \A n \in DOMAIN r[s] : r[s][n] = NoJob \/ (n \in DOMAIN q[s] /\ r[s][n] = q[s][n])
           /\ Items(q[s], ShutdownJobs) = 0 => Items(r[s], ShutdownJobs) = NumThreads
           /\ \A J : NoJob \notin J => Both(r, J) = Both(q, J)
<1>1. /\ s \in Stages /\ r[s] = q[s] \o [n \in 1 .. NumThreads |-> NoJob]
      /\ \A u \in Stages \ {s} : r[u] = q[u]
  BY DEF Filled, enqueue_shutdown_jobs
<1>2. q[s] \in Seq(Job)
  BY <1>1
<1>3. /\ [n \in 1 .. NumThreads |-> NoJob] \in Seq(Job)
      /\ Len([n \in 1 .. NumThreads |-> NoJob]) = NumThreads
  BY NumThreadsType, NoJobType
<1>4. \A n \in DOMAIN r[s] : r[s][n] = NoJob \/ (n \in DOMAIN q[s] /\ r[s][n] = q[s][n])
  BY <1>1, <1>2, <1>3, NumThreadsType
<1>5. \A J : Items(r[s], J) = IF NoJob \in J THEN Items(q[s], J) + NumThreads ELSE Items(q[s], J)
  <2> DEFINE e == [n \in 1 .. NumThreads |-> NoJob]
             b == q[s]
  <2>1. b \in Seq(Job) /\ e \in Seq(Job) /\ Len(e) = NumThreads /\ r[s] = b \o e
    BY <1>1, <1>2, <1>3
  <2>2. \A n \in DOMAIN e : e[n] = NoJob
    OBVIOUS
  <2> HIDE DEF b, e
  <2>3. \A J : Items(b \o e, J) = IF NoJob \in J THEN Items(b, J) + Len(e) ELSE Items(b, J)
    BY <2>1, <2>2, NoJobType, ItemsRepeated, SMTT(30)
  <2> QED
    BY <2>1, <2>3 DEF b
<1>6. \A J : NoJob \notin J => Both(r, J) = Both(q, J)
  <2>1. CASE s = 1
    <3>1. r[2] = q[2]
      BY <1>1, <2>1 DEF Stages
    <3> QED
      BY <1>5, <2>1, <3>1 DEF Both
  <2>2. CASE s = 2
    <3>1. r[1] = q[1]
      BY <1>1, <2>2 DEF Stages
    <3> QED
      BY <1>5, <2>2, <3>1 DEF Both
  <2> QED
    BY <1>1, <2>1, <2>2 DEF Stages
<1>7. Items(q[s], ShutdownJobs) = 0 => Items(r[s], ShutdownJobs) = NumThreads
  BY <1>5, NumThreadsType DEF ShutdownJobs
<1> QED
  BY <1>1, <1>4, <1>6, <1>7

(* A queue that is closed stays closed. *)
LEMMA ClosedSteps ==
    ASSUME NEW q \in Seq(Job), Closed(q)
    PROVE  /\ \A x \in Job : Open(q) => Closed(Append(q, x))
           /\ q # <<>> => Closed(Tail(q))
           /\ q # <<>> /\ Head(q).type = "SHUTDOWN" => Drained(Tail(q)) /\ Drained(q)
           /\ q # <<>> /\ Drained(q) => Drained(Tail(q))
           /\ q # <<>> /\ Open(q) => Open(Tail(q))
           /\ \A x \in Job : Open(q) /\ x.type # "SHUTDOWN" => Open(Append(q, x))
           /\ Closed(enqueue_shutdown_jobs(q))
           /\ Drained(q) => Drained(enqueue_shutdown_jobs(q))
<1>1. DOMAIN q = 1 .. Len(q) /\ Len(q) \in Nat
  OBVIOUS
<1>2. ASSUME NEW x \in Job, Open(q)
      PROVE  /\ Closed(Append(q, x))
             /\ x.type # "SHUTDOWN" => Open(Append(q, x))
  <2>1. /\ DOMAIN Append(q, x) = 1 .. Len(q) + 1
        /\ \A n \in 1 .. Len(q) : Append(q, x)[n] = q[n]
        /\ Append(q, x)[Len(q) + 1] = x
    OBVIOUS
  <2> QED
    BY <1>1, <1>2, <2>1 DEF Open, Closed
<1>3. ASSUME q # <<>>
      PROVE  /\ Closed(Tail(q))
             /\ Head(q).type = "SHUTDOWN" => Drained(Tail(q)) /\ Drained(q)
             /\ Drained(q) => Drained(Tail(q))
             /\ Open(q) => Open(Tail(q))
  <2>1. /\ DOMAIN Tail(q) = 1 .. Len(q) - 1
        /\ \A n \in 1 .. Len(q) - 1 : Tail(q)[n] = q[n + 1]
        /\ Head(q) = q[1] /\ Len(q) >= 1
    BY <1>3
  <2>2. Closed(Tail(q))
    BY <1>1, <2>1 DEF Closed
  <2>3. Head(q).type = "SHUTDOWN" => Drained(Tail(q)) /\ Drained(q)
    BY <1>1, <2>1 DEF Closed, Drained
  <2>4. /\ Drained(q) => Drained(Tail(q))
        /\ Open(q) => Open(Tail(q))
    BY <1>1, <2>1 DEF Drained, Open
  <2> QED
    BY <2>2, <2>3, <2>4
<1>4. Closed(enqueue_shutdown_jobs(q)) /\ (Drained(q) => Drained(enqueue_shutdown_jobs(q)))
  <2> DEFINE e == [n \in 1 .. NumThreads |-> NoJob]
  <2>1. e \in Seq(Job) /\ Len(e) = NumThreads
    BY NumThreadsType, NoJobType
  <2>2. /\ DOMAIN (q \o e) = 1 .. Len(q) + NumThreads
        /\ \A n \in 1 .. Len(q) : (q \o e)[n] = q[n]
        /\ \A n \in Len(q) + 1 .. Len(q) + NumThreads : (q \o e)[n] = NoJob
    BY <1>1, <2>1, NumThreadsType
  <2>3. \A n \in DOMAIN (q \o e) : n \in DOMAIN q \/ (q \o e)[n].type = "SHUTDOWN"
    BY <1>1, <2>2, NumThreadsType, NoJobType
  <2>4. \A n \in DOMAIN q : (q \o e)[n] = q[n]
    BY <1>1, <2>2
  <2>5. \A m, n \in DOMAIN (q \o e) : n \in DOMAIN q /\ m < n => m \in DOMAIN q
    BY <1>1, <2>2, NumThreadsType
  <2> HIDE DEF e
  <2>6. Closed(q \o e) /\ (Drained(q) => Drained(q \o e))
    BY <2>3, <2>4, <2>5 DEF Closed, Drained
  <2> QED
    BY <2>6 DEF enqueue_shutdown_jobs, e
<1> QED
  BY <1>2, <1>3, <1>4

-----------------------------------------------------------------------------
(* The lists of tables. *)
LEMMA OrderingLists ==
    ASSUME NEW S, IsFiniteSet(S), NEW q \in Orderings(S)
    PROVE  q \in Seq(S) /\ Distinct(q) /\ \A t \in S : Member(t, q)
<1>1. /\ Cardinality(S) \in Nat /\ q \in [1 .. Cardinality(S) -> S]
      /\ \A t \in S : \E n \in DOMAIN q : q[n] = t
  BY FS_CardinalityType DEF Orderings
<1>2. IsFiniteSet(1 .. Cardinality(S)) /\ Cardinality(1 .. Cardinality(S)) = Cardinality(S)
  BY <1>1, FS_Interval
<1>3. q \in Surjection(1 .. Cardinality(S), S)
  BY <1>1 DEF Surjection
<1>4. q \in Injection(1 .. Cardinality(S), S)
  BY <1>2, <1>3, FS_SurjSameCardinalityImpliesInj
<1>5. Distinct(q)
  BY <1>1, <1>4 DEF Injection, IsInjective, Distinct
<1>6. q \in Seq(S)
  BY <1>1
<1> QED
  BY <1>1, <1>5, <1>6 DEF Member

LEMMA WithoutMembers ==
    ASSUME NEW S, NEW q \in Seq(S), NEW t
    PROVE  /\ Without(q, t) \in Seq(S)
           /\ Distinct(q) =>
                /\ Distinct(Without(q, t))
                /\ \A u : Member(u, Without(q, t)) <=> Member(u, q) /\ u # t
<1> DEFINE at == CHOOSE n \in DOMAIN q : q[n] = t
           r == [n \in 1 .. Len(q) - 1 |-> IF n < at THEN q[n] ELSE q[n + 1]]
<1>1. CASE Member(t, q)
  <2>1. at \in 1 .. Len(q) /\ q[at] = t
    BY <1>1 DEF Member
  <2>2. Without(q, t) = r
    BY <1>1 DEF Without, Member
  <2>3. Len(q) \in Nat /\ Len(q) - 1 \in Nat /\ DOMAIN q = 1 .. Len(q)
    BY <2>1
  <2> HIDE DEF at
  <2>4. \A n \in 1 .. Len(q) - 1 : r[n] = IF n < at THEN q[n] ELSE q[n + 1]
    OBVIOUS
  <2>5. r \in [1 .. Len(q) - 1 -> S]
    BY <2>1, <2>3
  <2>6. r \in Seq(S) /\ DOMAIN r = 1 .. Len(q) - 1
    BY <2>3, <2>5
  <2> HIDE DEF r
  <2>7. ASSUME Distinct(q)
        PROVE  /\ Distinct(r)
               /\ \A u : Member(u, r) <=> Member(u, q) /\ u # t
    <3> DEFINE k(n) == IF n < at THEN n ELSE n + 1
    <3>4. \A n \in DOMAIN r : k(n) \in DOMAIN q /\ k(n) # at /\ r[n] = q[k(n)]
      BY <2>1, <2>3, <2>4, <2>6
    <3>5. \A m, n \in DOMAIN r : k(m) = k(n) => m = n
      BY <2>1, <2>3, <2>6
    <3>6. at \in DOMAIN q
      BY <2>1, <2>3
    <3> HIDE DEF k
    <3>1. Distinct(r)
      BY <2>7, <3>4, <3>5, Zenon DEF Distinct
    <3>2. ASSUME NEW u, Member(u, r) PROVE Member(u, q) /\ u # t
      BY <2>1, <2>7, <3>2, <3>4, <3>6, Zenon DEF Distinct, Member
    <3>3. ASSUME NEW u, Member(u, q), u # t PROVE Member(u, r)
      <4>1. PICK n \in 1 .. Len(q) : q[n] = u
        BY <2>3, <3>3 DEF Member
      <4>2. CASE n < at
        <5>1. n \in 1 .. Len(q) - 1 /\ r[n] = u
          BY <2>1, <2>3, <2>4, <4>1, <4>2
        <5> QED
          BY <2>6, <5>1 DEF Member
      <4>3. CASE n > at
        <5>1. n - 1 \in 1 .. Len(q) - 1 /\ r[n - 1] = u
          BY <2>1, <2>3, <2>4, <4>1, <4>3
        <5> QED
          BY <2>6, <5>1 DEF Member
      <4> QED
        BY <2>1, <3>3, <4>1, <4>2, <4>3
    <3> QED
      BY <3>1, <3>2, <3>3
  <2> QED
    BY <2>2, <2>6, <2>7
<1>2. CASE ~Member(t, q)
  BY <1>2 DEF Without, Member
<1> QED
  BY <1>1, <1>2

LEMMA TailMembers ==
    ASSUME NEW S, NEW q \in Seq(S), q # <<>>, Distinct(q)
    PROVE  /\ Distinct(Tail(q)) /\ Member(Head(q), q)
           /\ \A u : Member(u, Tail(q)) <=> Member(u, q) /\ u # Head(q)
<1>1. /\ DOMAIN q = 1 .. Len(q) /\ Len(q) \in Nat /\ Len(q) >= 1
      /\ DOMAIN Tail(q) = 1 .. Len(q) - 1
      /\ \A n \in 1 .. Len(q) - 1 : Tail(q)[n] = q[n + 1]
      /\ Head(q) = q[1]
  OBVIOUS
<1>2. Distinct(Tail(q)) /\ Member(Head(q), q)
  BY <1>1 DEF Distinct, Member
<1>3. ASSUME NEW u, Member(u, Tail(q)) PROVE Member(u, q) /\ u # Head(q)
  BY <1>1, <1>3 DEF Distinct, Member
<1>4. ASSUME NEW u, Member(u, q), u # Head(q) PROVE Member(u, Tail(q))
  <2>1. PICK n \in 1 .. Len(q) : q[n] = u
    BY <1>1, <1>4 DEF Member
  <2>2. n - 1 \in 1 .. Len(q) - 1 /\ Tail(q)[n - 1] = u
    BY <1>1, <1>4, <2>1
  <2> QED
    BY <1>1, <2>2 DEF Member
<1> QED
  BY <1>2, <1>3, <1>4

-----------------------------------------------------------------------------
(* The parts of the state, each with its type. *)
LEMMA Parts ==
    TypeOK =>
      /\ MaxThreadsPerTable \in Nat /\ MaxThreadsPerTable >= 1 /\ MaxThreadsPerTable < MaxGuint
      /\ UseDefer \in BOOLEAN
      /\ builder.pc \in {"wait", "walk", "push", "finish", "done"}
      /\ builder.stage \in Stages /\ builder.iter \in Seq(Tables) /\ builder.job \in Job
      /\ builder.level \in Nat
      /\ DOMAIN builder = {"pc", "stage", "level", "iter", "job", "are_there_jobs_defining",
                           "max_threads_per_table_reached"}
      /\ builder.are_there_jobs_defining \in BOOLEAN
      /\ builder.max_threads_per_table_reached \in BOOLEAN
      /\ worker \in [Workers -> WorkerRecord]
      /\ \A w \in Workers : /\ worker[w].stage \in Stages /\ worker[w].job \in Job
                            /\ worker[w].loop \in {"queue", "defer"}
                            /\ worker[w].pc \in {"request", "pop", "run", "release", "end"}
      /\ queue[1] \in Seq(Job) /\ queue[2] \in Seq(Job)
      /\ defer[1] \in Seq(Job) /\ defer[2] \in Seq(Job)
<1> SUFFICES ASSUME TypeOK
             PROVE  /\ MaxThreadsPerTable \in Nat /\ MaxThreadsPerTable >= 1
                    /\ MaxThreadsPerTable < MaxGuint
                    /\ UseDefer \in BOOLEAN
                    /\ builder.pc \in {"wait", "walk", "push", "finish", "done"}
                    /\ builder.stage \in Stages /\ builder.iter \in Seq(Tables)
                    /\ builder.job \in Job /\ builder.level \in Nat
                    /\ DOMAIN builder = {"pc", "stage", "level", "iter", "job",
                                         "are_there_jobs_defining",
                                         "max_threads_per_table_reached"}
                    /\ builder.are_there_jobs_defining \in BOOLEAN
                    /\ builder.max_threads_per_table_reached \in BOOLEAN
                    /\ worker \in [Workers -> WorkerRecord]
                    /\ \A w \in Workers :
                         /\ worker[w].stage \in Stages /\ worker[w].job \in Job
                         /\ worker[w].loop \in {"queue", "defer"}
                         /\ worker[w].pc \in {"request", "pop", "run", "release", "end"}
                    /\ queue[1] \in Seq(Job) /\ queue[2] \in Seq(Job)
                    /\ defer[1] \in Seq(Job) /\ defer[2] \in Seq(Job)
  OBVIOUS
<1>1. /\ MaxThreadsPerTable \in Nat /\ MaxThreadsPerTable >= 1
      /\ MaxThreadsPerTable < MaxGuint /\ UseDefer \in BOOLEAN
  BY ThreadsAssumption DEF TypeOK, MaxThreadsPerTable, UseDefer
<1>2. builder \in [pc : {"wait", "walk", "push", "finish", "done"}, stage : Stages,
                   level : 0 .. MaxThreadsPerTable - 1, iter : Seq(Tables), job : Job,
                   are_there_jobs_defining : BOOLEAN,
                   max_threads_per_table_reached : BOOLEAN]
  BY DEF TypeOK
<1>3. worker \in [Workers -> WorkerRecord]
  BY DEF TypeOK, WorkerRecord
<1>4. \A w \in Workers : /\ worker[w].stage \in Stages /\ worker[w].job \in Job
                         /\ worker[w].loop \in {"queue", "defer"}
                         /\ worker[w].pc \in {"request", "pop", "run", "release", "end"}
  BY <1>3 DEF WorkerRecord
<1>5. queue \in [Stages -> Seq(Job)] /\ defer \in [Stages -> Seq(Job)]
  BY DEF TypeOK
<1>6. /\ queue[1] \in Seq(Job) /\ queue[2] \in Seq(Job)
      /\ defer[1] \in Seq(Job) /\ defer[2] \in Seq(Job)
  BY <1>5 DEF Stages
<1>7. /\ builder.pc \in {"wait", "walk", "push", "finish", "done"}
      /\ builder.stage \in Stages /\ builder.iter \in Seq(Tables) /\ builder.job \in Job
      /\ builder.level \in Nat
  BY <1>1, <1>2
<1>8. /\ builder.are_there_jobs_defining \in BOOLEAN
      /\ builder.max_threads_per_table_reached \in BOOLEAN
      /\ DOMAIN builder = {"pc", "stage", "level", "iter", "job", "are_there_jobs_defining",
                           "max_threads_per_table_reached"}
  BY <1>2
<1> QED
  BY <1>1, <1>3, <1>4, <1>6, <1>7, <1>8

-----------------------------------------------------------------------------
(* Type correctness. *)
BuilderRecord ==
    [pc : {"wait", "walk", "push", "finish", "done"}, stage : Stages,
     level : 0 .. MaxThreadsPerTable - 1, iter : Seq(Tables), job : Job,
     are_there_jobs_defining : BOOLEAN, max_threads_per_table_reached : BOOLEAN]

LEMMA TypeInit == Init => TypeOK
<1> SUFFICES ASSUME Init PROVE TypeOK
  OBVIOUS
<1> USE ThreadsAssumption, TablesAssumption
<1>1. table_list \in [Stages -> Seq(Tables)]
  <2>1. PICK a \in Orderings(NonTransactional), b \in Orderings(Transactional) :
            table_list = [s \in Stages |-> IF s = 1 THEN a ELSE b]
    BY DEF Init
  <2>2. IsFiniteSet(NonTransactional) /\ IsFiniteSet(Transactional)
    BY FS_Subset DEF Tables
  <2>3. a \in Seq(NonTransactional) /\ b \in Seq(Transactional)
    BY <2>2, OrderingLists
  <2>4. a \in Seq(Tables) /\ b \in Seq(Tables)
    BY <2>3 DEF Tables
  <2> QED
    BY <2>1, <2>4
<1>2. /\ options \in Options
      /\ status \in [Tables -> {"UNDEFINED", "DEFINING", "READY"}]
      /\ kind \in [Tables -> Kinds]
      /\ running \in [Tables -> 0 .. MaxGuint]
      /\ given \in [Tables -> 0 .. MaxChunks]
  BY DEF Init, Kinds
<1>3. /\ dumped \in [Tables -> [1 .. MaxChunks -> Nat]]
      /\ request \in [Stages -> Nat]
      /\ shutdown_triggered \in BOOLEAN
  BY DEF Init
<1>4. queue \in [Stages -> Seq(Job)] /\ defer \in [Stages -> Seq(Job)]
  BY DEF Init
<1>5. builder \in BuilderRecord
  <2>1. MaxThreadsPerTable \in Nat /\ MaxThreadsPerTable >= 1
    BY <1>2 DEF MaxThreadsPerTable
  <2>2. 1 \in Stages
    BY DEF Stages
  <2> QED
    BY <2>1, <2>2, NoJobType DEF Init, BuilderRecord
<1>6. worker \in [Workers -> WorkerRecord]
  BY NoJobType DEF Init, WorkerRecord, Stages
<1> QED
  BY <1>1, <1>2, <1>3, <1>4, <1>5, <1>6, Zenon DEF TypeOK, BuilderRecord, WorkerRecord

LEMMA TypeStep == TypeOK /\ [Next]_vars => TypeOK'
<1> SUFFICES ASSUME TypeOK, [Next]_vars PROVE TypeOK'
  OBVIOUS
<1>a. /\ builder \in BuilderRecord /\ worker \in [Workers -> WorkerRecord]
      /\ request \in [Stages -> Nat]
      /\ queue \in [Stages -> Seq(Job)] /\ defer \in [Stages -> Seq(Job)]
      /\ table_list \in [Stages -> Seq(Tables)]
  BY DEF TypeOK, BuilderRecord, WorkerRecord
<1>b. /\ status \in [Tables -> {"UNDEFINED", "DEFINING", "READY"}]
      /\ kind \in [Tables -> Kinds]
      /\ running \in [Tables -> 0 .. MaxGuint]
      /\ given \in [Tables -> 0 .. MaxChunks]
      /\ dumped \in [Tables -> [1 .. MaxChunks -> Nat]]
  BY DEF TypeOK
<1>m. /\ MaxThreadsPerTable \in Nat /\ MaxThreadsPerTable >= 1
      /\ MaxGuint \in Nat /\ MaxChunks \in Nat \ {0}
  BY ThreadsAssumption, Parts
<1>c. table_list[builder.stage] \in Seq(Tables) /\ builder.stage \in Stages
  BY <1>a DEF BuilderRecord
<1>p. /\ "wait" \in {"wait", "walk", "push", "finish", "done"}
      /\ "walk" \in {"wait", "walk", "push", "finish", "done"}
      /\ "push" \in {"wait", "walk", "push", "finish", "done"}
      /\ "finish" \in {"wait", "walk", "push", "finish", "done"}
      /\ "done" \in {"wait", "walk", "push", "finish", "done"}
  OBVIOUS
<1>e. /\ <<>> \in Seq(Tables) /\ 0 \in 0 .. MaxThreadsPerTable - 1
      /\ builder.level + 1 < MaxThreadsPerTable =>
            builder.level + 1 \in 0 .. MaxThreadsPerTable - 1
  BY <1>a, <1>m DEF BuilderRecord
<1>1. CASE TakeRequest
  <2>1. builder' \in BuilderRecord
    BY <1>1, <1>a, <1>c, <1>e DEF TakeRequest, BuilderRecord
  <2>2. request' \in [Stages -> Nat]
    BY <1>1, <1>a, <1>c DEF TakeRequest, Requested
  <2> QED
    BY <1>1, <2>1, <2>2, Zenon DEF TakeRequest, TypeOK, BuilderRecord, MaxThreadsPerTable
<1>2. CASE StopEnqueuing
  <2>1. builder' \in BuilderRecord
    BY <1>2, <1>a DEF StopEnqueuing, BuilderRecord
  <2>2. request' \in [Stages -> Nat]
    BY <1>2, <1>a, <1>c DEF StopEnqueuing, Requested
  <2> QED
    BY <1>2, <2>1, <2>2, Zenon DEF StopEnqueuing, TypeOK, BuilderRecord, MaxThreadsPerTable
<1>3. CASE PushJob
  <2>1. builder' \in BuilderRecord
    BY <1>3, <1>a, <1>e, NoJobType DEF PushJob, BuilderRecord
  <2>2. /\ builder.job \in Job /\ [builder.job EXCEPT !.type = "DEFER"] \in Job
        /\ queue[builder.stage] \in Seq(Job) /\ defer[builder.stage] \in Seq(Job)
    BY <1>a DEF BuilderRecord, Job
  <2>3. /\ Append(queue[builder.stage], builder.job) \in Seq(Job)
        /\ Append(queue[builder.stage], [builder.job EXCEPT !.type = "DEFER"]) \in Seq(Job)
        /\ Append(defer[builder.stage], builder.job) \in Seq(Job)
    BY <2>2
  <2>4. queue' \in [Stages -> Seq(Job)] /\ defer' \in [Stages -> Seq(Job)]
    <3>1. CASE Deferred(builder.job)
      BY <1>3, <1>a, <2>3, <3>1, Zenon DEF PushJob
    <3>2. CASE ~Deferred(builder.job)
      BY <1>3, <1>a, <2>3, <3>2, Zenon DEF PushJob
    <3> QED
      BY <3>1, <3>2
  <2> QED
    BY <1>3, <2>1, <2>4, Zenon DEF PushJob, TypeOK, BuilderRecord, MaxThreadsPerTable
<1>4. CASE NextLevel
  <2>1. builder' \in BuilderRecord
    BY <1>4, <1>a, <1>c, <1>e DEF NextLevel, BuilderRecord
  <2> QED
    BY <1>4, <2>1, Zenon DEF NextLevel, TypeOK, BuilderRecord, MaxThreadsPerTable
<1>5. CASE TryAgainLater
  <2>1. builder' \in BuilderRecord
    BY <1>5, <1>a, <1>e DEF TryAgainLater, BuilderRecord
  <2>2. request' \in [Stages -> Nat]
    BY <1>5, <1>a, <1>c DEF TryAgainLater
  <2> QED
    BY <1>5, <2>1, <2>2, Zenon DEF TryAgainLater, TypeOK, BuilderRecord, MaxThreadsPerTable
<1>6. CASE NoJobDefined
  <2>1. builder' \in BuilderRecord
    BY <1>6, <1>a DEF NoJobDefined, BuilderRecord
  <2> QED
    BY <1>6, <2>1, Zenon DEF NoJobDefined, TypeOK, BuilderRecord, MaxThreadsPerTable
<1>7. CASE EnqueueShutdown
  <2>1. 2 \in Stages
    BY DEF Stages
  <2>2. builder' \in BuilderRecord
    BY <1>7, <1>a, <2>1 DEF EnqueueShutdown, BuilderRecord
  <2>3. [n \in 1 .. NumThreads |-> NoJob] \in Seq(Job)
    BY NumThreadsType, NoJobType
  <2>4. /\ enqueue_shutdown_jobs(queue[builder.stage]) \in Seq(Job)
        /\ enqueue_shutdown_jobs(defer[builder.stage]) \in Seq(Job)
    BY <1>a, <1>c, <2>3 DEF enqueue_shutdown_jobs
  <2>5. queue' \in [Stages -> Seq(Job)] /\ defer' \in [Stages -> Seq(Job)]
    BY <1>7, <1>a, <2>4 DEF EnqueueShutdown
  <2> QED
    BY <1>7, <2>2, <2>5, Zenon DEF EnqueueShutdown, TypeOK, BuilderRecord, MaxThreadsPerTable
<1>8. ASSUME NEW t \in Tables, At(t) PROVE Tail(builder.iter) \in Seq(Tables)
  BY <1>8, <1>a DEF At, BuilderRecord
<1>9. ASSUME NEW t \in Tables, NEW n \in Nat
      PROVE  /\ Found("DETERMINE_CHUNK_TYPE", t, n) \in BuilderRecord
             /\ Found("DUMP", t, n) \in BuilderRecord
  <2>1. /\ [type |-> "DETERMINE_CHUNK_TYPE", dbt |-> t, chunk |-> n] \in Job
        /\ [type |-> "DUMP", dbt |-> t, chunk |-> n] \in Job
    BY DEF Job
  <2> QED
    BY <1>a, <2>1 DEF Found, BuilderRecord
<1>10. ASSUME NEW t \in Tables, VisitUndefined(t) PROVE TypeOK'
  <2>1. builder' \in BuilderRecord
    BY <1>9, <1>10 DEF VisitUndefined
  <2>2. status' \in [Tables -> {"UNDEFINED", "DEFINING", "READY"}]
    BY <1>10, <1>b DEF VisitUndefined
  <2> QED
    BY <1>10, <2>1, <2>2, Zenon DEF VisitUndefined, TypeOK, BuilderRecord, MaxThreadsPerTable
<1>11. ASSUME NEW t \in Tables, VisitDefining(t) PROVE TypeOK'
  <2>1. builder' \in BuilderRecord
    BY <1>8, <1>11, <1>a DEF VisitDefining, BuilderRecord
  <2> QED
    BY <1>11, <2>1, Zenon DEF VisitDefining, TypeOK, BuilderRecord, MaxThreadsPerTable
<1>l. \A t : [table_list EXCEPT ![builder.stage] = Without(@, t)] \in [Stages -> Seq(Tables)]
  BY <1>a, <1>c, WithoutMembers
<1>12. ASSUME NEW t \in Tables, VisitNone(t) PROVE TypeOK'
  <2>1. builder' \in BuilderRecord
    BY <1>9, <1>12 DEF VisitNone
  <2>2. given' \in [Tables -> 0 .. MaxChunks]
    BY <1>12, <1>b, <1>m DEF VisitNone
  <2>3. table_list' \in [Stages -> Seq(Tables)]
    BY <1>12, <1>l, Zenon DEF VisitNone
  <2> QED
    BY <1>12, <2>1, <2>2, <2>3, Zenon DEF VisitNone, TypeOK, BuilderRecord, MaxThreadsPerTable
<1>13. ASSUME NEW t \in Tables, VisitBusy(t) PROVE TypeOK'
  <2>1. builder' \in BuilderRecord
    BY <1>8, <1>13, <1>a DEF VisitBusy, BuilderRecord
  <2> QED
    BY <1>13, <2>1, Zenon DEF VisitBusy, TypeOK, BuilderRecord, MaxThreadsPerTable
<1>14. ASSUME NEW t \in Tables, VisitGivesChunk(t) PROVE TypeOK'
  <2>1. builder' \in BuilderRecord
    BY <1>9, <1>14, <1>b, <1>m DEF VisitGivesChunk
  <2>2. given' \in [Tables -> 0 .. MaxChunks]
    BY <1>14, <1>b, <1>m DEF VisitGivesChunk
  <2>3. running' \in [Tables -> 0 .. MaxGuint]
    BY <1>14, <1>b, <1>m DEF VisitGivesChunk, Inc
  <2> QED
    BY <1>14, <2>1, <2>2, <2>3, Zenon
    DEF VisitGivesChunk, TypeOK, BuilderRecord, MaxThreadsPerTable
<1>15. ASSUME NEW t \in Tables, VisitGivesNull(t) PROVE TypeOK'
  <2>1. builder' \in BuilderRecord
    BY <1>8, <1>15, <1>a DEF VisitGivesNull, AsksNext, BuilderRecord
  <2>2. table_list' \in [Stages -> Seq(Tables)]
    BY <1>15, <1>l, Zenon DEF VisitGivesNull
  <2> QED
    BY <1>15, <2>1, <2>2, Zenon DEF VisitGivesNull, TypeOK, BuilderRecord, MaxThreadsPerTable
<1>w. \A w \in Workers : LoopTop(w) \in WorkerRecord /\ LoopEnd(w) \in WorkerRecord
  <2>1. 2 \in Stages
    BY DEF Stages
  <2> QED
    BY <1>a, <2>1, NoJobType DEF WorkerRecord, LoopTop, LoopEnd
<1>d. \A w \in Workers : worker[w].stage \in Stages /\ worker[w].job \in Job
  BY <1>a DEF WorkerRecord
<1>16. ASSUME NEW w \in Workers, RequestChunk(w) PROVE TypeOK'
  <2>1. worker' \in [Workers -> WorkerRecord]
    BY <1>16, <1>a DEF RequestChunk, WorkerRecord
  <2>2. request' \in [Stages -> Nat]
    BY <1>16, <1>a, <1>d DEF RequestChunk
  <2> QED
    BY <1>16, <2>1, <2>2, Zenon DEF RequestChunk, TypeOK, WorkerRecord, MaxThreadsPerTable
<1>17. ASSUME NEW w \in Workers, Pop(w)
       PROVE  /\ queue' \in [Stages -> Seq(Job)] /\ defer' \in [Stages -> Seq(Job)]
              /\ Head(Source(w)) \in Job
  <2>1. queue[worker[w].stage] \in Seq(Job) /\ defer[worker[w].stage] \in Seq(Job)
    BY <1>a, <1>d
  <2>2. Source(w) \in Seq(Job) /\ Source(w) # <<>>
    BY <1>17, <2>1 DEF Pop, Source
  <2>3. Head(Source(w)) \in Job /\ Tail(Source(w)) \in Seq(Job)
    BY <2>2
  <2>4. CASE worker[w].loop = "queue"
    BY <1>17, <1>a, <2>3, <2>4, Zenon DEF Pop, Source
  <2>5. CASE worker[w].loop # "queue"
    BY <1>17, <1>a, <2>3, <2>5, Zenon DEF Pop, Source
  <2> QED
    BY <2>4, <2>5
<1>18. ASSUME NEW w \in Workers, LeaveLoop(w) PROVE TypeOK'
  <2>1. worker' \in [Workers -> WorkerRecord]
    BY <1>18, <1>a, <1>w DEF LeaveLoop
  <2>2. queue' \in [Stages -> Seq(Job)] /\ defer' \in [Stages -> Seq(Job)]
    BY <1>17, <1>18 DEF LeaveLoop
  <2> QED
    BY <1>18, <2>1, <2>2, Zenon DEF LeaveLoop, TypeOK, WorkerRecord, MaxThreadsPerTable
<1>19. ASSUME NEW w \in Workers, TakeJob(w) PROVE TypeOK'
  <2>1. /\ queue' \in [Stages -> Seq(Job)] /\ defer' \in [Stages -> Seq(Job)]
        /\ Head(Source(w)) \in Job
    BY <1>17, <1>19 DEF TakeJob
  <2>2. worker' \in [Workers -> WorkerRecord]
    BY <1>19, <1>a, <2>1, ZenonT(30) DEF TakeJob, WorkerRecord
  <2> QED
    BY <1>19, <2>1, <2>2, Zenon DEF TakeJob, TypeOK, WorkerRecord, MaxThreadsPerTable
<1>20. ASSUME NEW w \in Workers, DetermineChunkType(w) PROVE TypeOK'
  <2>1. worker' \in [Workers -> WorkerRecord]
    BY <1>20, <1>a, <1>w DEF DetermineChunkType
  <2>2. kind' \in [Tables -> Kinds]
    BY <1>20, <1>b DEF DetermineChunkType
  <2>3. status' \in [Tables -> {"UNDEFINED", "DEFINING", "READY"}]
    BY <1>20, <1>b DEF DetermineChunkType
  <2> QED
    BY <1>20, <2>1, <2>2, <2>3, Zenon
    DEF DetermineChunkType, TypeOK, WorkerRecord, MaxThreadsPerTable
<1>21. ASSUME NEW w \in Workers, ProcessChunk(w) PROVE TypeOK'
  <2>1. worker' \in [Workers -> WorkerRecord]
    BY <1>21, <1>a DEF ProcessChunk, WorkerRecord
  <2>2. dumped' \in [Tables -> [1 .. MaxChunks -> Nat]]
    <3> DEFINE u == worker[w].job.dbt
               n == worker[w].job.chunk
    <3>1. dumped' = [dumped EXCEPT ![u][n] = @ + 1] \/ dumped' = dumped
      BY <1>21, Zenon DEF ProcessChunk
    <3> HIDE DEF u, n
    <3>2. CASE dumped' = dumped
      BY <1>b, <3>2
    <3>3. CASE dumped' = [dumped EXCEPT ![u][n] = @ + 1]
      <4>1. DOMAIN dumped' = Tables /\ dumped' = [t \in Tables |-> dumped'[t]]
        BY <1>b, <3>3
      <4>2. \A t \in Tables : dumped'[t] = IF t = u THEN [dumped[t] EXCEPT ![n] = @ + 1]
                                            ELSE dumped[t]
        BY <1>b, <3>3
      <4>3. ASSUME NEW t \in Tables
            PROVE  [dumped[t] EXCEPT ![n] = @ + 1] \in [1 .. MaxChunks -> Nat]
        <5> DEFINE f == dumped[t]
        <5>1. f \in [1 .. MaxChunks -> Nat]
          BY <1>b
        <5> HIDE DEF f
        <5>2. CASE n \in 1 .. MaxChunks
          <6>1. f[n] \in Nat /\ f[n] + 1 \in Nat
            BY <5>1, <5>2
          <6> QED
            BY <5>1, <6>1, Zenon DEF f
        <5>3. CASE n \notin 1 .. MaxChunks
          <6>1. [f EXCEPT ![n] = @ + 1] = f
            BY <5>1, <5>3
          <6> QED
            BY <5>1, <6>1 DEF f
        <5> QED
          BY <5>2, <5>3
      <4>4. \A t \in Tables : dumped'[t] \in [1 .. MaxChunks -> Nat]
        BY <1>b, <4>2, <4>3, ZenonT(30)
      <4> QED
        BY <4>1, <4>4
    <3> QED
      BY <3>1, <3>2, <3>3
  <2> QED
    BY <1>21, <2>1, <2>2, Zenon DEF ProcessChunk, TypeOK, WorkerRecord, MaxThreadsPerTable
<1>22. ASSUME NEW w \in Workers, ReleaseTable(w) \/ ProcessDefer(w) PROVE TypeOK'
  <2>1. worker' \in [Workers -> WorkerRecord]
    BY <1>22, <1>a, <1>w DEF ReleaseTable, ProcessDefer
  <2>2. running' \in [Tables -> 0 .. MaxGuint]
    BY <1>22, <1>b, <1>m, SMTT(30) DEF ReleaseTable, ProcessDefer, Dec
  <2> QED
    BY <1>22, <2>1, <2>2, Zenon
    DEF ReleaseTable, ProcessDefer, TypeOK, WorkerRecord, MaxThreadsPerTable
<1>23. CASE Shutdown
  BY <1>23, Zenon DEF Shutdown, TypeOK, MaxThreadsPerTable
<1>24. CASE UNCHANGED vars
  BY <1>24, Zenon DEF vars, TypeOK, MaxThreadsPerTable
<1> QED
  BY <1>1, <1>2, <1>3, <1>4, <1>5, <1>6, <1>7, <1>10, <1>11, <1>12, <1>13, <1>14, <1>15,
     <1>16, <1>18, <1>19, <1>20, <1>21, <1>22, <1>23, <1>24
  DEF Next, Builder, Worker, Joined

-----------------------------------------------------------------------------
(* What each step does, field by field. *)
Stays(w) == \A v \in Workers \ {w} : worker'[v] = worker[v]

LEMMA RecordFields ==
    TypeOK =>
      /\ builder \in BuilderRecord
      /\ \A w \in Workers : worker[w] \in WorkerRecord
      /\ builder.stage \in Stages
      /\ \A w \in Workers : worker[w].stage \in Stages
      /\ request \in [Stages -> Nat]
      /\ queue \in [Stages -> Seq(Job)] /\ defer \in [Stages -> Seq(Job)]
      /\ table_list \in [Stages -> Seq(Tables)]
<1> SUFFICES ASSUME TypeOK
             PROVE  /\ builder \in BuilderRecord
                    /\ \A w \in Workers : worker[w] \in WorkerRecord
                    /\ builder.stage \in Stages
                    /\ \A w \in Workers : worker[w].stage \in Stages
                    /\ request \in [Stages -> Nat]
                    /\ queue \in [Stages -> Seq(Job)] /\ defer \in [Stages -> Seq(Job)]
                    /\ table_list \in [Stages -> Seq(Tables)]
  OBVIOUS
<1>1. builder \in BuilderRecord /\ \A w \in Workers : worker[w] \in WorkerRecord
  BY DEF TypeOK, BuilderRecord, WorkerRecord
<1>2. builder.stage \in Stages /\ \A w \in Workers : worker[w].stage \in Stages
  BY Parts
<1>3. /\ request \in [Stages -> Nat]
      /\ queue \in [Stages -> Seq(Job)] /\ defer \in [Stages -> Seq(Job)]
      /\ table_list \in [Stages -> Seq(Tables)]
  BY DEF TypeOK
<1> QED
  BY <1>1, <1>2, <1>3

LEMMA TakeRequestStep ==
    ASSUME TypeOK, TakeRequest
    PROVE  /\ builder.pc = "wait" /\ request[builder.stage] > 0 /\ ~shutdown_triggered
           /\ builder'.pc = "walk"
           /\ builder'.stage = builder.stage
           /\ builder'.iter = table_list[builder.stage]
           /\ builder'.job = builder.job
           /\ builder'.are_there_jobs_defining = FALSE
           /\ builder'.max_threads_per_table_reached = FALSE
           /\ request' = [request EXCEPT ![builder.stage] = @ - 1]
           /\ options' = options /\ table_list' = table_list /\ status' = status
           /\ kind' = kind /\ running' = running /\ given' = given /\ dumped' = dumped
           /\ queue' = queue /\ defer' = defer /\ worker' = worker
           /\ shutdown_triggered' = shutdown_triggered
<1>1. /\ builder.pc = "wait" /\ request[builder.stage] > 0 /\ ~shutdown_triggered
  BY DEF TakeRequest, Requested
<1>2. /\ builder'.pc = "walk"
      /\ builder'.stage = builder.stage
      /\ builder'.iter = table_list[builder.stage]
      /\ builder'.job = builder.job
      /\ builder'.are_there_jobs_defining = FALSE
      /\ builder'.max_threads_per_table_reached = FALSE
  BY RecordFields, Zenon DEF TakeRequest, BuilderRecord, Found
<1>3. request' = [request EXCEPT ![builder.stage] = @ - 1]
  BY RecordFields DEF TakeRequest, Requested
<1>4. /\ options' = options /\ table_list' = table_list /\ status' = status /\ kind' = kind
      /\ running' = running /\ given' = given /\ dumped' = dumped /\ queue' = queue
      /\ defer' = defer /\ worker' = worker /\ shutdown_triggered' = shutdown_triggered
  BY Zenon DEF TakeRequest
<1> QED
  BY <1>1, <1>2, <1>3, <1>4

LEMMA StopEnqueuingStep ==
    ASSUME TypeOK, StopEnqueuing
    PROVE  /\ builder.pc = "wait" /\ shutdown_triggered
           /\ builder'.pc = "finish"
           /\ builder'.stage = builder.stage
           /\ builder'.iter = builder.iter
           /\ builder'.job = builder.job
           /\ builder'.are_there_jobs_defining = builder.are_there_jobs_defining
           /\ builder'.max_threads_per_table_reached = builder.max_threads_per_table_reached
           /\ options' = options /\ table_list' = table_list /\ status' = status
           /\ kind' = kind /\ running' = running /\ given' = given /\ dumped' = dumped
           /\ queue' = queue /\ defer' = defer /\ worker' = worker
           /\ shutdown_triggered' = shutdown_triggered
<1>1. /\ builder.pc = "wait" /\ shutdown_triggered
  BY DEF StopEnqueuing
<1>2. /\ builder'.pc = "finish"
      /\ builder'.stage = builder.stage
      /\ builder'.iter = builder.iter
      /\ builder'.job = builder.job
      /\ builder'.are_there_jobs_defining = builder.are_there_jobs_defining
      /\ builder'.max_threads_per_table_reached = builder.max_threads_per_table_reached
  BY RecordFields, Zenon DEF StopEnqueuing, BuilderRecord, Found
<1>3. /\ options' = options /\ table_list' = table_list /\ status' = status /\ kind' = kind
      /\ running' = running /\ given' = given /\ dumped' = dumped /\ queue' = queue
      /\ defer' = defer /\ worker' = worker /\ shutdown_triggered' = shutdown_triggered
  BY Zenon DEF StopEnqueuing
<1> QED
  BY <1>1, <1>2, <1>3

LEMMA PushJobStep ==
    ASSUME TypeOK, PushJob
    PROVE  /\ builder.pc = "push"
           /\ builder'.pc = "wait"
           /\ builder'.stage = builder.stage
           /\ builder'.iter = <<>>
           /\ builder'.job = NoJob
           /\ builder'.are_there_jobs_defining = builder.are_there_jobs_defining
           /\ builder'.max_threads_per_table_reached = builder.max_threads_per_table_reached
           /\ Deferred(builder.job) =>
                /\ Put(defer, defer', builder.stage, builder.job)
                /\ Put(queue, queue', builder.stage, [builder.job EXCEPT !.type = "DEFER"])
           /\ ~Deferred(builder.job) =>
                defer' = defer /\ Put(queue, queue', builder.stage, builder.job)
           /\ options' = options /\ table_list' = table_list /\ status' = status
           /\ kind' = kind /\ running' = running /\ given' = given /\ dumped' = dumped
           /\ request' = request /\ worker' = worker
           /\ shutdown_triggered' = shutdown_triggered
<1>1. /\ builder.pc = "push"
  BY DEF PushJob, Put
<1>2. /\ builder'.pc = "wait"
      /\ builder'.stage = builder.stage
      /\ builder'.iter = <<>>
      /\ builder'.job = NoJob
      /\ builder'.are_there_jobs_defining = builder.are_there_jobs_defining
      /\ builder'.max_threads_per_table_reached = builder.max_threads_per_table_reached
  BY RecordFields, Zenon DEF PushJob, BuilderRecord, Found
<1>3. Deferred(builder.job) =>
                /\ Put(defer, defer', builder.stage, builder.job)
                /\ Put(queue, queue', builder.stage, [builder.job EXCEPT !.type = "DEFER"])
  BY RecordFields DEF PushJob, Put
<1>4. ~Deferred(builder.job) =>
                defer' = defer /\ Put(queue, queue', builder.stage, builder.job)
  BY RecordFields DEF PushJob, Put
<1>5. /\ options' = options /\ table_list' = table_list /\ status' = status /\ kind' = kind
      /\ running' = running /\ given' = given /\ dumped' = dumped /\ request' = request
      /\ worker' = worker /\ shutdown_triggered' = shutdown_triggered
  BY Zenon DEF PushJob
<1> QED
  BY <1>1, <1>2, <1>3, <1>4, <1>5

LEMMA NextLevelStep ==
    ASSUME TypeOK, NextLevel
    PROVE  /\ builder.pc = "walk" /\ builder.iter = <<>>
           /\ builder'.pc = builder.pc
           /\ builder'.stage = builder.stage
           /\ builder'.iter = table_list[builder.stage]
           /\ builder'.job = builder.job
           /\ builder'.are_there_jobs_defining = builder.are_there_jobs_defining
           /\ builder'.max_threads_per_table_reached = builder.max_threads_per_table_reached
           /\ options' = options /\ table_list' = table_list /\ status' = status
           /\ kind' = kind /\ running' = running /\ given' = given /\ dumped' = dumped
           /\ request' = request /\ queue' = queue /\ defer' = defer /\ worker' = worker
           /\ shutdown_triggered' = shutdown_triggered
<1>1. /\ builder.pc = "walk" /\ builder.iter = <<>>
  BY DEF NextLevel, EndOfList
<1>2. /\ builder'.pc = builder.pc
      /\ builder'.stage = builder.stage
      /\ builder'.iter = table_list[builder.stage]
      /\ builder'.job = builder.job
      /\ builder'.are_there_jobs_defining = builder.are_there_jobs_defining
      /\ builder'.max_threads_per_table_reached = builder.max_threads_per_table_reached
  BY RecordFields, Zenon DEF NextLevel, BuilderRecord, Found
<1>3. /\ options' = options /\ table_list' = table_list /\ status' = status /\ kind' = kind
      /\ running' = running /\ given' = given /\ dumped' = dumped /\ request' = request
      /\ queue' = queue /\ defer' = defer /\ worker' = worker
      /\ shutdown_triggered' = shutdown_triggered
  BY Zenon DEF NextLevel
<1> QED
  BY <1>1, <1>2, <1>3

LEMMA TryAgainStep ==
    ASSUME TypeOK, TryAgainLater
    PROVE  /\ builder.pc = "walk" /\ builder.iter = <<>> /\ WorkLeft
           /\ builder'.pc = "wait"
           /\ builder'.stage = builder.stage
           /\ builder'.iter = <<>>
           /\ builder'.job = builder.job
           /\ builder'.are_there_jobs_defining = builder.are_there_jobs_defining
           /\ builder'.max_threads_per_table_reached = builder.max_threads_per_table_reached
           /\ request' = [request EXCEPT ![builder.stage] = @ + 1]
           /\ options' = options /\ table_list' = table_list /\ status' = status
           /\ kind' = kind /\ running' = running /\ given' = given /\ dumped' = dumped
           /\ queue' = queue /\ defer' = defer /\ worker' = worker
           /\ shutdown_triggered' = shutdown_triggered
<1>1. /\ builder.pc = "walk" /\ builder.iter = <<>> /\ WorkLeft
  BY DEF TryAgainLater, LastLevelDone, EndOfList
<1>2. /\ builder'.pc = "wait"
      /\ builder'.stage = builder.stage
      /\ builder'.iter = <<>>
      /\ builder'.job = builder.job
      /\ builder'.are_there_jobs_defining = builder.are_there_jobs_defining
      /\ builder'.max_threads_per_table_reached = builder.max_threads_per_table_reached
  BY RecordFields, Zenon DEF TryAgainLater, BuilderRecord, Found
<1>3. request' = [request EXCEPT ![builder.stage] = @ + 1]
  BY RecordFields DEF TryAgainLater, LastLevelDone, EndOfList
<1>4. /\ options' = options /\ table_list' = table_list /\ status' = status /\ kind' = kind
      /\ running' = running /\ given' = given /\ dumped' = dumped /\ queue' = queue
      /\ defer' = defer /\ worker' = worker /\ shutdown_triggered' = shutdown_triggered
  BY Zenon DEF TryAgainLater
<1> QED
  BY <1>1, <1>2, <1>3, <1>4

LEMMA NoJobDefinedStep ==
    ASSUME TypeOK, NoJobDefined
    PROVE  /\ builder.pc = "walk" /\ builder.iter = <<>> /\ ~WorkLeft
           /\ builder'.pc = "finish"
           /\ builder'.stage = builder.stage
           /\ builder'.iter = builder.iter
           /\ builder'.job = builder.job
           /\ builder'.are_there_jobs_defining = builder.are_there_jobs_defining
           /\ builder'.max_threads_per_table_reached = builder.max_threads_per_table_reached
           /\ options' = options /\ table_list' = table_list /\ status' = status
           /\ kind' = kind /\ running' = running /\ given' = given /\ dumped' = dumped
           /\ request' = request /\ queue' = queue /\ defer' = defer /\ worker' = worker
           /\ shutdown_triggered' = shutdown_triggered
<1>1. /\ builder.pc = "walk" /\ builder.iter = <<>> /\ ~WorkLeft
  BY DEF NoJobDefined, LastLevelDone, EndOfList
<1>2. /\ builder'.pc = "finish"
      /\ builder'.stage = builder.stage
      /\ builder'.iter = builder.iter
      /\ builder'.job = builder.job
      /\ builder'.are_there_jobs_defining = builder.are_there_jobs_defining
      /\ builder'.max_threads_per_table_reached = builder.max_threads_per_table_reached
  BY RecordFields, Zenon DEF NoJobDefined, BuilderRecord, Found
<1>3. /\ options' = options /\ table_list' = table_list /\ status' = status /\ kind' = kind
      /\ running' = running /\ given' = given /\ dumped' = dumped /\ request' = request
      /\ queue' = queue /\ defer' = defer /\ worker' = worker
      /\ shutdown_triggered' = shutdown_triggered
  BY Zenon DEF NoJobDefined
<1> QED
  BY <1>1, <1>2, <1>3

LEMMA UndefinedStep ==
    ASSUME TypeOK, NEW t \in Tables, VisitUndefined(t)
    PROVE  /\ builder.pc = "walk" /\ builder.iter # <<>> /\ t = Head(builder.iter)
           /\ status[t] = "UNDEFINED"
           /\ builder'.pc = "push"
           /\ builder'.stage = builder.stage
           /\ builder'.iter = builder.iter
           /\ builder'.job = [type |-> "DETERMINE_CHUNK_TYPE", dbt |-> t, chunk |-> 0]
           /\ builder'.are_there_jobs_defining = builder.are_there_jobs_defining
           /\ builder'.max_threads_per_table_reached = builder.max_threads_per_table_reached
           /\ status' = [status EXCEPT ![t] = "DEFINING"]
           /\ options' = options /\ table_list' = table_list /\ kind' = kind
           /\ running' = running /\ given' = given /\ dumped' = dumped /\ request' = request
           /\ queue' = queue /\ defer' = defer /\ worker' = worker
           /\ shutdown_triggered' = shutdown_triggered
<1>1. /\ builder.pc = "walk" /\ builder.iter # <<>> /\ t = Head(builder.iter)
      /\ status[t] = "UNDEFINED"
  BY DEF VisitUndefined, At
<1>2. /\ builder'.pc = "push"
      /\ builder'.stage = builder.stage
      /\ builder'.iter = builder.iter
      /\ builder'.job = [type |-> "DETERMINE_CHUNK_TYPE", dbt |-> t, chunk |-> 0]
      /\ builder'.are_there_jobs_defining = builder.are_there_jobs_defining
      /\ builder'.max_threads_per_table_reached = builder.max_threads_per_table_reached
  BY RecordFields, Zenon DEF VisitUndefined, BuilderRecord, Found
<1>3. status' = [status EXCEPT ![t] = "DEFINING"]
  BY RecordFields DEF VisitUndefined, At
<1>4. /\ options' = options /\ table_list' = table_list /\ kind' = kind /\ running' = running
      /\ given' = given /\ dumped' = dumped /\ request' = request /\ queue' = queue
      /\ defer' = defer /\ worker' = worker /\ shutdown_triggered' = shutdown_triggered
  BY Zenon DEF VisitUndefined
<1> QED
  BY <1>1, <1>2, <1>3, <1>4

LEMMA DefiningStep ==
    ASSUME TypeOK, NEW t \in Tables, VisitDefining(t)
    PROVE  /\ builder.pc = "walk" /\ builder.iter # <<>> /\ t = Head(builder.iter)
           /\ status[t] = "DEFINING"
           /\ builder'.pc = builder.pc
           /\ builder'.stage = builder.stage
           /\ builder'.iter = Tail(builder.iter)
           /\ builder'.job = builder.job
           /\ builder'.are_there_jobs_defining = TRUE
           /\ builder'.max_threads_per_table_reached = builder.max_threads_per_table_reached
           /\ options' = options /\ table_list' = table_list /\ status' = status
           /\ kind' = kind /\ running' = running /\ given' = given /\ dumped' = dumped
           /\ request' = request /\ queue' = queue /\ defer' = defer /\ worker' = worker
           /\ shutdown_triggered' = shutdown_triggered
<1>1. /\ builder.pc = "walk" /\ builder.iter # <<>> /\ t = Head(builder.iter)
      /\ status[t] = "DEFINING"
  BY DEF VisitDefining, At
<1>2. /\ builder'.pc = builder.pc
      /\ builder'.stage = builder.stage
      /\ builder'.iter = Tail(builder.iter)
      /\ builder'.job = builder.job
      /\ builder'.are_there_jobs_defining = TRUE
      /\ builder'.max_threads_per_table_reached = builder.max_threads_per_table_reached
  BY RecordFields, Zenon DEF VisitDefining, BuilderRecord, Found
<1>3. /\ options' = options /\ table_list' = table_list /\ status' = status /\ kind' = kind
      /\ running' = running /\ given' = given /\ dumped' = dumped /\ request' = request
      /\ queue' = queue /\ defer' = defer /\ worker' = worker
      /\ shutdown_triggered' = shutdown_triggered
  BY Zenon DEF VisitDefining
<1> QED
  BY <1>1, <1>2, <1>3

LEMMA NoneStep ==
    ASSUME TypeOK, NEW t \in Tables, VisitNone(t)
    PROVE  /\ builder.pc = "walk" /\ builder.iter # <<>> /\ t = Head(builder.iter)
           /\ status[t] = "READY" /\ kind[t] = "NONE"
           /\ builder'.pc = "push"
           /\ builder'.stage = builder.stage
           /\ builder'.iter = builder.iter
           /\ builder'.job = [type |-> "DUMP", dbt |-> t, chunk |-> 1]
           /\ builder'.are_there_jobs_defining = builder.are_there_jobs_defining
           /\ builder'.max_threads_per_table_reached = builder.max_threads_per_table_reached
           /\ table_list' = [table_list EXCEPT ![builder.stage] = Without(@, t)]
           /\ given' = [given EXCEPT ![t] = 1]
           /\ options' = options /\ status' = status /\ kind' = kind /\ running' = running
           /\ dumped' = dumped /\ request' = request /\ queue' = queue /\ defer' = defer
           /\ worker' = worker /\ shutdown_triggered' = shutdown_triggered
<1>1. /\ builder.pc = "walk" /\ builder.iter # <<>> /\ t = Head(builder.iter)
      /\ status[t] = "READY" /\ kind[t] = "NONE"
  BY DEF VisitNone, At
<1>2. /\ builder'.pc = "push"
      /\ builder'.stage = builder.stage
      /\ builder'.iter = builder.iter
      /\ builder'.job = [type |-> "DUMP", dbt |-> t, chunk |-> 1]
      /\ builder'.are_there_jobs_defining = builder.are_there_jobs_defining
      /\ builder'.max_threads_per_table_reached = builder.max_threads_per_table_reached
  BY RecordFields, Zenon DEF VisitNone, BuilderRecord, Found
<1>3. table_list' = [table_list EXCEPT ![builder.stage] = Without(@, t)]
  BY RecordFields DEF VisitNone, At
<1>4. given' = [given EXCEPT ![t] = 1]
  BY RecordFields DEF VisitNone, At
<1>5. /\ options' = options /\ status' = status /\ kind' = kind /\ running' = running
      /\ dumped' = dumped /\ request' = request /\ queue' = queue /\ defer' = defer
      /\ worker' = worker /\ shutdown_triggered' = shutdown_triggered
  BY Zenon DEF VisitNone
<1> QED
  BY <1>1, <1>2, <1>3, <1>4, <1>5

LEMMA BusyStep ==
    ASSUME TypeOK, NEW t \in Tables, VisitBusy(t)
    PROVE  /\ builder.pc = "walk" /\ builder.iter # <<>> /\ t = Head(builder.iter)
           /\ status[t] = "READY" /\ kind[t] # "NONE"
           /\ builder'.pc = builder.pc
           /\ builder'.stage = builder.stage
           /\ builder'.iter = Tail(builder.iter)
           /\ builder'.job = builder.job
           /\ builder'.are_there_jobs_defining = builder.are_there_jobs_defining
           /\ builder'.max_threads_per_table_reached = TRUE
           /\ options' = options /\ table_list' = table_list /\ status' = status
           /\ kind' = kind /\ running' = running /\ given' = given /\ dumped' = dumped
           /\ request' = request /\ queue' = queue /\ defer' = defer /\ worker' = worker
           /\ shutdown_triggered' = shutdown_triggered
<1>1. /\ builder.pc = "walk" /\ builder.iter # <<>> /\ t = Head(builder.iter)
      /\ status[t] = "READY" /\ kind[t] # "NONE"
  BY DEF VisitBusy, At
<1>2. /\ builder'.pc = builder.pc
      /\ builder'.stage = builder.stage
      /\ builder'.iter = Tail(builder.iter)
      /\ builder'.job = builder.job
      /\ builder'.are_there_jobs_defining = builder.are_there_jobs_defining
      /\ builder'.max_threads_per_table_reached = TRUE
  BY RecordFields, Zenon DEF VisitBusy, BuilderRecord, Found
<1>3. /\ options' = options /\ table_list' = table_list /\ status' = status /\ kind' = kind
      /\ running' = running /\ given' = given /\ dumped' = dumped /\ request' = request
      /\ queue' = queue /\ defer' = defer /\ worker' = worker
      /\ shutdown_triggered' = shutdown_triggered
  BY Zenon DEF VisitBusy
<1> QED
  BY <1>1, <1>2, <1>3

LEMMA GivesChunkStep ==
    ASSUME TypeOK, NEW t \in Tables, VisitGivesChunk(t)
    PROVE  /\ builder.pc = "walk" /\ builder.iter # <<>> /\ t = Head(builder.iter)
           /\ status[t] = "READY" /\ kind[t] # "NONE" /\ ~LimitReached(t) /\ given[t] < MaxChunks
           /\ builder'.pc = "push"
           /\ builder'.stage = builder.stage
           /\ builder'.iter = builder.iter
           /\ builder'.job = [type |-> "DUMP", dbt |-> t, chunk |-> given[t] + 1]
           /\ builder'.are_there_jobs_defining = builder.are_there_jobs_defining
           /\ builder'.max_threads_per_table_reached = builder.max_threads_per_table_reached
           /\ given' = [given EXCEPT ![t] = @ + 1]
           /\ running' = [running EXCEPT ![t] = Inc(@)]
           /\ options' = options /\ table_list' = table_list /\ status' = status
           /\ kind' = kind /\ dumped' = dumped /\ request' = request /\ queue' = queue
           /\ defer' = defer /\ worker' = worker /\ shutdown_triggered' = shutdown_triggered
<1>1. /\ builder.pc = "walk" /\ builder.iter # <<>> /\ t = Head(builder.iter)
      /\ status[t] = "READY" /\ kind[t] # "NONE" /\ ~LimitReached(t) /\ given[t] < MaxChunks
  BY DEF VisitGivesChunk, AsksNext, At
<1>2. /\ builder'.pc = "push"
      /\ builder'.stage = builder.stage
      /\ builder'.iter = builder.iter
      /\ builder'.job = [type |-> "DUMP", dbt |-> t, chunk |-> given[t] + 1]
      /\ builder'.are_there_jobs_defining = builder.are_there_jobs_defining
      /\ builder'.max_threads_per_table_reached = builder.max_threads_per_table_reached
  BY RecordFields, Zenon DEF VisitGivesChunk, BuilderRecord, Found
<1>3. given' = [given EXCEPT ![t] = @ + 1]
  BY RecordFields DEF VisitGivesChunk, AsksNext, At
<1>4. running' = [running EXCEPT ![t] = Inc(@)]
  BY RecordFields DEF VisitGivesChunk, AsksNext, At
<1>5. /\ options' = options /\ table_list' = table_list /\ status' = status /\ kind' = kind
      /\ dumped' = dumped /\ request' = request /\ queue' = queue /\ defer' = defer
      /\ worker' = worker /\ shutdown_triggered' = shutdown_triggered
  BY Zenon DEF VisitGivesChunk
<1> QED
  BY <1>1, <1>2, <1>3, <1>4, <1>5

LEMMA GivesNullStep ==
    ASSUME TypeOK, NEW t \in Tables, VisitGivesNull(t)
    PROVE  /\ builder.pc = "walk" /\ builder.iter # <<>> /\ t = Head(builder.iter)
           /\ status[t] = "READY" /\ kind[t] # "NONE" /\ given[t] > 0
           /\ builder'.pc = builder.pc
           /\ builder'.stage = builder.stage
           /\ builder'.iter = Tail(builder.iter)
           /\ builder'.job = builder.job
           /\ builder'.are_there_jobs_defining = builder.are_there_jobs_defining
           /\ builder'.max_threads_per_table_reached = builder.max_threads_per_table_reached
           /\ table_list' = [table_list EXCEPT ![builder.stage] = Without(@, t)]
           /\ options' = options /\ status' = status /\ kind' = kind /\ running' = running
           /\ given' = given /\ dumped' = dumped /\ request' = request /\ queue' = queue
           /\ defer' = defer /\ worker' = worker /\ shutdown_triggered' = shutdown_triggered
<1>1. /\ builder.pc = "walk" /\ builder.iter # <<>> /\ t = Head(builder.iter)
      /\ status[t] = "READY" /\ kind[t] # "NONE" /\ given[t] > 0
  BY DEF VisitGivesNull, AsksNext, At
<1>2. /\ builder'.pc = builder.pc
      /\ builder'.stage = builder.stage
      /\ builder'.iter = Tail(builder.iter)
      /\ builder'.job = builder.job
      /\ builder'.are_there_jobs_defining = builder.are_there_jobs_defining
      /\ builder'.max_threads_per_table_reached = builder.max_threads_per_table_reached
  BY RecordFields, Zenon DEF VisitGivesNull, BuilderRecord, Found
<1>3. table_list' = [table_list EXCEPT ![builder.stage] = Without(@, t)]
  BY RecordFields DEF VisitGivesNull, AsksNext, At
<1>4. /\ options' = options /\ status' = status /\ kind' = kind /\ running' = running
      /\ given' = given /\ dumped' = dumped /\ request' = request /\ queue' = queue
      /\ defer' = defer /\ worker' = worker /\ shutdown_triggered' = shutdown_triggered
  BY Zenon DEF VisitGivesNull
<1> QED
  BY <1>1, <1>2, <1>3, <1>4

LEMMA RequestStep ==
    ASSUME TypeOK, NEW w \in Workers, RequestChunk(w)
    PROVE  /\ worker[w].pc = "request"
           /\ Stays(w)
           /\ worker'[w].pc = "pop"
           /\ worker'[w].stage = worker[w].stage
           /\ worker'[w].loop = worker[w].loop
           /\ worker'[w].job = worker[w].job
           /\ request' = [request EXCEPT ![worker[w].stage] = @ + 1]
           /\ options' = options /\ table_list' = table_list /\ status' = status
           /\ kind' = kind /\ running' = running /\ given' = given /\ dumped' = dumped
           /\ queue' = queue /\ defer' = defer /\ builder' = builder
           /\ shutdown_triggered' = shutdown_triggered
<1>1. /\ worker[w].pc = "request"
  BY DEF RequestChunk
<1>a. worker \in [Workers -> WorkerRecord]
  BY Parts
<1>2. /\ Stays(w)
      /\ worker'[w].pc = "pop"
      /\ worker'[w].stage = worker[w].stage
      /\ worker'[w].loop = worker[w].loop
      /\ worker'[w].job = worker[w].job
  BY <1>a DEF RequestChunk, WorkerRecord, Stays, LoopTop
<1>3. request' = [request EXCEPT ![worker[w].stage] = @ + 1]
  BY RecordFields DEF RequestChunk
<1>4. /\ options' = options /\ table_list' = table_list /\ status' = status /\ kind' = kind
      /\ running' = running /\ given' = given /\ dumped' = dumped /\ queue' = queue
      /\ defer' = defer /\ builder' = builder /\ shutdown_triggered' = shutdown_triggered
  BY Zenon DEF RequestChunk
<1> QED
  BY <1>1, <1>2, <1>3, <1>4

LEMMA DetermineStep ==
    ASSUME TypeOK, NEW w \in Workers, DetermineChunkType(w)
    PROVE  /\ worker[w].pc = "run" /\ worker[w].job.type = "DETERMINE_CHUNK_TYPE"
           /\ Stays(w)
           /\ worker'[w].pc = IF worker[w].loop = "queue" THEN "request" ELSE "pop"
           /\ worker'[w].stage = worker[w].stage
           /\ worker'[w].loop = worker[w].loop
           /\ worker'[w].job = NoJob
           /\ \E k \in Kinds : kind' = [kind EXCEPT ![worker[w].job.dbt] = k]
           /\ status' = [status EXCEPT ![worker[w].job.dbt] = "READY"]
           /\ options' = options /\ table_list' = table_list /\ running' = running
           /\ given' = given /\ dumped' = dumped /\ request' = request /\ queue' = queue
           /\ defer' = defer /\ builder' = builder /\ shutdown_triggered' = shutdown_triggered
<1>1. /\ worker[w].pc = "run" /\ worker[w].job.type = "DETERMINE_CHUNK_TYPE"
  BY DEF DetermineChunkType, Runs
<1>a. worker \in [Workers -> WorkerRecord]
  BY Parts
<1>2. /\ Stays(w)
      /\ worker'[w].pc = IF worker[w].loop = "queue" THEN "request" ELSE "pop"
      /\ worker'[w].stage = worker[w].stage
      /\ worker'[w].loop = worker[w].loop
      /\ worker'[w].job = NoJob
  BY <1>a DEF DetermineChunkType, WorkerRecord, Stays, LoopTop
<1>3. \E k \in Kinds : kind' = [kind EXCEPT ![worker[w].job.dbt] = k]
  BY RecordFields DEF DetermineChunkType, Runs
<1>4. status' = [status EXCEPT ![worker[w].job.dbt] = "READY"]
  BY RecordFields DEF DetermineChunkType, Runs
<1>5. /\ options' = options /\ table_list' = table_list /\ running' = running
      /\ given' = given /\ dumped' = dumped /\ request' = request /\ queue' = queue
      /\ defer' = defer /\ builder' = builder /\ shutdown_triggered' = shutdown_triggered
  BY Zenon DEF DetermineChunkType
<1> QED
  BY <1>1, <1>2, <1>3, <1>4, <1>5

LEMMA ProcessStep ==
    ASSUME TypeOK, NEW w \in Workers, ProcessChunk(w)
    PROVE  /\ worker[w].pc = "run" /\ worker[w].job.type = "DUMP"
           /\ Stays(w)
           /\ worker'[w].pc = "release"
           /\ worker'[w].stage = worker[w].stage
           /\ worker'[w].loop = worker[w].loop
           /\ worker'[w].job = worker[w].job
           /\ \/ dumped' = [dumped EXCEPT ![worker[w].job.dbt][worker[w].job.chunk] = @ + 1]
              \/ shutdown_triggered /\ dumped' = dumped
           /\ options' = options /\ table_list' = table_list /\ status' = status
           /\ kind' = kind /\ running' = running /\ given' = given /\ request' = request
           /\ queue' = queue /\ defer' = defer /\ builder' = builder
           /\ shutdown_triggered' = shutdown_triggered
<1>1. /\ worker[w].pc = "run" /\ worker[w].job.type = "DUMP"
  BY DEF ProcessChunk, Runs
<1>a. worker \in [Workers -> WorkerRecord]
  BY Parts
<1>2. /\ Stays(w)
      /\ worker'[w].pc = "release"
      /\ worker'[w].stage = worker[w].stage
      /\ worker'[w].loop = worker[w].loop
      /\ worker'[w].job = worker[w].job
  BY <1>a DEF ProcessChunk, WorkerRecord, Stays, LoopTop
<1>3. \/ dumped' = [dumped EXCEPT ![worker[w].job.dbt][worker[w].job.chunk] = @ + 1]
      \/ shutdown_triggered /\ dumped' = dumped
  BY Zenon DEF ProcessChunk, Runs
<1>4. /\ options' = options /\ table_list' = table_list /\ status' = status /\ kind' = kind
      /\ running' = running /\ given' = given /\ request' = request /\ queue' = queue
      /\ defer' = defer /\ builder' = builder /\ shutdown_triggered' = shutdown_triggered
  BY Zenon DEF ProcessChunk
<1> QED
  BY <1>1, <1>2, <1>3, <1>4

LEMMA ReleaseStep ==
    ASSUME TypeOK, NEW w \in Workers, ReleaseTable(w)
    PROVE  /\ worker[w].pc = "release"
           /\ Stays(w)
           /\ worker'[w].pc = IF worker[w].loop = "queue" THEN "request" ELSE "pop"
           /\ worker'[w].stage = worker[w].stage
           /\ worker'[w].loop = worker[w].loop
           /\ worker'[w].job = NoJob
           /\ running' = [running EXCEPT ![worker[w].job.dbt] = Dec(@)]
           /\ options' = options /\ table_list' = table_list /\ status' = status
           /\ kind' = kind /\ given' = given /\ dumped' = dumped /\ request' = request
           /\ queue' = queue /\ defer' = defer /\ builder' = builder
           /\ shutdown_triggered' = shutdown_triggered
<1>1. /\ worker[w].pc = "release"
  BY DEF ReleaseTable
<1>a. worker \in [Workers -> WorkerRecord]
  BY Parts
<1>2. /\ Stays(w)
      /\ worker'[w].pc = IF worker[w].loop = "queue" THEN "request" ELSE "pop"
      /\ worker'[w].stage = worker[w].stage
      /\ worker'[w].loop = worker[w].loop
      /\ worker'[w].job = NoJob
  BY <1>a DEF ReleaseTable, WorkerRecord, Stays, LoopTop
<1>3. running' = [running EXCEPT ![worker[w].job.dbt] = Dec(@)]
  BY RecordFields DEF ReleaseTable
<1>4. /\ options' = options /\ table_list' = table_list /\ status' = status /\ kind' = kind
      /\ given' = given /\ dumped' = dumped /\ request' = request /\ queue' = queue
      /\ defer' = defer /\ builder' = builder /\ shutdown_triggered' = shutdown_triggered
  BY Zenon DEF ReleaseTable
<1> QED
  BY <1>1, <1>2, <1>3, <1>4

LEMMA DeferStep ==
    ASSUME TypeOK, NEW w \in Workers, ProcessDefer(w)
    PROVE  /\ worker[w].pc = "run" /\ worker[w].job.type = "DEFER"
           /\ Stays(w)
           /\ worker'[w].pc = IF worker[w].loop = "queue" THEN "request" ELSE "pop"
           /\ worker'[w].stage = worker[w].stage
           /\ worker'[w].loop = worker[w].loop
           /\ worker'[w].job = NoJob
           /\ running' = [running EXCEPT ![worker[w].job.dbt] = Dec(@)]
           /\ options' = options /\ table_list' = table_list /\ status' = status
           /\ kind' = kind /\ given' = given /\ dumped' = dumped /\ request' = request
           /\ queue' = queue /\ defer' = defer /\ builder' = builder
           /\ shutdown_triggered' = shutdown_triggered
<1>1. /\ worker[w].pc = "run" /\ worker[w].job.type = "DEFER"
  BY DEF ProcessDefer, Runs
<1>a. worker \in [Workers -> WorkerRecord]
  BY Parts
<1>2. /\ Stays(w)
      /\ worker'[w].pc = IF worker[w].loop = "queue" THEN "request" ELSE "pop"
      /\ worker'[w].stage = worker[w].stage
      /\ worker'[w].loop = worker[w].loop
      /\ worker'[w].job = NoJob
  BY <1>a DEF ProcessDefer, WorkerRecord, Stays, LoopTop
<1>3. running' = [running EXCEPT ![worker[w].job.dbt] = Dec(@)]
  BY RecordFields DEF ProcessDefer, Runs
<1>4. /\ options' = options /\ table_list' = table_list /\ status' = status /\ kind' = kind
      /\ given' = given /\ dumped' = dumped /\ request' = request /\ queue' = queue
      /\ defer' = defer /\ builder' = builder /\ shutdown_triggered' = shutdown_triggered
  BY Zenon DEF ProcessDefer
<1> QED
  BY <1>1, <1>2, <1>3, <1>4

LEMMA PopStep ==
    ASSUME TypeOK, NEW w \in Workers, Pop(w)
    PROVE  /\ worker[w].pc = "pop"
           /\ worker[w].loop = "queue" =>
                /\ Source(w) = queue[worker[w].stage]
                /\ Taken(queue, queue', worker[w].stage) /\ defer' = defer
           /\ worker[w].loop = "defer" =>
                /\ Source(w) = defer[worker[w].stage]
                /\ Taken(defer, defer', worker[w].stage) /\ queue' = queue
<1>1. worker[w].pc = "pop"
  BY DEF Pop
<1>2. ASSUME worker[w].loop = "queue"
      PROVE  /\ Source(w) = queue[worker[w].stage]
             /\ Taken(queue, queue', worker[w].stage) /\ defer' = defer
  BY <1>2, RecordFields DEF Pop, Source, Taken
<1>3. ASSUME worker[w].loop = "defer"
      PROVE  /\ Source(w) = defer[worker[w].stage]
             /\ Taken(defer, defer', worker[w].stage) /\ queue' = queue
  BY <1>3, RecordFields DEF Pop, Source, Taken
<1> QED
  BY <1>1, <1>2, <1>3

LEMMA LeaveStep ==
    ASSUME TypeOK, NEW w \in Workers, LeaveLoop(w)
    PROVE  /\ Pop(w) /\ Stays(w)
           /\ ~shutdown_triggered => Head(Source(w)).type = "SHUTDOWN"
           /\ worker'[w].job = worker[w].job
           /\ worker[w].loop = "queue" =>
                /\ worker'[w].pc = "pop" /\ worker'[w].loop = "defer"
                /\ worker'[w].stage = worker[w].stage
           /\ worker[w].loop = "defer" /\ worker[w].stage = 1 =>
                /\ worker'[w].pc = "request" /\ worker'[w].loop = "queue"
                /\ worker'[w].stage = 2
           /\ worker[w].loop = "defer" /\ worker[w].stage = 2 =>
                /\ worker'[w].pc = "end" /\ worker'[w].loop = "defer"
                /\ worker'[w].stage = 2
           /\ options' = options /\ table_list' = table_list /\ status' = status
           /\ kind' = kind /\ running' = running /\ given' = given /\ dumped' = dumped
           /\ request' = request /\ builder' = builder
           /\ shutdown_triggered' = shutdown_triggered
<1>1. Pop(w) /\ (~shutdown_triggered => Head(Source(w)).type = "SHUTDOWN")
  BY DEF LeaveLoop, Leaves
<1>a. worker \in [Workers -> WorkerRecord]
  BY Parts
<1>2. Stays(w) /\ worker'[w] = LoopEnd(w)
  BY <1>a DEF LeaveLoop, Stays
<1>3. worker'[w].job = worker[w].job
  BY <1>a, <1>2 DEF LoopEnd, WorkerRecord
<1>4. worker[w].loop = "queue" =>
                /\ worker'[w].pc = "pop" /\ worker'[w].loop = "defer"
                /\ worker'[w].stage = worker[w].stage
  BY <1>a, <1>2 DEF LoopEnd, WorkerRecord
<1>5. worker[w].loop = "defer" /\ worker[w].stage = 1 =>
                /\ worker'[w].pc = "request" /\ worker'[w].loop = "queue"
                /\ worker'[w].stage = 2
  BY <1>a, <1>2 DEF LoopEnd, WorkerRecord
<1>6. worker[w].loop = "defer" /\ worker[w].stage = 2 =>
                /\ worker'[w].pc = "end" /\ worker'[w].loop = "defer"
                /\ worker'[w].stage = 2
  BY <1>a, <1>2 DEF LoopEnd, WorkerRecord
<1>7. /\ options' = options /\ table_list' = table_list /\ status' = status /\ kind' = kind
      /\ running' = running /\ given' = given /\ dumped' = dumped /\ request' = request
      /\ builder' = builder /\ shutdown_triggered' = shutdown_triggered
  BY Zenon DEF LeaveLoop
<1> QED
  BY <1>1, <1>2, <1>3, <1>4, <1>5, <1>6, <1>7

LEMMA TakeStep ==
    ASSUME TypeOK, NEW w \in Workers, TakeJob(w)
    PROVE  /\ Pop(w) /\ Stays(w)
           /\ ~shutdown_triggered /\ Head(Source(w)).type # "SHUTDOWN"
           /\ worker'[w].pc = "run" /\ worker'[w].job = Head(Source(w))
           /\ worker'[w].loop = worker[w].loop /\ worker'[w].stage = worker[w].stage
           /\ options' = options /\ table_list' = table_list /\ status' = status
           /\ kind' = kind /\ running' = running /\ given' = given /\ dumped' = dumped
           /\ request' = request /\ builder' = builder
           /\ shutdown_triggered' = shutdown_triggered
<1>1. Pop(w) /\ ~shutdown_triggered /\ Head(Source(w)).type # "SHUTDOWN"
  BY DEF TakeJob, Leaves
<1>a. worker \in [Workers -> WorkerRecord]
  BY Parts
<1>2. /\ Stays(w) /\ worker'[w].pc = "run" /\ worker'[w].job = Head(Source(w))
      /\ worker'[w].loop = worker[w].loop /\ worker'[w].stage = worker[w].stage
  BY <1>a DEF TakeJob, Stays, WorkerRecord
<1>3. /\ options' = options /\ table_list' = table_list /\ status' = status /\ kind' = kind
      /\ running' = running /\ given' = given /\ dumped' = dumped /\ request' = request
      /\ builder' = builder /\ shutdown_triggered' = shutdown_triggered
  BY Zenon DEF TakeJob
<1> QED
  BY <1>1, <1>2, <1>3

LEMMA EnqueueStep ==
    ASSUME TypeOK, EnqueueShutdown
    PROVE  /\ builder.pc = "finish"
           /\ builder.stage = 1 => builder'.pc = "wait" /\ builder'.stage = 2
           /\ builder.stage = 2 => builder'.pc = "done" /\ builder'.stage = 2
           /\ Filled(queue, queue', builder.stage) /\ Filled(defer, defer', builder.stage)
           /\ options' = options /\ table_list' = table_list /\ status' = status
           /\ kind' = kind /\ running' = running /\ given' = given /\ dumped' = dumped
           /\ request' = request /\ worker' = worker
           /\ shutdown_triggered' = shutdown_triggered
<1>1. /\ builder.pc = "finish"
      /\ builder.stage = 1 => builder'.pc = "wait" /\ builder'.stage = 2
      /\ builder.stage = 2 => builder'.pc = "done" /\ builder'.stage = 2
  BY RecordFields DEF EnqueueShutdown, BuilderRecord
<1>2. Filled(queue, queue', builder.stage) /\ Filled(defer, defer', builder.stage)
  BY RecordFields DEF EnqueueShutdown, Filled
<1>3. /\ options' = options /\ table_list' = table_list /\ status' = status /\ kind' = kind
      /\ running' = running /\ given' = given /\ dumped' = dumped /\ request' = request
      /\ worker' = worker /\ shutdown_triggered' = shutdown_triggered
  BY Zenon DEF EnqueueShutdown
<1> QED
  BY <1>1, <1>2, <1>3

-----------------------------------------------------------------------------
(* Counting jobs. *)
LEMMA CountsType ==
    ASSUME TypeOK
    PROVE  \A J : /\ InBuilder(J) \in {0, 1}
                  /\ Both(queue, J) \in Nat /\ Both(defer, J) \in Nat
                  /\ \A pcs : With(pcs, J) \in Nat
                  /\ Carried(J) \in Nat /\ Left(J) \in Nat
<1> SUFFICES ASSUME NEW J
             PROVE  /\ InBuilder(J) \in {0, 1}
                    /\ Both(queue, J) \in Nat /\ Both(defer, J) \in Nat
                    /\ \A pcs : With(pcs, J) \in Nat
                    /\ Carried(J) \in Nat /\ Left(J) \in Nat
  OBVIOUS
<1>1. InBuilder(J) \in {0, 1}
  BY DEF InBuilder
<1>2. /\ queue[1] \in Seq(Job) /\ queue[2] \in Seq(Job)
      /\ defer[1] \in Seq(Job) /\ defer[2] \in Seq(Job)
  BY Parts
<1>3. /\ Items(queue[1], J) \in Nat /\ Items(queue[2], J) \in Nat
      /\ Items(defer[1], J) \in Nat /\ Items(defer[2], J) \in Nat
  BY <1>2, ItemsBound
<1>4. Both(queue, J) \in Nat /\ Both(defer, J) \in Nat
  BY <1>3 DEF Both
<1>5. \A pcs : With(pcs, J) \in Nat
  BY ThreadsAssumption, ManyBound DEF With
<1> QED
  BY <1>1, <1>4, <1>5 DEF Carried, Left

Has(r, pcs, J) == r.pc \in pcs /\ r.job \in J

(* A worker that holds a job is counted. *)
LEMMA HolderCounts ==
    ASSUME TypeOK, NEW w \in Workers, NEW pcs, NEW J, Has(worker[w], pcs, J)
    PROVE  With(pcs, J) >= 1
<1> DEFINE P == {r \in WorkerRecord : r.pc \in pcs /\ r.job \in J}
<1>1. worker[w] \in P
  BY Parts DEF Has
<1>2. Many(Workers, worker, P) \in Nat /\ Many(Workers, worker, P) # 0
  BY <1>1, ThreadsAssumption, ManyBound
<1> QED
  BY <1>2 DEF With

LEMMA WithMoved ==
    ASSUME TypeOK, TypeOK', NEW w \in Workers, Stays(w)
    PROVE  \A pcs, J :
             With(pcs, J)' = IF Has(worker[w], pcs, J) <=> Has(worker'[w], pcs, J)
                             THEN With(pcs, J)
                             ELSE IF Has(worker'[w], pcs, J) THEN With(pcs, J) + 1
                             ELSE With(pcs, J) - 1
<1> SUFFICES ASSUME NEW pcs, NEW J
             PROVE  With(pcs, J)' = IF Has(worker[w], pcs, J) <=> Has(worker'[w], pcs, J)
                                    THEN With(pcs, J)
                                    ELSE IF Has(worker'[w], pcs, J) THEN With(pcs, J) + 1
                                    ELSE With(pcs, J) - 1
  OBVIOUS
<1> DEFINE P == {r \in WorkerRecord : r.pc \in pcs /\ r.job \in J}
<1>1. Moved(Workers, worker, worker', w, worker[w], worker'[w])
  BY DEF Moved, Stays
<1>2. Many(Workers, worker', P) = IF (worker[w] \in P <=> worker'[w] \in P)
                                  THEN Many(Workers, worker, P)
                                  ELSE IF worker'[w] \in P THEN Many(Workers, worker, P) + 1
                                  ELSE Many(Workers, worker, P) - 1
  BY <1>1, ThreadsAssumption, ManyMoved
<1>3. worker[w] \in WorkerRecord
  BY RecordFields
<1>4. worker'[w] \in WorkerRecord
  BY DEF TypeOK, WorkerRecord
<1>5. /\ worker[w] \in P <=> Has(worker[w], pcs, J)
      /\ worker'[w] \in P <=> Has(worker'[w], pcs, J)
  BY <1>3, <1>4 DEF Has
<1>6. With(pcs, J) = Many(Workers, worker, P) /\ With(pcs, J)' = Many(Workers, worker', P)
  BY DEF With
<1> HIDE DEF P
<1> QED
  BY <1>2, <1>5, <1>6

-----------------------------------------------------------------------------
(* The jobs in the queues and in hands stay well-formed. *)
LEMMA StageTablesType ==
    /\ \A s \in Stages : StageTables(s) \subseteq Tables
    /\ \A t : ~(t \in StageTables(1) /\ t \in StageTables(2))
  BY TablesAssumption DEF StageTables, Tables

LEMMA DeterminerDefines ==
    ASSUME IInv, NEW w \in Workers, worker[w].pc = "run",
           worker[w].job.type = "DETERMINE_CHUNK_TYPE"
    PROVE  /\ worker[w].job.dbt \in StageTables(worker[w].stage)
           /\ worker[w].job.dbt \in Tables /\ status[worker[w].job.dbt] = "DEFINING"
<1>0. TypeOK /\ HandsOK /\ DefiningOK
  BY DEF IInv
<1>s. worker[w].job \in Job /\ worker[w].stage \in Stages
  BY <1>0, Parts
<1>1. worker[w].job.dbt \in StageTables(worker[w].stage)
  BY <1>0, <1>s DEF HandsOK, WorkerHolds, QueueJobs, DeferJobs
<1>2. worker[w].job.dbt \in Tables
  BY <1>1, <1>s, StageTablesType
<1> DEFINE J == JobsOf("DETERMINE_CHUNK_TYPE", worker[w].job.dbt)
<1>3. Has(worker[w], {"run", "release"}, J)
  BY <1>s DEF Has, JobsOf
<1> HIDE DEF J
<1>4. With({"run", "release"}, J) >= 1
  BY <1>0, <1>3, HolderCounts
<1>5. Carried(J) >= 1
  <2>1. InBuilder(J) \in Nat /\ Both(queue, J) \in Nat /\ With({"run", "release"}, J) \in Nat
    BY <1>0, CountsType
  <2> QED
    BY <1>4, <2>1 DEF Carried
<1>6. Carried(J) <= IF status[worker[w].job.dbt] = "DEFINING" THEN 1 ELSE 0
  BY <1>0, <1>2 DEF DefiningOK, J
<1>7. Carried(J) \in Nat
  BY <1>0, CountsType
<1> QED
  BY <1>1, <1>2, <1>5, <1>6, <1>7

(* A table that is READY stays so and keeps its kind. *)
ReadyStays ==
    /\ options' = options
    /\ \A t \in Tables : status[t] = "READY" => status'[t] = "READY" /\ kind'[t] = kind[t]

LEMMA ReadyStep == IInv /\ [Next]_vars => ReadyStays
<1> SUFFICES ASSUME IInv, [Next]_vars PROVE ReadyStays
  OBVIOUS
<1>0. TypeOK
  BY DEF IInv
<1>s. status \in [Tables -> {"UNDEFINED", "DEFINING", "READY"}] /\ kind \in [Tables -> Kinds]
  BY <1>0 DEF TypeOK
<1>1. ASSUME options' = options, status' = status, kind' = kind PROVE ReadyStays
  BY <1>1 DEF ReadyStays
<1>2. ASSUME NEW t \in Tables, VisitUndefined(t) PROVE ReadyStays
  <2>1. /\ status[t] = "UNDEFINED" /\ status' = [status EXCEPT ![t] = "DEFINING"]
        /\ kind' = kind /\ options' = options
    BY <1>0, <1>2, UndefinedStep
  <2> QED
    BY <1>s, <2>1 DEF ReadyStays
<1>3. ASSUME NEW w \in Workers, DetermineChunkType(w) PROVE ReadyStays
  <2> DEFINE t == worker[w].job.dbt
  <2>1. /\ \E k \in Kinds : kind' = [kind EXCEPT ![t] = k]
        /\ status' = [status EXCEPT ![t] = "READY"] /\ options' = options
    BY <1>0, <1>3, DetermineStep
  <2>2. t \in Tables /\ status[t] = "DEFINING"
    BY <1>0, <1>3, DetermineStep, DeterminerDefines
  <2> HIDE DEF t
  <2> QED
    BY <1>s, <2>1, <2>2 DEF ReadyStays
<1>4. ASSUME TakeRequest \/ StopEnqueuing \/ PushJob \/ NextLevel \/ TryAgainLater
             \/ NoJobDefined \/ EnqueueShutdown \/ Shutdown \/ UNCHANGED vars
      PROVE  options' = options /\ status' = status /\ kind' = kind
  BY <1>4
  DEF TakeRequest, StopEnqueuing, PushJob, NextLevel, TryAgainLater, NoJobDefined,
      EnqueueShutdown, Shutdown, vars
<1>5. ASSUME NEW t \in Tables, VisitDefining(t) \/ VisitNone(t) \/ VisitBusy(t)
                               \/ VisitGivesChunk(t) \/ VisitGivesNull(t)
      PROVE  options' = options /\ status' = status /\ kind' = kind
  BY <1>5 DEF VisitDefining, VisitNone, VisitBusy, VisitGivesChunk, VisitGivesNull
<1>6. ASSUME NEW w \in Workers, RequestChunk(w) \/ LeaveLoop(w) \/ TakeJob(w)
                                \/ ProcessChunk(w) \/ ReleaseTable(w) \/ ProcessDefer(w)
      PROVE  options' = options /\ status' = status /\ kind' = kind
  BY <1>6, Zenon
  DEF RequestChunk, LeaveLoop, TakeJob, ProcessChunk, ReleaseTable, ProcessDefer
<1> QED
  BY <1>1, <1>2, <1>3, <1>4, <1>5, <1>6 DEF Next, Builder, Worker, Joined

LEMMA JobsStay ==
    ASSUME ReadyStays
    PROVE  \A s \in Stages : /\ QueueJobs(s) \subseteq QueueJobs(s)'
                             /\ DeferJobs(s) \subseteq DeferJobs(s)'
<1> SUFFICES ASSUME NEW s \in Stages, NEW j \in Job
             PROVE  /\ j \in QueueJobs(s) => j \in QueueJobs(s)'
                    /\ j \in DeferJobs(s) => j \in DeferJobs(s)'
  BY DEF QueueJobs, DeferJobs
<1>1. j.dbt \in StageTables(s) => j.dbt \in Tables
  BY StageTablesType
<1>2. ASSUME j.dbt \in Tables, status[j.dbt] = "READY"
      PROVE  status'[j.dbt] = "READY" /\ (Deferring(j.dbt) <=> Deferring(j.dbt)')
  BY <1>2 DEF ReadyStays, Deferring, UseDefer
<1> QED
  BY <1>1, <1>2 DEF QueueJobs, DeferJobs

LEMMA SeqSteps ==
    ASSUME NEW T, NEW q \in Seq(T)
    PROVE  /\ \A U : T \subseteq U => q \in Seq(U)
           /\ \A x \in T : Append(q, x) \in Seq(T)
           /\ q # <<>> => Tail(q) \in Seq(T) /\ Head(q) \in T
           /\ NoJob \in T => enqueue_shutdown_jobs(q) \in Seq(T)
<1>1. \A U : T \subseteq U => q \in Seq(U)
  OBVIOUS
<1>2. \A x \in T : Append(q, x) \in Seq(T)
  OBVIOUS
<1>3. q # <<>> => Tail(q) \in Seq(T) /\ Head(q) \in T
  OBVIOUS
<1>4. ASSUME NoJob \in T PROVE enqueue_shutdown_jobs(q) \in Seq(T)
  <2>1. [n \in 1 .. NumThreads |-> NoJob] \in Seq(T)
    BY <1>4, NumThreadsType
  <2> QED
    BY <2>1 DEF enqueue_shutdown_jobs
<1> QED
  BY <1>1, <1>2, <1>3, <1>4

LEMMA QueuesStep == IInv /\ TypeOK' /\ [Next]_vars => QueuesOK'
<1> SUFFICES ASSUME IInv, TypeOK', [Next]_vars PROVE QueuesOK'
  OBVIOUS
<1>0. TypeOK /\ QueuesOK /\ HandsOK
  BY DEF IInv
<1>a. /\ queue \in [Stages -> Seq(Job)] /\ defer \in [Stages -> Seq(Job)]
      /\ builder.job \in Job /\ builder.stage \in Stages
      /\ \A w \in Workers : worker[w].stage \in Stages /\ worker[w].loop \in {"queue", "defer"}
  BY <1>0, RecordFields, Parts
<1>r. \A s \in Stages : /\ QueueJobs(s) \subseteq QueueJobs(s)'
                        /\ DeferJobs(s) \subseteq DeferJobs(s)'
  BY ReadyStep, JobsStay
<1>b. \A s \in Stages : queue[s] \in Seq(QueueJobs(s)') /\ defer[s] \in Seq(DeferJobs(s)')
  BY <1>0, <1>r, SeqSteps DEF QueuesOK
<1>n. \A s \in Stages : NoJob \in QueueJobs(s)' /\ NoJob \in DeferJobs(s)'
  BY NoJobType DEF QueueJobs, DeferJobs
<1>1. ASSUME queue' = queue, defer' = defer PROVE QueuesOK'
  BY <1>1, <1>b DEF QueuesOK
<1>2. CASE PushJob
  <2>0. PICK s \in Stages, job \in Job : s = builder.stage /\ job = builder.job
    BY <1>a
  <2> DEFINE note == [job EXCEPT !.type = "DEFER"]
  <2>1. /\ builder.pc = "push"
        /\ Deferred(job) => Put(defer, defer', s, job) /\ Put(queue, queue', s, note)
        /\ ~Deferred(job) => defer' = defer /\ Put(queue, queue', s, job)
    BY <1>0, <1>2, <2>0, PushJobStep
  <2>2. /\ job.dbt \in StageTables(s) /\ job.type \in {"DETERMINE_CHUNK_TYPE", "DUMP"}
        /\ job.type = "DUMP" => status[job.dbt] = "READY"
    BY <1>0, <2>0, <2>1 DEF HandsOK, BuilderHolds
  <2>3. note \in Job /\ note.dbt = job.dbt /\ note.type = "DEFER"
    BY DEF Job
  <2> HIDE DEF note
  <2>4. CASE Deferred(job)
    <3>1. job \in DeferJobs(s) /\ note \in QueueJobs(s)
      BY <2>2, <2>3, <2>4 DEF Deferred, Deferring, DeferJobs, QueueJobs
    <3>2. job \in DeferJobs(s)' /\ note \in QueueJobs(s)'
      BY <1>r, <3>1
    <3>3. /\ queue'[s] = Append(queue[s], note) /\ defer'[s] = Append(defer[s], job)
          /\ \A u \in Stages \ {s} : queue'[u] = queue[u] /\ defer'[u] = defer[u]
      BY <2>1, <2>4 DEF Put
    <3>4. queue'[s] \in Seq(QueueJobs(s)') /\ defer'[s] \in Seq(DeferJobs(s)')
      BY <1>b, <3>2, <3>3, SeqSteps
    <3> QED
      BY <1>b, <3>3, <3>4 DEF QueuesOK
  <2>5. CASE ~Deferred(job)
    <3>1. job \in QueueJobs(s)
      BY <2>2, <2>5 DEF Deferred, Deferring, QueueJobs
    <3>2. /\ queue'[s] = Append(queue[s], job) /\ defer' = defer
          /\ \A u \in Stages \ {s} : queue'[u] = queue[u]
      BY <2>1, <2>5 DEF Put
    <3>3. job \in QueueJobs(s)'
      BY <1>r, <3>1
    <3>4. queue'[s] \in Seq(QueueJobs(s)')
      BY <1>b, <3>2, <3>3, SeqSteps
    <3> QED
      BY <1>b, <3>2, <3>4 DEF QueuesOK
  <2> QED
    BY <2>4, <2>5
<1>3. CASE EnqueueShutdown
  <2>0. PICK s \in Stages : s = builder.stage
    BY <1>a
  <2>1. Filled(queue, queue', s) /\ Filled(defer, defer', s)
    BY <1>0, <1>3, <2>0, EnqueueStep
  <2>2. /\ queue'[s] = enqueue_shutdown_jobs(queue[s])
        /\ defer'[s] = enqueue_shutdown_jobs(defer[s])
        /\ \A u \in Stages \ {s} : queue'[u] = queue[u] /\ defer'[u] = defer[u]
    BY <2>1 DEF Filled
  <2>3. queue'[s] \in Seq(QueueJobs(s)') /\ defer'[s] \in Seq(DeferJobs(s)')
    BY <1>b, <1>n, <2>2, SeqSteps
  <2> QED
    BY <1>b, <2>2, <2>3 DEF QueuesOK
<1>4. ASSUME NEW w \in Workers, Pop(w) PROVE QueuesOK'
  <2>0. PICK s \in Stages : s = worker[w].stage
    BY <1>a
  <2>1. \/ Taken(queue, queue', s) /\ defer' = defer
        \/ Taken(defer, defer', s) /\ queue' = queue
    BY <1>0, <1>4, <1>a, <2>0, PopStep
  <2>2. CASE Taken(queue, queue', s) /\ defer' = defer
    <3>1. /\ queue[s] # <<>> /\ queue'[s] = Tail(queue[s])
          /\ \A u \in Stages \ {s} : queue'[u] = queue[u]
      BY <2>2 DEF Taken
    <3>2. queue'[s] \in Seq(QueueJobs(s)')
      BY <1>b, <3>1, SeqSteps
    <3> QED
      BY <1>b, <2>2, <3>1, <3>2 DEF QueuesOK
  <2>3. CASE Taken(defer, defer', s) /\ queue' = queue
    <3>1. /\ defer[s] # <<>> /\ defer'[s] = Tail(defer[s])
          /\ \A u \in Stages \ {s} : defer'[u] = defer[u]
      BY <2>3 DEF Taken
    <3>2. defer'[s] \in Seq(DeferJobs(s)')
      BY <1>b, <3>1, SeqSteps
    <3> QED
      BY <1>b, <2>3, <3>1, <3>2 DEF QueuesOK
  <2> QED
    BY <2>1, <2>2, <2>3
<1>5. ASSUME TakeRequest \/ StopEnqueuing \/ NextLevel \/ TryAgainLater \/ NoJobDefined
             \/ Shutdown \/ UNCHANGED vars
      PROVE  queue' = queue /\ defer' = defer
  BY <1>5
  DEF TakeRequest, StopEnqueuing, NextLevel, TryAgainLater, NoJobDefined, Shutdown, vars
<1>6. ASSUME NEW t \in Tables, VisitUndefined(t) \/ VisitDefining(t) \/ VisitNone(t)
                               \/ VisitBusy(t) \/ VisitGivesChunk(t) \/ VisitGivesNull(t)
      PROVE  queue' = queue /\ defer' = defer
  BY <1>6
  DEF VisitUndefined, VisitDefining, VisitNone, VisitBusy, VisitGivesChunk, VisitGivesNull
<1>7. ASSUME NEW w \in Workers, RequestChunk(w) \/ DetermineChunkType(w) \/ ProcessChunk(w)
                                \/ ReleaseTable(w) \/ ProcessDefer(w)
      PROVE  queue' = queue /\ defer' = defer
  BY <1>7, Zenon
  DEF RequestChunk, DetermineChunkType, ProcessChunk, ReleaseTable, ProcessDefer
<1>8. ASSUME NEW w \in Workers, LeaveLoop(w) \/ TakeJob(w) PROVE Pop(w)
  BY <1>8 DEF LeaveLoop, TakeJob
<1> QED
  BY <1>1, <1>2, <1>3, <1>4, <1>5, <1>6, <1>7, <1>8 DEF Next, Builder, Worker, Joined

-----------------------------------------------------------------------------
(* The table the walk is at is on the list of its stage. *)
LEMMA AtListed ==
    ASSUME IInv, NEW t \in Tables, builder.pc = "walk", builder.iter # <<>>,
           t = Head(builder.iter)
    PROVE  /\ t \in StageTables(builder.stage) /\ Listed(t)
           /\ Member(t, table_list[builder.stage])
           /\ Member(t, builder.iter) /\ Distinct(builder.iter) /\ builder.iter \in Seq(Tables)
<1>0. TypeOK /\ ListsOK
  BY DEF IInv
<1>1. builder.iter \in Seq(Tables) /\ Distinct(builder.iter) /\ builder.stage \in Stages
  BY <1>0, Parts DEF ListsOK, WalkOK
<1>2. Member(t, builder.iter)
  BY <1>1, TailMembers
<1>3. Member(t, table_list[builder.stage])
  BY <1>0, <1>2 DEF ListsOK, WalkOK
<1>4. Listed(t)
  BY <1>1, <1>3 DEF Listed, Member
<1>5. table_list[builder.stage] \in Seq(StageTables(builder.stage))
  BY <1>0, <1>1 DEF ListsOK
<1>6. t \in StageTables(builder.stage)
  BY <1>3, <1>5 DEF Member
<1> QED
  BY <1>1, <1>2, <1>3, <1>4, <1>6

LEMMA BuilderHoldsStep == IInv /\ TypeOK' /\ [Next]_vars => BuilderHolds'
<1> SUFFICES ASSUME IInv, TypeOK', [Next]_vars PROVE BuilderHolds'
  OBVIOUS
<1>0. TypeOK /\ BuilderHolds
  BY DEF IInv, HandsOK
<1>a. builder.job \in Job /\ builder.stage \in Stages /\ ReadyStays
  BY <1>0, Parts, ReadyStep
<1>b. StageTables(builder.stage) \subseteq Tables
  BY <1>a, StageTablesType
<1>1. ASSUME builder' = builder PROVE BuilderHolds'
  BY <1>0, <1>1, <1>a, <1>b DEF BuilderHolds, ReadyStays
<1>2. ASSUME builder'.pc # "push" PROVE BuilderHolds'
  BY <1>2 DEF BuilderHolds
<1>3. ASSUME NEW t \in Tables, VisitUndefined(t) PROVE BuilderHolds'
  <2>1. /\ builder.pc = "walk" /\ builder.iter # <<>> /\ t = Head(builder.iter)
        /\ builder'.stage = builder.stage
        /\ builder'.job = [type |-> "DETERMINE_CHUNK_TYPE", dbt |-> t, chunk |-> 0]
    BY <1>0, <1>3, UndefinedStep
  <2> QED
    BY <2>1, AtListed DEF BuilderHolds
<1>4. ASSUME NEW t \in Tables, VisitNone(t) PROVE BuilderHolds'
  <2>1. /\ builder.pc = "walk" /\ builder.iter # <<>> /\ t = Head(builder.iter)
        /\ builder'.stage = builder.stage /\ status' = status /\ status[t] = "READY"
        /\ builder'.job = [type |-> "DUMP", dbt |-> t, chunk |-> 1]
    BY <1>0, <1>4, NoneStep
  <2> QED
    BY <2>1, AtListed DEF BuilderHolds
<1>5. ASSUME NEW t \in Tables, VisitGivesChunk(t) PROVE BuilderHolds'
  <2>1. /\ builder.pc = "walk" /\ builder.iter # <<>> /\ t = Head(builder.iter)
        /\ builder'.stage = builder.stage /\ status' = status /\ status[t] = "READY"
        /\ builder'.job = [type |-> "DUMP", dbt |-> t, chunk |-> given[t] + 1]
    BY <1>0, <1>5, GivesChunkStep
  <2> QED
    BY <2>1, AtListed DEF BuilderHolds
<1>6. ASSUME TakeRequest \/ StopEnqueuing \/ PushJob \/ NextLevel \/ TryAgainLater
             \/ NoJobDefined \/ EnqueueShutdown
      PROVE  builder'.pc # "push"
  <2>1. ASSUME EnqueueShutdown PROVE builder'.pc # "push"
    BY <1>0, <1>a, <2>1, EnqueueStep DEF Stages
  <2> QED
    BY <1>0, <1>6, <2>1, TakeRequestStep, StopEnqueuingStep, PushJobStep, NextLevelStep,
       TryAgainStep, NoJobDefinedStep
<1>7. ASSUME NEW t \in Tables, VisitDefining(t) \/ VisitBusy(t) \/ VisitGivesNull(t)
      PROVE  builder'.pc # "push"
  BY <1>0, <1>7, DefiningStep, BusyStep, GivesNullStep
<1>8. ASSUME NEW w \in Workers, Worker(w) PROVE builder' = builder
  BY <1>0, <1>8, RequestStep, LeaveStep, TakeStep, DetermineStep, ProcessStep, ReleaseStep,
     DeferStep DEF Worker
<1>9. ASSUME Shutdown \/ UNCHANGED vars PROVE builder' = builder
  BY <1>9 DEF Shutdown, vars
<1> QED
  BY <1>1, <1>2, <1>3, <1>4, <1>5, <1>6, <1>7, <1>8, <1>9 DEF Next, Builder, Joined

LEMMA WorkersStay == Builder \/ Shutdown \/ UNCHANGED vars => worker' = worker
<1>1. ASSUME NEW t \in Tables, VisitUndefined(t) \/ VisitDefining(t) \/ VisitNone(t)
                               \/ VisitBusy(t) \/ VisitGivesChunk(t) \/ VisitGivesNull(t)
      PROVE  worker' = worker
  BY <1>1
  DEF VisitUndefined, VisitDefining, VisitNone, VisitBusy, VisitGivesChunk, VisitGivesNull
<1>2. ASSUME TakeRequest \/ StopEnqueuing \/ PushJob \/ NextLevel \/ TryAgainLater
             \/ NoJobDefined \/ EnqueueShutdown \/ Shutdown \/ UNCHANGED vars
      PROVE  worker' = worker
  BY <1>2
  DEF TakeRequest, StopEnqueuing, PushJob, NextLevel, TryAgainLater, NoJobDefined,
      EnqueueShutdown, Shutdown, vars
<1> QED
  BY <1>1, <1>2 DEF Builder

LEMMA WorkerHoldsStep ==
    IInv /\ TypeOK' /\ [Next]_vars => \A v \in Workers : WorkerHolds(v)'
<1> SUFFICES ASSUME IInv, TypeOK', [Next]_vars, NEW v \in Workers PROVE WorkerHolds(v)'
  OBVIOUS
<1>0. TypeOK /\ QueuesOK /\ \A w \in Workers : WorkerHolds(w)
  BY DEF IInv, HandsOK
<1>a. \A w \in Workers : /\ worker[w].stage \in Stages /\ worker[w].loop \in {"queue", "defer"}
                         /\ worker[w].job \in Job
  BY <1>0, Parts
<1>r. \A s \in Stages : /\ QueueJobs(s) \subseteq QueueJobs(s)'
                        /\ DeferJobs(s) \subseteq DeferJobs(s)'
  BY ReadyStep, JobsStay
<1>1. ASSUME worker'[v] = worker[v] PROVE WorkerHolds(v)'
  BY <1>0, <1>1, <1>r DEF WorkerHolds
<1>2. ASSUME NEW w \in Workers, Stays(w), w # v PROVE worker'[v] = worker[v]
  BY <1>2 DEF Stays
<1>3. CASE RequestChunk(v)
  BY <1>0, <1>3, RequestStep DEF WorkerHolds
<1>4. CASE LeaveLoop(v)
  <2>1. /\ worker'[v].pc \in {"pop", "request", "end"}
        /\ worker'[v].pc = "request" => worker'[v].loop = "queue"
    BY <1>0, <1>4, <1>a, LeaveStep DEF Stages
  <2> QED
    BY <2>1 DEF WorkerHolds
<1>5. CASE TakeJob(v)
  <2>0. PICK s \in Stages : s = worker[v].stage
    BY <1>a
  <2>1. /\ Pop(v) /\ Head(Source(v)).type # "SHUTDOWN"
        /\ worker'[v].pc = "run" /\ worker'[v].job = Head(Source(v))
        /\ worker'[v].loop = worker[v].loop /\ worker'[v].stage = s
    BY <1>0, <1>5, <2>0, TakeStep
  <2>2. Head(Source(v)) \in IF worker[v].loop = "queue" THEN QueueJobs(s) ELSE DeferJobs(s)
    <3>1. queue[s] \in Seq(QueueJobs(s)) /\ defer[s] \in Seq(DeferJobs(s))
      BY <1>0 DEF QueuesOK
    <3>2. CASE worker[v].loop = "queue"
      <4>1. Source(v) = queue[s] /\ queue[s] # <<>>
        BY <1>0, <2>0, <2>1, <3>2, PopStep DEF Taken
      <4> QED
        BY <3>1, <3>2, <4>1, SeqSteps
    <3>3. CASE worker[v].loop = "defer"
      <4>1. Source(v) = defer[s] /\ defer[s] # <<>>
        BY <1>0, <2>0, <2>1, <3>3, PopStep DEF Taken
      <4> QED
        BY <3>1, <3>3, <4>1, SeqSteps
    <3> QED
      BY <1>a, <3>2, <3>3
  <2>3. worker'[v].job \in IF worker'[v].loop = "queue" THEN QueueJobs(s)' ELSE DeferJobs(s)'
    BY <1>r, <2>1, <2>2
  <2>4. worker'[v].job.type # "SHUTDOWN"
    BY <2>1
  <2> QED
    BY <2>1, <2>3, <2>4 DEF WorkerHolds
<1>6. CASE DetermineChunkType(v) \/ ReleaseTable(v) \/ ProcessDefer(v)
  <2>1. worker'[v].loop = worker[v].loop
        /\ worker'[v].pc = IF worker[v].loop = "queue" THEN "request" ELSE "pop"
    BY <1>0, <1>6, DetermineStep, ReleaseStep, DeferStep
  <2> QED
    BY <2>1 DEF WorkerHolds
<1>7. CASE ProcessChunk(v)
  <2>1. /\ worker[v].pc = "run" /\ worker[v].job.type = "DUMP" /\ worker'[v].pc = "release"
        /\ worker'[v].stage = worker[v].stage /\ worker'[v].loop = worker[v].loop
        /\ worker'[v].job = worker[v].job
    BY <1>0, <1>7, ProcessStep
  <2> QED
    BY <1>0, <1>r, <2>1 DEF WorkerHolds
<1>8. ASSUME Builder \/ Shutdown \/ UNCHANGED vars PROVE worker' = worker
  BY <1>8, WorkersStay
<1>9. ASSUME NEW w \in Workers, Worker(w) PROVE Stays(w)
  BY <1>0, <1>9, RequestStep, LeaveStep, TakeStep, DetermineStep, ProcessStep, ReleaseStep,
     DeferStep DEF Worker
<1> QED
  BY <1>1, <1>2, <1>3, <1>4, <1>5, <1>6, <1>7, <1>8, <1>9 DEF Next, Worker, Joined

-----------------------------------------------------------------------------
(* The order of the jobs and the place of the workers. *)
LEMMA StagesTwo == Stages = {1, 2}
  BY DEF Stages

(* The steps of the builder between two pushes, and the steps of a worker  *)
(* that take nothing from a queue.                                         *)
LEMMA QuietSteps ==
    ASSUME TypeOK, [Next]_vars
    PROVE  \/ PushJob \/ EnqueueShutdown
           \/ \E w \in Workers : LeaveLoop(w) \/ TakeJob(w)
           \/ /\ queue' = queue /\ defer' = defer
              /\ builder'.stage = builder.stage
              /\ builder'.pc = "done" <=> builder.pc = "done"
<1>1. ASSUME TakeRequest \/ StopEnqueuing \/ NextLevel \/ TryAgainLater \/ NoJobDefined
      PROVE  /\ queue' = queue /\ defer' = defer
             /\ builder'.stage = builder.stage
             /\ builder'.pc # "done" /\ builder.pc # "done"
  BY <1>1, TakeRequestStep, StopEnqueuingStep, NextLevelStep, TryAgainStep, NoJobDefinedStep
<1>2. ASSUME NEW t \in Tables, VisitUndefined(t) \/ VisitDefining(t) \/ VisitNone(t)
                               \/ VisitBusy(t) \/ VisitGivesChunk(t) \/ VisitGivesNull(t)
      PROVE  /\ queue' = queue /\ defer' = defer
             /\ builder'.stage = builder.stage
             /\ builder'.pc # "done" /\ builder.pc # "done"
  <2>1. CASE VisitUndefined(t)
    BY <2>1, UndefinedStep
  <2>2. CASE VisitDefining(t)
    BY <2>2, DefiningStep
  <2>3. CASE VisitNone(t)
    BY <2>3, NoneStep
  <2>4. CASE VisitBusy(t)
    BY <2>4, BusyStep
  <2>5. CASE VisitGivesChunk(t)
    BY <2>5, GivesChunkStep
  <2>6. CASE VisitGivesNull(t)
    BY <2>6, GivesNullStep
  <2> QED
    BY <1>2, <2>1, <2>2, <2>3, <2>4, <2>5, <2>6
<1>3. ASSUME NEW w \in Workers, RequestChunk(w) \/ DetermineChunkType(w) \/ ProcessChunk(w)
                                \/ ReleaseTable(w) \/ ProcessDefer(w)
      PROVE  queue' = queue /\ defer' = defer /\ builder' = builder
  BY <1>3, RequestStep, DetermineStep, ProcessStep, ReleaseStep, DeferStep
<1>4. ASSUME Shutdown \/ UNCHANGED vars
      PROVE  queue' = queue /\ defer' = defer /\ builder' = builder
  BY <1>4 DEF Shutdown, vars
<1> QED
  BY <1>1, <1>2, <1>3, <1>4 DEF Next, Builder, Worker, Joined

LEMMA OrderStep == IInv /\ TypeOK' /\ [Next]_vars => OrderOK'
<1> SUFFICES ASSUME IInv, TypeOK', [Next]_vars PROVE OrderOK'
  OBVIOUS
<1>0. TypeOK /\ OrderOK /\ BuilderHolds
  BY DEF IInv, HandsOK
<1>a. /\ queue \in [Stages -> Seq(Job)] /\ defer \in [Stages -> Seq(Job)]
      /\ builder.job \in Job /\ builder.stage \in Stages
      /\ \A w \in Workers : worker[w].stage \in Stages /\ worker[w].loop \in {"queue", "defer"}
  BY <1>0, RecordFields, Parts
<1>c. \A s \in Stages : Closed(queue[s]) /\ Closed(defer[s])
  BY <1>0 DEF OrderOK
<1>1. ASSUME queue' = queue, defer' = defer, builder'.stage = builder.stage,
             builder'.pc = "done" <=> builder.pc = "done"
      PROVE  OrderOK'
  BY <1>0, <1>1 DEF OrderOK, Past
<1>2. CASE PushJob
  <2>0. PICK s \in Stages, job \in Job : s = builder.stage /\ job = builder.job
    BY <1>a
  <2> DEFINE note == [job EXCEPT !.type = "DEFER"]
  <2>1. /\ builder.pc = "push" /\ builder'.pc = "wait" /\ builder'.stage = s
        /\ Deferred(job) => Put(defer, defer', s, job) /\ Put(queue, queue', s, note)
        /\ ~Deferred(job) => defer' = defer /\ Put(queue, queue', s, job)
    BY <1>0, <1>2, <2>0, PushJobStep
  <2>2. job.type # "SHUTDOWN" /\ note \in Job /\ note.type # "SHUTDOWN"
    BY <1>0, <2>0, <2>1 DEF BuilderHolds, Job
  <2> HIDE DEF note
  <2>3. /\ \A u \in Stages \ {s} : queue'[u] = queue[u] /\ defer'[u] = defer[u]
        /\ queue'[s] = Append(queue[s], note) \/ queue'[s] = Append(queue[s], job)
        /\ defer'[s] = defer[s] \/ defer'[s] = Append(defer[s], job)
    BY <2>1 DEF Put
  <2>4. Open(queue[s]) /\ Open(defer[s])
    BY <1>0, <2>0, <2>1, StagesTwo DEF OrderOK, Past
  <2>5. /\ queue[s] \in Seq(Job) /\ defer[s] \in Seq(Job)
        /\ Closed(queue[s]) /\ Closed(defer[s])
    BY <1>a, <1>c
  <2>6. Closed(queue'[s]) /\ Open(queue'[s])
    BY <2>2, <2>3, <2>4, <2>5, ClosedSteps
  <2>7. Closed(defer'[s]) /\ Open(defer'[s])
    BY <2>2, <2>3, <2>4, <2>5, ClosedSteps
  <2> QED
    BY <1>0, <2>0, <2>1, <2>3, <2>6, <2>7, StagesTwo DEF OrderOK, Past
<1>3. CASE EnqueueShutdown
  <2>0. PICK s \in Stages : s = builder.stage
    BY <1>a
  <2>1. /\ builder.pc = "finish"
        /\ s = 1 => builder'.pc = "wait" /\ builder'.stage = 2
        /\ s = 2 => builder'.pc = "done" /\ builder'.stage = 2
        /\ Filled(queue, queue', s) /\ Filled(defer, defer', s)
    BY <1>0, <1>3, <2>0, EnqueueStep
  <2>2. /\ queue'[s] = enqueue_shutdown_jobs(queue[s])
        /\ defer'[s] = enqueue_shutdown_jobs(defer[s])
        /\ \A u \in Stages \ {s} : queue'[u] = queue[u] /\ defer'[u] = defer[u]
    BY <2>1 DEF Filled
  <2>3. Closed(queue'[s]) /\ Closed(defer'[s])
    BY <1>a, <1>c, <2>2, ClosedSteps
  <2>4. CASE s = 1
    <3>1. queue'[2] = <<>> /\ defer'[2] = <<>>
      BY <1>0, <2>0, <2>2, <2>4, StagesTwo DEF OrderOK
    <3>2. Open(queue'[2]) /\ Open(defer'[2]) /\ Closed(queue'[2]) /\ Closed(defer'[2])
      BY <3>1 DEF Open, Closed
    <3> QED
      BY <2>1, <2>3, <2>4, <3>2, StagesTwo DEF OrderOK, Past
  <2>5. CASE s = 2
    <3>1. Closed(queue'[1]) /\ Closed(defer'[1])
      BY <1>c, <2>2, <2>5, StagesTwo
    <3> QED
      BY <2>1, <2>3, <2>5, <3>1, StagesTwo DEF OrderOK, Past
  <2> QED
    BY <2>4, <2>5, StagesTwo
<1>4. ASSUME NEW w \in Workers, Pop(w), builder' = builder PROVE OrderOK'
  <2>0. PICK s \in Stages : s = worker[w].stage
    BY <1>a
  <2>1. \/ Taken(queue, queue', s) /\ defer' = defer
        \/ Taken(defer, defer', s) /\ queue' = queue
    BY <1>0, <1>4, <1>a, <2>0, PopStep
  <2>2. CASE Taken(queue, queue', s) /\ defer' = defer
    <3>1. /\ queue[s] # <<>> /\ queue'[s] = Tail(queue[s])
          /\ \A u \in Stages \ {s} : queue'[u] = queue[u]
      BY <2>2 DEF Taken
    <3>2. Closed(queue'[s]) /\ (Open(queue[s]) => Open(queue'[s]))
      BY <1>a, <1>c, <3>1, ClosedSteps
    <3> QED
      BY <1>0, <1>4, <2>2, <3>1, <3>2, StagesTwo DEF OrderOK, Past
  <2>3. CASE Taken(defer, defer', s) /\ queue' = queue
    <3>1. /\ defer[s] # <<>> /\ defer'[s] = Tail(defer[s])
          /\ \A u \in Stages \ {s} : defer'[u] = defer[u]
      BY <2>3 DEF Taken
    <3>2. Closed(defer'[s]) /\ (Open(defer[s]) => Open(defer'[s]))
      BY <1>a, <1>c, <3>1, ClosedSteps
    <3> QED
      BY <1>0, <1>4, <2>3, <3>1, <3>2, StagesTwo DEF OrderOK, Past
  <2> QED
    BY <2>1, <2>2, <2>3
<1>5. ASSUME NEW w \in Workers, LeaveLoop(w) \/ TakeJob(w) PROVE Pop(w) /\ builder' = builder
  BY <1>0, <1>5, LeaveStep, TakeStep
<1> QED
  BY <1>0, <1>1, <1>2, <1>3, <1>4, <1>5, QuietSteps

LEMMA ShutdownStays == [Next]_vars => (shutdown_triggered => shutdown_triggered')
  BY DEF Next, Builder, Worker, Joined, TakeRequest, StopEnqueuing, PushJob, NextLevel,
     TryAgainLater, NoJobDefined, EnqueueShutdown, Shutdown, vars, VisitUndefined,
     VisitDefining, VisitNone, VisitBusy, VisitGivesChunk, VisitGivesNull, RequestChunk,
     LeaveLoop, TakeJob, DetermineChunkType, ProcessChunk, ReleaseTable, ProcessDefer

(* What the builder has left behind stays as it is or shrinks. *)
LEMMA PassedStep ==
    ASSUME IInv, [Next]_vars, NEW s \in Stages, Past(s)
    PROVE  /\ Past(s)'
           /\ Drained(queue[s]) => Drained(queue'[s])
           /\ Drained(defer[s]) => Drained(defer'[s])
<1>0. TypeOK /\ OrderOK
  BY DEF IInv
<1>a. /\ queue[s] \in Seq(Job) /\ defer[s] \in Seq(Job) /\ builder.stage \in Stages
      /\ Closed(queue[s]) /\ Closed(defer[s])
      /\ \A w \in Workers : worker[w].stage \in Stages /\ worker[w].loop \in {"queue", "defer"}
  BY <1>0, RecordFields, Parts DEF OrderOK
<1>1. ASSUME queue' = queue, defer' = defer, builder'.stage = builder.stage,
             builder'.pc = "done" <=> builder.pc = "done"
      PROVE  /\ Past(s)'
             /\ Drained(queue[s]) => Drained(queue'[s])
             /\ Drained(defer[s]) => Drained(defer'[s])
  BY <1>1 DEF Past
<1>2. ASSUME PushJob \/ EnqueueShutdown
      PROVE  /\ Past(s)' /\ queue'[s] = queue[s] /\ defer'[s] = defer[s]
  <2>1. builder.pc # "done" /\ builder.stage = 2 /\ s = 1
    BY <1>0, <1>2, <1>a, PushJobStep, EnqueueStep, StagesTwo DEF Past
  <2>2. CASE PushJob
    BY <1>0, <2>1, <2>2, PushJobStep, StagesTwo DEF Past, Put
  <2>3. CASE EnqueueShutdown
    BY <1>0, <2>1, <2>3, EnqueueStep, StagesTwo DEF Past, Filled
  <2> QED
    BY <1>2, <2>2, <2>3
<1>3. ASSUME NEW w \in Workers, LeaveLoop(w) \/ TakeJob(w)
      PROVE  /\ Past(s)'
             /\ Drained(queue[s]) => Drained(queue'[s])
             /\ Drained(defer[s]) => Drained(defer'[s])
  <2>1. Pop(w) /\ builder' = builder
    BY <1>0, <1>3, LeaveStep, TakeStep
  <2>2. /\ queue'[s] = queue[s] \/ (queue[s] # <<>> /\ queue'[s] = Tail(queue[s]))
        /\ defer'[s] = defer[s] \/ (defer[s] # <<>> /\ defer'[s] = Tail(defer[s]))
    BY <1>0, <1>a, <2>1, PopStep DEF Taken
  <2> QED
    BY <1>a, <2>1, <2>2, ClosedSteps DEF Past
<1> QED
  BY <1>0, <1>1, <1>2, <1>3, QuietSteps

LEMMA PlacesStep == IInv /\ TypeOK' /\ [Next]_vars => PlacesOK'
<1> SUFFICES ASSUME IInv, TypeOK', [Next]_vars, ~shutdown_triggered'
             PROVE  /\ builder'.stage = 1 => request'[2] = 0
                    /\ \A v \in Workers : Place(v)'
  BY DEF PlacesOK
<1>0. TypeOK /\ OrderOK /\ PlacesOK /\ HandsOK
  BY DEF IInv
<1>1. ~shutdown_triggered
  BY ShutdownStays
<1>2. \A w \in Workers : Place(w)
  BY <1>0, <1>1 DEF PlacesOK
<1>a. \A w \in Workers : /\ worker[w].stage \in Stages /\ worker[w].loop \in {"queue", "defer"}
                         /\ worker[w].pc \in {"request", "pop", "run", "release", "end"}
  BY <1>0, Parts
<1>b. builder.stage \in Stages /\ request \in [Stages -> Nat]
  BY <1>0, RecordFields
<1>c. builder.stage = 1 => request[2] = 0 /\ ~Past(1)
  BY <1>0, <1>1 DEF PlacesOK, OrderOK, Past
<1>3. builder'.stage = 1 => request'[2] = 0
  <2>1. CASE TakeRequest \/ StopEnqueuing \/ TryAgainLater
    <3>1. /\ builder'.stage = builder.stage
          /\ \A u \in Stages \ {builder.stage} : request'[u] = request[u]
      BY <1>0, <1>b, <2>1, TakeRequestStep, StopEnqueuingStep, TryAgainStep
      DEF StopEnqueuing
    <3> QED
      BY <1>c, <3>1, StagesTwo
  <2>2. ASSUME NEW w \in Workers, RequestChunk(w) PROVE builder'.stage = 1 => request'[2] = 0
    <3>1. builder' = builder /\ request' = [request EXCEPT ![worker[w].stage] = @ + 1]
      BY <1>0, <2>2, RequestStep
    <3>2. worker[w].stage = 2 => Past(1)
      BY <1>2 DEF Place
    <3> QED
      BY <1>a, <1>b, <1>c, <3>1, <3>2, StagesTwo
  <2>3. CASE EnqueueShutdown
    BY <1>0, <1>b, <2>3, EnqueueStep, StagesTwo
  <2>4. ASSUME request' = request, builder'.stage = builder.stage
        PROVE  builder'.stage = 1 => request'[2] = 0
    BY <1>c, <2>4
  <2>5. ASSUME NEW t \in Tables, VisitUndefined(t) \/ VisitDefining(t) \/ VisitNone(t)
                                 \/ VisitBusy(t) \/ VisitGivesChunk(t) \/ VisitGivesNull(t)
        PROVE  request' = request /\ builder'.stage = builder.stage
    <3>1. CASE VisitUndefined(t)
      BY <1>0, <3>1, UndefinedStep
    <3>2. CASE VisitDefining(t)
      BY <1>0, <3>2, DefiningStep
    <3>3. CASE VisitNone(t)
      BY <1>0, <3>3, NoneStep
    <3>4. CASE VisitBusy(t)
      BY <1>0, <3>4, BusyStep
    <3>5. CASE VisitGivesChunk(t)
      BY <1>0, <3>5, GivesChunkStep
    <3>6. CASE VisitGivesNull(t)
      BY <1>0, <3>6, GivesNullStep
    <3> QED
      BY <2>5, <3>1, <3>2, <3>3, <3>4, <3>5, <3>6
  <2>6. ASSUME NEW w \in Workers, LeaveLoop(w) \/ TakeJob(w) \/ DetermineChunkType(w)
                             \/ ProcessChunk(w) \/ ReleaseTable(w) \/ ProcessDefer(w)
        PROVE  request' = request /\ builder'.stage = builder.stage
    BY <1>0, <2>6, LeaveStep, TakeStep, DetermineStep, ProcessStep, ReleaseStep, DeferStep
  <2>7. ASSUME PushJob \/ NextLevel \/ NoJobDefined
        PROVE  request' = request /\ builder'.stage = builder.stage
    BY <1>0, <2>7, PushJobStep, NextLevelStep, NoJobDefinedStep
  <2>8. ASSUME Shutdown \/ UNCHANGED vars
        PROVE  request' = request /\ builder'.stage = builder.stage
    BY <2>8 DEF Shutdown, vars
  <2> QED
    BY <2>1, <2>2, <2>3, <2>4, <2>5, <2>6, <2>7, <2>8 DEF Next, Builder, Worker, Joined
<1>4. ASSUME NEW v \in Workers
      PROVE  Place(v)'
  <2>1. \A s \in Stages : Past(s) =>
            /\ Past(s)'
            /\ Drained(queue[s]) => Drained(queue'[s])
            /\ Drained(defer[s]) => Drained(defer'[s])
    BY PassedStep
  <2>2. ASSUME worker'[v].stage = worker[v].stage, worker'[v].loop = worker[v].loop,
               worker'[v].pc = "end" => worker[v].pc = "end"
        PROVE  Place(v)'
    BY <1>2, <2>1, <2>2, StagesTwo DEF Place
  <2>3. CASE LeaveLoop(v)
    <3>0. PICK s \in Stages : s = worker[v].stage
      BY <1>a
    <3>1. /\ Pop(v) /\ Head(Source(v)).type = "SHUTDOWN"
          /\ worker[v].loop = "queue" =>
                worker'[v].pc = "pop" /\ worker'[v].loop = "defer" /\ worker'[v].stage = s
          /\ worker[v].loop = "defer" /\ s = 1 =>
                worker'[v].pc = "request" /\ worker'[v].loop = "queue" /\ worker'[v].stage = 2
          /\ worker[v].loop = "defer" /\ s = 2 =>
                worker'[v].pc = "end" /\ worker'[v].loop = "defer" /\ worker'[v].stage = 2
      BY <1>0, <1>1, <2>3, <3>0, LeaveStep
    <3>2. /\ queue[s] \in Seq(Job) /\ defer[s] \in Seq(Job)
          /\ Closed(queue[s]) /\ Closed(defer[s])
      BY <1>0, RecordFields DEF OrderOK
    <3>3. /\ s = 2 => Past(1) /\ Drained(queue[1]) /\ Drained(defer[1])
          /\ worker[v].loop = "defer" => Past(s) /\ Drained(queue[s])
      BY <1>2, <3>0 DEF Place
    <3>4. CASE worker[v].loop = "queue"
      <4>1. queue[s] # <<>> /\ queue'[s] = Tail(queue[s]) /\ Head(queue[s]).type = "SHUTDOWN"
        BY <1>0, <3>0, <3>1, <3>4, PopStep DEF Taken
      <4>2. Drained(queue'[s]) /\ ~Open(queue[s])
        <5>1. Drained(queue'[s]) /\ Drained(queue[s])
          BY <3>2, <4>1, ClosedSteps
        <5>2. 1 \in DOMAIN queue[s]
          BY <3>2, <4>1
        <5> QED
          BY <5>1, <5>2 DEF Drained, Open
      <4>3. Past(s)
        BY <1>0, <4>2 DEF OrderOK
      <4> QED
        BY <2>1, <3>1, <3>3, <3>4, <4>2, <4>3, StagesTwo DEF Place
    <3>5. CASE worker[v].loop = "defer"
      <4>1. defer[s] # <<>> /\ defer'[s] = Tail(defer[s]) /\ Head(defer[s]).type = "SHUTDOWN"
        BY <1>0, <3>0, <3>1, <3>5, PopStep DEF Taken
      <4>2. Drained(defer'[s])
        BY <3>2, <4>1, ClosedSteps
      <4>3. CASE s = 1
        BY <2>1, <3>1, <3>3, <3>5, <4>2, <4>3, StagesTwo DEF Place
      <4>4. CASE s = 2
        BY <2>1, <3>1, <3>3, <3>5, <4>2, <4>4, StagesTwo DEF Place
      <4> QED
        BY <4>3, <4>4, StagesTwo
    <3> QED
      BY <1>a, <3>4, <3>5
  <2>4. ASSUME NEW w \in Workers, Worker(w), w # v PROVE worker'[v] = worker[v]
    <3>1. Stays(w)
      BY <1>0, <2>4, RequestStep, LeaveStep, TakeStep, DetermineStep, ProcessStep, ReleaseStep,
         DeferStep DEF Worker
    <3> QED
      BY <2>4, <3>1 DEF Stays
  <2>5. ASSUME RequestChunk(v) \/ TakeJob(v) \/ DetermineChunkType(v) \/ ProcessChunk(v)
               \/ ReleaseTable(v) \/ ProcessDefer(v)
        PROVE  /\ worker'[v].stage = worker[v].stage /\ worker'[v].loop = worker[v].loop
               /\ worker'[v].pc # "end"
    BY <1>0, <2>5, RequestStep, TakeStep, DetermineStep, ProcessStep, ReleaseStep, DeferStep
  <2>6. ASSUME Builder \/ Shutdown \/ UNCHANGED vars PROVE worker' = worker
    BY <2>6, WorkersStay
  <2> QED
    BY <2>2, <2>3, <2>4, <2>5, <2>6 DEF Next, Worker, Joined
<1> QED
  BY <1>3, <1>4

-----------------------------------------------------------------------------
(* The lists of tables and the walk along one of them. *)
LEMMA ListSteps ==
    ASSUME TypeOK, [Next]_vars
    PROVE  table_list' = table_list \/ \E t \in Tables : VisitNone(t) \/ VisitGivesNull(t)
<1>1. ASSUME TakeRequest \/ StopEnqueuing \/ PushJob \/ NextLevel \/ TryAgainLater
             \/ NoJobDefined \/ EnqueueShutdown \/ Shutdown \/ UNCHANGED vars
      PROVE  table_list' = table_list
  BY <1>1
  DEF TakeRequest, StopEnqueuing, PushJob, NextLevel, TryAgainLater, NoJobDefined,
      EnqueueShutdown, Shutdown, vars
<1>2. ASSUME NEW t \in Tables, VisitUndefined(t) \/ VisitDefining(t) \/ VisitBusy(t)
                               \/ VisitGivesChunk(t)
      PROVE  table_list' = table_list
  BY <1>2 DEF VisitUndefined, VisitDefining, VisitBusy, VisitGivesChunk
<1>3. ASSUME NEW w \in Workers, Worker(w) PROVE table_list' = table_list
  BY <1>3, RequestStep, LeaveStep, TakeStep, DetermineStep, ProcessStep, ReleaseStep,
     DeferStep DEF Worker
<1> QED
  BY <1>1, <1>2, <1>3 DEF Next, Builder, Joined

(* A table leaves its list: nothing else changes in the lists. *)
LEMMA TableRemoved ==
    ASSUME IInv, NEW t \in Tables, builder.pc = "walk", builder.iter # <<>>,
           t = Head(builder.iter),
           table_list' = [table_list EXCEPT ![builder.stage] = Without(@, t)]
    PROVE  /\ \A s \in Stages : /\ table_list'[s] \in Seq(StageTables(s))
                                /\ Distinct(table_list'[s])
           /\ \A s \in Stages \ {builder.stage} : table_list'[s] = table_list[s]
           /\ \A u : Member(u, table_list'[builder.stage])
                       <=> Member(u, table_list[builder.stage]) /\ u # t
           /\ \A u \in Tables : Listed(u)' <=> Listed(u) /\ u # t
<1>0. TypeOK /\ ListsOK
  BY DEF IInv
<1>0a. PICK b \in Stages : b = builder.stage
  BY <1>0, Parts
<1>a. table_list \in [Stages -> Seq(Tables)]
  BY <1>0, RecordFields
<1>1. \A s \in Stages : table_list[s] \in Seq(StageTables(s)) /\ Distinct(table_list[s])
  BY <1>0 DEF ListsOK
<1>2. /\ table_list'[b] = Without(table_list[b], t)
      /\ \A s \in Stages \ {b} : table_list'[s] = table_list[s]
  BY <1>0a, <1>a
<1>3. /\ table_list'[b] \in Seq(StageTables(b)) /\ Distinct(table_list'[b])
      /\ \A u : Member(u, table_list'[b]) <=> Member(u, table_list[b]) /\ u # t
  BY <1>1, <1>2, WithoutMembers
<1>4. t \in StageTables(b)
  BY <1>0a, AtListed
<1>5. \A s \in Stages \ {b} : ~Member(t, table_list[s])
  BY <1>0a, <1>1, <1>4, StageTablesType, StagesTwo DEF Member
<1>6. \A u \in Tables : Listed(u) <=> \E s \in Stages : Member(u, table_list[s])
  BY DEF Listed, Member
<1>7. \A u \in Tables : Listed(u)' <=> \E s \in Stages : Member(u, table_list'[s])
  BY DEF Listed, Member
<1>8. \A u \in Tables : Listed(u)' <=> Listed(u) /\ u # t
  BY <1>2, <1>3, <1>5, <1>6, <1>7
<1> QED
  BY <1>0a, <1>1, <1>2, <1>3, <1>8

LEMMA WalkStep == IInv /\ TypeOK' /\ [Next]_vars => WalkOK'
<1> SUFFICES ASSUME IInv, TypeOK', [Next]_vars PROVE WalkOK'
  OBVIOUS
<1>0. TypeOK /\ WalkOK /\ ListsOK
  BY DEF IInv, ListsOK
<1>a. builder.stage \in Stages /\ builder.iter \in Seq(Tables)
  BY <1>0, Parts
<1>b. Distinct(table_list[builder.stage])
  BY <1>0, <1>a DEF ListsOK
<1>1. ASSUME builder'.pc # "walk" PROVE WalkOK'
  BY <1>1 DEF WalkOK
<1>2. ASSUME builder' = builder, table_list' = table_list PROVE WalkOK'
  BY <1>0, <1>2 DEF WalkOK, WorkLeft
<1>3. ASSUME TakeRequest \/ NextLevel PROVE WalkOK'
  <2>1. /\ builder'.iter = table_list[builder.stage] /\ builder'.stage = builder.stage
        /\ table_list' = table_list
    BY <1>0, <1>3, TakeRequestStep, NextLevelStep
  <2> QED
    BY <1>b, <2>1 DEF WalkOK
<1>4. ASSUME NEW t \in Tables, VisitDefining(t) \/ VisitBusy(t) PROVE WalkOK'
  <2>1. /\ builder.pc = "walk" /\ builder.iter # <<>> /\ t = Head(builder.iter)
        /\ builder'.iter = Tail(builder.iter) /\ builder'.stage = builder.stage
        /\ table_list' = table_list
        /\ builder'.are_there_jobs_defining \/ builder'.max_threads_per_table_reached
    <3>1. CASE VisitDefining(t)
      BY <1>0, <3>1, DefiningStep
    <3>2. CASE VisitBusy(t)
      BY <1>0, <3>2, BusyStep
    <3> QED
      BY <1>4, <3>1, <3>2
  <2>2. Distinct(builder'.iter) /\ \A u : Member(u, builder'.iter) => Member(u, builder.iter)
    BY <1>0, <1>a, <2>1, TailMembers DEF WalkOK
  <2> QED
    BY <1>0, <2>1, <2>2 DEF WalkOK, WorkLeft
<1>5. ASSUME NEW t \in Tables, VisitGivesNull(t) PROVE WalkOK'
  <2>1. /\ builder.pc = "walk" /\ builder.iter # <<>> /\ t = Head(builder.iter)
        /\ builder'.iter = Tail(builder.iter) /\ builder'.stage = builder.stage
        /\ builder'.are_there_jobs_defining = builder.are_there_jobs_defining
        /\ builder'.max_threads_per_table_reached = builder.max_threads_per_table_reached
        /\ table_list' = [table_list EXCEPT ![builder.stage] = Without(@, t)]
    BY <1>0, <1>5, GivesNullStep
  <2>2. \A u : Member(u, table_list'[builder.stage])
                 <=> Member(u, table_list[builder.stage]) /\ u # t
    BY <2>1, TableRemoved
  <2>3. /\ Distinct(builder'.iter)
        /\ \A u : Member(u, builder'.iter) <=> Member(u, builder.iter) /\ u # t
    BY <1>0, <1>a, <2>1, TailMembers DEF WalkOK
  <2> QED
    BY <1>0, <2>1, <2>2, <2>3 DEF WalkOK, WorkLeft
<1>6. ASSUME StopEnqueuing \/ PushJob \/ TryAgainLater \/ NoJobDefined \/ EnqueueShutdown
      PROVE  builder'.pc # "walk"
  <2>1. ASSUME EnqueueShutdown PROVE builder'.pc # "walk"
    BY <1>0, <1>a, <2>1, EnqueueStep, StagesTwo
  <2> QED
    BY <1>0, <1>6, <2>1, StopEnqueuingStep, PushJobStep, TryAgainStep, NoJobDefinedStep
<1>7. ASSUME NEW t \in Tables, VisitUndefined(t) \/ VisitNone(t) \/ VisitGivesChunk(t)
      PROVE  builder'.pc # "walk"
  <2>1. CASE VisitUndefined(t)
    BY <1>0, <2>1, UndefinedStep
  <2>2. CASE VisitNone(t)
    BY <1>0, <2>2, NoneStep
  <2>3. CASE VisitGivesChunk(t)
    BY <1>0, <2>3, GivesChunkStep
  <2> QED
    BY <1>7, <2>1, <2>2, <2>3
<1>8. ASSUME NEW w \in Workers, Worker(w) PROVE builder' = builder /\ table_list' = table_list
  BY <1>0, <1>8, RequestStep, LeaveStep, TakeStep, DetermineStep, ProcessStep, ReleaseStep,
     DeferStep DEF Worker
<1>9. ASSUME Shutdown \/ UNCHANGED vars PROVE builder' = builder /\ table_list' = table_list
  BY <1>9 DEF Shutdown, vars
<1> QED
  BY <1>1, <1>2, <1>3, <1>4, <1>5, <1>6, <1>7, <1>8, <1>9 DEF Next, Builder, Joined

LEMMA ListsStep == IInv /\ TypeOK' /\ [Next]_vars => ListsOK'
<1> SUFFICES ASSUME IInv, TypeOK', [Next]_vars PROVE ListsOK'
  OBVIOUS
<1>0. TypeOK /\ ListsOK /\ OrderOK
  BY DEF IInv
<1>a. builder.stage \in Stages /\ table_list \in [Stages -> Seq(Tables)]
  BY <1>0, Parts, RecordFields
<1>r. ASSUME NEW t \in Tables, VisitNone(t) \/ VisitGivesNull(t)
      PROVE  /\ builder.pc = "walk" /\ builder.iter # <<>> /\ t = Head(builder.iter)
             /\ table_list' = [table_list EXCEPT ![builder.stage] = Without(@, t)]
             /\ builder'.stage = builder.stage /\ builder'.pc \in {"walk", "push"}
  <2>1. CASE VisitNone(t)
    BY <1>0, <2>1, NoneStep
  <2>2. CASE VisitGivesNull(t)
    BY <1>0, <2>2, GivesNullStep
  <2> QED
    BY <1>r, <2>1, <2>2
<1>1. \A s \in Stages : table_list'[s] \in Seq(StageTables(s)) /\ Distinct(table_list'[s])
  <2>1. CASE table_list' = table_list
    BY <1>0, <2>1 DEF ListsOK
  <2>2. ASSUME NEW t \in Tables, VisitNone(t) \/ VisitGivesNull(t)
        PROVE  \A s \in Stages : table_list'[s] \in Seq(StageTables(s)) /\ Distinct(table_list'[s])
    BY <1>r, <2>2, TableRemoved
  <2> QED
    BY <1>0, <2>1, <2>2, ListSteps
<1>2. ASSUME ~shutdown_triggered', NEW s \in Stages,
             Past(s)' \/ (builder'.stage = s /\ builder'.pc = "finish")
      PROVE  table_list'[s] = <<>>
  <2>0. ~shutdown_triggered
    BY <1>2, ShutdownStays
  <2>1. Past(s) \/ (builder.stage = s /\ builder.pc = "finish") => table_list[s] = <<>>
    BY <1>0, <2>0 DEF ListsOK
  <2>2. ASSUME NEW t \in Tables, VisitNone(t) \/ VisitGivesNull(t) PROVE table_list'[s] = <<>>
    <3>1. Past(s) /\ s # builder.stage
      BY <1>2, <1>r, <1>a, <2>2, StagesTwo DEF Past
    <3>2. table_list'[s] = table_list[s]
      BY <1>a, <1>r, <2>2, <3>1
    <3> QED
      BY <2>1, <3>1, <3>2
  <2>3. ASSUME builder'.stage = builder.stage, table_list' = table_list,
               builder'.pc \in {"finish", "done"} => builder'.pc = builder.pc
        PROVE  table_list'[s] = <<>>
    BY <1>2, <1>0, <2>1, <2>3, StagesTwo DEF Past
  <2>4. CASE NoJobDefined
    <3>1. /\ builder.pc = "walk" /\ builder.iter = <<>> /\ ~WorkLeft
          /\ builder'.stage = builder.stage /\ table_list' = table_list /\ builder'.pc = "finish"
      BY <1>0, <2>4, NoJobDefinedStep
    <3>2. \A t \in Tables : ~Member(t, table_list[builder.stage])
      BY <1>0, <3>1 DEF ListsOK, WalkOK, Member
    <3>3. table_list[builder.stage] = <<>>
      <4>1. table_list[builder.stage] \in Seq(Tables)
        BY <1>a
      <4>2. table_list[builder.stage] # <<>> =>
                /\ 1 \in DOMAIN table_list[builder.stage]
                /\ table_list[builder.stage][1] \in Tables
        BY <4>1
      <4> QED
        BY <3>2, <4>1, <4>2 DEF Member
    <3> QED
      BY <1>2, <2>1, <3>1, <3>3 DEF Past
  <2>5. CASE EnqueueShutdown
    <3>1. /\ builder.pc = "finish" /\ table_list' = table_list
          /\ builder.stage = 1 => builder'.pc = "wait" /\ builder'.stage = 2
          /\ builder.stage = 2 => builder'.pc = "done" /\ builder'.stage = 2
      BY <1>0, <2>5, EnqueueStep
    <3> QED
      BY <1>2, <1>a, <2>1, <3>1, StagesTwo DEF Past
  <2>6. ASSUME TakeRequest \/ PushJob \/ NextLevel \/ TryAgainLater
        PROVE  /\ builder'.stage = builder.stage /\ table_list' = table_list
               /\ builder'.pc \notin {"finish", "done"}
    BY <1>0, <2>6, TakeRequestStep, PushJobStep, NextLevelStep, TryAgainStep
  <2>7. ASSUME StopEnqueuing PROVE FALSE
    BY <1>0, <2>0, <2>7, StopEnqueuingStep
  <2>8. ASSUME NEW t \in Tables, VisitUndefined(t) \/ VisitDefining(t) \/ VisitBusy(t)
                                 \/ VisitGivesChunk(t)
        PROVE  /\ builder'.stage = builder.stage /\ table_list' = table_list
               /\ builder'.pc \notin {"finish", "done"}
    <3>1. CASE VisitUndefined(t)
      BY <1>0, <3>1, UndefinedStep
    <3>2. CASE VisitDefining(t)
      BY <1>0, <3>2, DefiningStep
    <3>3. CASE VisitBusy(t)
      BY <1>0, <3>3, BusyStep
    <3>4. CASE VisitGivesChunk(t)
      BY <1>0, <3>4, GivesChunkStep
    <3> QED
      BY <2>8, <3>1, <3>2, <3>3, <3>4
  <2>9. ASSUME NEW w \in Workers, Worker(w) PROVE builder' = builder /\ table_list' = table_list
    BY <1>0, <2>9, RequestStep, LeaveStep, TakeStep, DetermineStep, ProcessStep, ReleaseStep,
       DeferStep DEF Worker
  <2>10. ASSUME Shutdown \/ UNCHANGED vars PROVE builder' = builder /\ table_list' = table_list
    BY <2>10 DEF Shutdown, vars
  <2> QED
    BY <2>2, <2>3, <2>4, <2>5, <2>6, <2>7, <2>8, <2>9, <2>10 DEF Next, Builder, Joined
<1> QED
  BY <1>1, <1>2, WalkStep DEF ListsOK

-----------------------------------------------------------------------------
(* One token or job for each worker that waits. *)
Asks(s) == Many(Workers, worker, Asking(s))
Befores(s) == Many(Workers, worker, Before(s))

LEMMA WorkersCounted ==
    ASSUME TypeOK, TypeOK', NEW w \in Workers, Stays(w)
    PROVE  \A P : Many(Workers, worker', P) =
                    IF (worker[w] \in P <=> worker'[w] \in P) THEN Many(Workers, worker, P)
                    ELSE IF worker'[w] \in P THEN Many(Workers, worker, P) + 1
                    ELSE Many(Workers, worker, P) - 1
<1>1. Moved(Workers, worker, worker', w, worker[w], worker'[w])
  BY DEF Moved, Stays
<1> QED
  BY <1>1, ThreadsAssumption, ManyMoved

LEMMA AnswerCounts ==
    ASSUME TypeOK, TypeOK', NEW w \in Workers, Stays(w)
    PROVE  /\ \A s \in Stages :
                /\ worker[w] \in Asking(s) <=> /\ worker[w].stage = s /\ worker[w].pc = "pop"
                                               /\ worker[w].loop = "queue"
                /\ worker'[w] \in Asking(s) <=> /\ worker'[w].stage = s /\ worker'[w].pc = "pop"
                                                /\ worker'[w].loop = "queue"
                /\ worker[w] \in Before(s) <=>
                     worker[w].stage < s \/ (worker[w].stage = s /\ worker[w].loop = "queue")
                /\ worker'[w] \in Before(s) <=>
                     worker'[w].stage < s \/ (worker'[w].stage = s /\ worker'[w].loop = "queue")
                /\ Asks(s)' = IF (worker[w] \in Asking(s) <=> worker'[w] \in Asking(s)) THEN Asks(s)
                              ELSE IF worker'[w] \in Asking(s) THEN Asks(s) + 1 ELSE Asks(s) - 1
                /\ Befores(s)' = IF (worker[w] \in Before(s) <=> worker'[w] \in Before(s))
                                 THEN Befores(s)
                                 ELSE IF worker'[w] \in Before(s) THEN Befores(s) + 1
                                 ELSE Befores(s) - 1
                /\ Asks(s) \in Nat /\ Befores(s) \in Nat
<1>1. worker[w] \in WorkerRecord
  BY RecordFields
<1>2. worker'[w] \in WorkerRecord
  BY DEF TypeOK, WorkerRecord
<1>3. \A s \in Stages : Asks(s) \in Nat /\ Befores(s) \in Nat
  BY ThreadsAssumption, ManyBound DEF Asks, Befores
<1>4. \A s \in Stages : Asks(s)' = Many(Workers, worker', Asking(s))
                        /\ Befores(s)' = Many(Workers, worker', Before(s))
  BY DEF Asks, Befores
<1>5. \A s \in Stages :
        /\ Asks(s)' = IF (worker[w] \in Asking(s) <=> worker'[w] \in Asking(s)) THEN Asks(s)
                      ELSE IF worker'[w] \in Asking(s) THEN Asks(s) + 1 ELSE Asks(s) - 1
        /\ Befores(s)' = IF (worker[w] \in Before(s) <=> worker'[w] \in Before(s))
                         THEN Befores(s)
                         ELSE IF worker'[w] \in Before(s) THEN Befores(s) + 1
                         ELSE Befores(s) - 1
  BY <1>4, WorkersCounted DEF Asks, Befores
<1>6. \A s \in Stages :
        /\ worker[w] \in Asking(s) <=> /\ worker[w].stage = s /\ worker[w].pc = "pop"
                                       /\ worker[w].loop = "queue"
        /\ worker'[w] \in Asking(s) <=> /\ worker'[w].stage = s /\ worker'[w].pc = "pop"
                                        /\ worker'[w].loop = "queue"
        /\ worker[w] \in Before(s) <=>
             worker[w].stage < s \/ (worker[w].stage = s /\ worker[w].loop = "queue")
        /\ worker'[w] \in Before(s) <=>
             worker'[w].stage < s \/ (worker'[w].stage = s /\ worker'[w].loop = "queue")
  BY <1>1, <1>2 DEF Asking, Before
<1> QED
  BY <1>3, <1>5, <1>6

(* The answers of stage s, as in AnswersOK. *)
Answers(s) ==
    /\ builder.stage = s /\ builder.pc # "done" =>
         request[s] + Len(queue[s]) + (IF builder.pc = "wait" THEN 0 ELSE 1) = Asks(s)
    /\ Past(s) => Items(queue[s], ShutdownJobs) = Befores(s)

LEMMA AnswersStep == IInv /\ TypeOK' /\ [Next]_vars => AnswersOK'
<1> SUFFICES ASSUME IInv, TypeOK', [Next]_vars, ~shutdown_triggered',
                    NEW s \in Stages
             PROVE  Answers(s)'
  BY DEF AnswersOK, Answers, Asks, Befores
<1>0. TypeOK /\ OrderOK /\ PlacesOK /\ QueuesOK /\ HandsOK /\ ~shutdown_triggered
  BY ShutdownStays DEF IInv
<1>1. \A u \in Stages : Answers(u)
  BY <1>0 DEF IInv, AnswersOK, Answers, Asks, Befores
<1>p. \A w \in Workers : Place(w)
  BY <1>0 DEF PlacesOK
<1>a. /\ \A w \in Workers : worker[w].stage \in Stages /\ worker[w].loop \in {"queue", "defer"}
      /\ builder.stage \in Stages /\ request \in [Stages -> Nat]
      /\ queue \in [Stages -> Seq(Job)]
  BY <1>0, Parts, RecordFields
<1>b. \A u \in Stages : /\ request[u] \in Nat /\ Len(queue[u]) \in Nat
                        /\ Asks(u) \in Nat /\ Befores(u) \in Nat
                        /\ queue[u] \in Seq(Job)
  <2>1. \A u \in Stages : queue[u] \in Seq(Job) /\ request[u] \in Nat
    BY <1>a
  <2> QED
    BY <2>1, ThreadsAssumption, ManyBound DEF Asks, Befores
<1>2. ASSUME worker' = worker PROVE Asks(s)' = Asks(s) /\ Befores(s)' = Befores(s)
  BY <1>2 DEF Asks, Befores
<1>3. ASSUME request' = request, queue' = queue, worker' = worker,
             builder'.stage = builder.stage, builder'.pc = "done" <=> builder.pc = "done",
             builder'.pc = "wait" <=> builder.pc = "wait"
      PROVE  Answers(s)'
  BY <1>1, <1>2, <1>3 DEF Answers, Past
<1>4. CASE TakeRequest
  <2>1. /\ builder.pc = "wait" /\ request[builder.stage] > 0 /\ builder'.pc = "walk"
        /\ builder'.stage = builder.stage /\ queue' = queue /\ worker' = worker
        /\ request' = [request EXCEPT ![builder.stage] = @ - 1]
    BY <1>0, <1>4, TakeRequestStep
  <2>2. builder.stage = s => request[s] + Len(queue[s]) = Asks(s)
    BY <1>1, <1>b, <2>1 DEF Answers
  <2>3. builder.stage = s => request'[s] + Len(queue[s]) + 1 = Asks(s)
    BY <1>a, <1>b, <2>1, <2>2
  <2> QED
    BY <1>1, <1>2, <2>1, <2>3 DEF Answers, Past
<1>5. CASE TryAgainLater
  <2>1. /\ builder.pc = "walk" /\ builder'.pc = "wait"
        /\ builder'.stage = builder.stage /\ queue' = queue /\ worker' = worker
        /\ request' = [request EXCEPT ![builder.stage] = @ + 1]
    BY <1>0, <1>5, TryAgainStep
  <2>2. builder.stage = s => request[s] + Len(queue[s]) + 1 = Asks(s)
    BY <1>1, <2>1 DEF Answers
  <2>3. builder.stage = s => request'[s] + Len(queue[s]) + 0 = Asks(s)
    BY <1>a, <1>b, <2>1, <2>2
  <2> QED
    BY <1>1, <1>2, <2>1, <2>3 DEF Answers, Past
<1>6. CASE PushJob
  <2>0. PICK u \in Stages, job \in Job : u = builder.stage /\ job = builder.job
    BY <1>0, Parts
  <2> DEFINE note == [job EXCEPT !.type = "DEFER"]
  <2>1. /\ builder.pc = "push" /\ builder'.pc = "wait" /\ builder'.stage = u
        /\ worker' = worker /\ request' = request
        /\ Put(queue, queue', u, job) \/ Put(queue, queue', u, note)
    BY <1>0, <1>6, <2>0, PushJobStep
  <2>2. note \in Job
    BY DEF Job
  <2> HIDE DEF note
  <2>3. /\ Len(queue'[u]) = Len(queue[u]) + 1
        /\ \A v \in Stages \ {u} : queue'[v] = queue[v]
    BY <1>a, <2>1, <2>2, PutItems DEF Put
  <2>4. CASE s = u
    <3>1. request[s] + Len(queue[s]) + 1 = Asks(s)
      BY <1>1, <2>0, <2>1, <2>4 DEF Answers
    <3>2. request[s] + Len(queue'[s]) + 0 = Asks(s)
      BY <1>b, <2>3, <2>4, <3>1
    <3> QED
      BY <1>2, <2>1, <2>4, <3>2, StagesTwo DEF Answers, Past
  <2>5. CASE s # u
    BY <1>1, <1>2, <2>0, <2>1, <2>3, <2>5 DEF Answers, Past
  <2> QED
    BY <2>4, <2>5
<1>7. CASE EnqueueShutdown
  <2>0. PICK u \in Stages : u = builder.stage
    BY <1>a
  <2>1. /\ builder.pc = "finish" /\ worker' = worker /\ request' = request
        /\ u = 1 => builder'.pc = "wait" /\ builder'.stage = 2
        /\ u = 2 => builder'.pc = "done" /\ builder'.stage = 2
        /\ Filled(queue, queue', u)
    BY <1>0, <1>7, <2>0, EnqueueStep
  <2>2. ~Past(u)
    BY <2>0, <2>1, StagesTwo DEF Past
  <2>3. \A w \in Workers : worker[w] \in Before(u) /\ (u = 1 => worker[w] \notin Asking(2))
    <3>1. TAKE w \in Workers
    <3>2. worker[w] \in WorkerRecord
      BY <1>0, RecordFields
    <3>3. /\ worker[w].stage = 2 => Past(1)
          /\ worker[w].stage = u => worker[w].loop = "queue"
      BY <1>a, <1>p, <2>2 DEF Place
    <3>4. u = 1 => worker[w].stage = 1
      BY <1>a, <2>2, <3>3, StagesTwo
    <3> QED
      BY <1>a, <3>2, <3>3, <3>4, StagesTwo DEF Before, Asking
  <2>4. Befores(u) = NumThreads
    BY <2>3, ThreadsAssumption, ManyBound DEF Befores, NumThreads
  <2>5. Items(queue[u], ShutdownJobs) = 0
    <3>1. Open(queue[u])
      BY <1>0, <2>2 DEF OrderOK
    <3>2. \A n \in DOMAIN queue[u] : queue[u][n] \notin ShutdownJobs
      BY <3>1, NoJobType DEF Open, ShutdownJobs
    <3> QED
      BY <1>b, <3>2, ItemsBound
  <2>6. /\ Items(queue'[u], ShutdownJobs) = NumThreads
        /\ \A v \in Stages \ {u} : queue'[v] = queue[v]
    <3>1. queue \in [Stages -> Seq(Job)] /\ Filled(queue, queue', u)
      BY <1>a, <2>1
    <3>2. Items(queue[u], ShutdownJobs) = 0 => Items(queue'[u], ShutdownJobs) = NumThreads
      BY <3>1, FilledItems
    <3> QED
      BY <2>5, <3>1, <3>2 DEF Filled
  <2>7. CASE u = 1
    <3>1. Asks(2) = 0
      BY <2>3, <2>7, ThreadsAssumption, ManyBound DEF Asks
    <3>2. request[2] = 0 /\ queue[2] = <<>>
      BY <1>0, <2>0, <2>7 DEF PlacesOK, OrderOK
    <3>3. queue'[2] = <<>> /\ Len(queue'[2]) = 0
      BY <2>6, <2>7, <3>2, StagesTwo
    <3>4. CASE s = 1
      BY <1>2, <2>1, <2>4, <2>6, <2>7, <3>4 DEF Answers, Past
    <3>5. CASE s = 2
      BY <1>2, <2>1, <2>7, <3>1, <3>2, <3>3, <3>5 DEF Answers, Past
    <3> QED
      BY <3>4, <3>5, StagesTwo
  <2>8. CASE u = 2
    <3>1. CASE s = 1
      <4>1. Past(1) /\ queue'[1] = queue[1]
        BY <2>0, <2>6, <2>8, StagesTwo DEF Past
      <4> QED
        BY <1>1, <1>2, <2>1, <2>8, <3>1, <4>1, StagesTwo DEF Answers, Past
    <3>2. CASE s = 2
      BY <1>2, <2>1, <2>4, <2>6, <2>8, <3>2 DEF Answers, Past
    <3> QED
      BY <3>1, <3>2, StagesTwo
  <2> QED
    BY <2>7, <2>8, StagesTwo
<1>8. ASSUME NEW w \in Workers, RequestChunk(w) PROVE Answers(s)'
  <2>0. PICK u \in Stages : u = worker[w].stage
    BY <1>a
  <2>1. /\ worker[w].pc = "request" /\ worker'[w].pc = "pop" /\ Stays(w)
        /\ worker'[w].stage = u /\ worker'[w].loop = worker[w].loop
        /\ queue' = queue /\ builder' = builder
        /\ request' = [request EXCEPT ![u] = @ + 1]
    BY <1>0, <1>8, <2>0, RequestStep
  <2>2. worker[w].loop = "queue"
    BY <1>0, <2>1 DEF HandsOK, WorkerHolds
  <2>3. /\ Asks(s)' = IF s = u THEN Asks(s) + 1 ELSE Asks(s)
        /\ Befores(s)' = Befores(s)
    BY <1>0, <2>0, <2>1, <2>2, AnswerCounts
  <2>4. request'[s] = IF s = u THEN request[s] + 1 ELSE request[s]
    BY <1>a, <2>1
  <2>5. ASSUME builder.stage = s, builder.pc # "done"
        PROVE  request'[s] + Len(queue[s]) + (IF builder.pc = "wait" THEN 0 ELSE 1) = Asks(s)'
    <3>1. request[s] + Len(queue[s]) + (IF builder.pc = "wait" THEN 0 ELSE 1) = Asks(s)
      BY <1>1, <2>5 DEF Answers
    <3> QED
      BY <1>b, <2>3, <2>4, <3>1, SMTT(30)
  <2> QED
    BY <1>1, <2>1, <2>3, <2>5 DEF Answers, Past
<1>9. ASSUME NEW w \in Workers, LeaveLoop(w) PROVE Answers(s)'
  <2>0. PICK u \in Stages : u = worker[w].stage
    BY <1>a
  <2>1. /\ Pop(w) /\ Stays(w) /\ Head(Source(w)).type = "SHUTDOWN"
        /\ request' = request /\ builder' = builder
        /\ worker[w].loop = "queue" =>
             worker'[w].pc = "pop" /\ worker'[w].loop = "defer" /\ worker'[w].stage = u
        /\ worker[w].loop = "defer" /\ u = 1 =>
             worker'[w].pc = "request" /\ worker'[w].loop = "queue" /\ worker'[w].stage = 2
        /\ worker[w].loop = "defer" /\ u = 2 =>
             worker'[w].pc = "end" /\ worker'[w].loop = "defer" /\ worker'[w].stage = 2
    BY <1>0, <1>9, <2>0, LeaveStep
  <2>2. CASE worker[w].loop = "queue"
    <3>1. Taken(queue, queue', u) /\ Source(w) = queue[u] /\ worker[w].pc = "pop"
      BY <1>0, <2>0, <2>1, <2>2, PopStep
    <3>2. /\ 1 \in DOMAIN queue[u] /\ Head(queue[u]) = queue[u][1]
          /\ \A v \in Stages \ {u} : queue'[v] = queue[v]
      BY <1>a, <3>1, TakenItems, SMTT(30)
    <3>3. Past(u)
      BY <1>0, <2>1, <3>1, <3>2 DEF OrderOK, Open
    <3>4. Head(queue[u]) = NoJob
      <4>1. queue[u] \in Seq(QueueJobs(u)) /\ queue[u] # <<>>
        BY <1>0, <3>1 DEF QueuesOK, Taken
      <4>2. Head(queue[u]) \in QueueJobs(u)
        BY <4>1, SeqSteps
      <4> QED
        BY <2>1, <3>1, <4>2 DEF QueueJobs
    <3>5. Items(queue'[u], ShutdownJobs) = Items(queue[u], ShutdownJobs) - 1
      <4> DEFINE q == queue[u]
      <4>1. q \in Seq(Job) /\ q # <<>> /\ queue'[u] = Tail(q) /\ Head(q) = NoJob
        BY <1>b, <3>1, <3>4 DEF Taken
      <4> HIDE DEF q
      <4>2. Items(Tail(q), ShutdownJobs) = Items(q, ShutdownJobs) - 1
        BY <4>1, ItemsTail DEF ShutdownJobs
      <4> QED
        BY <4>1, <4>2 DEF q, ShutdownJobs
    <3>6. /\ Asks(s)' = IF s = u THEN Asks(s) - 1 ELSE Asks(s)
          /\ Befores(s)' = IF s = u THEN Befores(s) - 1 ELSE Befores(s)
      BY <1>0, <2>0, <2>1, <2>2, <3>1, AnswerCounts, StagesTwo
    <3>7. CASE s = u
      BY <1>1, <1>b, <2>1, <3>3, <3>5, <3>6, <3>7, StagesTwo DEF Answers, Past
    <3>8. CASE s # u
      BY <1>1, <2>1, <3>2, <3>6, <3>8 DEF Answers, Past
    <3> QED
      BY <3>7, <3>8
  <2>3. CASE worker[w].loop = "defer"
    <3>1. queue' = queue
      BY <1>0, <2>0, <2>1, <2>3, PopStep
    <3>2. Asks(s)' = Asks(s) /\ Befores(s)' = Befores(s)
      BY <1>0, <2>0, <2>1, <2>3, AnswerCounts, StagesTwo
    <3> QED
      BY <1>1, <2>1, <3>1, <3>2 DEF Answers, Past
  <2> QED
    BY <1>a, <2>2, <2>3
<1>10. ASSUME NEW w \in Workers, TakeJob(w) PROVE Answers(s)'
  <2>0. PICK u \in Stages : u = worker[w].stage
    BY <1>a
  <2>1. /\ Pop(w) /\ Stays(w) /\ Head(Source(w)).type # "SHUTDOWN"
        /\ request' = request /\ builder' = builder
        /\ worker'[w].pc = "run" /\ worker'[w].loop = worker[w].loop /\ worker'[w].stage = u
    BY <1>0, <1>10, <2>0, TakeStep
  <2>2. CASE worker[w].loop = "queue"
    <3>1. Taken(queue, queue', u) /\ Source(w) = queue[u] /\ worker[w].pc = "pop"
      BY <1>0, <2>0, <2>1, <2>2, PopStep
    <3>2. /\ Len(queue'[u]) = Len(queue[u]) - 1
          /\ \A v \in Stages \ {u} : queue'[v] = queue[v]
      BY <1>b, <3>1 DEF Taken
    <3>3. Items(queue'[u], ShutdownJobs) = Items(queue[u], ShutdownJobs)
      <4> DEFINE q == queue[u]
      <4>1. q \in Seq(Job) /\ q # <<>> /\ queue'[u] = Tail(q) /\ Head(q) \notin ShutdownJobs
        BY <1>b, <2>1, <3>1, NoJobType DEF Taken, ShutdownJobs
      <4> HIDE DEF q
      <4>2. \A P : Items(Tail(q), P) = IF Head(q) \in P THEN Items(q, P) - 1 ELSE Items(q, P)
        BY <4>1, ItemsTail
      <4> QED
        BY <4>1, <4>2 DEF q, ShutdownJobs
    <3>4. /\ Asks(s)' = IF s = u THEN Asks(s) - 1 ELSE Asks(s)
          /\ Befores(s)' = Befores(s)
      BY <1>0, <2>0, <2>1, <2>2, <3>1, AnswerCounts, StagesTwo
    <3>5. CASE s = u
      <4>1. ASSUME builder.stage = s, builder.pc # "done"
            PROVE  request[s] + Len(queue'[s]) + (IF builder.pc = "wait" THEN 0 ELSE 1) = Asks(s)'
        <5>1. request[s] + Len(queue[s]) + (IF builder.pc = "wait" THEN 0 ELSE 1) = Asks(s)
          BY <1>1, <4>1 DEF Answers
        <5> QED
          BY <1>b, <3>2, <3>4, <3>5, <5>1
      <4> QED
        BY <1>1, <2>1, <3>3, <3>4, <3>5, <4>1 DEF Answers, Past
    <3>6. CASE s # u
      BY <1>1, <2>1, <3>2, <3>4, <3>6 DEF Answers, Past
    <3> QED
      BY <3>5, <3>6
  <2>3. CASE worker[w].loop = "defer"
    <3>1. queue' = queue
      BY <1>0, <2>0, <2>1, <2>3, PopStep
    <3>2. Asks(s)' = Asks(s) /\ Befores(s)' = Befores(s)
      BY <1>0, <2>0, <2>1, <2>3, AnswerCounts, StagesTwo
    <3> QED
      BY <1>1, <2>1, <3>1, <3>2 DEF Answers, Past
  <2> QED
    BY <1>a, <2>2, <2>3
<1>11. ASSUME NEW w \in Workers, DetermineChunkType(w) \/ ProcessChunk(w)
                                 \/ ReleaseTable(w) \/ ProcessDefer(w)
       PROVE  Answers(s)'
  <2>1. /\ worker[w].pc # "pop" /\ Stays(w) /\ request' = request /\ queue' = queue
        /\ builder' = builder
        /\ worker'[w].stage = worker[w].stage /\ worker'[w].loop = worker[w].loop
        /\ worker'[w].loop = "queue" => worker'[w].pc # "pop"
    <3>1. CASE DetermineChunkType(w)
      BY <1>0, <3>1, DetermineStep
    <3>2. CASE ProcessChunk(w)
      BY <1>0, <3>2, ProcessStep
    <3>3. CASE ReleaseTable(w)
      BY <1>0, <3>3, ReleaseStep
    <3>4. CASE ProcessDefer(w)
      BY <1>0, <3>4, DeferStep
    <3> QED
      BY <1>11, <3>1, <3>2, <3>3, <3>4
  <2>2. Asks(s)' = Asks(s) /\ Befores(s)' = Befores(s)
    BY <1>0, <2>1, AnswerCounts
  <2> QED
    BY <1>1, <2>1, <2>2 DEF Answers, Past
<1>12. ASSUME NEW t \in Tables, VisitUndefined(t) \/ VisitDefining(t) \/ VisitNone(t)
                                \/ VisitBusy(t) \/ VisitGivesChunk(t) \/ VisitGivesNull(t)
       PROVE  Answers(s)'
  <2>1. /\ request' = request /\ queue' = queue /\ worker' = worker
        /\ builder'.stage = builder.stage /\ builder.pc = "walk"
        /\ builder'.pc \in {"walk", "push"}
    <3>1. CASE VisitUndefined(t)
      BY <1>0, <3>1, UndefinedStep
    <3>2. CASE VisitDefining(t)
      BY <1>0, <3>2, DefiningStep
    <3>3. CASE VisitNone(t)
      BY <1>0, <3>3, NoneStep
    <3>4. CASE VisitBusy(t)
      BY <1>0, <3>4, BusyStep
    <3>5. CASE VisitGivesChunk(t)
      BY <1>0, <3>5, GivesChunkStep
    <3>6. CASE VisitGivesNull(t)
      BY <1>0, <3>6, GivesNullStep
    <3> QED
      BY <1>12, <3>1, <3>2, <3>3, <3>4, <3>5, <3>6
  <2> QED
    BY <1>3, <2>1
<1>13. ASSUME NextLevel \/ NoJobDefined PROVE Answers(s)'
  <2>1. /\ request' = request /\ queue' = queue /\ worker' = worker
        /\ builder'.stage = builder.stage /\ builder.pc = "walk"
        /\ builder'.pc \in {"walk", "finish"}
    BY <1>0, <1>13, NextLevelStep, NoJobDefinedStep
  <2> QED
    BY <1>3, <2>1
<1>14. ASSUME StopEnqueuing PROVE FALSE
  BY <1>0, <1>14, StopEnqueuingStep
<1>15. ASSUME Shutdown \/ UNCHANGED vars PROVE Answers(s)'
  BY <1>3, <1>15 DEF Shutdown, vars
<1> QED
  BY <1>4, <1>5, <1>6, <1>7, <1>8, <1>9, <1>10, <1>11, <1>12, <1>13, <1>14, <1>15
  DEF Next, Builder, Worker, Joined

-----------------------------------------------------------------------------
(* How the steps change the number of jobs of a set that are on their way. *)
Ind(x, J) == IF x \in J THEN 1 ELSE 0

LEMMA CountQuiet ==
    ASSUME TypeOK, queue' = queue, defer' = defer, worker' = worker,
           builder.pc # "push", builder'.pc # "push"
    PROVE  \A J : /\ InBuilder(J) = 0 /\ InBuilder(J)' = 0
                  /\ Carried(J)' = Carried(J) /\ Left(J)' = Left(J)
  BY DEF Carried, Left, InBuilder, With

LEMMA CountSame ==
    ASSUME queue' = queue, defer' = defer, worker' = worker, builder' = builder
    PROVE  \A J : /\ InBuilder(J)' = InBuilder(J)
                  /\ Carried(J)' = Carried(J) /\ Left(J)' = Left(J)
  BY DEF Carried, Left, InBuilder, With

LEMMA CountFound ==
    ASSUME TypeOK, queue' = queue, defer' = defer, worker' = worker,
           builder.pc # "push", builder'.pc = "push"
    PROVE  \A J : /\ InBuilder(J) = 0 /\ InBuilder(J)' = Ind(builder'.job, J)
                  /\ Carried(J)' = Carried(J) + Ind(builder'.job, J)
                  /\ Left(J)' = Left(J) + Ind(builder'.job, J)
<1> SUFFICES ASSUME NEW J
             PROVE  /\ InBuilder(J) = 0 /\ InBuilder(J)' = Ind(builder'.job, J)
                    /\ Carried(J)' = Carried(J) + Ind(builder'.job, J)
                    /\ Left(J)' = Left(J) + Ind(builder'.job, J)
  OBVIOUS
<1>1. /\ Both(queue, J) \in Nat /\ Both(defer, J) \in Nat
      /\ \A pcs : With(pcs, J) \in Nat
  BY CountsType
<1>2. InBuilder(J) = 0 /\ InBuilder(J)' = Ind(builder'.job, J) /\ Ind(builder'.job, J) \in {0, 1}
  BY DEF InBuilder, Ind
<1>3. \A pcs : With(pcs, J)' = With(pcs, J)
  BY DEF With
<1>4. /\ Carried(J) = InBuilder(J) + Both(queue, J) + With({"run", "release"}, J)
      /\ Carried(J)' = InBuilder(J)' + Both(queue, J) + With({"run", "release"}, J)'
  BY DEF Carried
<1>5. /\ Left(J) = InBuilder(J) + Both(queue, J) + Both(defer, J) + With({"run"}, J)
      /\ Left(J)' = InBuilder(J)' + Both(queue, J) + Both(defer, J) + With({"run"}, J)'
  BY DEF Left
<1>6. Carried(J)' = Carried(J) + Ind(builder'.job, J)
  BY <1>1, <1>2, <1>3, <1>4
<1>7. Left(J)' = Left(J) + Ind(builder'.job, J)
  BY <1>1, <1>2, <1>3, <1>5
<1> QED
  BY <1>2, <1>6, <1>7

LEMMA CountPush ==
    ASSUME TypeOK, PushJob, NEW job, NEW note, job = builder.job,
           note = [job EXCEPT !.type = "DEFER"]
    PROVE  \A J : /\ InBuilder(J) = Ind(job, J) /\ InBuilder(J)' = 0
                  /\ ~Deferred(job) => Carried(J)' = Carried(J) /\ Left(J)' = Left(J)
                  /\ Deferred(job) => /\ Carried(J)' = Carried(J) - Ind(job, J) + Ind(note, J)
                                      /\ Left(J)' = Left(J) + Ind(note, J)
<1> SUFFICES ASSUME NEW J
             PROVE  /\ InBuilder(J) = Ind(job, J) /\ InBuilder(J)' = 0
                    /\ ~Deferred(job) => Carried(J)' = Carried(J) /\ Left(J)' = Left(J)
                    /\ Deferred(job) => /\ Carried(J)' = Carried(J) - Ind(job, J) + Ind(note, J)
                                        /\ Left(J)' = Left(J) + Ind(note, J)
  OBVIOUS
<1>1. /\ Both(queue, J) \in Nat /\ Both(defer, J) \in Nat
      /\ \A pcs : With(pcs, J) \in Nat
  BY CountsType
<1>2. /\ builder.pc = "push" /\ builder'.pc = "wait" /\ worker' = worker
      /\ Deferred(job) =>
           Put(defer, defer', builder.stage, job) /\ Put(queue, queue', builder.stage, note)
      /\ ~Deferred(job) => defer' = defer /\ Put(queue, queue', builder.stage, job)
  BY PushJobStep
<1>3. /\ InBuilder(J) = Ind(job, J) /\ InBuilder(J)' = 0
      /\ Ind(job, J) \in {0, 1} /\ Ind(note, J) \in {0, 1}
  BY <1>2 DEF InBuilder, Ind
<1>4. job \in Job /\ note \in Job
  <2>1. job \in Job
    BY Parts
  <2> QED
    BY <2>1 DEF Job
<1>5. \A pcs : With(pcs, J)' = With(pcs, J)
  BY <1>2 DEF With
<1>6. /\ Carried(J) = InBuilder(J) + Both(queue, J) + With({"run", "release"}, J)
      /\ Carried(J)' = InBuilder(J)' + Both(queue', J) + With({"run", "release"}, J)'
  BY DEF Carried
<1>7. /\ Left(J) = InBuilder(J) + Both(queue, J) + Both(defer, J) + With({"run"}, J)
      /\ Left(J)' = InBuilder(J)' + Both(queue', J) + Both(defer', J) + With({"run"}, J)'
  BY DEF Left
<1>8. queue \in [Stages -> Seq(Job)] /\ defer \in [Stages -> Seq(Job)]
  BY RecordFields
<1>9. CASE Deferred(job)
  <2>1. Put(defer, defer', builder.stage, job) /\ Put(queue, queue', builder.stage, note)
    BY <1>2, <1>9
  <2>2. Both(queue', J) = Both(queue, J) + Ind(note, J)
    <3>1. Both(queue', J) = IF note \in J THEN Both(queue, J) + 1 ELSE Both(queue, J)
      BY <1>4, <1>8, <2>1, PutItems
    <3> QED
      BY <1>1, <3>1 DEF Ind
  <2>3. Both(defer', J) = Both(defer, J) + Ind(job, J)
    <3>1. Both(defer', J) = IF job \in J THEN Both(defer, J) + 1 ELSE Both(defer, J)
      BY <1>4, <1>8, <2>1, PutItems
    <3> QED
      BY <1>1, <3>1 DEF Ind
  <2>4. Carried(J)' = Carried(J) - Ind(job, J) + Ind(note, J)
    BY <1>1, <1>3, <1>5, <1>6, <2>2
  <2>5. Left(J)' = Left(J) + Ind(note, J)
    BY <1>1, <1>3, <1>5, <1>7, <2>2, <2>3
  <2> QED
    BY <1>3, <1>9, <2>4, <2>5
<1>10. CASE ~Deferred(job)
  <2>1. Put(queue, queue', builder.stage, job) /\ defer' = defer
    BY <1>2, <1>10
  <2>2. Both(queue', J) = Both(queue, J) + Ind(job, J)
    <3>1. Both(queue', J) = IF job \in J THEN Both(queue, J) + 1 ELSE Both(queue, J)
      BY <1>4, <1>8, <2>1, PutItems
    <3> QED
      BY <1>1, <3>1 DEF Ind
  <2>3. Carried(J)' = Carried(J)
    BY <1>1, <1>3, <1>5, <1>6, <2>2
  <2>4. Left(J)' = Left(J)
    BY <1>1, <1>3, <1>5, <1>7, <2>1, <2>2
  <2> QED
    BY <1>3, <1>10, <2>3, <2>4
<1> QED
  BY <1>9, <1>10

LEMMA CountFilled ==
    ASSUME TypeOK, EnqueueShutdown
    PROVE  \A J : NoJob \notin J => /\ InBuilder(J) = 0 /\ InBuilder(J)' = 0
                                    /\ Carried(J)' = Carried(J) /\ Left(J)' = Left(J)
<1> SUFFICES ASSUME NEW J, NoJob \notin J
             PROVE  /\ InBuilder(J) = 0 /\ InBuilder(J)' = 0
                    /\ Carried(J)' = Carried(J) /\ Left(J)' = Left(J)
  OBVIOUS
<1>1. /\ builder.pc # "push" /\ builder'.pc # "push" /\ worker' = worker
      /\ Filled(queue, queue', builder.stage) /\ Filled(defer, defer', builder.stage)
  BY EnqueueStep, Parts, StagesTwo
<1>2. queue \in [Stages -> Seq(Job)] /\ defer \in [Stages -> Seq(Job)]
  BY RecordFields
<1>3. Both(queue', J) = Both(queue, J)
  BY <1>1, <1>2, FilledItems
<1>4. Both(defer', J) = Both(defer, J)
  BY <1>1, <1>2, FilledItems
<1>5. \A pcs : With(pcs, J)' = With(pcs, J)
  BY <1>1 DEF With
<1>6. InBuilder(J) = 0 /\ InBuilder(J)' = 0
  BY <1>1 DEF InBuilder
<1> QED
  BY <1>3, <1>4, <1>5, <1>6 DEF Carried, Left

(* A step of worker w that takes nothing from a queue. *)
LEMMA CountWorker ==
    ASSUME TypeOK, TypeOK', NEW w \in Workers, Stays(w),
           builder' = builder, queue' = queue, defer' = defer
    PROVE  \A J :
             /\ InBuilder(J)' = InBuilder(J)
             /\ Carried(J)' = Carried(J) +
                  (IF Has(worker'[w], {"run", "release"}, J) THEN 1 ELSE 0)
                  - (IF Has(worker[w], {"run", "release"}, J) THEN 1 ELSE 0)
             /\ Left(J)' = Left(J) + (IF Has(worker'[w], {"run"}, J) THEN 1 ELSE 0)
                             - (IF Has(worker[w], {"run"}, J) THEN 1 ELSE 0)
<1> SUFFICES ASSUME NEW J
             PROVE  /\ InBuilder(J)' = InBuilder(J)
                    /\ Carried(J)' = Carried(J) +
                         (IF Has(worker'[w], {"run", "release"}, J) THEN 1 ELSE 0)
                         - (IF Has(worker[w], {"run", "release"}, J) THEN 1 ELSE 0)
                    /\ Left(J)' = Left(J) + (IF Has(worker'[w], {"run"}, J) THEN 1 ELSE 0)
                                    - (IF Has(worker[w], {"run"}, J) THEN 1 ELSE 0)
  OBVIOUS
<1>1. /\ Both(queue, J) \in Nat /\ Both(defer, J) \in Nat /\ InBuilder(J) \in {0, 1}
      /\ \A pcs : With(pcs, J) \in Nat
  BY CountsType
<1>2. InBuilder(J)' = InBuilder(J)
  BY DEF InBuilder
<1>3. \A pcs : With(pcs, J)' = With(pcs, J) + (IF Has(worker'[w], pcs, J) THEN 1 ELSE 0)
                                 - (IF Has(worker[w], pcs, J) THEN 1 ELSE 0)
  BY <1>1, WithMoved
<1>4. /\ Carried(J) = InBuilder(J) + Both(queue, J) + With({"run", "release"}, J)
      /\ Carried(J)' = InBuilder(J)' + Both(queue, J) + With({"run", "release"}, J)'
  BY DEF Carried
<1>5. /\ Left(J) = InBuilder(J) + Both(queue, J) + Both(defer, J) + With({"run"}, J)
      /\ Left(J)' = InBuilder(J)' + Both(queue, J) + Both(defer, J) + With({"run"}, J)'
  BY DEF Left
<1>6. Carried(J)' = Carried(J) + (IF Has(worker'[w], {"run", "release"}, J) THEN 1 ELSE 0)
                     - (IF Has(worker[w], {"run", "release"}, J) THEN 1 ELSE 0)
  BY <1>1, <1>2, <1>3, <1>4
<1>7. Left(J)' = Left(J) + (IF Has(worker'[w], {"run"}, J) THEN 1 ELSE 0)
                     - (IF Has(worker[w], {"run"}, J) THEN 1 ELSE 0)
  BY <1>1, <1>2, <1>3, <1>5
<1> QED
  BY <1>2, <1>6, <1>7

(* The worker is done with its job, or with the first part of it. *)
LEMMA CountDone ==
    ASSUME TypeOK, TypeOK', NEW w \in Workers,
           DetermineChunkType(w) \/ ReleaseTable(w) \/ ProcessDefer(w)
    PROVE  \A J : /\ InBuilder(J)' = InBuilder(J)
                  /\ Carried(J)' = Carried(J) - Ind(worker[w].job, J)
                  /\ Left(J)' = Left(J) -
                       (IF worker[w].pc = "run" THEN Ind(worker[w].job, J) ELSE 0)
<1>1. /\ Stays(w) /\ builder' = builder /\ queue' = queue /\ defer' = defer
      /\ worker[w].pc \in {"run", "release"} /\ worker'[w].pc \notin {"run", "release"}
  <2>1. CASE DetermineChunkType(w)
    BY <2>1, DetermineStep
  <2>2. CASE ReleaseTable(w)
    BY <2>2, ReleaseStep
  <2>3. CASE ProcessDefer(w)
    BY <2>3, DeferStep
  <2> QED
    BY <2>1, <2>2, <2>3
<1>2. TAKE J
<1>3. /\ InBuilder(J)' = InBuilder(J)
      /\ Carried(J)' = Carried(J) + (IF Has(worker'[w], {"run", "release"}, J) THEN 1 ELSE 0)
                         - (IF Has(worker[w], {"run", "release"}, J) THEN 1 ELSE 0)
      /\ Left(J)' = Left(J) + (IF Has(worker'[w], {"run"}, J) THEN 1 ELSE 0)
                      - (IF Has(worker[w], {"run"}, J) THEN 1 ELSE 0)
  BY <1>1, CountWorker
<1>4. Carried(J) \in Nat /\ Left(J) \in Nat
  BY CountsType
<1> QED
  BY <1>1, <1>3, <1>4 DEF Has, Ind

LEMMA CountProcessed ==
    ASSUME TypeOK, TypeOK', NEW w \in Workers, ProcessChunk(w)
    PROVE  \A J : /\ InBuilder(J)' = InBuilder(J) /\ Carried(J)' = Carried(J)
                  /\ Left(J)' = Left(J) - Ind(worker[w].job, J)
<1>1. /\ Stays(w) /\ builder' = builder /\ queue' = queue /\ defer' = defer
      /\ worker[w].pc = "run" /\ worker'[w].pc = "release" /\ worker'[w].job = worker[w].job
  BY ProcessStep
<1>2. TAKE J
<1>3. /\ InBuilder(J)' = InBuilder(J)
      /\ Carried(J)' = Carried(J) + (IF Has(worker'[w], {"run", "release"}, J) THEN 1 ELSE 0)
                         - (IF Has(worker[w], {"run", "release"}, J) THEN 1 ELSE 0)
      /\ Left(J)' = Left(J) + (IF Has(worker'[w], {"run"}, J) THEN 1 ELSE 0)
                      - (IF Has(worker[w], {"run"}, J) THEN 1 ELSE 0)
  BY <1>1, CountWorker
<1>4. Carried(J) \in Nat /\ Left(J) \in Nat
  BY CountsType
<1> QED
  BY <1>1, <1>3, <1>4 DEF Has, Ind

LEMMA CountRequested ==
    ASSUME TypeOK, TypeOK', NEW w \in Workers, RequestChunk(w)
    PROVE  \A J : /\ InBuilder(J)' = InBuilder(J) /\ Carried(J)' = Carried(J)
                  /\ Left(J)' = Left(J)
<1>1. /\ Stays(w) /\ builder' = builder /\ queue' = queue /\ defer' = defer
      /\ worker[w].pc = "request" /\ worker'[w].pc = "pop"
  BY RequestStep
<1>2. TAKE J
<1>3. /\ InBuilder(J)' = InBuilder(J)
      /\ Carried(J)' = Carried(J) + (IF Has(worker'[w], {"run", "release"}, J) THEN 1 ELSE 0)
                         - (IF Has(worker[w], {"run", "release"}, J) THEN 1 ELSE 0)
      /\ Left(J)' = Left(J) + (IF Has(worker'[w], {"run"}, J) THEN 1 ELSE 0)
                      - (IF Has(worker[w], {"run"}, J) THEN 1 ELSE 0)
  BY <1>1, CountWorker
<1>4. Carried(J) \in Nat /\ Left(J) \in Nat
  BY CountsType
<1> QED
  BY <1>1, <1>3, <1>4 DEF Has

(* A worker pops a job and takes it, or drops it and leaves the loop. *)
LEMMA CountPopped ==
    ASSUME TypeOK, TypeOK', NEW w \in Workers, TakeJob(w) \/ LeaveLoop(w),
           NEW head, head = Head(Source(w))
    PROVE  \A J :
             /\ InBuilder(J)' = InBuilder(J)
             /\ Carried(J)' = Carried(J)
                  + (IF worker'[w].pc = "run" THEN Ind(head, J) ELSE 0)
                  - (IF worker[w].loop = "queue" THEN Ind(head, J) ELSE 0)
             /\ Left(J)' = Left(J) + (IF worker'[w].pc = "run" THEN Ind(head, J) ELSE 0)
                             - Ind(head, J)
<1>1. /\ Pop(w) /\ Stays(w) /\ builder' = builder
      /\ worker'[w].pc = "run" => worker'[w].job = head
      /\ worker'[w].pc # "release"
  <2>1. CASE TakeJob(w)
    BY <2>1, TakeStep
  <2>2. CASE LeaveLoop(w)
    BY <2>2, LeaveStep, Parts, StagesTwo
  <2> QED
    BY <2>1, <2>2
<1>2. worker[w].pc = "pop"
  BY <1>1, PopStep
<1>3. TAKE J
<1>4. /\ Both(queue, J) \in Nat /\ Both(defer, J) \in Nat /\ InBuilder(J) \in {0, 1}
      /\ \A pcs : With(pcs, J) \in Nat
  BY CountsType
<1>5. InBuilder(J)' = InBuilder(J)
  BY <1>1 DEF InBuilder
<1>6. /\ With({"run", "release"}, J)' = With({"run", "release"}, J)
           + (IF worker'[w].pc = "run" THEN Ind(head, J) ELSE 0)
      /\ With({"run"}, J)' = With({"run"}, J)
           + (IF worker'[w].pc = "run" THEN Ind(head, J) ELSE 0)
  <2>1. \A pcs : With(pcs, J)' = With(pcs, J) + (IF Has(worker'[w], pcs, J) THEN 1 ELSE 0)
                                   - (IF Has(worker[w], pcs, J) THEN 1 ELSE 0)
    BY <1>1, <1>4, WithMoved
  <2> QED
    BY <1>1, <1>2, <1>4, <2>1 DEF Has, Ind
<1>7. /\ Carried(J) = InBuilder(J) + Both(queue, J) + With({"run", "release"}, J)
      /\ Carried(J)' = InBuilder(J)' + Both(queue', J) + With({"run", "release"}, J)'
  BY DEF Carried
<1>8. /\ Left(J) = InBuilder(J) + Both(queue, J) + Both(defer, J) + With({"run"}, J)
      /\ Left(J)' = InBuilder(J)' + Both(queue', J) + Both(defer', J) + With({"run"}, J)'
  BY DEF Left
<1>9. queue \in [Stages -> Seq(Job)] /\ defer \in [Stages -> Seq(Job)]
  BY RecordFields
<1>10. CASE worker[w].loop = "queue"
  <2>1. Taken(queue, queue', worker[w].stage) /\ defer' = defer
        /\ head = Head(queue[worker[w].stage])
    BY <1>1, <1>10, PopStep
  <2>2. Both(queue', J) = Both(queue, J) - Ind(head, J) /\ Both(defer', J) = Both(defer, J)
    <3>1. Both(queue', J) = IF head \in J THEN Both(queue, J) - 1 ELSE Both(queue, J)
      BY <1>9, <2>1, TakenItems
    <3> QED
      BY <1>4, <2>1, <3>1 DEF Ind
  <2> QED
    BY <1>4, <1>5, <1>6, <1>7, <1>8, <1>10, <2>2 DEF Ind
<1>11. CASE worker[w].loop = "defer"
  <2>1. Taken(defer, defer', worker[w].stage) /\ queue' = queue
        /\ head = Head(defer[worker[w].stage])
    BY <1>1, <1>11, PopStep
  <2>2. Both(defer', J) = Both(defer, J) - Ind(head, J) /\ Both(queue', J) = Both(queue, J)
    <3>1. PICK u : u = worker[w].stage
      OBVIOUS
    <3>2. Taken(defer, defer', u) /\ head = Head(defer[u])
      BY <2>1, <3>1
    <3>3. defer \in [Stages -> Seq(Job)]
      BY <1>9
    <3>4. \A P : Both(defer', P) = IF Head(defer[u]) \in P THEN Both(defer, P) - 1
                                                          ELSE Both(defer, P)
      BY <3>2, <3>3, TakenItems
    <3> QED
      BY <1>4, <2>1, <3>2, <3>4 DEF Ind
  <2> QED
    BY <1>4, <1>5, <1>6, <1>7, <1>8, <1>11, <2>2 DEF Ind
<1> QED
  BY <1>10, <1>11, Parts

-----------------------------------------------------------------------------
(* What the counters say of a table: the DETERMINE jobs on their way, Busy, *)
(* and the times that chunk n is still to be dumped.                       *)
Determining(t) == Carried(JobsOf("DETERMINE_CHUNK_TYPE", t))
Undumped(t, n) == Left(Chunk(t, n))

LEMMA JobSets ==
    /\ \A j \in Job : \A t :
         /\ \A k : Ind(j, JobsOf(k, t)) = IF j.type = k /\ j.dbt = t THEN 1 ELSE 0
         /\ \A n : Ind(j, Chunk(t, n)) =
              IF j.type = "DUMP" /\ j.dbt = t /\ j.chunk = n THEN 1 ELSE 0
    /\ \A t : /\ NoJob \notin JobsOf("DETERMINE_CHUNK_TYPE", t)
              /\ NoJob \notin JobsOf("DUMP", t) /\ NoJob \notin JobsOf("DEFER", t)
              /\ \A n : NoJob \notin Chunk(t, n)
<1>1. \A j \in Job : \A t : /\ \A k : j \in JobsOf(k, t) <=> j.type = k /\ j.dbt = t
                            /\ \A n : j \in Chunk(t, n) <=>
                                 j.type = "DUMP" /\ j.dbt = t /\ j.chunk = n
  BY DEF JobsOf, Chunk
<1>2. NoJob \in Job /\ NoJob.type = "SHUTDOWN"
  BY NoJobType
<1> QED
  BY <1>1, <1>2 DEF Ind

LEMMA TableCountsType ==
    ASSUME TypeOK
    PROVE  \A t : /\ Determining(t) \in Nat /\ Busy(t) \in Nat
                  /\ \A n : Undumped(t, n) \in Nat
<1>1. \A J : InBuilder(J) \in Nat /\ Carried(J) \in Nat /\ Left(J) \in Nat
  BY CountsType
<1> QED
  BY <1>1 DEF Determining, Busy, Undumped

CountsAreNumbers ==
    \A J : InBuilder(J) \in Nat /\ Carried(J) \in Nat /\ Left(J) \in Nat

LEMMA CountNumbers == TypeOK => CountsAreNumbers
  BY CountsType DEF CountsAreNumbers

LEMMA CountNumbersNext == TypeOK' => CountsAreNumbers'
  BY CountNumbers, PTL

(* A step of the queues: jobs only move, or are dropped after a signal. *)
Dwindles(J) ==
    /\ InBuilder(J)' = InBuilder(J)
    /\ Carried(J)' <= Carried(J) /\ Left(J)' <= Left(J)
    /\ ~shutdown_triggered' => Carried(J)' = Carried(J) /\ Left(J)' = Left(J)

Quiet(t) ==
    /\ Determining(t)' <= Determining(t) /\ Busy(t)' <= Busy(t)
    /\ \A n : Undumped(t, n)' <= Undumped(t, n)
    /\ ~shutdown_triggered' =>
         /\ Determining(t)' = Determining(t) /\ Busy(t)' = Busy(t)
         /\ \A n : Undumped(t, n)' = Undumped(t, n)

Calm ==
    /\ status' = status /\ kind' = kind /\ running' = running /\ given' = given
    /\ dumped' = dumped /\ options' = options
    /\ \A t \in Tables : /\ Quiet(t)
                         /\ Listed(t)' => Listed(t)
                         /\ ~Listed(t)' => ~Listed(t) \/ given[t] > 0

LEMMA DwindlingQuiet ==
    ASSUME TypeOK, TypeOK', options' = options, kind' = kind,
           \A J : NoJob \notin J => Dwindles(J)
    PROVE  \A t : Quiet(t)
<1> SUFFICES ASSUME NEW t PROVE Quiet(t)
  OBVIOUS
<1>1. /\ Dwindles(JobsOf("DETERMINE_CHUNK_TYPE", t))
      /\ Dwindles(JobsOf("DUMP", t)) /\ Dwindles(JobsOf("DEFER", t))
      /\ \A n : Dwindles(Chunk(t, n))
  BY JobSets
<1>2. Deferring(t)' = Deferring(t)
  BY DEF Deferring, UseDefer
<1>3. \A J : InBuilder(J) \in Nat /\ Carried(J) \in Nat /\ Left(J) \in Nat
  BY CountsType
<1>4. /\ Determining(t)' <= Determining(t)
      /\ ~shutdown_triggered' => Determining(t)' = Determining(t)
  BY <1>1 DEF Dwindles, Determining
<1>5. /\ \A n : Undumped(t, n)' <= Undumped(t, n)
      /\ ~shutdown_triggered' => \A n : Undumped(t, n)' = Undumped(t, n)
  BY <1>1 DEF Dwindles, Undumped
<1>6. Busy(t)' <= Busy(t) /\ (~shutdown_triggered' => Busy(t)' = Busy(t))
  <2>1. CASE Deferring(t)
    <3>1. /\ Busy(t) = InBuilder(JobsOf("DUMP", t)) + Carried(JobsOf("DEFER", t))
          /\ Busy(t)' = InBuilder(JobsOf("DUMP", t))' + Carried(JobsOf("DEFER", t))'
      BY <1>2, <2>1 DEF Busy
    <3>2. /\ InBuilder(JobsOf("DUMP", t))' = InBuilder(JobsOf("DUMP", t))
          /\ InBuilder(JobsOf("DUMP", t)) \in Nat /\ Carried(JobsOf("DEFER", t)) \in Nat
          /\ Carried(JobsOf("DEFER", t))' <= Carried(JobsOf("DEFER", t))
          /\ ~shutdown_triggered' => Carried(JobsOf("DEFER", t))' = Carried(JobsOf("DEFER", t))
      BY <1>1, <1>3 DEF Dwindles
    <3>3. Carried(JobsOf("DEFER", t))' \in Nat
      BY CountNumbersNext DEF CountsAreNumbers
    <3> QED
      BY <3>1, <3>2, <3>3
  <2>2. CASE ~Deferring(t)
    BY <1>1, <1>2, <2>2 DEF Busy, Dwindles
  <2> QED
    BY <2>1, <2>2
<1> QED
  BY <1>4, <1>5, <1>6 DEF Quiet

(* A chunk goes to q->defer and a JOB_DEFER takes its place on q->queue:   *)
(* the table is as busy as before.                                         *)
LEMMA PushQuiet ==
    ASSUME IInv, TypeOK', PushJob
    PROVE  \A t \in Tables : Quiet(t)
<1>0. TypeOK
  BY DEF IInv
<1>1. PICK job \in Job, note \in Job : /\ job = builder.job /\ note = [job EXCEPT !.type = "DEFER"]
                                       /\ note.type = "DEFER" /\ note.dbt = job.dbt
  <2>1. PICK job \in Job : job = builder.job
    BY <1>0, Parts
  <2>2. /\ [job EXCEPT !.type = "DEFER"] \in Job /\ [job EXCEPT !.type = "DEFER"].type = "DEFER"
        /\ [job EXCEPT !.type = "DEFER"].dbt = job.dbt
    BY DEF Job
  <2> QED
    BY <2>1, <2>2
<1>2. \A J : /\ InBuilder(J) = Ind(job, J) /\ InBuilder(J)' = 0
             /\ ~Deferred(job) => Carried(J)' = Carried(J) /\ Left(J)' = Left(J)
             /\ Deferred(job) => /\ Carried(J)' = Carried(J) - Ind(job, J) + Ind(note, J)
                                 /\ Left(J)' = Left(J) + Ind(note, J)
  BY <1>0, <1>1, CountPush
<1>3. TAKE t \in Tables
<1>4. Deferring(t)' = Deferring(t)
  BY <1>0, PushJobStep DEF Deferring, UseDefer
<1>5. \A J : Carried(J) \in Nat /\ Left(J) \in Nat
  BY <1>0, CountsType
<1>6. /\ \A k : Ind(job, JobsOf(k, t)) = IF job.type = k /\ job.dbt = t THEN 1 ELSE 0
      /\ \A k : Ind(note, JobsOf(k, t)) = IF k = "DEFER" /\ job.dbt = t THEN 1 ELSE 0
      /\ \A n : Ind(note, Chunk(t, n)) = 0
  <2>1. note.type = "DEFER" /\ note.dbt = job.dbt
    BY <1>1
  <2>2. /\ \A k : Ind(job, JobsOf(k, t)) = IF job.type = k /\ job.dbt = t THEN 1 ELSE 0
        /\ \A k : Ind(note, JobsOf(k, t)) = IF note.type = k /\ note.dbt = t THEN 1 ELSE 0
        /\ \A n : Ind(note, Chunk(t, n)) =
             IF note.type = "DUMP" /\ note.dbt = t /\ note.chunk = n THEN 1 ELSE 0
    BY JobSets
  <2> QED
    BY <2>1, <2>2
<1>7. job.dbt = t => (Deferred(job) <=> job.type = "DUMP" /\ Deferring(t))
  BY DEF Deferred, Deferring
<1>b. \/ /\ Deferring(t)
         /\ Busy(t) = InBuilder(JobsOf("DUMP", t)) + Carried(JobsOf("DEFER", t))
         /\ Busy(t)' = InBuilder(JobsOf("DUMP", t))' + Carried(JobsOf("DEFER", t))'
      \/ /\ ~Deferring(t)
         /\ Busy(t) = Carried(JobsOf("DUMP", t)) /\ Busy(t)' = Carried(JobsOf("DUMP", t))'
  BY <1>4 DEF Busy
<1>8. CASE Deferred(job)
  <2>0. job.type = "DUMP"
    BY <1>8 DEF Deferred
  <2>1. Determining(t)' = Determining(t)
    BY <1>2, <1>5, <1>6, <1>8, <2>0 DEF Determining
  <2>2. \A n : Undumped(t, n)' = Undumped(t, n)
    BY <1>2, <1>5, <1>6, <1>8 DEF Undumped
  <2>3. /\ InBuilder(JobsOf("DUMP", t))' = 0
        /\ InBuilder(JobsOf("DUMP", t)) = IF job.dbt = t THEN 1 ELSE 0
        /\ Carried(JobsOf("DEFER", t))' =
             Carried(JobsOf("DEFER", t)) + (IF job.dbt = t THEN 1 ELSE 0)
        /\ Carried(JobsOf("DUMP", t))' =
             Carried(JobsOf("DUMP", t)) - (IF job.dbt = t THEN 1 ELSE 0)
    BY <1>2, <1>5, <1>6, <1>8, <2>0
  <2>4. Busy(t)' = Busy(t)
    BY <1>5, <1>7, <1>8, <1>b, <2>3
  <2> QED
    BY <1>0, <2>1, <2>2, <2>4, TableCountsType DEF Quiet
<1>9. CASE ~Deferred(job)
  <2>1. \A J : Carried(J)' = Carried(J) /\ Left(J)' = Left(J)
    BY <1>2, <1>9
  <2>2. Deferring(t) => InBuilder(JobsOf("DUMP", t))' = InBuilder(JobsOf("DUMP", t))
    BY <1>2, <1>6, <1>7, <1>9
  <2>3. Busy(t)' = Busy(t)
    BY <1>b, <2>1, <2>2
  <2>4. Determining(t)' = Determining(t) /\ \A n : Undumped(t, n)' = Undumped(t, n)
    BY <2>1 DEF Determining, Undumped
  <2> QED
    BY <1>0, <2>3, <2>4, TableCountsType DEF Quiet
<1> QED
  BY <1>8, <1>9

(* A worker gets the next job of its queue. *)
LEMMA PoppedJob ==
    ASSUME IInv, NEW w \in Workers, Pop(w)
    PROVE  /\ Head(Source(w)) \in Job
           /\ worker[w].loop = "queue" => Head(Source(w)) \in QueueJobs(worker[w].stage)
           /\ worker[w].loop = "defer" => Head(Source(w)) \in DeferJobs(worker[w].stage)
<1>0. TypeOK /\ QueuesOK
  BY DEF IInv
<1>1. PICK s \in Stages : s = worker[w].stage
  BY <1>0, Parts
<1>2. queue[s] \in Seq(QueueJobs(s)) /\ defer[s] \in Seq(DeferJobs(s))
  BY <1>0 DEF QueuesOK
<1>3. Source(w) # <<>>
  BY DEF Pop
<1>4. worker[w].loop \in {"queue", "defer"}
  BY <1>0, Parts
<1>5. ASSUME worker[w].loop = "queue" PROVE Head(Source(w)) \in QueueJobs(s)
  <2>1. Source(w) = queue[s]
    BY <1>1, <1>5 DEF Source
  <2> QED
    BY <1>2, <1>3, <2>1, SeqSteps
<1>6. ASSUME worker[w].loop = "defer" PROVE Head(Source(w)) \in DeferJobs(s)
  <2>1. Source(w) = defer[s]
    BY <1>1, <1>6 DEF Source
  <2> QED
    BY <1>2, <1>3, <2>1, SeqSteps
<1>7. Head(Source(w)) \in Job
  BY <1>4, <1>5, <1>6 DEF QueueJobs, DeferJobs
<1> QED
  BY <1>1, <1>5, <1>6, <1>7

LEMMA PopQuiet ==
    ASSUME IInv, TypeOK', NEW w \in Workers, TakeJob(w) \/ LeaveLoop(w)
    PROVE  \A t \in Tables : Quiet(t)
<1>0. TypeOK
  BY DEF IInv
<1>1. /\ Pop(w) /\ options' = options /\ kind' = kind
      /\ shutdown_triggered' = shutdown_triggered
      /\ TakeJob(w) => worker'[w].pc = "run"
      /\ LeaveLoop(w) => /\ worker'[w].pc # "run"
                         /\ ~shutdown_triggered => Head(Source(w)).type = "SHUTDOWN"
  <2>1. CASE TakeJob(w)
    <3>1. ~LeaveLoop(w)
      BY <2>1 DEF TakeJob, LeaveLoop
    <3> QED
      BY <1>0, <2>1, <3>1, TakeStep
  <2>2. CASE LeaveLoop(w)
    <3>1. ~TakeJob(w)
      BY <2>2 DEF TakeJob, LeaveLoop
    <3> QED
      BY <1>0, <2>2, <3>1, LeaveStep, Parts, StagesTwo
  <2> QED
    BY <2>1, <2>2
<1>2. PICK head \in Job : head = Head(Source(w))
  BY <1>1, PoppedJob
<1>3. \A J : /\ InBuilder(J)' = InBuilder(J)
             /\ Carried(J)' = Carried(J) + (IF worker'[w].pc = "run" THEN Ind(head, J) ELSE 0)
                                - (IF worker[w].loop = "queue" THEN Ind(head, J) ELSE 0)
             /\ Left(J)' = Left(J) + (IF worker'[w].pc = "run" THEN Ind(head, J) ELSE 0)
                             - Ind(head, J)
  BY <1>0, <1>2, CountPopped
<1>4. \A J : /\ Carried(J) \in Nat /\ Left(J) \in Nat /\ Ind(head, J) \in {0, 1}
  BY <1>0, CountsType DEF Ind
<1>5. CASE LeaveLoop(w)
  <2>1. ~shutdown_triggered => head = NoJob
    <3>1. ~shutdown_triggered => head.type = "SHUTDOWN"
      BY <1>1, <1>2, <1>5
    <3>2. \A s : head \in QueueJobs(s) \/ head \in DeferJobs(s) =>
                   (head.type = "SHUTDOWN" => head = NoJob)
      BY DEF QueueJobs, DeferJobs
    <3>3. head \in QueueJobs(worker[w].stage) \/ head \in DeferJobs(worker[w].stage)
      BY <1>0, <1>1, <1>2, PoppedJob, Parts
    <3> QED
      BY <3>1, <3>2, <3>3
  <2>2. ASSUME NEW J, NoJob \notin J PROVE Dwindles(J)
    <3>1. ~shutdown_triggered' => Ind(head, J) = 0
      BY <1>1, <2>1, <2>2 DEF Ind
    <3>2. /\ InBuilder(J)' = InBuilder(J)
          /\ Carried(J)' = Carried(J) - (IF worker[w].loop = "queue" THEN Ind(head, J) ELSE 0)
          /\ Left(J)' = Left(J) - Ind(head, J)
      BY <1>1, <1>3, <1>4, <1>5
    <3> QED
      BY <1>4, <3>1, <3>2 DEF Dwindles
  <2> QED
    BY <1>0, <1>1, <2>2, DwindlingQuiet
<1>6. CASE TakeJob(w)
  <2>1. \A J : /\ InBuilder(J)' = InBuilder(J) /\ Left(J)' = Left(J)
               /\ Carried(J)' = IF worker[w].loop = "queue" THEN Carried(J)
                                ELSE Carried(J) + Ind(head, J)
    BY <1>1, <1>3, <1>4, <1>6
  <2>2. CASE worker[w].loop = "queue"
    <3>1. \A J : NoJob \notin J => Dwindles(J)
      BY <1>4, <2>1, <2>2 DEF Dwindles
    <3> QED
      BY <1>0, <1>1, <3>1, DwindlingQuiet
  <2>3. CASE worker[w].loop # "queue"
    <3>1. head.type \in {"DUMP", "SHUTDOWN"} /\ (head.type = "DUMP" => Deferring(head.dbt))
      <4>1. head \in DeferJobs(worker[w].stage)
        BY <1>0, <1>1, <1>2, <2>3, PoppedJob, Parts
      <4> QED
        BY <4>1 DEF DeferJobs
    <3>2. TAKE t \in Tables
    <3>3. /\ Ind(head, JobsOf("DETERMINE_CHUNK_TYPE", t)) = 0
          /\ Ind(head, JobsOf("DEFER", t)) = 0
          /\ ~Deferring(t) => Ind(head, JobsOf("DUMP", t)) = 0
      BY <3>1, JobSets
    <3>4. Deferring(t)' = Deferring(t)
      BY <1>1 DEF Deferring, UseDefer
    <3>5. Determining(t)' = Determining(t)
      BY <1>4, <2>1, <2>3, <3>3 DEF Determining
    <3>6. Busy(t)' = Busy(t)
      BY <1>4, <2>1, <2>3, <3>3, <3>4 DEF Busy
    <3>7. \A n : Undumped(t, n)' = Undumped(t, n)
      BY <2>1 DEF Undumped
    <3> QED
      BY <1>0, <3>5, <3>6, <3>7, TableCountsType DEF Quiet
  <2> QED
    BY <2>2, <2>3
<1> QED
  BY <1>5, <1>6

-----------------------------------------------------------------------------
(* The steps that leave the tables alone. *)
LEMMA CalmSteps ==
    ASSUME IInv, TypeOK', [Next]_vars
    PROVE  \/ Calm
           \/ \E t \in Tables : VisitUndefined(t) \/ VisitNone(t) \/ VisitGivesChunk(t)
           \/ \E w \in Workers : \/ DetermineChunkType(w) \/ ProcessChunk(w) \/ ReleaseTable(w)
                                 \/ ProcessDefer(w)
<1>0. TypeOK
  BY DEF IInv
<1>d. \A J : InBuilder(J) \in Nat /\ Carried(J) \in Nat /\ Left(J) \in Nat
  BY <1>0, CountsType
<1>e. ASSUME options' = options, kind' = kind,
             \A J : NoJob \notin J => /\ InBuilder(J)' = InBuilder(J)
                                      /\ Carried(J)' = Carried(J) /\ Left(J)' = Left(J)
      PROVE  \A t : Quiet(t)
  <2>1. \A J : NoJob \notin J => Dwindles(J)
    BY <1>d, <1>e DEF Dwindles
  <2> QED
    BY <1>0, <1>e, <2>1, DwindlingQuiet
<1>f. ASSUME status' = status, kind' = kind, running' = running, given' = given,
             dumped' = dumped, options' = options, table_list' = table_list,
             \A t \in Tables : Quiet(t)
      PROVE  Calm
  BY <1>f DEF Calm, Listed
<1>1. ASSUME TakeRequest \/ StopEnqueuing \/ NextLevel \/ TryAgainLater \/ NoJobDefined
             \/ \E t \in Tables : VisitDefining(t) \/ VisitBusy(t)
      PROVE  Calm
  <2>1. /\ options' = options /\ table_list' = table_list /\ status' = status /\ kind' = kind
        /\ running' = running /\ given' = given /\ dumped' = dumped
        /\ queue' = queue /\ defer' = defer /\ worker' = worker
        /\ builder.pc # "push" /\ builder'.pc # "push"
    <3>1. ASSUME TakeRequest \/ StopEnqueuing \/ NextLevel \/ TryAgainLater \/ NoJobDefined
          PROVE  <2>1!:
      BY <1>0, <3>1, TakeRequestStep, StopEnqueuingStep, NextLevelStep, TryAgainStep,
         NoJobDefinedStep
    <3>2. ASSUME NEW t \in Tables, VisitDefining(t) PROVE <2>1!:
      BY <1>0, <3>2, DefiningStep
    <3>3. ASSUME NEW t \in Tables, VisitBusy(t) PROVE <2>1!:
      BY <1>0, <3>3, BusyStep
    <3> QED
      BY <1>1, <3>1, <3>2, <3>3
  <2>2. \A t : Quiet(t)
    BY <1>0, <1>e, <2>1, CountQuiet
  <2> QED
    BY <1>f, <2>1, <2>2
<1>2. ASSUME NEW t \in Tables, VisitGivesNull(t) PROVE Calm
  <2>1. /\ options' = options /\ status' = status /\ kind' = kind
        /\ running' = running /\ given' = given /\ dumped' = dumped
        /\ queue' = queue /\ defer' = defer /\ worker' = worker
        /\ builder.pc = "walk" /\ builder'.pc = "walk" /\ given[t] > 0
        /\ builder.iter # <<>> /\ t = Head(builder.iter)
        /\ table_list' = [table_list EXCEPT ![builder.stage] = Without(@, t)]
    BY <1>0, <1>2, GivesNullStep
  <2>2. \A u : Quiet(u)
    BY <1>0, <1>e, <2>1, CountQuiet
  <2>3. \A u \in Tables : Listed(u)' <=> Listed(u) /\ u # t
    BY <2>1, TableRemoved
  <2>4. \A u \in Tables : (Listed(u)' => Listed(u)) /\ (~Listed(u)' => ~Listed(u) \/ given[u] > 0)
    BY <2>1, <2>3
  <2> QED
    BY <2>1, <2>2, <2>4 DEF Calm
<1>3. ASSUME PushJob PROVE Calm
  BY <1>0, <1>3, <1>f, PushJobStep, PushQuiet
<1>4. ASSUME EnqueueShutdown PROVE Calm
  <2>1. /\ options' = options /\ table_list' = table_list /\ status' = status /\ kind' = kind
        /\ running' = running /\ given' = given /\ dumped' = dumped
    BY <1>4 DEF EnqueueShutdown
  <2>2. \A t : Quiet(t)
    BY <1>0, <1>4, <1>e, <2>1, CountFilled
  <2> QED
    BY <1>f, <2>1, <2>2
<1>5. ASSUME Shutdown \/ UNCHANGED vars PROVE Calm
  <2>1. /\ options' = options /\ table_list' = table_list /\ status' = status /\ kind' = kind
        /\ running' = running /\ given' = given /\ dumped' = dumped
        /\ queue' = queue /\ defer' = defer /\ worker' = worker /\ builder' = builder
    BY <1>5 DEF Shutdown, vars
  <2>2. \A t : Quiet(t)
    BY <1>e, <2>1, CountSame
  <2> QED
    BY <1>f, <2>1, <2>2
<1>6. ASSUME NEW w \in Workers, RequestChunk(w) PROVE Calm
  <2>1. /\ options' = options /\ table_list' = table_list /\ status' = status /\ kind' = kind
        /\ running' = running /\ given' = given /\ dumped' = dumped
    BY <1>0, <1>6, RequestStep
  <2>2. \A t : Quiet(t)
    BY <1>0, <1>6, <1>e, <2>1, CountRequested
  <2> QED
    BY <1>f, <2>1, <2>2
<1>7. ASSUME NEW w \in Workers, TakeJob(w) \/ LeaveLoop(w) PROVE Calm
  <2>1. /\ options' = options /\ table_list' = table_list /\ status' = status /\ kind' = kind
        /\ running' = running /\ given' = given /\ dumped' = dumped
    BY <1>7 DEF TakeJob, LeaveLoop
  <2>2. \A t \in Tables : Quiet(t)
    BY <1>7, PopQuiet
  <2> QED
    BY <1>f, <2>1, <2>2
<1> QED
  BY <1>1, <1>2, <1>3, <1>4, <1>5, <1>6, <1>7 DEF Next, Builder, Worker, Joined

(* The builder found a job. *)
LEMMA FoundCounts ==
    ASSUME TypeOK, NEW job \in Job, job = builder'.job, job.type # "DEFER",
           queue' = queue, defer' = defer, worker' = worker, options' = options, kind' = kind,
           builder.pc # "push", builder'.pc = "push"
    PROVE  \A t : /\ Determining(t)' = Determining(t) +
                       (IF job.type = "DETERMINE_CHUNK_TYPE" /\ job.dbt = t THEN 1 ELSE 0)
                  /\ Busy(t)' = Busy(t) + (IF job.type = "DUMP" /\ job.dbt = t THEN 1 ELSE 0)
                  /\ \A n : Undumped(t, n)' = Undumped(t, n) +
                       (IF job.type = "DUMP" /\ job.dbt = t /\ job.chunk = n THEN 1 ELSE 0)
<1>1. \A J : /\ InBuilder(J) = 0 /\ InBuilder(J)' = Ind(job, J)
             /\ Carried(J)' = Carried(J) + Ind(job, J) /\ Left(J)' = Left(J) + Ind(job, J)
  BY CountFound
<1>2. \A J : Carried(J) \in Nat /\ Left(J) \in Nat
  BY CountsType
<1>3. TAKE t
<1>4. /\ \A k : Ind(job, JobsOf(k, t)) = IF job.type = k /\ job.dbt = t THEN 1 ELSE 0
      /\ \A n : Ind(job, Chunk(t, n)) =
           IF job.type = "DUMP" /\ job.dbt = t /\ job.chunk = n THEN 1 ELSE 0
  BY JobSets
<1>5. Deferring(t)' = Deferring(t)
  BY DEF Deferring, UseDefer
<1>6. Determining(t)' = Determining(t) +
        (IF job.type = "DETERMINE_CHUNK_TYPE" /\ job.dbt = t THEN 1 ELSE 0)
  BY <1>1, <1>4 DEF Determining
<1>7. \A n : Undumped(t, n)' = Undumped(t, n) +
        (IF job.type = "DUMP" /\ job.dbt = t /\ job.chunk = n THEN 1 ELSE 0)
  BY <1>1, <1>4 DEF Undumped
<1>8. Busy(t)' = Busy(t) + (IF job.type = "DUMP" /\ job.dbt = t THEN 1 ELSE 0)
  <2>1. CASE Deferring(t)
    <3>1. Ind(job, JobsOf("DEFER", t)) = 0
      BY <1>4
    <3>2. /\ Busy(t) = InBuilder(JobsOf("DUMP", t)) + Carried(JobsOf("DEFER", t))
          /\ Busy(t)' = InBuilder(JobsOf("DUMP", t))' + Carried(JobsOf("DEFER", t))'
      BY <1>5, <2>1 DEF Busy
    <3>3. /\ InBuilder(JobsOf("DUMP", t)) = 0
          /\ InBuilder(JobsOf("DUMP", t))' = Ind(job, JobsOf("DUMP", t))
          /\ Carried(JobsOf("DEFER", t))' = Carried(JobsOf("DEFER", t))
      BY <1>1, <1>2, <3>1
    <3> QED
      BY <1>2, <1>4, <3>2, <3>3
  <2>2. CASE ~Deferring(t)
    BY <1>1, <1>4, <1>5, <2>2 DEF Busy
  <2> QED
    BY <2>1, <2>2
<1> QED
  BY <1>6, <1>7, <1>8

(* A worker is done with a chunk or with a JOB_DEFER. *)
LEMMA DoneCounts ==
    ASSUME IInv, TypeOK', NEW w \in Workers, ReleaseTable(w) \/ ProcessDefer(w),
           NEW job \in Job, job = worker[w].job
    PROVE  /\ job.dbt \in Tables /\ status[job.dbt] = "READY"
           /\ job.dbt \in StageTables(worker[w].stage)
           /\ job.type = "DUMP" \/ (job.type = "DEFER" /\ Deferring(job.dbt))
           /\ Deferring(job.dbt) /\ job.type = "DUMP" => worker[w].loop = "defer"
           /\ ~(Deferring(job.dbt) /\ job.type = "DUMP") => Busy(job.dbt) >= 1
           /\ \A t : /\ Determining(t)' = Determining(t)
                     /\ Busy(t)' = Busy(t) -
                          (IF job.dbt = t /\ ~(Deferring(t) /\ job.type = "DUMP") THEN 1 ELSE 0)
                     /\ \A n : Undumped(t, n)' = Undumped(t, n)
<1>0. TypeOK /\ HandsOK
  BY DEF IInv
<1>1. /\ worker[w].pc \in {"run", "release"} /\ options' = options /\ kind' = kind
      /\ worker[w].pc = "run" => job.type = "DEFER"
      /\ worker[w].pc = "release" => job.type = "DUMP"
  <2>1. CASE ReleaseTable(w)
    BY <1>0, <2>1, ReleaseStep DEF HandsOK, WorkerHolds
  <2>2. CASE ProcessDefer(w)
    BY <1>0, <2>2, DeferStep
  <2> QED
    BY <2>1, <2>2
<1>2. PICK s \in Stages : s = worker[w].stage
  BY <1>0, Parts
<1>3. job \in IF worker[w].loop = "queue" THEN QueueJobs(s) ELSE DeferJobs(s)
  BY <1>0, <1>1, <1>2 DEF HandsOK, WorkerHolds
<1>4. /\ job.dbt \in StageTables(s) /\ status[job.dbt] = "READY"
      /\ job.type = "DEFER" => Deferring(job.dbt)
      /\ Deferring(job.dbt) /\ job.type = "DUMP" => worker[w].loop # "queue"
  BY <1>1, <1>3 DEF QueueJobs, DeferJobs
<1>5. job.dbt \in Tables
  BY <1>4, StageTablesType
<1>6. Has(worker[w], {"run", "release"}, JobsOf(job.type, job.dbt))
  BY <1>1 DEF Has, JobsOf
<1>7. \A J : /\ InBuilder(J)' = InBuilder(J)
             /\ Carried(J)' = Carried(J) - Ind(job, J)
             /\ Left(J)' = Left(J) - (IF worker[w].pc = "run" THEN Ind(job, J) ELSE 0)
  BY <1>0, CountDone
<1>8. \A J : /\ InBuilder(J) \in Nat /\ Carried(J) \in Nat /\ Left(J) \in Nat
             /\ Both(queue, J) \in Nat /\ With({"run", "release"}, J) \in Nat
  BY <1>0, CountsType
<1>9. Carried(JobsOf(job.type, job.dbt)) >= 1
  <2>1. With({"run", "release"}, JobsOf(job.type, job.dbt)) >= 1
    BY <1>0, <1>6, HolderCounts
  <2> QED
    BY <1>8, <2>1 DEF Carried
<1>10. ~(Deferring(job.dbt) /\ job.type = "DUMP") => Busy(job.dbt) >= 1
  <2>1. CASE job.type = "DEFER"
    <3>1. Busy(job.dbt) = InBuilder(JobsOf("DUMP", job.dbt)) + Carried(JobsOf("DEFER", job.dbt))
      BY <1>4, <2>1 DEF Busy
    <3>2. Carried(JobsOf("DEFER", job.dbt)) >= 1
      BY <1>9, <2>1
    <3> QED
      BY <1>8, <3>1, <3>2
  <2>2. CASE job.type = "DUMP" /\ ~Deferring(job.dbt)
    BY <1>9, <2>2 DEF Busy
  <2> QED
    BY <1>1, <2>1, <2>2
<1>11. ASSUME NEW t
       PROVE  /\ Determining(t)' = Determining(t)
              /\ Busy(t)' = Busy(t) -
                   (IF job.dbt = t /\ ~(Deferring(t) /\ job.type = "DUMP") THEN 1 ELSE 0)
              /\ \A n : Undumped(t, n)' = Undumped(t, n)
  <2>1. /\ \A k : Ind(job, JobsOf(k, t)) = IF job.type = k /\ job.dbt = t THEN 1 ELSE 0
        /\ \A n : Ind(job, Chunk(t, n)) =
             IF job.type = "DUMP" /\ job.dbt = t /\ job.chunk = n THEN 1 ELSE 0
    BY JobSets
  <2>2. Deferring(t)' = Deferring(t)
    BY <1>1 DEF Deferring, UseDefer
  <2>3. Determining(t)' = Determining(t)
    BY <1>1, <1>7, <1>8, <2>1 DEF Determining
  <2>4. ASSUME NEW n PROVE Undumped(t, n)' = Undumped(t, n)
    <3>1. worker[w].pc = "run" => Ind(job, Chunk(t, n)) = 0
      BY <1>1, <2>1
    <3> QED
      BY <1>7, <1>8, <3>1 DEF Undumped
  <2>5. /\ InBuilder(JobsOf("DUMP", t))' = InBuilder(JobsOf("DUMP", t))
        /\ Carried(JobsOf("DEFER", t))' = Carried(JobsOf("DEFER", t)) -
             (IF job.type = "DEFER" /\ job.dbt = t THEN 1 ELSE 0)
        /\ Carried(JobsOf("DUMP", t))' = Carried(JobsOf("DUMP", t)) -
             (IF job.type = "DUMP" /\ job.dbt = t THEN 1 ELSE 0)
    BY <1>7, <2>1
  <2>6. CASE Deferring(t)
    <3>1. /\ Busy(t) = InBuilder(JobsOf("DUMP", t)) + Carried(JobsOf("DEFER", t))
          /\ Busy(t)' = InBuilder(JobsOf("DUMP", t))' + Carried(JobsOf("DEFER", t))'
      BY <2>2, <2>6 DEF Busy
    <3>2. Busy(t)' = Busy(t) - (IF job.type = "DEFER" /\ job.dbt = t THEN 1 ELSE 0)
      BY <1>8, <2>5, <3>1
    <3> QED
      BY <1>1, <2>3, <2>4, <2>6, <3>2
  <2>7. CASE ~Deferring(t)
    <3>1. Busy(t) = Carried(JobsOf("DUMP", t)) /\ Busy(t)' = Carried(JobsOf("DUMP", t))'
      BY <2>2, <2>7 DEF Busy
    <3>2. Busy(t)' = Busy(t) - (IF job.type = "DUMP" /\ job.dbt = t THEN 1 ELSE 0)
      BY <2>5, <3>1
    <3> QED
      BY <1>1, <1>4, <2>3, <2>4, <2>7, <3>2
  <2> QED
    BY <2>6, <2>7
<1>12. worker[w].loop \in {"queue", "defer"}
  BY <1>0, Parts
<1> QED
  BY <1>1, <1>2, <1>4, <1>5, <1>10, <1>11, <1>12

(* No chunk of a table is on its way before the table is READY. *)
LEMMA NoneCarried ==
    ASSUME TypeOK, NEW J, ~(builder.pc = "push" /\ builder.job \in J),
           \A s \in Stages : \A n \in DOMAIN queue[s] : queue[s][n] \notin J,
           \A w \in Workers : ~Has(worker[w], {"run", "release"}, J)
    PROVE  InBuilder(J) = 0 /\ Carried(J) = 0
<1>1. InBuilder(J) = 0
  BY DEF InBuilder
<1>2. Items(queue[1], J) = 0 /\ Items(queue[2], J) = 0
  <2>1. queue[1] \in Seq(Job) /\ queue[2] \in Seq(Job)
    BY Parts
  <2>2. /\ \A n \in DOMAIN queue[1] : queue[1][n] \notin J
        /\ \A n \in DOMAIN queue[2] : queue[2][n] \notin J
    BY StagesTwo
  <2> QED
    BY <2>1, <2>2, ItemsBound
<1>3. With({"run", "release"}, J) = 0
  <2> DEFINE P == {r \in WorkerRecord : r.pc \in {"run", "release"} /\ r.job \in J}
  <2>1. \A w \in Workers : worker[w] \notin P
    BY DEF Has
  <2>2. Many(Workers, worker, P) = 0
    BY <2>1, ThreadsAssumption, ManyBound
  <2> QED
    BY <2>2 DEF With
<1> QED
  BY <1>1, <1>2, <1>3 DEF Carried, Both

LEMMA IdleTable ==
    ASSUME IInv, NEW t \in Tables, status[t] # "READY"
    PROVE  /\ InBuilder(JobsOf("DUMP", t)) = 0
           /\ Carried(JobsOf("DUMP", t)) = 0 /\ Carried(JobsOf("DEFER", t)) = 0
<1>0. TypeOK /\ QueuesOK /\ HandsOK
  BY DEF IInv
<1> SUFFICES ASSUME NEW k \in {"DUMP", "DEFER"}
             PROVE  InBuilder(JobsOf(k, t)) = 0 /\ Carried(JobsOf(k, t)) = 0
  OBVIOUS
<1>1. \A s : \A j \in QueueJobs(s) \cup DeferJobs(s) : j \notin JobsOf(k, t)
  BY DEF QueueJobs, DeferJobs, JobsOf
<1>2. ~(builder.pc = "push" /\ builder.job \in JobsOf(k, t))
  BY <1>0 DEF HandsOK, BuilderHolds, JobsOf
<1>3. \A s \in Stages : \A n \in DOMAIN queue[s] : queue[s][n] \notin JobsOf(k, t)
  <2>1. TAKE s \in Stages
  <2>2. queue[s] \in Seq(QueueJobs(s))
    BY <1>0 DEF QueuesOK
  <2> QED
    BY <1>1, <2>2
<1>4. \A w \in Workers : ~Has(worker[w], {"run", "release"}, JobsOf(k, t))
  <2>1. TAKE w \in Workers
  <2>2. PICK s \in Stages : s = worker[w].stage
    BY <1>0, Parts
  <2>3. worker[w].pc \in {"run", "release"} =>
          worker[w].job \in QueueJobs(s) \cup DeferJobs(s)
    BY <1>0, <2>2 DEF HandsOK, WorkerHolds
  <2> QED
    BY <1>1, <2>3 DEF Has
<1> QED
  BY <1>0, <1>2, <1>3, <1>4, NoneCarried

LEMMA DetermineCounts ==
    ASSUME IInv, TypeOK', NEW w \in Workers, DetermineChunkType(w),
           NEW job \in Job, job = worker[w].job
    PROVE  /\ job.dbt \in Tables /\ status[job.dbt] = "DEFINING"
           /\ status' = [status EXCEPT ![job.dbt] = "READY"]
           /\ \A t \in Tables \ {job.dbt} : kind'[t] = kind[t]
           /\ Busy(job.dbt)' = 0
           /\ \A t \in Tables :
                /\ Determining(t)' = Determining(t) - (IF job.dbt = t THEN 1 ELSE 0)
                /\ t # job.dbt => Busy(t)' = Busy(t) /\ Deferring(t)' = Deferring(t)
                /\ \A n : Undumped(t, n)' = Undumped(t, n)
<1>0. TypeOK /\ kind \in [Tables -> Kinds]
  BY DEF IInv, TypeOK
<1>1. /\ worker[w].pc = "run" /\ job.type = "DETERMINE_CHUNK_TYPE"
      /\ \E k \in Kinds : kind' = [kind EXCEPT ![job.dbt] = k]
      /\ status' = [status EXCEPT ![job.dbt] = "READY"] /\ options' = options
  BY <1>0, DetermineStep
<1>2. job.dbt \in Tables /\ status[job.dbt] = "DEFINING"
  BY <1>1, DeterminerDefines
<1>3. \A J : /\ InBuilder(J)' = InBuilder(J)
             /\ Carried(J)' = Carried(J) - Ind(job, J)
             /\ Left(J)' = Left(J) - Ind(job, J)
  <2>1. \A J : /\ InBuilder(J)' = InBuilder(J)
               /\ Carried(J)' = Carried(J) - Ind(job, J)
               /\ Left(J)' = Left(J) - (IF worker[w].pc = "run" THEN Ind(job, J) ELSE 0)
    BY <1>0, CountDone
  <2> QED
    BY <1>1, <2>1
<1>4. \A J : InBuilder(J) \in Nat /\ Carried(J) \in Nat /\ Left(J) \in Nat
  BY <1>0, CountsType
<1>5. \A t \in Tables \ {job.dbt} : kind'[t] = kind[t]
  BY <1>0, <1>1
<1>6. \A t : /\ Ind(job, JobsOf("DETERMINE_CHUNK_TYPE", t)) = IF job.dbt = t THEN 1 ELSE 0
             /\ Ind(job, JobsOf("DUMP", t)) = 0 /\ Ind(job, JobsOf("DEFER", t)) = 0
             /\ \A n : Ind(job, Chunk(t, n)) = 0
  BY <1>1, JobSets
<1>7. \A t : /\ Determining(t)' = Determining(t) - (IF job.dbt = t THEN 1 ELSE 0)
             /\ \A n : Undumped(t, n)' = Undumped(t, n)
  BY <1>3, <1>4, <1>6 DEF Determining, Undumped
<1>8. \A t : /\ InBuilder(JobsOf("DUMP", t))' = InBuilder(JobsOf("DUMP", t))
             /\ Carried(JobsOf("DUMP", t))' = Carried(JobsOf("DUMP", t))
             /\ Carried(JobsOf("DEFER", t))' = Carried(JobsOf("DEFER", t))
  BY <1>3, <1>4, <1>6
<1>9. ASSUME NEW t \in Tables, t # job.dbt
      PROVE  Busy(t)' = Busy(t) /\ Deferring(t)' = Deferring(t)
  <2>1. Deferring(t)' = Deferring(t)
    BY <1>1, <1>5, <1>9 DEF Deferring, UseDefer
  <2> QED
    BY <1>8, <2>1 DEF Busy
<1>10. Busy(job.dbt)' = 0
  <2>1. /\ InBuilder(JobsOf("DUMP", job.dbt)) = 0
        /\ Carried(JobsOf("DUMP", job.dbt)) = 0 /\ Carried(JobsOf("DEFER", job.dbt)) = 0
    BY <1>2, IdleTable
  <2>2. /\ InBuilder(JobsOf("DUMP", job.dbt))' = 0
        /\ Carried(JobsOf("DUMP", job.dbt))' = 0 /\ Carried(JobsOf("DEFER", job.dbt))' = 0
    BY <1>8, <2>1
  <2>3. PICK t : t = job.dbt
    OBVIOUS
  <2>4. Busy(t)' = 0
    BY <2>2, <2>3 DEF Busy
  <2> QED
    BY <2>3, <2>4
<1> QED
  BY <1>1, <1>2, <1>5, <1>7, <1>9, <1>10

LEMMA ProcessCounts ==
    ASSUME IInv, TypeOK', NEW w \in Workers, ProcessChunk(w),
           NEW job \in Job, job = worker[w].job
    PROVE  /\ job.type = "DUMP" /\ job.dbt \in Tables /\ status[job.dbt] = "READY"
           /\ \A t : /\ Determining(t)' = Determining(t) /\ Busy(t)' = Busy(t)
                     /\ \A n : Undumped(t, n)' = Undumped(t, n) -
                          (IF job.dbt = t /\ job.chunk = n THEN 1 ELSE 0)
<1>0. TypeOK /\ HandsOK
  BY DEF IInv
<1>1. worker[w].pc = "run" /\ job.type = "DUMP" /\ options' = options /\ kind' = kind
  BY <1>0, ProcessStep
<1>2. PICK s \in Stages : s = worker[w].stage
  BY <1>0, Parts
<1>3. job \in IF worker[w].loop = "queue" THEN QueueJobs(s) ELSE DeferJobs(s)
  BY <1>0, <1>1, <1>2 DEF HandsOK, WorkerHolds
<1>4. job.dbt \in StageTables(s) /\ status[job.dbt] = "READY"
  BY <1>1, <1>3 DEF QueueJobs, DeferJobs
<1>5. job.dbt \in Tables
  BY <1>4, StageTablesType
<1>6. \A J : /\ InBuilder(J)' = InBuilder(J) /\ Carried(J)' = Carried(J)
             /\ Left(J)' = Left(J) - Ind(job, J)
  BY <1>0, CountProcessed
<1>7. \A t, n : Ind(job, Chunk(t, n)) = IF job.dbt = t /\ job.chunk = n THEN 1 ELSE 0
  BY <1>1, JobSets
<1>8. \A t : Deferring(t)' = Deferring(t)
  BY <1>1 DEF Deferring, UseDefer
<1>9. \A t : Determining(t)' = Determining(t) /\ Busy(t)' = Busy(t)
  BY <1>6, <1>8 DEF Determining, Busy
<1>10. \A t, n : Undumped(t, n)' = Undumped(t, n) -
                   (IF job.dbt = t /\ job.chunk = n THEN 1 ELSE 0)
  BY <1>6, <1>7 DEF Undumped
<1> QED
  BY <1>1, <1>4, <1>5, <1>9, <1>10

-----------------------------------------------------------------------------
(* DEFINING says that one JOB_DETERMINE_CHUNK_TYPE is on its way. *)
DefiningAt(t) ==
    /\ Determining(t) <= IF status[t] = "DEFINING" THEN 1 ELSE 0
    /\ ~shutdown_triggered => Determining(t) = IF status[t] = "DEFINING" THEN 1 ELSE 0
    /\ status[t] # "READY" => running[t] = 0 /\ given[t] = 0

LEMMA TableTypes ==
    TypeOK => /\ status \in [Tables -> {"UNDEFINED", "DEFINING", "READY"}]
              /\ kind \in [Tables -> Kinds] /\ running \in [Tables -> 0 .. MaxGuint]
              /\ given \in [Tables -> 0 .. MaxChunks]
              /\ dumped \in [Tables -> [1 .. MaxChunks -> Nat]]
  BY DEF TypeOK

LEMMA DefiningKept == IInv /\ TypeOK' /\ [Next]_vars => DefiningOK'
<1> SUFFICES ASSUME IInv, TypeOK', [Next]_vars PROVE \A t \in Tables : DefiningAt(t)'
  BY DEF DefiningOK, DefiningAt, Determining
<1>0. TypeOK
  BY DEF IInv
<1>1. \A t \in Tables : DefiningAt(t)
  BY DEF IInv, DefiningOK, DefiningAt, Determining
<1>s. shutdown_triggered => shutdown_triggered'
  BY ShutdownStays
<1>n. \A t : Determining(t) \in Nat
  BY <1>0, TableCountsType
<1>a. /\ status \in [Tables -> {"UNDEFINED", "DEFINING", "READY"}]
      /\ running \in [Tables -> 0 .. MaxGuint] /\ given \in [Tables -> 0 .. MaxChunks]
  BY <1>0, TableTypes
<1>2. CASE Calm
  <2>1. TAKE t \in Tables
  <2>2. /\ status'[t] = status[t] /\ running'[t] = running[t] /\ given'[t] = given[t]
        /\ Determining(t)' <= Determining(t)
        /\ ~shutdown_triggered' => Determining(t)' = Determining(t)
    BY <1>2 DEF Calm, Quiet
  <2>3. Determining(t)' \in Nat
    BY CountNumbersNext DEF CountsAreNumbers, Determining
  <2> QED
    BY <1>1, <1>n, <1>s, <2>2, <2>3 DEF DefiningAt
<1>3. ASSUME NEW u \in Tables, VisitUndefined(u) PROVE \A t \in Tables : DefiningAt(t)'
  <2>1. /\ status[u] = "UNDEFINED" /\ status' = [status EXCEPT ![u] = "DEFINING"]
        /\ builder'.job = [type |-> "DETERMINE_CHUNK_TYPE", dbt |-> u, chunk |-> 0]
        /\ queue' = queue /\ defer' = defer /\ worker' = worker /\ options' = options
        /\ kind' = kind /\ running' = running /\ given' = given
        /\ builder.pc # "push" /\ builder'.pc = "push"
    BY <1>0, <1>3, UndefinedStep
  <2>2. PICK job \in Job : /\ job = builder'.job /\ job.type = "DETERMINE_CHUNK_TYPE"
                           /\ job.dbt = u
    BY <2>1 DEF Job
  <2>3. \A t : Determining(t)' = Determining(t) +
          (IF job.type = "DETERMINE_CHUNK_TYPE" /\ job.dbt = t THEN 1 ELSE 0)
    BY <1>0, <2>1, <2>2, FoundCounts
  <2>4. TAKE t \in Tables
  <2>5. Determining(t)' = Determining(t) + (IF u = t THEN 1 ELSE 0)
    BY <2>2, <2>3
  <2>6. /\ status'[t] = IF t = u THEN "DEFINING" ELSE status[t]
        /\ running'[t] = running[t] /\ given'[t] = given[t]
    BY <1>a, <2>1
  <2> QED
    BY <1>1, <1>n, <1>s, <2>1, <2>5, <2>6 DEF DefiningAt
<1>4. ASSUME NEW u \in Tables, VisitNone(u) \/ VisitGivesChunk(u)
      PROVE  \A t \in Tables : DefiningAt(t)'
  <2>1. /\ status[u] = "READY" /\ status' = status
        /\ \A t \in Tables \ {u} : running'[t] = running[t] /\ given'[t] = given[t]
        /\ \E n \in Nat : builder'.job = [type |-> "DUMP", dbt |-> u, chunk |-> n]
        /\ queue' = queue /\ defer' = defer /\ worker' = worker /\ options' = options
        /\ kind' = kind /\ builder.pc # "push" /\ builder'.pc = "push"
    <3>1. CASE VisitNone(u)
      <4>1. /\ builder'.job = [type |-> "DUMP", dbt |-> u, chunk |-> 1]
            /\ running' = running /\ given' = [given EXCEPT ![u] = 1]
            /\ status[u] = "READY" /\ status' = status
            /\ queue' = queue /\ defer' = defer /\ worker' = worker /\ options' = options
            /\ kind' = kind /\ builder.pc # "push" /\ builder'.pc = "push"
        BY <1>0, <3>1, NoneStep
      <4> QED
        BY <1>a, <4>1
    <3>2. CASE VisitGivesChunk(u)
      <4>1. /\ builder'.job = [type |-> "DUMP", dbt |-> u, chunk |-> given[u] + 1]
            /\ running' = [running EXCEPT ![u] = Inc(@)] /\ given' = [given EXCEPT ![u] = @ + 1]
            /\ status[u] = "READY" /\ status' = status
            /\ queue' = queue /\ defer' = defer /\ worker' = worker /\ options' = options
            /\ kind' = kind /\ builder.pc # "push" /\ builder'.pc = "push"
        BY <1>0, <3>2, GivesChunkStep
      <4>2. given[u] + 1 \in Nat
        BY <1>a
      <4> QED
        BY <1>a, <4>1, <4>2
    <3> QED
      BY <1>4, <3>1, <3>2
  <2>2. PICK job \in Job : job = builder'.job /\ job.type = "DUMP"
    BY <2>1 DEF Job
  <2>3. \A t : Determining(t)' = Determining(t) +
          (IF job.type = "DETERMINE_CHUNK_TYPE" /\ job.dbt = t THEN 1 ELSE 0)
    BY <1>0, <2>1, <2>2, FoundCounts
  <2>4. TAKE t \in Tables
  <2>5. Determining(t)' = Determining(t)
    BY <1>n, <2>2, <2>3
  <2> QED
    BY <1>1, <1>n, <1>s, <2>1, <2>5 DEF DefiningAt
<1>5. ASSUME NEW w \in Workers, DetermineChunkType(w) PROVE \A t \in Tables : DefiningAt(t)'
  <2>1. PICK job \in Job : job = worker[w].job
    BY <1>0, Parts
  <2>2. /\ job.dbt \in Tables /\ status[job.dbt] = "DEFINING"
        /\ status' = [status EXCEPT ![job.dbt] = "READY"]
        /\ \A t \in Tables : Determining(t)' = Determining(t) - (IF job.dbt = t THEN 1 ELSE 0)
    BY <1>5, <2>1, DetermineCounts
  <2>3. running' = running /\ given' = given
    BY <1>0, <1>5, DetermineStep
  <2>4. Has(worker[w], {"run", "release"}, JobsOf("DETERMINE_CHUNK_TYPE", job.dbt))
    BY <1>0, <1>5, <2>1, DetermineStep DEF Has, JobsOf
  <2>5. Determining(job.dbt) >= 1
    <3>1. With({"run", "release"}, JobsOf("DETERMINE_CHUNK_TYPE", job.dbt)) >= 1
      BY <1>0, <2>4, HolderCounts
    <3>2. /\ InBuilder(JobsOf("DETERMINE_CHUNK_TYPE", job.dbt)) \in Nat
          /\ Both(queue, JobsOf("DETERMINE_CHUNK_TYPE", job.dbt)) \in Nat
          /\ With({"run", "release"}, JobsOf("DETERMINE_CHUNK_TYPE", job.dbt)) \in Nat
      BY <1>0, CountsType
    <3> QED
      BY <3>1, <3>2 DEF Determining, Carried
  <2>6. TAKE t \in Tables
  <2>7. /\ status'[t] = IF t = job.dbt THEN "READY" ELSE status[t]
        /\ running'[t] = running[t] /\ given'[t] = given[t]
    BY <1>a, <2>2, <2>3
  <2>8. CASE t = job.dbt
    <3>1. Determining(t) <= 1
      BY <1>1, <2>2, <2>8 DEF DefiningAt
    <3>2. Determining(t)' = Determining(t) - 1 /\ Determining(t) >= 1
      BY <2>2, <2>5, <2>8
    <3>3. Determining(t)' = 0
      BY <1>n, <3>1, <3>2
    <3> QED
      BY <2>7, <2>8, <3>3 DEF DefiningAt
  <2>9. CASE t # job.dbt
    <3>1. Determining(t)' = Determining(t)
      BY <1>n, <2>2, <2>9
    <3> QED
      BY <1>1, <1>s, <2>7, <2>9, <3>1 DEF DefiningAt
  <2> QED
    BY <2>8, <2>9
<1>6. ASSUME NEW w \in Workers, ReleaseTable(w) \/ ProcessDefer(w)
      PROVE  \A t \in Tables : DefiningAt(t)'
  <2>1. PICK job \in Job : job = worker[w].job
    BY <1>0, Parts
  <2>2. /\ job.dbt \in Tables /\ status[job.dbt] = "READY"
        /\ \A t : Determining(t)' = Determining(t)
    BY <1>6, <2>1, DoneCounts
  <2>3. running' = [running EXCEPT ![job.dbt] = Dec(@)] /\ given' = given /\ status' = status
    BY <1>0, <1>6, <2>1, ReleaseStep, DeferStep
  <2>4. \A t \in Tables : t # job.dbt => running'[t] = running[t]
    BY <1>a, <2>3
  <2> QED
    BY <1>1, <1>s, <2>2, <2>3, <2>4 DEF DefiningAt
<1>7. ASSUME NEW w \in Workers, ProcessChunk(w) PROVE \A t \in Tables : DefiningAt(t)'
  <2>1. PICK job \in Job : job = worker[w].job
    BY <1>0, Parts
  <2>2. \A t : Determining(t)' = Determining(t)
    BY <1>7, <2>1, ProcessCounts
  <2>3. running' = running /\ given' = given /\ status' = status
    BY <1>0, <1>7, ProcessStep
  <2> QED
    BY <1>1, <1>s, <2>2, <2>3 DEF DefiningAt
<1> QED
  BY <1>2, <1>3, <1>4, <1>5, <1>6, <1>7, CalmSteps

-----------------------------------------------------------------------------
(* current_threads_running counts the threads that a table keeps busy. *)
CounterAt(t) ==
    /\ kind[t] = "NONE" =>
         /\ Busy(t) <= given[t] /\ given[t] <= 1
         /\ Listed(t) => given[t] = 0 /\ running[t] = 0
    /\ kind[t] # "NONE" /\ ~Deferring(t) =>
         /\ Busy(t) <= running[t] /\ running[t] <= MaxThreadsPerTable
         /\ ~shutdown_triggered => Busy(t) = running[t]
    /\ Deferring(t) /\ ~shutdown_triggered /\ Listed(t) =>
         Busy(t) = running[t] /\ running[t] <= MaxThreadsPerTable

(* The builder gives the next chunk of table u out. *)
LEMMA ChunkFound ==
    ASSUME IInv, TypeOK', NEW u \in Tables, VisitNone(u) \/ VisitGivesChunk(u)
    PROVE  /\ given[u] + 1 \in 1 .. MaxChunks /\ Listed(u)
           /\ given' = [given EXCEPT ![u] = given[u] + 1]
           /\ \A t : /\ Busy(t)' = Busy(t) + (IF t = u THEN 1 ELSE 0)
                     /\ \A n : Undumped(t, n)' = Undumped(t, n) +
                          (IF t = u /\ n = given[u] + 1 THEN 1 ELSE 0)
           /\ options' = options /\ kind' = kind /\ dumped' = dumped
           /\ shutdown_triggered' = shutdown_triggered
<1>0. TypeOK /\ \A t \in Tables : CounterAt(t)
  BY DEF IInv, CountersOK, CounterAt
<1>a. given \in [Tables -> 0 .. MaxChunks] /\ MaxChunks \in Nat /\ MaxChunks >= 1
  BY <1>0, TableTypes, ThreadsAssumption
<1>1. /\ given[u] + 1 \in 1 .. MaxChunks /\ Listed(u)
      /\ given' = [given EXCEPT ![u] = given[u] + 1]
      /\ builder'.job = [type |-> "DUMP", dbt |-> u, chunk |-> given[u] + 1]
      /\ queue' = queue /\ defer' = defer /\ worker' = worker /\ options' = options
      /\ kind' = kind /\ builder.pc # "push" /\ builder'.pc = "push" /\ dumped' = dumped
      /\ shutdown_triggered' = shutdown_triggered
  <2>1. CASE VisitNone(u)
    <3>1. /\ builder'.job = [type |-> "DUMP", dbt |-> u, chunk |-> 1]
          /\ given' = [given EXCEPT ![u] = 1] /\ kind[u] = "NONE"
          /\ queue' = queue /\ defer' = defer /\ worker' = worker /\ options' = options
          /\ kind' = kind /\ builder.pc = "walk" /\ builder'.pc = "push" /\ dumped' = dumped
          /\ builder.iter # <<>> /\ u = Head(builder.iter)
          /\ shutdown_triggered' = shutdown_triggered
      BY <1>0, <2>1, NoneStep
    <3>2. Listed(u)
      BY <3>1, AtListed
    <3>3. given[u] = 0
      BY <1>0, <3>1, <3>2 DEF CounterAt
    <3> QED
      BY <1>a, <3>1, <3>2, <3>3
  <2>2. CASE VisitGivesChunk(u)
    <3>1. /\ builder'.job = [type |-> "DUMP", dbt |-> u, chunk |-> given[u] + 1]
          /\ given' = [given EXCEPT ![u] = @ + 1] /\ given[u] < MaxChunks
          /\ queue' = queue /\ defer' = defer /\ worker' = worker /\ options' = options
          /\ kind' = kind /\ builder.pc = "walk" /\ builder'.pc = "push" /\ dumped' = dumped
          /\ builder.iter # <<>> /\ u = Head(builder.iter)
          /\ shutdown_triggered' = shutdown_triggered
      BY <1>0, <2>2, GivesChunkStep
    <3>2. Listed(u)
      BY <3>1, AtListed
    <3> QED
      BY <1>a, <3>1, <3>2
  <2> QED
    BY <2>1, <2>2
<1>2. PICK job \in Job : /\ job = builder'.job /\ job.type = "DUMP"
                         /\ job.dbt = u /\ job.chunk = given[u] + 1
  BY <1>1, <1>a DEF Job
<1>3. \A t : /\ Busy(t)' = Busy(t) + (IF job.type = "DUMP" /\ job.dbt = t THEN 1 ELSE 0)
             /\ \A n : Undumped(t, n)' = Undumped(t, n) +
                  (IF job.type = "DUMP" /\ job.dbt = t /\ job.chunk = n THEN 1 ELSE 0)
  <2>1. /\ TypeOK /\ job = builder'.job /\ job.type # "DEFER"
        /\ queue' = queue /\ defer' = defer /\ worker' = worker /\ options' = options
        /\ kind' = kind /\ builder.pc # "push" /\ builder'.pc = "push"
    BY <1>0, <1>1, <1>2
  <2> QED
    BY <2>1, FoundCounts
<1>4. \A t : /\ Busy(t)' = Busy(t) + (IF t = u THEN 1 ELSE 0)
             /\ \A n : Undumped(t, n)' = Undumped(t, n) +
                  (IF t = u /\ n = given[u] + 1 THEN 1 ELSE 0)
  BY <1>2, <1>3
<1> QED
  BY <1>1, <1>4

LEMMA CounterStep == IInv /\ TypeOK' /\ [Next]_vars => CountersOK'
<1> SUFFICES ASSUME IInv, TypeOK', [Next]_vars, NEW t \in Tables PROVE CounterAt(t)'
  BY DEF CountersOK, CounterAt
<1>0. TypeOK /\ CounterAt(t)
  BY DEF IInv, CountersOK, CounterAt
<1>s. shutdown_triggered => shutdown_triggered'
  BY ShutdownStays
<1>n. Busy(t) \in Nat
  BY <1>0, TableCountsType
<1>a. /\ running \in [Tables -> 0 .. MaxGuint] /\ given \in [Tables -> 0 .. MaxChunks]
      /\ kind \in [Tables -> Kinds]
      /\ MaxThreadsPerTable \in Nat /\ MaxThreadsPerTable >= 1 /\ MaxThreadsPerTable < MaxGuint
      /\ MaxGuint \in Nat
  BY <1>0, TableTypes, Parts, ThreadsAssumption
<1>b. running[t] \in Nat /\ given[t] \in Nat
  BY <1>a
<1>d. Deferring(t) => kind[t] = "INTEGER"
  BY DEF Deferring
<1>o. ASSUME options' = options PROVE MaxThreadsPerTable' = MaxThreadsPerTable
  BY <1>o DEF MaxThreadsPerTable
<1>k. ASSUME options' = options, kind' = kind PROVE Deferring(t)' = Deferring(t)
  BY <1>k DEF Deferring, UseDefer
<1>e. ASSUME options' = options, kind' = kind, running'[t] = running[t], given'[t] = given[t],
             Busy(t)' <= Busy(t), Busy(t)' \in Nat, Listed(t)' => Listed(t),
             ~shutdown_triggered' => Busy(t)' = Busy(t)
      PROVE  CounterAt(t)'
  BY <1>0, <1>b, <1>e, <1>k, <1>n, <1>o, <1>s DEF CounterAt
<1>f. ASSUME table_list' = table_list PROVE Listed(t)' = Listed(t)
  BY <1>f DEF Listed
<1>2. CASE Calm
  <2>1. /\ options' = options /\ kind' = kind /\ running' = running /\ given' = given
        /\ Busy(t)' <= Busy(t) /\ (~shutdown_triggered' => Busy(t)' = Busy(t))
        /\ Listed(t)' => Listed(t)
    BY <1>2 DEF Calm, Quiet
  <2>2. Busy(t)' \in Nat
    BY CountNumbersNext DEF CountsAreNumbers, Busy
  <2> QED
    BY <1>e, <2>1, <2>2
<1>3. ASSUME NEW u \in Tables, VisitUndefined(u) PROVE CounterAt(t)'
  <2>1. /\ builder'.job = [type |-> "DETERMINE_CHUNK_TYPE", dbt |-> u, chunk |-> 0]
        /\ queue' = queue /\ defer' = defer /\ worker' = worker /\ options' = options
        /\ kind' = kind /\ running' = running /\ given' = given /\ table_list' = table_list
        /\ builder.pc # "push" /\ builder'.pc = "push"
    BY <1>0, <1>3, UndefinedStep
  <2>2. PICK job \in Job : job = builder'.job /\ job.type = "DETERMINE_CHUNK_TYPE"
    BY <2>1 DEF Job
  <2>3. Busy(t)' = Busy(t) + (IF job.type = "DUMP" /\ job.dbt = t THEN 1 ELSE 0)
    <3>1. job.type # "DEFER"
      BY <2>2
    <3> QED
      BY <1>0, <2>1, <2>2, <3>1, FoundCounts
  <2>4. Busy(t)' = Busy(t)
    BY <1>n, <2>2, <2>3
  <2> QED
    BY <1>e, <1>f, <1>n, <2>1, <2>4
<1>4. ASSUME NEW u \in Tables, VisitNone(u) PROVE CounterAt(t)'
  <2>1. /\ Listed(u) /\ given' = [given EXCEPT ![u] = given[u] + 1]
        /\ Busy(t)' = Busy(t) + (IF t = u THEN 1 ELSE 0)
    BY <1>4, ChunkFound
  <2>2. /\ options' = options /\ kind' = kind /\ running' = running
        /\ builder.pc = "walk" /\ builder.iter # <<>> /\ u = Head(builder.iter)
        /\ table_list' = [table_list EXCEPT ![builder.stage] = Without(@, u)]
        /\ kind[u] = "NONE"
    BY <1>0, <1>4, NoneStep
  <2>3. Listed(t)' <=> Listed(t) /\ t # u
    BY <2>2, TableRemoved
  <2>4. CASE t = u
    <3>1. given[t] = 0 /\ Busy(t) <= given[t]
      BY <1>0, <2>1, <2>2, <2>4 DEF CounterAt
    <3>2. given'[t] = given[t] + 1 /\ kind'[t] = "NONE"
      BY <1>a, <2>1, <2>2, <2>4
    <3>3. Busy(t)' = Busy(t) + 1
      BY <2>1, <2>4
    <3>4. Busy(t)' <= given'[t] /\ given'[t] <= 1
      BY <1>n, <3>1, <3>2, <3>3
    <3>5. ~Deferring(t)' /\ ~Listed(t)'
      BY <2>3, <2>4, <3>2 DEF Deferring
    <3> QED
      BY <3>2, <3>4, <3>5 DEF CounterAt
  <2>5. CASE t # u
    <3>1. given'[t] = given[t]
      BY <1>a, <2>1, <2>5
    <3>2. Busy(t)' = Busy(t)
      BY <1>n, <2>1, <2>5
    <3> QED
      BY <1>e, <1>n, <2>2, <2>3, <3>1, <3>2
  <2> QED
    BY <2>4, <2>5
<1>5. ASSUME NEW u \in Tables, VisitGivesChunk(u) PROVE CounterAt(t)'
  <2>1. /\ Listed(u) /\ given' = [given EXCEPT ![u] = given[u] + 1]
        /\ Busy(t)' = Busy(t) + (IF t = u THEN 1 ELSE 0)
        /\ shutdown_triggered' = shutdown_triggered
    BY <1>5, ChunkFound
  <2>2. /\ options' = options /\ kind' = kind /\ running' = [running EXCEPT ![u] = Inc(@)]
        /\ table_list' = table_list /\ kind[u] # "NONE" /\ ~LimitReached(u)
    BY <1>0, <1>5, GivesChunkStep
  <2>3. Listed(t)' = Listed(t)
    BY <1>f, <2>2
  <2>4. CASE t = u
    <3>1. running[t] < MaxThreadsPerTable
      BY <1>a, <1>b, <2>2, <2>4 DEF LimitReached
    <3>2. running'[t] = running[t] + 1
      BY <1>a, <1>b, <2>2, <2>4, <3>1 DEF Inc
    <3>3. Busy(t)' = Busy(t) + 1 /\ kind'[t] # "NONE"
      BY <2>1, <2>2, <2>4
    <3>4. CASE Deferring(t)
      <4>1. ~shutdown_triggered => Busy(t) = running[t]
        BY <1>0, <2>1, <2>4, <3>4 DEF CounterAt
      <4>2. ~shutdown_triggered => Busy(t)' = running'[t]
        BY <3>2, <3>3, <4>1
      <4>3. running'[t] <= MaxThreadsPerTable
        BY <1>a, <1>b, <3>1, <3>2
      <4> QED
        BY <1>k, <1>o, <2>1, <2>2, <3>3, <3>4, <4>2, <4>3 DEF CounterAt
    <3>5. CASE ~Deferring(t)
      <4>1. Busy(t) <= running[t] /\ (~shutdown_triggered => Busy(t) = running[t])
        BY <1>0, <2>2, <2>4, <3>5 DEF CounterAt
      <4>2. Busy(t)' <= running'[t] /\ (~shutdown_triggered => Busy(t)' = running'[t])
        BY <1>b, <1>n, <3>2, <3>3, <4>1
      <4>3. running'[t] <= MaxThreadsPerTable
        BY <1>a, <1>b, <3>1, <3>2
      <4> QED
        BY <1>k, <1>o, <2>1, <2>2, <3>3, <3>5, <4>2, <4>3 DEF CounterAt
    <3> QED
      BY <3>4, <3>5
  <2>5. CASE t # u
    <3>1. given'[t] = given[t] /\ running'[t] = running[t]
      BY <1>a, <2>1, <2>2, <2>5
    <3>2. Busy(t)' = Busy(t)
      BY <1>n, <2>1, <2>5
    <3> QED
      BY <1>e, <1>n, <2>2, <2>3, <3>1, <3>2
  <2> QED
    BY <2>4, <2>5
<1>6. ASSUME NEW w \in Workers, DetermineChunkType(w) PROVE CounterAt(t)'
  <2>1. PICK job \in Job : job = worker[w].job
    BY <1>0, Parts
  <2>2. /\ job.dbt \in Tables /\ status[job.dbt] = "DEFINING"
        /\ \A v \in Tables \ {job.dbt} : kind'[v] = kind[v]
        /\ Busy(job.dbt)' = 0
        /\ t # job.dbt => Busy(t)' = Busy(t) /\ Deferring(t)' = Deferring(t)
    BY <1>6, <2>1, DetermineCounts
  <2>3. /\ options' = options /\ running' = running /\ given' = given
        /\ table_list' = table_list
    BY <1>0, <1>6, DetermineStep
  <2>4. CASE t = job.dbt
    <3>1. running[t] = 0 /\ given[t] = 0
      BY <2>2, <2>4 DEF IInv, DefiningOK
    <3>2. Busy(t)' = 0 /\ running'[t] = 0 /\ given'[t] = 0 /\ MaxThreadsPerTable' \in Nat
      BY <1>a, <1>o, <2>2, <2>3, <2>4, <3>1
    <3> QED
      BY <3>2 DEF CounterAt
  <2>5. CASE t # job.dbt
    <3>1. /\ Busy(t)' = Busy(t) /\ Deferring(t)' = Deferring(t) /\ kind'[t] = kind[t]
          /\ running'[t] = running[t] /\ given'[t] = given[t] /\ Listed(t)' = Listed(t)
          /\ MaxThreadsPerTable' = MaxThreadsPerTable
      BY <1>f, <1>o, <2>2, <2>3, <2>5
    <3> QED
      BY <1>0, <1>s, <3>1 DEF CounterAt
  <2> QED
    BY <2>4, <2>5
<1>7. ASSUME NEW w \in Workers, ProcessChunk(w) PROVE CounterAt(t)'
  <2>1. PICK job \in Job : job = worker[w].job
    BY <1>0, Parts
  <2>2. Busy(t)' = Busy(t)
    BY <1>7, <2>1, ProcessCounts
  <2>3. /\ options' = options /\ kind' = kind /\ running' = running /\ given' = given
        /\ table_list' = table_list
    BY <1>0, <1>7, ProcessStep
  <2> QED
    BY <1>e, <1>f, <1>n, <2>2, <2>3
<1>8. ASSUME NEW w \in Workers, ReleaseTable(w) \/ ProcessDefer(w) PROVE CounterAt(t)'
  <2>1. PICK job \in Job : job = worker[w].job
    BY <1>0, Parts
  <2>2. /\ job.dbt \in Tables /\ job.dbt \in StageTables(worker[w].stage)
        /\ job.type = "DUMP" \/ (job.type = "DEFER" /\ Deferring(job.dbt))
        /\ Deferring(job.dbt) /\ job.type = "DUMP" => worker[w].loop = "defer"
        /\ ~(Deferring(job.dbt) /\ job.type = "DUMP") => Busy(job.dbt) >= 1
        /\ Busy(t)' = Busy(t) -
             (IF job.dbt = t /\ ~(Deferring(t) /\ job.type = "DUMP") THEN 1 ELSE 0)
    BY <1>8, <2>1, DoneCounts
  <2>3. /\ options' = options /\ kind' = kind /\ given' = given /\ table_list' = table_list
        /\ running' = [running EXCEPT ![job.dbt] = Dec(@)]
        /\ shutdown_triggered' = shutdown_triggered
    BY <1>0, <1>8, <2>1, ReleaseStep, DeferStep
  <2>c. /\ Deferring(t)' = Deferring(t) /\ Listed(t)' = Listed(t) /\ kind'[t] = kind[t]
        /\ given'[t] = given[t] /\ MaxThreadsPerTable' = MaxThreadsPerTable
    BY <1>f, <1>k, <1>o, <2>3
  <2>4. CASE job.dbt # t
    <3>1. running'[t] = running[t]
      BY <1>a, <2>3, <2>4
    <3>2. Busy(t)' = Busy(t)
      BY <1>n, <2>2, <2>4
    <3> QED
      BY <1>e, <1>n, <2>3, <2>c, <3>1, <3>2
  <2>5. CASE job.dbt = t /\ Deferring(t) /\ job.type = "DUMP"
    <3>1. ASSUME ~shutdown_triggered PROVE ~Listed(t)
      <4>1. PICK s \in Stages : s = worker[w].stage
        BY <1>0, Parts
      <4>2. Past(s) /\ t \in StageTables(s)
        <5>1. Place(w)
          BY <3>1 DEF IInv, PlacesOK
        <5>2. worker[w].loop = "defer"
          BY <2>2, <2>5
        <5> QED
          BY <2>2, <2>5, <4>1, <5>1, <5>2 DEF Place
      <4>3. table_list[s] = <<>> /\ \A v \in Stages : table_list[v] \in Seq(StageTables(v))
        BY <3>1, <4>2 DEF IInv, ListsOK
      <4>4. \A v \in Stages : v # s => t \notin StageTables(v)
        BY <4>2, StageTablesType, StagesTwo
      <4> QED
        BY <4>3, <4>4 DEF Listed
    <3>2. kind[t] # "NONE"
      BY <1>d, <2>5
    <3> QED
      BY <2>3, <2>5, <2>c, <3>1, <3>2 DEF CounterAt
  <2>6. CASE job.dbt = t /\ ~(Deferring(t) /\ job.type = "DUMP")
    <3>1. Busy(t) >= 1 /\ Busy(t)' = Busy(t) - 1
      BY <2>2, <2>6
    <3>2. running[t] >= 1 => running'[t] = running[t] - 1
      BY <1>a, <1>b, <2>2, <2>3, <2>6 DEF Dec
    <3>3. CASE kind[t] = "NONE"
      <4>1. ~Listed(t)
        BY <1>0, <1>b, <1>n, <3>1, <3>3 DEF CounterAt
      <4>2. Busy(t) <= given[t] /\ given[t] <= 1
        BY <1>0, <3>3 DEF CounterAt
      <4>3. Busy(t)' <= given[t]
        BY <1>b, <1>n, <3>1, <4>2
      <4> QED
        BY <1>d, <2>c, <3>3, <4>1, <4>2, <4>3 DEF CounterAt
    <3>4. CASE kind[t] # "NONE" /\ ~Deferring(t)
      <4>1. /\ Busy(t) <= running[t] /\ running[t] <= MaxThreadsPerTable
            /\ ~shutdown_triggered => Busy(t) = running[t]
        BY <1>0, <3>4 DEF CounterAt
      <4>2. running'[t] = running[t] - 1
        BY <1>b, <1>n, <3>1, <3>2, <4>1
      <4>3. /\ Busy(t)' <= running'[t] /\ running'[t] <= MaxThreadsPerTable
            /\ ~shutdown_triggered => Busy(t)' = running'[t]
        BY <1>a, <1>b, <1>n, <3>1, <4>1, <4>2
      <4> QED
        BY <2>3, <2>c, <3>4, <4>3 DEF CounterAt
    <3>5. CASE Deferring(t)
      <4>1. ASSUME ~shutdown_triggered, Listed(t)
            PROVE  Busy(t)' = running'[t] /\ running'[t] <= MaxThreadsPerTable
        <5>1. Busy(t) = running[t] /\ running[t] <= MaxThreadsPerTable
          BY <1>0, <3>5, <4>1 DEF CounterAt
        <5>2. running'[t] = running[t] - 1
          BY <3>1, <3>2, <5>1
        <5> QED
          BY <1>a, <1>b, <3>1, <5>1, <5>2
      <4>2. kind[t] # "NONE"
        BY <1>d, <3>5
      <4> QED
        BY <2>3, <2>c, <3>5, <4>1, <4>2 DEF CounterAt
    <3> QED
      BY <3>3, <3>4, <3>5
  <2> QED
    BY <2>4, <2>5, <2>6
<1> QED
  BY <1>2, <1>3, <1>4, <1>5, <1>6, <1>7, <1>8, CalmSteps

-----------------------------------------------------------------------------
(* A chunk that was given out is dumped once or still on its way. *)
ChunkAt(t) ==
    /\ ~Listed(t) => given[t] > 0
    /\ \A n \in 1 .. MaxChunks :
        /\ dumped[t][n] + Undumped(t, n) <= IF n <= given[t] THEN 1 ELSE 0
        /\ ~shutdown_triggered =>
             dumped[t][n] + Undumped(t, n) = IF n <= given[t] THEN 1 ELSE 0

LEMMA ChunkStep == IInv /\ TypeOK' /\ [Next]_vars => ChunksOK'
<1> SUFFICES ASSUME IInv, TypeOK', [Next]_vars, NEW t \in Tables PROVE ChunkAt(t)'
  BY DEF ChunksOK, ChunkAt, Undumped
<1>0. TypeOK /\ ChunkAt(t)
  BY DEF IInv, ChunksOK, ChunkAt, Undumped
<1>s. shutdown_triggered => shutdown_triggered'
  BY ShutdownStays
<1>n. \A n : Undumped(t, n) \in Nat
  BY <1>0, TableCountsType
<1>m. \A n : Undumped(t, n)' \in Nat
  BY CountNumbersNext DEF CountsAreNumbers, Undumped
<1>a. /\ given \in [Tables -> 0 .. MaxChunks] /\ dumped \in [Tables -> [1 .. MaxChunks -> Nat]]
      /\ MaxChunks \in Nat
  BY <1>0, TableTypes, ThreadsAssumption
<1>b. given[t] \in Nat /\ \A n \in 1 .. MaxChunks : dumped[t][n] \in Nat
  BY <1>a
<1>f. ASSUME table_list' = table_list PROVE Listed(t)' = Listed(t)
  BY <1>f DEF Listed
<1>e. ASSUME given'[t] = given[t], dumped'[t] = dumped[t],
             \A n : Undumped(t, n)' <= Undumped(t, n),
             ~shutdown_triggered' => \A n : Undumped(t, n)' = Undumped(t, n),
             ~Listed(t)' => ~Listed(t) \/ given[t] > 0
      PROVE  ChunkAt(t)'
  <2>1. ~Listed(t)' => given'[t] > 0
    BY <1>0, <1>e DEF ChunkAt
  <2>2. ASSUME NEW n \in 1 .. MaxChunks
        PROVE  /\ dumped'[t][n] + Undumped(t, n)' <= IF n <= given'[t] THEN 1 ELSE 0
               /\ ~shutdown_triggered' =>
                    dumped'[t][n] + Undumped(t, n)' = IF n <= given'[t] THEN 1 ELSE 0
    <3>1. /\ dumped[t][n] + Undumped(t, n) <= IF n <= given[t] THEN 1 ELSE 0
          /\ ~shutdown_triggered =>
               dumped[t][n] + Undumped(t, n) = IF n <= given[t] THEN 1 ELSE 0
      BY <1>0 DEF ChunkAt
    <3>2. /\ Undumped(t, n)' <= Undumped(t, n) /\ Undumped(t, n)' \in Nat
          /\ Undumped(t, n) \in Nat /\ dumped[t][n] \in Nat
          /\ ~shutdown_triggered' => Undumped(t, n)' = Undumped(t, n)
      BY <1>b, <1>e, <1>m, <1>n
    <3> QED
      BY <1>e, <1>s, <3>1, <3>2
  <2> QED
    BY <2>1, <2>2 DEF ChunkAt
<1>2. CASE Calm
  BY <1>2, <1>e DEF Calm, Quiet
<1>3. ASSUME NEW u \in Tables, VisitUndefined(u) PROVE ChunkAt(t)'
  <2>1. /\ builder'.job = [type |-> "DETERMINE_CHUNK_TYPE", dbt |-> u, chunk |-> 0]
        /\ queue' = queue /\ defer' = defer /\ worker' = worker /\ options' = options
        /\ kind' = kind /\ dumped' = dumped /\ given' = given /\ table_list' = table_list
        /\ builder.pc # "push" /\ builder'.pc = "push"
    BY <1>0, <1>3, UndefinedStep
  <2>2. PICK job \in Job : job = builder'.job /\ job.type = "DETERMINE_CHUNK_TYPE"
    BY <2>1 DEF Job
  <2>3. \A n : Undumped(t, n)' = Undumped(t, n) +
          (IF job.type = "DUMP" /\ job.dbt = t /\ job.chunk = n THEN 1 ELSE 0)
    <3>1. job.type # "DEFER"
      BY <2>2
    <3> QED
      BY <1>0, <2>1, <2>2, <3>1, FoundCounts
  <2>4. \A n : Undumped(t, n)' = Undumped(t, n)
    BY <1>n, <2>2, <2>3
  <2> QED
    BY <1>e, <1>f, <1>n, <2>1, <2>4
<1>4. ASSUME NEW u \in Tables, VisitNone(u) \/ VisitGivesChunk(u) PROVE ChunkAt(t)'
  <2>1. /\ given[u] + 1 \in 1 .. MaxChunks /\ given' = [given EXCEPT ![u] = given[u] + 1]
        /\ \A n : Undumped(t, n)' = Undumped(t, n) +
             (IF t = u /\ n = given[u] + 1 THEN 1 ELSE 0)
        /\ dumped' = dumped /\ shutdown_triggered' = shutdown_triggered
    BY <1>4, ChunkFound, ZenonT(30)
  <2>2. t # u => Listed(t)' = Listed(t)
    <3>1. CASE VisitNone(u)
      <4>1. /\ builder.pc = "walk" /\ builder.iter # <<>> /\ u = Head(builder.iter)
            /\ table_list' = [table_list EXCEPT ![builder.stage] = Without(@, u)]
        BY <1>0, <3>1, NoneStep
      <4>2. Listed(t)' <=> Listed(t) /\ t # u
        BY <4>1, TableRemoved
      <4>3. Listed(t) \in BOOLEAN /\ Listed(t)' \in BOOLEAN
        BY DEF Listed
      <4> QED
        BY <4>2, <4>3
    <3>2. CASE VisitGivesChunk(u)
      <4>1. table_list' = table_list
        BY <1>0, <3>2, GivesChunkStep
      <4> QED
        BY <1>f, <4>1
    <3> QED
      BY <1>4, <3>1, <3>2
  <2>3. CASE t # u
    <3>1. given'[t] = given[t]
      BY <1>a, <2>1, <2>3
    <3>2. \A n : Undumped(t, n)' = Undumped(t, n)
      BY <1>n, <2>1, <2>3
    <3> QED
      BY <1>e, <1>n, <2>1, <2>2, <2>3, <3>1, <3>2
  <2>4. CASE t = u
    <3>1. given'[t] = given[t] + 1
      BY <1>a, <2>1, <2>4
    <3>2. ~Listed(t)' => given'[t] > 0
      BY <1>b, <3>1
    <3>3. ASSUME NEW n \in 1 .. MaxChunks
          PROVE  /\ dumped'[t][n] + Undumped(t, n)' <= IF n <= given'[t] THEN 1 ELSE 0
                 /\ ~shutdown_triggered' =>
                      dumped'[t][n] + Undumped(t, n)' = IF n <= given'[t] THEN 1 ELSE 0
      <4>1. /\ dumped[t][n] + Undumped(t, n) <= IF n <= given[t] THEN 1 ELSE 0
            /\ ~shutdown_triggered =>
                 dumped[t][n] + Undumped(t, n) = IF n <= given[t] THEN 1 ELSE 0
        BY <1>0 DEF ChunkAt
      <4>2. /\ Undumped(t, n)' = Undumped(t, n) + (IF n = given[t] + 1 THEN 1 ELSE 0)
            /\ Undumped(t, n) \in Nat /\ dumped[t][n] \in Nat
            /\ dumped'[t][n] = dumped[t][n] /\ shutdown_triggered' = shutdown_triggered
        BY <1>b, <1>n, <2>1, <2>4
      <4> QED
        BY <1>b, <3>1, <4>1, <4>2
    <3> QED
      BY <3>2, <3>3 DEF ChunkAt
  <2> QED
    BY <2>3, <2>4
<1>5. ASSUME NEW w \in Workers, DetermineChunkType(w) PROVE ChunkAt(t)'
  <2>1. PICK job \in Job : job = worker[w].job
    BY <1>0, Parts
  <2>2. \A n : Undumped(t, n)' = Undumped(t, n)
    BY <1>5, <2>1, DetermineCounts
  <2>3. dumped' = dumped /\ given' = given /\ table_list' = table_list
    BY <1>0, <1>5, DetermineStep
  <2> QED
    BY <1>e, <1>f, <1>n, <2>2, <2>3
<1>6. ASSUME NEW w \in Workers, ReleaseTable(w) \/ ProcessDefer(w) PROVE ChunkAt(t)'
  <2>1. PICK job \in Job : job = worker[w].job
    BY <1>0, Parts
  <2>2. \A n : Undumped(t, n)' = Undumped(t, n)
    BY <1>6, <2>1, DoneCounts
  <2>3. dumped' = dumped /\ given' = given /\ table_list' = table_list
    BY <1>0, <1>6, ReleaseStep, DeferStep
  <2> QED
    BY <1>e, <1>f, <1>n, <2>2, <2>3
<1>7. ASSUME NEW w \in Workers, ProcessChunk(w) PROVE ChunkAt(t)'
  <2>1. PICK job \in Job : job = worker[w].job
    BY <1>0, Parts
  <2>2. /\ job.type = "DUMP" /\ job.dbt \in Tables
        /\ \A n : Undumped(t, n)' = Undumped(t, n) -
             (IF job.dbt = t /\ job.chunk = n THEN 1 ELSE 0)
    BY <1>7, <2>1, ProcessCounts
  <2>3. /\ given' = given /\ table_list' = table_list
        /\ shutdown_triggered' = shutdown_triggered
        /\ \/ dumped' = [dumped EXCEPT ![job.dbt][job.chunk] = @ + 1]
           \/ shutdown_triggered /\ dumped' = dumped
    BY <1>0, <1>7, <2>1, ProcessStep
  <2>4. \A n : Undumped(t, n)' <= Undumped(t, n)
    BY <1>n, <2>2
  <2>5. CASE shutdown_triggered /\ dumped' = dumped
    BY <1>e, <1>f, <2>3, <2>4, <2>5
  <2>6. CASE dumped' = [dumped EXCEPT ![job.dbt][job.chunk] = @ + 1]
    <3>1. \A n \in 1 .. MaxChunks : dumped'[t][n] =
            dumped[t][n] + (IF job.dbt = t /\ job.chunk = n THEN 1 ELSE 0)
      BY <1>a, <1>b, <2>2, <2>6
    <3>2. \A n \in 1 .. MaxChunks :
            dumped'[t][n] + Undumped(t, n)' = dumped[t][n] + Undumped(t, n)
      BY <1>b, <1>n, <2>2, <3>1
    <3>3. ~Listed(t)' => given'[t] > 0
      BY <1>0, <1>f, <2>3 DEF ChunkAt
    <3> QED
      BY <1>0, <2>3, <3>2, <3>3 DEF ChunkAt
  <2> QED
    BY <2>3, <2>5, <2>6
<1> QED
  BY <1>2, <1>3, <1>4, <1>5, <1>6, <1>7, CalmSteps

-----------------------------------------------------------------------------
(* The invariant holds at the start. *)
LEMMA InitOK == Init => IInv
<1> SUFFICES ASSUME Init PROVE IInv
  OBVIOUS
<1>0. TypeOK
  BY TypeInit
<1>1. /\ builder.pc = "wait" /\ builder.stage = 1 /\ ~shutdown_triggered
      /\ queue = [s \in Stages |-> <<>>] /\ defer = [s \in Stages |-> <<>>]
      /\ request = [s \in Stages |-> 0]
      /\ \A w \in Workers : /\ worker[w].pc = "request" /\ worker[w].stage = 1
                            /\ worker[w].loop = "queue"
  BY DEF Init
<1>2. \A s \in Stages : queue[s] = <<>> /\ defer[s] = <<>> /\ request[s] = 0
  BY <1>1
<1>3. \A t \in Tables : /\ status[t] = "UNDEFINED" /\ kind[t] = "NONE" /\ running[t] = 0
                        /\ given[t] = 0 /\ \A n \in 1 .. MaxChunks : dumped[t][n] = 0
  BY DEF Init
<1>4. /\ \A s \in Stages : table_list[s] \in Seq(StageTables(s)) /\ Distinct(table_list[s])
      /\ \A t \in Tables : Listed(t)
  <2>1. PICK a \in Orderings(NonTransactional), b \in Orderings(Transactional) :
            table_list = [s \in Stages |-> IF s = 1 THEN a ELSE b]
    BY DEF Init
  <2>2. IsFiniteSet(NonTransactional) /\ IsFiniteSet(Transactional)
    BY TablesAssumption, FS_Subset DEF Tables
  <2>3. /\ a \in Seq(NonTransactional) /\ Distinct(a) /\ \A t \in NonTransactional : Member(t, a)
        /\ b \in Seq(Transactional) /\ Distinct(b) /\ \A t \in Transactional : Member(t, b)
    BY <2>2, OrderingLists
  <2>4. table_list[1] = a /\ table_list[2] = b
    BY <2>1, StagesTwo
  <2>5. \A t \in Tables : Listed(t)
    BY <2>3, <2>4, StagesTwo DEF Listed, Member, Tables
  <2> QED
    BY <2>3, <2>4, <2>5, StagesTwo DEF StageTables
<1>5. \A J : InBuilder(J) = 0 /\ Carried(J) = 0 /\ Left(J) = 0
  <2>1. TAKE J
  <2>2. /\ Items(queue[1], J) = 0 /\ Items(queue[2], J) = 0
        /\ Items(defer[1], J) = 0 /\ Items(defer[2], J) = 0
    BY <1>2, ItemsEmpty, StagesTwo
  <2>3. InBuilder(J) = 0
    BY <1>1 DEF InBuilder
  <2>4. With({"run", "release"}, J) = 0
    <3> DEFINE P == {r \in WorkerRecord : r.pc \in {"run", "release"} /\ r.job \in J}
    <3>1. \A w \in Workers : worker[w] \notin P
      BY <1>1
    <3> QED
      BY <3>1, ThreadsAssumption, ManyBound DEF With
  <2>5. With({"run"}, J) = 0
    <3> DEFINE P == {r \in WorkerRecord : r.pc \in {"run"} /\ r.job \in J}
    <3>1. \A w \in Workers : worker[w] \notin P
      BY <1>1
    <3> QED
      BY <3>1, ThreadsAssumption, ManyBound DEF With
  <2> QED
    BY <2>2, <2>3, <2>4, <2>5 DEF Carried, Left, Both
<1>6. QueuesOK
  <2>1. \A T : <<>> \in Seq(T)
    OBVIOUS
  <2> QED
    BY <1>2, <2>1 DEF QueuesOK
<1>7. HandsOK
  BY <1>1 DEF HandsOK, BuilderHolds, WorkerHolds
<1>8. OrderOK
  BY <1>1, <1>2, StagesTwo DEF OrderOK, Closed, Open
<1>9. PlacesOK
  BY <1>1, <1>2, StagesTwo DEF PlacesOK, Place
<1>10. ListsOK
  <2>1. \A s \in Stages : ~Past(s) /\ ~(builder.stage = s /\ builder.pc = "finish")
    BY <1>1, StagesTwo DEF Past
  <2> QED
    BY <1>1, <1>4, <2>1 DEF ListsOK, WalkOK
<1>11. AnswersOK
  <2>1. \A s \in Stages : ~Past(s) /\ Len(queue[s]) = 0
    BY <1>1, <1>2, StagesTwo DEF Past
  <2>2. \A s \in Stages : Many(Workers, worker, Asking(s)) = 0
    <3>1. TAKE s \in Stages
    <3>2. \A w \in Workers : worker[w] \notin Asking(s)
      BY <1>1 DEF Asking
    <3> QED
      BY <3>2, ThreadsAssumption, ManyBound
  <2> QED
    BY <1>1, <1>2, <2>1, <2>2 DEF AnswersOK
<1>12. DefiningOK
  BY <1>3, <1>5 DEF DefiningOK
<1>13. CountersOK
  BY <1>3, <1>5 DEF CountersOK, Busy, Deferring
<1>14. ChunksOK
  BY <1>3, <1>4, <1>5 DEF ChunksOK
<1> QED
  BY <1>0, <1>6, <1>7, <1>8, <1>9, <1>10, <1>11, <1>12, <1>13, <1>14 DEF IInv

LEMMA NextOK == IInv /\ [Next]_vars => IInv'
<1> SUFFICES ASSUME IInv, [Next]_vars PROVE IInv'
  OBVIOUS
<1>1. TypeOK'
  BY TypeStep DEF IInv
<1>2. QueuesOK' /\ OrderOK' /\ PlacesOK' /\ ListsOK' /\ AnswersOK'
  BY <1>1, QueuesStep, OrderStep, PlacesStep, ListsStep, AnswersStep
<1>3. HandsOK'
  BY <1>1, BuilderHoldsStep, WorkerHoldsStep DEF HandsOK
<1>4. DefiningOK' /\ CountersOK' /\ ChunksOK'
  BY <1>1, DefiningKept, CounterStep, ChunkStep
<1> QED
  BY <1>1, <1>2, <1>3, <1>4 DEF IInv

LEMMA Inductive == Spec => []IInv
  BY InitOK, NextOK, PTL DEF Spec

-----------------------------------------------------------------------------
(* Every variable keeps its type: current_threads_running stays a guint,   *)
(* the walk's level stays below --max-threads-per-table and the queues     *)
(* hold nothing but jobs.                                                  *)
THEOREM ChunkBuilderTypeCorrect == Spec => []TypeOK
<1>1. IInv => TypeOK
  BY DEF IInv
<1> QED
  BY <1>1, Inductive, PTL

(* The second loop of process_queue starts on q->defer only when every     *)
(* other job of the stage was taken: a worker gets there only through a    *)
(* JOB_SHUTDOWN, and nothing but JOB_SHUTDOWN follows one on q->queue.     *)
THEOREM DeferredChunksLast == Spec => []DeferredLast
<1>1. IInv => DeferredLast
  <2> SUFFICES ASSUME IInv, NEW w \in Workers, worker[w].loop = "defer", ~shutdown_triggered
               PROVE  \A n \in DOMAIN queue[worker[w].stage] :
                        queue[worker[w].stage][n].type = "SHUTDOWN"
    BY DEF DeferredLast
  <2>1. PICK s \in Stages : s = worker[w].stage
    BY Parts DEF IInv
  <2>2. Drained(queue[s])
    BY <2>1 DEF IInv, PlacesOK, Place
  <2> QED
    BY <2>1, <2>2 DEF Drained
<1> QED
  BY <1>1, Inductive, PTL

-----------------------------------------------------------------------------
(* The counts of the properties are the counts of the invariant. *)
LEMMA SameCounts ==
    ASSUME TypeOK, NEW k, NEW t
    PROVE  /\ InHand(k, t) = InBuilder(JobsOf(k, t))
           /\ \A s \in Stages : /\ Jobs(queue[s], k, t) = Items(queue[s], JobsOf(k, t))
                                /\ Jobs(queue[s], k, t) \in Nat
           /\ Cardinality(Holders(k, t)) = With({"run", "release"}, JobsOf(k, t))
           /\ Cardinality(Holders(k, t)) \in Nat
           /\ Carried(JobsOf(k, t)) = InHand(k, t) + Jobs(queue[1], k, t) + Jobs(queue[2], k, t)
                                        + Cardinality(Holders(k, t))
<1>1. \A j \in Job : j \in JobsOf(k, t) <=> j.type = k /\ j.dbt = t
  BY DEF JobsOf
<1>2. InHand(k, t) = InBuilder(JobsOf(k, t))
  BY <1>1, Parts DEF InHand, InBuilder
<1>3. ASSUME NEW s \in Stages
      PROVE  /\ Jobs(queue[s], k, t) = Items(queue[s], JobsOf(k, t))
             /\ Jobs(queue[s], k, t) \in Nat
  <2>1. queue[s] \in Seq(Job)
    BY RecordFields
  <2>2. \A n \in DOMAIN queue[s] : queue[s][n] \in Job
    BY <2>1
  <2>3. {n \in DOMAIN queue[s] : queue[s][n].type = k /\ queue[s][n].dbt = t}
          = {n \in DOMAIN queue[s] : queue[s][n] \in JobsOf(k, t)}
    BY <1>1, <2>2
  <2>4. Items(queue[s], JobsOf(k, t)) \in Nat
    BY <2>1, ItemsBound
  <2> QED
    BY <2>3, <2>4 DEF Jobs, Items
<1>4. /\ Cardinality(Holders(k, t)) = With({"run", "release"}, JobsOf(k, t))
      /\ Cardinality(Holders(k, t)) \in Nat
  <2> DEFINE P == {r \in WorkerRecord : r.pc \in {"run", "release"} /\ r.job \in JobsOf(k, t)}
  <2>1. Holders(k, t) = {w \in Workers : worker[w] \in P}
    BY <1>1, RecordFields, Parts DEF Holders
  <2>2. With({"run", "release"}, JobsOf(k, t)) \in Nat
    BY CountsType
  <2> QED
    BY <2>1, <2>2 DEF With, Many
<1>5. /\ Carried(JobsOf(k, t)) = InBuilder(JobsOf(k, t)) + Both(queue, JobsOf(k, t))
                                   + With({"run", "release"}, JobsOf(k, t))
      /\ Both(queue, JobsOf(k, t)) = Items(queue[1], JobsOf(k, t)) + Items(queue[2], JobsOf(k, t))
      /\ InBuilder(JobsOf(k, t)) \in Nat
  BY CountsType DEF Carried, Both
<1>6. /\ Jobs(queue[1], k, t) = Items(queue[1], JobsOf(k, t)) /\ Jobs(queue[1], k, t) \in Nat
      /\ Jobs(queue[2], k, t) = Items(queue[2], JobsOf(k, t)) /\ Jobs(queue[2], k, t) \in Nat
  BY <1>3, StagesTwo
<1>7. Carried(JobsOf(k, t)) = InHand(k, t) + Jobs(queue[1], k, t) + Jobs(queue[2], k, t)
                                + Cardinality(Holders(k, t))
  BY <1>2, <1>4, <1>5, <1>6
<1> QED
  BY <1>2, <1>3, <1>4, <1>7

(* No JOB_DEFER is in the builder's hand: table_job_enqueue makes it.      *)
LEMMA NoDeferInHand ==
    ASSUME IInv, NEW t
    PROVE  InHand("DEFER", t) = 0
  BY DEF IInv, HandsOK, BuilderHolds, InHand

(* What get_next_dbt_and_chunk_step_item reads is right: the counter       *)
(* current_threads_running of a table on the list is the number of threads *)
(* its chunks keep busy, a table in state DEFINING has exactly one         *)
(* JOB_DETERMINE_CHUNK_TYPE on its way, and without --use-defer no more    *)
(* than --max-threads-per-table workers ever dump one table.               *)
THEOREM CountersHonest == Spec => []CounterHonest
<1>1. IInv => CounterHonest
  <2> SUFFICES ASSUME IInv PROVE CounterHonest
    OBVIOUS
  <2>0. TypeOK /\ \A t \in Tables : DefiningAt(t) /\ CounterAt(t)
    BY DEF IInv, DefiningOK, DefiningAt, Determining, CountersOK, CounterAt
  <2>1. ASSUME NEW t \in Tables, ~shutdown_triggered
        PROVE  (IF status[t] = "DEFINING" THEN 1 ELSE 0)
                 = InHand("DETERMINE_CHUNK_TYPE", t)
                   + Jobs(queue[1], "DETERMINE_CHUNK_TYPE", t)
                   + Jobs(queue[2], "DETERMINE_CHUNK_TYPE", t)
                   + Cardinality(Holders("DETERMINE_CHUNK_TYPE", t))
    <3>1. Determining(t) = IF status[t] = "DEFINING" THEN 1 ELSE 0
      BY <2>0, <2>1 DEF DefiningAt
    <3>2. Determining(t) = InHand("DETERMINE_CHUNK_TYPE", t)
            + Jobs(queue[1], "DETERMINE_CHUNK_TYPE", t)
            + Jobs(queue[2], "DETERMINE_CHUNK_TYPE", t)
            + Cardinality(Holders("DETERMINE_CHUNK_TYPE", t))
      BY <2>0, SameCounts DEF Determining
    <3> QED
      BY <3>1, <3>2
  <2>2. ASSUME NEW t \in Tables PROVE Busy(t) = Outstanding(t)
    <3>1. /\ Carried(JobsOf("DUMP", t)) = InHand("DUMP", t) + Jobs(queue[1], "DUMP", t)
                + Jobs(queue[2], "DUMP", t) + Cardinality(Holders("DUMP", t))
          /\ InHand("DUMP", t) = InBuilder(JobsOf("DUMP", t))
      BY <2>0, SameCounts
    <3>2. Carried(JobsOf("DEFER", t)) = InHand("DEFER", t) + Jobs(queue[1], "DEFER", t)
                + Jobs(queue[2], "DEFER", t) + Cardinality(Holders("DEFER", t))
      BY <2>0, SameCounts
    <3>3. InHand("DEFER", t) = 0 /\ InHand("DUMP", t) \in Nat
      BY NoDeferInHand DEF InHand
    <3>4. /\ Jobs(queue[1], "DUMP", t) \in Nat /\ Jobs(queue[2], "DUMP", t) \in Nat
          /\ Jobs(queue[1], "DEFER", t) \in Nat /\ Jobs(queue[2], "DEFER", t) \in Nat
          /\ Cardinality(Holders("DUMP", t)) \in Nat /\ Cardinality(Holders("DEFER", t)) \in Nat
      BY <2>0, SameCounts, StagesTwo
    <3>5. CASE Deferring(t)
      <4>1. Busy(t) = InBuilder(JobsOf("DUMP", t)) + Carried(JobsOf("DEFER", t))
        BY <3>5 DEF Busy
      <4>2. Outstanding(t) = InHand("DUMP", t) + (Jobs(queue[1], "DEFER", t)
              + Jobs(queue[2], "DEFER", t) + Cardinality(Holders("DEFER", t)))
        BY <3>5 DEF Outstanding, Deferring
      <4> QED
        BY <3>1, <3>2, <3>3, <3>4, <4>1, <4>2
    <3>6. CASE ~Deferring(t)
      <4>1. Busy(t) = Carried(JobsOf("DUMP", t))
        BY <3>6 DEF Busy
      <4>2. Outstanding(t) = InHand("DUMP", t) + (Jobs(queue[1], "DUMP", t)
              + Jobs(queue[2], "DUMP", t) + Cardinality(Holders("DUMP", t)))
        BY <3>6 DEF Outstanding, Deferring
      <4> QED
        BY <3>1, <3>3, <3>4, <4>1, <4>2
    <3> QED
      BY <3>5, <3>6
  <2>a. /\ MaxThreadsPerTable \in Nat /\ MaxThreadsPerTable >= 1
        /\ \A t \in Tables : running[t] \in Nat /\ given[t] \in Nat /\ Busy(t) \in Nat
    BY <2>0, Parts, TableTypes, TableCountsType, ThreadsAssumption
  <2>3. ASSUME NEW t \in Tables, ~shutdown_triggered, Listed(t)
        PROVE  running[t] = Outstanding(t) /\ running[t] <= MaxThreadsPerTable
    <3>0. Busy(t) = Outstanding(t)
      BY <2>2
    <3>1. CASE kind[t] = "NONE"
      <4>1. Busy(t) <= given[t] /\ given[t] = 0 /\ running[t] = 0
        BY <2>0, <2>3, <3>1 DEF CounterAt
      <4>2. Busy(t) = 0
        BY <2>a, <4>1
      <4> QED
        BY <2>a, <3>0, <4>1, <4>2
    <3>2. CASE kind[t] # "NONE"
      <4>1. Busy(t) = running[t] /\ running[t] <= MaxThreadsPerTable
        BY <2>0, <2>3, <3>2 DEF CounterAt
      <4> QED
        BY <3>0, <4>1
    <3> QED
      BY <3>1, <3>2
  <2>4. ASSUME ~UseDefer, NEW t \in Tables
        PROVE  Cardinality(Holders("DUMP", t)) <= MaxThreadsPerTable
    <3>0. ~Deferring(t)
      BY <2>4 DEF Deferring
    <3>1. Busy(t) = InHand("DUMP", t) + Jobs(queue[1], "DUMP", t)
            + Jobs(queue[2], "DUMP", t) + Cardinality(Holders("DUMP", t))
      BY <2>0, <3>0, SameCounts DEF Busy
    <3>2. /\ InHand("DUMP", t) \in Nat /\ Jobs(queue[1], "DUMP", t) \in Nat
          /\ Jobs(queue[2], "DUMP", t) \in Nat /\ Cardinality(Holders("DUMP", t)) \in Nat
      BY <2>0, SameCounts, StagesTwo DEF InHand
    <3>3. Busy(t) <= MaxThreadsPerTable
      <4>1. CASE kind[t] = "NONE"
        <5>1. Busy(t) <= given[t] /\ given[t] <= 1
          BY <2>0, <4>1 DEF CounterAt
        <5> QED
          BY <2>a, <5>1
      <4>2. CASE kind[t] # "NONE"
        <5>1. Busy(t) <= running[t] /\ running[t] <= MaxThreadsPerTable
          BY <2>0, <3>0, <4>2 DEF CounterAt
        <5> QED
          BY <2>a, <5>1
      <4> QED
        BY <4>1, <4>2
    <3> QED
      BY <2>a, <3>1, <3>2, <3>3
  <2> QED
    BY <2>1, <2>3, <2>4 DEF CounterHonest
<1> QED
  BY <1>1, Inductive, PTL

(* Where current_threads_running may wrap below zero.  thd_JOB_DUMP lowers *)
(* it without a look at how it was raised: a table dumped in one piece     *)
(* never raised it, and a deferred chunk lowers it at JOB_DEFER and again  *)
(* when it is dumped.  The counter of all other tables stays within        *)
(* --max-threads-per-table, with a signal too; and as long as the builder  *)
(* still finds a table on its list, and decides by that number, the        *)
(* counter has not wrapped.                                                *)
WrapsUnseen ==
    \A t \in Tables : running[t] > MaxThreadsPerTable =>
        /\ kind[t] = "NONE" \/ Deferring(t)
        /\ ~Listed(t) \/ (Deferring(t) /\ shutdown_triggered)

THEOREM CounterWrapsUnseen == Spec => []WrapsUnseen
<1>1. IInv => WrapsUnseen
  <2> SUFFICES ASSUME IInv, NEW t \in Tables, running[t] > MaxThreadsPerTable
               PROVE  /\ kind[t] = "NONE" \/ Deferring(t)
                      /\ ~Listed(t) \/ (Deferring(t) /\ shutdown_triggered)
    BY DEF WrapsUnseen
  <2>1. TypeOK /\ CounterAt(t)
    BY DEF IInv, CountersOK, CounterAt
  <2>2. MaxThreadsPerTable \in Nat /\ running[t] \in Nat
    BY <2>1, Parts, TableTypes, ThreadsAssumption
  <2>3. CASE kind[t] = "NONE"
    <3>1. ~Listed(t)
      BY <2>1, <2>2, <2>3 DEF CounterAt
    <3> QED
      BY <2>3, <3>1
  <2>4. CASE kind[t] # "NONE"
    <3>1. Deferring(t)
      BY <2>1, <2>2, <2>4 DEF CounterAt
    <3>2. shutdown_triggered \/ ~Listed(t)
      BY <2>1, <2>2, <2>4, <3>1 DEF CounterAt
    <3> QED
      BY <3>1, <3>2
  <2> QED
    BY <2>3, <2>4
<1> QED
  BY <1>1, Inductive, PTL

(* thd_JOB_DUMP runs for no chunk twice, and when the threads are joined   *)
(* every table has left its list and each of its chunks was dumped,        *)
(* whichever of q->queue and q->defer the chunk took.                      *)
THEOREM ChunksDumpedOnce == Spec => []EveryChunkDumped
<1>1. IInv => EveryChunkDumped
  <2> SUFFICES ASSUME IInv PROVE EveryChunkDumped
    OBVIOUS
  <2>0. TypeOK /\ \A t \in Tables : ChunkAt(t)
    BY DEF IInv, ChunksOK, ChunkAt, Undumped
  <2>a. /\ MaxChunks \in Nat
        /\ \A t \in Tables : /\ given[t] \in 0 .. MaxChunks
                             /\ \A n \in 1 .. MaxChunks : dumped[t][n] \in Nat
        /\ \A t, n : Undumped(t, n) \in Nat
    BY <2>0, TableTypes, TableCountsType, ThreadsAssumption
  <2>1. ASSUME NEW t \in Tables, NEW n \in 1 .. MaxChunks PROVE dumped[t][n] <= 1
    <3>1. dumped[t][n] + Undumped(t, n) <= IF n <= given[t] THEN 1 ELSE 0
      BY <2>0 DEF ChunkAt
    <3>2. dumped[t][n] \in Nat /\ Undumped(t, n) \in Nat
      BY <2>a
    <3> QED
      BY <3>1, <3>2
  <2>2. ASSUME AllEnded, ~shutdown_triggered
        PROVE  \A t \in Tables : /\ ~Listed(t) /\ given[t] > 0
                                 /\ \A n \in 1 .. given[t] : dumped[t][n] = 1
    <3>1. \A s \in Stages : Past(s) /\ table_list[s] = <<>>
      BY <2>2 DEF AllEnded, Past, IInv, ListsOK
    <3>2. \A t \in Tables : ~Listed(t)
      BY <3>1 DEF Listed
    <3>3. PICK w \in Workers : worker[w].pc = "end" /\ Place(w)
      BY <2>2, ThreadsAssumption DEF AllEnded, IInv, PlacesOK
    <3>4. \A s \in Stages : Drained(queue[s]) /\ Drained(defer[s])
      BY <3>3, StagesTwo DEF Place
    <3>5. ASSUME NEW t \in Tables, NEW n PROVE Undumped(t, n) = 0
      <4>1. \A s \in Stages : /\ \A m \in DOMAIN queue[s] : queue[s][m] \notin Chunk(t, n)
                              /\ \A m \in DOMAIN defer[s] : defer[s][m] \notin Chunk(t, n)
        BY <3>4 DEF Drained, Chunk
      <4>2. \A s \in Stages : queue[s] \in Seq(Job) /\ defer[s] \in Seq(Job)
        BY <2>0, RecordFields
      <4>3. \A s \in Stages : Items(queue[s], Chunk(t, n)) = 0 /\ Items(defer[s], Chunk(t, n)) = 0
        BY <4>1, <4>2, ItemsBound
      <4>4. InBuilder(Chunk(t, n)) = 0
        BY <2>2 DEF AllEnded, InBuilder
      <4>5. With({"run"}, Chunk(t, n)) = 0
        <5> DEFINE P == {r \in WorkerRecord : r.pc \in {"run"} /\ r.job \in Chunk(t, n)}
        <5>1. \A v \in Workers : worker[v] \notin P
          BY <2>2 DEF AllEnded
        <5> QED
          BY <5>1, ThreadsAssumption, ManyBound DEF With
      <4> QED
        BY <4>3, <4>4, <4>5, StagesTwo DEF Undumped, Left, Both
    <3>6. TAKE t \in Tables
    <3>7. given[t] > 0
      BY <2>0, <3>2 DEF ChunkAt
    <3>8. \A n \in 1 .. given[t] : dumped[t][n] = 1
      <4>1. TAKE n \in 1 .. given[t]
      <4>2. n \in 1 .. MaxChunks /\ n <= given[t]
        BY <2>a
      <4>3. dumped[t][n] + Undumped(t, n) = 1
        BY <2>0, <2>2, <4>2 DEF ChunkAt
      <4> QED
        BY <2>a, <3>5, <4>2, <4>3
    <3> QED
      BY <3>2, <3>7, <3>8
  <2> QED
    BY <2>1, <2>2 DEF EveryChunkDumped
<1> QED
  BY <1>1, Inductive, PTL

(* The workers that will still come to the first loop of stage s. *)
LEMMA BeforeCounts ==
    ASSUME TypeOK
    PROVE  /\ \A s \in Stages : Asks(s) = Cardinality({w \in Waiting(s) : worker[w].pc = "pop"})
           /\ Befores(1) = Cardinality(Waiting(1))
           /\ Befores(2) = Cardinality(Waiting(2))
                             + Cardinality({w \in Workers : worker[w].stage = 1})
<1>1. \A w \in Workers : worker[w] \in WorkerRecord /\ worker[w].stage \in Stages
  BY RecordFields
<1>2. ASSUME NEW s \in Stages
      PROVE  Asks(s) = Cardinality({w \in Waiting(s) : worker[w].pc = "pop"})
  <2>1. {w \in Workers : worker[w] \in Asking(s)} = {w \in Waiting(s) : worker[w].pc = "pop"}
    BY <1>1 DEF Asking, Waiting
  <2> QED
    BY <2>1 DEF Asks, Many
<1>3. Befores(1) = Cardinality(Waiting(1))
  <2>1. {w \in Workers : worker[w] \in Before(1)} = Waiting(1)
    BY <1>1, StagesTwo DEF Before, Waiting
  <2> QED
    BY <2>1 DEF Befores, Many
<1>4. Befores(2) = Cardinality(Waiting(2)) + Cardinality({w \in Workers : worker[w].stage = 1})
  <2> DEFINE S == Waiting(2)
             T == {w \in Workers : worker[w].stage = 1}
  <2>1. {w \in Workers : worker[w] \in Before(2)} = S \cup T
    BY <1>1, StagesTwo DEF Before, Waiting
  <2>2. S \cap T = {}
    BY DEF Waiting
  <2>3. IsFiniteSet(S) /\ IsFiniteSet(T)
    BY ThreadsAssumption, FS_Subset DEF Waiting
  <2>4. Cardinality(S \cap T) = 0
    BY <2>2, FS_EmptySet
  <2>5. Cardinality(S) \in Nat /\ Cardinality(T) \in Nat
    BY <2>3, FS_CardinalityType
  <2>6. Cardinality(S \cup T) = Cardinality(S) + Cardinality(T) - Cardinality(S \cap T)
    BY <2>3, FS_Union
  <2>7. Befores(2) = Cardinality(S \cup T)
    BY <2>1 DEF Befores, Many
  <2> HIDE DEF S, T
  <2>8. Befores(2) = Cardinality(S) + Cardinality(T)
    BY <2>4, <2>5, <2>6, <2>7
  <2> QED
    BY <2>8 DEF S, T
<1> QED
  BY <1>2, <1>3, <1>4

(* A token on q->request_chunk is answered by one job on q->queue: every   *)
(* worker that waits in process_queue has exactly one token or job on its  *)
(* way, and after enqueue_shutdown there is one JOB_SHUTDOWN for each      *)
(* worker that is still to leave the loop.  So the builder and the workers *)
(* never wait for each other, and no worker is left without its            *)
(* JOB_SHUTDOWN.                                                           *)
THEOREM RequestsAnswered == Spec => []OneAnswerPerRequest
<1>1. IInv => OneAnswerPerRequest
  <2> SUFFICES ASSUME IInv, ~shutdown_triggered, NEW s \in Stages
               PROVE  IF builder.stage = s /\ builder.pc # "done"
                      THEN request[s] + Len(queue[s]) + (IF builder.pc = "wait" THEN 0 ELSE 1)
                             = Cardinality({w \in Waiting(s) : worker[w].pc = "pop"})
                      ELSE builder.stage < s
                           \/ Jobs(queue[s], "SHUTDOWN", NoTable) = Cardinality(Waiting(s))
                                + (IF s = 2 THEN Cardinality({w \in Workers : worker[w].stage = 1})
                                            ELSE 0)
    BY DEF OneAnswerPerRequest
  <2>0. TypeOK /\ builder.stage \in Stages
    BY Parts DEF IInv
  <2>1. /\ builder.stage = s /\ builder.pc # "done" =>
             request[s] + Len(queue[s]) + (IF builder.pc = "wait" THEN 0 ELSE 1) = Asks(s)
        /\ Past(s) => Items(queue[s], ShutdownJobs) = Befores(s)
    BY DEF IInv, AnswersOK, Asks, Befores
  <2>2. CASE builder.stage = s /\ builder.pc # "done"
    <3>1. Asks(s) = Cardinality({w \in Waiting(s) : worker[w].pc = "pop"})
      BY <2>0, BeforeCounts
    <3> QED
      BY <2>1, <2>2, <3>1
  <2>3. CASE ~(builder.stage = s /\ builder.pc # "done") /\ ~(builder.stage < s)
    <3>1. Past(s)
      BY <2>0, <2>3, StagesTwo DEF Past
    <3>2. Jobs(queue[s], "SHUTDOWN", NoTable) = Items(queue[s], ShutdownJobs)
      <4>1. queue[s] \in Seq(QueueJobs(s))
        BY DEF IInv, QueuesOK
      <4>2. \A n \in DOMAIN queue[s] :
              queue[s][n].type = "SHUTDOWN" /\ queue[s][n].dbt = NoTable <=> queue[s][n] = NoJob
        BY <4>1, NoJobType DEF QueueJobs
      <4>3. {n \in DOMAIN queue[s] : queue[s][n].type = "SHUTDOWN" /\ queue[s][n].dbt = NoTable}
              = {n \in DOMAIN queue[s] : queue[s][n] \in ShutdownJobs}
        BY <4>2 DEF ShutdownJobs
      <4> QED
        BY <4>3 DEF Jobs, Items
    <3>3. Befores(s) = Cardinality(Waiting(s))
            + (IF s = 2 THEN Cardinality({w \in Workers : worker[w].stage = 1}) ELSE 0)
      <4>1. CASE s = 1
        <5>1. Cardinality(Waiting(1)) \in Nat
          BY ThreadsAssumption, FS_Subset, FS_CardinalityType DEF Waiting
        <5> QED
          BY <2>0, <4>1, <5>1, BeforeCounts
      <4>2. CASE s = 2
        BY <2>0, <4>2, BeforeCounts
      <4> QED
        BY <4>1, <4>2, StagesTwo
    <3> QED
      BY <2>1, <2>3, <3>1, <3>2, <3>3
  <2> QED
    BY <2>2, <2>3
<1> QED
  BY <1>1, Inductive, PTL
=============================================================================
