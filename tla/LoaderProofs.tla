----------------------------- MODULE LoaderProofs -----------------------------
(***************************************************************************)
(* Proofs about Loader for any dump, any options and any number of threads *)
(* of each kind, by the invariant of LoaderInvariant.  CountInv holds in   *)
(* every run; the layers above it hold in every run in which no schema     *)
(* file is read twice (ReadOnce), and RowsStay fails otherwise.  Nothing   *)
(* in the code keeps the four file type workers it starts from reading one *)
(* twice; a single one never does (OneReaderReadsOnce).                    *)
(***************************************************************************)
EXTENDS LoaderInvariant

(* TableOrder names every table once. *)
LEMMA OrderInjective ==
    /\ Len(TableOrder) \in Nat /\ IsFiniteSet(Tables)
    /\ \A i \in 1 .. Len(TableOrder) : TableOrder[i] \in Tables
    /\ \A i, j \in 1 .. Len(TableOrder) : TableOrder[i] = TableOrder[j] => i = j
    /\ \A t \in Tables : \E i \in 1 .. Len(TableOrder) : TableOrder[i] = t
<1> DEFINE L == Len(TableOrder)
<1>1. /\ TableOrder \in Seq(Tables) /\ L = Cardinality(Tables)
      /\ {TableOrder[i] : i \in 1 .. L} = Tables
  BY LoaderAssumption
<1>2. L \in Nat /\ TableOrder \in [1 .. L -> Tables]
  BY <1>1
<1>3. \A t \in Tables : \E i \in 1 .. L : TableOrder[i] = t
  BY <1>1
<1>4. TableOrder \in Surjection(1 .. L, Tables)
  <2> HIDE DEF L
  <2> QED
    BY <1>2, <1>3 DEF Surjection
<1>5. IsFiniteSet(1 .. L) /\ Cardinality(1 .. L) = L
  <2>1. 1 \in Int /\ L \in Int /\ (IF 1 > L THEN 0 ELSE L - 1 + 1) = L
    BY <1>2
  <2> HIDE DEF L
  <2> QED
    BY <2>1, FS_Interval
<1>6. IsFiniteSet(Tables) /\ TableOrder \in Injection(1 .. L, Tables)
  <2> HIDE DEF L
  <2> QED
    BY <1>1, <1>4, <1>5, FS_Surjection
<1>7. \A i, j \in 1 .. L : TableOrder[i] = TableOrder[j] => i = j
  BY <1>6 DEF Injection, IsInjective
<1> QED
  BY <1>2, <1>3, <1>6, <1>7

(* One item behind a queue *)
LEMMA ItemsPush ==
    ASSUME NEW T, NEW q \in Seq(T), NEW x \in T
    PROVE  \A P : Items(Append(q, x), P) = IF x \in P THEN Items(q, P) + 1 ELSE Items(q, P)
BY ItemsAppend, ZenonT(30)

(* What InOrder gives: the tables it is asked for, each of them once. *)
LEMMA InOrderOK ==
    ASSUME NEW S \in SUBSET Tables
    PROVE  /\ InOrder(S) \in Seq(S)
           /\ \A t : Items(InOrder(S), {t}) = IF t \in S THEN 1 ELSE 0
<1> DEFINE L == Len(TableOrder)
           step == [n \in 1 .. L |-> [q \in Seq(S) |->
                       IF TableOrder[n] \in S THEN Append(q, TableOrder[n]) ELSE q]]
           list[n \in 0 .. L] ==
               IF n = 0 THEN <<>>
               ELSE IF TableOrder[n] \in S THEN Append(list[n - 1], TableOrder[n]) ELSE list[n - 1]
<1>0. L \in Nat
  BY OrderInjective
<1>1. InOrder(S) = list[L]
  BY DEF InOrder
<1> HIDE DEF L, list
<1>2. step \in [1 .. L -> [Seq(S) -> Seq(S)]] /\ <<>> \in Seq(S)
  OBVIOUS
<1>3. PICK f \in [0 .. L -> Seq(S)] :
          f[0] = <<>> /\ \A n \in 1 .. L : f[n] = step[n][f[n - 1]]
  <2> DEFINE X == Seq(S)
             e == <<>>
  <2>1. step \in [1 .. L -> [X -> X]] /\ e \in X
    BY <1>2
  <2> HIDE DEF step, X, e
  <2>2. \E f : Iterates(f, X, e, L, step)
    BY <1>0, <2>1, Iteration
  <2> QED
    BY <2>2 DEF X, e, Iterates
<1>4. ASSUME NEW n \in 0 .. L
      PROVE  f[n] = IF n = 0 THEN <<>>
                    ELSE IF TableOrder[n] \in S THEN Append(f[n - 1], TableOrder[n])
                    ELSE f[n - 1]
  <2>1. CASE n = 0
    BY <1>3, <2>1
  <2>2. CASE n # 0
    <3>1. n \in 1 .. L /\ n - 1 \in 0 .. L
      BY <1>0, <2>2
    <3>2. f[n] = step[n][f[n - 1]] /\ f[n - 1] \in Seq(S)
      BY <1>3, <3>1
    <3> QED
      BY <2>2, <3>1, <3>2
  <2> QED
    BY <2>1, <2>2
<1>5. f = [n \in 0 .. L |-> IF n = 0 THEN <<>>
                            ELSE IF TableOrder[n] \in S THEN Append(f[n - 1], TableOrder[n])
                            ELSE f[n - 1]]
  BY <1>4
<1>6. list = [n \in 0 .. L |-> IF n = 0 THEN <<>>
                               ELSE IF TableOrder[n] \in S THEN Append(list[n - 1], TableOrder[n])
                               ELSE list[n - 1]]
  BY <1>5, Zenon DEF list
<1> HIDE DEF step
<1> DEFINE In(m, t) == t \in S /\ \E i \in 1 .. m : TableOrder[i] = t
           N == {m \in 0 .. L : /\ list[m] \in Seq(S)
                                /\ \A t : Items(list[m], {t}) = IF In(m, t) THEN 1 ELSE 0}
<1>7. 0 \in N
  <2>1. list[0] = <<>> /\ <<>> \in Seq(S)
    BY <1>0, <1>6
  <2>2. \A t : Items(<<>>, {t}) = 0
    BY ItemsEmpty
  <2>3. \A t : ~In(0, t)
    OBVIOUS
  <2>4. 0 \in 0 .. L
    BY <1>0
  <2> HIDE DEF In
  <2>5. \A t : Items(list[0], {t}) = IF In(0, t) THEN 1 ELSE 0
    BY <2>1, <2>2, <2>3
  <2>6. list[0] \in Seq(S)
    BY <2>1
  <2> QED
    BY <2>4, <2>5, <2>6, Zenon
<1>8. ASSUME NEW m \in 0 .. L - 1, m \in N PROVE m + 1 \in N
  <2> DEFINE x == TableOrder[m + 1]
             q == list[m]
  <2>0. m \in Nat /\ m + 1 \in 0 .. L /\ m + 1 # 0 /\ (m + 1) - 1 = m /\ m + 1 \in 1 .. L
    BY <1>0
  <2>1. q \in Seq(S) /\ \A t : Items(q, {t}) = IF In(m, t) THEN 1 ELSE 0
    BY <1>8
  <2>2. list[m + 1] = IF x \in S THEN Append(q, x) ELSE q
    BY <1>6, <2>0
  <2>3. \A t : In(m + 1, t) <=> In(m, t) \/ (t \in S /\ t = x)
    <3>1. \A i \in 1 .. m + 1 : i \in 1 .. m \/ i = m + 1
      BY <2>0
    <3>2. \A i \in 1 .. m : i \in 1 .. m + 1
      BY <2>0
    <3>3. m + 1 \in 1 .. m + 1
      BY <2>0
    <3> QED
      BY <3>1, <3>2, <3>3
  <2>4. ~In(m, x)
    <3>1. ASSUME NEW i \in 1 .. m, TableOrder[i] = x PROVE FALSE
      <4>1. i \in 1 .. L /\ i # m + 1
        BY <1>0, <2>0
      <4> QED
        BY <2>0, <3>1, <4>1, OrderInjective DEF L
    <3> QED
      BY <3>1
  <2> HIDE DEF In, x, q
  <2>5. CASE x \in S
    <3>1. Append(q, x) \in Seq(S)
      BY <2>1, <2>5
    <3>2. \A P : Items(Append(q, x), P) = IF x \in P THEN Items(q, P) + 1 ELSE Items(q, P)
      BY <2>1, <2>5, ItemsPush
    <3>3. ASSUME NEW t PROVE Items(Append(q, x), {t}) = IF In(m + 1, t) THEN 1 ELSE 0
      <4>0. /\ Items(Append(q, x), {t}) = IF t = x THEN Items(q, {t}) + 1 ELSE Items(q, {t})
            /\ Items(q, {t}) = IF In(m, t) THEN 1 ELSE 0
        <5>1. x \in {t} <=> t = x
          OBVIOUS
        <5> QED
          BY <2>1, <3>2, <5>1
      <4>1. CASE t = x
        <5>1. ~In(m, t) /\ In(m + 1, t)
          BY <2>3, <2>4, <2>5, <4>1
        <5> QED
          BY <4>0, <4>1, <5>1
      <4>2. CASE t # x
        <5>1. In(m, t) <=> In(m + 1, t)
          BY <2>3, <4>2
        <5> QED
          BY <4>0, <4>2, <5>1
      <4> QED
        BY <4>1, <4>2
    <3>4. list[m + 1] = Append(q, x)
      BY <2>2, <2>5
    <3> QED
      BY <2>0, <3>1, <3>3, <3>4
  <2>6. CASE x \notin S
    <3>1. \A t : In(m + 1, t) <=> In(m, t)
      BY <2>3, <2>6
    <3>2. list[m + 1] = q
      BY <2>2, <2>6
    <3> QED
      BY <2>0, <2>1, <3>1, <3>2
  <2> QED
    BY <2>5, <2>6
<1>9. L \in N
  <2>1. \A m \in 0 .. L : m \in N
    <3> HIDE DEF N
    <3> QED
      BY <1>0, <1>7, <1>8, SetInduction
  <2> HIDE DEF N
  <2> QED
    BY <1>0, <2>1
<1>10. \A t : In(L, t) <=> t \in S
  BY OrderInjective DEF L
<1> HIDE DEF In
<1> QED
  BY <1>1, <1>9, <1>10

-----------------------------------------------------------------------------
(* What each kind of thread leaves alone. *)

LEMMA FileFrame ==
    ASSUME NEW w \in FileWorkers, FileStep(w)
    PROVE  /\ options' = options /\ files_ended' = files_ended /\ retry_queue' = retry_queue
           /\ schema_worker' = schema_worker /\ threads_waiting' = threads_waiting
           /\ all_jobs_are_enqueued' = all_jobs_are_enqueued /\ dispatcher' = dispatcher
           /\ data_job_queue' = data_job_queue /\ loader' = loader
           /\ index_queue' = index_queue /\ index_worker' = index_worker
           /\ main' = main /\ server' = server /\ exited' = exited
           /\ single_threaded_create_table' = single_threaded_create_table
<1> USE DEF tableVars, schemaVars, dispatchVars, loaderVars, indexVars, serverVars
<1>1. CASE process_database_filename(w)
  BY <1>1 DEF process_database_filename
<1>2. CASE process_schema_sequence_filename(w)
  BY <1>2 DEF process_schema_sequence_filename
<1>3. CASE append_new_db_table(w)
  BY <1>3 DEF append_new_db_table
<1>4. CASE CheckParsed(w)
  BY <1>4 DEF CheckParsed
<1>5. CASE parse_create_table_from_file(w)
  BY <1>5 DEF parse_create_table_from_file
<1>6. CASE process_data_filename(w)
  BY <1>6 DEF process_data_filename
<1>7. CASE WakeAfterFile(w)
  BY <1>7 DEF WakeAfterFile
<1>8. CASE FileWorkerEnds(w)
  BY <1>8 DEF FileWorkerEnds
<1> QED
  BY <1>1, <1>2, <1>3, <1>4, <1>5, <1>6, <1>7, <1>8 DEF FileStep

LEMMA FilesEndFrame ==
    ASSUME wait_file_type_to_complete
    PROVE  /\ options' = options /\ files' = files /\ file_worker' = file_worker
           /\ database' = database /\ table_hash' = table_hash /\ dbt' = dbt
           /\ ready_table_queue' = ready_table_queue /\ retry_queue' = retry_queue
           /\ schema_worker' = schema_worker /\ data_control_queue' = data_control_queue
           /\ threads_waiting' = threads_waiting /\ dispatcher' = dispatcher
           /\ all_jobs_are_enqueued' = all_jobs_are_enqueued
           /\ data_job_queue' = data_job_queue /\ loader' = loader
           /\ index_queue' = index_queue /\ index_worker' = index_worker
           /\ main' = main /\ server' = server /\ exited' = exited
           /\ single_threaded_create_table' = single_threaded_create_table
  BY DEF wait_file_type_to_complete, tableVars, dispatchVars, loaderVars, indexVars, serverVars

LEMMA SchemaFrame ==
    ASSUME NEW w \in SchemaWorkers, SchemaStep(w)
    PROVE  /\ options' = options /\ files' = files /\ file_worker' = file_worker
           /\ files_ended' = files_ended /\ table_hash' = table_hash
           /\ threads_waiting' = threads_waiting
           /\ all_jobs_are_enqueued' = all_jobs_are_enqueued /\ dispatcher' = dispatcher
           /\ data_job_queue' = data_job_queue /\ loader' = loader
           /\ index_queue' = index_queue /\ index_worker' = index_worker /\ main' = main
<1> USE DEF fileVars, tableVars, dispatchVars, loaderVars, indexVars, serverVars
<1>1. CASE PopCreateJob(w)
  BY <1>1 DEF PopCreateJob
<1>2. CASE CreateDatabase(w)
  BY <1>2 DEF CreateDatabase
<1>3. CASE PopObjectJob(w)
  BY <1>3 DEF PopObjectJob
<1>4. CASE RestoreSequence(w)
  BY <1>4 DEF RestoreSequence
<1>5. CASE PurgeTable(w)
  BY <1>5 DEF PurgeTable
<1>6. CASE PurgeFails(w)
  BY <1>6 DEF PurgeFails
<1>7. CASE CreateTable(w)
  BY <1>7 DEF CreateTable
<1>8. CASE WakeAfterSchema(w)
  BY <1>8 DEF WakeAfterSchema
<1>9. CASE SchemaProcessEnded(w)
  BY <1>9 DEF SchemaProcessEnded
<1>10. CASE SchemaWorkerEnds(w)
  BY <1>10 DEF SchemaWorkerEnds
<1> QED
  BY <1>1, <1>2, <1>3, <1>4, <1>5, <1>6, <1>7, <1>8, <1>9, <1>10 DEF SchemaStep

LEMMA DispatcherFrame ==
    ASSUME DispatcherStep
    PROVE  /\ options' = options /\ files' = files /\ file_worker' = file_worker
           /\ files_ended' = files_ended /\ database' = database /\ table_hash' = table_hash
           /\ schema_job_queue' = schema_job_queue /\ retry_queue' = retry_queue
           /\ schema_worker' = schema_worker /\ loader' = loader
           /\ index_worker' = index_worker /\ main' = main /\ server' = server
           /\ exited' = exited
           /\ single_threaded_create_table' = single_threaded_create_table
<1> USE DEF fileVars, tableVars, schemaVars, loaderVars, indexVars, serverVars
<1>1. CASE wake_threads_waiting
  BY <1>1 DEF wake_threads_waiting
<1>2. CASE DispatchReady
  BY <1>2 DEF DispatchReady
<1>3. CASE DispatchLater
  BY <1>3 DEF DispatchLater
<1>4. CASE Sleep
  BY <1>4 DEF Sleep
<1>5. CASE DispatchFromList
  BY <1>5 DEF DispatchFromList
<1>6. CASE FileTypeEnded
  BY <1>6 DEF FileTypeEnded
<1>7. CASE DispatcherEnds
  BY <1>7 DEF DispatcherEnds
<1> QED
  BY <1>1, <1>2, <1>3, <1>4, <1>5, <1>6, <1>7 DEF DispatcherStep

LEMMA LoaderFrame ==
    ASSUME NEW l \in Loaders, LoaderStep(l)
    PROVE  /\ options' = options /\ files' = files /\ file_worker' = file_worker
           /\ files_ended' = files_ended /\ database' = database /\ table_hash' = table_hash
           /\ ready_table_queue' = ready_table_queue
           /\ schema_job_queue' = schema_job_queue /\ retry_queue' = retry_queue
           /\ schema_worker' = schema_worker /\ threads_waiting' = threads_waiting
           /\ all_jobs_are_enqueued' = all_jobs_are_enqueued /\ dispatcher' = dispatcher
           /\ index_queue' = index_queue /\ index_worker' = index_worker /\ main' = main
           /\ single_threaded_create_table' = single_threaded_create_table
<1> USE DEF fileVars, tableVars, schemaVars, dispatchVars, indexVars, serverVars
<1>1. CASE Request(l)
  BY <1>1 DEF Request
<1>2. CASE TakeJob(l)
  BY <1>2 DEF TakeJob
<1>3. CASE RestoreFilename(l)
  BY <1>3 DEF RestoreFilename
<1>4. CASE ReleaseTable(l)
  BY <1>4 DEF ReleaseTable
<1>5. CASE LoaderEnds(l)
  BY <1>5 DEF LoaderEnds
<1> QED
  BY <1>1, <1>2, <1>3, <1>4, <1>5 DEF LoaderStep

LEMMA IndexFrame ==
    ASSUME NEW i \in IndexWorkers, IndexStep(i)
    PROVE  /\ options' = options /\ files' = files /\ file_worker' = file_worker
           /\ files_ended' = files_ended /\ database' = database /\ table_hash' = table_hash
           /\ ready_table_queue' = ready_table_queue
           /\ schema_job_queue' = schema_job_queue /\ retry_queue' = retry_queue
           /\ schema_worker' = schema_worker /\ threads_waiting' = threads_waiting
           /\ all_jobs_are_enqueued' = all_jobs_are_enqueued /\ dispatcher' = dispatcher
           /\ data_job_queue' = data_job_queue /\ loader' = loader /\ main' = main
           /\ exited' = exited
           /\ single_threaded_create_table' = single_threaded_create_table
<1> USE DEF fileVars, tableVars, schemaVars, dispatchVars, loaderVars, serverVars
<1>1. CASE TakeIndex(i)
  BY <1>1 DEF TakeIndex
<1>2. CASE BuildIndex(i)
  BY <1>2 DEF BuildIndex
<1>3. CASE WakeAfterIndex(i)
  BY <1>3 DEF WakeAfterIndex
<1> QED
  BY <1>1, <1>2, <1>3 DEF IndexStep

LEMMA MainFrame ==
    ASSUME MainStep
    PROVE  /\ options' = options /\ files' = files /\ file_worker' = file_worker
           /\ files_ended' = files_ended /\ database' = database /\ table_hash' = table_hash
           /\ schema_job_queue' = schema_job_queue /\ retry_queue' = retry_queue
           /\ schema_worker' = schema_worker /\ threads_waiting' = threads_waiting
           /\ all_jobs_are_enqueued' = all_jobs_are_enqueued /\ dispatcher' = dispatcher
           /\ data_job_queue' = data_job_queue /\ loader' = loader
           /\ index_worker' = index_worker /\ server' = server /\ exited' = exited
           /\ single_threaded_create_table' = single_threaded_create_table
<1> USE DEF fileVars, tableVars, schemaVars, dispatchVars, loaderVars, indexVars, serverVars
<1>1. CASE wait_schema_worker_to_finish
  BY <1>1 DEF wait_schema_worker_to_finish
<1>2. CASE wait_worker_loader_main
  BY <1>2 DEF wait_worker_loader_main
<1>3. CASE wait_index_worker_to_finish
  BY <1>3 DEF wait_index_worker_to_finish
<1> QED
  BY <1>1, <1>2, <1>3 DEF MainStep

-----------------------------------------------------------------------------
LEMMA WaitingJobsOK ==
    ASSUME NEW J, NEW D \in SUBSET Databases, \A d \in Databases : Waiting(d) \in Seq(J)
    PROVE  /\ WaitingJobs(D) \in Seq(J)
           /\ \A P, d : (\A e \in D \ {d} : Items(Waiting(e), P) = 0)
                           => Items(WaitingJobs(D), P) = IF d \in D THEN Items(Waiting(d), P) ELSE 0
<1> DEFINE part == [d \in D |-> Waiting(d)]
           jobs[S \in SUBSET D] ==
               IF S = {} THEN <<>>
               ELSE LET d == CHOOSE x \in S : TRUE
                    IN  database[d].sequence_queue \o database[d].table_queue \o jobs[S \ {d}]
<1>0. IsFiniteSet(D)
  BY FiniteAssumption, FS_Subset
<1>1. part \in [D -> Seq(J)]
  OBVIOUS
<1>2. WaitingJobs(D) = jobs[D]
  BY DEF WaitingJobs
<1> HIDE DEF jobs
<1>3. PICK h : Chained(D, part, h)
  <2> HIDE DEF part
  <2> QED
    BY <1>0, <1>1, ChainedExists
<1> DEFINE E(g) == [S \in SUBSET D |->
               IF S = {} THEN <<>>
               ELSE LET d == CHOOSE x \in S : TRUE
                    IN  database[d].sequence_queue \o database[d].table_queue \o g[S \ {d}]]
<1>4. ASSUME NEW g PROVE Chained(D, part, g) <=> g = E(g)
  <2> DEFINE F == [S \in SUBSET D |->
                     IF S = {} THEN <<>>
                     ELSE part[CHOOSE x \in S : TRUE] \o g[S \ {CHOOSE x \in S : TRUE}]]
             C(S) == CHOOSE x \in S : TRUE
  <2>1. \A S \in SUBSET D : S # {} => C(S) \in D
    OBVIOUS
  <2>2. \A S \in SUBSET D : S # {} => part[C(S)] = Waiting(C(S))
    <3> HIDE DEF C
    <3> QED
      BY <2>1
  <2>3. F = E(g)
    <3>1. ASSUME NEW S \in SUBSET D
          PROVE  (IF S = {} THEN <<>> ELSE part[C(S)] \o g[S \ {C(S)}])
                   = IF S = {} THEN <<>>
                     ELSE database[C(S)].sequence_queue \o database[C(S)].table_queue
                            \o g[S \ {C(S)}]
      <4> HIDE DEF C, part
      <4> QED
        BY <2>2 DEF Waiting
    <3> HIDE DEF part
    <3> QED
      BY <3>1
  <2> HIDE DEF E
  <2> QED
    BY <2>3 DEF Chained
<1>5. h = E(h)
  BY <1>3, <1>4
<1>6. jobs = E(jobs)
  BY <1>5, ZenonT(30) DEF jobs
<1>7. Chained(D, part, jobs)
  BY <1>4, <1>6
<1>8. HoldsAll(jobs[D], J, D, part)
  <2> HIDE DEF part, E
  <2> QED
    BY <1>0, <1>1, <1>7, ChainedOK
<1>9. \A d \in D : part[d] = Waiting(d)
  OBVIOUS
<1> HIDE DEF part, E
<1> QED
  BY <1>2, <1>8, <1>9 DEF HoldsAll

(* g_async_queue_push_sorted loses no job and adds one. *)
LEMMA PushSortedOK ==
    ASSUME NEW J, NEW q \in Seq(J), NEW job \in J
    PROVE  /\ PushSorted(q, job) \in Seq(J)
           /\ \A P : Items(PushSorted(q, job), P)
                       = IF job \in P THEN Items(q, P) + 1 ELSE Items(q, P)
<1> DEFINE G == {i \in 1 .. Len(q) : JobRank[q[i].type] <= JobRank[job.type]}
           n == IF G = {} THEN 0 ELSE CHOOSE i \in G : \A j \in G : j <= i
           a == SubSeq(q, 1, n)
           b == SubSeq(q, n + 1, Len(q))
<1>1. PushSorted(q, job) = a \o <<job>> \o b
  BY DEF PushSorted
<1>0. Len(q) \in Nat
  OBVIOUS
<1>2. n \in 0 .. Len(q)
  <2>1. CASE G = {}
    BY <2>1, <1>0
  <2>2. CASE G # {}
    <3>1. G \in SUBSET Nat /\ \A m \in G : m <= Len(q)
      BY <1>0
    <3>2. \E i \in G : \A j \in G : j <= i
      <4> HIDE DEF G
      <4> QED
        BY <1>0, <2>2, <3>1, GreatestNatural
    <3>3. n \in G
      <4> HIDE DEF G
      <4> QED
        BY <2>2, <3>2
    <3> HIDE DEF n
    <3> QED
      BY <1>0, <3>3
  <2> QED
    BY <2>1, <2>2
<1> HIDE DEF n
<1>3. /\ a \in Seq(J) /\ b \in Seq(J)
      /\ \A P : Items(q, P) = Items(a, P) + Items(b, P)
  BY <1>2, ItemsCut
<1> HIDE DEF a, b
<1>4. <<job>> \in Seq(J) /\ a \o <<job>> \in Seq(J)
  BY <1>3
<1>5. \A P : Items(<<job>>, P) = IF job \in P THEN 1 ELSE 0
  BY ItemsOne
<1>6. \A P : Items(a \o <<job>>, P) = Items(a, P) + Items(<<job>>, P)
  BY <1>3, <1>4, ItemsConcat, ZenonT(30)
<1> DEFINE c == a \o <<job>>
<1> HIDE DEF c
<1>7. c \in Seq(J) /\ \A P : Items(c, P) = Items(a, P) + Items(<<job>>, P)
  BY <1>4, <1>6 DEF c
<1>8. c \o b \in Seq(J) /\ \A P : Items(c \o b, P) = Items(c, P) + Items(b, P)
  BY <1>3, <1>7, ItemsConcat
<1>9. PushSorted(q, job) = c \o b
  BY <1>1 DEF c
<1>10. \A P : Items(a, P) \in Nat /\ Items(b, P) \in Nat
  BY <1>3, ItemsBound
<1>11. ASSUME NEW P
       PROVE  Items(c \o b, P) = IF job \in P THEN Items(q, P) + 1 ELSE Items(q, P)
  BY <1>3, <1>5, <1>7, <1>8, <1>10
<1> QED
  BY <1>8, <1>9, <1>11

-----------------------------------------------------------------------------
LEMMA FileShape ==
    ASSUME NEW T \in SUBSET Tables, NEW f \in DumpFiles(T)
    PROVE  IsFile(f, T)
<1>0. Parts \in [Tables -> Nat] /\ CreateFiles \subseteq Databases
  BY LoaderAssumption
<1>1. CASE f \in {File("database", d, 0) : d \in CreateFiles}
  BY <1>0, <1>1 DEF IsFile, File
<1>2. CASE f \in {File("table", t, 0) : t \in T \cap SchemaFiles}
  BY <1>2 DEF IsFile, File
<1>3. CASE f \in {File("sequence", t, 0) : t \in T \cap SequenceObjects}
  BY <1>3 DEF IsFile, File
<1>4. CASE f \in UNION {{File("data", t, p) : p \in 1..Parts[t]} : t \in T}
  <2>1. PICK t \in T : f \in {File("data", t, p) : p \in 1 .. Parts[t]}
    BY <1>4
  <2>2. PICK p \in 1 .. Parts[t] : f = File("data", t, p)
    BY <2>1
  <2>3. Parts[t] \in Nat /\ p \in Nat
    BY <1>0
  <2> QED
    BY <2>2, <2>3 DEF IsFile, File
<1> QED
  BY <1>1, <1>2, <1>3, <1>4 DEF DumpFiles

LEMMA ModeShape ==
    ASSUME options \in Modes
    PROVE  /\ options.tables \in SUBSET Tables /\ options.existing \in SUBSET Tables
           /\ options.target_db \in BOOLEAN /\ options.all_tables \in BOOLEAN
  BY LoaderAssumption

-----------------------------------------------------------------------------
LEMMA FileWorkerSet ==
    ASSUME FilesOK, options' = options, files' \in SUBSET files,
           table_hash' \in SUBSET options.tables, NEW w \in FileWorkers, NEW x \in FileRecord,
           FileHandOK(x), file_worker' = [file_worker EXCEPT ![w] = x]
    PROVE  FilesOK'
<1>1. file_worker' \in [FileWorkers -> FileRecord]
  BY DEF FilesOK
<1>2. FileRecord' = FileRecord /\ DumpFiles(options.tables)' = DumpFiles(options.tables)
  BY DEF FileRecord, DumpFiles, NoFile
<1>3. \A v \in FileWorkers : FileHandOK(file_worker'[v])
  <2> TAKE v \in FileWorkers
  <2>1. file_worker'[v] = IF v = w THEN x ELSE file_worker[v]
    BY DEF FilesOK
  <2> QED
    BY <2>1 DEF FilesOK
<1> QED
  BY <1>1, <1>2, <1>3 DEF FilesOK

LEMMA FilesStay ==
    ASSUME FilesOK, options' = options, files' = files, file_worker' = file_worker,
           table_hash' = table_hash
    PROVE  FilesOK'
<1>1. FileRecord' = FileRecord /\ DumpFiles(options.tables)' = DumpFiles(options.tables)
  BY DEF FileRecord, DumpFiles, NoFile
<1>2. \A v \in FileWorkers : FileHandOK(file_worker'[v])
  BY DEF FilesOK
<1> QED
  BY <1>1, <1>2 DEF FilesOK

(* The records a file type worker moves to. *)
LEMMA FileRecords ==
    ASSUME FilesOK
    PROVE  /\ FileIdle \in FileRecord /\ FileHandOK(FileIdle)
           /\ \A f \in DumpFiles(options.tables) :
                 \A pc \in {"idle", "check", "mark", "add", "wake", "left"} : At(pc, f) \in FileRecord
           /\ \A w \in FileWorkers :
                 /\ file_worker[w] \in FileRecord /\ FileHandOK(file_worker[w])
                 /\ file_worker[w].pc \in {"check", "mark", "add"} =>
                       file_worker[w].job \in DumpFiles(options.tables)
<1>1. FileIdle \in FileRecord /\ FileHandOK(FileIdle)
  BY DEF FileIdle, At, FileRecord, FileHandOK, NoFile
<1>2. \A f \in DumpFiles(options.tables) :
         \A pc \in {"idle", "check", "mark", "add", "wake", "left"} : At(pc, f) \in FileRecord
  BY DEF At, FileRecord
<1>3. ASSUME NEW w \in FileWorkers
      PROVE  /\ file_worker[w] \in FileRecord /\ FileHandOK(file_worker[w])
             /\ file_worker[w].pc \in {"check", "mark", "add"} =>
                   file_worker[w].job \in DumpFiles(options.tables)
  <2>1. file_worker[w] \in FileRecord /\ FileHandOK(file_worker[w])
    BY DEF FilesOK
  <2>2. NoFile.kind = "none"
    BY DEF NoFile, File
  <2> QED
    BY <2>1, <2>2 DEF FileHandOK, FileRecord
<1> QED
  BY <1>1, <1>2, <1>3

LEMMA FilesType == ASSUME FilesOK, [Next]_vars PROVE FilesOK'
<1>1. ASSUME NEW w \in FileWorkers, FileStep(w) PROVE FilesOK'
  <2>0. options' = options
    BY <1>1, FileFrame
  <2>t. options.tables \in SUBSET Tables /\ table_hash \in SUBSET options.tables
    BY ModeShape DEF FilesOK
  <2>1. CASE process_database_filename(w)
    <3>1. files' \in SUBSET files /\ file_worker' = file_worker /\ table_hash' = table_hash
      BY <2>1 DEF process_database_filename, tableVars
    <3>2. file_worker' = [file_worker EXCEPT ![w] = file_worker[w]]
      BY <3>1 DEF FilesOK
    <3> QED
      BY <2>0, <2>t, <3>1, <3>2, FileRecords, FileWorkerSet
  <2>2. CASE process_schema_sequence_filename(w)
    <3>1. PICK f \in files : /\ f.kind = "sequence" /\ files' = files \ {f}
                             /\ table_hash' = table_hash \cup {f.of}
      BY <2>2 DEF process_schema_sequence_filename
    <3>2. f.of \in options.tables
      BY <2>t, <3>1, FileShape DEF FilesOK, IsFile
    <3>3. table_hash' \in SUBSET options.tables /\ files' \in SUBSET files
      BY <2>t, <3>1, <3>2
    <3>4. file_worker' = [file_worker EXCEPT ![w] = file_worker[w]]
      BY <2>2 DEF process_schema_sequence_filename, FilesOK
    <3> QED
      BY <2>0, <3>3, <3>4, FileRecords, FileWorkerSet
  <2>3. CASE append_new_db_table(w)
    <3>1. PICK f \in files :
              /\ f.kind \in {"table", "data"} /\ files' = files \ {f}
              /\ table_hash' = table_hash \cup {f.of}
              /\ \/ /\ file_worker' = [file_worker EXCEPT ![w] = At("check", f)]
                    /\ f.kind = "table" \/ f.of \in SchemaFiles
                 \/ /\ file_worker' = [file_worker EXCEPT ![w] = At("add", f)]
                    /\ f.kind # "table"
      BY <2>3 DEF append_new_db_table
    <3>2. f \in DumpFiles(options.tables) /\ IsFile(f, options.tables)
      BY <2>t, FileShape DEF FilesOK
    <3>3. table_hash' \in SUBSET options.tables /\ files' \in SUBSET files
      BY <2>t, <3>1, <3>2 DEF IsFile
    <3>4. CASE file_worker' = [file_worker EXCEPT ![w] = At("check", f)]
               /\ (f.kind = "table" \/ f.of \in SchemaFiles)
      <4>1. At("check", f) \in FileRecord
        BY <3>2, FileRecords
      <4>2. FileHandOK(At("check", f))
        BY <3>1, <3>2, <3>4 DEF FileHandOK, At, IsFile
      <4> QED
        BY <2>0, <3>3, <3>4, <4>1, <4>2, FileWorkerSet
    <3>5. CASE file_worker' = [file_worker EXCEPT ![w] = At("add", f)] /\ f.kind # "table"
      <4>1. At("add", f) \in FileRecord
        BY <3>2, FileRecords
      <4>2. FileHandOK(At("add", f))
        BY <3>1, <3>5 DEF FileHandOK, At
      <4> QED
        BY <2>0, <3>3, <3>5, <4>1, <4>2, FileWorkerSet
    <3> QED
      BY <3>1, <3>4, <3>5
  <2>a. ASSUME NEW x \in FileRecord, FileHandOK(x), file_worker' = [file_worker EXCEPT ![w] = x],
               files' = files, table_hash' = table_hash
        PROVE  FilesOK'
    BY <2>0, <2>t, <2>a, FileWorkerSet
  <2>4. CASE CheckParsed(w) \/ parse_create_table_from_file(w)
    <3> DEFINE f == file_worker[w].job
    <3>1. /\ files' = files /\ table_hash' = table_hash
          /\ file_worker[w].pc \in {"check", "mark"}
          /\ \E x \in {At("mark", f), AfterSchema(f)} : file_worker' = [file_worker EXCEPT ![w] = x]
      <4>1. CASE CheckParsed(w)
        BY <4>1 DEF CheckParsed, tableVars
      <4>2. CASE parse_create_table_from_file(w)
        BY <4>2 DEF parse_create_table_from_file
      <4> QED
        BY <2>4, <4>1, <4>2
    <3>2. f \in DumpFiles(options.tables) /\ FileHandOK(file_worker[w])
      BY <3>1, FileRecords
    <3>3. f.kind \in {"table", "data"} /\ f.of \in SchemaFiles
      BY <3>1, <3>2 DEF FileHandOK
    <3> HIDE DEF f
    <3>4. At("mark", f) \in FileRecord /\ FileHandOK(At("mark", f))
      BY <3>2, <3>3, FileRecords DEF At, FileHandOK
    <3>5. AfterSchema(f) \in FileRecord /\ FileHandOK(AfterSchema(f))
      BY <3>2, <3>3, FileRecords DEF AfterSchema, At, FileHandOK
    <3> QED
      BY <2>a, <3>1, <3>4, <3>5
  <2>5. CASE process_data_filename(w)
    <3> DEFINE x == [file_worker[w] EXCEPT !.pc = "wake"]
    <3>1. /\ files' = files /\ table_hash' = table_hash
          /\ file_worker' = [file_worker EXCEPT ![w] = x]
      BY <2>5 DEF process_data_filename
    <3>2. x \in FileRecord /\ FileHandOK(x)
      BY FileRecords DEF FileRecord, FileHandOK
    <3> QED
      BY <2>a, <3>1, <3>2
  <2>6. CASE WakeAfterFile(w)
    <3>1. /\ files' = files /\ table_hash' = table_hash
          /\ file_worker' = [file_worker EXCEPT ![w] = FileIdle]
      BY <2>6 DEF WakeAfterFile, tableVars
    <3> QED
      BY <2>a, <3>1, FileRecords
  <2>7. CASE FileWorkerEnds(w)
    <3> DEFINE x == [file_worker[w] EXCEPT !.pc = "left"]
    <3>1. /\ files' = files /\ table_hash' = table_hash
          /\ file_worker' = [file_worker EXCEPT ![w] = x]
      BY <2>7 DEF FileWorkerEnds, tableVars
    <3>2. x \in FileRecord /\ FileHandOK(x)
      BY FileRecords DEF FileRecord, FileHandOK
    <3> QED
      BY <2>a, <3>1, <3>2
  <2> QED
    BY <1>1, <2>1, <2>2, <2>3, <2>4, <2>5, <2>6, <2>7 DEF FileStep
<1>2. ASSUME NEW w \in SchemaWorkers, SchemaStep(w) PROVE FilesOK'
  BY <1>2, SchemaFrame, FilesStay
<1>3. CASE wait_file_type_to_complete
  BY <1>3, FilesEndFrame, FilesStay
<1>4. CASE DispatcherStep
  BY <1>4, DispatcherFrame, FilesStay
<1>5. ASSUME NEW l \in Loaders, LoaderStep(l) PROVE FilesOK'
  BY <1>5, LoaderFrame, FilesStay
<1>6. ASSUME NEW i \in IndexWorkers, IndexStep(i) PROVE FilesOK'
  BY <1>6, IndexFrame, FilesStay
<1>7. CASE MainStep
  BY <1>7, MainFrame, FilesStay
<1>8. CASE UNCHANGED vars
  BY <1>8, FilesStay DEF vars, fileVars, tableVars
<1> QED
  BY <1>1, <1>2, <1>3, <1>4, <1>5, <1>6, <1>7, <1>8 DEF Next

-----------------------------------------------------------------------------
SchemaQueuesOK ==
    /\ schema_job_queue \in Seq(SchemaJobs) /\ retry_queue \in Seq(TableJobs)
    /\ database \in [Databases -> [created : BOOLEAN, sequence_queue : Seq(SequenceJobs),
                                   table_queue : Seq(TableJobs)]]
SchemaWorkersOK ==
    /\ schema_worker \in [SchemaWorkers -> SchemaRecord]
    /\ \A w \in SchemaWorkers : SchemaHandOK(schema_worker[w])

LEMMA SchemaParts == SchemaOK <=> SchemaQueuesOK /\ SchemaWorkersOK
  BY DEF SchemaOK, SchemaQueuesOK, SchemaWorkersOK

LEMMA SchemaWorkerSet ==
    ASSUME SchemaWorkersOK, NEW w \in SchemaWorkers, NEW x \in SchemaRecord, SchemaHandOK(x),
           schema_worker' = [schema_worker EXCEPT ![w] = x]
    PROVE  SchemaWorkersOK'
<1>1. schema_worker' \in [SchemaWorkers -> SchemaRecord]
  BY DEF SchemaWorkersOK
<1>2. \A v \in SchemaWorkers : SchemaHandOK(schema_worker'[v])
  <2> TAKE v \in SchemaWorkers
  <2>1. schema_worker'[v] = IF v = w THEN x ELSE schema_worker[v]
    BY DEF SchemaWorkersOK
  <2> QED
    BY <2>1 DEF SchemaWorkersOK
<1> QED
  BY <1>1, <1>2 DEF SchemaWorkersOK

LEMMA JobShape ==
    /\ \A t \in SequenceObjects : SchemaJob("SEQUENCE", t) \in SequenceJobs
    /\ \A t \in SchemaFiles : SchemaJob("TABLE", t) \in TableJobs
    /\ \A d \in Databases : SchemaJob("CREATE", d) \in SchemaJobs
    /\ Ending("PROCESS_ENDED") \in SchemaJobs /\ Ending("ENDED") \in SchemaJobs
    /\ SequenceJobs \subseteq SchemaJobs /\ TableJobs \subseteq SchemaJobs
    /\ \A j \in SchemaJobs :
          /\ j.type = "CREATE" => j.of \in Databases /\ j = SchemaJob("CREATE", j.of)
          /\ j.type = "SEQUENCE" => j.of \in SequenceObjects /\ j = SchemaJob("SEQUENCE", j.of)
          /\ j.type = "TABLE" => j.of \in SchemaFiles /\ j = SchemaJob("TABLE", j.of)
          /\ j.type = "PROCESS_ENDED" => j = Ending("PROCESS_ENDED")
          /\ j.type = "ENDED" => j = Ending("ENDED")
    /\ \A j \in SequenceJobs : j.type = "SEQUENCE"
    /\ \A j \in TableJobs : j.type = "TABLE"
    /\ SequenceObjects \subseteq Tables /\ SchemaFiles \subseteq Tables
    /\ SequenceObjects \cap SchemaFiles = {}
<1>1. SequenceObjects \subseteq Tables /\ SchemaFiles \subseteq Tables \ SequenceObjects
  BY LoaderAssumption
<1>2. \A j \in SchemaJobs :
          /\ j.type = "CREATE" => j.of \in Databases /\ j = SchemaJob("CREATE", j.of)
          /\ j.type = "SEQUENCE" => j.of \in SequenceObjects /\ j = SchemaJob("SEQUENCE", j.of)
          /\ j.type = "TABLE" => j.of \in SchemaFiles /\ j = SchemaJob("TABLE", j.of)
          /\ j.type = "PROCESS_ENDED" => j = Ending("PROCESS_ENDED")
          /\ j.type = "ENDED" => j = Ending("ENDED")
  BY DEF SchemaJobs, SequenceJobs, TableJobs, Ending, SchemaJob
<1>3. (\A j \in SequenceJobs : j.type = "SEQUENCE") /\ (\A j \in TableJobs : j.type = "TABLE")
  BY DEF SequenceJobs, TableJobs, SchemaJob
<1>4. SequenceJobs \subseteq SchemaJobs /\ TableJobs \subseteq SchemaJobs
  BY DEF SchemaJobs
<1>5. /\ \A t \in SequenceObjects : SchemaJob("SEQUENCE", t) \in SequenceJobs
      /\ \A t \in SchemaFiles : SchemaJob("TABLE", t) \in TableJobs
      /\ \A d \in Databases : SchemaJob("CREATE", d) \in SchemaJobs
      /\ Ending("PROCESS_ENDED") \in SchemaJobs /\ Ending("ENDED") \in SchemaJobs
  BY DEF SchemaJobs, SequenceJobs, TableJobs
<1> QED
  BY <1>1, <1>2, <1>3, <1>4, <1>5

LEMMA WaitingType ==
    ASSUME SchemaQueuesOK
    PROVE  \A d \in Databases : /\ database[d].sequence_queue \in Seq(SequenceJobs)
                                /\ database[d].table_queue \in Seq(TableJobs)
                                /\ Waiting(d) \in Seq(SchemaJobs)
<1> TAKE d \in Databases
<1>1. /\ database[d].sequence_queue \in Seq(SequenceJobs)
      /\ database[d].table_queue \in Seq(TableJobs)
  BY DEF SchemaQueuesOK
<1>2. /\ database[d].sequence_queue \in Seq(SchemaJobs)
      /\ database[d].table_queue \in Seq(SchemaJobs)
  BY <1>1, JobShape
<1> QED
  BY <1>1, <1>2 DEF Waiting

LEMMA SchemaPushType ==
    ASSUME SchemaQueuesOK, retry_queue' = retry_queue, NEW d \in Databases, NEW job,
           job \in SequenceJobs \cup TableJobs, schema_push(job, d)
    PROVE  SchemaQueuesOK'
<1>0. job \in SchemaJobs /\ schema_job_queue \in Seq(SchemaJobs)
  BY JobShape DEF SchemaQueuesOK
<1>1. CASE database[d].created
  <2>1. schema_job_queue' = PushSorted(schema_job_queue, job) /\ database' = database
    BY <1>1 DEF schema_push
  <2>2. PushSorted(schema_job_queue, job) \in Seq(SchemaJobs)
    BY <1>0, PushSortedOK
  <2> QED
    BY <2>1, <2>2 DEF SchemaQueuesOK
<1>2. CASE ~database[d].created /\ job.type = "SEQUENCE"
  <2>1. /\ schema_job_queue' = schema_job_queue
        /\ database' = [database EXCEPT ![d].sequence_queue = Append(@, job)]
    BY <1>2 DEF schema_push
  <2>2. job \in SequenceJobs
    BY <1>2, JobShape
  <2>3. Append(database[d].sequence_queue, job) \in Seq(SequenceJobs)
    BY <2>2, WaitingType
  <2> QED
    BY <2>1, <2>3 DEF SchemaQueuesOK
<1>3. CASE ~database[d].created /\ job.type # "SEQUENCE"
  <2>1. /\ schema_job_queue' = schema_job_queue
        /\ database' = [database EXCEPT ![d].table_queue = Append(@, job)]
    BY <1>3 DEF schema_push
  <2>2. job \in TableJobs
    BY <1>3, JobShape
  <2>3. Append(database[d].table_queue, job) \in Seq(TableJobs)
    BY <2>2, WaitingType
  <2> QED
    BY <2>1, <2>3 DEF SchemaQueuesOK
<1> QED
  BY <1>1, <1>2, <1>3

(* What the jobs that waited for the databases of D leave behind. *)
LEMMA SetCreatedType ==
    ASSUME SchemaQueuesOK, NEW D \in SUBSET Databases, set_db_schema_created(D)
    PROVE  /\ database' \in [Databases -> [created : BOOLEAN, sequence_queue : Seq(SequenceJobs),
                                           table_queue : Seq(TableJobs)]]
           /\ WaitingJobs(D) \in Seq(SchemaJobs)
<1>1. WaitingJobs(D) \in Seq(SchemaJobs)
  BY WaitingType, WaitingJobsOK
<1>2. <<>> \in Seq(SequenceJobs) /\ <<>> \in Seq(TableJobs)
  OBVIOUS
<1>3. database' \in [Databases -> [created : BOOLEAN, sequence_queue : Seq(SequenceJobs),
                                   table_queue : Seq(TableJobs)]]
  BY <1>2 DEF set_db_schema_created, SchemaQueuesOK
<1> QED
  BY <1>1, <1>3

LEMMA SchemaQueuesType ==
    ASSUME FilesOK, SchemaOK, [Next]_vars
    PROVE  SchemaQueuesOK'
<1>q. SchemaQueuesOK /\ SchemaWorkersOK
  BY SchemaParts
<1>s. ASSUME schema_job_queue' = schema_job_queue, retry_queue' = retry_queue, database' = database
      PROVE  SchemaQueuesOK'
  BY <1>q, <1>s DEF SchemaQueuesOK
<1>d. DbOf \in [Tables -> Databases]
  BY LoaderAssumption
<1>t. options.tables \in SUBSET Tables
  BY ModeShape DEF FilesOK
<1>1. ASSUME NEW w \in FileWorkers, FileStep(w) PROVE SchemaQueuesOK'
  <2>0. retry_queue' = retry_queue
    BY <1>1, FileFrame
  <2>1. CASE process_database_filename(w)
    <3>1. PICK f \in files :
              /\ f.kind = "database"
              /\ \/ /\ database' = [database EXCEPT ![f.of].created = TRUE]
                    /\ schema_job_queue' = schema_job_queue
                 \/ /\ schema_job_queue' = PushSorted(schema_job_queue, SchemaJob("CREATE", f.of))
                    /\ database' = database
      BY <2>1 DEF process_database_filename
    <3>2. f.of \in Databases
      BY <1>t, <3>1, FileShape DEF FilesOK, IsFile
    <3>3. CASE database' = [database EXCEPT ![f.of].created = TRUE]
               /\ schema_job_queue' = schema_job_queue
      BY <1>q, <2>0, <3>2, <3>3 DEF SchemaQueuesOK
    <3>4. CASE schema_job_queue' = PushSorted(schema_job_queue, SchemaJob("CREATE", f.of))
               /\ database' = database
      <4>1. SchemaJob("CREATE", f.of) \in SchemaJobs
        BY <3>2, JobShape
      <4>2. PushSorted(schema_job_queue, SchemaJob("CREATE", f.of)) \in Seq(SchemaJobs)
        BY <1>q, <4>1, PushSortedOK DEF SchemaQueuesOK
      <4> QED
        BY <1>q, <2>0, <3>4, <4>2 DEF SchemaQueuesOK
    <3> QED
      BY <3>1, <3>3, <3>4
  <2>2. CASE process_schema_sequence_filename(w)
    <3>1. PICK f \in files : /\ f.kind = "sequence"
                             /\ schema_push(SchemaJob("SEQUENCE", f.of), DbOf[f.of])
      BY <2>2 DEF process_schema_sequence_filename
    <3>2. f.of \in SequenceObjects /\ f.of \in Tables
      BY <1>t, <3>1, FileShape DEF FilesOK, IsFile
    <3>3. SchemaJob("SEQUENCE", f.of) \in SequenceJobs \cup TableJobs /\ DbOf[f.of] \in Databases
      BY <1>d, <3>2, JobShape
    <3> QED
      BY <1>q, <2>0, <3>1, <3>3, SchemaPushType
  <2>3. CASE parse_create_table_from_file(w)
    <3> DEFINE t == file_worker[w].job.of
    <3>1. schema_push(SchemaJob("TABLE", t), DbOf[t]) /\ file_worker[w].pc = "mark"
      BY <2>3 DEF parse_create_table_from_file
    <3>2. t \in SchemaFiles
      BY <3>1 DEF FilesOK, FileHandOK
    <3>3. SchemaJob("TABLE", t) \in SequenceJobs \cup TableJobs /\ DbOf[t] \in Databases
      BY <1>d, <3>2, JobShape
    <3> HIDE DEF t
    <3> QED
      BY <1>q, <2>0, <3>1, <3>3, SchemaPushType
  <2>4. CASE append_new_db_table(w) \/ CheckParsed(w) \/ process_data_filename(w)
             \/ WakeAfterFile(w) \/ FileWorkerEnds(w)
    <3>1. schema_job_queue' = schema_job_queue /\ database' = database
      BY <2>4 DEF append_new_db_table, CheckParsed, process_data_filename, WakeAfterFile,
                  FileWorkerEnds, schemaVars
    <3> QED
      BY <1>s, <2>0, <3>1
  <2> QED
    BY <1>1, <2>1, <2>2, <2>3, <2>4 DEF FileStep
<1>2. CASE wait_file_type_to_complete
  <2>1. schema_job_queue' = Append(schema_job_queue, Ending("PROCESS_ENDED"))
    BY <1>2 DEF wait_file_type_to_complete
  <2>2. schema_job_queue' \in Seq(SchemaJobs)
    BY <1>q, <2>1, JobShape DEF SchemaQueuesOK
  <2>3. retry_queue' = retry_queue /\ database' = database
    BY <1>2, FilesEndFrame
  <2> QED
    BY <1>q, <2>2, <2>3 DEF SchemaQueuesOK
<1>3. ASSUME NEW w \in SchemaWorkers, SchemaStep(w) PROVE SchemaQueuesOK'
  <2>1. CASE PopCreateJob(w) \/ PopObjectJob(w)
    <3>1. /\ schema_job_queue # <<>> /\ schema_job_queue' = Tail(schema_job_queue)
          /\ retry_queue' = retry_queue /\ database' = database
      BY <2>1 DEF PopCreateJob, PopObjectJob, Popped
    <3>2. schema_job_queue' \in Seq(SchemaJobs)
      BY <1>q, <3>1 DEF SchemaQueuesOK
    <3> QED
      BY <1>q, <3>1, <3>2 DEF SchemaQueuesOK
  <2>2. CASE CreateDatabase(w)
    <3> DEFINE d == schema_worker[w].job
    <3>1. /\ set_db_schema_created({d}) /\ schema_job_queue' = schema_job_queue \o WaitingJobs({d})
          /\ retry_queue' = retry_queue /\ schema_worker[w].pc = "database"
      BY <2>2 DEF CreateDatabase
    <3>2. {d} \in SUBSET Databases
      BY <1>q, <3>1 DEF SchemaWorkersOK, SchemaHandOK
    <3> HIDE DEF d
    <3>3. /\ WaitingJobs({d}) \in Seq(SchemaJobs)
          /\ database' \in [Databases -> [created : BOOLEAN, sequence_queue : Seq(SequenceJobs),
                                          table_queue : Seq(TableJobs)]]
      BY <1>q, <3>1, <3>2, SetCreatedType
    <3>4. schema_job_queue' \in Seq(SchemaJobs)
      <4> DEFINE W == WaitingJobs({d})
      <4>1. W \in Seq(SchemaJobs) /\ schema_job_queue' = schema_job_queue \o W
        BY <3>1, <3>3
      <4> HIDE DEF W
      <4> QED
        BY <1>q, <4>1 DEF SchemaQueuesOK
    <3> QED
      BY <1>q, <3>1, <3>3, <3>4 DEF SchemaQueuesOK
  <2>3. CASE SchemaProcessEnded(w)
    <3> DEFINE W == WaitingJobs(Databases)
    <3>1. /\ schema_job_queue # <<>> /\ set_db_schema_created(Databases) /\ retry_queue' = <<>>
          /\ schema_job_queue' = Tail(schema_job_queue) \o retry_queue \o W \o <<Ending("ENDED")>>
      BY <2>3 DEF SchemaProcessEnded, Popped
    <3>2. /\ W \in Seq(SchemaJobs)
          /\ database' \in [Databases -> [created : BOOLEAN, sequence_queue : Seq(SequenceJobs),
                                          table_queue : Seq(TableJobs)]]
      BY <1>q, <3>1, SetCreatedType
    <3> HIDE DEF W
    <3>3. retry_queue \in Seq(SchemaJobs) /\ <<Ending("ENDED")>> \in Seq(SchemaJobs)
      BY <1>q, JobShape DEF SchemaQueuesOK
    <3>4. Tail(schema_job_queue) \in Seq(SchemaJobs)
      BY <1>q, <3>1 DEF SchemaQueuesOK
    <3>5. schema_job_queue' \in Seq(SchemaJobs)
      BY <3>1, <3>2, <3>3, <3>4
    <3>6. retry_queue' \in Seq(TableJobs)
      BY <3>1
    <3> QED
      BY <3>2, <3>5, <3>6 DEF SchemaQueuesOK
  <2>4. CASE SchemaWorkerEnds(w)
    <3>1. /\ schema_job_queue # <<>>
          /\ schema_job_queue' = Append(Tail(schema_job_queue), Head(schema_job_queue))
          /\ retry_queue' = retry_queue /\ database' = database
      BY <2>4 DEF SchemaWorkerEnds, Popped
    <3>a. Tail(schema_job_queue) \in Seq(SchemaJobs)
      BY <1>q, <3>1 DEF SchemaQueuesOK
    <3>b. Head(schema_job_queue) \in SchemaJobs
      BY <1>q, <3>1 DEF SchemaQueuesOK
    <3>2. schema_job_queue' \in Seq(SchemaJobs)
      BY <3>1, <3>a, <3>b
    <3> QED
      BY <1>q, <3>1, <3>2 DEF SchemaQueuesOK
  <2>5. CASE PurgeFails(w)
    <3> DEFINE job == SchemaJob("TABLE", schema_worker[w].job)
    <3>1. /\ schema_worker[w].pc = "table" /\ schema_job_queue' = schema_job_queue
          /\ database' = database /\ retry_queue' \in {retry_queue, Append(retry_queue, job)}
      BY <2>5 DEF PurgeFails
    <3>2. job \in TableJobs
      BY <1>q, <3>1, JobShape DEF SchemaWorkersOK, SchemaHandOK
    <3> HIDE DEF job
    <3>3. retry_queue' \in Seq(TableJobs)
      BY <1>q, <3>1, <3>2, SMTT(30) DEF SchemaQueuesOK
    <3> QED
      BY <1>q, <3>1, <3>3 DEF SchemaQueuesOK
  <2>6. CASE RestoreSequence(w) \/ PurgeTable(w) \/ CreateTable(w) \/ WakeAfterSchema(w)
    <3>1. schema_job_queue' = schema_job_queue /\ retry_queue' = retry_queue /\ database' = database
      BY <2>6 DEF RestoreSequence, PurgeTable, CreateTable, WakeAfterSchema
    <3> QED
      BY <1>s, <3>1
  <2> QED
    BY <1>3, <2>1, <2>2, <2>3, <2>4, <2>5, <2>6 DEF SchemaStep
<1>4. CASE DispatcherStep
  BY <1>4, <1>s, DispatcherFrame
<1>5. ASSUME NEW l \in Loaders, LoaderStep(l) PROVE SchemaQueuesOK'
  BY <1>5, <1>s, LoaderFrame
<1>6. ASSUME NEW i \in IndexWorkers, IndexStep(i) PROVE SchemaQueuesOK'
  BY <1>6, <1>s, IndexFrame
<1>7. CASE MainStep
  BY <1>7, <1>s, MainFrame
<1>8. CASE UNCHANGED vars
  BY <1>8, <1>s DEF vars, schemaVars
<1> QED
  BY <1>1, <1>2, <1>3, <1>4, <1>5, <1>6, <1>7, <1>8 DEF Next

LEMMA SchemaWorkersType ==
    ASSUME SchemaOK, [Next]_vars
    PROVE  SchemaWorkersOK'
<1>q. SchemaQueuesOK /\ SchemaWorkersOK
  BY SchemaParts
<1>s. ASSUME schema_worker' = schema_worker
      PROVE  SchemaWorkersOK'
  BY <1>q, <1>s DEF SchemaWorkersOK
<1>i. Idle \in SchemaRecord /\ SchemaHandOK(Idle)
  BY DEF Idle, At, SchemaRecord, SchemaHandOK
<1>h. schema_job_queue # <<>> => Head(schema_job_queue) \in SchemaJobs
  BY <1>q DEF SchemaQueuesOK
<1>1. ASSUME NEW w \in SchemaWorkers, SchemaStep(w) PROVE SchemaWorkersOK'
  <2> DEFINE r == schema_worker[w]
             put(pc) == [r EXCEPT !.pc = pc]
  <2>r. r \in SchemaRecord /\ SchemaHandOK(r)
    BY <1>q DEF SchemaWorkersOK
  <2>a. ASSUME NEW x \in SchemaRecord, SchemaHandOK(x), schema_worker' = [schema_worker EXCEPT ![w] = x]
        PROVE  SchemaWorkersOK'
    BY <1>q, <2>a, SchemaWorkerSet
  <2>p. /\ put("wake") \in SchemaRecord /\ SchemaHandOK(put("wake"))
        /\ put("left") \in SchemaRecord /\ SchemaHandOK(put("left"))
        /\ r.pc = "table" => /\ put("create") \in SchemaRecord /\ SchemaHandOK(put("create"))
                             /\ put("created") \in SchemaRecord /\ SchemaHandOK(put("created"))
    <3> HIDE DEF r
    <3> QED
      BY <2>r DEF SchemaRecord, SchemaHandOK
  <2>1. CASE PopCreateJob(w)
    <3> DEFINE h == Head(schema_job_queue)
    <3>1. /\ schema_job_queue # <<>> /\ h.type = "CREATE"
          /\ schema_worker' = [schema_worker EXCEPT ![w] = At("database", h.of)]
      BY <2>1 DEF PopCreateJob, Popped
    <3>2. h.of \in Databases
      BY <1>h, <3>1, JobShape
    <3>3. At("database", h.of) \in SchemaRecord /\ SchemaHandOK(At("database", h.of))
      <4> HIDE DEF h
      <4> QED
        BY <3>2 DEF At, SchemaRecord, SchemaHandOK
    <3> QED
      BY <2>a, <3>1, <3>3
  <2>2. CASE PopObjectJob(w)
    <3> DEFINE h == Head(schema_job_queue)
    <3>1. /\ schema_job_queue # <<>> /\ h.type \in {"SEQUENCE", "TABLE"}
          /\ schema_worker' = [schema_worker EXCEPT ![w] =
                 At(IF h.type = "TABLE" THEN "table" ELSE "sequence", h.of)]
      BY <2>2 DEF PopObjectJob, Popped
    <3>2. /\ h.type = "TABLE" => h.of \in SchemaFiles
          /\ h.type = "SEQUENCE" => h.of \in SequenceObjects
          /\ h.of \in Tables
      BY <1>h, <3>1, JobShape
    <3> DEFINE x == At(IF h.type = "TABLE" THEN "table" ELSE "sequence", h.of)
    <3>3. x \in SchemaRecord /\ SchemaHandOK(x)
      <4> HIDE DEF h
      <4> QED
        BY <3>1, <3>2 DEF At, SchemaRecord, SchemaHandOK
    <3> QED
      BY <2>a, <3>1, <3>3
  <2>3. CASE CreateDatabase(w) \/ WakeAfterSchema(w)
    <3>1. schema_worker' = [schema_worker EXCEPT ![w] = Idle]
      BY <2>3 DEF CreateDatabase, WakeAfterSchema
    <3> QED
      BY <1>i, <2>a, <3>1
  <2>4. CASE RestoreSequence(w) \/ PurgeFails(w) \/ CreateTable(w)
    <3>1. \/ schema_worker' = schema_worker
          \/ schema_worker' = [schema_worker EXCEPT ![w] = put("wake")]
      BY <2>4 DEF RestoreSequence, PurgeFails, CreateTable
    <3> QED
      BY <1>s, <2>a, <2>p, <3>1
  <2>5. CASE PurgeTable(w)
    <3>1. /\ r.pc = "table"
          /\ \/ schema_worker' = schema_worker
             \/ schema_worker' = [schema_worker EXCEPT ![w] = put("create")]
             \/ schema_worker' = [schema_worker EXCEPT ![w] = put("created")]
      BY <2>5 DEF PurgeTable
    <3> QED
      BY <1>s, <2>a, <2>p, <3>1
  <2>6. CASE SchemaProcessEnded(w)
    BY <1>s, <2>6 DEF SchemaProcessEnded
  <2>7. CASE SchemaWorkerEnds(w)
    <3>1. schema_worker' = [schema_worker EXCEPT ![w] = put("left")]
      BY <2>7 DEF SchemaWorkerEnds
    <3> QED
      BY <2>a, <2>p, <3>1
  <2> QED
    BY <1>1, <2>1, <2>2, <2>3, <2>4, <2>5, <2>6, <2>7 DEF SchemaStep
<1>2. ASSUME NEW w \in FileWorkers, FileStep(w) PROVE SchemaWorkersOK'
  BY <1>2, <1>s, FileFrame
<1>3. CASE wait_file_type_to_complete
  BY <1>3, <1>s, FilesEndFrame
<1>4. CASE DispatcherStep
  BY <1>4, <1>s, DispatcherFrame
<1>5. ASSUME NEW l \in Loaders, LoaderStep(l) PROVE SchemaWorkersOK'
  BY <1>5, <1>s, LoaderFrame
<1>6. ASSUME NEW i \in IndexWorkers, IndexStep(i) PROVE SchemaWorkersOK'
  BY <1>6, <1>s, IndexFrame
<1>7. CASE MainStep
  BY <1>7, <1>s, MainFrame
<1>8. CASE UNCHANGED vars
  BY <1>8, <1>s DEF vars, schemaVars
<1> QED
  BY <1>1, <1>2, <1>3, <1>4, <1>5, <1>6, <1>7, <1>8 DEF Next

-----------------------------------------------------------------------------
(* The tables, the queue of the ready ones and the jobs handed out *)
TablesOK ==
    /\ dbt \in [Tables -> TableRecord]
    /\ \A t \in Tables : dbt[t].restore_job_list \subseteq 1 .. Parts[t]
JobsOK ==
    /\ data_job_queue \in Seq(DataJobs)
    /\ loader \in [Loaders -> LoaderRecord]
    /\ \A l \in Loaders : loader[l].pc \in {"load", "release"} => loader[l].job.of \in Tables
LoadInv == TablesOK /\ ready_table_queue \in Seq(Tables) /\ JobsOK /\ CountersOK /\ ReadyOK

LEMMA LoadParts == LoadInv <=> LoadOK /\ CountersOK /\ ReadyOK
  BY DEF LoadInv, LoadOK, TablesOK, JobsOK

(* The record x of a table says the same of its jobs as the record r. *)
SameLoad(x, r) ==
    /\ x.restore_job_list = r.restore_job_list /\ x.current_threads = r.current_threads
    /\ x.remaining_jobs = r.remaining_jobs

LEMMA TablePut ==
    ASSUME TablesOK, NEW t \in Tables, NEW x \in TableRecord,
           x.restore_job_list \subseteq 1 .. Parts[t], dbt' = [dbt EXCEPT ![t] = x]
    PROVE  TablesOK' /\ dbt'[t] = x /\ \A u \in Tables \ {t} : dbt'[u] = dbt[u]
<1>1. dbt' \in [Tables -> TableRecord] /\ dbt'[t] = x /\ \A u \in Tables \ {t} : dbt'[u] = dbt[u]
  BY DEF TablesOK
<1>2. \A u \in Tables : dbt'[u].restore_job_list \subseteq 1 .. Parts[u]
  BY <1>1 DEF TablesOK
<1> QED
  BY <1>1, <1>2 DEF TablesOK

LEMMA TablesKeep ==
    ASSUME TablesOK, dbt' \in [Tables -> TableRecord], \A t \in Tables : SameLoad(dbt'[t], dbt[t])
    PROVE  TablesOK'
  BY DEF TablesOK, SameLoad

LEMMA CountersKeep ==
    ASSUME CountersOK, data_job_queue' = data_job_queue, loader' = loader,
           \A t \in Tables : SameLoad(dbt'[t], dbt[t])
    PROVE  CountersOK'
<1>1. ASSUME NEW t \in Tables PROVE CountersAt(t)'
  <2>1. SameLoad(dbt'[t], dbt[t]) /\ CountersAt(t)
    BY DEF CountersOK
  <2> QED
    BY <2>1 DEF CountersAt, SameLoad
<1> QED
  BY <1>1 DEF CountersOK

LEMMA ReadyKeep ==
    ASSUME ReadyOK, ready_table_queue' = ready_table_queue,
           \A t \in Tables : dbt'[t].in_ready_queue = dbt[t].in_ready_queue
    PROVE  ReadyOK'
  BY DEF ReadyOK

LEMMA JobsKeep ==
    ASSUME JobsOK, data_job_queue' = data_job_queue, loader' = loader
    PROVE  JobsOK'
  BY DEF JobsOK

(* A step that leaves all of this alone. *)
LEMMA LoadStays ==
    ASSUME LoadInv, dbt' = dbt, ready_table_queue' = ready_table_queue,
           data_job_queue' = data_job_queue, loader' = loader
    PROVE  LoadInv'
<1>1. \A t \in Tables : SameLoad(dbt'[t], dbt[t])
  BY DEF SameLoad
<1>2. TablesOK'
  BY DEF LoadInv, TablesOK
<1> QED
  BY <1>1, <1>2, CountersKeep, ReadyKeep, JobsKeep DEF LoadInv

(* A step that changes one table, and not what it says of its jobs. *)
LEMMA StateStep ==
    ASSUME LoadInv, NEW t \in Tables, NEW x \in TableRecord, SameLoad(x, dbt[t]),
           x.in_ready_queue = dbt[t].in_ready_queue, dbt' = [dbt EXCEPT ![t] = x],
           ready_table_queue' = ready_table_queue, data_job_queue' = data_job_queue,
           loader' = loader
    PROVE  LoadInv'
<1>1. dbt' \in [Tables -> TableRecord] /\ dbt'[t] = x /\ \A u \in Tables \ {t} : dbt'[u] = dbt[u]
  BY DEF LoadInv, TablesOK
<1>2. ASSUME NEW u \in Tables
      PROVE  SameLoad(dbt'[u], dbt[u]) /\ dbt'[u].in_ready_queue = dbt[u].in_ready_queue
  <2>1. CASE u = t
    BY <1>1, <2>1
  <2>2. CASE u # t
    BY <1>1, <2>2 DEF SameLoad
  <2> QED
    BY <2>1, <2>2
<1>3. TablesOK'
  BY <1>1, <1>2, TablesKeep DEF LoadInv
<1> QED
  BY <1>2, <1>3, CountersKeep, ReadyKeep, JobsKeep DEF LoadInv

(* What enqueue_table_if_ready does to the table it is given. *)
LEMMA Enqueue ==
    ASSUME TablesOK, ready_table_queue \in Seq(Tables), ReadyOK, NEW t \in Tables,
           NEW r \in TableRecord, r.in_ready_queue = dbt[t].in_ready_queue,
           r.restore_job_list \subseteq 1 .. Parts[t], enqueue_table_if_ready(t, r)
    PROVE  /\ TablesOK' /\ ready_table_queue' \in Seq(Tables) /\ ReadyOK'
           /\ SameLoad(dbt'[t], r) /\ \A u \in Tables \ {t} : dbt'[u] = dbt[u]
           /\ dbt'[t].schema_state = r.schema_state /\ dbt'[t].no_data = r.no_data
<1> DEFINE push == HasJob(t, r) /\ ~r.in_ready_queue
           x == [r EXCEPT !.in_ready_queue = @ \/ push]
<1>1. /\ dbt' = [dbt EXCEPT ![t] = x]
      /\ ready_table_queue' = IF push THEN Append(ready_table_queue, t) ELSE ready_table_queue
  BY DEF enqueue_table_if_ready
<1>p. push \in BOOLEAN
  BY DEF HasJob
<1> HIDE DEF push
<1>2. /\ x \in TableRecord /\ SameLoad(x, r) /\ x.in_ready_queue = (r.in_ready_queue \/ push)
      /\ x.schema_state = r.schema_state /\ x.no_data = r.no_data
  BY <1>p DEF TableRecord, SameLoad
<1> HIDE DEF x
<1>3. x.restore_job_list \subseteq 1 .. Parts[t]
  BY <1>2 DEF SameLoad
<1>4. TablesOK' /\ dbt'[t] = x /\ \A u \in Tables \ {t} : dbt'[u] = dbt[u]
  BY <1>1, <1>2, <1>3, TablePut
<1>5. CASE push
  <2>0. ready_table_queue' = Append(ready_table_queue, t)
    BY <1>1, <1>5
  <2>1. ~dbt[t].in_ready_queue /\ x.in_ready_queue
    BY <1>2, <1>5 DEF push
  <2>2. \A P : Items(Append(ready_table_queue, t), P)
                 = IF t \in P THEN Items(ready_table_queue, P) + 1 ELSE Items(ready_table_queue, P)
    BY ItemsPush
  <2>3. ready_table_queue' \in Seq(Tables)
    BY <2>0
  <2>4. ASSUME NEW u \in Tables
        PROVE  Items(ready_table_queue', {u}) = IF dbt'[u].in_ready_queue THEN 1 ELSE 0
    <3>1. Items(ready_table_queue', {u})
            = IF t \in {u} THEN Items(ready_table_queue, {u}) + 1 ELSE Items(ready_table_queue, {u})
      BY <2>0, <2>2
    <3>2. Items(ready_table_queue, {u}) = IF dbt[u].in_ready_queue THEN 1 ELSE 0
      BY DEF ReadyOK
    <3>3. CASE u = t
      BY <1>4, <2>1, <3>1, <3>2, <3>3
    <3>4. CASE u # t
      BY <1>4, <3>1, <3>2, <3>4
    <3> QED
      BY <3>3, <3>4
  <2> QED
    BY <1>2, <1>4, <2>3, <2>4 DEF ReadyOK
<1>6. CASE ~push
  <2>1. ready_table_queue' = ready_table_queue /\ x.in_ready_queue = dbt[t].in_ready_queue
    BY <1>1, <1>2, <1>6 DEF TableRecord
  <2>2. \A u \in Tables : dbt'[u].in_ready_queue = dbt[u].in_ready_queue
    BY <1>4, <2>1
  <2> QED
    BY <1>2, <1>4, <2>1, <2>2, ReadyKeep
<1> QED
  BY <1>5, <1>6

LEMMA ListFinite ==
    ASSUME TablesOK, NEW t \in Tables
    PROVE  /\ IsFiniteSet(dbt[t].restore_job_list) /\ dbt[t].restore_job_list \in SUBSET Nat
           /\ Cardinality(dbt[t].restore_job_list) \in Nat /\ dbt[t] \in TableRecord
           /\ dbt[t].restore_job_list \subseteq 1 .. Parts[t]
<1>1. dbt[t].restore_job_list \subseteq 1 .. Parts[t] /\ dbt[t] \in TableRecord /\ Parts[t] \in Nat
  BY LoaderAssumption DEF TablesOK
<1>2. IsFiniteSet(1 .. Parts[t])
  BY <1>1, FS_Interval
<1>3. IsFiniteSet(dbt[t].restore_job_list)
  BY <1>1, <1>2, FS_Subset
<1>4. dbt[t].restore_job_list \in SUBSET Nat
  BY <1>1
<1> QED
  BY <1>1, <1>3, <1>4, FS_CardinalityType

LEMMA StateChanged ==
    ASSUME LoadInv, NEW t \in Tables, NEW s \in schema_status,
           dbt' = [dbt EXCEPT ![t].schema_state = s],
           ready_table_queue' = ready_table_queue, data_job_queue' = data_job_queue,
           loader' = loader
    PROVE  LoadInv'
<1> DEFINE r == dbt[t]
           x == [r EXCEPT !.schema_state = s]
<1>1. r \in TableRecord /\ dbt' = [dbt EXCEPT ![t] = x]
  BY DEF LoadInv, TablesOK
<1> HIDE DEF r
<1>2. x \in TableRecord /\ SameLoad(x, r) /\ x.in_ready_queue = r.in_ready_queue
  BY <1>1 DEF TableRecord, SameLoad
<1> HIDE DEF x
<1> QED
  BY <1>1, <1>2, StateStep DEF r

LEMMA CountsNat ==
    ASSUME JobsOK
    PROVE  \A P : Items(data_job_queue, P) \in Nat /\ Many(Loaders, loader, P) \in Nat
<1>1. IsFiniteSet(Loaders) /\ data_job_queue \in Seq(DataJobs)
  BY FiniteAssumption DEF JobsOK
<1>2. \A P : Items(data_job_queue, P) \in Nat
  BY <1>1, ItemsBound
<1>3. \A P : Many(Loaders, loader, P) \in Nat
  BY <1>1, ManyBound
<1> QED
  BY <1>2, <1>3

LEMMA LoadDataFile ==
    ASSUME LoadInv, FilesOK, HandsOK, NEW w \in FileWorkers, process_data_filename(w),
           data_job_queue' = data_job_queue, loader' = loader
    PROVE  LoadInv'
<1> DEFINE f == file_worker[w].job
           t == f.of
           r == dbt[t]
           p == f.part
           x == [r EXCEPT !.restore_job_list = @ \cup {p}, !.remaining_jobs = @ + 1]
<1>1. /\ file_worker[w].pc = "add"
      /\ \/ dbt' = dbt /\ ready_table_queue' = ready_table_queue
         \/ enqueue_table_if_ready(t, x)
  BY DEF process_data_filename
<1>2. f \in DumpFiles(options.tables) /\ f.kind = "data"
  BY <1>1, FileRecords DEF FileHandOK
<1>3. options.tables \in SUBSET Tables
  BY ModeShape DEF FilesOK
<1>4. IsFile(f, options.tables)
  <2> HIDE DEF f
  <2> QED
    BY <1>2, <1>3, FileShape
<1>5. t \in Tables /\ f.part \in 1 .. Parts[t]
  BY <1>2, <1>3, <1>4 DEF IsFile
<1>6. f.part \notin r.restore_job_list
  BY <1>1, <1>2 DEF HandsOK, Holds
<1>7. CASE dbt' = dbt /\ ready_table_queue' = ready_table_queue
  BY <1>7, LoadStays
<1>8. CASE enqueue_table_if_ready(t, x)
  <2> DEFINE L == r.restore_job_list
  <2>1. /\ IsFiniteSet(L) /\ L \in SUBSET Nat /\ Cardinality(L) \in Nat
        /\ r \in TableRecord /\ L \subseteq 1 .. Parts[t]
    BY <1>5, ListFinite DEF LoadInv
  <2>p. p \in Nat
    BY <1>5, LoaderAssumption
  <2>2. /\ x \in TableRecord /\ x.in_ready_queue = r.in_ready_queue
        /\ x.restore_job_list = L \cup {p} /\ x.remaining_jobs = r.remaining_jobs + 1
        /\ x.current_threads = r.current_threads
    <3>1. r \in TableRecord
      BY <2>1
    <3>2. L \cup {p} \in SUBSET Nat
      BY <2>1, <2>p
    <3> HIDE DEF r, p
    <3>3. r.remaining_jobs + 1 \in Int
      BY <3>1 DEF TableRecord
    <3> DEFINE n == r.remaining_jobs + 1
               M == L \cup {p}
    <3>4. x = [r EXCEPT !.restore_job_list = M, !.remaining_jobs = n]
      OBVIOUS
    <3> HIDE DEF n, M, x
    <3>5. n \in Int /\ M \in SUBSET Nat
      BY <3>2, <3>3 DEF n, M
    <3>6. /\ x \in TableRecord /\ x.in_ready_queue = r.in_ready_queue
          /\ x.restore_job_list = M /\ x.remaining_jobs = n /\ x.current_threads = r.current_threads
      BY <3>1, <3>4, <3>5 DEF TableRecord
    <3> QED
      BY <3>6 DEF n, M
  <2>3. Cardinality(L \cup {p}) = Cardinality(L) + 1
    BY <1>6, <2>1, FS_AddElement
  <2>4. x.restore_job_list \subseteq 1 .. Parts[t]
    BY <1>5, <2>1, <2>2
  <2> HIDE DEF x
  <2>5. /\ TablesOK' /\ ready_table_queue' \in Seq(Tables) /\ ReadyOK'
        /\ SameLoad(dbt'[t], x) /\ \A u \in Tables \ {t} : dbt'[u] = dbt[u]
    BY <1>5, <1>8, <2>2, <2>4, Enqueue DEF LoadInv
  <2>6. ASSUME NEW u \in Tables PROVE CountersAt(u)'
    <3>1. CountersAt(u)
      BY DEF LoadInv, CountersOK
    <3>2. CASE u = t
      <4>1. /\ dbt'[t].remaining_jobs = r.remaining_jobs + 1
            /\ dbt'[t].current_threads = r.current_threads
            /\ Cardinality(dbt'[t].restore_job_list) = Cardinality(L) + 1
        BY <2>2, <2>3, <2>5 DEF SameLoad
      <4>2. JobsOK /\ r.remaining_jobs \in Int
        BY <2>1 DEF LoadInv, TableRecord
      <4>3. /\ Items(data_job_queue, JobsOf(t)) \in Nat
            /\ Many(Loaders, loader, LoadingAt(t, {"load"})) \in Nat
        BY <4>2, CountsNat
      <4> DEFINE q == Items(data_job_queue, JobsOf(u))
                 l == Many(Loaders, loader, LoadingAt(u, {"load"}))
                 k == Many(Loaders, loader, LoadingAt(u, {"load", "release"}))
      <4>4. dbt[u].remaining_jobs = Cardinality(L) + q + l /\ dbt[u].current_threads = q + k
        BY <3>1, <3>2 DEF CountersAt
      <4>5. q' = q /\ l' = l /\ k' = k
        OBVIOUS
      <4>6. q \in Nat /\ l \in Nat /\ Cardinality(L) \in Nat
        BY <2>1, <3>2, <4>3
      <4>7. CountersAt(u)' <=> /\ dbt'[u].remaining_jobs = Cardinality(dbt'[u].restore_job_list) + q' + l'
                              /\ dbt'[u].current_threads = q' + k'
        BY DEF CountersAt
      <4>8. /\ dbt'[u].remaining_jobs = dbt[u].remaining_jobs + 1
            /\ dbt'[u].current_threads = dbt[u].current_threads
            /\ Cardinality(dbt'[u].restore_job_list) = Cardinality(L) + 1
        BY <3>2, <4>1
      <4> HIDE DEF q, l, k, L
      <4> QED
        BY <4>4, <4>5, <4>6, <4>7, <4>8
    <3>3. CASE u # t
      BY <2>5, <3>1, <3>3 DEF CountersAt
    <3> QED
      BY <3>2, <3>3
  <2> QED
    BY <2>5, <2>6, JobsKeep DEF LoadInv, CountersOK
<1> QED
  BY <1>1, <1>7, <1>8

LEMMA LoadFiles ==
    ASSUME LoadInv, FilesOK, HandsOK, NEW w \in FileWorkers, FileStep(w)
    PROVE  LoadInv'
<1>0. data_job_queue' = data_job_queue /\ loader' = loader
  BY FileFrame
<1>t. options.tables \in SUBSET Tables
  BY ModeShape DEF FilesOK
<1>s. "NOT_CREATED" \in schema_status
  BY DEF schema_status
<1>1. CASE process_schema_sequence_filename(w)
  <2>1. PICK f \in files : /\ f.kind = "sequence" /\ ready_table_queue' = ready_table_queue
                           /\ dbt' = [dbt EXCEPT ![f.of].schema_state = "NOT_CREATED"]
    BY <1>1 DEF process_schema_sequence_filename
  <2>2. f.of \in Tables
    BY <1>t, <2>1, FileShape DEF FilesOK, IsFile
  <2> QED
    BY <1>0, <1>s, <2>1, <2>2, StateChanged
<1>2. CASE parse_create_table_from_file(w)
  <2> DEFINE t == file_worker[w].job.of
  <2>1. /\ file_worker[w].pc = "mark" /\ ready_table_queue' = ready_table_queue
        /\ dbt' = [dbt EXCEPT ![t].schema_state = "NOT_CREATED"]
    BY <1>2 DEF parse_create_table_from_file
  <2>2. t \in Tables
    BY <2>1, JobShape DEF FilesOK, FileHandOK
  <2> HIDE DEF t
  <2> QED
    BY <1>0, <1>s, <2>1, <2>2, StateChanged
<1>3. CASE process_data_filename(w)
  BY <1>0, <1>3, LoadDataFile
<1>4. CASE process_database_filename(w) \/ append_new_db_table(w) \/ CheckParsed(w)
           \/ WakeAfterFile(w) \/ FileWorkerEnds(w)
  <2>1. dbt' = dbt /\ ready_table_queue' = ready_table_queue
    BY <1>4 DEF process_database_filename, append_new_db_table, CheckParsed, WakeAfterFile,
                FileWorkerEnds, tableVars
  <2> QED
    BY <1>0, <2>1, LoadStays
<1> QED
  BY <1>1, <1>2, <1>3, <1>4 DEF FileStep

LEMMA LoadSchema ==
    ASSUME LoadInv, SchemaOK, NEW w \in SchemaWorkers, SchemaStep(w)
    PROVE  LoadInv'
<1>0. data_job_queue' = data_job_queue /\ loader' = loader
  BY SchemaFrame
<1>s. {"NOT_CREATED", "CREATING", "CREATED"} \subseteq schema_status
  BY DEF schema_status
<1>h. SchemaHandOK(schema_worker[w])
  BY DEF SchemaOK
<1>1. CASE PopObjectJob(w)
  <2> DEFINE h == Head(schema_job_queue)
  <2>1. /\ schema_job_queue # <<>> /\ h.type \in {"SEQUENCE", "TABLE"}
        /\ ready_table_queue' = ready_table_queue
        /\ dbt' = [dbt EXCEPT ![h.of].schema_state = "CREATING"]
    BY <1>1 DEF PopObjectJob, Popped
  <2>2. h \in SchemaJobs
    BY <2>1 DEF SchemaOK
  <2>3. h.of \in Tables
    BY <2>1, <2>2, JobShape
  <2> HIDE DEF h
  <2> QED
    BY <1>0, <1>s, <2>1, <2>3, StateChanged
<1>2. CASE RestoreSequence(w)
  <2> DEFINE t == schema_worker[w].job
  <2>1. /\ schema_worker[w].pc = "sequence" /\ ready_table_queue' = ready_table_queue
        /\ \/ dbt' = dbt
           \/ dbt' = [dbt EXCEPT ![t].schema_state = "CREATED"]
    BY <1>2 DEF RestoreSequence
  <2>2. t \in Tables
    BY <1>h, <2>1, JobShape DEF SchemaHandOK
  <2> HIDE DEF t
  <2> QED
    BY <1>0, <1>s, <2>1, <2>2, StateChanged, LoadStays
<1>3. CASE PurgeFails(w)
  <2> DEFINE t == schema_worker[w].job
             r == dbt[t]
             x == [r EXCEPT !.retry_count = @ - 1, !.schema_state = "NOT_CREATED"]
  <2>1. /\ schema_worker[w].pc = "table" /\ ready_table_queue' = ready_table_queue
        /\ \/ dbt' = dbt
           \/ /\ r.retry_count # 0
              /\ dbt' = [dbt EXCEPT ![t].retry_count = @ - 1, ![t].schema_state = "NOT_CREATED"]
    BY <1>3 DEF PurgeFails
  <2>2. t \in Tables
    BY <1>h, <2>1, JobShape DEF SchemaHandOK
  <2> HIDE DEF t
  <2>3. CASE dbt' = dbt
    BY <1>0, <2>1, <2>3, LoadStays
  <2>4. CASE r.retry_count # 0
             /\ dbt' = [dbt EXCEPT ![t].retry_count = @ - 1, ![t].schema_state = "NOT_CREATED"]
    <3>1. r \in TableRecord /\ dbt' = [dbt EXCEPT ![t] = x]
      BY <2>2, <2>4 DEF LoadInv, TablesOK
    <3>2. r.retry_count - 1 \in Nat
      BY <2>4, <3>1 DEF TableRecord
    <3> HIDE DEF r
    <3>3. x \in TableRecord /\ SameLoad(x, r) /\ x.in_ready_queue = r.in_ready_queue
      BY <1>s, <3>1, <3>2 DEF TableRecord, SameLoad
    <3> HIDE DEF x
    <3> QED
      BY <1>0, <2>1, <2>2, <3>1, <3>3, StateStep DEF r
  <2> QED
    BY <2>1, <2>3, <2>4
<1>4. CASE CreateTable(w)
  <2> DEFINE t == schema_worker[w].job
             r == dbt[t]
             skip == schema_worker[w].pc = "create" /\ t \in server.tables /\ options.purge_mode = "SKIP"
             x == [r EXCEPT !.schema_state = "CREATED", !.no_data = @ \/ skip]
  <2>1. /\ schema_worker[w].pc \in {"create", "created"}
        /\ \/ dbt' = dbt /\ ready_table_queue' = ready_table_queue
           \/ enqueue_table_if_ready(t, x)
    BY <1>4 DEF CreateTable
  <2>2. t \in Tables
    BY <1>h, <2>1, JobShape DEF SchemaHandOK
  <2> HIDE DEF t
  <2>3. CASE dbt' = dbt /\ ready_table_queue' = ready_table_queue
    BY <1>0, <2>3, LoadStays
  <2>4. CASE enqueue_table_if_ready(t, x)
    <3>1. r \in TableRecord /\ r.restore_job_list \subseteq 1 .. Parts[t]
      BY <2>2 DEF LoadInv, TablesOK
    <3>2. x \in TableRecord /\ SameLoad(x, r) /\ x.in_ready_queue = r.in_ready_queue
      <4> HIDE DEF r, skip
      <4> QED
        BY <1>s, <3>1 DEF TableRecord, SameLoad
    <3>3. x.restore_job_list \subseteq 1 .. Parts[t]
      BY <3>1, <3>2 DEF SameLoad
    <3> HIDE DEF x
    <3>4. /\ TablesOK' /\ ready_table_queue' \in Seq(Tables) /\ ReadyOK'
          /\ SameLoad(dbt'[t], x) /\ \A u \in Tables \ {t} : dbt'[u] = dbt[u]
      BY <2>2, <2>4, <3>2, <3>3, Enqueue DEF LoadInv
    <3>5. \A u \in Tables : SameLoad(dbt'[u], dbt[u])
      BY <3>2, <3>4 DEF SameLoad
    <3> QED
      BY <1>0, <3>4, <3>5, CountersKeep, JobsKeep DEF LoadInv
  <2> QED
    BY <2>1, <2>3, <2>4
<1>5. CASE PopCreateJob(w) \/ CreateDatabase(w) \/ PurgeTable(w) \/ WakeAfterSchema(w)
           \/ SchemaProcessEnded(w) \/ SchemaWorkerEnds(w)
  <2>1. dbt' = dbt /\ ready_table_queue' = ready_table_queue
    BY <1>5 DEF PopCreateJob, CreateDatabase, PurgeTable, WakeAfterSchema,
                SchemaProcessEnded, SchemaWorkerEnds, tableVars
  <2> QED
    BY <1>0, <2>1, LoadStays
<1> QED
  BY <1>1, <1>2, <1>3, <1>4, <1>5 DEF SchemaStep

(* An item that goes back to the end of its queue. *)
LEMMA ItemsRotated ==
    ASSUME NEW T, NEW q \in Seq(T), q # <<>>
    PROVE  /\ Append(Tail(q), Head(q)) \in Seq(T)
           /\ \A P : Items(Append(Tail(q), Head(q)), P) = Items(q, P)
<1>t. Tail(q) \in Seq(T) /\ Head(q) \in T
  OBVIOUS
<1>1. PICK e \in Seq(T) : e = Tail(q)
  BY <1>t, Zenon
<1>2. PICK h \in T : h = Head(q)
  BY <1>t, Zenon
<1>c. \A P : Items(Tail(q), P) = IF Head(q) \in P THEN Items(q, P) - 1 ELSE Items(q, P)
  BY ItemsTail
<1>3. \A P : Items(e, P) = IF h \in P THEN Items(q, P) - 1 ELSE Items(q, P)
  BY <1>1, <1>2, <1>c
<1>4. \A P : Items(Append(e, h), P) = IF h \in P THEN Items(e, P) + 1 ELSE Items(e, P)
  BY ItemsPush
<1>5. \A P : Items(q, P) \in Nat
  BY ItemsBound
<1>6. ASSUME NEW P PROVE Items(Append(e, h), P) = Items(q, P)
  BY <1>3, <1>4, <1>5
<1>7. Append(e, h) \in Seq(T)
  OBVIOUS
<1> QED
  BY <1>1, <1>2, <1>6, <1>7

LoaderMoved(l, x) ==
    /\ loader' \in [Loaders -> LoaderRecord]
    /\ \A v \in Loaders : loader'[v].pc \in {"load", "release"} => loader'[v].job.of \in Tables
    /\ \A P : Many(Loaders, loader', P) =
                 IF (loader[l] \in P <=> x \in P) THEN Many(Loaders, loader, P)
                 ELSE IF x \in P THEN Many(Loaders, loader, P) + 1
                 ELSE Many(Loaders, loader, P) - 1

LEMMA LoaderSet ==
    ASSUME JobsOK, NEW l \in Loaders, NEW x \in LoaderRecord,
           x.pc \in {"load", "release"} => x.job.of \in Tables,
           loader' = [loader EXCEPT ![l] = x]
    PROVE  LoaderMoved(l, x)
<1>1. loader' \in [Loaders -> LoaderRecord] /\ loader[l] \in LoaderRecord
  BY DEF JobsOK
<1>2. \A v \in Loaders : loader'[v] = IF v = l THEN x ELSE loader[v]
  BY DEF JobsOK
<1>3. \A v \in Loaders : loader'[v].pc \in {"load", "release"} => loader'[v].job.of \in Tables
  BY <1>2 DEF JobsOK
<1>4. Moved(Loaders, loader, loader', l, loader[l], x)
  BY <1>2 DEF Moved
<1>5. \A P : Many(Loaders, loader', P) =
                IF (loader[l] \in P <=> x \in P) THEN Many(Loaders, loader, P)
                ELSE IF x \in P THEN Many(Loaders, loader, P) + 1
                ELSE Many(Loaders, loader, P) - 1
  BY <1>4, FiniteAssumption, ManyMoved
<1> QED
  BY <1>1, <1>3, <1>5 DEF LoaderMoved

(* A loader's record counts for the table of its job. *)
LEMMA LoadingShape ==
    ASSUME NEW r \in LoaderRecord
    PROVE  \A t, pcs : r \in LoadingAt(t, pcs) <=> r.pc \in pcs /\ r.job.of = t
  BY DEF LoadingAt

LEMMA JobsShape ==
    /\ \A j \in DataJobs : \A t \in Tables : j \in JobsOf(t) <=> j.of = t
    /\ \A j \in DataJobs : Ended(j) \/ (j.of \in Tables /\ j \in [of : Tables, part : Nat])
    /\ \A j \in DataJobs : j.of \in Tables \cup {"none", "PROCESS_ENDED"} /\ j.part \in Nat
    /\ \A j \in DataJobs : j = [of |-> j.of, part |-> j.part]
    /\ DataJob("PROCESS_ENDED", 0) \in DataJobs
    /\ \A t \in Tables, p \in Nat : DataJob(t, p) \in DataJobs /\ DataJob(t, p).of = t
    /\ \A t \in Tables : DataJob("PROCESS_ENDED", 0) \notin JobsOf(t)
<1>1. "PROCESS_ENDED" \notin Tables
  BY FiniteAssumption
<1> QED
  BY <1>1 DEF DataJobs, JobsOf, DataJob, Ended

LEMMA LoadLoader ==
    ASSUME LoadInv, NEW l \in Loaders, LoaderStep(l)
    PROVE  LoadInv'
<1>0. ready_table_queue' = ready_table_queue
  BY LoaderFrame
<1>j. JobsOK /\ TablesOK /\ CountersOK /\ data_job_queue \in Seq(DataJobs)
  BY DEF LoadInv, JobsOK
<1> DEFINE a == loader[l]
<1>r. /\ a \in LoaderRecord /\ a.job.of \in Tables \cup {"none", "PROCESS_ENDED"}
      /\ a.pc \in {"load", "release"} => a.job.of \in Tables
  BY <1>j DEF JobsOK, LoaderRecord
<1>n. \A P : Items(data_job_queue, P) \in Nat /\ Many(Loaders, loader, P) \in Nat
  BY <1>j, CountsNat
<1>1. CASE Request(l) \/ LoaderEnds(l)
  <2>1. /\ a.pc \in {"idle", "wait"} /\ dbt' = dbt
        /\ \E v \in {"wait", "left"} : loader' = [loader EXCEPT ![l] = [a EXCEPT !.pc = v]]
    BY <1>1 DEF Request, LoaderEnds, tableVars
  <2>2. PICK v \in {"wait", "left"} : loader' = [loader EXCEPT ![l] = [a EXCEPT !.pc = v]]
    BY <2>1
  <2> DEFINE y == [a EXCEPT !.pc = v]
  <2>3. y \in LoaderRecord /\ y.pc \in {"wait", "left"}
    <3> HIDE DEF a
    <3> QED
      BY <1>r DEF LoaderRecord
  <2> HIDE DEF y
  <2>4. LoaderMoved(l, y)
    <3>1. loader' = [loader EXCEPT ![l] = y]
      BY <2>2 DEF y
    <3> QED
      BY <1>j, <2>3, <3>1, LoaderSet
  <2>5. \A t : /\ a \notin LoadingAt(t, {"load"}) /\ a \notin LoadingAt(t, {"load", "release"})
               /\ y \notin LoadingAt(t, {"load"}) /\ y \notin LoadingAt(t, {"load", "release"})
    BY <1>r, <2>1, <2>3, LoadingShape
  <2>6. \A t : /\ Many(Loaders, loader', LoadingAt(t, {"load"}))
                     = Many(Loaders, loader, LoadingAt(t, {"load"}))
               /\ Many(Loaders, loader', LoadingAt(t, {"load", "release"}))
                     = Many(Loaders, loader, LoadingAt(t, {"load", "release"}))
    BY <2>4, <2>5 DEF LoaderMoved
  <2>7. /\ data_job_queue' \in Seq(DataJobs)
        /\ \A t \in Tables : Items(data_job_queue', JobsOf(t)) = Items(data_job_queue, JobsOf(t))
    <3>1. CASE Request(l)
      BY <1>j, <3>1 DEF Request
    <3>2. CASE LoaderEnds(l)
      <4> DEFINE q == data_job_queue
                 e == Tail(q)
      <4>1. q # <<>> /\ Ended(Head(q)) /\ data_job_queue' = Append(e, Head(q))
        BY <3>2 DEF LoaderEnds
      <4>2. data_job_queue' \in Seq(DataJobs) /\ \A P : Items(data_job_queue', P) = Items(q, P)
        BY <1>j, <4>1, ItemsRotated
      <4> QED
        BY <4>2
    <3> QED
      BY <1>1, <3>1, <3>2
  <2>8. ASSUME NEW t \in Tables PROVE CountersAt(t)'
    <3>1. CountersAt(t)
      BY <1>j DEF CountersOK
    <3> QED
      BY <2>1, <2>6, <2>7, <3>1 DEF CountersAt
  <2>9. TablesOK' /\ ReadyOK'
    BY <1>0, <2>1, ReadyKeep DEF LoadInv, TablesOK
  <2> QED
    BY <1>0, <2>4, <2>7, <2>8, <2>9 DEF LoadInv, JobsOK, CountersOK, LoaderMoved
<1>2. CASE TakeJob(l)
  <2> DEFINE q == data_job_queue
             h == Head(q)
             x == At("load", h)
  <2>1. /\ a.pc = "wait" /\ q # <<>> /\ ~Ended(h) /\ dbt' = dbt
        /\ loader' = [loader EXCEPT ![l] = x] /\ data_job_queue' = Tail(q)
    BY <1>2 DEF TakeJob, tableVars
  <2>2. q \in Seq(DataJobs) /\ Tail(q) \in Seq(DataJobs) /\ h \in DataJobs
    BY <1>j, <2>1
  <2>3. \A P : Items(Tail(q), P) = IF h \in P THEN Items(q, P) - 1 ELSE Items(q, P)
    BY <2>1, <2>2, ItemsTail
  <2>4. h.of \in Tables /\ h \in [of : Tables, part : Nat]
    BY <2>1, <2>2, JobsShape
  <2> HIDE DEF h
  <2>5. x \in LoaderRecord /\ x.pc = "load" /\ x.job = h
    BY <2>4 DEF LoaderRecord, At
  <2> HIDE DEF x
  <2>6. LoaderMoved(l, x)
    BY <1>j, <2>1, <2>4, <2>5, LoaderSet
  <2>7. ASSUME NEW t \in Tables PROVE CountersAt(t)'
    <3>1. CountersAt(t)
      BY <1>j DEF CountersOK
    <3>2. Items(data_job_queue', JobsOf(t))
            = IF h.of = t THEN Items(q, JobsOf(t)) - 1 ELSE Items(q, JobsOf(t))
      BY <2>1, <2>2, <2>3, JobsShape
    <3>3. /\ a \notin LoadingAt(t, {"load"}) /\ a \notin LoadingAt(t, {"load", "release"})
          /\ x \in LoadingAt(t, {"load"}) <=> h.of = t
          /\ x \in LoadingAt(t, {"load", "release"}) <=> h.of = t
      BY <1>r, <2>1, <2>5, LoadingShape
    <3>4. /\ Many(Loaders, loader', LoadingAt(t, {"load"}))
               = IF h.of = t THEN Many(Loaders, loader, LoadingAt(t, {"load"})) + 1
                             ELSE Many(Loaders, loader, LoadingAt(t, {"load"}))
          /\ Many(Loaders, loader', LoadingAt(t, {"load", "release"}))
               = IF h.of = t THEN Many(Loaders, loader, LoadingAt(t, {"load", "release"})) + 1
                             ELSE Many(Loaders, loader, LoadingAt(t, {"load", "release"}))
      BY <2>6, <3>3 DEF LoaderMoved
    <3>5. dbt'[t] = dbt[t] /\ Cardinality(dbt[t].restore_job_list) \in Nat
      BY <1>j, <2>1, ListFinite
    <3> DEFINE i == Items(q, JobsOf(t))
               m == Many(Loaders, loader, LoadingAt(t, {"load"}))
               b == Many(Loaders, loader, LoadingAt(t, {"load", "release"}))
    <3>6. i \in Nat /\ m \in Nat /\ b \in Nat
      BY <1>n
    <3>7. /\ dbt[t].remaining_jobs = Cardinality(dbt[t].restore_job_list) + i + m
          /\ dbt[t].current_threads = i + b
      BY <3>1 DEF CountersAt
    <3> HIDE DEF i, m, b
    <3>8. /\ dbt'[t].remaining_jobs = Cardinality(dbt'[t].restore_job_list)
                + Items(data_job_queue', JobsOf(t)) + Many(Loaders, loader', LoadingAt(t, {"load"}))
          /\ dbt'[t].current_threads = Items(data_job_queue', JobsOf(t))
                + Many(Loaders, loader', LoadingAt(t, {"load", "release"}))
      BY <3>2, <3>4, <3>5, <3>6, <3>7 DEF i, m, b
    <3> QED
      BY <3>8 DEF CountersAt
  <2>8. TablesOK' /\ ReadyOK'
    BY <1>0, <2>1, ReadyKeep DEF LoadInv, TablesOK
  <2>9. data_job_queue' \in Seq(DataJobs)
    BY <2>1, <2>2
  <2> QED
    BY <1>0, <2>6, <2>7, <2>8, <2>9 DEF LoadInv, JobsOK, CountersOK, LoaderMoved
<1>3. CASE RestoreFilename(l)
  <2> DEFINE t == a.job.of
             r == dbt[t]
             x == [a EXCEPT !.pc = "release"]
             n == r.remaining_jobs - 1
  <2>1. /\ a.pc = "load" /\ data_job_queue' = data_job_queue
        /\ \/ dbt' = dbt /\ loader' = loader
           \/ /\ dbt' = [dbt EXCEPT ![t].remaining_jobs = @ - 1]
              /\ loader' = [loader EXCEPT ![l] = x]
    BY <1>3 DEF RestoreFilename, loaderVars
  <2>2. CASE dbt' = dbt /\ loader' = loader
    BY <1>0, <2>1, <2>2, LoadStays
  <2>3. CASE /\ dbt' = [dbt EXCEPT ![t].remaining_jobs = @ - 1]
             /\ loader' = [loader EXCEPT ![l] = x]
    <3>1. t \in Tables /\ r \in TableRecord /\ r.restore_job_list \subseteq 1 .. Parts[t]
      BY <1>j, <1>r, <2>1 DEF TablesOK
    <3>2. x \in LoaderRecord /\ x.pc = "release" /\ x.job.of = t
      <4> HIDE DEF a
      <4> QED
        BY <1>r DEF LoaderRecord
    <3> DEFINE y == [r EXCEPT !.remaining_jobs = n]
    <3>3. dbt' = [dbt EXCEPT ![t] = y]
      BY <1>j, <2>3, <3>1 DEF TablesOK
    <3> HIDE DEF r
    <3>4. n \in Int
      BY <3>1 DEF TableRecord
    <3> HIDE DEF n
    <3>5. /\ y \in TableRecord /\ y.remaining_jobs = n /\ y.current_threads = r.current_threads
          /\ y.restore_job_list = r.restore_job_list /\ y.in_ready_queue = r.in_ready_queue
      BY <3>1, <3>4 DEF TableRecord
    <3> HIDE DEF x, y
    <3>6. TablesOK' /\ dbt'[t] = y /\ \A u \in Tables \ {t} : dbt'[u] = dbt[u]
      BY <1>j, <3>1, <3>3, <3>5, TablePut
    <3>7. ReadyOK'
      <4>1. \A u \in Tables : dbt'[u].in_ready_queue = dbt[u].in_ready_queue
        BY <3>5, <3>6 DEF r
      <4> QED
        BY <1>0, <4>1, ReadyKeep DEF LoadInv
    <3>8. LoaderMoved(l, x)
      BY <1>j, <2>3, <3>1, <3>2, LoaderSet
    <3>9. ASSUME NEW u \in Tables PROVE CountersAt(u)'
      <4>1. CountersAt(u)
        BY <1>j DEF CountersOK
      <4>2. /\ a \in LoadingAt(u, {"load"}) <=> u = t
            /\ a \in LoadingAt(u, {"load", "release"}) <=> u = t
            /\ x \notin LoadingAt(u, {"load"})
            /\ x \in LoadingAt(u, {"load", "release"}) <=> u = t
        BY <1>r, <2>1, <3>2, LoadingShape
      <4>3. /\ Many(Loaders, loader', LoadingAt(u, {"load"}))
                 = IF u = t THEN Many(Loaders, loader, LoadingAt(u, {"load"})) - 1
                            ELSE Many(Loaders, loader, LoadingAt(u, {"load"}))
            /\ Many(Loaders, loader', LoadingAt(u, {"load", "release"}))
                 = Many(Loaders, loader, LoadingAt(u, {"load", "release"}))
        BY <3>8, <4>2 DEF LoaderMoved
      <4> DEFINE i == Items(data_job_queue, JobsOf(u))
                 m == Many(Loaders, loader, LoadingAt(u, {"load"}))
                 b == Many(Loaders, loader, LoadingAt(u, {"load", "release"}))
                 c == Cardinality(dbt[u].restore_job_list)
      <4>4. i \in Nat /\ m \in Nat /\ b \in Nat /\ c \in Nat
        BY <1>j, <1>n, ListFinite
      <4>5. dbt[u].remaining_jobs = c + i + m /\ dbt[u].current_threads = i + b
        BY <4>1 DEF CountersAt
      <4>6. /\ dbt'[u].remaining_jobs = IF u = t THEN dbt[u].remaining_jobs - 1
                                                 ELSE dbt[u].remaining_jobs
            /\ dbt'[u].current_threads = dbt[u].current_threads
            /\ Cardinality(dbt'[u].restore_job_list) = c
        BY <3>5, <3>6 DEF r, n
      <4>7. data_job_queue' = data_job_queue
        BY <2>1
      <4> HIDE DEF i, m, b, c, t
      <4>8. /\ dbt'[u].remaining_jobs = Cardinality(dbt'[u].restore_job_list)
                  + Items(data_job_queue', JobsOf(u)) + Many(Loaders, loader', LoadingAt(u, {"load"}))
            /\ dbt'[u].current_threads = Items(data_job_queue', JobsOf(u))
                  + Many(Loaders, loader', LoadingAt(u, {"load", "release"}))
        BY <4>3, <4>4, <4>5, <4>6, <4>7 DEF i, m, b
      <4> QED
        BY <4>8 DEF CountersAt
    <3> QED
      BY <1>0, <1>j, <2>1, <3>6, <3>7, <3>8, <3>9 DEF LoadInv, JobsOK, CountersOK, LoaderMoved
  <2> QED
    BY <2>1, <2>2, <2>3
<1>4. CASE ReleaseTable(l)
  <2> DEFINE t == a.job.of
             r == dbt[t]
             x == LoaderIdle
             n == r.current_threads - 1
  <2>1. /\ a.pc = "release" /\ data_job_queue' = data_job_queue
        /\ dbt' = [dbt EXCEPT ![t].current_threads = @ - 1]
        /\ loader' = [loader EXCEPT ![l] = x]
    BY <1>4 DEF ReleaseTable
  <2>2. t \in Tables /\ r \in TableRecord /\ r.restore_job_list \subseteq 1 .. Parts[t]
    BY <1>j, <1>r, <2>1 DEF TablesOK
  <2>3. x \in LoaderRecord /\ x.pc = "idle"
    BY DEF LoaderRecord, LoaderIdle, At, DataJob
  <2> DEFINE y == [r EXCEPT !.current_threads = n]
  <2>4. dbt' = [dbt EXCEPT ![t] = y]
    BY <1>j, <2>1, <2>2 DEF TablesOK
  <2> HIDE DEF r
  <2>5. n \in Int
    BY <2>2 DEF TableRecord
  <2> HIDE DEF n
  <2>6. /\ y \in TableRecord /\ y.current_threads = n /\ y.remaining_jobs = r.remaining_jobs
        /\ y.restore_job_list = r.restore_job_list /\ y.in_ready_queue = r.in_ready_queue
    BY <2>2, <2>5 DEF TableRecord
  <2> HIDE DEF x, y
  <2>7. TablesOK' /\ dbt'[t] = y /\ \A u \in Tables \ {t} : dbt'[u] = dbt[u]
    BY <1>j, <2>2, <2>4, <2>6, TablePut
  <2>8. ReadyOK'
    <3>1. \A u \in Tables : dbt'[u].in_ready_queue = dbt[u].in_ready_queue
      BY <2>6, <2>7 DEF r
    <3> QED
      BY <1>0, <3>1, ReadyKeep DEF LoadInv
  <2>9. LoaderMoved(l, x)
    BY <1>j, <2>1, <2>3, LoaderSet
  <2>10. ASSUME NEW u \in Tables PROVE CountersAt(u)'
    <3>1. CountersAt(u)
      BY <1>j DEF CountersOK
    <3>2. /\ a \notin LoadingAt(u, {"load"}) /\ x \notin LoadingAt(u, {"load"})
          /\ a \in LoadingAt(u, {"load", "release"}) <=> u = t
          /\ x \notin LoadingAt(u, {"load", "release"})
      BY <1>r, <2>1, <2>3, LoadingShape
    <3>3. /\ Many(Loaders, loader', LoadingAt(u, {"load"}))
               = Many(Loaders, loader, LoadingAt(u, {"load"}))
          /\ Many(Loaders, loader', LoadingAt(u, {"load", "release"}))
               = IF u = t THEN Many(Loaders, loader, LoadingAt(u, {"load", "release"})) - 1
                          ELSE Many(Loaders, loader, LoadingAt(u, {"load", "release"}))
      BY <2>9, <3>2 DEF LoaderMoved
    <3> DEFINE i == Items(data_job_queue, JobsOf(u))
               m == Many(Loaders, loader, LoadingAt(u, {"load"}))
               b == Many(Loaders, loader, LoadingAt(u, {"load", "release"}))
               c == Cardinality(dbt[u].restore_job_list)
    <3>4. i \in Nat /\ m \in Nat /\ b \in Nat /\ c \in Nat
      BY <1>j, <1>n, ListFinite
    <3>5. dbt[u].remaining_jobs = c + i + m /\ dbt[u].current_threads = i + b
      BY <3>1 DEF CountersAt
    <3>6. /\ dbt'[u].current_threads = IF u = t THEN dbt[u].current_threads - 1
                                                ELSE dbt[u].current_threads
          /\ dbt'[u].remaining_jobs = dbt[u].remaining_jobs
          /\ Cardinality(dbt'[u].restore_job_list) = c
      BY <2>6, <2>7 DEF r, n
    <3>7. data_job_queue' = data_job_queue
      BY <2>1
    <3> HIDE DEF i, m, b, c, t
    <3>8. /\ dbt'[u].remaining_jobs = Cardinality(dbt'[u].restore_job_list)
                + Items(data_job_queue', JobsOf(u)) + Many(Loaders, loader', LoadingAt(u, {"load"}))
          /\ dbt'[u].current_threads = Items(data_job_queue', JobsOf(u))
                + Many(Loaders, loader', LoadingAt(u, {"load", "release"}))
      BY <3>3, <3>4, <3>5, <3>6, <3>7 DEF i, m, b
    <3> QED
      BY <3>8 DEF CountersAt
  <2> QED
    BY <1>0, <1>j, <2>1, <2>7, <2>8, <2>9, <2>10 DEF LoadInv, JobsOK, CountersOK, LoaderMoved
<1> QED
  BY <1>1, <1>2, <1>3, <1>4 DEF LoaderStep

-----------------------------------------------------------------------------
(* The dispatcher *)

LEMMA NextPartOK ==
    ASSUME NEW r, r.restore_job_list \in SUBSET Nat, r.restore_job_list # {}
    PROVE  NextPart(r) \in r.restore_job_list
<1> DEFINE S == r.restore_job_list
<1>1. S \in SUBSET Nat /\ S # {}
  OBVIOUS
<1> HIDE DEF S
<1>2. \E p \in S : \A q \in S : p <= q
  BY <1>1, LeastNatural
<1>3. (CHOOSE p \in S : \A q \in S : p <= q) \in S
  BY <1>2
<1> QED
  BY <1>3 DEF S, NextPart

(* The tables as B has them and the queue Q of the ready ones. *)
BaseOK(B, Q) ==
    /\ B \in [Tables -> TableRecord] /\ Q \in Seq(Tables)
    /\ \A u \in Tables : /\ SameLoad(B[u], dbt[u])
                         /\ Items(Q, {u}) = IF B[u].in_ready_queue THEN 1 ELSE 0

LEMMA BaseStep ==
    ASSUME LoadInv, BaseOK(dbt', ready_table_queue'), data_job_queue' = data_job_queue,
           loader' = loader
    PROVE  LoadInv'
<1>1. \A u \in Tables : SameLoad(dbt'[u], dbt[u])
  BY DEF BaseOK
<1>2. TablesOK' /\ CountersOK' /\ JobsOK'
  BY <1>1, TablesKeep, CountersKeep, JobsKeep DEF LoadInv, BaseOK
<1>3. ready_table_queue' \in Seq(Tables) /\ ReadyOK'
  BY DEF BaseOK, ReadyOK
<1> QED
  BY <1>2, <1>3 DEF LoadInv

(* Table t gives the job of its part p. *)
Given(B, Q, t, p) ==
    LET r == Dispatched(B[t])
    IN  /\ data_job_queue' = Append(data_job_queue, DataJob(t, p))
        /\ dbt' = [B EXCEPT ![t] = [r EXCEPT !.in_ready_queue = HasJob(t, r)]]
        /\ ready_table_queue' = IF HasJob(t, r) THEN Append(Q, t) ELSE Q

LEMMA GiveJob ==
    ASSUME LoadInv, NEW B, NEW Q, BaseOK(B, Q), NEW t \in Tables,
           dbt[t].restore_job_list # {}, ~B[t].in_ready_queue,
           Given(B, Q, t, NextPart(dbt[t])), loader' = loader
    PROVE  LoadInv'
<1> DEFINE b == B[t]
           r == Dispatched(b)
           has == HasJob(t, r)
           x == [r EXCEPT !.in_ready_queue = has]
           p == NextPart(dbt[t])
           L == dbt[t].restore_job_list
<1>j. JobsOK /\ TablesOK /\ CountersOK /\ data_job_queue \in Seq(DataJobs)
  BY DEF LoadInv, JobsOK
<1>1. /\ data_job_queue' = Append(data_job_queue, DataJob(t, p))
      /\ dbt' = [B EXCEPT ![t] = x]
      /\ ready_table_queue' = IF has THEN Append(Q, t) ELSE Q
  BY DEF Given
<1>2. /\ IsFiniteSet(L) /\ L \in SUBSET Nat /\ Cardinality(L) \in Nat
      /\ L \subseteq 1 .. Parts[t]
  BY <1>j, ListFinite
<1>3. p \in L
  BY <1>2, NextPartOK
<1>4. b \in TableRecord /\ SameLoad(b, dbt[t]) /\ NextPart(b) = p
  BY DEF BaseOK, SameLoad, NextPart
<1>h. has \in BOOLEAN
  BY DEF HasJob
<1>5. /\ x \in TableRecord /\ x.in_ready_queue = has /\ x.restore_job_list = L \ {p}
      /\ x.current_threads = b.current_threads + 1 /\ x.remaining_jobs = b.remaining_jobs
  <2> DEFINE n == b.current_threads + 1
             M == L \ {p}
             y == [b EXCEPT !.restore_job_list = M, !.current_threads = n]
  <2>1. r = y
    BY <1>4 DEF Dispatched, SameLoad
  <2>2. M \in SUBSET Nat
    BY <1>2
  <2> HIDE DEF b, has, p, M, r
  <2>3. n \in Int
    BY <1>4 DEF TableRecord
  <2> HIDE DEF n
  <2>4. x = [b EXCEPT !.restore_job_list = M, !.current_threads = n, !.in_ready_queue = has]
    BY <1>4, <2>1 DEF TableRecord
  <2> HIDE DEF x
  <2>5. /\ x \in TableRecord /\ x.in_ready_queue = has /\ x.restore_job_list = M
        /\ x.current_threads = n /\ x.remaining_jobs = b.remaining_jobs
    BY <1>4, <1>h, <2>2, <2>3, <2>4 DEF TableRecord
  <2> QED
    BY <2>5 DEF M, n
<1>6. Cardinality(L \ {p}) = Cardinality(L) - 1
  BY <1>2, <1>3, FS_RemoveElement
<1> HIDE DEF x, has, p, b
<1>7. /\ dbt' \in [Tables -> TableRecord] /\ dbt'[t] = x
      /\ \A u \in Tables \ {t} : dbt'[u] = B[u]
  BY <1>1, <1>5 DEF BaseOK
<1>8. TablesOK'
  <2>1. \A u \in Tables : dbt'[u].restore_job_list \subseteq 1 .. Parts[u]
    <3> TAKE u \in Tables
    <3>1. CASE u = t
      BY <1>2, <1>5, <1>7, <3>1
    <3>2. CASE u # t
      BY <1>7, <1>j, <3>2 DEF BaseOK, SameLoad, TablesOK
    <3> QED
      BY <3>1, <3>2
  <2> QED
    BY <1>7, <2>1 DEF TablesOK
<1>9. ready_table_queue' \in Seq(Tables) /\ ReadyOK'
  <2>q. Q \in Seq(Tables)
    BY DEF BaseOK
  <2>1. \A P : Items(Append(Q, t), P) = IF t \in P THEN Items(Q, P) + 1 ELSE Items(Q, P)
    BY <2>q, ItemsPush
  <2>2. ready_table_queue' \in Seq(Tables)
    BY <1>1, <2>q
  <2>3. ASSUME NEW u \in Tables
        PROVE  Items(ready_table_queue', {u}) = IF dbt'[u].in_ready_queue THEN 1 ELSE 0
    <3>1. Items(Q, {u}) = IF B[u].in_ready_queue THEN 1 ELSE 0
      BY DEF BaseOK
    <3>2. CASE u = t /\ has
      <4>1. Items(ready_table_queue', {u}) = Items(Q, {u}) + 1
        BY <1>1, <2>1, <3>2
      <4>2. Items(Q, {u}) = 0
        BY <3>1, <3>2
      <4>3. dbt'[u].in_ready_queue
        BY <1>5, <1>7, <3>2, Zenon
      <4> QED
        BY <4>1, <4>2, <4>3
    <3>3. CASE u = t /\ ~has
      BY <1>1, <1>5, <1>7, <3>1, <3>3
    <3>4. CASE u # t
      BY <1>1, <1>7, <2>1, <3>1, <3>4
    <3> QED
      BY <3>2, <3>3, <3>4
  <2> QED
    BY <2>2, <2>3 DEF ReadyOK
<1>10. DataJob(t, p) \in DataJobs /\ DataJob(t, p).of = t
  BY <1>2, <1>3, JobsShape
<1>11. /\ data_job_queue' \in Seq(DataJobs)
       /\ \A P : Items(data_job_queue', P) = IF DataJob(t, p) \in P THEN Items(data_job_queue, P) + 1
                                             ELSE Items(data_job_queue, P)
  <2>1. PICK j \in DataJobs : j = DataJob(t, p)
    BY <1>10
  <2>2. \A P : Items(Append(data_job_queue, j), P)
                 = IF j \in P THEN Items(data_job_queue, P) + 1 ELSE Items(data_job_queue, P)
    BY <1>j, ItemsPush
  <2> QED
    BY <1>1, <1>j, <2>1, <2>2
<1>12. ASSUME NEW u \in Tables PROVE CountersAt(u)'
  <2>1. CountersAt(u) /\ Cardinality(dbt[u].restore_job_list) \in Nat
    BY <1>j, ListFinite DEF CountersOK
  <2>2. DataJob(t, p) \in JobsOf(u) <=> u = t
    BY <1>10, JobsShape
  <2>3. Items(data_job_queue', JobsOf(u))
          = IF u = t THEN Items(data_job_queue, JobsOf(u)) + 1 ELSE Items(data_job_queue, JobsOf(u))
    BY <1>11, <2>2
  <2>4. /\ Cardinality(dbt'[u].restore_job_list)
              = IF u = t THEN Cardinality(dbt[u].restore_job_list) - 1
                         ELSE Cardinality(dbt[u].restore_job_list)
        /\ dbt'[u].remaining_jobs = dbt[u].remaining_jobs
        /\ dbt'[u].current_threads = IF u = t THEN dbt[u].current_threads + 1
                                               ELSE dbt[u].current_threads
    <3>1. CASE u = t
      BY <1>4, <1>5, <1>6, <1>7, <3>1 DEF SameLoad
    <3>2. CASE u # t
      BY <1>7, <3>2 DEF BaseOK, SameLoad
    <3> QED
      BY <3>1, <3>2
  <2> DEFINE i == Items(data_job_queue, JobsOf(u))
             m == Many(Loaders, loader, LoadingAt(u, {"load"}))
             k == Many(Loaders, loader, LoadingAt(u, {"load", "release"}))
             c == Cardinality(dbt[u].restore_job_list)
  <2>5. i \in Nat /\ m \in Nat /\ k \in Nat /\ c \in Nat
    BY <1>j, <2>1, CountsNat
  <2>6. dbt[u].remaining_jobs = c + i + m /\ dbt[u].current_threads = i + k
    BY <2>1 DEF CountersAt
  <2> HIDE DEF i, m, k, c
  <2>7. /\ dbt'[u].remaining_jobs = Cardinality(dbt'[u].restore_job_list)
              + Items(data_job_queue', JobsOf(u)) + Many(Loaders, loader', LoadingAt(u, {"load"}))
        /\ dbt'[u].current_threads = Items(data_job_queue', JobsOf(u))
              + Many(Loaders, loader', LoadingAt(u, {"load", "release"}))
    BY <2>3, <2>4, <2>5, <2>6 DEF i, m, k, c
  <2> QED
    BY <2>7 DEF CountersAt
<1>13. JobsOK'
  BY <1>j, <1>11 DEF JobsOK
<1> QED
  BY <1>8, <1>9, <1>12, <1>13 DEF LoadInv, CountersOK

(* The tables in front of the n-th of the queue are dropped from it. *)
LEMMA UnqueuedOK ==
    ASSUME LoadInv, NEW n \in 0 .. Len(ready_table_queue)
    PROVE  /\ BaseOK(Unqueued(n), SubSeq(ready_table_queue, n + 1, Len(ready_table_queue)))
           /\ \A u \in Tables : /\ Unqueued(n)[u].schema_state = dbt[u].schema_state
                                /\ Unqueued(n)[u].no_data = dbt[u].no_data
           /\ \A i \in 1 .. n : ~Unqueued(n)[ready_table_queue[i]].in_ready_queue
<1> DEFINE q == ready_table_queue
           a == SubSeq(q, 1, n)
           z == SubSeq(q, n + 1, Len(q))
           out(u) == \A i \in 1 .. n : q[i] # u
<1>q. q \in Seq(Tables) /\ dbt \in [Tables -> TableRecord]
  BY DEF LoadInv, TablesOK
<1>1. /\ z \in Seq(Tables) /\ a \in Seq(Tables)
      /\ \A P : Items(q, P) = Items(a, P) + Items(z, P)
      /\ \A P : Items(a, P) = 0 <=> \A i \in 1 .. n : q[i] \notin P
  <2>1. /\ SubSeq(q, 1, n) \in Seq(Tables) /\ SubSeq(q, n + 1, Len(q)) \in Seq(Tables)
        /\ \A P : Items(q, P) = Items(SubSeq(q, 1, n), P) + Items(SubSeq(q, n + 1, Len(q)), P)
        /\ \A P : Items(SubSeq(q, 1, n), P) = 0 <=> \A i \in 1 .. n : q[i] \notin P
    BY <1>q, ItemsCut, Zenon
  <2> QED
    BY <2>1, Zenon
<1>2. \A u \in Tables : Items(q, {u}) = IF dbt[u].in_ready_queue THEN 1 ELSE 0
  BY DEF LoadInv, ReadyOK
<1>3. \A u \in Tables : Unqueued(n)[u] = [dbt[u] EXCEPT !.in_ready_queue = @ /\ out(u)]
  BY DEF Unqueued
<1>o. \A u : out(u) \in BOOLEAN
  OBVIOUS
<1>p. \A P : Items(a, P) \in Nat /\ Items(z, P) \in Nat
  BY <1>1, ItemsBound
<1>4. \A u \in Tables : Items(a, {u}) = 0 <=> out(u)
  BY <1>1
<1> HIDE DEF a, z, q, out
<1>5. ASSUME NEW u \in Tables
      PROVE  /\ Unqueued(n)[u] \in TableRecord /\ SameLoad(Unqueued(n)[u], dbt[u])
             /\ Unqueued(n)[u].in_ready_queue = (dbt[u].in_ready_queue /\ out(u))
             /\ Unqueued(n)[u].schema_state = dbt[u].schema_state
             /\ Unqueued(n)[u].no_data = dbt[u].no_data
  <2> DEFINE r == dbt[u]
             o == out(u)
  <2>1. r \in TableRecord /\ o \in BOOLEAN /\ Unqueued(n)[u] = [r EXCEPT !.in_ready_queue = @ /\ o]
    BY <1>q, <1>3, <1>o
  <2> HIDE DEF r, o
  <2>2. /\ Unqueued(n)[u] \in TableRecord /\ SameLoad(Unqueued(n)[u], r)
        /\ Unqueued(n)[u].in_ready_queue = (r.in_ready_queue /\ o)
        /\ Unqueued(n)[u].schema_state = r.schema_state
        /\ Unqueued(n)[u].no_data = r.no_data
    BY <2>1 DEF TableRecord, SameLoad
  <2> QED
    BY <2>2 DEF r, o
<1>6. ASSUME NEW u \in Tables
      PROVE  Items(z, {u}) = IF Unqueued(n)[u].in_ready_queue THEN 1 ELSE 0
  <2> DEFINE ia == Items(a, {u})
             iz == Items(z, {u})
  <2>1. ia \in Nat /\ iz \in Nat /\ ia + iz = IF dbt[u].in_ready_queue THEN 1 ELSE 0
    BY <1>1, <1>2, <1>p
  <2>2. ia = 0 <=> out(u)
    BY <1>4
  <2>3. Unqueued(n)[u].in_ready_queue = (dbt[u].in_ready_queue /\ out(u))
    BY <1>5
  <2> HIDE DEF ia, iz
  <2>4. iz = IF dbt[u].in_ready_queue /\ out(u) THEN 1 ELSE 0
    BY <2>1, <2>2
  <2> QED
    BY <2>3, <2>4, Zenon DEF iz
<1>7. Unqueued(n) \in [Tables -> TableRecord]
  BY <1>5 DEF Unqueued
<1>8. \A i \in 1 .. n : ~Unqueued(n)[q[i]].in_ready_queue
  <2> TAKE i \in 1 .. n
  <2>1. q[i] \in Tables /\ ~out(q[i])
    BY <1>q DEF out, q
  <2> QED
    BY <1>5, <2>1
<1> QED
  BY <1>1, <1>5, <1>6, <1>7, <1>8 DEF BaseOK, q, z

(* The parts of the scan of loading_table_list, as DispatchFromList has them. *)
Found == {i \in 1..Len(TableOrder) : /\ TableOrder[i] \in table_hash
                                     /\ HasJob(TableOrder[i], dbt[TableOrder[i]])}
FirstFound == IF Found = {} THEN Len(TableOrder) + 1
                            ELSE CHOOSE i \in Found : \A j \in Found : i <= j
Visited == {TableOrder[i] : i \in 1..(FirstFound - 1)} \cap table_hash
Scanned == [t \in Tables |-> IF t \in Visited THEN Voted(t, Unqueued(Len(ready_table_queue))[t])
                                              ELSE Unqueued(Len(ready_table_queue))[t]]
Giveup == Found = {} /\ \A t \in table_hash : VotesForFinish(t, Scanned[t])
IndexesDue == {t \in Visited :
                  dbt[t].schema_state = "CREATED" /\ Scanned[t].schema_state = "INDEX_ENQUEUED"}

ScanGives == /\ Found # {} /\ dispatcher' = dispatcher
             /\ Given(Scanned, <<>>, TableOrder[FirstFound], NextPart(dbt[TableOrder[FirstFound]]))
ScanEnds == /\ Giveup /\ data_job_queue' = Append(data_job_queue, DataJob("PROCESS_ENDED", 0))
            /\ dispatcher' = "join" /\ dbt' = Scanned /\ ready_table_queue' = <<>>
ScanWaits == /\ Found = {} /\ ~Giveup /\ dispatcher' = "sleep" /\ data_job_queue' = data_job_queue
             /\ dbt' = Scanned /\ ready_table_queue' = <<>>

LEMMA FromList ==
    ASSUME DispatchFromList
    PROVE  /\ Control("REQUEST") /\ ReadyAt = {} /\ all_jobs_are_enqueued
           /\ index_queue' = index_queue \o InOrder(IndexesDue)
           /\ data_control_queue' = Tail(data_control_queue)
           /\ ScanGives \/ ScanEnds \/ ScanWaits
<1> DEFINE t == TableOrder[FirstFound]
           r == Dispatched(Scanned[t])
<1>1. /\ Control("REQUEST") /\ ReadyAt = {} /\ all_jobs_are_enqueued
      /\ index_queue' = index_queue \o InOrder(IndexesDue)
      /\ data_control_queue' = Tail(data_control_queue)
  BY Zenon DEF DispatchFromList, Found, FirstFound, Visited, Scanned, IndexesDue
<1>2. \/ /\ Found # {} /\ dispatcher' = dispatcher
         /\ data_job_queue' = Append(data_job_queue, DataJob(t, NextPart(dbt[t])))
         /\ dbt' = [Scanned EXCEPT ![t] = [r EXCEPT !.in_ready_queue = HasJob(t, r)]]
         /\ ready_table_queue' = IF HasJob(t, r) THEN <<t>> ELSE <<>>
      \/ ScanEnds \/ ScanWaits
  BY Zenon DEF DispatchFromList, Found, FirstFound, Visited, Scanned, Giveup, ScanEnds, ScanWaits
<1>3. Append(<<>>, t) = <<t>>
  <2> HIDE DEF t
  <2> QED
    OBVIOUS
<1> HIDE DEF t
<1>4. ASSUME /\ Found # {} /\ dispatcher' = dispatcher
             /\ data_job_queue' = Append(data_job_queue, DataJob(t, NextPart(dbt[t])))
             /\ dbt' = [Scanned EXCEPT ![t] = [r EXCEPT !.in_ready_queue = HasJob(t, r)]]
             /\ ready_table_queue' = IF HasJob(t, r) THEN <<t>> ELSE <<>>
      PROVE  ScanGives
  <2>1. ready_table_queue' = IF HasJob(t, r) THEN Append(<<>>, t) ELSE <<>>
    BY <1>3, <1>4, Zenon
  <2>2. Given(Scanned, <<>>, t, NextPart(dbt[t]))
    BY <1>4, <2>1, Zenon DEF Given
  <2> QED
    BY <1>4, <2>2, Zenon DEF ScanGives, t
<1> QED
  BY <1>1, <1>2, <1>4, Zenon

LEMMA FoundOK ==
    ASSUME LoadInv, Found # {}
    PROVE  /\ FirstFound \in Found /\ TableOrder[FirstFound] \in Tables
           /\ TableOrder[FirstFound] \in table_hash
           /\ HasJob(TableOrder[FirstFound], dbt[TableOrder[FirstFound]])
           /\ TableOrder[FirstFound] \notin Visited
<1>1. Found \in SUBSET Nat
  BY OrderInjective DEF Found
<1>2. \E i \in Found : \A j \in Found : i <= j
  BY <1>1, LeastNatural
<1>3. FirstFound \in Found
  BY <1>2 DEF FirstFound
<1>4. /\ FirstFound \in 1 .. Len(TableOrder) /\ TableOrder[FirstFound] \in table_hash
      /\ HasJob(TableOrder[FirstFound], dbt[TableOrder[FirstFound]])
  BY <1>3 DEF Found
<1>5. TableOrder[FirstFound] \notin Visited
  <2> DEFINE n == FirstFound
  <2>1. n \in 1 .. Len(TableOrder) /\ Len(TableOrder) \in Nat
    BY <1>4, OrderInjective
  <2> HIDE DEF n
  <2>2. ASSUME NEW i \in 1 .. n - 1, TableOrder[i] = TableOrder[n] PROVE FALSE
    BY <2>1, <2>2, OrderInjective
  <2> QED
    BY <2>2 DEF Visited, n
<1> QED
  BY <1>3, <1>4, <1>5, OrderInjective

(* What the scan says of a table. *)
LEMMA ScannedOK ==
    ASSUME LoadInv
    PROVE  /\ BaseOK(Scanned, <<>>)
           /\ \A u \in Tables : ~Scanned[u].in_ready_queue
           /\ \A u \in Tables : Scanned[u].no_data = dbt[u].no_data
           /\ \A u \in Tables : Scanned[u].schema_state =
                 IF u \in Visited /\ ~(u \in SequenceObjects /\ dbt[u].schema_state = "CREATED")
                 THEN IF DataIsDone(dbt[u]) THEN IF u \in Indexed THEN "INDEX_ENQUEUED" ELSE "ALL_DONE"
                      ELSE IF IsSkipped(dbt[u]) THEN "ALL_DONE" ELSE dbt[u].schema_state
                 ELSE dbt[u].schema_state
<1> DEFINE q == ready_table_queue
           E == Unqueued(Len(q))
<1>1. Len(q) \in 0 .. Len(q) /\ q \in Seq(Tables) /\ SubSeq(q, Len(q) + 1, Len(q)) = <<>>
  BY DEF LoadInv
<1>2. /\ BaseOK(E, SubSeq(q, Len(q) + 1, Len(q)))
      /\ \A u \in Tables : E[u].schema_state = dbt[u].schema_state /\ E[u].no_data = dbt[u].no_data
  BY <1>1, UnqueuedOK
<1>3. BaseOK(E, <<>>)
  BY <1>1, <1>2
<1> HIDE DEF E, q
<1>4. ASSUME NEW u \in Tables PROVE ~E[u].in_ready_queue /\ E[u] \in TableRecord /\ SameLoad(E[u], dbt[u])
  <2>1. Items(<<>>, {u}) = 0
    BY ItemsEmpty
  <2> QED
    BY <1>3, <2>1 DEF BaseOK
<1>5. ASSUME NEW u \in Tables
      PROVE  /\ Scanned[u] \in TableRecord /\ SameLoad(Scanned[u], E[u])
             /\ Scanned[u].in_ready_queue = E[u].in_ready_queue
             /\ Scanned[u].no_data = E[u].no_data
             /\ Scanned[u].schema_state =
                 IF u \in Visited /\ ~(u \in SequenceObjects /\ E[u].schema_state = "CREATED")
                 THEN IF DataIsDone(E[u]) THEN IF u \in Indexed THEN "INDEX_ENQUEUED" ELSE "ALL_DONE"
                      ELSE IF IsSkipped(E[u]) THEN "ALL_DONE" ELSE E[u].schema_state
                 ELSE E[u].schema_state
  <2> DEFINE e == E[u]
             v == Voted(u, e)
  <2>1. Scanned[u] = IF u \in Visited THEN v ELSE e
    BY DEF Scanned, E, q
  <2>2. e \in TableRecord
    BY <1>4
  <2> HIDE DEF e
  <2> DEFINE s == IF DataIsDone(e) THEN IF u \in Indexed THEN "INDEX_ENQUEUED" ELSE "ALL_DONE"
                  ELSE IF IsSkipped(e) THEN "ALL_DONE" ELSE e.schema_state
  <2>3. v = IF u \in SequenceObjects /\ e.schema_state = "CREATED" THEN e
            ELSE [e EXCEPT !.schema_state = s]
    BY DEF Voted
  <2>4. s \in schema_status
    BY <2>2 DEF TableRecord, schema_status
  <2>5. SameLoad(e, e)
    BY DEF SameLoad
  <2> HIDE DEF s, v
  <2> DEFINE y == [e EXCEPT !.schema_state = s]
  <2>6. /\ y \in TableRecord /\ SameLoad(y, e) /\ y.in_ready_queue = e.in_ready_queue
        /\ y.no_data = e.no_data /\ y.schema_state = s
    BY <2>2, <2>4 DEF TableRecord, SameLoad
  <2> HIDE DEF y
  <2>7. /\ Scanned[u] \in TableRecord /\ SameLoad(Scanned[u], e)
        /\ Scanned[u].in_ready_queue = e.in_ready_queue /\ Scanned[u].no_data = e.no_data
        /\ Scanned[u].schema_state =
             IF u \in Visited /\ ~(u \in SequenceObjects /\ e.schema_state = "CREATED")
             THEN s ELSE e.schema_state
    BY <2>1, <2>2, <2>3, <2>5, <2>6, Zenon DEF y
  <2> QED
    BY <2>7, Zenon DEF e, s
<1>6. Scanned \in [Tables -> TableRecord]
  BY <1>5 DEF Scanned
<1>7. BaseOK(Scanned, <<>>)
  <2>1. ASSUME NEW u \in Tables
        PROVE  SameLoad(Scanned[u], dbt[u])
               /\ Items(<<>>, {u}) = IF Scanned[u].in_ready_queue THEN 1 ELSE 0
    <3>1. SameLoad(Scanned[u], dbt[u])
      BY <1>4, <1>5 DEF SameLoad
    <3>2. Items(<<>>, {u}) = 0 /\ ~Scanned[u].in_ready_queue
      BY <1>4, <1>5, ItemsEmpty
    <3> QED
      BY <3>1, <3>2
  <2>2. <<>> \in Seq(Tables)
    OBVIOUS
  <2> QED
    BY <1>6, <2>1, <2>2 DEF BaseOK
<1>8. ASSUME NEW u \in Tables
      PROVE  Scanned[u].schema_state =
                 IF u \in Visited /\ ~(u \in SequenceObjects /\ dbt[u].schema_state = "CREATED")
                 THEN IF DataIsDone(dbt[u]) THEN IF u \in Indexed THEN "INDEX_ENQUEUED" ELSE "ALL_DONE"
                      ELSE IF IsSkipped(dbt[u]) THEN "ALL_DONE" ELSE dbt[u].schema_state
                 ELSE dbt[u].schema_state
  <2>1. E[u].schema_state = dbt[u].schema_state /\ E[u].no_data = dbt[u].no_data
        /\ SameLoad(E[u], dbt[u])
    BY <1>2, <1>4
  <2>2. (DataIsDone(E[u]) <=> DataIsDone(dbt[u])) /\ (IsSkipped(E[u]) <=> IsSkipped(dbt[u]))
    BY <2>1 DEF DataIsDone, IsSkipped, SameLoad
  <2> QED
    BY <1>5, <2>1, <2>2
<1> QED
  BY <1>2, <1>4, <1>5, <1>7, <1>8

LEMMA LoadDispatcher ==
    ASSUME LoadInv, DispatcherStep
    PROVE  LoadInv'
<1>0. loader' = loader
  BY DispatcherFrame
<1> DEFINE q == ready_table_queue
<1>q. q \in Seq(Tables)
  BY DEF LoadInv
<1>1. CASE wake_threads_waiting \/ Sleep \/ FileTypeEnded \/ DispatcherEnds
  <2>1. dbt' = dbt /\ ready_table_queue' = q /\ data_job_queue' = data_job_queue
    BY <1>1 DEF wake_threads_waiting, Sleep, FileTypeEnded, DispatcherEnds, tableVars, loaderVars
  <2> QED
    BY <1>0, <2>1, LoadStays
<1>2. CASE DispatchReady
  <2> DEFINE n == CHOOSE i \in ReadyAt : \A j \in ReadyAt : i <= j
             t == q[n]
             B == Unqueued(n)
             Q == SubSeq(q, n + 1, Len(q))
  <2>1. ReadyAt # {} /\ Given(B, Q, t, NextPart(dbt[t]))
    BY <1>2, Zenon DEF DispatchReady, Given
  <2>2. ReadyAt \in SUBSET Nat
    BY <1>q DEF ReadyAt
  <2>3. \E i \in ReadyAt : \A j \in ReadyAt : i <= j
    BY <2>1, <2>2, LeastNatural
  <2>4. n \in ReadyAt
    BY <2>3
  <2> HIDE DEF n
  <2>5. n \in 1 .. Len(q) /\ HasJob(t, dbt[t])
    BY <2>4 DEF ReadyAt
  <2>6. t \in Tables /\ n \in 0 .. Len(q) /\ n \in 1 .. n
    BY <1>q, <2>5
  <2>7. dbt[t].restore_job_list # {}
    BY <2>5 DEF HasJob
  <2>8. BaseOK(B, Q) /\ ~B[t].in_ready_queue
    BY <2>6, UnqueuedOK
  <2> HIDE DEF t, B, Q
  <2> QED
    BY <1>0, <2>1, <2>6, <2>7, <2>8, GiveJob
<1>3. CASE DispatchLater
  <2>1. /\ dbt' = Unqueued(Len(q)) /\ ready_table_queue' = <<>> /\ data_job_queue' = data_job_queue
    BY <1>3 DEF DispatchLater, loaderVars
  <2>2. Len(q) \in 0 .. Len(q) /\ SubSeq(q, Len(q) + 1, Len(q)) = <<>>
    BY <1>q
  <2>3. BaseOK(Unqueued(Len(q)), SubSeq(q, Len(q) + 1, Len(q)))
    BY <2>2, UnqueuedOK
  <2> QED
    BY <1>0, <2>1, <2>2, <2>3, BaseStep
<1>4. CASE DispatchFromList
  <2>0. BaseOK(Scanned, <<>>) /\ \A u \in Tables : ~Scanned[u].in_ready_queue
    BY ScannedOK
  <2>1. CASE ScanGives
    <3> DEFINE t == TableOrder[FirstFound]
    <3>1. Found # {} /\ Given(Scanned, <<>>, t, NextPart(dbt[t]))
      BY <2>1 DEF ScanGives
    <3>2. t \in Tables /\ HasJob(t, dbt[t])
      BY <3>1, FoundOK
    <3>3. dbt[t].restore_job_list # {} /\ ~Scanned[t].in_ready_queue
      BY <2>0, <3>2 DEF HasJob
    <3> HIDE DEF t
    <3> QED
      BY <1>0, <2>0, <3>1, <3>2, <3>3, GiveJob
  <2>2. CASE ScanWaits
    BY <1>0, <2>0, <2>2, BaseStep DEF ScanWaits
  <2>3. CASE ScanEnds
    <3> DEFINE j == DataJob("PROCESS_ENDED", 0)
    <3>1. /\ dbt' = Scanned /\ ready_table_queue' = <<>>
          /\ data_job_queue' = Append(data_job_queue, j)
      BY <2>3 DEF ScanEnds
    <3>2. j \in DataJobs /\ \A t \in Tables : j \notin JobsOf(t)
      BY JobsShape
    <3> HIDE DEF j
    <3>3. TablesOK /\ JobsOK /\ CountersOK
      BY DEF LoadInv
    <3>4. \A u \in Tables : SameLoad(dbt'[u], dbt[u])
      BY <2>0, <3>1 DEF BaseOK
    <3>5. TablesOK'
      BY <2>0, <3>1, <3>3, <3>4, TablesKeep DEF BaseOK
    <3>6. ready_table_queue' \in Seq(Tables) /\ ReadyOK'
      BY <2>0, <3>1 DEF BaseOK, ReadyOK
    <3>7. data_job_queue \in Seq(DataJobs)
      BY <3>3 DEF JobsOK
    <3>8. \A P : Items(Append(data_job_queue, j), P)
                   = IF j \in P THEN Items(data_job_queue, P) + 1 ELSE Items(data_job_queue, P)
      BY <3>2, <3>7, ItemsPush
    <3>9. JobsOK'
      BY <1>0, <3>1, <3>2, <3>3, <3>7 DEF JobsOK
    <3>10. ASSUME NEW t \in Tables PROVE CountersAt(t)'
      <4>1. Items(data_job_queue', JobsOf(t)) = Items(data_job_queue, JobsOf(t))
        BY <3>1, <3>2, <3>8
      <4>2. SameLoad(dbt'[t], dbt[t]) /\ CountersAt(t)
        BY <3>3, <3>4 DEF CountersOK
      <4> QED
        BY <1>0, <4>1, <4>2 DEF CountersAt, SameLoad
    <3> QED
      BY <3>5, <3>6, <3>9, <3>10 DEF LoadInv, CountersOK
  <2> QED
    BY <1>4, <2>1, <2>2, <2>3, FromList
<1> QED
  BY <1>1, <1>2, <1>3, <1>4 DEF DispatcherStep

LEMMA LoadIndex ==
    ASSUME LoadInv, IndexOK, NEW i \in IndexWorkers, IndexStep(i)
    PROVE  LoadInv'
<1>0. data_job_queue' = data_job_queue /\ loader' = loader /\ ready_table_queue' = ready_table_queue
  BY IndexFrame
<1>1. CASE BuildIndex(i)
  <2> DEFINE t == index_worker[i].job
  <2>1. index_worker[i].pc = "build" /\ dbt' = [dbt EXCEPT ![t].schema_state = "ALL_DONE"]
    BY <1>1 DEF BuildIndex
  <2>2. t \in Tables
    BY <2>1, LoaderAssumption DEF IndexOK
  <2>3. "ALL_DONE" \in schema_status
    BY DEF schema_status
  <2> HIDE DEF t
  <2> QED
    BY <1>0, <2>1, <2>2, <2>3, StateChanged
<1>2. CASE TakeIndex(i) \/ WakeAfterIndex(i)
  <2>1. dbt' = dbt
    BY <1>2 DEF TakeIndex, WakeAfterIndex, tableVars
  <2> QED
    BY <1>0, <2>1, LoadStays
<1> QED
  BY <1>1, <1>2 DEF IndexStep

(* The tables as wait_schema_worker_to_finish leaves them. *)
LateTables == [t \in Tables |-> IF t \in table_hash /\ dbt[t].schema_state = "NOT_FOUND"
                                THEN [dbt[t] EXCEPT !.schema_state = "CREATED"] ELSE dbt[t]]
LatePush == {t \in table_hash : HasJob(t, LateTables[t]) /\ ~LateTables[t].in_ready_queue}

LEMMA LateOK ==
    ASSUME LoadInv, FilesOK, wait_schema_worker_to_finish
    PROVE  /\ BaseOK(dbt', ready_table_queue')
           /\ \A u \in Tables :
                 /\ dbt'[u].no_data = dbt[u].no_data
                 /\ dbt'[u].schema_state = IF u \in table_hash /\ dbt[u].schema_state = "NOT_FOUND"
                                           THEN "CREATED" ELSE dbt[u].schema_state
<1> DEFINE r == LateTables
           push == LatePush
           q == ready_table_queue
<1>1. /\ dbt' = [t \in Tables |-> [r[t] EXCEPT !.in_ready_queue = @ \/ t \in push]]
      /\ ready_table_queue' = q \o InOrder(push)
  BY Zenon DEF wait_schema_worker_to_finish, LateTables, LatePush
<1>2. push \in SUBSET Tables /\ q \in Seq(Tables)
  BY ModeShape DEF LatePush, FilesOK, LoadInv
<1>3. InOrder(push) \in Seq(push) /\ \A t : Items(InOrder(push), {t}) = IF t \in push THEN 1 ELSE 0
  <2> HIDE DEF push
  <2> QED
    BY <1>2, InOrderOK
<1>4. ASSUME NEW u \in Tables
      PROVE  /\ r[u] \in TableRecord /\ SameLoad(r[u], dbt[u])
             /\ r[u].in_ready_queue = dbt[u].in_ready_queue
             /\ r[u].no_data = dbt[u].no_data
             /\ r[u].schema_state = IF u \in table_hash /\ dbt[u].schema_state = "NOT_FOUND"
                                    THEN "CREATED" ELSE dbt[u].schema_state
  <2> DEFINE d == dbt[u]
             e == [d EXCEPT !.schema_state = "CREATED"]
  <2>1. d \in TableRecord /\ r[u] = IF u \in table_hash /\ d.schema_state = "NOT_FOUND" THEN e ELSE d
    BY DEF LoadInv, TablesOK, LateTables
  <2> HIDE DEF d
  <2>2. /\ e \in TableRecord /\ SameLoad(e, d) /\ e.in_ready_queue = d.in_ready_queue
        /\ e.no_data = d.no_data /\ e.schema_state = "CREATED" /\ SameLoad(d, d)
    BY <2>1 DEF TableRecord, SameLoad, schema_status
  <2> HIDE DEF e
  <2> QED
    BY <2>1, <2>2 DEF d
<1>p. \A u \in Tables : u \in push => ~r[u].in_ready_queue
  BY DEF LatePush
<1> HIDE DEF r, push, q
<1>5. ASSUME NEW u \in Tables
      PROVE  /\ dbt'[u] \in TableRecord /\ SameLoad(dbt'[u], r[u])
             /\ dbt'[u].in_ready_queue = (r[u].in_ready_queue \/ u \in push)
             /\ dbt'[u].no_data = r[u].no_data
             /\ dbt'[u].schema_state = r[u].schema_state
  <2> DEFINE d == r[u]
             b == u \in push
             y == [d EXCEPT !.in_ready_queue = @ \/ b]
  <2>1. d \in TableRecord /\ dbt'[u] = y /\ b \in BOOLEAN
    BY <1>1, <1>4
  <2> HIDE DEF d, b
  <2>2. /\ y \in TableRecord /\ SameLoad(y, d) /\ y.in_ready_queue = (d.in_ready_queue \/ b)
        /\ y.no_data = d.no_data /\ y.schema_state = d.schema_state
    BY <2>1 DEF TableRecord, SameLoad
  <2> HIDE DEF y
  <2> QED
    BY <2>1, <2>2 DEF d, b
<1>6. ready_table_queue' \in Seq(Tables)
      /\ \A P : Items(ready_table_queue', P) = Items(q, P) + Items(InOrder(push), P)
  <2> DEFINE e == InOrder(push)
  <2>1. e \in Seq(Tables) /\ q \in Seq(Tables)
    BY <1>2, <1>3
  <2> HIDE DEF e
  <2>2. \A P : Items(q \o e, P) = Items(q, P) + Items(e, P)
    BY <2>1, ItemsConcat
  <2>3. q \o e \in Seq(Tables)
    BY <2>1
  <2> QED
    BY <1>1, <2>2, <2>3 DEF e
<1>7. ASSUME NEW u \in Tables
      PROVE  Items(ready_table_queue', {u}) = IF dbt'[u].in_ready_queue THEN 1 ELSE 0
  <2>1. Items(q, {u}) = IF dbt[u].in_ready_queue THEN 1 ELSE 0
    BY DEF LoadInv, ReadyOK, q
  <2>2. Items(ready_table_queue', {u}) = Items(q, {u}) + (IF u \in push THEN 1 ELSE 0)
    BY <1>3, <1>6
  <2>3. CASE u \in push
    <3>1. ~dbt[u].in_ready_queue /\ dbt'[u].in_ready_queue
      BY <1>4, <1>5, <1>p, <2>3, Zenon
    <3> QED
      BY <2>1, <2>2, <2>3, <3>1
  <2>4. CASE u \notin push
    <3>1. dbt'[u].in_ready_queue <=> dbt[u].in_ready_queue
      BY <1>4, <1>5, <2>4, Zenon
    <3> QED
      BY <2>1, <2>2, <2>4, <3>1
  <2> QED
    BY <2>3, <2>4
<1>8. dbt' \in [Tables -> TableRecord]
  BY <1>1, <1>5
<1>9. \A u \in Tables : SameLoad(dbt'[u], dbt[u])
  BY <1>4, <1>5 DEF SameLoad
<1> QED
  BY <1>4, <1>5, <1>6, <1>7, <1>8, <1>9 DEF BaseOK

LEMMA LoadMain ==
    ASSUME LoadInv, FilesOK, MainStep
    PROVE  LoadInv'
<1>0. data_job_queue' = data_job_queue /\ loader' = loader
  BY MainFrame
<1>1. CASE wait_schema_worker_to_finish
  BY <1>0, <1>1, LateOK, BaseStep
<1>2. CASE wait_worker_loader_main \/ wait_index_worker_to_finish
  <2>1. dbt' = dbt /\ ready_table_queue' = ready_table_queue
    BY <1>2 DEF wait_worker_loader_main, wait_index_worker_to_finish, tableVars
  <2> QED
    BY <1>0, <2>1, LoadStays
<1> QED
  BY <1>1, <1>2 DEF MainStep

LEMMA LoadNext ==
    ASSUME LoadInv, FilesOK, SchemaOK, IndexOK, HandsOK, [Next]_vars
    PROVE  LoadInv'
<1>1. CASE wait_file_type_to_complete
  BY <1>1, FilesEndFrame, LoadStays
<1>2. CASE UNCHANGED vars
  BY <1>2, LoadStays DEF vars, tableVars, loaderVars
<1> QED
  BY <1>1, <1>2, LoadFiles, LoadSchema, LoadDispatcher, LoadLoader, LoadIndex, LoadMain DEF Next

-----------------------------------------------------------------------------
(* The lists of the tables only lose parts, except when a data file is     *)
(* registered.                                                             *)
ListsShrink == \A t \in Tables : dbt'[t].restore_job_list \subseteq dbt[t].restore_job_list

LEMMA ShrinkByState ==
    ASSUME dbt \in [Tables -> TableRecord], NEW t, NEW s, dbt' = [dbt EXCEPT ![t].schema_state = s]
    PROVE  ListsShrink
<1> SUFFICES ASSUME NEW u \in Tables
             PROVE  dbt'[u].restore_job_list \subseteq dbt[u].restore_job_list
  BY DEF ListsShrink
<1> DEFINE r == dbt[u]
<1>1. r \in TableRecord
  OBVIOUS
<1>2. dbt'[u] \in {r, [r EXCEPT !.schema_state = s]}
  OBVIOUS
<1> HIDE DEF r
<1>3. [r EXCEPT !.schema_state = s].restore_job_list = r.restore_job_list
  BY <1>1 DEF TableRecord
<1> QED
  BY <1>2, <1>3 DEF r

LEMMA ShrinkGiven ==
    ASSUME NEW B, NEW Q, BaseOK(B, Q), NEW t, NEW p, Given(B, Q, t, p)
    PROVE  ListsShrink
<1> SUFFICES ASSUME NEW u \in Tables
             PROVE  dbt'[u].restore_job_list \subseteq dbt[u].restore_job_list
  BY DEF ListsShrink
<1>1. B[u] \in TableRecord /\ B[u].restore_job_list = dbt[u].restore_job_list
  BY DEF BaseOK, SameLoad
<1> DEFINE b == B[u]
           r == Dispatched(b)
           x == [r EXCEPT !.in_ready_queue = HasJob(t, r)]
<1>2. dbt'[u] \in {b, x}
  BY DEF Given, BaseOK
<1>3. x.restore_job_list \subseteq b.restore_job_list
  <2> DEFINE n == b.current_threads + 1
             p1 == NextPart(b)
             has == HasJob(t, r)
  <2>1. r = [b EXCEPT !.restore_job_list = @ \ {p1}, !.current_threads = n]
    BY DEF Dispatched
  <2> HIDE DEF n, p1, has, r, b
  <2> QED
    BY <1>1, <2>1 DEF TableRecord, b
<1> QED
  BY <1>1, <1>2, <1>3

LEMMA Shrinks ==
    ASSUME LoadInv, FilesOK, SchemaOK, [Next]_vars,
           \A w \in FileWorkers : ~process_data_filename(w)
    PROVE  ListsShrink
<1>t. dbt \in [Tables -> TableRecord]
  BY DEF LoadInv, TablesOK
<1>s. ASSUME dbt' = dbt PROVE ListsShrink
  BY <1>s DEF ListsShrink
<1>b. ASSUME NEW Q, BaseOK(dbt', Q) PROVE ListsShrink
  BY <1>b DEF ListsShrink, BaseOK, SameLoad
<1>1. ASSUME NEW w \in FileWorkers, FileStep(w) PROVE ListsShrink
  <2>1. CASE process_schema_sequence_filename(w)
    <3>1. PICK f \in files : dbt' = [dbt EXCEPT ![f.of].schema_state = "NOT_CREATED"]
      BY <2>1 DEF process_schema_sequence_filename
    <3> QED
      BY <1>t, <3>1, ShrinkByState
  <2>2. CASE parse_create_table_from_file(w)
    <3>1. dbt' = [dbt EXCEPT ![file_worker[w].job.of].schema_state = "NOT_CREATED"]
      BY <2>2 DEF parse_create_table_from_file
    <3> QED
      BY <1>t, <3>1, ShrinkByState
  <2>3. CASE process_database_filename(w) \/ append_new_db_table(w) \/ CheckParsed(w)
             \/ WakeAfterFile(w) \/ FileWorkerEnds(w)
    BY <1>s, <2>3 DEF process_database_filename, append_new_db_table, CheckParsed, WakeAfterFile,
                      FileWorkerEnds, tableVars
  <2> QED
    BY <1>1, <2>1, <2>2, <2>3 DEF FileStep
<1>2. ASSUME NEW w \in SchemaWorkers, SchemaStep(w) PROVE ListsShrink
  <2> DEFINE t == schema_worker[w].job
  <2>1. CASE PopObjectJob(w)
    <3>1. dbt' = [dbt EXCEPT ![Head(schema_job_queue).of].schema_state = "CREATING"]
      BY <2>1 DEF PopObjectJob
    <3> QED
      BY <1>t, <3>1, ShrinkByState
  <2>2. CASE RestoreSequence(w)
    <3>1. dbt' = dbt \/ dbt' = [dbt EXCEPT ![t].schema_state = "CREATED"]
      BY <2>2 DEF RestoreSequence
    <3> QED
      BY <1>s, <1>t, <3>1, ShrinkByState
  <2>3. CASE PurgeFails(w)
    <3>1. \/ dbt' = dbt
          \/ dbt' = [dbt EXCEPT ![t].retry_count = @ - 1, ![t].schema_state = "NOT_CREATED"]
      BY <2>3 DEF PurgeFails
    <3>2. ASSUME dbt' = [dbt EXCEPT ![t].retry_count = @ - 1, ![t].schema_state = "NOT_CREATED"],
                 NEW u \in Tables
          PROVE  dbt'[u].restore_job_list \subseteq dbt[u].restore_job_list
      <4> DEFINE r == dbt[u]
                 n == r.retry_count - 1
      <4>1. r \in TableRecord
        BY <1>t
      <4>2. dbt'[u] \in {r, [r EXCEPT !.retry_count = n, !.schema_state = "NOT_CREATED"]}
        BY <1>t, <3>2
      <4> HIDE DEF r, n
      <4>3. [r EXCEPT !.retry_count = n, !.schema_state = "NOT_CREATED"].restore_job_list
              = r.restore_job_list
        BY <4>1 DEF TableRecord
      <4> QED
        BY <4>2, <4>3 DEF r
    <3> QED
      BY <1>s, <3>1, <3>2 DEF ListsShrink
  <2>4. CASE CreateTable(w)
    <3> DEFINE r == dbt[t]
               skip == schema_worker[w].pc = "create" /\ t \in server.tables /\ options.purge_mode = "SKIP"
               x == [r EXCEPT !.schema_state = "CREATED", !.no_data = @ \/ skip]
    <3>1. /\ schema_worker[w].pc \in {"create", "created"}
          /\ dbt' = dbt \/ enqueue_table_if_ready(t, x)
      BY <2>4 DEF CreateTable
    <3>2. t \in Tables
      BY <3>1, JobShape DEF SchemaOK, SchemaHandOK
    <3> HIDE DEF t
    <3>3. CASE enqueue_table_if_ready(t, x)
      <4>1. r \in TableRecord /\ r.restore_job_list \subseteq 1 .. Parts[t]
        BY <3>2 DEF LoadInv, TablesOK
      <4>2. x \in TableRecord /\ SameLoad(x, r) /\ x.in_ready_queue = r.in_ready_queue
        <5> HIDE DEF r, skip
        <5> QED
          BY <4>1 DEF TableRecord, SameLoad, schema_status
      <4>3. x.restore_job_list \subseteq 1 .. Parts[t]
        BY <4>1, <4>2 DEF SameLoad
      <4> HIDE DEF x
      <4>4. SameLoad(dbt'[t], x) /\ \A u \in Tables \ {t} : dbt'[u] = dbt[u]
        BY <3>2, <3>3, <4>2, <4>3, Enqueue DEF LoadInv
      <4> QED
        BY <4>2, <4>4 DEF SameLoad, ListsShrink
    <3> QED
      BY <1>s, <3>1, <3>3
  <2>5. CASE PopCreateJob(w) \/ CreateDatabase(w) \/ PurgeTable(w) \/ WakeAfterSchema(w)
             \/ SchemaProcessEnded(w) \/ SchemaWorkerEnds(w)
    BY <1>s, <2>5 DEF PopCreateJob, CreateDatabase, PurgeTable, WakeAfterSchema,
                      SchemaProcessEnded, SchemaWorkerEnds, tableVars
  <2> QED
    BY <1>2, <2>1, <2>2, <2>3, <2>4, <2>5 DEF SchemaStep
<1>3. CASE DispatcherStep
  <2> DEFINE q == ready_table_queue
  <2>q. q \in Seq(Tables)
    BY DEF LoadInv
  <2>0. BaseOK(Scanned, <<>>)
    BY ScannedOK
  <2>1. CASE DispatchReady
    <3> DEFINE n == CHOOSE i \in ReadyAt : \A j \in ReadyAt : i <= j
    <3>1. /\ ReadyAt # {}
          /\ Given(Unqueued(n), SubSeq(q, n + 1, Len(q)), q[n], NextPart(dbt[q[n]]))
      BY <2>1, Zenon DEF DispatchReady, Given
    <3>2. ReadyAt \in SUBSET Nat
      BY <2>q DEF ReadyAt
    <3>3. \E i \in ReadyAt : \A j \in ReadyAt : i <= j
      BY <3>1, <3>2, LeastNatural
    <3>4. n \in ReadyAt
      BY <3>3
    <3> HIDE DEF n
    <3>5. n \in 0 .. Len(q)
      BY <2>q, <3>4 DEF ReadyAt
    <3>6. BaseOK(Unqueued(n), SubSeq(q, n + 1, Len(q)))
      BY <3>5, UnqueuedOK
    <3> QED
      BY <3>1, <3>6, ShrinkGiven
  <2>2. CASE DispatchLater
    <3>1. Len(q) \in 0 .. Len(q) /\ dbt' = Unqueued(Len(q))
      BY <2>2, <2>q DEF DispatchLater
    <3>2. BaseOK(Unqueued(Len(q)), SubSeq(q, Len(q) + 1, Len(q)))
      BY <3>1, UnqueuedOK
    <3> QED
      BY <1>b, <3>1, <3>2
  <2>3. CASE DispatchFromList
    <3>1. ScanGives \/ dbt' = Scanned
      BY <2>3, FromList DEF ScanEnds, ScanWaits
    <3>2. CASE ScanGives
      <4>1. Given(Scanned, <<>>, TableOrder[FirstFound], NextPart(dbt[TableOrder[FirstFound]]))
        BY <3>2 DEF ScanGives
      <4> QED
        BY <2>0, <4>1, ShrinkGiven
    <3> QED
      BY <1>b, <2>0, <3>1, <3>2
  <2>4. CASE wake_threads_waiting \/ Sleep \/ FileTypeEnded \/ DispatcherEnds
    BY <1>s, <2>4 DEF wake_threads_waiting, Sleep, FileTypeEnded, DispatcherEnds, tableVars
  <2> QED
    BY <1>3, <2>1, <2>2, <2>3, <2>4 DEF DispatcherStep
<1>4. ASSUME NEW l \in Loaders, LoaderStep(l) PROVE ListsShrink
  <2>1. \/ dbt' = dbt
        \/ dbt' = [dbt EXCEPT ![loader[l].job.of].remaining_jobs = @ - 1]
        \/ dbt' = [dbt EXCEPT ![loader[l].job.of].current_threads = @ - 1]
    BY <1>4 DEF LoaderStep, Request, TakeJob, RestoreFilename, ReleaseTable, LoaderEnds, tableVars
  <2>2. ASSUME NEW u \in Tables
        PROVE  dbt'[u].restore_job_list = dbt[u].restore_job_list
    <3> DEFINE r == dbt[u]
               m == r.remaining_jobs - 1
               n == r.current_threads - 1
    <3>1. r \in TableRecord
      BY <1>t
    <3>2. dbt'[u] \in {r, [r EXCEPT !.remaining_jobs = m], [r EXCEPT !.current_threads = n]}
      BY <1>t, <2>1
    <3> HIDE DEF r, m, n
    <3>3. /\ [r EXCEPT !.remaining_jobs = m].restore_job_list = r.restore_job_list
          /\ [r EXCEPT !.current_threads = n].restore_job_list = r.restore_job_list
      BY <3>1 DEF TableRecord
    <3> QED
      BY <3>2, <3>3 DEF r
  <2> QED
    BY <2>2 DEF ListsShrink
<1>5. ASSUME NEW i \in IndexWorkers, IndexStep(i) PROVE ListsShrink
  <2>1. dbt' = dbt \/ dbt' = [dbt EXCEPT ![index_worker[i].job].schema_state = "ALL_DONE"]
    BY <1>5 DEF IndexStep, TakeIndex, BuildIndex, WakeAfterIndex, tableVars
  <2> QED
    BY <1>s, <1>t, <2>1, ShrinkByState
<1>6. CASE MainStep
  <2>1. CASE wait_schema_worker_to_finish
    BY <1>b, <2>1, LateOK
  <2>2. CASE wait_worker_loader_main \/ wait_index_worker_to_finish
    BY <1>s, <2>2 DEF wait_worker_loader_main, wait_index_worker_to_finish, tableVars
  <2> QED
    BY <1>6, <2>1, <2>2 DEF MainStep
<1>7. CASE wait_file_type_to_complete
  BY <1>7, <1>s, FilesEndFrame
<1>8. CASE UNCHANGED vars
  BY <1>8, <1>s DEF vars, tableVars
<1> QED
  BY <1>1, <1>2, <1>3, <1>4, <1>5, <1>6, <1>7, <1>8 DEF Next

(* Two data files of one table differ in their part. *)
LEMMA DataFileEq ==
    ASSUME NEW T \in SUBSET Tables, NEW f \in DumpFiles(T), NEW g \in DumpFiles(T),
           f.kind = "data", g.kind = "data", f.of = g.of, f.part = g.part
    PROVE  f = g
<1>1. IsFile(f, T) /\ IsFile(g, T)
  BY FileShape
<1> QED
  BY <1>1 DEF IsFile

(* The hands of a worker after a step that registers no data file. *)
LEMMA HandsMoved ==
    ASSUME HandsOK, FilesOK, options' = options, ListsShrink, files' \in SUBSET files,
           NEW w \in FileWorkers, NEW x \in FileRecord, file_worker' = [file_worker EXCEPT ![w] = x],
           x.pc \in {"check", "mark", "add"} =>
               \/ Holds(w) /\ x.job = file_worker[w].job
               \/ x.job \in files /\ x.job \notin files'
    PROVE  HandsOK'
<1> DEFINE H(v) == Holds(v)'
           job(v) == file_worker'[v].job
           D == DumpFiles(options.tables)
<1>0. options.tables \in SUBSET Tables /\ options.tables' = options.tables /\ files \in SUBSET D
  BY ModeShape DEF FilesOK
<1>1. \A v \in FileWorkers : file_worker'[v] = IF v = w THEN x ELSE file_worker[v]
  BY DEF FilesOK
<1>2. \A v \in FileWorkers : H(v) =>
          \/ Holds(v) /\ job(v) = file_worker[v].job
          \/ v = w /\ job(v) = x.job /\ x.job \in files /\ x.job \notin files'
  BY <1>1 DEF Holds
<1>k. \A f \in D : f.kind = "data" => f.of \in Tables
  BY <1>0, FileShape DEF IsFile
<1>3. ASSUME NEW f \in files', f.kind = "data" PROVE f.part \notin dbt'[f.of].restore_job_list
  BY <1>0, <1>3, <1>k DEF HandsOK, ListsShrink
<1>4. ASSUME NEW v \in FileWorkers, H(v)
      PROVE  /\ job(v) \in D /\ job(v) \notin files'
             /\ job(v).kind = "data" => job(v).part \notin dbt'[job(v).of].restore_job_list
  <2> DEFINE j == job(v)
  <2>1. CASE Holds(v) /\ j = file_worker[v].job
    <3>1. /\ j \in D /\ j \notin files
          /\ j.kind = "data" => j.part \notin dbt[j.of].restore_job_list
      BY <2>1 DEF HandsOK
    <3> HIDE DEF j
    <3> QED
      BY <3>1, <1>k DEF ListsShrink, j
  <2>2. CASE j \in files /\ j \notin files'
    <3>1. /\ j \in D
          /\ j.kind = "data" => j.part \notin dbt[j.of].restore_job_list
      BY <1>0, <2>2 DEF HandsOK
    <3>2. j \notin files'
      BY <2>2
    <3> HIDE DEF j
    <3>3. j.kind = "data" => j.part \notin dbt'[j.of].restore_job_list
      BY <3>1, <1>k DEF ListsShrink
    <3> QED
      BY <3>1, <3>2, <3>3 DEF j
  <2> QED
    BY <1>2, <1>4, <2>1, <2>2
<1>5. ASSUME NEW u \in FileWorkers, NEW v \in FileWorkers, H(u), H(v), u # v
      PROVE  job(u) # job(v)
  <2>1. \A z \in FileWorkers : Holds(z) => file_worker[z].job \notin files
    BY DEF HandsOK
  <2>2. CASE Holds(u) /\ job(u) = file_worker[u].job /\ Holds(v) /\ job(v) = file_worker[v].job
    BY <1>5, <2>2 DEF HandsOK
  <2>3. CASE v = w /\ job(v) \in files
    <3>1. Holds(u) /\ job(u) = file_worker[u].job
      BY <1>2, <1>5, <2>3
    <3> QED
      BY <2>1, <2>3, <3>1
  <2>4. CASE u = w /\ job(u) \in files
    <3>1. Holds(v) /\ job(v) = file_worker[v].job
      BY <1>2, <1>5, <2>4
    <3> QED
      BY <2>1, <2>4, <3>1
  <2> QED
    BY <1>2, <1>5, <2>2, <2>3, <2>4
<1>6. DumpFiles(options.tables)' = D
  BY <1>0 DEF DumpFiles
<1> HIDE DEF H, job, D
<1>7. HandsOK' <=>
        /\ \A f \in files' : f.kind = "data" => f.part \notin dbt'[f.of].restore_job_list
        /\ \A v \in FileWorkers : H(v) =>
              /\ job(v) \in D /\ job(v) \notin files'
              /\ job(v).kind = "data" => job(v).part \notin dbt'[job(v).of].restore_job_list
        /\ \A u, v \in FileWorkers : H(u) /\ H(v) /\ u # v => job(u) # job(v)
  BY <1>6, Zenon DEF HandsOK, H, job
<1> QED
  BY <1>3, <1>4, <1>5, <1>7

LEMMA HandsStay ==
    ASSUME HandsOK, FilesOK, options' = options, ListsShrink, files' = files,
           file_worker' = file_worker
    PROVE  HandsOK'
<1>0. options.tables \in SUBSET Tables /\ files \in SUBSET DumpFiles(options.tables)
      /\ DumpFiles(options.tables)' = DumpFiles(options.tables)
  BY ModeShape DEF FilesOK, DumpFiles
<1>1. \A v \in FileWorkers : Holds(v)' <=> Holds(v)
  BY DEF Holds
<1>k. \A f \in DumpFiles(options.tables) : f.kind = "data" => f.of \in Tables
  BY <1>0, FileShape DEF IsFile
<1>2. \A f \in files' : f.kind = "data" => f.part \notin dbt'[f.of].restore_job_list
  BY <1>0, <1>k DEF HandsOK, ListsShrink
<1>3. \A v \in FileWorkers : Holds(v) =>
          /\ file_worker[v].job \in DumpFiles(options.tables) /\ file_worker[v].job \notin files
          /\ file_worker[v].job.kind = "data" =>
                file_worker[v].job.part \notin dbt'[file_worker[v].job.of].restore_job_list
  BY <1>k DEF HandsOK, ListsShrink
<1>4. \A u, v \in FileWorkers : Holds(u) /\ Holds(v) /\ u # v =>
          file_worker[u].job # file_worker[v].job
  BY DEF HandsOK
<1> QED
  BY <1>0, <1>1, <1>2, <1>3, <1>4 DEF HandsOK

LEMMA HandsAfterData ==
    ASSUME HandsOK, LoadInv, FilesOK, NEW w \in FileWorkers, process_data_filename(w)
    PROVE  HandsOK'
<1> DEFINE f == file_worker[w].job
           D == DumpFiles(options.tables)
           t == f.of
           r == dbt[t]
           p == f.part
           x == [r EXCEPT !.restore_job_list = @ \cup {p}, !.remaining_jobs = @ + 1]
           y == [file_worker[w] EXCEPT !.pc = "wake"]
<1>1. /\ file_worker[w].pc = "add" /\ options' = options /\ files' = files
      /\ file_worker' = [file_worker EXCEPT ![w] = y]
      /\ dbt' = dbt \/ enqueue_table_if_ready(t, x)
  BY DEF process_data_filename
<1>0. options.tables \in SUBSET Tables /\ files \in SUBSET D /\ D' = D
  BY <1>1, ModeShape DEF FilesOK, DumpFiles
<1>2. f \in D /\ f.kind = "data" /\ f \notin files /\ Holds(w)
  BY <1>1, FileRecords DEF FileHandOK, HandsOK, Holds
<1>3. y.pc = "wake" /\ \A v \in FileWorkers : file_worker'[v] = IF v = w THEN y ELSE file_worker[v]
  <2>1. file_worker[w] \in FileRecord
    BY FileRecords
  <2>2. y.pc = "wake"
    BY <2>1 DEF FileRecord
  <2> HIDE DEF y
  <2> QED
    BY <1>1, <2>2 DEF FilesOK
<1> HIDE DEF y, f
<1>4. \A v \in FileWorkers : Holds(v)' => v # w /\ Holds(v) /\ file_worker'[v] = file_worker[v]
  BY <1>3 DEF Holds
<1>5. IsFile(f, options.tables)
  BY <1>0, <1>2, FileShape
<1>6. t \in Tables /\ p \in 1 .. Parts[t] /\ p \in Nat
  BY <1>0, <1>2, <1>5, LoaderAssumption DEF IsFile
<1>7. \A u \in Tables : dbt'[u].restore_job_list \subseteq
                          IF u = t THEN dbt[u].restore_job_list \cup {p} ELSE dbt[u].restore_job_list
  <2>1. CASE dbt' = dbt
    BY <2>1
  <2>2. CASE enqueue_table_if_ready(t, x)
    <3>1. r \in TableRecord /\ r.restore_job_list \subseteq 1 .. Parts[t]
      BY <1>6 DEF LoadInv, TablesOK
    <3>2. /\ x \in TableRecord /\ x.in_ready_queue = r.in_ready_queue
          /\ x.restore_job_list = r.restore_job_list \cup {p}
      <4> DEFINE n == r.remaining_jobs + 1
                 M == r.restore_job_list \cup {p}
      <4>1. n \in Int /\ M \in SUBSET Nat
        <5> HIDE DEF r, p
        <5> QED
          BY <1>6, <3>1 DEF TableRecord
      <4> HIDE DEF r, p
      <4>2. x = [r EXCEPT !.restore_job_list = M, !.remaining_jobs = n]
        OBVIOUS
      <4> HIDE DEF n, M, x
      <4>3. x \in TableRecord /\ x.in_ready_queue = r.in_ready_queue /\ x.restore_job_list = M
        BY <3>1, <4>1, <4>2 DEF TableRecord
      <4> QED
        BY <4>3 DEF M
    <3>3. x.restore_job_list \subseteq 1 .. Parts[t]
      BY <1>6, <3>1, <3>2
    <3> HIDE DEF x
    <3>4. SameLoad(dbt'[t], x) /\ \A u \in Tables \ {t} : dbt'[u] = dbt[u]
      BY <1>6, <2>2, <3>2, <3>3, Enqueue DEF LoadInv
    <3> QED
      BY <3>2, <3>4 DEF SameLoad
  <2> QED
    BY <1>1, <2>1, <2>2
<1>8. ASSUME NEW g \in D, g # f, g.kind = "data", g.part \notin dbt[g.of].restore_job_list
      PROVE  g.part \notin dbt'[g.of].restore_job_list
  <2>1. g.of \in Tables
    BY <1>0, <1>8, FileShape DEF IsFile
  <2>2. CASE g.of = t
    <3>1. g.part # p
      BY <1>0, <1>2, <1>8, <2>2, DataFileEq
    <3> QED
      BY <1>7, <1>8, <2>1, <2>2, <3>1
  <2>3. CASE g.of # t
    BY <1>7, <1>8, <2>1, <2>3
  <2> QED
    BY <2>2, <2>3
<1> HIDE DEF t, r, p, x, D
<1>9. \A g \in files' : g.kind = "data" => g.part \notin dbt'[g.of].restore_job_list
  BY <1>0, <1>1, <1>2, <1>8 DEF HandsOK
<1>10. \A v \in FileWorkers : Holds(v)' =>
          /\ file_worker'[v].job \in D /\ file_worker'[v].job \notin files'
          /\ file_worker'[v].job.kind = "data" =>
                file_worker'[v].job.part \notin dbt'[file_worker'[v].job.of].restore_job_list
  <2> TAKE v \in FileWorkers
  <2> HAVE Holds(v)'
  <2>1. v # w /\ Holds(v) /\ file_worker'[v] = file_worker[v]
    BY <1>4
  <2> DEFINE g == file_worker[v].job
  <2>2. /\ g \in D /\ g \notin files /\ g # f
        /\ g.kind = "data" => g.part \notin dbt[g.of].restore_job_list
    BY <1>2, <2>1 DEF HandsOK, D, f
  <2> HIDE DEF g
  <2> QED
    BY <1>1, <1>8, <2>1, <2>2 DEF g
<1>11. \A u, v \in FileWorkers : Holds(u)' /\ Holds(v)' /\ u # v =>
          file_worker'[u].job # file_worker'[v].job
  BY <1>4 DEF HandsOK
<1> QED
  BY <1>0, <1>9, <1>10, <1>11 DEF HandsOK, D

LEMMA HandsNext ==
    ASSUME HandsOK, LoadInv, FilesOK, SchemaOK, [Next]_vars
    PROVE  HandsOK'
<1>1. CASE \E w \in FileWorkers : process_data_filename(w)
  BY <1>1, HandsAfterData
<1>2. CASE \A w \in FileWorkers : ~process_data_filename(w)
  <2>s. ListsShrink
    BY <1>2, Shrinks
  <2>1. ASSUME NEW w \in FileWorkers, FileStep(w) PROVE HandsOK'
    <3>0. options' = options
      BY <2>1, FileFrame
    <3>r. file_worker[w] \in FileRecord /\ FileHandOK(file_worker[w])
      BY FileRecords
    <3>a. ASSUME NEW x \in FileRecord, file_worker' = [file_worker EXCEPT ![w] = x], files' \in SUBSET files,
                 x.pc \in {"check", "mark", "add"} =>
                    \/ Holds(w) /\ x.job = file_worker[w].job
                    \/ x.job \in files /\ x.job \notin files'
          PROVE  HandsOK'
      BY <2>s, <3>0, <3>a, HandsMoved
    <3>1. CASE process_database_filename(w) \/ process_schema_sequence_filename(w)
      <4>1. files' \in SUBSET files /\ file_worker' = file_worker /\ file_worker[w].pc = "idle"
        BY <3>1 DEF process_database_filename, process_schema_sequence_filename
      <4>2. file_worker' = [file_worker EXCEPT ![w] = file_worker[w]]
        BY <4>1 DEF FilesOK
      <4> QED
        BY <3>r, <3>a, <4>1, <4>2
    <3>2. CASE append_new_db_table(w)
      <4>1. PICK f \in files : /\ files' = files \ {f}
                               /\ \E pc \in {"check", "add"} :
                                     file_worker' = [file_worker EXCEPT ![w] = At(pc, f)]
        BY <3>2 DEF append_new_db_table
      <4>2. PICK pc \in {"check", "add"} : file_worker' = [file_worker EXCEPT ![w] = At(pc, f)]
        BY <4>1
      <4>3. At(pc, f) \in FileRecord /\ At(pc, f).job = f
        BY FileRecords DEF FilesOK, At
      <4> QED
        BY <3>a, <4>1, <4>2, <4>3
    <3>3. CASE CheckParsed(w) \/ parse_create_table_from_file(w)
      <4> DEFINE f == file_worker[w].job
      <4>1. /\ files' = files /\ file_worker[w].pc \in {"check", "mark"}
            /\ \E x \in {At("mark", f), At("add", f), FileIdle} :
                  file_worker' = [file_worker EXCEPT ![w] = x]
        BY <3>3 DEF CheckParsed, parse_create_table_from_file, AfterSchema
      <4>2. Holds(w) /\ f \in DumpFiles(options.tables)
        BY <4>1, FileRecords DEF Holds
      <4> HIDE DEF f
      <4>3. /\ At("mark", f) \in FileRecord /\ At("mark", f).job = f
            /\ At("add", f) \in FileRecord /\ At("add", f).job = f
            /\ FileIdle \in FileRecord /\ FileIdle.pc = "idle"
        BY <4>2, FileRecords DEF At, FileIdle
      <4>4. PICK x \in {At("mark", f), At("add", f), FileIdle} :
                  file_worker' = [file_worker EXCEPT ![w] = x]
        BY <4>1
      <4>5. x \in FileRecord /\ (x.pc \in {"check", "mark", "add"} => x.job = f)
        BY <4>3, <4>4
      <4> QED
        BY <3>a, <4>1, <4>2, <4>4, <4>5 DEF f
    <3>4. CASE WakeAfterFile(w) \/ FileWorkerEnds(w)
      <4> DEFINE y == [file_worker[w] EXCEPT !.pc = "left"]
      <4>1. /\ files' = files
            /\ \E x \in {FileIdle, y} : file_worker' = [file_worker EXCEPT ![w] = x]
        BY <3>4 DEF WakeAfterFile, FileWorkerEnds
      <4>2. y \in FileRecord /\ y.pc = "left"
        BY <3>r DEF FileRecord
      <4>3. FileIdle \in FileRecord /\ FileIdle.pc = "idle"
        BY FileRecords DEF At, FileIdle
      <4> HIDE DEF y
      <4>4. PICK x \in {FileIdle, y} : file_worker' = [file_worker EXCEPT ![w] = x]
        BY <4>1
      <4>5. x \in FileRecord /\ x.pc \notin {"check", "mark", "add"}
        BY <4>2, <4>3, <4>4
      <4> QED
        BY <3>a, <4>1, <4>4, <4>5
    <3> QED
      BY <1>2, <2>1, <3>1, <3>2, <3>3, <3>4 DEF FileStep
  <2>2. ASSUME NEW w \in SchemaWorkers, SchemaStep(w) PROVE HandsOK'
    BY <2>s, <2>2, SchemaFrame, HandsStay
  <2>3. CASE wait_file_type_to_complete
    BY <2>s, <2>3, FilesEndFrame, HandsStay
  <2>4. CASE DispatcherStep
    BY <2>s, <2>4, DispatcherFrame, HandsStay
  <2>5. ASSUME NEW l \in Loaders, LoaderStep(l) PROVE HandsOK'
    BY <2>s, <2>5, LoaderFrame, HandsStay
  <2>6. ASSUME NEW i \in IndexWorkers, IndexStep(i) PROVE HandsOK'
    BY <2>s, <2>6, IndexFrame, HandsStay
  <2>7. CASE MainStep
    BY <2>s, <2>7, MainFrame, HandsStay
  <2>8. CASE UNCHANGED vars
    BY <2>s, <2>8, HandsStay DEF vars, fileVars
  <2> QED
    BY <2>1, <2>2, <2>3, <2>4, <2>5, <2>6, <2>7, <2>8 DEF Next
<1> QED
  BY <1>1, <1>2

-----------------------------------------------------------------------------
(* The queue of the dispatcher, main and the index workers *)

LEMMA WakeOK ==
    ASSUME data_control_queue \in Seq(Controls), wake_data_threads
    PROVE  /\ data_control_queue' \in Seq(Controls)
           /\ Items(data_control_queue', {"REQUEST"}) = Items(data_control_queue, {"REQUEST"})
<1> DEFINE q == data_control_queue
<1>1. "WAKE" \in Controls /\ q \in Seq(Controls)
  BY DEF Controls
<1> HIDE DEF q
<1>2. \A P : Items(Append(q, "WAKE"), P) = IF "WAKE" \in P THEN Items(q, P) + 1 ELSE Items(q, P)
  BY <1>1, ItemsPush
<1>3. Items(Append(q, "WAKE"), {"REQUEST"}) = Items(q, {"REQUEST"})
  BY <1>2
<1>4. Append(q, "WAKE") \in Seq(Controls)
  BY <1>1
<1> QED
  BY <1>1, <1>3, <1>4 DEF wake_data_threads, q

LEMMA ControlType ==
    ASSUME ControlOK, [Next]_vars
    PROVE  ControlOK'
<1> DEFINE q == data_control_queue
<1>q. q \in Seq(Controls) /\ {"REQUEST", "WAKE", "FILE_TYPE_ENDED"} \subseteq Controls
  BY DEF ControlOK, Controls
<1>a. ASSUME data_control_queue' \in Seq(Controls), threads_waiting' \in Nat,
             dispatcher' \in {"pop", "sleep", "join", "left"},
             main' \in {"schema", "loaders", "index", "done"}
      PROVE  ControlOK'
  BY <1>a DEF ControlOK
<1>s. ASSUME data_control_queue' = q, threads_waiting' = threads_waiting,
             dispatcher' = dispatcher, main' = main
      PROVE  ControlOK'
  BY <1>s DEF ControlOK
<1>e. ASSUME data_control_queue' \in Seq(Controls), threads_waiting' = threads_waiting,
             dispatcher' = dispatcher, main' = main
      PROVE  ControlOK'
  BY <1>e DEF ControlOK
<1>t. ASSUME q # <<>> PROVE Tail(q) \in Seq(Controls)
  BY <1>q, <1>t
<1>p. \A x \in Controls : Append(q, x) \in Seq(Controls)
  BY <1>q
<1>1. ASSUME NEW w \in FileWorkers, FileStep(w) PROVE ControlOK'
  <2>1. wake_data_threads \/ data_control_queue' = q
    BY <1>1 DEF FileStep, process_database_filename, process_schema_sequence_filename,
                append_new_db_table, CheckParsed, parse_create_table_from_file,
                process_data_filename, WakeAfterFile, FileWorkerEnds, dispatchVars
  <2> QED
    BY <1>1, <1>e, <1>q, <2>1, FileFrame, WakeOK
<1>2. ASSUME NEW w \in SchemaWorkers, SchemaStep(w) PROVE ControlOK'
  <2>1. wake_data_threads \/ data_control_queue' = q
    BY <1>2 DEF SchemaStep, PopCreateJob, CreateDatabase, PopObjectJob, RestoreSequence,
                PurgeTable, PurgeFails, CreateTable, WakeAfterSchema, SchemaProcessEnded,
                SchemaWorkerEnds, dispatchVars
  <2> QED
    BY <1>2, <1>e, <1>q, <2>1, SchemaFrame, WakeOK
<1>3. CASE DispatcherStep
  <2>m. main' = main
    BY <1>3, DispatcherFrame
  <2>o. threads_waiting \in Nat /\ dispatcher \in {"pop", "sleep", "join", "left"}
        /\ main \in {"schema", "loaders", "index", "done"}
    BY DEF ControlOK
  <2>1. CASE wake_threads_waiting
    <3> DEFINE e == [i \in 1 .. threads_waiting |-> "REQUEST"]
    <3>1. /\ q # <<>> /\ data_control_queue' = Tail(q) \o e /\ threads_waiting' = 0
          /\ dispatcher' = dispatcher
      BY <2>1 DEF wake_threads_waiting, Control
    <3>2. e \in Seq(Controls)
      BY <1>q, <2>o
    <3> HIDE DEF e
    <3>3. data_control_queue' \in Seq(Controls)
      BY <1>t, <3>1, <3>2
    <3> QED
      BY <1>a, <2>m, <2>o, <3>1, <3>3
  <2>2. CASE DispatchReady \/ DispatchLater
    <3>1. /\ q # <<>> /\ data_control_queue' = Tail(q) /\ threads_waiting' = threads_waiting
          /\ dispatcher' \in {dispatcher, "sleep"}
      BY <2>2 DEF DispatchReady, DispatchLater, Control
    <3> QED
      BY <1>a, <1>t, <2>m, <2>o, <3>1
  <2>3. CASE DispatchFromList
    <3>1. threads_waiting' = threads_waiting
      BY <2>3 DEF DispatchFromList
    <3>2. /\ q # <<>> /\ data_control_queue' = Tail(q)
          /\ dispatcher' \in {dispatcher, "sleep", "join"}
      BY <2>3, FromList DEF Control, ScanGives, ScanEnds, ScanWaits
    <3> QED
      BY <1>a, <1>t, <2>m, <2>o, <3>1, <3>2
  <2>4. CASE Sleep
    <3>1. /\ data_control_queue' = q /\ threads_waiting' \in {threads_waiting, threads_waiting + 1}
          /\ dispatcher' = "pop"
      BY <2>4 DEF Sleep
    <3> QED
      BY <1>a, <1>q, <2>m, <2>o, <3>1
  <2>5. CASE FileTypeEnded
    <3>1. /\ q # <<>> /\ data_control_queue' = Append(Tail(q), "REQUEST")
          /\ threads_waiting' = threads_waiting /\ dispatcher' = dispatcher
      BY <2>5 DEF FileTypeEnded, Control
    <3>2. data_control_queue' \in Seq(Controls)
      BY <1>q, <1>t, <3>1
    <3> QED
      BY <1>e, <2>m, <3>1, <3>2
  <2>6. CASE DispatcherEnds
    BY <1>a, <1>q, <2>6, <2>m, <2>o DEF DispatcherEnds
  <2> QED
    BY <1>3, <2>1, <2>2, <2>3, <2>4, <2>5, <2>6 DEF DispatcherStep
<1>4. ASSUME NEW l \in Loaders, LoaderStep(l) PROVE ControlOK'
  <2>1. data_control_queue' \in {q, Append(q, "REQUEST")}
    BY <1>4 DEF LoaderStep, Request, TakeJob, RestoreFilename, ReleaseTable, LoaderEnds, dispatchVars
  <2> QED
    BY <1>4, <1>e, <1>p, <1>q, <2>1, LoaderFrame
<1>5. ASSUME NEW i \in IndexWorkers, IndexStep(i) PROVE ControlOK'
  <2>1. wake_data_threads \/ data_control_queue' = q
    BY <1>5 DEF IndexStep, TakeIndex, BuildIndex, WakeAfterIndex, dispatchVars
  <2> QED
    BY <1>5, <1>e, <1>q, <2>1, IndexFrame, WakeOK
<1>6. CASE MainStep
  <2>1. /\ data_control_queue' \in {q, Append(q, "FILE_TYPE_ENDED")}
        /\ main' \in {"schema", "loaders", "index", "done"}
    BY <1>6 DEF MainStep, wait_schema_worker_to_finish, wait_worker_loader_main,
                wait_index_worker_to_finish, dispatchVars
  <2>2. threads_waiting' \in Nat /\ dispatcher' \in {"pop", "sleep", "join", "left"}
    BY <1>6, MainFrame DEF ControlOK
  <2> QED
    BY <1>a, <1>p, <1>q, <2>1, <2>2
<1>7. CASE wait_file_type_to_complete
  BY <1>7, <1>s, FilesEndFrame
<1>8. CASE UNCHANGED vars
  BY <1>8, <1>s DEF vars, dispatchVars
<1> QED
  BY <1>1, <1>2, <1>3, <1>4, <1>5, <1>6, <1>7, <1>8 DEF Next

IndexRecord == [pc : {"idle", "build", "wake", "left"}, job : Indexed \cup {"none", "SHUTDOWN"}]

LEMMA IndexType ==
    ASSUME IndexOK, FilesOK, LoadInv, [Next]_vars
    PROVE  IndexOK'
<1> DEFINE q == index_queue
           J == Indexed \cup {"SHUTDOWN"}
<1>q. q \in Seq(J) /\ index_worker \in [IndexWorkers -> IndexRecord]
      /\ \A i \in IndexWorkers : index_worker[i].pc = "build" => index_worker[i].job \in Indexed
  BY DEF IndexOK, IndexRecord
<1>s. ASSUME index_queue' \in Seq(J), index_worker' = index_worker PROVE IndexOK'
  BY <1>s DEF IndexOK
<1>k. q \in Seq(J)
  BY <1>q
<1>1. ASSUME NEW i \in IndexWorkers, IndexStep(i) PROVE IndexOK'
  <2>a. ASSUME NEW x \in IndexRecord, x.pc = "build" => x.job \in Indexed,
               index_worker' = [index_worker EXCEPT ![i] = x], index_queue' \in Seq(J)
        PROVE  IndexOK'
    <3>1. index_worker' \in [IndexWorkers -> IndexRecord]
      BY <1>q, <2>a
    <3>2. \A v \in IndexWorkers : index_worker'[v].pc = "build" => index_worker'[v].job \in Indexed
      <4> TAKE v \in IndexWorkers
      <4>1. index_worker'[v] = IF v = i THEN x ELSE index_worker[v]
        BY <1>q, <2>a
      <4> QED
        BY <1>q, <2>a, <4>1
    <3> QED
      BY <2>a, <3>1, <3>2 DEF IndexOK, IndexRecord
  <2>1. CASE TakeIndex(i)
    <3> DEFINE h == Head(q)
               x == IF h = "SHUTDOWN" THEN At("wake", "SHUTDOWN") ELSE At("build", h)
    <3>1. q # <<>> /\ index_queue' = Tail(q) /\ index_worker' = [index_worker EXCEPT ![i] = x]
      BY <2>1 DEF TakeIndex
    <3>2. h \in J /\ Tail(q) \in Seq(J)
      BY <1>k, <3>1
    <3> HIDE DEF h
    <3>3. x \in IndexRecord /\ (x.pc = "build" => x.job \in Indexed)
      BY <3>2 DEF At, IndexRecord
    <3> HIDE DEF x
    <3> QED
      BY <2>a, <3>1, <3>2, <3>3
  <2>2. CASE BuildIndex(i)
    <3> DEFINE r == index_worker[i]
               x == [r EXCEPT !.pc = "wake"]
    <3>1. index_queue' = q /\ index_worker' = [index_worker EXCEPT ![i] = x]
      BY <2>2 DEF BuildIndex
    <3>2. r \in IndexRecord
      BY <1>q
    <3> HIDE DEF r
    <3>3. x \in IndexRecord /\ x.pc = "wake"
      BY <3>2 DEF IndexRecord
    <3> HIDE DEF x
    <3> QED
      BY <1>k, <2>a, <3>1, <3>3
  <2>3. CASE WakeAfterIndex(i)
    <3>1. /\ index_queue' = q
          /\ \E x \in {At("left", "none"), Idle} : index_worker' = [index_worker EXCEPT ![i] = x]
      BY <2>3 DEF WakeAfterIndex
    <3>2. PICK x \in {At("left", "none"), Idle} : index_worker' = [index_worker EXCEPT ![i] = x]
      BY <3>1
    <3>3. x \in IndexRecord /\ x.pc # "build"
      BY <3>2 DEF At, Idle, IndexRecord
    <3> QED
      BY <1>k, <2>a, <3>1, <3>2, <3>3
  <2> QED
    BY <1>1, <2>1, <2>2, <2>3 DEF IndexStep
<1>2. CASE DispatcherStep
  <2>0. index_worker' = index_worker
    BY <1>2, DispatcherFrame
  <2>1. CASE DispatchFromList
    <3>1. index_queue' = q \o InOrder(IndexesDue)
      BY <2>1, FromList
    <3>2. IndexesDue \in SUBSET Tables /\ IndexesDue \in SUBSET Indexed
      <4>1. table_hash \in SUBSET Tables
        BY ModeShape DEF FilesOK
      <4>2. ASSUME NEW t \in IndexesDue PROVE t \in Tables /\ t \in Indexed
        <5>1. /\ t \in Visited /\ t \in Tables /\ dbt[t].schema_state = "CREATED"
              /\ Scanned[t].schema_state = "INDEX_ENQUEUED"
          BY <4>1, <4>2 DEF IndexesDue, Visited
        <5> QED
          BY <5>1, ScannedOK
      <4> QED
        BY <4>2
    <3>3. InOrder(IndexesDue) \in Seq(IndexesDue)
      BY <3>2, InOrderOK
    <3> DEFINE e == InOrder(IndexesDue)
    <3>4. e \in Seq(J)
      BY <3>2, <3>3
    <3> HIDE DEF e, J
    <3>5. q \o e \in Seq(J)
      BY <1>k, <3>4
    <3> QED
      BY <1>s, <2>0, <3>1, <3>5 DEF e
  <2>2. CASE ~DispatchFromList
    <3>1. index_queue' = q
      BY <1>2, <2>2 DEF DispatcherStep, wake_threads_waiting, DispatchReady, DispatchLater, Sleep,
                  FileTypeEnded, DispatcherEnds, indexVars
    <3> QED
      BY <1>k, <1>s, <2>0, <3>1
  <2> QED
    BY <2>1, <2>2
<1>3. CASE MainStep
  <2>0. index_worker' = index_worker
    BY <1>3, MainFrame
  <2> DEFINE e == [i \in 1 .. Cardinality(IndexWorkers) |-> "SHUTDOWN"]
  <2>1. index_queue' \in {q, q \o e}
    BY <1>3 DEF MainStep, wait_schema_worker_to_finish, wait_worker_loader_main,
                wait_index_worker_to_finish, indexVars
  <2>2. Cardinality(IndexWorkers) \in Nat
    BY FiniteAssumption, FS_CardinalityType
  <2>3. e \in Seq(J)
    BY <2>2
  <2> HIDE DEF e, J
  <2>4. q \o e \in Seq(J)
    BY <1>k, <2>3
  <2> QED
    BY <1>k, <1>s, <2>0, <2>1, <2>4
<1>4. ASSUME NEW w \in FileWorkers, FileStep(w) PROVE IndexOK'
  BY <1>4, <1>k, <1>s, FileFrame
<1>5. ASSUME NEW w \in SchemaWorkers, SchemaStep(w) PROVE IndexOK'
  BY <1>5, <1>k, <1>s, SchemaFrame
<1>6. ASSUME NEW l \in Loaders, LoaderStep(l) PROVE IndexOK'
  BY <1>6, <1>k, <1>s, LoaderFrame
<1>7. CASE wait_file_type_to_complete
  BY <1>7, <1>k, <1>s, FilesEndFrame
<1>8. CASE UNCHANGED vars
  BY <1>8, <1>k, <1>s DEF vars, indexVars
<1> QED
  BY <1>1, <1>2, <1>3, <1>4, <1>5, <1>6, <1>7, <1>8 DEF Next

-----------------------------------------------------------------------------
(* Requests *)

WaitingLoader == {r \in LoaderRecord : r.pc = "wait"}
Asked == Items(data_control_queue, {"REQUEST"})
Asking == Many(Loaders, loader, WaitingLoader)
OneIf(b) == IF b THEN 1 ELSE 0

LEMMA RequestsShape ==
    RequestsOK <=>
        (dispatcher \in {"pop", "sleep"} =>
            Asking <= Asked + Len(data_job_queue) + threads_waiting + OneIf(dispatcher = "sleep"))
  BY DEF RequestsOK, WaitingLoader, Asked, Asking, OneIf

(* A request taken from the queue of the dispatcher, or another control. *)
LEMMA AskedTail ==
    ASSUME ControlOK, NEW type \in Controls, Control(type)
    PROVE  /\ Tail(data_control_queue) \in Seq(Controls)
           /\ Items(Tail(data_control_queue), {"REQUEST"}) = Asked - OneIf(type = "REQUEST")
           /\ Asked \in Nat
<1> DEFINE q == data_control_queue
<1>1. q \in Seq(Controls) /\ q # <<>> /\ Head(q) = type
  BY DEF ControlOK, Control
<1> HIDE DEF q
<1>2. \A P : Items(Tail(q), P) = IF Head(q) \in P THEN Items(q, P) - 1 ELSE Items(q, P)
  BY <1>1, ItemsTail
<1>3. Tail(q) \in Seq(Controls)
  BY <1>1
<1>4. Items(q, {"REQUEST"}) \in Nat
  BY <1>1, ItemsBound
<1>5. Items(Tail(q), {"REQUEST"}) = Items(q, {"REQUEST"}) - OneIf(type = "REQUEST")
  BY <1>1, <1>2, <1>4 DEF OneIf
<1> QED
  BY <1>3, <1>4, <1>5 DEF Asked, q

LEMMA RequestsStay ==
    ASSUME RequestsOK, ControlOK, Asked' = Asked, loader' = loader,
           data_job_queue' = data_job_queue, threads_waiting' = threads_waiting,
           dispatcher' = dispatcher
    PROVE  RequestsOK'
<1>1. Asking' = Asking
  BY DEF Asking
<1> HIDE DEF RequestsOK
<1>2. RequestsOK' <=>
        (dispatcher' \in {"pop", "sleep"} =>
            Asking' <= Asked' + Len(data_job_queue') + threads_waiting' + OneIf(dispatcher' = "sleep"))
  BY DEF RequestsOK, WaitingLoader, Asked, Asking, OneIf
<1> QED
  BY <1>1, <1>2, RequestsShape

LEMMA RequestsNext ==
    ASSUME RequestsOK, ControlOK, LoadInv, [Next]_vars
    PROVE  RequestsOK'
<1> DEFINE q == data_control_queue
           n == Len(data_job_queue)
           m == threads_waiting
<1>q. q \in Seq(Controls) /\ {"REQUEST", "WAKE", "FILE_TYPE_ENDED"} \subseteq Controls
  BY DEF ControlOK, Controls
<1>j. JobsOK /\ data_job_queue \in Seq(DataJobs)
  BY DEF LoadInv, JobsOK
<1>i. Asked \in Nat /\ Asking \in Nat /\ n \in Nat /\ m \in Nat
  <2>1. Asked \in Nat
    BY <1>q, ItemsBound DEF Asked
  <2>2. Asking \in Nat
    BY <1>j, CountsNat DEF Asking
  <2> QED
    BY <1>j, <2>1, <2>2 DEF ControlOK
<1>o. dispatcher \in {"pop", "sleep"} => Asking <= Asked + n + m + OneIf(dispatcher = "sleep")
  BY RequestsShape
<1>p. RequestsOK' <=>
        (dispatcher' \in {"pop", "sleep"} =>
            Asking' <= Asked' + Len(data_job_queue') + threads_waiting' + OneIf(dispatcher' = "sleep"))
  BY DEF RequestsOK, WaitingLoader, Asked, Asking, OneIf
<1>s. ASSUME Asked' = Asked, loader' = loader, data_job_queue' = data_job_queue,
             threads_waiting' = m, dispatcher' = dispatcher
      PROVE  RequestsOK'
  BY <1>s, RequestsStay
<1>a. \A P : \A x \in Controls : Items(Append(q, x), P) = IF x \in P THEN Items(q, P) + 1 ELSE Items(q, P)
  <2> TAKE P
  <2> TAKE x \in Controls
  <2>1. \A S : Items(Append(q, x), S) = IF x \in S THEN Items(q, S) + 1 ELSE Items(q, S)
    BY <1>q, ItemsPush
  <2> QED
    BY <2>1
<1>w. ASSUME wake_data_threads \/ q' = q PROVE Asked' = Asked
  BY <1>q, <1>w, WakeOK DEF Asked
<1>1. ASSUME NEW w \in FileWorkers, FileStep(w) PROVE RequestsOK'
  <2>1. wake_data_threads \/ q' = q
    BY <1>1 DEF FileStep, process_database_filename, process_schema_sequence_filename,
                append_new_db_table, CheckParsed, parse_create_table_from_file,
                process_data_filename, WakeAfterFile, FileWorkerEnds, dispatchVars
  <2>2. Asked' = Asked
    BY <1>w, <2>1
  <2> QED
    BY <1>1, <1>s, <2>2, FileFrame
<1>2. ASSUME NEW w \in SchemaWorkers, SchemaStep(w) PROVE RequestsOK'
  <2>1. wake_data_threads \/ q' = q
    BY <1>2 DEF SchemaStep, PopCreateJob, CreateDatabase, PopObjectJob, RestoreSequence,
                PurgeTable, PurgeFails, CreateTable, WakeAfterSchema, SchemaProcessEnded,
                SchemaWorkerEnds, dispatchVars
  <2>2. Asked' = Asked
    BY <1>w, <2>1
  <2> QED
    BY <1>2, <1>s, <2>2, SchemaFrame
<1>3. CASE DispatcherStep
  <2>l. loader' = loader
    BY <1>3, DispatcherFrame
  <2>L. Asking' = Asking
    BY <2>l DEF Asking
  <2>1. CASE wake_threads_waiting
    <3> DEFINE e == [i \in 1 .. m |-> "REQUEST"]
    <3>1. /\ Control("WAKE") /\ q' = Tail(q) \o e /\ threads_waiting' = 0
          /\ dispatcher' = dispatcher /\ data_job_queue' = data_job_queue
      BY <2>1 DEF wake_threads_waiting, loaderVars
    <3>2. "WAKE" \in Controls /\ "REQUEST" \in Controls
      BY DEF Controls
    <3>3. /\ Tail(q) \in Seq(Controls)
          /\ Items(Tail(q), {"REQUEST"}) = Asked - OneIf("WAKE" = "REQUEST")
      BY <3>1, <3>2, AskedTail
    <3>4. e \in Seq(Controls) /\ Len(e) = m /\ \A i \in DOMAIN e : e[i] = "REQUEST"
      BY <1>i, <3>2
    <3> DEFINE z == Tail(q)
    <3> HIDE DEF e, z
    <3>5. \A P : Items(z \o e, P) = IF "REQUEST" \in P THEN Items(z, P) + Len(e) ELSE Items(z, P)
      <4>1. z \in Seq(Controls) /\ "REQUEST" \in Controls
        BY <3>2, <3>3 DEF z
      <4> QED
        BY <3>4, <4>1, ItemsRepeated
    <3>6. Items(z, {"REQUEST"}) = Asked
      BY <1>i, <3>3 DEF OneIf, z
    <3>7. Asked' = Asked + m
      BY <3>1, <3>4, <3>5, <3>6 DEF Asked, z
    <3>8. OneIf(dispatcher' = "sleep") = OneIf(dispatcher = "sleep")
      BY <3>1
    <3>9. OneIf(dispatcher = "sleep") \in {0, 1}
      BY DEF OneIf
    <3> QED
      BY <1>i, <1>o, <1>p, <2>L, <3>1, <3>7, <3>8, <3>9
  <2>2. CASE DispatchReady \/ (DispatchFromList /\ ScanGives)
    <3>1. Control("REQUEST") /\ q' = Tail(q) /\ dispatcher' = dispatcher /\ threads_waiting' = m
      BY <2>2, FromList DEF DispatchReady, DispatchFromList, ScanGives
    <3>2. \E x : data_job_queue' = Append(data_job_queue, x)
      BY <2>2, Zenon DEF DispatchReady, ScanGives, Given
    <3>3. Len(data_job_queue') = n + 1
      BY <1>j, <3>2
    <3>4. Items(Tail(q), {"REQUEST"}) = Asked - OneIf("REQUEST" = "REQUEST")
      BY <1>q, <3>1, AskedTail
    <3>5. Asked' = Asked - 1
      BY <3>1, <3>4 DEF Asked, OneIf
    <3>6. dispatcher = "pop" /\ OneIf(dispatcher' = "sleep") = OneIf(dispatcher = "sleep")
      BY <3>1 DEF Control
    <3>7. OneIf(dispatcher = "sleep") \in {0, 1}
      BY DEF OneIf
    <3> QED
      BY <1>i, <1>o, <1>p, <2>L, <3>1, <3>3, <3>5, <3>6, <3>7
  <2>3. CASE DispatchLater \/ (DispatchFromList /\ ScanWaits)
    <3>1. /\ Control("REQUEST") /\ q' = Tail(q) /\ dispatcher' = "sleep" /\ threads_waiting' = m
          /\ data_job_queue' = data_job_queue
      BY <2>3, FromList DEF DispatchLater, DispatchFromList, ScanWaits, loaderVars
    <3>2. Items(Tail(q), {"REQUEST"}) = Asked - OneIf("REQUEST" = "REQUEST")
      BY <1>q, <3>1, AskedTail
    <3>3. Asked' = Asked - 1
      BY <3>1, <3>2 DEF Asked, OneIf
    <3>4. dispatcher = "pop" /\ OneIf(dispatcher' = "sleep") = 1 /\ OneIf(dispatcher = "sleep") = 0
      BY <3>1 DEF Control, OneIf
    <3> QED
      BY <1>i, <1>o, <1>p, <2>L, <3>1, <3>3, <3>4
  <2>4. CASE DispatchFromList /\ ScanEnds
    BY <1>p, <2>4 DEF ScanEnds
  <2>5. CASE Sleep
    <3> DEFINE c == Cardinality(Loaders)
    <3>1. /\ dispatcher = "sleep" /\ dispatcher' = "pop" /\ q' = q
          /\ data_job_queue' = data_job_queue /\ threads_waiting' = IF m < c THEN m + 1 ELSE m
      BY <2>5 DEF Sleep, loaderVars
    <3>2. c \in Nat /\ Asking <= c
      BY FiniteAssumption, FS_CardinalityType, ManyBound DEF Asking
    <3>3. Asked' = Asked
      BY <3>1 DEF Asked
    <3>4. OneIf(dispatcher' = "sleep") = 0 /\ OneIf(dispatcher = "sleep") = 1
      BY <3>1 DEF OneIf
    <3> HIDE DEF c
    <3> QED
      BY <1>i, <1>o, <1>p, <2>L, <3>1, <3>2, <3>3, <3>4
  <2>6. CASE FileTypeEnded
    <3> DEFINE z == Tail(q)
    <3>1. /\ Control("FILE_TYPE_ENDED") /\ q' = Append(z, "REQUEST") /\ dispatcher' = dispatcher
          /\ threads_waiting' = m /\ data_job_queue' = data_job_queue
      BY <2>6 DEF FileTypeEnded, loaderVars
    <3>2. /\ z \in Seq(Controls)
          /\ Items(z, {"REQUEST"}) = Asked - OneIf("FILE_TYPE_ENDED" = "REQUEST")
      BY <1>q, <3>1, AskedTail
    <3> HIDE DEF z
    <3>3. \A P : Items(Append(z, "REQUEST"), P)
                   = IF "REQUEST" \in P THEN Items(z, P) + 1 ELSE Items(z, P)
      <4>1. z \in Seq(Controls) /\ "REQUEST" \in Controls
        BY <1>q, <3>2
      <4> QED
        BY <4>1, ItemsPush
    <3>4. Asked' = Asked + 1
      BY <1>i, <3>1, <3>2, <3>3 DEF Asked, OneIf
    <3>5. OneIf(dispatcher' = "sleep") = OneIf(dispatcher = "sleep")
      BY <3>1
    <3>6. OneIf(dispatcher = "sleep") \in {0, 1}
      BY DEF OneIf
    <3> QED
      BY <1>i, <1>o, <1>p, <2>L, <3>1, <3>4, <3>5, <3>6
  <2>7. CASE DispatcherEnds
    BY <1>p, <2>7 DEF DispatcherEnds
  <2> QED
    BY <1>3, <2>1, <2>2, <2>3, <2>4, <2>5, <2>6, <2>7, FromList DEF DispatcherStep
<1>4. ASSUME NEW l \in Loaders, LoaderStep(l) PROVE RequestsOK'
  <2>0. dispatcher' = dispatcher /\ threads_waiting' = m
    BY <1>4, LoaderFrame
  <2>s. OneIf(dispatcher' = "sleep") = OneIf(dispatcher = "sleep")
        /\ OneIf(dispatcher = "sleep") \in {0, 1}
    BY <2>0 DEF OneIf
  <2> DEFINE a == loader[l]
  <2>a. a \in LoaderRecord /\ (a.pc \in {"load", "release"} => a.job.of \in Tables)
    BY <1>j DEF JobsOK
  <2>b. ASSUME NEW x \in LoaderRecord, x.pc \in {"load", "release"} => x.job.of \in Tables,
               loader' = [loader EXCEPT ![l] = x]
        PROVE  Asking' = Asking + OneIf(x.pc = "wait") - OneIf(a.pc = "wait")
    <3>1. LoaderMoved(l, x)
      BY <1>j, <2>b, LoaderSet
    <3>2. (a \in WaitingLoader <=> a.pc = "wait") /\ (x \in WaitingLoader <=> x.pc = "wait")
      BY <2>a, <2>b DEF WaitingLoader
    <3>3. Asking' = Many(Loaders, loader', WaitingLoader)
      BY DEF Asking, WaitingLoader
    <3>4. Many(Loaders, loader', WaitingLoader) =
             IF (a \in WaitingLoader <=> x \in WaitingLoader) THEN Asking
             ELSE IF x \in WaitingLoader THEN Asking + 1 ELSE Asking - 1
      BY <3>1 DEF LoaderMoved, Asking
    <3> HIDE DEF a
    <3> QED
      BY <1>i, <3>2, <3>3, <3>4 DEF OneIf
  <2>1. CASE Request(l)
    <3> DEFINE x == [a EXCEPT !.pc = "wait"]
    <3>1. /\ a.pc = "idle" /\ q' = Append(q, "REQUEST") /\ loader' = [loader EXCEPT ![l] = x]
          /\ data_job_queue' = data_job_queue
      BY <2>1 DEF Request
    <3>2. x \in LoaderRecord /\ x.pc = "wait"
      <4> HIDE DEF a
      <4> QED
        BY <2>a DEF LoaderRecord
    <3> HIDE DEF x
    <3>3. Asking' = Asking + OneIf(x.pc = "wait") - OneIf(a.pc = "wait")
      BY <2>b, <3>1, <3>2
    <3>4. Asking' = Asking + 1
      BY <1>i, <3>1, <3>2, <3>3 DEF OneIf
    <3>5. Asked' = Asked + 1
      BY <1>a, <1>q, <3>1 DEF Asked
    <3> QED
      BY <1>i, <1>o, <1>p, <2>0, <2>s, <3>1, <3>4, <3>5
  <2>2. CASE TakeJob(l)
    <3> DEFINE h == Head(data_job_queue)
               x == At("load", h)
    <3>1. /\ a.pc = "wait" /\ q' = q /\ data_job_queue # <<>> /\ ~Ended(h)
          /\ loader' = [loader EXCEPT ![l] = x] /\ data_job_queue' = Tail(data_job_queue)
      BY <2>2 DEF TakeJob, dispatchVars
    <3>2. h \in DataJobs
      BY <1>j, <3>1
    <3>3. h.of \in Tables /\ h \in [of : Tables, part : Nat]
      BY <3>1, <3>2, JobsShape
    <3> HIDE DEF h
    <3>4. x \in LoaderRecord /\ x.pc = "load" /\ x.job = h
      BY <3>3 DEF LoaderRecord, At
    <3> HIDE DEF x
    <3>5. Asking' = Asking + OneIf(x.pc = "wait") - OneIf(a.pc = "wait")
      BY <2>b, <3>1, <3>3, <3>4
    <3>6. Asking' = Asking - 1
      BY <1>i, <3>1, <3>4, <3>5 DEF OneIf
    <3>7. Asked' = Asked /\ Len(data_job_queue') = n - 1
      BY <1>j, <3>1 DEF Asked
    <3> QED
      BY <1>i, <1>o, <1>p, <2>0, <2>s, <3>6, <3>7
  <2>3. CASE LoaderEnds(l)
    <3> DEFINE x == [a EXCEPT !.pc = "left"]
    <3>1. /\ a.pc = "wait" /\ q' = q /\ data_job_queue # <<>>
          /\ data_job_queue' = Append(Tail(data_job_queue), Head(data_job_queue))
          /\ loader' = [loader EXCEPT ![l] = x]
      BY <2>3 DEF LoaderEnds, dispatchVars
    <3>2. x \in LoaderRecord /\ x.pc = "left"
      <4> HIDE DEF a
      <4> QED
        BY <2>a DEF LoaderRecord
    <3> HIDE DEF x
    <3>3. Asking' = Asking + OneIf(x.pc = "wait") - OneIf(a.pc = "wait")
      BY <2>b, <3>1, <3>2
    <3>4. Asking' = Asking - 1
      BY <1>i, <3>1, <3>2, <3>3 DEF OneIf
    <3>5. Asked' = Asked /\ Len(data_job_queue') = n
      BY <1>j, <3>1 DEF Asked
    <3> QED
      BY <1>i, <1>o, <1>p, <2>0, <2>s, <3>4, <3>5
  <2>4. CASE RestoreFilename(l)
    <3> DEFINE x == [a EXCEPT !.pc = "release"]
    <3>1. /\ a.pc = "load" /\ q' = q /\ data_job_queue' = data_job_queue
          /\ loader' = loader \/ loader' = [loader EXCEPT ![l] = x]
      BY <2>4 DEF RestoreFilename, dispatchVars
    <3>2. x \in LoaderRecord /\ x.pc = "release" /\ x.job = a.job
      <4> HIDE DEF a
      <4> QED
        BY <2>a DEF LoaderRecord
    <3> HIDE DEF x
    <3>3. Asked' = Asked
      BY <3>1 DEF Asked
    <3>4. CASE loader' = loader
      BY <1>s, <2>0, <3>1, <3>3, <3>4
    <3>5. CASE loader' = [loader EXCEPT ![l] = x]
      <4>1. Asking' = Asking + OneIf(x.pc = "wait") - OneIf(a.pc = "wait")
        BY <2>a, <2>b, <3>1, <3>2, <3>5
      <4>2. Asking' = Asking
        BY <1>i, <3>1, <3>2, <4>1 DEF OneIf
      <4> QED
        BY <1>i, <1>o, <1>p, <2>0, <2>s, <3>1, <3>3, <4>2
    <3> QED
      BY <3>1, <3>4, <3>5
  <2>5. CASE ReleaseTable(l)
    <3> DEFINE x == LoaderIdle
    <3>1. /\ a.pc = "release" /\ q' = q /\ data_job_queue' = data_job_queue
          /\ loader' = [loader EXCEPT ![l] = x]
      BY <2>5 DEF ReleaseTable, dispatchVars
    <3>2. x \in LoaderRecord /\ x.pc = "idle"
      BY DEF LoaderRecord, LoaderIdle, At, DataJob
    <3> HIDE DEF x
    <3>3. Asked' = Asked
      BY <3>1 DEF Asked
    <3>4. Asking' = Asking + OneIf(x.pc = "wait") - OneIf(a.pc = "wait")
      BY <2>b, <3>1, <3>2
    <3>5. Asking' = Asking
      BY <1>i, <3>1, <3>2, <3>4 DEF OneIf
    <3> QED
      BY <1>i, <1>o, <1>p, <2>0, <2>s, <3>1, <3>3, <3>5
  <2> QED
    BY <1>4, <2>1, <2>2, <2>3, <2>4, <2>5 DEF LoaderStep
<1>5. ASSUME NEW i \in IndexWorkers, IndexStep(i) PROVE RequestsOK'
  <2>1. wake_data_threads \/ q' = q
    BY <1>5 DEF IndexStep, TakeIndex, BuildIndex, WakeAfterIndex, dispatchVars
  <2>2. Asked' = Asked
    BY <1>w, <2>1
  <2> QED
    BY <1>5, <1>s, <2>2, IndexFrame
<1>6. CASE MainStep
  <2>1. q' \in {q, Append(q, "FILE_TYPE_ENDED")}
    BY <1>6 DEF MainStep, wait_schema_worker_to_finish, wait_worker_loader_main,
                wait_index_worker_to_finish, dispatchVars
  <2>2. Asked' = Asked
    BY <1>a, <1>q, <2>1 DEF Asked
  <2> QED
    BY <1>6, <1>s, <2>2, MainFrame
<1>7. CASE wait_file_type_to_complete
  <2>1. Asked' = Asked
    BY <1>7, FilesEndFrame DEF Asked
  <2> QED
    BY <1>7, <1>s, <2>1, FilesEndFrame
<1>8. CASE UNCHANGED vars
  <2>1. Asked' = Asked
    BY <1>8 DEF vars, dispatchVars, Asked
  <2> QED
    BY <1>8, <1>s, <2>1 DEF vars, dispatchVars, loaderVars
<1> QED
  BY <1>1, <1>2, <1>3, <1>4, <1>5, <1>6, <1>7, <1>8 DEF Next

-----------------------------------------------------------------------------
(* The inductive invariant and what follows from it *)

LEMMA CountInit == ASSUME Init PROVE CountInv
<1> USE DEF Init
<1>f. FilesOK
  <2>1. options \in Modes
    OBVIOUS
  <2>2. file_worker \in [FileWorkers -> FileRecord] /\ \A w \in FileWorkers : file_worker[w].pc = "idle"
    BY DEF FileIdle, At, FileRecord, NoFile
  <2> QED
    BY <2>1, <2>2 DEF FilesOK, FileHandOK
<1>s. SchemaOK
  <2>1. schema_worker \in [SchemaWorkers -> SchemaRecord]
        /\ \A w \in SchemaWorkers : schema_worker[w].pc = "idle"
    BY DEF Idle, At, SchemaRecord
  <2>2. database \in [Databases -> [created : BOOLEAN, sequence_queue : Seq(SequenceJobs),
                                    table_queue : Seq(TableJobs)]]
    <3>1. <<>> \in Seq(SequenceJobs) /\ <<>> \in Seq(TableJobs)
      OBVIOUS
    <3> QED
      BY <3>1
  <2>3. schema_job_queue \in Seq(SchemaJobs) /\ retry_queue \in Seq(TableJobs)
    OBVIOUS
  <2> QED
    BY <2>1, <2>2, <2>3 DEF SchemaOK, SchemaHandOK
<1>n. /\ NewTable \in TableRecord /\ NewTable.restore_job_list = {} /\ NewTable.remaining_jobs = 0
      /\ NewTable.current_threads = 0 /\ NewTable.in_ready_queue = FALSE
  BY LoaderAssumption DEF NewTable, TableRecord, schema_status
<1>d. \A t \in Tables : dbt[t] = NewTable
  OBVIOUS
<1>w. loader \in [Loaders -> LoaderRecord] /\ \A l \in Loaders : loader[l].pc = "idle"
  BY DEF LoaderIdle, LoaderRecord, At, DataJob
<1>l. LoadInv
  <2>1. dbt \in [Tables -> TableRecord] /\ \A t \in Tables : dbt[t].restore_job_list \subseteq 1 .. Parts[t]
    BY <1>d, <1>n
  <2>2. ready_table_queue = <<>> /\ data_job_queue = <<>>
    OBVIOUS
  <2>3. \A P : Items(<<>>, P) = 0
    BY ItemsEmpty
  <2>4. \A t : \A pcs : "idle" \notin pcs => Many(Loaders, loader, LoadingAt(t, pcs)) = 0
    <3> TAKE t
    <3> TAKE pcs
    <3> HAVE "idle" \notin pcs
    <3>1. \A l \in Loaders : loader[l] \notin LoadingAt(t, pcs)
      BY <1>w DEF LoadingAt
    <3> QED
      BY <3>1, FiniteAssumption, ManyBound
  <2>5. Cardinality({}) = 0
    BY FS_EmptySet
  <2>6. CountersOK
    <3>1. ASSUME NEW t \in Tables PROVE CountersAt(t)
      <4>1. /\ dbt[t].remaining_jobs = 0 /\ dbt[t].current_threads = 0
            /\ Cardinality(dbt[t].restore_job_list) = 0
        BY <1>d, <1>n, <2>5
      <4>2. /\ Many(Loaders, loader, LoadingAt(t, {"load"})) = 0
            /\ Many(Loaders, loader, LoadingAt(t, {"load", "release"})) = 0
        BY <2>4
      <4>3. Items(data_job_queue, JobsOf(t)) = 0
        BY <2>2, <2>3
      <4> QED
        BY <4>1, <4>2, <4>3 DEF CountersAt
    <3> QED
      BY <3>1 DEF CountersOK
  <2>7. ReadyOK
    <3>1. ASSUME NEW t \in Tables PROVE Items(ready_table_queue, {t}) = 0 /\ dbt[t].in_ready_queue = FALSE
      BY <1>d, <1>n, <2>2, <2>3
    <3> QED
      BY <3>1 DEF ReadyOK
  <2>8. JobsOK
    <3>1. data_job_queue \in Seq(DataJobs)
      BY <2>2
    <3> QED
      BY <1>w, <3>1 DEF JobsOK
  <2>9. ready_table_queue \in Seq(Tables)
    BY <2>2
  <2> QED
    BY <2>1, <2>6, <2>7, <2>8, <2>9 DEF LoadInv, TablesOK
<1>c. ControlOK
  <2>1. data_control_queue \in Seq(Controls) /\ threads_waiting \in Nat
    OBVIOUS
  <2> QED
    BY <2>1 DEF ControlOK
<1>i. IndexOK
  <2>1. index_worker \in [IndexWorkers -> IndexRecord] /\ \A i \in IndexWorkers : index_worker[i].pc = "idle"
    BY DEF Idle, At, IndexRecord
  <2>2. index_queue \in Seq(Indexed \cup {"SHUTDOWN"})
    OBVIOUS
  <2> QED
    BY <2>1, <2>2 DEF IndexOK, IndexRecord
<1>h. HandsOK
  <2>1. \A f \in DumpFiles(options.tables) : f.kind = "data" => f.of \in Tables
    BY <1>f, ModeShape, FileShape DEF FilesOK, IsFile
  <2>2. \A f \in files : f.kind = "data" => f.part \notin dbt[f.of].restore_job_list
    BY <1>d, <1>n, <2>1
  <2>3. \A w \in FileWorkers : ~Holds(w)
    BY DEF Holds, FileIdle, At
  <2> QED
    BY <2>2, <2>3 DEF HandsOK
<1>r. RequestsOK
  <2>1. \A l \in Loaders : loader[l] \notin WaitingLoader
    BY <1>w DEF WaitingLoader
  <2>2. Asking = 0
    BY <2>1, FiniteAssumption, ManyBound DEF Asking
  <2>3. Asked = 0 /\ Len(data_job_queue) = 0 /\ threads_waiting = 0 /\ dispatcher = "pop"
    BY ItemsEmpty DEF Asked
  <2> QED
    BY <2>2, <2>3, RequestsShape DEF OneIf
<1> QED
  BY <1>f, <1>s, <1>l, <1>c, <1>i, <1>h, <1>r, LoadParts DEF CountInv, TypeInv

LEMMA CountNext == ASSUME CountInv, [Next]_vars PROVE CountInv'
<1>1. /\ FilesOK /\ SchemaOK /\ LoadInv /\ ControlOK /\ IndexOK /\ HandsOK /\ RequestsOK
  BY LoadParts DEF CountInv, TypeInv
<1>2. FilesOK'
  BY <1>1, FilesType
<1>3. SchemaOK'
  <2>1. SchemaQueuesOK' /\ SchemaWorkersOK'
    BY <1>1, SchemaQueuesType, SchemaWorkersType
  <2> QED
    BY <2>1 DEF SchemaOK, SchemaQueuesOK, SchemaWorkersOK
<1>4. LoadInv'
  BY <1>1, LoadNext
<1>5. ControlOK' /\ IndexOK'
  BY <1>1, ControlType, IndexType
<1>6. HandsOK' /\ RequestsOK'
  BY <1>1, HandsNext, RequestsNext
<1>7. LoadOK' /\ CountersOK' /\ ReadyOK'
  BY <1>4 DEF LoadInv, LoadOK, TablesOK, JobsOK
<1> QED
  BY <1>2, <1>3, <1>5, <1>6, <1>7 DEF CountInv, TypeInv

\* Every variable of a restore keeps its shape and the jobs of its tables are
\* accounted for, whatever the dump, the options and the numbers of threads.
THEOREM LoaderCounts == Spec => []CountInv
<1>1. Init => CountInv
  BY CountInit
<1>2. CountInv /\ [Next]_vars => CountInv'
  BY CountNext
<1> QED
  BY <1>1, <1>2, PTL DEF Spec

LEMMA CountedTables == ASSUME CountInv PROVE TableCounters
<1>1. LoadInv /\ JobsOK /\ CountersOK /\ ReadyOK
  BY LoadParts DEF CountInv, TypeInv, LoadInv
<1>2. data_job_queue \in Seq(DataJobs) /\ loader \in [Loaders -> LoaderRecord]
      /\ ready_table_queue \in Seq(Tables)
  BY <1>1 DEF JobsOK, LoadInv
<1>3. ASSUME NEW t \in Tables
      PROVE  /\ Items(data_job_queue, JobsOf(t)) = Cardinality(Queued(t))
             /\ \A pcs : Many(Loaders, loader, LoadingAt(t, pcs)) = Cardinality(Busy(t, pcs))
             /\ Items(ready_table_queue, {t})
                  = Cardinality({i \in 1 .. Len(ready_table_queue) : ready_table_queue[i] = t})
  <2>1. {n \in DOMAIN data_job_queue : data_job_queue[n] \in JobsOf(t)} = Queued(t)
    BY <1>2, JobsShape, SMTT(30) DEF Queued
  <2>2. ASSUME NEW pcs PROVE {l \in Loaders : loader[l] \in LoadingAt(t, pcs)} = Busy(t, pcs)
    BY <1>2, LoadingShape DEF Busy
  <2>3. {n \in DOMAIN ready_table_queue : ready_table_queue[n] \in {t}}
          = {i \in 1 .. Len(ready_table_queue) : ready_table_queue[i] = t}
    BY <1>2
  <2> QED
    BY <2>1, <2>2, <2>3 DEF Items, Many
<1>4. ASSUME NEW t \in Tables
      PROVE  /\ dbt[t].remaining_jobs = Cardinality(dbt[t].restore_job_list)
                                   + Cardinality(Queued(t)) + Cardinality(Busy(t, {"load"}))
             /\ dbt[t].current_threads = Cardinality(Queued(t)) + Cardinality(Busy(t, {"load", "release"}))
             /\ Cardinality({i \in 1..Len(ready_table_queue) : ready_table_queue[i] = t})
                  = IF dbt[t].in_ready_queue THEN 1 ELSE 0
  BY <1>1, <1>3 DEF CountersOK, CountersAt, ReadyOK
<1> QED
  BY <1>4 DEF TableCounters

\* The two counters of a table are exact, and it is in ready_table_queue once
\* exactly when it says so.
THEOREM CountersExact == Spec => []TableCounters
<1>1. CountInv => TableCounters
  BY CountedTables
<1> QED
  BY <1>1, LoaderCounts, PTL

LEMMA KeptRequests == ASSUME CountInv PROVE RequestsKept
<1>1. RequestsOK /\ data_control_queue \in Seq(Controls)
  BY DEF CountInv, TypeInv, ControlOK
<1>2. loader \in [Loaders -> LoaderRecord]
  BY DEF CountInv, TypeInv, LoadOK
<1>3. {n \in DOMAIN data_control_queue : data_control_queue[n] \in {"REQUEST"}}
        = {i \in 1..Len(data_control_queue) : data_control_queue[i] = "REQUEST"}
  BY <1>1
<1>4. {l \in Loaders : loader[l] \in {r \in LoaderRecord : r.pc = "wait"}}
        = {l \in Loaders : loader[l].pc = "wait"}
  BY <1>2
<1> QED
  BY <1>1, <1>3, <1>4 DEF RequestsOK, RequestsKept, Items, Many

\* No request of a loader is lost, with any number of loaders.
THEOREM RequestsNeverLost == Spec => []RequestsKept
<1>1. CountInv => RequestsKept
  BY KeptRequests
<1> QED
  BY <1>1, LoaderCounts, PTL

-----------------------------------------------------------------------------
(* The schema jobs of a table, wherever they are *)

LEMMA ObjectShape ==
    /\ \A j \in SchemaJobs : \A t \in Tables :
          j \in ObjectJobs(t) <=> j.type \in {"SEQUENCE", "TABLE"} /\ j.of = t
    /\ \A j \in SequenceJobs \cup TableJobs :
          j \in SchemaJobs /\ j.type \in {"SEQUENCE", "TABLE"} /\ j.of \in Tables
<1>0. SequenceObjects \subseteq Tables /\ SchemaFiles \subseteq Tables
  BY LoaderAssumption
<1>1. ASSUME NEW j \in SchemaJobs, NEW t \in Tables
      PROVE  j \in ObjectJobs(t) <=> j.type \in {"SEQUENCE", "TABLE"} /\ j.of = t
  <2>1. /\ SchemaJob("SEQUENCE", t).type = "SEQUENCE" /\ SchemaJob("SEQUENCE", t).of = t
        /\ SchemaJob("TABLE", t).type = "TABLE" /\ SchemaJob("TABLE", t).of = t
    BY DEF SchemaJob
  <2>2. /\ j.type = "SEQUENCE" => j = SchemaJob("SEQUENCE", j.of)
        /\ j.type = "TABLE" => j = SchemaJob("TABLE", j.of)
    BY JobShape
  <2> QED
    BY <2>1, <2>2 DEF ObjectJobs
<1>2. ASSUME NEW j \in SequenceJobs \cup TableJobs
      PROVE  j \in SchemaJobs /\ j.type \in {"SEQUENCE", "TABLE"} /\ j.of \in Tables
  BY <1>0, JobShape DEF SequenceJobs, TableJobs, SchemaJob
<1> QED
  BY <1>1, <1>2

LEMMA JobCounts ==
    ASSUME SchemaQueuesOK
    PROVE  /\ schema_job_queue \in Seq(SchemaJobs) /\ retry_queue \in Seq(SchemaJobs)
           /\ \A P : Items(schema_job_queue, P) \in Nat /\ Items(retry_queue, P) \in Nat
           /\ \A d \in Databases : \A P : Items(Waiting(d), P) \in Nat
           /\ \A t \in Tables : DbOf[t] \in Databases /\ JobsFor(t) \in Nat
<1>1. /\ schema_job_queue \in Seq(SchemaJobs) /\ retry_queue \in Seq(SchemaJobs)
      /\ \A t \in Tables : DbOf[t] \in Databases
  BY JobShape, LoaderAssumption DEF SchemaQueuesOK
<1>2. \A P : Items(schema_job_queue, P) \in Nat /\ Items(retry_queue, P) \in Nat
  BY <1>1, ItemsBound
<1>3. \A d \in Databases : Waiting(d) \in Seq(SchemaJobs)
  BY WaitingType
<1>4. \A d \in Databases : \A P : Items(Waiting(d), P) \in Nat
  BY <1>3, ItemsBound
<1> QED
  BY <1>1, <1>2, <1>4 DEF JobsFor

(* schema_push adds one job to one queue. *)
JobsPushed(t) ==
    \A u \in Tables :
        /\ JobsFor(u)' = IF u = t THEN JobsFor(u) + 1 ELSE JobsFor(u)
        /\ \A d \in Databases : DbOf[u] # d =>
              Items(Waiting(d), ObjectJobs(u))' = Items(Waiting(d), ObjectJobs(u))

LEMMA SchemaPushed ==
    ASSUME SchemaQueuesOK, NEW t \in Tables, NEW job \in SequenceJobs \cup TableJobs, job.of = t,
           schema_push(job, DbOf[t]), retry_queue' = retry_queue
    PROVE  JobsPushed(t)
<1> DEFINE d == DbOf[t]
<1>0. d \in Databases /\ job \in SchemaJobs /\ schema_job_queue \in Seq(SchemaJobs)
  BY JobCounts, ObjectShape
<1>1. \A u \in Tables : job \in ObjectJobs(u) <=> u = t
  BY <1>0, ObjectShape
<1>w. \A e \in Databases : /\ database[e].sequence_queue \in Seq(SequenceJobs)
                           /\ database[e].table_queue \in Seq(TableJobs)
                           /\ database[e].sequence_queue \in Seq(SchemaJobs)
                           /\ database[e].table_queue \in Seq(SchemaJobs)
  BY WaitingType, JobShape
<1> HIDE DEF d
<1>2. ASSUME schema_job_queue' = PushSorted(schema_job_queue, job), database' = database
      PROVE  JobsPushed(t)
  <2>1. \A P : Items(PushSorted(schema_job_queue, job), P)
                 = IF job \in P THEN Items(schema_job_queue, P) + 1 ELSE Items(schema_job_queue, P)
    BY <1>0, PushSortedOK
  <2>2. \A e : Waiting(e)' = Waiting(e)
    BY <1>2 DEF Waiting
  <2>3. ASSUME NEW u \in Tables
        PROVE  JobsFor(u)' = IF u = t THEN JobsFor(u) + 1 ELSE JobsFor(u)
    <3>1. JobsFor(u)' = Items(PushSorted(schema_job_queue, job), ObjectJobs(u))
                        + Items(retry_queue, ObjectJobs(u)) + Items(Waiting(DbOf[u]), ObjectJobs(u))
      BY <1>2, <2>2 DEF JobsFor
    <3>2. /\ Items(schema_job_queue, ObjectJobs(u)) \in Nat /\ Items(retry_queue, ObjectJobs(u)) \in Nat
          /\ Items(Waiting(DbOf[u]), ObjectJobs(u)) \in Nat
      BY JobCounts
    <3>3. Items(PushSorted(schema_job_queue, job), ObjectJobs(u))
            = IF u = t THEN Items(schema_job_queue, ObjectJobs(u)) + 1
                       ELSE Items(schema_job_queue, ObjectJobs(u))
      BY <1>1, <2>1
    <3> QED
      BY <3>1, <3>2, <3>3 DEF JobsFor
  <2> QED
    BY <2>2, <2>3 DEF JobsPushed
<1>3. ASSUME schema_job_queue' = schema_job_queue, NEW s \in Seq(SchemaJobs), NEW r \in Seq(SchemaJobs),
             Waiting(d)' = s \o r,
             \A P : Items(s, P) + Items(r, P)
                      = IF job \in P THEN Items(Waiting(d), P) + 1 ELSE Items(Waiting(d), P),
             \A e \in Databases \ {d} : Waiting(e)' = Waiting(e)
      PROVE  JobsPushed(t)
  <2>1. \A P : Items(s \o r, P) = Items(s, P) + Items(r, P)
    BY <1>3, ItemsConcat
  <2>2. \A P : Items(Waiting(d)', P)
                 = IF job \in P THEN Items(Waiting(d), P) + 1 ELSE Items(Waiting(d), P)
    BY <1>3, <2>1
  <2>3. ASSUME NEW u \in Tables
        PROVE  /\ JobsFor(u)' = IF u = t THEN JobsFor(u) + 1 ELSE JobsFor(u)
               /\ \A e \in Databases : DbOf[u] # e =>
                     Items(Waiting(e), ObjectJobs(u))' = Items(Waiting(e), ObjectJobs(u))
    <3>1. JobsFor(u)' = Items(schema_job_queue, ObjectJobs(u)) + Items(retry_queue, ObjectJobs(u))
                        + Items(Waiting(DbOf[u])', ObjectJobs(u))
      BY <1>3 DEF JobsFor
    <3>2. /\ Items(schema_job_queue, ObjectJobs(u)) \in Nat /\ Items(retry_queue, ObjectJobs(u)) \in Nat
          /\ Items(Waiting(DbOf[u]), ObjectJobs(u)) \in Nat /\ DbOf[u] \in Databases
      BY JobCounts
    <3>3. Items(Waiting(d)', ObjectJobs(u))
            = IF u = t THEN Items(Waiting(d), ObjectJobs(u)) + 1 ELSE Items(Waiting(d), ObjectJobs(u))
      BY <1>1, <2>2
    <3>4. ASSUME NEW e \in Databases
          PROVE  Items(Waiting(e)', ObjectJobs(u))
                   = IF u = t /\ e = d THEN Items(Waiting(e), ObjectJobs(u)) + 1
                                       ELSE Items(Waiting(e), ObjectJobs(u))
      BY <1>3, <3>3
    <3>5. u = t => DbOf[u] = d
      BY DEF d
    <3>6. JobsFor(u)' = IF u = t THEN JobsFor(u) + 1 ELSE JobsFor(u)
      BY <3>1, <3>2, <3>4, <3>5 DEF JobsFor
    <3> QED
      BY <3>4, <3>5, <3>6
  <2> QED
    BY <2>3 DEF JobsPushed
<1>4. \A P : Items(Waiting(d), P) = Items(database[d].sequence_queue, P) + Items(database[d].table_queue, P)
  BY <1>0, <1>w, ItemsConcat DEF Waiting
<1>5. \A P : Items(database[d].sequence_queue, P) \in Nat /\ Items(database[d].table_queue, P) \in Nat
  BY <1>0, <1>w, ItemsBound
<1>6. CASE ~database[d].created /\ job.type = "SEQUENCE"
  <2> DEFINE s == database[d].sequence_queue
  <2>1. /\ schema_job_queue' = schema_job_queue
        /\ database' = [database EXCEPT ![d].sequence_queue = Append(s, job)]
    BY <1>6 DEF schema_push, d
  <2>2. s \in Seq(SchemaJobs) /\ Append(s, job) \in Seq(SchemaJobs)
    BY <1>0, <1>w
  <2>3. \A P : Items(Append(s, job), P) = IF job \in P THEN Items(s, P) + 1 ELSE Items(s, P)
    <3> HIDE DEF s
    <3> QED
      BY <1>0, <2>2, ItemsPush
  <2>4. Waiting(d)' = Append(s, job) \o database[d].table_queue
    BY <1>0, <2>1 DEF Waiting, SchemaQueuesOK
  <2>5. \A e \in Databases \ {d} : Waiting(e)' = Waiting(e)
    BY <1>0, <2>1 DEF Waiting, SchemaQueuesOK
  <2>6. \A P : Items(Append(s, job), P) + Items(database[d].table_queue, P)
                 = IF job \in P THEN Items(Waiting(d), P) + 1 ELSE Items(Waiting(d), P)
    BY <1>4, <1>5, <2>3
  <2> QED
    BY <1>0, <1>3, <1>w, <2>1, <2>2, <2>4, <2>5, <2>6
<1>7. CASE ~database[d].created /\ job.type # "SEQUENCE"
  <2> DEFINE s == database[d].table_queue
  <2>1. /\ schema_job_queue' = schema_job_queue
        /\ database' = [database EXCEPT ![d].table_queue = Append(s, job)]
    BY <1>7 DEF schema_push, d
  <2>2. s \in Seq(SchemaJobs) /\ Append(s, job) \in Seq(SchemaJobs)
    BY <1>0, <1>w
  <2>3. \A P : Items(Append(s, job), P) = IF job \in P THEN Items(s, P) + 1 ELSE Items(s, P)
    <3> HIDE DEF s
    <3> QED
      BY <1>0, <2>2, ItemsPush
  <2>4. Waiting(d)' = database[d].sequence_queue \o Append(s, job)
    BY <1>0, <2>1 DEF Waiting, SchemaQueuesOK
  <2>5. \A e \in Databases \ {d} : Waiting(e)' = Waiting(e)
    BY <1>0, <2>1 DEF Waiting, SchemaQueuesOK
  <2>6. \A P : Items(database[d].sequence_queue, P) + Items(Append(s, job), P)
                 = IF job \in P THEN Items(Waiting(d), P) + 1 ELSE Items(Waiting(d), P)
    BY <1>4, <1>5, <2>3
  <2> QED
    BY <1>0, <1>3, <1>w, <2>1, <2>2, <2>4, <2>5, <2>6
<1>8. database[d].created => /\ schema_job_queue' = PushSorted(schema_job_queue, job)
                             /\ database' = database
  BY DEF schema_push, d
<1> QED
  BY <1>2, <1>6, <1>7, <1>8

(* What set_db_schema_created takes from the databases of D *)
JobsFreed(D) ==
    \A t \in Tables :
        /\ Items(WaitingJobs(D), ObjectJobs(t))
              = IF DbOf[t] \in D THEN Items(Waiting(DbOf[t]), ObjectJobs(t)) ELSE 0
        /\ \A d \in Databases : Items(Waiting(d)', ObjectJobs(t))
              = IF d \in D THEN 0 ELSE Items(Waiting(d), ObjectJobs(t))

LEMMA SetCreatedFrees ==
    ASSUME SchemaQueuesOK, AwayOK, NEW D \in SUBSET Databases, set_db_schema_created(D)
    PROVE  JobsFreed(D)
<1>1. \A d \in Databases : Waiting(d) \in Seq(SchemaJobs)
  BY WaitingType
<1>2. \A P, d : (\A e \in D \ {d} : Items(Waiting(e), P) = 0)
                   => Items(WaitingJobs(D), P) = IF d \in D THEN Items(Waiting(d), P) ELSE 0
  BY <1>1, WaitingJobsOK
<1>3. ASSUME NEW t \in Tables
      PROVE  Items(WaitingJobs(D), ObjectJobs(t))
               = IF DbOf[t] \in D THEN Items(Waiting(DbOf[t]), ObjectJobs(t)) ELSE 0
  <2>1. \A e \in D \ {DbOf[t]} : Items(Waiting(e), ObjectJobs(t)) = 0
    BY DEF AwayOK
  <2> QED
    BY <1>2, <2>1
<1>4. ASSUME NEW d \in Databases
      PROVE  Waiting(d)' = IF d \in D THEN <<>> ELSE Waiting(d)
  <2>1. database'[d] = IF d \in D THEN [created |-> TRUE, sequence_queue |-> <<>>, table_queue |-> <<>>]
                                  ELSE database[d]
    BY DEF set_db_schema_created
  <2>2. CASE d \in D
    <3>1. database'[d].sequence_queue = <<>> /\ database'[d].table_queue = <<>>
      BY <2>1, <2>2
    <3>2. <<>> \o <<>> = <<>>
      OBVIOUS
    <3> QED
      BY <2>2, <3>1, <3>2 DEF Waiting
  <2> QED
    BY <2>1, <2>2 DEF Waiting
<1>5. \A P : Items(<<>>, P) = 0
  BY ItemsEmpty
<1> QED
  BY <1>3, <1>4, <1>5 DEF JobsFreed

-----------------------------------------------------------------------------
(* What each step does to the state of a table *)

TableStays(t) == /\ dbt'[t].schema_state = dbt[t].schema_state
                 /\ dbt'[t].no_data = dbt[t].no_data
StatesStay == \A t \in Tables : TableStays(t)
OthersStay(t) == \A u \in Tables \ {t} : TableStays(u)
Becomes(t, s) == /\ dbt'[t].schema_state = s /\ dbt'[t].no_data = dbt[t].no_data /\ OthersStay(t)

LEMMA StatesSame ==
    ASSUME dbt' = dbt
    PROVE  StatesStay
  BY DEF StatesStay, TableStays

LEMMA StateBecomes ==
    ASSUME TablesOK, NEW t \in Tables, NEW s, dbt' = [dbt EXCEPT ![t].schema_state = s]
    PROVE  Becomes(t, s) /\ dbt'[t].restore_job_list = dbt[t].restore_job_list
<1>1. dbt[t] \in TableRecord /\ dbt'[t] = [dbt[t] EXCEPT !.schema_state = s]
  BY DEF TablesOK
<1>2. \A u \in Tables \ {t} : dbt'[u] = dbt[u]
  BY DEF TablesOK
<1>3. /\ dbt'[t].schema_state = s /\ dbt'[t].no_data = dbt[t].no_data
      /\ dbt'[t].restore_job_list = dbt[t].restore_job_list
  BY <1>1 DEF TableRecord
<1> QED
  BY <1>2, <1>3 DEF Becomes, OthersStay, TableStays

(* The record that a file or a CREATE TABLE leaves of a table *)
LEMMA Enqueued ==
    ASSUME TablesOK, NEW t \in Tables, NEW r \in TableRecord, enqueue_table_if_ready(t, r)
    PROVE  /\ dbt'[t].schema_state = r.schema_state /\ dbt'[t].no_data = r.no_data
           /\ dbt'[t].restore_job_list = r.restore_job_list
           /\ \A u \in Tables \ {t} : dbt'[u] = dbt[u]
<1> DEFINE b == HasJob(t, r) /\ ~r.in_ready_queue
           x == [r EXCEPT !.in_ready_queue = @ \/ b]
<1>1. dbt' = [dbt EXCEPT ![t] = x]
  BY DEF enqueue_table_if_ready
<1>2. x.schema_state = r.schema_state /\ x.no_data = r.no_data
      /\ x.restore_job_list = r.restore_job_list
  <2> HIDE DEF b
  <2> QED
    BY DEF TableRecord
<1> HIDE DEF x
<1>3. dbt'[t] = x /\ \A u \in Tables \ {t} : dbt'[u] = dbt[u]
  BY <1>1 DEF TablesOK
<1> QED
  BY <1>2, <1>3

LEMMA DataFileStates ==
    ASSUME LoadInv, FilesOK, NEW w \in FileWorkers, process_data_filename(w)
    PROVE  /\ StatesStay
           /\ \/ dbt' = dbt /\ dbt[file_worker[w].job.of].no_data
              \/ /\ dbt'[file_worker[w].job.of].restore_job_list
                       = dbt[file_worker[w].job.of].restore_job_list \cup {file_worker[w].job.part}
                 /\ \A u \in Tables \ {file_worker[w].job.of} : dbt'[u] = dbt[u]
           /\ file_worker[w].job.of \in Tables /\ file_worker[w].pc = "add"
<1> DEFINE f == file_worker[w].job
           t == f.of
           r == dbt[t]
           M == r.restore_job_list \cup {f.part}
           n == r.remaining_jobs + 1
           x == [r EXCEPT !.restore_job_list = M, !.remaining_jobs = n]
<1>1. /\ file_worker[w].pc = "add"
      /\ \/ dbt' = dbt /\ r.no_data
         \/ enqueue_table_if_ready(t, x)
  BY DEF process_data_filename
<1>2. f \in DumpFiles(options.tables) /\ f.kind = "data"
  BY <1>1, FileRecords DEF FileHandOK
<1>3. options.tables \in SUBSET Tables
  BY ModeShape DEF FilesOK
<1>4. IsFile(f, options.tables)
  <2> HIDE DEF f
  <2> QED
    BY <1>2, <1>3, FileShape
<1>5. t \in Tables /\ f.part \in 1 .. Parts[t] /\ Parts[t] \in Nat
  BY <1>2, <1>3, <1>4, LoaderAssumption DEF IsFile
<1>6. CASE dbt' = dbt /\ r.no_data
  BY <1>1, <1>5, <1>6, StatesSame
<1>7. CASE enqueue_table_if_ready(t, x)
  <2>1. r \in TableRecord
    BY <1>5 DEF LoadInv, TablesOK
  <2>2. M \in SUBSET Nat /\ n \in Int
    <3> DEFINE p == f.part
    <3>1. p \in Nat
      BY <1>5
    <3> HIDE DEF r, p
    <3> QED
      BY <2>1, <3>1 DEF TableRecord, p
  <2> HIDE DEF M, n, r
  <2>3. /\ x \in TableRecord /\ x.schema_state = r.schema_state /\ x.no_data = r.no_data
        /\ x.restore_job_list = M
    BY <2>1, <2>2 DEF TableRecord
  <2> HIDE DEF x
  <2>4. /\ dbt'[t].schema_state = x.schema_state /\ dbt'[t].no_data = x.no_data
        /\ dbt'[t].restore_job_list = x.restore_job_list
        /\ \A u \in Tables \ {t} : dbt'[u] = dbt[u]
    BY <1>5, <1>7, <2>3, Enqueued DEF LoadInv
  <2>5. dbt'[t].schema_state = dbt[t].schema_state /\ dbt'[t].no_data = dbt[t].no_data
        /\ dbt'[t].restore_job_list = dbt[t].restore_job_list \cup {f.part}
    BY <2>3, <2>4 DEF r, M
  <2>6. StatesStay
    BY <2>4, <2>5 DEF StatesStay, TableStays
  <2> QED
    BY <1>1, <1>5, <2>4, <2>5, <2>6
<1> QED
  BY <1>1, <1>6, <1>7

(* Which schema file makes a table NOT_CREATED *)
SequenceRead(t) ==
    /\ t \in SequenceObjects /\ File("sequence", t, 0) \in files
    /\ files' = files \ {File("sequence", t, 0)} /\ file_worker' = file_worker
    /\ schema_push(SchemaJob("SEQUENCE", t), DbOf[t]) /\ Becomes(t, "NOT_CREATED")
SchemaRead(w, t) ==
    /\ t \in SchemaFiles /\ file_worker[w].pc = "mark" /\ file_worker[w].job.of = t
    /\ files' = files
    /\ file_worker' = [file_worker EXCEPT ![w] = AfterSchema(file_worker[w].job)]
    /\ schema_push(SchemaJob("TABLE", t), DbOf[t]) /\ Becomes(t, "NOT_CREATED")

LEMMA FileEq ==
    ASSUME NEW T \in SUBSET Tables, NEW f \in DumpFiles(T)
    PROVE  /\ f.kind = "table" => f = File("table", f.of, 0)
           /\ f.kind = "sequence" => f = File("sequence", f.of, 0)
           /\ f.kind = "data" => f = File("data", f.of, f.part)
<1>1. CASE f \in {File("database", d, 0) : d \in CreateFiles}
  BY <1>1 DEF File
<1>2. CASE f \in {File("table", t, 0) : t \in T \cap SchemaFiles}
  BY <1>2 DEF File
<1>3. CASE f \in {File("sequence", t, 0) : t \in T \cap SequenceObjects}
  BY <1>3 DEF File
<1>4. CASE f \in UNION {{File("data", t, p) : p \in 1..Parts[t]} : t \in T}
  <2>1. PICK t \in T : f \in {File("data", t, p) : p \in 1 .. Parts[t]}
    BY <1>4
  <2>2. PICK p \in 1 .. Parts[t] : f = File("data", t, p)
    BY <2>1
  <2> QED
    BY <2>2 DEF File
<1> QED
  BY <1>1, <1>2, <1>3, <1>4 DEF DumpFiles

LEMMA FileStates ==
    ASSUME LoadInv, FilesOK, NEW w \in FileWorkers, FileStep(w)
    PROVE  \/ /\ StatesStay /\ ~process_schema_sequence_filename(w)
              /\ ~parse_create_table_from_file(w)
           \/ \E t \in Tables : process_schema_sequence_filename(w) /\ SequenceRead(t)
           \/ \E t \in Tables : parse_create_table_from_file(w) /\ SchemaRead(w, t)
<1>t. options.tables \in SUBSET Tables
  BY ModeShape DEF FilesOK
<1>l. TablesOK
  BY DEF LoadInv
<1>1. CASE process_schema_sequence_filename(w)
  <2>1. PICK f \in files : /\ f.kind = "sequence" /\ files' = files \ {f}
                           /\ file_worker' = file_worker
                           /\ dbt' = [dbt EXCEPT ![f.of].schema_state = "NOT_CREATED"]
                           /\ schema_push(SchemaJob("SEQUENCE", f.of), DbOf[f.of])
    BY <1>1 DEF process_schema_sequence_filename
  <2>2. f.of \in SequenceObjects /\ f.of \in Tables
    BY <1>t, <2>1, FileShape, LoaderAssumption DEF FilesOK, IsFile
  <2>3. f = File("sequence", f.of, 0)
    BY <1>t, <2>1, FileEq DEF FilesOK
  <2>4. Becomes(f.of, "NOT_CREATED")
    BY <1>l, <2>1, <2>2, StateBecomes
  <2>5. SequenceRead(f.of)
    BY <2>1, <2>2, <2>3, <2>4 DEF SequenceRead
  <2> QED
    BY <1>1, <2>2, <2>5
<1>2. CASE parse_create_table_from_file(w)
  <2> DEFINE t == file_worker[w].job.of
  <2>1. /\ file_worker[w].pc = "mark" /\ files' = files
        /\ file_worker' = [file_worker EXCEPT ![w] = AfterSchema(file_worker[w].job)]
        /\ dbt' = [dbt EXCEPT ![t].schema_state = "NOT_CREATED"]
        /\ schema_push(SchemaJob("TABLE", t), DbOf[t])
    BY <1>2 DEF parse_create_table_from_file
  <2>2. t \in SchemaFiles /\ t \in Tables
    BY <2>1, LoaderAssumption DEF FilesOK, FileHandOK
  <2>3. Becomes(t, "NOT_CREATED")
    <3> HIDE DEF t
    <3> QED
      BY <1>l, <2>1, <2>2, StateBecomes
  <2>4. SchemaRead(w, t)
    BY <2>1, <2>2, <2>3 DEF SchemaRead
  <2> QED
    BY <1>2, <2>2, <2>4
<1>3. CASE ~process_schema_sequence_filename(w) /\ ~parse_create_table_from_file(w)
  <2>1. CASE process_data_filename(w)
    BY <1>3, <2>1, DataFileStates
  <2>2. CASE process_database_filename(w) \/ append_new_db_table(w) \/ CheckParsed(w)
             \/ WakeAfterFile(w) \/ FileWorkerEnds(w)
    <3>1. dbt' = dbt
      BY <2>2 DEF process_database_filename, append_new_db_table, CheckParsed, WakeAfterFile,
                  FileWorkerEnds, tableVars
    <3> QED
      BY <1>3, <3>1, StatesSame
  <2> QED
    BY <1>3, <2>1, <2>2 DEF FileStep
<1> QED
  BY <1>1, <1>2, <1>3

(* A schema worker that ends what it does for the table it has *)
HasTable(w, pcs, t) == schema_worker[w].pc \in pcs /\ schema_worker[w].job = t
Skips(w, t) == schema_worker[w].pc = "create" /\ t \in server.tables /\ options.purge_mode = "SKIP"
Created(w, t) ==
    /\ dbt'[t].schema_state = "CREATED" /\ OthersStay(t)
    /\ dbt'[t].no_data = (dbt[t].no_data \/ Skips(w, t))

(* A step that ends the process, or one that leaves the worker to wake the *)
(* loaders.                                                                *)
Halts == /\ exited' /\ dbt' = dbt /\ schema_worker' = schema_worker /\ retry_queue' = retry_queue
         /\ server' = server
Wakes(w) == schema_worker' = [schema_worker EXCEPT ![w].pc = "wake"]
Retries(t) == retry_queue' = Append(retry_queue, SchemaJob("TABLE", t))

LEMMA SchemaStates ==
    ASSUME LoadInv, SchemaOK, NEW w \in SchemaWorkers, SchemaStep(w)
    PROVE  /\ PopObjectJob(w) =>
                 /\ schema_job_queue # <<>> /\ Head(schema_job_queue) \in SequenceJobs \cup TableJobs
                 /\ Head(schema_job_queue).of \in Tables /\ Becomes(Head(schema_job_queue).of, "CREATING")
           /\ RestoreSequence(w) => schema_worker[w].job \in SequenceObjects /\
                 (Halts \/ (Wakes(w) /\ Becomes(schema_worker[w].job, "CREATED")))
           /\ PurgeFails(w) => schema_worker[w].job \in SchemaFiles /\
                 (Halts \/ (Wakes(w) /\ Retries(schema_worker[w].job)
                               /\ Becomes(schema_worker[w].job, "NOT_CREATED")))
           /\ CreateTable(w) => schema_worker[w].job \in SchemaFiles /\
                 (Halts \/ (Wakes(w) /\ Created(w, schema_worker[w].job)))
           /\ PopObjectJob(w) \/ RestoreSequence(w) \/ PurgeFails(w) \/ CreateTable(w) \/ StatesStay
           /\ \A u \in Tables : dbt'[u].restore_job_list = dbt[u].restore_job_list
<1>l. TablesOK
  BY DEF LoadInv
<1>h. SchemaHandOK(schema_worker[w])
  BY DEF SchemaOK
<1>f. SchemaFiles \subseteq Tables /\ SequenceObjects \subseteq Tables
  BY LoaderAssumption
<1> DEFINE Lists == \A u \in Tables : dbt'[u].restore_job_list = dbt[u].restore_job_list
<1>n. dbt' = dbt => Lists
  OBVIOUS
<1>b. ASSUME NEW t \in Tables, NEW s, dbt' = [dbt EXCEPT ![t].schema_state = s]
      PROVE  Lists
  <2>1. \A u \in Tables \ {t} : dbt'[u] = dbt[u]
    BY <1>b, <1>l DEF TablesOK
  <2> QED
    BY <1>b, <1>l, <2>1, StateBecomes
<1> HIDE DEF Lists
<1>1. ASSUME PopObjectJob(w)
      PROVE  /\ schema_job_queue # <<>> /\ Head(schema_job_queue) \in SequenceJobs \cup TableJobs
             /\ Head(schema_job_queue).of \in Tables /\ Becomes(Head(schema_job_queue).of, "CREATING")
             /\ Lists
  <2> DEFINE h == Head(schema_job_queue)
  <2>1. /\ schema_job_queue # <<>> /\ h.type \in {"SEQUENCE", "TABLE"}
        /\ dbt' = [dbt EXCEPT ![h.of].schema_state = "CREATING"]
    BY <1>1 DEF PopObjectJob, Popped
  <2>2. h \in SchemaJobs
    BY <2>1 DEF SchemaOK
  <2>3. h.of \in Tables /\ h \in SequenceJobs \cup TableJobs
    <3>1. h.type = "SEQUENCE" => h.of \in SequenceObjects /\ h = SchemaJob("SEQUENCE", h.of)
      BY <2>2, JobShape
    <3>2. h.type = "TABLE" => h.of \in SchemaFiles /\ h = SchemaJob("TABLE", h.of)
      BY <2>2, JobShape
    <3>3. \A t \in SequenceObjects : SchemaJob("SEQUENCE", t) \in SequenceJobs
      BY JobShape
    <3>4. \A t \in SchemaFiles : SchemaJob("TABLE", t) \in TableJobs
      BY JobShape
    <3> HIDE DEF h
    <3> QED
      BY <1>f, <2>1, <3>1, <3>2, <3>3, <3>4
  <2> HIDE DEF h
  <2>4. Becomes(h.of, "CREATING") /\ Lists
    BY <1>l, <1>b, <2>1, <2>3, StateBecomes
  <2> QED
    BY <2>1, <2>3, <2>4 DEF h
<1>2. ASSUME RestoreSequence(w)
      PROVE  /\ schema_worker[w].job \in SequenceObjects
             /\ Halts \/ (Wakes(w) /\ Becomes(schema_worker[w].job, "CREATED"))
             /\ Lists
  <2> DEFINE t == schema_worker[w].job
  <2>1. /\ schema_worker[w].pc = "sequence"
        /\ \/ Halts
           \/ Wakes(w) /\ dbt' = [dbt EXCEPT ![t].schema_state = "CREATED"]
    BY <1>2 DEF RestoreSequence, Halts, Wakes
  <2>2. t \in SequenceObjects
    BY <1>h, <2>1 DEF SchemaHandOK
  <2> HIDE DEF t
  <2>3. (Halts \/ (Wakes(w) /\ Becomes(t, "CREATED"))) /\ Lists
    BY <1>f, <1>l, <1>n, <1>b, <2>1, <2>2, StateBecomes DEF Halts
  <2> QED
    BY <2>2, <2>3 DEF t
<1>3. ASSUME PurgeFails(w)
      PROVE  /\ schema_worker[w].job \in SchemaFiles
             /\ Halts \/ (Wakes(w) /\ Retries(schema_worker[w].job)
                       /\ Becomes(schema_worker[w].job, "NOT_CREATED"))
             /\ Lists
  <2> DEFINE t == schema_worker[w].job
             r == dbt[t]
             k == r.retry_count - 1
             x == [r EXCEPT !.retry_count = k, !.schema_state = "NOT_CREATED"]
  <2>1. /\ schema_worker[w].pc = "table"
        /\ \/ Halts
           \/ /\ Wakes(w) /\ Retries(t)
              /\ dbt' = [dbt EXCEPT ![t].retry_count = @ - 1, ![t].schema_state = "NOT_CREATED"]
    BY <1>3 DEF PurgeFails, Halts, Wakes, Retries
  <2>2. t \in SchemaFiles
    BY <1>h, <2>1 DEF SchemaHandOK
  <2> HIDE DEF t
  <2>3. CASE Halts
    BY <1>n, <2>2, <2>3 DEF t, Halts
  <2>4. CASE /\ Wakes(w) /\ Retries(t)
             /\ dbt' = [dbt EXCEPT ![t].retry_count = @ - 1, ![t].schema_state = "NOT_CREATED"]
    <3>1. r \in TableRecord /\ dbt' = [dbt EXCEPT ![t] = x]
      BY <1>f, <1>l, <2>2, <2>4 DEF TablesOK
    <3>2. dbt'[t] = x /\ \A u \in Tables \ {t} : dbt'[u] = dbt[u]
      <4> HIDE DEF x
      <4> QED
        BY <1>f, <1>l, <2>2, <3>1 DEF TablesOK
    <3> HIDE DEF r, k
    <3>3. x.schema_state = "NOT_CREATED" /\ x.no_data = r.no_data
          /\ x.restore_job_list = r.restore_job_list
      BY <3>1 DEF TableRecord
    <3> HIDE DEF x
    <3>4. Becomes(t, "NOT_CREATED")
      BY <3>2, <3>3 DEF Becomes, OthersStay, TableStays, r
    <3>5. Lists
      BY <3>2, <3>3 DEF Lists, r
    <3> QED
      BY <2>2, <2>4, <3>4, <3>5 DEF t
  <2> QED
    BY <2>1, <2>3, <2>4
<1>4. ASSUME CreateTable(w)
      PROVE  /\ schema_worker[w].job \in SchemaFiles
             /\ Halts \/ (Wakes(w) /\ Created(w, schema_worker[w].job))
             /\ Lists
  <2> DEFINE t == schema_worker[w].job
             r == dbt[t]
             skip == Skips(w, t)
             x == [r EXCEPT !.schema_state = "CREATED", !.no_data = @ \/ skip]
  <2>1. /\ schema_worker[w].pc \in {"create", "created"}
        /\ \/ Halts
           \/ Wakes(w) /\ enqueue_table_if_ready(t, x)
    BY <1>4 DEF CreateTable, Skips, Halts, Wakes
  <2>2. t \in SchemaFiles /\ t \in Tables
    BY <1>f, <1>h, <2>1 DEF SchemaHandOK
  <2> HIDE DEF t
  <2>3. CASE Halts
    BY <1>n, <2>2, <2>3 DEF t, Halts
  <2>4. CASE Wakes(w) /\ enqueue_table_if_ready(t, x)
    <3>1. r \in TableRecord /\ skip \in BOOLEAN
      BY <1>l, <2>2 DEF TablesOK, Skips
    <3>2. /\ x \in TableRecord /\ x.schema_state = "CREATED" /\ x.no_data = (r.no_data \/ skip)
          /\ x.restore_job_list = r.restore_job_list
      <4> HIDE DEF r, skip
      <4> QED
        BY <3>1 DEF TableRecord, schema_status
    <3> HIDE DEF x, skip
    <3>3. /\ dbt'[t].schema_state = x.schema_state /\ dbt'[t].no_data = x.no_data
          /\ dbt'[t].restore_job_list = x.restore_job_list
          /\ \A u \in Tables \ {t} : dbt'[u] = dbt[u]
      BY <1>l, <2>2, <2>4, <3>2, Enqueued
    <3>4. Created(w, t)
      BY <3>2, <3>3 DEF Created, OthersStay, TableStays, r, skip
    <3>5. Lists
      BY <3>2, <3>3 DEF Lists, r
    <3> QED
      BY <2>2, <2>4, <3>4, <3>5 DEF t
  <2> QED
    BY <2>1, <2>3, <2>4
<1>5. ASSUME PopCreateJob(w) \/ CreateDatabase(w) \/ PurgeTable(w) \/ WakeAfterSchema(w)
             \/ SchemaProcessEnded(w) \/ SchemaWorkerEnds(w)
      PROVE  StatesStay /\ Lists
  <2>1. dbt' = dbt
    BY <1>5 DEF PopCreateJob, CreateDatabase, PurgeTable, WakeAfterSchema,
                SchemaProcessEnded, SchemaWorkerEnds, tableVars
  <2> QED
    BY <1>n, <2>1, StatesSame
<1>6. Lists
  BY <1>1, <1>2, <1>3, <1>4, <1>5 DEF SchemaStep
<1>7. PopObjectJob(w) \/ RestoreSequence(w) \/ PurgeFails(w) \/ CreateTable(w) \/ StatesStay
  BY <1>5 DEF SchemaStep
<1> QED
  BY <1>1, <1>2, <1>3, <1>4, <1>6, <1>7 DEF Lists

(* The dispatcher takes a part from the list of a table, or tells the      *)
(* loaders to end.                                                         *)
ListsStay == \A u \in Tables : dbt'[u].restore_job_list = dbt[u].restore_job_list
GivesJob(t) ==
    /\ HasJob(t, dbt[t]) /\ data_job_queue' = Append(data_job_queue, DataJob(t, NextPart(dbt[t])))
    /\ dbt'[t].restore_job_list = dbt[t].restore_job_list \ {NextPart(dbt[t])}
    /\ \A u \in Tables \ {t} : dbt'[u].restore_job_list = dbt[u].restore_job_list
GivesEnd == ListsStay /\ data_job_queue' = Append(data_job_queue, DataJob("PROCESS_ENDED", 0))
GivesNone == ListsStay /\ data_job_queue' = data_job_queue
Gives == (\E t \in Tables : GivesJob(t)) \/ GivesEnd \/ GivesNone
ScanStates ==
    \A u \in Tables : /\ dbt'[u].schema_state = Scanned[u].schema_state
                      /\ dbt'[u].no_data = dbt[u].no_data

LEMMA GivenStates ==
    ASSUME LoadInv, NEW B, NEW Q, BaseOK(B, Q), NEW t \in Tables, HasJob(t, dbt[t]),
           Given(B, Q, t, NextPart(dbt[t]))
    PROVE  /\ GivesJob(t)
           /\ \A u \in Tables : /\ dbt'[u].schema_state = B[u].schema_state
                                /\ dbt'[u].no_data = B[u].no_data
<1> DEFINE b == B[t]
           r == Dispatched(b)
           has == HasJob(t, r)
           x == [r EXCEPT !.in_ready_queue = has]
           p == NextPart(dbt[t])
           L == dbt[t].restore_job_list
<1>1. /\ data_job_queue' = Append(data_job_queue, DataJob(t, p))
      /\ dbt' = [B EXCEPT ![t] = x]
  BY DEF Given
<1>2. b \in TableRecord /\ b.restore_job_list = L /\ NextPart(b) = p
  BY DEF BaseOK, SameLoad, NextPart
<1>3. /\ x.restore_job_list = L \ {p} /\ x.schema_state = b.schema_state /\ x.no_data = b.no_data
  <2> DEFINE n == b.current_threads + 1
             M == L \ {p}
  <2>1. r = [b EXCEPT !.restore_job_list = M, !.current_threads = n]
    BY <1>2 DEF Dispatched
  <2> HIDE DEF b, has, p, M, n, r
  <2>2. x = [b EXCEPT !.restore_job_list = M, !.current_threads = n, !.in_ready_queue = has]
    BY <1>2, <2>1 DEF TableRecord
  <2> HIDE DEF x
  <2>3. x.restore_job_list = M /\ x.schema_state = b.schema_state /\ x.no_data = b.no_data
    BY <1>2, <2>2 DEF TableRecord
  <2> QED
    BY <2>3 DEF M
<1> HIDE DEF x
<1>4. dbt'[t] = x /\ \A u \in Tables \ {t} : dbt'[u] = B[u]
  BY <1>1 DEF BaseOK
<1>5. ASSUME NEW u \in Tables \ {t}
      PROVE  dbt'[u].restore_job_list = dbt[u].restore_job_list
  BY <1>4, <1>5 DEF BaseOK, SameLoad
<1> QED
  BY <1>1, <1>3, <1>4, <1>5 DEF GivesJob

LEMMA BaseLists ==
    ASSUME NEW Q, BaseOK(dbt', Q)
    PROVE  ListsStay
  BY DEF BaseOK, SameLoad, ListsStay

LEMMA DispatcherStates ==
    ASSUME LoadInv, DispatcherStep
    PROVE  /\ Gives
           /\ DispatchFromList => ScanStates
           /\ DispatchFromList \/ (StatesStay /\ index_queue' = index_queue)
<1> DEFINE q == ready_table_queue
<1>q. q \in Seq(Tables)
  BY DEF LoadInv
<1>1. ASSUME wake_threads_waiting \/ Sleep \/ FileTypeEnded \/ DispatcherEnds
      PROVE  Gives /\ StatesStay /\ index_queue' = index_queue
  <2>1. dbt' = dbt /\ data_job_queue' = data_job_queue /\ index_queue' = index_queue
    BY <1>1 DEF wake_threads_waiting, Sleep, FileTypeEnded, DispatcherEnds, tableVars, loaderVars,
                indexVars
  <2> QED
    BY <2>1, StatesSame DEF Gives, GivesNone, ListsStay
<1>2. ASSUME DispatchReady
      PROVE  Gives /\ StatesStay /\ index_queue' = index_queue
  <2> DEFINE n == CHOOSE i \in ReadyAt : \A j \in ReadyAt : i <= j
             t == q[n]
             B == Unqueued(n)
             Q == SubSeq(q, n + 1, Len(q))
  <2>1. ReadyAt # {} /\ Given(B, Q, t, NextPart(dbt[t])) /\ index_queue' = index_queue
    BY <1>2, Zenon DEF DispatchReady, Given, indexVars
  <2>2. ReadyAt \in SUBSET Nat
    BY <1>q DEF ReadyAt
  <2>3. \E i \in ReadyAt : \A j \in ReadyAt : i <= j
    BY <2>1, <2>2, LeastNatural
  <2>4. n \in ReadyAt
    BY <2>3
  <2> HIDE DEF n
  <2>5. n \in 1 .. Len(q) /\ HasJob(t, dbt[t])
    BY <2>4 DEF ReadyAt
  <2>6. t \in Tables /\ n \in 0 .. Len(q) /\ n \in 1 .. n
    BY <1>q, <2>5
  <2>7. BaseOK(B, Q) /\ \A u \in Tables : /\ B[u].schema_state = dbt[u].schema_state
                                         /\ B[u].no_data = dbt[u].no_data
    BY <2>6, UnqueuedOK
  <2> HIDE DEF t, B, Q
  <2>8. GivesJob(t) /\ \A u \in Tables : /\ dbt'[u].schema_state = B[u].schema_state
                                         /\ dbt'[u].no_data = B[u].no_data
    BY <2>1, <2>5, <2>6, <2>7, GivenStates
  <2> QED
    BY <2>1, <2>6, <2>7, <2>8 DEF Gives, StatesStay, TableStays
<1>3. ASSUME DispatchLater
      PROVE  Gives /\ StatesStay /\ index_queue' = index_queue
  <2>1. /\ dbt' = Unqueued(Len(q)) /\ data_job_queue' = data_job_queue /\ index_queue' = index_queue
    BY <1>3 DEF DispatchLater, loaderVars, indexVars
  <2>2. Len(q) \in 0 .. Len(q)
    BY <1>q
  <2>3. /\ BaseOK(dbt', SubSeq(q, Len(q) + 1, Len(q)))
        /\ \A u \in Tables : /\ dbt'[u].schema_state = dbt[u].schema_state
                             /\ dbt'[u].no_data = dbt[u].no_data
    BY <2>1, <2>2, UnqueuedOK
  <2> QED
    BY <2>1, <2>3, BaseLists DEF Gives, GivesNone, StatesStay, TableStays
<1>4. ASSUME DispatchFromList
      PROVE  Gives /\ ScanStates
  <2>0. BaseOK(Scanned, <<>>) /\ \A u \in Tables : Scanned[u].no_data = dbt[u].no_data
    BY ScannedOK
  <2>1. CASE ScanGives
    <3> DEFINE t == TableOrder[FirstFound]
    <3>1. Found # {} /\ Given(Scanned, <<>>, t, NextPart(dbt[t]))
      BY <2>1 DEF ScanGives
    <3>2. t \in Tables /\ HasJob(t, dbt[t])
      BY <3>1, FoundOK
    <3> HIDE DEF t
    <3>3. GivesJob(t) /\ \A u \in Tables : /\ dbt'[u].schema_state = Scanned[u].schema_state
                                           /\ dbt'[u].no_data = Scanned[u].no_data
      BY <2>0, <3>1, <3>2, GivenStates
    <3> QED
      BY <2>0, <3>2, <3>3 DEF Gives, ScanStates
  <2>2. CASE ScanWaits
    <3>1. dbt' = Scanned /\ data_job_queue' = data_job_queue
      BY <2>2 DEF ScanWaits
    <3> QED
      BY <2>0, <3>1, BaseLists DEF Gives, GivesNone, ScanStates
  <2>3. CASE ScanEnds
    <3>1. dbt' = Scanned /\ data_job_queue' = Append(data_job_queue, DataJob("PROCESS_ENDED", 0))
      BY <2>3 DEF ScanEnds
    <3> QED
      BY <2>0, <3>1, BaseLists DEF Gives, GivesEnd, ScanStates
  <2> QED
    BY <1>4, <2>1, <2>2, <2>3, FromList
<1> QED
  BY <1>1, <1>2, <1>3, <1>4 DEF DispatcherStep

(* The scan moves a table that is created, or none. *)
LEMMA ScanMoves ==
    ASSUME LoadInv, ScanStates, NEW u \in Tables
    PROVE  \/ TableStays(u)
           \/ /\ dbt[u].schema_state = "CREATED" /\ dbt'[u].schema_state \in DataDone
              /\ dbt'[u].no_data = dbt[u].no_data /\ u \in Visited
              /\ DataIsDone(dbt[u]) \/ (IsSkipped(dbt[u]) /\ dbt'[u].schema_state = "ALL_DONE")
              /\ DataIsDone(dbt[u]) => dbt'[u].schema_state =
                    IF u \in Indexed THEN "INDEX_ENQUEUED" ELSE "ALL_DONE"
<1>1. Scanned[u].schema_state =
         IF u \in Visited /\ ~(u \in SequenceObjects /\ dbt[u].schema_state = "CREATED")
         THEN IF DataIsDone(dbt[u]) THEN IF u \in Indexed THEN "INDEX_ENQUEUED" ELSE "ALL_DONE"
              ELSE IF IsSkipped(dbt[u]) THEN "ALL_DONE" ELSE dbt[u].schema_state
         ELSE dbt[u].schema_state
  BY ScannedOK
<1>2. dbt'[u].schema_state = Scanned[u].schema_state /\ dbt'[u].no_data = dbt[u].no_data
  BY DEF ScanStates
<1>3. /\ DataIsDone(dbt[u]) => dbt[u].schema_state = "CREATED"
      /\ IsSkipped(dbt[u]) => dbt[u].schema_state = "CREATED"
  BY DEF DataIsDone, IsSkipped
<1> QED
  BY <1>1, <1>2, <1>3 DEF TableStays, DataDone

LEMMA LoaderStates ==
    ASSUME LoadInv, NEW l \in Loaders, LoaderStep(l)
    PROVE  StatesStay /\ ListsStay
<1>1. \/ dbt' = dbt
      \/ dbt' = [dbt EXCEPT ![loader[l].job.of].remaining_jobs = @ - 1]
      \/ dbt' = [dbt EXCEPT ![loader[l].job.of].current_threads = @ - 1]
  BY DEF LoaderStep, Request, TakeJob, RestoreFilename, ReleaseTable, LoaderEnds, tableVars
<1>2. ASSUME NEW u \in Tables
      PROVE  /\ dbt'[u].restore_job_list = dbt[u].restore_job_list
             /\ dbt'[u].schema_state = dbt[u].schema_state /\ dbt'[u].no_data = dbt[u].no_data
  <2> DEFINE r == dbt[u]
             m == r.remaining_jobs - 1
             n == r.current_threads - 1
  <2>1. r \in TableRecord /\ dbt'[u] \in {r, [r EXCEPT !.remaining_jobs = m], [r EXCEPT !.current_threads = n]}
    BY <1>1 DEF LoadInv, TablesOK
  <2> HIDE DEF r, m, n
  <2> QED
    BY <2>1 DEF TableRecord, r
<1> QED
  BY <1>2 DEF StatesStay, TableStays, ListsStay

LEMMA IndexStates ==
    ASSUME LoadInv, IndexOK, NEW i \in IndexWorkers, IndexStep(i)
    PROVE  /\ ListsStay
           /\ BuildIndex(i) => index_worker[i].job \in Indexed /\ Becomes(index_worker[i].job, "ALL_DONE")
           /\ BuildIndex(i) \/ StatesStay
<1>l. TablesOK
  BY DEF LoadInv
<1>1. ASSUME BuildIndex(i)
      PROVE  /\ ListsStay /\ index_worker[i].job \in Indexed
             /\ Becomes(index_worker[i].job, "ALL_DONE")
  <2> DEFINE t == index_worker[i].job
  <2>1. index_worker[i].pc = "build" /\ dbt' = [dbt EXCEPT ![t].schema_state = "ALL_DONE"]
    BY <1>1 DEF BuildIndex
  <2>2. t \in Tables /\ t \in Indexed
    BY <2>1, LoaderAssumption DEF IndexOK
  <2> HIDE DEF t
  <2>3. Becomes(t, "ALL_DONE") /\ dbt'[t].restore_job_list = dbt[t].restore_job_list
    BY <1>l, <2>1, <2>2, StateBecomes
  <2>4. \A u \in Tables \ {t} : dbt'[u] = dbt[u]
    BY <1>l, <2>1 DEF TablesOK
  <2>5. ListsStay
    BY <2>3, <2>4 DEF ListsStay
  <2> QED
    BY <2>2, <2>3, <2>5 DEF t
<1>2. CASE TakeIndex(i) \/ WakeAfterIndex(i)
  <2>1. dbt' = dbt
    BY <1>2 DEF TakeIndex, WakeAfterIndex, tableVars
  <2> QED
    BY <1>1, <2>1, StatesSame DEF ListsStay
<1>3. CASE BuildIndex(i)
  BY <1>1, <1>3
<1> QED
  BY <1>1, <1>2, <1>3 DEF IndexStep

LEMMA MainStates ==
    ASSUME LoadInv, FilesOK, MainStep
    PROVE  /\ ListsStay
           /\ \A u \in Tables :
                 \/ TableStays(u)
                 \/ /\ wait_schema_worker_to_finish /\ u \in table_hash
                    /\ dbt[u].schema_state = "NOT_FOUND" /\ dbt'[u].schema_state = "CREATED"
                    /\ dbt'[u].no_data = dbt[u].no_data
           /\ wait_schema_worker_to_finish =>
                 \A u \in table_hash \cap Tables : dbt'[u].schema_state # "NOT_FOUND"
<1>1. CASE wait_schema_worker_to_finish
  <2>1. /\ BaseOK(dbt', ready_table_queue')
        /\ \A u \in Tables :
              /\ dbt'[u].no_data = dbt[u].no_data
              /\ dbt'[u].schema_state = IF u \in table_hash /\ dbt[u].schema_state = "NOT_FOUND"
                                        THEN "CREATED" ELSE dbt[u].schema_state
    BY <1>1, LateOK
  <2>2. ListsStay
    BY <2>1, BaseLists
  <2> QED
    BY <1>1, <2>1, <2>2 DEF TableStays
<1>2. CASE ~wait_schema_worker_to_finish
  <2>1. dbt' = dbt
    BY <1>2 DEF MainStep, wait_worker_loader_main, wait_index_worker_to_finish, tableVars
  <2> QED
    BY <1>2, <2>1 DEF ListsStay, TableStays
<1> QED
  BY <1>1, <1>2

-----------------------------------------------------------------------------
(* How a step of a schema worker moves the jobs and the workers of a table *)

MakingOf(t) == Many(SchemaWorkers, schema_worker, Making(t))
JobsStay == \A u \in Tables : JobsFor(u)' = JobsFor(u)
MakingStays == \A u \in Tables : MakingOf(u)' = MakingOf(u)

LEMMA MakingShape ==
    ASSUME SchemaWorkersOK
    PROVE  /\ \A t \in Tables : MakingOf(t) \in Nat
           /\ \A t \in Tables, w \in SchemaWorkers :
                 HasTable(w, {"sequence", "table", "create", "created"}, t) => MakingOf(t) >= 1
           /\ \A t, u : \A x \in SchemaRecord :
                 x \in Making(t) <=> x.pc \in {"sequence", "table", "create", "created"} /\ x.job = t
<1>1. ASSUME NEW t \in Tables
      PROVE  /\ MakingOf(t) \in Nat
             /\ MakingOf(t) = 0 <=> \A v \in SchemaWorkers : schema_worker[v] \notin Making(t)
  BY FiniteAssumption, ManyBound DEF MakingOf
<1>2. ASSUME NEW t \in Tables, NEW w \in SchemaWorkers,
             HasTable(w, {"sequence", "table", "create", "created"}, t)
      PROVE  MakingOf(t) >= 1
  <2>1. schema_worker[w] \in Making(t)
    BY <1>2 DEF HasTable, Making, SchemaWorkersOK
  <2>2. MakingOf(t) \in Nat /\ MakingOf(t) # 0
    BY <1>1, <2>1
  <2> QED
    BY <2>2
<1>3. \A t, u : \A x \in SchemaRecord :
         x \in Making(t) <=> x.pc \in {"sequence", "table", "create", "created"} /\ x.job = t
  BY DEF Making
<1> QED
  BY <1>1, <1>2, <1>3

(* Worker w becomes x. *)
HandMoved(w, x) ==
    \A t \in Tables :
        MakingOf(t)' = IF (schema_worker[w] \in Making(t) <=> x \in Making(t)) THEN MakingOf(t)
                       ELSE IF x \in Making(t) THEN MakingOf(t) + 1 ELSE MakingOf(t) - 1

LEMMA HandSet ==
    ASSUME SchemaWorkersOK, NEW w \in SchemaWorkers, NEW x,
           schema_worker' = [schema_worker EXCEPT ![w] = x]
    PROVE  HandMoved(w, x)
<1>1. Moved(SchemaWorkers, schema_worker, schema_worker', w, schema_worker[w], x)
  BY DEF SchemaWorkersOK, Moved
<1>2. \A P : Many(SchemaWorkers, schema_worker', P) =
                IF (schema_worker[w] \in P <=> x \in P) THEN Many(SchemaWorkers, schema_worker, P)
                ELSE IF x \in P THEN Many(SchemaWorkers, schema_worker, P) + 1
                ELSE Many(SchemaWorkers, schema_worker, P) - 1
  BY <1>1, FiniteAssumption, ManyMoved
<1>3. ASSUME NEW t \in Tables
      PROVE  MakingOf(t)' = Many(SchemaWorkers, schema_worker', Making(t))
  BY DEF MakingOf, Making, SchemaRecord
<1> QED
  BY <1>2, <1>3 DEF HandMoved, MakingOf

LEMMA HandKept ==
    ASSUME schema_worker' = schema_worker
    PROVE  MakingStays
  BY DEF MakingStays, MakingOf, Making, SchemaRecord

(* A worker that leaves or keeps its table *)
LEMMA HandLeaves ==
    ASSUME SchemaWorkersOK, NEW w \in SchemaWorkers, Wakes(w), NEW t \in Tables,
           HasTable(w, {"sequence", "table", "create", "created"}, t)
    PROVE  \A u \in Tables : MakingOf(u)' = IF u = t THEN MakingOf(u) - 1 ELSE MakingOf(u)
<1> DEFINE x == [schema_worker[w] EXCEPT !.pc = "wake"]
<1>1. schema_worker[w] \in SchemaRecord
  BY DEF SchemaWorkersOK
<1>2. x \in SchemaRecord /\ x.pc = "wake"
  BY <1>1 DEF SchemaRecord
<1>3. schema_worker' = [schema_worker EXCEPT ![w] = x]
  BY DEF Wakes
<1> HIDE DEF x
<1>4. HandMoved(w, x)
  BY <1>3, HandSet
<1>5. \A u \in Tables : x \notin Making(u) /\ (schema_worker[w] \in Making(u) <=> u = t)
  BY <1>1, <1>2 DEF Making, HasTable
<1> QED
  BY <1>4, <1>5 DEF HandMoved

LEMMA HandOutside ==
    ASSUME SchemaWorkersOK, NEW w \in SchemaWorkers, NEW x,
           schema_worker' = [schema_worker EXCEPT ![w] = x],
           \A t \in Tables : schema_worker[w] \in Making(t) <=> x \in Making(t)
    PROVE  MakingStays
  BY HandSet DEF HandMoved, MakingStays

(* The queues of jobs that none of a step's moves reaches *)
AwayStays ==
    \A u \in Tables, d \in Databases : DbOf[u] # d =>
        Items(Waiting(d), ObjectJobs(u))' = Items(Waiting(d), ObjectJobs(u))

LEMMA AwayKept ==
    ASSUME database' = database
    PROVE  AwayStays /\ \A d : Waiting(d)' = Waiting(d)
  BY DEF AwayStays, Waiting, Items, ObjectJobs, SchemaJob

LEMMA AwayNext ==
    ASSUME AwayOK, AwayStays
    PROVE  AwayOK'
<1>1. ASSUME NEW u \in Tables, NEW d \in Databases, DbOf[u] # d
      PROVE  Items(Waiting(d), ObjectJobs(u))' = 0
  BY <1>1 DEF AwayOK, AwayStays
<1>2. AwayOK' <=> \A u \in Tables, d \in Databases : DbOf[u] # d => Items(Waiting(d), ObjectJobs(u))' = 0
  BY DEF AwayOK
<1> QED
  BY <1>1, <1>2

(* schema_job_queue changes and nothing else does. *)
LEMMA QueueChanged ==
    ASSUME SchemaQueuesOK, retry_queue' = retry_queue, database' = database,
           NEW k \in [Tables -> Int],
           \A u \in Tables : Items(schema_job_queue', ObjectJobs(u))
                               = Items(schema_job_queue, ObjectJobs(u)) + k[u]
    PROVE  /\ AwayStays
           /\ \A u \in Tables : JobsFor(u)' = JobsFor(u) + k[u]
<1>1. AwayStays /\ \A d : Waiting(d)' = Waiting(d)
  BY AwayKept
<1>2. ASSUME NEW u \in Tables
      PROVE  JobsFor(u)' = JobsFor(u) + k[u]
  <2>1. /\ Items(schema_job_queue, ObjectJobs(u)) \in Nat /\ Items(retry_queue, ObjectJobs(u)) \in Nat
        /\ Items(Waiting(DbOf[u]), ObjectJobs(u)) \in Nat
    BY JobCounts
  <2>2. JobsFor(u)' = Items(schema_job_queue', ObjectJobs(u)) + Items(retry_queue, ObjectJobs(u))
                      + Items(Waiting(DbOf[u]), ObjectJobs(u))
    BY <1>1 DEF JobsFor, ObjectJobs, SchemaJob
  <2> DEFINE a == Items(schema_job_queue, ObjectJobs(u))
             b == Items(retry_queue, ObjectJobs(u))
             c == Items(Waiting(DbOf[u]), ObjectJobs(u))
             e == Items(schema_job_queue', ObjectJobs(u))
  <2>3. JobsFor(u)' = e + b + c /\ JobsFor(u) = a + b + c /\ e = a + k[u]
        /\ a \in Nat /\ b \in Nat /\ c \in Nat /\ k[u] \in Int
    BY <2>1, <2>2 DEF JobsFor
  <2> HIDE DEF a, b, c, e
  <2> QED
    BY <2>3
<1> QED
  BY <1>1, <1>2

LEMMA QueueSame ==
    ASSUME SchemaQueuesOK, retry_queue' = retry_queue, database' = database,
           \A u \in Tables : Items(schema_job_queue', ObjectJobs(u))
                               = Items(schema_job_queue, ObjectJobs(u))
    PROVE  AwayStays /\ JobsStay
<1> DEFINE k == [u \in Tables |-> 0]
<1>1. k \in [Tables -> Int] /\ \A u \in Tables : k[u] = 0
  OBVIOUS
<1>2. \A u \in Tables : Items(schema_job_queue, ObjectJobs(u)) \in Nat /\ JobsFor(u) \in Nat
  BY JobCounts
<1> HIDE DEF k
<1>3. \A u \in Tables : Items(schema_job_queue', ObjectJobs(u))
                          = Items(schema_job_queue, ObjectJobs(u)) + k[u]
  BY <1>1, <1>2
<1>4. AwayStays /\ \A u \in Tables : JobsFor(u)' = JobsFor(u) + k[u]
  BY <1>1, <1>3, QueueChanged
<1> QED
  BY <1>1, <1>2, <1>4 DEF JobsStay

(* One step of a schema worker: the job it takes from the queue, the one   *)
(* it keeps for a retry, and the ones that set_db_schema_created frees.    *)
LEMMA QueueTaken ==
    ASSUME SchemaQueuesOK, schema_job_queue # <<>>,
           schema_job_queue' = Tail(schema_job_queue), retry_queue' = retry_queue,
           database' = database
    PROVE  /\ AwayStays
           /\ \A u \in Tables :
                 JobsFor(u)' = IF Head(schema_job_queue) \in ObjectJobs(u) THEN JobsFor(u) - 1
                                                                          ELSE JobsFor(u)
<1> DEFINE q == schema_job_queue
           h == Head(q)
           k == [u \in Tables |-> IF h \in ObjectJobs(u) THEN 0 - 1 ELSE 0]
<1>1. q \in Seq(SchemaJobs) /\ q # <<>>
  BY JobCounts
<1>2. \A P : Items(Tail(q), P) = IF h \in P THEN Items(q, P) - 1 ELSE Items(q, P)
  <2> HIDE DEF q
  <2> QED
    BY <1>1, ItemsTail
<1>3. \A u \in Tables : Items(q, ObjectJobs(u)) \in Nat /\ JobsFor(u) \in Nat
  BY JobCounts
<1>4. /\ k \in [Tables -> Int]
      /\ \A u \in Tables : k[u] = IF h \in ObjectJobs(u) THEN 0 - 1 ELSE 0
  OBVIOUS
<1> HIDE DEF k
<1>5. \A u \in Tables : Items(schema_job_queue', ObjectJobs(u)) = Items(q, ObjectJobs(u)) + k[u]
  BY <1>2, <1>3, <1>4
<1>6. AwayStays /\ \A u \in Tables : JobsFor(u)' = JobsFor(u) + k[u]
  BY <1>4, <1>5, QueueChanged
<1> QED
  BY <1>3, <1>4, <1>6

LEMMA JobKept ==
    ASSUME SchemaQueuesOK, schema_job_queue' = schema_job_queue, database' = database,
           NEW t \in SchemaFiles, Retries(t)
    PROVE  /\ AwayStays
           /\ \A u \in Tables : JobsFor(u)' = IF u = t THEN JobsFor(u) + 1 ELSE JobsFor(u)
<1> DEFINE j == SchemaJob("TABLE", t)
           q == retry_queue
<1>1. AwayStays /\ \A d : Waiting(d)' = Waiting(d)
  BY AwayKept
<1>2. j \in SchemaJobs /\ j \in TableJobs /\ q \in Seq(SchemaJobs) /\ t \in Tables
  BY JobShape, JobCounts
<1>3. \A u \in Tables : j \in ObjectJobs(u) <=> u = t
  <2>1. j.type = "TABLE" /\ j.of = t
    BY DEF SchemaJob
  <2> HIDE DEF j
  <2> QED
    BY <1>2, <2>1, ObjectShape
<1> HIDE DEF j
<1>4. \A P : Items(Append(q, j), P) = IF j \in P THEN Items(q, P) + 1 ELSE Items(q, P)
  <2> HIDE DEF q
  <2> QED
    BY <1>2, ItemsPush
<1>5. retry_queue' = Append(q, j)
  BY DEF Retries, j
<1>6. ASSUME NEW u \in Tables
      PROVE  JobsFor(u)' = IF u = t THEN JobsFor(u) + 1 ELSE JobsFor(u)
  <2>1. /\ Items(schema_job_queue, ObjectJobs(u)) \in Nat /\ Items(q, ObjectJobs(u)) \in Nat
        /\ Items(Waiting(DbOf[u]), ObjectJobs(u)) \in Nat
    BY JobCounts
  <2>2. JobsFor(u)' = Items(schema_job_queue, ObjectJobs(u)) + Items(Append(q, j), ObjectJobs(u))
                      + Items(Waiting(DbOf[u]), ObjectJobs(u))
    BY <1>1, <1>5 DEF JobsFor, ObjectJobs, SchemaJob
  <2>3. Items(Append(q, j), ObjectJobs(u)) = IF u = t THEN Items(q, ObjectJobs(u)) + 1
                                                      ELSE Items(q, ObjectJobs(u))
    BY <1>3, <1>4
  <2> QED
    BY <2>1, <2>2, <2>3 DEF JobsFor
<1> QED
  BY <1>1, <1>6

(* The queue gets a and then the jobs that waited for the databases of D;  *)
(* what a adds is what retry_queue and the queue lose.                     *)
LEMMA JobsReleased ==
    ASSUME SchemaQueuesOK, AwayOK, NEW D \in SUBSET Databases, set_db_schema_created(D),
           NEW a \in Seq(SchemaJobs), NEW z \in Seq(SchemaJobs), retry_queue' \in Seq(SchemaJobs),
           schema_job_queue' = a \o WaitingJobs(D) \o z,
           \A u \in Tables : /\ Items(z, ObjectJobs(u)) = 0
                             /\ Items(a, ObjectJobs(u)) + Items(retry_queue', ObjectJobs(u))
                                   = Items(schema_job_queue, ObjectJobs(u))
                                     + Items(retry_queue, ObjectJobs(u))
    PROVE  AwayOK' /\ JobsStay
<1> DEFINE b == WaitingJobs(D)
<1>1. JobsFreed(D)
  BY SetCreatedFrees
<1>2. b \in Seq(SchemaJobs)
  BY SetCreatedType
<1> HIDE DEF b
<1>3. \A P : Items(a \o b \o z, P) = Items(a, P) + Items(b, P) + Items(z, P)
  <2>1. a \o b \in Seq(SchemaJobs)
    BY <1>2
  <2>2. \A P : Items(a \o b, P) = Items(a, P) + Items(b, P)
    BY <1>2, ItemsConcat
  <2>3. \A P : Items((a \o b) \o z, P) = Items(a \o b, P) + Items(z, P)
    BY <2>1, ItemsConcat
  <2> QED
    BY <2>2, <2>3
<1>4. ASSUME NEW u \in Tables
      PROVE  JobsFor(u)' = JobsFor(u)
  <2> DEFINE P == ObjectJobs(u)
             d == DbOf[u]
  <2>0. d \in Databases
    BY JobCounts
  <2>1. /\ Items(b, P) = IF d \in D THEN Items(Waiting(d), P) ELSE 0
        /\ Items(Waiting(d)', P) = IF d \in D THEN 0 ELSE Items(Waiting(d), P)
    BY <1>1, <2>0 DEF JobsFreed, b
  <2>2. JobsFor(u)' = Items(schema_job_queue', P) + Items(retry_queue', P) + Items(Waiting(d)', P)
    BY DEF JobsFor, ObjectJobs, SchemaJob
  <2>3. /\ Items(schema_job_queue', P) = Items(a, P) + Items(b, P) + Items(z, P)
        /\ Items(z, P) = 0
        /\ Items(a, P) + Items(retry_queue', P) = Items(schema_job_queue, P) + Items(retry_queue, P)
    BY <1>3 DEF b
  <2>4. Items(Waiting(d), P) \in Nat /\ Items(a, P) \in Nat /\ Items(retry_queue, P) \in Nat
        /\ Items(schema_job_queue, P) \in Nat
    BY <2>0, JobCounts, ItemsBound
  <2>5. JobsFor(u) = Items(schema_job_queue, P) + Items(retry_queue, P) + Items(Waiting(d), P)
    BY DEF JobsFor
  <2> DEFINE w1 == Items(Waiting(d), P)
             w2 == Items(Waiting(d)', P)
             n1 == Items(schema_job_queue, P)
             n2 == Items(schema_job_queue', P)
             r1 == Items(retry_queue, P)
             r2 == Items(retry_queue', P)
             na == Items(a, P)
             nb == Items(b, P)
  <2>6. /\ nb = (IF d \in D THEN w1 ELSE 0) /\ w2 = (IF d \in D THEN 0 ELSE w1)
        /\ JobsFor(u)' = n2 + r2 + w2 /\ n2 = na + nb + 0 /\ na + r2 = n1 + r1
        /\ w1 \in Nat /\ na \in Nat /\ r1 \in Nat /\ n1 \in Nat /\ JobsFor(u) = n1 + r1 + w1
    BY <2>1, <2>2, <2>3, <2>4, <2>5
  <2>7. r2 \in Nat
    BY ItemsBound
  <2> HIDE DEF w1, w2, n1, n2, r1, r2, na, nb, d, P
  <2> QED
    BY <2>6, <2>7
<1>5. AwayOK'
  <2>1. ASSUME NEW u \in Tables, NEW e \in Databases, DbOf[u] # e
        PROVE  Items(Waiting(e)', ObjectJobs(u)) = 0
    <3>1. Items(Waiting(e), ObjectJobs(u)) = 0
      BY <2>1 DEF AwayOK
    <3> QED
      BY <1>1, <3>1 DEF JobsFreed
  <2> QED
    BY <2>1 DEF AwayOK, ObjectJobs, SchemaJob
<1> QED
  BY <1>4, <1>5 DEF JobsStay

(* SchemaExact when the jobs and workers of no table, or of one, move *)
ExactHere(u) ==
    /\ JobsFor(u)' = IF dbt'[u].schema_state = "NOT_CREATED" THEN 1 ELSE 0
    /\ MakingOf(u)' = IF dbt'[u].schema_state = "CREATING" THEN 1 ELSE 0

LEMMA ExactBy ==
    ASSUME \A u \in Tables : ExactHere(u)
    PROVE  SchemaExact'
<1>1. SchemaExact' <=> \A u \in Tables : ExactHere(u)
  BY DEF SchemaExact, ExactAt, ExactHere, MakingOf
<1> QED
  BY <1>1

Unmade(s) == s \notin {"NOT_CREATED", "CREATING"}

LEMMA ExactKept ==
    ASSUME SchemaExact, JobsStay, MakingStays,
           \A u \in Tables : \/ TableStays(u)
                             \/ Unmade(dbt[u].schema_state) /\ Unmade(dbt'[u].schema_state)
    PROVE  SchemaExact'
<1>1. ASSUME NEW u \in Tables
      PROVE  ExactHere(u)
  <2>1. /\ JobsFor(u) = IF dbt[u].schema_state = "NOT_CREATED" THEN 1 ELSE 0
        /\ MakingOf(u) = IF dbt[u].schema_state = "CREATING" THEN 1 ELSE 0
    BY DEF SchemaExact, ExactAt, MakingOf
  <2>2. JobsFor(u)' = JobsFor(u) /\ MakingOf(u)' = MakingOf(u)
    BY DEF JobsStay, MakingStays
  <2> QED
    BY <2>1, <2>2 DEF ExactHere, TableStays, Unmade
<1> QED
  BY <1>1, ExactBy

LEMMA ExactMoved ==
    ASSUME SchemaExact, NEW t \in Tables, OthersStay(t), NEW a \in Int, NEW b \in Int,
           \A u \in Tables : JobsFor(u)' = IF u = t THEN JobsFor(u) + a ELSE JobsFor(u),
           \A u \in Tables : MakingOf(u)' = IF u = t THEN MakingOf(u) + b ELSE MakingOf(u),
           JobsFor(t) + a = (IF dbt'[t].schema_state = "NOT_CREATED" THEN 1 ELSE 0),
           MakingOf(t) + b = (IF dbt'[t].schema_state = "CREATING" THEN 1 ELSE 0)
    PROVE  SchemaExact'
<1>1. ASSUME NEW u \in Tables \ {t}
      PROVE  ExactHere(u)
  <2>1. /\ JobsFor(u) = IF dbt[u].schema_state = "NOT_CREATED" THEN 1 ELSE 0
        /\ MakingOf(u) = IF dbt[u].schema_state = "CREATING" THEN 1 ELSE 0
    BY DEF SchemaExact, ExactAt, MakingOf
  <2>2. JobsFor(u)' = JobsFor(u) /\ MakingOf(u)' = MakingOf(u) /\ TableStays(u)
    BY DEF OthersStay
  <2> QED
    BY <2>1, <2>2 DEF ExactHere, TableStays
<1>2. ExactHere(t)
  BY DEF ExactHere
<1> QED
  BY <1>1, <1>2, ExactBy

LEMMA ExactValues ==
    ASSUME SchemaExact, NEW t \in Tables
    PROVE  /\ JobsFor(t) = IF dbt[t].schema_state = "NOT_CREATED" THEN 1 ELSE 0
           /\ MakingOf(t) = IF dbt[t].schema_state = "CREATING" THEN 1 ELSE 0
  BY DEF SchemaExact, ExactAt, MakingOf

LEMMA ExactSchema ==
    ASSUME SchemaExact, AwayOK, SchemaOK, LoadInv, NEW w \in SchemaWorkers, SchemaStep(w)
    PROVE  SchemaExact' /\ AwayOK'
<1>q. SchemaQueuesOK /\ SchemaWorkersOK
  BY SchemaParts
<1>h. SchemaHandOK(schema_worker[w]) /\ schema_worker[w] \in SchemaRecord
  BY DEF SchemaOK
<1>f. SchemaFiles \subseteq Tables /\ SequenceObjects \subseteq Tables
  BY LoaderAssumption
<1>u. StatesStay => \A u \in Tables : TableStays(u)
  BY DEF StatesStay
<1>k. ASSUME JobsStay, MakingStays, StatesStay, AwayStays
      PROVE  SchemaExact' /\ AwayOK'
  BY <1>k, <1>u, ExactKept, AwayNext
<1>s. ASSUME dbt' = dbt
      PROVE  StatesStay
  BY <1>s, StatesSame
<1>d. ASSUME schema_job_queue' = schema_job_queue, retry_queue' = retry_queue, database' = database
      PROVE  AwayStays /\ JobsStay
  BY <1>d, <1>q, QueueSame
<1>m. \A t \in Tables, u \in Tables : \A x \in SchemaRecord :
         x \in Making(t) <=> x.pc \in {"sequence", "table", "create", "created"} /\ x.job = t
  BY <1>q, MakingShape
<1>1. CASE PopCreateJob(w)
  <2> DEFINE h == Head(schema_job_queue)
             x == At("database", h.of)
  <2>1. /\ schema_job_queue # <<>> /\ h.type = "CREATE" /\ schema_worker[w].pc = "idle"
        /\ schema_worker' = [schema_worker EXCEPT ![w] = x] /\ dbt' = dbt
        /\ schema_job_queue' = Tail(schema_job_queue) /\ retry_queue' = retry_queue
        /\ database' = database
    BY <1>1 DEF PopCreateJob, Popped, tableVars
  <2>2. h \in SchemaJobs
    BY <2>1, <1>q DEF SchemaQueuesOK
  <2>3. \A u \in Tables : h \notin ObjectJobs(u)
    <3> HIDE DEF h
    <3> QED
      BY <2>1, <2>2, ObjectShape
  <2>4. AwayStays /\ JobsStay
    BY <1>q, <2>1, <2>3, QueueTaken DEF JobsStay
  <2>5. \A u \in Tables : schema_worker[w] \notin Making(u) /\ x \notin Making(u)
    BY <1>h, <2>1 DEF Making, At
  <2> HIDE DEF x
  <2>6. MakingStays
    BY <1>q, <2>1, <2>5, HandOutside
  <2> QED
    BY <1>k, <1>s, <2>1, <2>4, <2>6
<1>2. CASE CreateDatabase(w)
  <2> DEFINE d == schema_worker[w].job
  <2>1. /\ schema_worker[w].pc = "database" /\ set_db_schema_created({d})
        /\ schema_job_queue' = schema_job_queue \o WaitingJobs({d})
        /\ schema_worker' = [schema_worker EXCEPT ![w] = Idle]
        /\ retry_queue' = retry_queue /\ dbt' = dbt
    BY <1>2 DEF CreateDatabase, tableVars
  <2>2. {d} \in SUBSET Databases
    BY <1>h, <2>1 DEF SchemaHandOK
  <2>5. \A u \in Tables : schema_worker[w] \notin Making(u) /\ Idle \notin Making(u)
    BY <1>h, <2>1 DEF Making, Idle, At
  <2>6. MakingStays
    BY <1>q, <2>1, <2>5, HandOutside
  <2> HIDE DEF d
  <2>3. WaitingJobs({d}) \in Seq(SchemaJobs) /\ schema_job_queue \in Seq(SchemaJobs)
        /\ retry_queue \in Seq(SchemaJobs) /\ <<>> \in Seq(SchemaJobs)
    BY <1>q, <2>1, <2>2, SetCreatedType, JobCounts
  <2>4. schema_job_queue' = schema_job_queue \o WaitingJobs({d}) \o <<>>
    BY <2>1, <2>3
  <2>7. \A P : Items(<<>>, P) = 0
    BY ItemsEmpty
  <2>8. AwayOK' /\ JobsStay
    BY <1>q, <2>1, <2>2, <2>3, <2>4, <2>7, JobsReleased
  <2>9. SchemaExact'
    BY <1>s, <1>u, <2>1, <2>6, <2>8, ExactKept
  <2> QED
    BY <2>8, <2>9
<1>3. CASE SchemaProcessEnded(w)
  <2> DEFINE q == schema_job_queue
             z == <<Ending("ENDED")>>
             a == Tail(q) \o retry_queue
  <2>1. /\ q # <<>> /\ Head(q).type = "PROCESS_ENDED" /\ retry_queue' = <<>>
        /\ set_db_schema_created(Databases)
        /\ q' = a \o WaitingJobs(Databases) \o z
        /\ schema_worker' = schema_worker /\ dbt' = dbt
    BY <1>3 DEF SchemaProcessEnded, Popped, tableVars
  <2>2. MakingStays
    BY <2>1, HandKept
  <2>3. q \in Seq(SchemaJobs) /\ retry_queue \in Seq(SchemaJobs) /\ <<>> \in Seq(SchemaJobs)
    BY <1>q, JobCounts
  <2>e. Ending("ENDED") \in SchemaJobs
    BY JobShape
  <2>4. Ending("ENDED").type = "ENDED"
    BY DEF Ending, SchemaJob
  <2>5. \A u \in Tables : Ending("ENDED") \notin ObjectJobs(u)
    BY <2>e, <2>4, ObjectShape
  <2>6. \A u \in Tables : Items(z, ObjectJobs(u)) = 0
    BY <2>5, ItemsOne
  <2>7. z \in Seq(SchemaJobs)
    BY <2>e
  <2>8. Tail(q) \in Seq(SchemaJobs) /\ Head(q) \in SchemaJobs
    <3> HIDE DEF q
    <3> QED
      BY <2>1, <2>3
  <2>9. \A u \in Tables : Head(q) \notin ObjectJobs(u)
    <3> DEFINE h == Head(q)
    <3>1. h \in SchemaJobs /\ h.type = "PROCESS_ENDED"
      BY <2>1, <2>8
    <3> HIDE DEF h
    <3>2. \A u \in Tables : h \notin ObjectJobs(u)
      BY <3>1, ObjectShape
    <3> QED
      BY <3>2 DEF h
  <2>10. \A P : Items(Tail(q), P) = IF Head(q) \in P THEN Items(q, P) - 1 ELSE Items(q, P)
    <3> HIDE DEF q
    <3> QED
      BY <2>1, <2>3, ItemsTail
  <2>11. a \in Seq(SchemaJobs) /\ \A P : Items(a, P) = Items(Tail(q), P) + Items(retry_queue, P)
    <3> DEFINE e == Tail(q)
               r == retry_queue
    <3>1. e \in Seq(SchemaJobs) /\ r \in Seq(SchemaJobs)
      BY <2>3, <2>8
    <3> HIDE DEF e, r
    <3>2. e \o r \in Seq(SchemaJobs) /\ \A P : Items(e \o r, P) = Items(e, P) + Items(r, P)
      BY <3>1, ItemsConcat
    <3> QED
      BY <3>2 DEF e, r
  <2>12. \A u \in Tables : Items(retry_queue', ObjectJobs(u)) = 0
    BY <2>1, ItemsEmpty
  <2>13. \A u \in Tables : Items(q, ObjectJobs(u)) \in Nat /\ Items(retry_queue, ObjectJobs(u)) \in Nat
    BY <1>q, JobCounts
  <2> HIDE DEF z, a
  <2>14. \A u \in Tables : Items(a, ObjectJobs(u)) + Items(retry_queue', ObjectJobs(u))
                              = Items(q, ObjectJobs(u)) + Items(retry_queue, ObjectJobs(u))
    BY <2>9, <2>10, <2>11, <2>12, <2>13
  <2>15. AwayOK' /\ JobsStay
    <3>1. Databases \in SUBSET Databases /\ retry_queue' \in Seq(SchemaJobs)
      BY <2>1, <2>3
    <3> QED
      BY <1>q, <2>1, <2>6, <2>7, <2>11, <2>14, <3>1, JobsReleased
  <2> QED
    BY <1>s, <1>u, <2>1, <2>2, <2>15, ExactKept
<1>4. CASE SchemaWorkerEnds(w)
  <2> DEFINE q == schema_job_queue
             x == [schema_worker[w] EXCEPT !.pc = "left"]
  <2>1. /\ q # <<>> /\ q' = Append(Tail(q), Head(q)) /\ retry_queue' = retry_queue
        /\ database' = database /\ schema_worker[w].pc = "idle"
        /\ schema_worker' = [schema_worker EXCEPT ![w] = x] /\ dbt' = dbt
    BY <1>4 DEF SchemaWorkerEnds, Popped, tableVars
  <2>2. \A P : Items(Append(Tail(q), Head(q)), P) = Items(q, P)
    <3>1. q \in Seq(SchemaJobs)
      BY <1>q, JobCounts
    <3> HIDE DEF q
    <3> QED
      BY <2>1, <3>1, ItemsRotated
  <2>3. AwayStays /\ JobsStay
    BY <1>q, <2>1, <2>2, QueueSame
  <2>4. \A u \in Tables : schema_worker[w] \notin Making(u) /\ x \notin Making(u)
    BY <1>h, <2>1 DEF Making, SchemaRecord
  <2> HIDE DEF x
  <2>5. MakingStays
    BY <1>q, <2>1, <2>4, HandOutside
  <2> QED
    BY <1>k, <1>s, <2>1, <2>3, <2>5
<1>5. CASE WakeAfterSchema(w)
  <2>1. /\ schema_worker[w].pc = "wake" /\ schema_worker' = [schema_worker EXCEPT ![w] = Idle]
        /\ dbt' = dbt /\ schema_job_queue' = schema_job_queue /\ retry_queue' = retry_queue
        /\ database' = database
    BY <1>5 DEF WakeAfterSchema, tableVars
  <2>2. \A u \in Tables : schema_worker[w] \notin Making(u) /\ Idle \notin Making(u)
    BY <1>h, <2>1 DEF Making, Idle, At
  <2>3. MakingStays
    BY <1>q, <2>1, <2>2, HandOutside
  <2> QED
    BY <1>d, <1>k, <1>s, <2>1, <2>3
<1>6. CASE PurgeTable(w)
  <2>1. /\ schema_worker[w].pc = "table"
        /\ dbt' = dbt /\ schema_job_queue' = schema_job_queue /\ retry_queue' = retry_queue
        /\ database' = database
        /\ \/ schema_worker' = schema_worker
           \/ \E pc \in {"create", "created"} : schema_worker' = [schema_worker EXCEPT ![w].pc = pc]
    BY <1>6 DEF PurgeTable, tableVars
  <2>2. ASSUME NEW pc \in {"create", "created"}, schema_worker' = [schema_worker EXCEPT ![w].pc = pc]
        PROVE  MakingStays
    <3> DEFINE x == [schema_worker[w] EXCEPT !.pc = pc]
    <3>1. schema_worker' = [schema_worker EXCEPT ![w] = x]
      BY <2>2
    <3>2. \A u \in Tables : schema_worker[w] \in Making(u) <=> x \in Making(u)
      BY <1>h, <2>1 DEF Making, SchemaRecord
    <3> HIDE DEF x
    <3> QED
      BY <1>q, <3>1, <3>2, HandOutside
  <2>3. MakingStays
    BY <2>1, <2>2, HandKept
  <2> QED
    BY <1>d, <1>k, <1>s, <2>1, <2>3
<1>e. ASSUME Halts, schema_job_queue' = schema_job_queue, database' = database
      PROVE  SchemaExact' /\ AwayOK'
  BY <1>e, <1>d, <1>k, <1>s, HandKept DEF Halts
<1>7. CASE PopObjectJob(w)
  <2> DEFINE h == Head(schema_job_queue)
             x == At(IF h.type = "TABLE" THEN "table" ELSE "sequence", h.of)
  <2>1. /\ schema_job_queue # <<>> /\ schema_worker[w].pc = "idle"
        /\ schema_worker' = [schema_worker EXCEPT ![w] = x]
        /\ schema_job_queue' = Tail(schema_job_queue) /\ retry_queue' = retry_queue
        /\ database' = database
    BY <1>7 DEF PopObjectJob, Popped
  <2>2. h \in SequenceJobs \cup TableJobs /\ h.of \in Tables /\ Becomes(h.of, "CREATING")
    BY <1>7, SchemaStates
  <2>3. h \in SchemaJobs /\ h.type \in {"SEQUENCE", "TABLE"}
    <3> HIDE DEF h
    <3> QED
      BY <2>2, ObjectShape
  <2>4. \A u \in Tables : h \in ObjectJobs(u) <=> u = h.of
    <3> HIDE DEF h
    <3> QED
      BY <2>3, ObjectShape
  <2>5. \A u \in Tables : schema_worker[w] \notin Making(u) /\ (x \in Making(u) <=> u = h.of)
    <3>1. x \in SchemaRecord /\ x.pc \in {"sequence", "table"} /\ x.job = h.of
      <4> HIDE DEF h
      <4> QED
        BY <2>2 DEF At, SchemaRecord
    <3> QED
      BY <1>h, <2>1, <3>1 DEF Making
  <2> HIDE DEF x
  <2>6. HandMoved(w, x)
    BY <1>q, <2>1, HandSet
  <2>7. AwayStays /\ \A u \in Tables : JobsFor(u)' = IF h \in ObjectJobs(u) THEN JobsFor(u) - 1
                                                                            ELSE JobsFor(u)
    BY <1>q, <2>1, QueueTaken
  <2>8. JobsFor(h.of) >= 1
    <3> DEFINE q == schema_job_queue
    <3>1. q \in Seq(SchemaJobs) /\ Items(q, ObjectJobs(h.of)) \in Nat
          /\ Items(retry_queue, ObjectJobs(h.of)) \in Nat
          /\ Items(Waiting(DbOf[h.of]), ObjectJobs(h.of)) \in Nat
      BY <1>q, <2>2, JobCounts
    <3>2. Items(q, ObjectJobs(h.of)) # 0
      <4>1. 1 \in DOMAIN q /\ q[1] = h
        BY <2>1, <3>1
      <4>2. h \in ObjectJobs(h.of)
        BY <2>2, <2>4
      <4> HIDE DEF h, q
      <4> QED
        BY <3>1, <4>1, <4>2, ItemsBound
    <3> QED
      BY <3>1, <3>2 DEF JobsFor
  <2> HIDE DEF h
  <2>9. JobsFor(h.of) = 1 /\ MakingOf(h.of) = 0
    BY <2>2, <2>8, ExactValues
  <2>10. \A u \in Tables : MakingOf(u)' = IF u = h.of THEN MakingOf(u) + 1 ELSE MakingOf(u)
    BY <2>5, <2>6 DEF HandMoved
  <2>11. \A u \in Tables : JobsFor(u)' = IF u = h.of THEN JobsFor(u) + (0 - 1) ELSE JobsFor(u)
    <3>1. \A u \in Tables : JobsFor(u) \in Nat
      BY <1>q, JobCounts
    <3> QED
      BY <2>4, <2>7, <3>1
  <2>12. dbt'[h.of].schema_state = "CREATING" /\ OthersStay(h.of)
    BY <2>2 DEF Becomes
  <2>13. SchemaExact'
    BY <2>2, <2>9, <2>10, <2>11, <2>12, ExactMoved
  <2> QED
    BY <2>7, <2>13, AwayNext
<1>8. ASSUME NEW t \in Tables, HasTable(w, {"sequence", "table", "create", "created"}, t), Wakes(w)
      PROVE  /\ JobsFor(t) = 0 /\ MakingOf(t) = 1 /\ dbt[t].schema_state = "CREATING"
             /\ \A u \in Tables : MakingOf(u)' = IF u = t THEN MakingOf(u) + (0 - 1) ELSE MakingOf(u)
  <2>1. MakingOf(t) >= 1 /\ \A u \in Tables : MakingOf(u) \in Nat
    BY <1>8, <1>q, MakingShape
  <2>2. dbt[t].schema_state = "CREATING" /\ JobsFor(t) = 0 /\ MakingOf(t) = 1
    BY <2>1, ExactValues
  <2>3. \A u \in Tables : MakingOf(u)' = IF u = t THEN MakingOf(u) - 1 ELSE MakingOf(u)
    BY <1>8, <1>q, HandLeaves
  <2> QED
    BY <2>1, <2>2, <2>3
<1>9. ASSUME NEW t \in Tables, HasTable(w, {"sequence", "table", "create", "created"}, t), Wakes(w),
             OthersStay(t), dbt'[t].schema_state = "CREATED",
             schema_job_queue' = schema_job_queue, retry_queue' = retry_queue, database' = database
      PROVE  SchemaExact' /\ AwayOK'
  <2>1. AwayStays /\ JobsStay
    BY <1>9, <1>d
  <2>2. \A u \in Tables : JobsFor(u) \in Nat
    BY <1>q, JobCounts
  <2>3. \A u \in Tables : JobsFor(u)' = IF u = t THEN JobsFor(u) + 0 ELSE JobsFor(u)
    BY <2>1, <2>2 DEF JobsStay
  <2>4. SchemaExact'
    BY <1>8, <1>9, <2>3, ExactMoved
  <2> QED
    BY <2>1, <2>4, AwayNext
<1>10. CASE RestoreSequence(w)
  <2> DEFINE t == schema_worker[w].job
  <2>1. /\ schema_worker[w].pc = "sequence" /\ schema_job_queue' = schema_job_queue
        /\ database' = database /\ retry_queue' = retry_queue
    BY <1>10 DEF RestoreSequence
  <2>2. t \in SequenceObjects /\ t \in Tables /\ (Halts \/ (Wakes(w) /\ Becomes(t, "CREATED")))
    BY <1>10, <1>f, SchemaStates
  <2>3. HasTable(w, {"sequence", "table", "create", "created"}, t)
    BY <2>1 DEF HasTable
  <2> HIDE DEF t
  <2> QED
    BY <1>9, <1>e, <2>1, <2>2, <2>3 DEF Becomes
<1>11. CASE CreateTable(w)
  <2> DEFINE t == schema_worker[w].job
  <2>1. /\ schema_worker[w].pc \in {"create", "created"} /\ schema_job_queue' = schema_job_queue
        /\ database' = database /\ retry_queue' = retry_queue
    BY <1>11 DEF CreateTable
  <2>2. t \in SchemaFiles /\ t \in Tables /\ (Halts \/ (Wakes(w) /\ Created(w, t)))
    BY <1>11, <1>f, SchemaStates
  <2>3. HasTable(w, {"sequence", "table", "create", "created"}, t)
    BY <2>1 DEF HasTable
  <2> HIDE DEF t
  <2> QED
    BY <1>9, <1>e, <2>1, <2>2, <2>3 DEF Created
<1>12. CASE PurgeFails(w)
  <2> DEFINE t == schema_worker[w].job
  <2>1. /\ schema_worker[w].pc = "table" /\ schema_job_queue' = schema_job_queue
        /\ database' = database
    BY <1>12 DEF PurgeFails
  <2>2. t \in SchemaFiles /\ t \in Tables
        /\ (Halts \/ (Wakes(w) /\ Retries(t) /\ Becomes(t, "NOT_CREATED")))
    BY <1>12, <1>f, SchemaStates
  <2>3. HasTable(w, {"sequence", "table", "create", "created"}, t)
    BY <2>1 DEF HasTable
  <2> HIDE DEF t
  <2>4. CASE Wakes(w) /\ Retries(t) /\ Becomes(t, "NOT_CREATED")
    <3>1. /\ AwayStays
          /\ \A u \in Tables : JobsFor(u)' = IF u = t THEN JobsFor(u) + 1 ELSE JobsFor(u)
      BY <1>q, <2>1, <2>2, <2>4, JobKept
    <3>2. dbt'[t].schema_state = "NOT_CREATED" /\ OthersStay(t)
      BY <2>4 DEF Becomes
    <3>3. SchemaExact'
      BY <1>8, <2>2, <2>3, <2>4, <3>1, <3>2, ExactMoved
    <3> QED
      BY <3>1, <3>3, AwayNext
  <2> QED
    BY <1>e, <2>1, <2>2, <2>4
<1> QED
  BY <1>1, <1>2, <1>3, <1>4, <1>5, <1>6, <1>7, <1>10, <1>11, <1>12 DEF SchemaStep

-----------------------------------------------------------------------------
(* Who has ended *)

Late == Items(data_control_queue, {"FILE_TYPE_ENDED"})
LateStays == Late' > 0 => Late > 0

LEMMA LateKept ==
    ASSUME ControlOK, \/ data_control_queue' = data_control_queue
                      \/ wake_data_threads
                      \/ data_control_queue' = Append(data_control_queue, "REQUEST")
    PROVE  LateStays
<1> DEFINE q == data_control_queue
<1>1. q \in Seq(Controls) /\ "WAKE" \in Controls /\ "REQUEST" \in Controls
  BY DEF ControlOK, Controls
<1>w. q' = q \/ q' = Append(q, "WAKE") \/ q' = Append(q, "REQUEST")
  BY DEF wake_data_threads
<1> DEFINE z == q'
<1>2. z = q \/ z = Append(q, "WAKE") \/ z = Append(q, "REQUEST")
  BY <1>w
<1>3. Late = Items(q, {"FILE_TYPE_ENDED"}) /\ Late' = Items(z, {"FILE_TYPE_ENDED"})
  BY DEF Late
<1> HIDE DEF q, z
<1>4. \A P : Items(Append(q, "WAKE"), P) = IF "WAKE" \in P THEN Items(q, P) + 1 ELSE Items(q, P)
  BY <1>1, ItemsPush
<1>5. \A P : Items(Append(q, "REQUEST"), P) = IF "REQUEST" \in P THEN Items(q, P) + 1 ELSE Items(q, P)
  BY <1>1, ItemsPush
<1>6. Items(z, {"FILE_TYPE_ENDED"}) = Items(q, {"FILE_TYPE_ENDED"})
  BY <1>2, <1>4, <1>5
<1> QED
  BY <1>3, <1>6 DEF LateStays

LEMMA LateTaken ==
    ASSUME ControlOK, DispatcherStep
    PROVE  /\ LateStays
           /\ Control("FILE_TYPE_ENDED") => Late > 0
<1> DEFINE q == data_control_queue
<1>1. q \in Seq(Controls) /\ "WAKE" \in Controls /\ "REQUEST" \in Controls
  BY DEF ControlOK, Controls
<1>n. \A r \in Seq(Controls) : Items(r, {"FILE_TYPE_ENDED"}) \in Nat
  BY ItemsBound
<1>2. ASSUME q # <<>>
      PROVE  /\ Tail(q) \in Seq(Controls)
             /\ \A P : Items(Tail(q), P) = IF Head(q) \in P THEN Items(q, P) - 1 ELSE Items(q, P)
  <2> HIDE DEF q
  <2>1. \A P : Items(Tail(q), P) = IF Head(q) \in P THEN Items(q, P) - 1 ELSE Items(q, P)
    BY <1>1, <1>2, ItemsTail
  <2>2. Tail(q) \in Seq(Controls)
    BY <1>1, <1>2
  <2> QED
    BY <2>1, <2>2
<1>3. ASSUME Control("FILE_TYPE_ENDED")
      PROVE  Late > 0
  <2>1. q # <<>> /\ Head(q) = "FILE_TYPE_ENDED"
    BY <1>3 DEF Control
  <2> DEFINE t == Tail(q)
  <2>2. t \in Seq(Controls) /\ Items(t, {"FILE_TYPE_ENDED"}) = Items(q, {"FILE_TYPE_ENDED"}) - 1
    BY <1>2, <2>1
  <2> HIDE DEF q, t
  <2>3. Items(t, {"FILE_TYPE_ENDED"}) \in Nat /\ Items(q, {"FILE_TYPE_ENDED"}) \in Nat
    BY <1>1, <1>n, <2>2
  <2>4. Items(q, {"FILE_TYPE_ENDED"}) > 0
    BY <2>2, <2>3
  <2> QED
    BY <2>4 DEF Late, q
<1>4. ASSUME q # <<>>, NEW e \in Seq({"REQUEST"}), q' = Tail(q) \o e
      PROVE  LateStays
  <2> DEFINE t == Tail(q)
             z == q'
  <2>1. t \in Seq(Controls) /\ (\/ Items(t, {"FILE_TYPE_ENDED"}) = Items(q, {"FILE_TYPE_ENDED"}) - 1
                                \/ Items(t, {"FILE_TYPE_ENDED"}) = Items(q, {"FILE_TYPE_ENDED"}))
    BY <1>2, <1>4
  <2>2. e \in Seq(Controls) /\ \A n \in DOMAIN e : e[n] = "REQUEST"
    BY <1>1, <1>4
  <2>3. z = t \o e /\ Late = Items(q, {"FILE_TYPE_ENDED"}) /\ Late' = Items(z, {"FILE_TYPE_ENDED"})
    BY <1>4 DEF Late
  <2> HIDE DEF q, t, z
  <2>4. \A P : Items(t \o e, P) = IF "REQUEST" \in P THEN Items(t, P) + Len(e) ELSE Items(t, P)
    BY <1>1, <2>1, <2>2, ItemsRepeated
  <2>5. Items(t \o e, {"FILE_TYPE_ENDED"}) = Items(t, {"FILE_TYPE_ENDED"})
    BY <2>4
  <2>6. Items(t, {"FILE_TYPE_ENDED"}) \in Nat /\ Items(q, {"FILE_TYPE_ENDED"}) \in Nat
    BY <1>1, <1>n, <2>1
  <2> QED
    BY <2>1, <2>3, <2>5, <2>6 DEF LateStays
<1>5. ASSUME q' = q PROVE LateStays
  BY <1>5, LateKept
<1>6. ASSUME wake_threads_waiting PROVE LateStays
  <2>1. q # <<>> /\ q' = Tail(q) \o [i \in 1..threads_waiting |-> "REQUEST"]
    BY <1>6 DEF wake_threads_waiting, Control
  <2>2. [i \in 1..threads_waiting |-> "REQUEST"] \in Seq({"REQUEST"})
    BY DEF ControlOK
  <2> QED
    BY <1>4, <2>1, <2>2
<1>7. ASSUME DispatchReady \/ DispatchLater \/ DispatchFromList PROVE LateStays
  <2>1. q # <<>> /\ q' = Tail(q)
    BY <1>7, FromList DEF DispatchReady, DispatchLater, Control
  <2>2. Tail(q) \o <<>> = Tail(q) /\ <<>> \in Seq({"REQUEST"})
    BY <1>2, <2>1
  <2>3. q' = Tail(q) \o <<>>
    BY <2>1, <2>2
  <2> QED
    BY <1>4, <2>1, <2>2, <2>3
<1>8. ASSUME FileTypeEnded PROVE LateStays
  <2>1. q # <<>> /\ q' = Append(Tail(q), "REQUEST")
    BY <1>8 DEF FileTypeEnded, Control
  <2>2. Append(Tail(q), "REQUEST") = Tail(q) \o <<"REQUEST">> /\ <<"REQUEST">> \in Seq({"REQUEST"})
    BY <1>2, <2>1
  <2>3. q' = Tail(q) \o <<"REQUEST">>
    BY <2>1, <2>2
  <2> QED
    BY <1>4, <2>1, <2>2, <2>3
<1>9. ASSUME Sleep \/ DispatcherEnds PROVE LateStays
  BY <1>5, <1>9 DEF Sleep, DispatcherEnds
<1> QED
  BY <1>3, <1>6, <1>7, <1>8, <1>9 DEF DispatcherStep

LEMMA EndedFile ==
    ASSUME EndedOK, ControlOK, FilesOK, NEW w \in FileWorkers, FileStep(w)
    PROVE  EndedOK' /\ ~files_ended /\ main = "schema"
<1>1. /\ file_worker[w].pc # "left"
      /\ files' \in SUBSET files
      /\ files = {} \/ \A v \in FileWorkers : file_worker'[v].pc = "left" => file_worker[v].pc = "left"
  <2>a. ASSUME NEW x, x.pc # "left", file_worker' = [file_worker EXCEPT ![w] = x]
        PROVE  \A v \in FileWorkers : file_worker'[v].pc = "left" => file_worker[v].pc = "left"
    BY <2>a DEF FilesOK
  <2>b. FileIdle.pc = "idle" /\ \A pc, f : At(pc, f).pc = pc
    BY DEF FileIdle, At
  <2>1. CASE process_database_filename(w) \/ process_schema_sequence_filename(w)
    BY <2>1 DEF process_database_filename, process_schema_sequence_filename
  <2>2. CASE append_new_db_table(w)
    <3>1. PICK f \in files : /\ files' = files \ {f}
                             /\ \E x \in {At("check", f), At("add", f)} :
                                   file_worker' = [file_worker EXCEPT ![w] = x]
      BY <2>2 DEF append_new_db_table
    <3>2. PICK x \in {At("check", f), At("add", f)} : file_worker' = [file_worker EXCEPT ![w] = x]
      BY <3>1
    <3>3. x.pc # "left"
      BY <2>b
    <3> QED
      BY <2>2, <2>a, <3>1, <3>2, <3>3 DEF append_new_db_table
  <2>3. CASE CheckParsed(w) \/ parse_create_table_from_file(w)
    <3> DEFINE f == file_worker[w].job
    <3>1. /\ file_worker[w].pc \in {"check", "mark"} /\ files' = files
          /\ \E x \in {At("mark", f), AfterSchema(f)} : file_worker' = [file_worker EXCEPT ![w] = x]
      BY <2>3 DEF CheckParsed, parse_create_table_from_file
    <3>2. PICK x \in {At("mark", f), AfterSchema(f)} : file_worker' = [file_worker EXCEPT ![w] = x]
      BY <3>1
    <3>3. x.pc # "left"
      BY <2>b DEF AfterSchema
    <3> QED
      BY <2>a, <3>1, <3>2, <3>3
  <2>4. CASE process_data_filename(w)
    <3>1. /\ file_worker[w].pc = "add" /\ files' = files
          /\ file_worker' = [file_worker EXCEPT ![w].pc = "wake"]
      BY <2>4 DEF process_data_filename
    <3>2. \A v \in FileWorkers : file_worker'[v].pc = "left" => file_worker[v].pc = "left"
      BY <3>1 DEF FilesOK, FileRecord
    <3> QED
      BY <3>1, <3>2
  <2>5. CASE WakeAfterFile(w)
    <3>1. /\ file_worker[w].pc = "wake" /\ files' = files
          /\ file_worker' = [file_worker EXCEPT ![w] = FileIdle]
      BY <2>5 DEF WakeAfterFile
    <3> QED
      BY <2>a, <2>b, <3>1
  <2>6. CASE FileWorkerEnds(w)
    BY <2>6 DEF FileWorkerEnds
  <2> QED
    BY <2>1, <2>2, <2>3, <2>4, <2>5, <2>6 DEF FileStep
<1>2. ~files_ended /\ main = "schema"
  BY <1>1 DEF EndedOK, ControlOK
<1>3. \/ data_control_queue' = data_control_queue
      \/ wake_data_threads
  BY DEF FileStep, process_database_filename, process_schema_sequence_filename,
         append_new_db_table, CheckParsed, parse_create_table_from_file,
         process_data_filename, WakeAfterFile, FileWorkerEnds, dispatchVars
<1>4. LateStays
  BY <1>3, LateKept
<1> QED
  BY <1>1, <1>2, <1>4, FileFrame DEF EndedOK, LateStays, Late

LEMMA EndedNext ==
    ASSUME EndedOK, ControlOK, FilesOK, SchemaOK, [Next]_vars
    PROVE  EndedOK'
<1>c. dispatcher \in {"pop", "sleep", "join", "left"} /\ main \in {"schema", "loaders", "index", "done"}
  BY DEF ControlOK
<1>1. ASSUME NEW w \in FileWorkers, FileStep(w) PROVE EndedOK'
  BY <1>1, EndedFile
<1>2. CASE wait_file_type_to_complete
  <2>1. /\ files_ended' = TRUE /\ ~files_ended /\ \A w \in FileWorkers : file_worker[w].pc = "left"
    BY <1>2 DEF wait_file_type_to_complete
  <2>2. data_control_queue' = data_control_queue
    BY <1>2, FilesEndFrame
  <2>3. LateStays
    BY <2>2, LateKept
  <2> QED
    BY <1>2, <2>1, <2>3, FilesEndFrame DEF EndedOK, LateStays, Late
<1>3. ASSUME NEW w \in SchemaWorkers, SchemaStep(w) PROVE EndedOK'
  <2>1. schema_worker[w].pc # "left"
    BY <1>3 DEF SchemaStep, PopCreateJob, CreateDatabase, PopObjectJob, RestoreSequence,
                PurgeTable, PurgeFails, CreateTable, WakeAfterSchema, SchemaProcessEnded,
                SchemaWorkerEnds
  <2>2. main = "schema"
    BY <2>1 DEF EndedOK
  <2>3. data_control_queue' = data_control_queue \/ wake_data_threads
    BY <1>3 DEF SchemaStep, PopCreateJob, CreateDatabase, PopObjectJob, RestoreSequence,
                PurgeTable, PurgeFails, CreateTable, WakeAfterSchema, SchemaProcessEnded,
                SchemaWorkerEnds, dispatchVars
  <2>4. LateStays
    BY <2>3, LateKept
  <2> QED
    BY <1>3, <2>2, <2>4, SchemaFrame DEF EndedOK, LateStays, Late
<1>4. CASE DispatcherStep
  <2>1. LateStays /\ (Control("FILE_TYPE_ENDED") => Late > 0)
    BY <1>4, LateTaken
  <2>2. all_jobs_are_enqueued' => all_jobs_are_enqueued \/ Control("FILE_TYPE_ENDED")
    BY <1>4 DEF DispatcherStep, wake_threads_waiting, DispatchReady, DispatchLater, Sleep,
                DispatchFromList, FileTypeEnded, DispatcherEnds
  <2>3. all_jobs_are_enqueued => all_jobs_are_enqueued'
    BY <1>4 DEF DispatcherStep, wake_threads_waiting, DispatchReady, DispatchLater, Sleep,
                DispatchFromList, FileTypeEnded, DispatcherEnds
  <2>4. dispatcher # "left"
    BY <1>4 DEF DispatcherStep, wake_threads_waiting, DispatchReady, DispatchLater, Sleep,
                DispatchFromList, FileTypeEnded, DispatcherEnds, Control
  <2>5. dispatcher' \in {"join", "left"} => all_jobs_are_enqueued
    <3>1. CASE DispatchFromList
      BY <3>1, FromList
    <3>2. CASE wake_threads_waiting \/ DispatchReady \/ FileTypeEnded
      <4>1. dispatcher' = dispatcher
        BY <3>2 DEF wake_threads_waiting, DispatchReady, FileTypeEnded
      <4> QED
        BY <4>1 DEF EndedOK
    <3>3. CASE DispatchLater \/ Sleep
      BY <3>3 DEF DispatchLater, Sleep
    <3>4. CASE DispatcherEnds
      BY <3>4 DEF DispatcherEnds, EndedOK
    <3> QED
      BY <1>4, <3>1, <3>2, <3>3, <3>4 DEF DispatcherStep
  <2>6. main \notin {"index", "done"}
    BY <2>4 DEF EndedOK
  <2> QED
    BY <1>4, <2>1, <2>2, <2>3, <2>5, <2>6, DispatcherFrame DEF EndedOK, LateStays, Late
<1>5. ASSUME NEW l \in Loaders, LoaderStep(l) PROVE EndedOK'
  <2>1. \/ data_control_queue' = data_control_queue
        \/ data_control_queue' = Append(data_control_queue, "REQUEST")
    BY <1>5 DEF LoaderStep, Request, TakeJob, RestoreFilename, ReleaseTable, LoaderEnds, dispatchVars
  <2>2. LateStays
    BY <2>1, LateKept
  <2> QED
    BY <1>5, <2>2, LoaderFrame DEF EndedOK, LateStays, Late
<1>6. ASSUME NEW i \in IndexWorkers, IndexStep(i) PROVE EndedOK'
  <2>1. data_control_queue' = data_control_queue \/ wake_data_threads
    BY <1>6 DEF IndexStep, TakeIndex, BuildIndex, WakeAfterIndex, dispatchVars
  <2>2. LateStays
    BY <2>1, LateKept
  <2> QED
    BY <1>6, <2>2, IndexFrame DEF EndedOK, LateStays, Late
<1>7. CASE MainStep
  <2>1. CASE wait_schema_worker_to_finish
    <3>1. /\ main' = "loaders" /\ main = "schema" /\ files_ended
          /\ \A w \in SchemaWorkers : schema_worker[w].pc = "left"
      BY <2>1 DEF wait_schema_worker_to_finish
    <3> QED
      BY <1>7, <3>1, MainFrame DEF EndedOK
  <2>2. CASE wait_worker_loader_main \/ wait_index_worker_to_finish
    <3>1. /\ main \in {"loaders", "index"} /\ main' \in {"index", "done"} /\ dispatcher = "left"
          /\ data_control_queue' = data_control_queue
      BY <2>2 DEF wait_worker_loader_main, wait_index_worker_to_finish, dispatchVars, EndedOK
    <3>2. LateStays
      BY <3>1, LateKept
    <3> QED
      BY <1>7, <3>1, <3>2, MainFrame DEF EndedOK, LateStays, Late
  <2> QED
    BY <1>7, <2>1, <2>2 DEF MainStep
<1>8. CASE UNCHANGED vars
  BY <1>8 DEF vars, fileVars, schemaVars, dispatchVars, EndedOK
<1> QED
  BY <1>1, <1>2, <1>3, <1>4, <1>5, <1>6, <1>7, <1>8 DEF Next

-----------------------------------------------------------------------------
(* From which state a step may take a table, and to which *)

SchemaMove(w, u) ==
    /\ dbt[u].schema_state \in {"NOT_CREATED", "CREATING"}
    /\ dbt'[u].schema_state \in {"NOT_CREATED", "CREATING", "CREATED"}
    /\ dbt[u].no_data => dbt'[u].no_data
    /\ ~dbt[u].no_data /\ dbt'[u].no_data => CreateTable(w) /\ Skips(w, u)
    /\ dbt'[u].schema_state = "CREATED" =>
          /\ HasTable(w, {"sequence", "create", "created"}, u)
          /\ RestoreSequence(w) \/ CreateTable(w)
          /\ Created(w, u) /\ Wakes(w) /\ ~Halts

LEMMA SchemaMoves ==
    ASSUME SchemaExact, SchemaOK, LoadInv, NEW w \in SchemaWorkers, SchemaStep(w)
    PROVE  \A u \in Tables : TableStays(u) \/ SchemaMove(w, u)
<1>q. SchemaQueuesOK /\ SchemaWorkersOK
  BY SchemaParts
<1>f. SchemaFiles \subseteq Tables /\ SequenceObjects \subseteq Tables
  BY LoaderAssumption
<1>w. schema_worker[w] \in SchemaRecord
  BY DEF SchemaOK
<1>u. StatesStay => \A u \in Tables : TableStays(u)
  BY DEF StatesStay
<1>e. Halts => StatesStay
  BY StatesSame DEF Halts
<1>o. ASSUME NEW t \in Tables, OthersStay(t), SchemaMove(w, t)
      PROVE  \A u \in Tables : TableStays(u) \/ SchemaMove(w, u)
  BY <1>o DEF OthersStay
<1>n. ASSUME NEW t \in Tables, Becomes(t, "NOT_CREATED") \/ Becomes(t, "CREATING"),
             dbt[t].schema_state \in {"NOT_CREATED", "CREATING"}
      PROVE  SchemaMove(w, t) /\ OthersStay(t)
  <2>1. /\ dbt'[t].schema_state \in {"NOT_CREATED", "CREATING"} /\ dbt'[t].no_data = dbt[t].no_data
        /\ OthersStay(t)
    BY <1>n DEF Becomes
  <2> QED
    BY <1>n, <2>1 DEF SchemaMove
<1>h. ASSUME NEW t \in Tables, HasTable(w, {"sequence", "table", "create", "created"}, t)
      PROVE  dbt[t].schema_state = "CREATING"
  <2>1. MakingOf(t) >= 1
    BY <1>h, <1>q, MakingShape
  <2> QED
    BY <2>1, ExactValues
<1>1. CASE PopObjectJob(w)
  <2> DEFINE h == Head(schema_job_queue)
             q == schema_job_queue
  <2>1. /\ q # <<>> /\ h \in SequenceJobs \cup TableJobs /\ h.of \in Tables
        /\ Becomes(h.of, "CREATING")
    BY <1>1, SchemaStates
  <2>2. q \in Seq(SchemaJobs) /\ Items(q, ObjectJobs(h.of)) \in Nat
        /\ Items(retry_queue, ObjectJobs(h.of)) \in Nat
        /\ Items(Waiting(DbOf[h.of]), ObjectJobs(h.of)) \in Nat
    BY <1>q, <2>1, JobCounts
  <2>3. h \in ObjectJobs(h.of)
    <3> HIDE DEF h
    <3> QED
      BY <2>1, ObjectShape
  <2>4. 1 \in DOMAIN q /\ q[1] = h
    BY <2>1, <2>2
  <2> HIDE DEF h
  <2>5. Items(q, ObjectJobs(h.of)) # 0
    <3> HIDE DEF q
    <3> QED
      BY <2>2, <2>3, <2>4, ItemsBound
  <2>6. JobsFor(h.of) # 0
    BY <2>2, <2>5 DEF JobsFor
  <2>7. dbt[h.of].schema_state = "NOT_CREATED"
    BY <2>1, <2>6, ExactValues
  <2> QED
    BY <1>n, <1>o, <2>1, <2>7
<1>2. CASE RestoreSequence(w)
  <2> DEFINE t == schema_worker[w].job
  <2>1. schema_worker[w].pc = "sequence"
    BY <1>2 DEF RestoreSequence
  <2>2. t \in Tables /\ (Halts \/ (Wakes(w) /\ Becomes(t, "CREATED")))
    BY <1>2, <1>f, SchemaStates
  <2>3. HasTable(w, {"sequence", "create", "created"}, t)
        /\ HasTable(w, {"sequence", "table", "create", "created"}, t) /\ ~Skips(w, t)
    BY <2>1 DEF HasTable, Skips
  <2> HIDE DEF t
  <2>4. CASE Wakes(w) /\ Becomes(t, "CREATED")
    <3>1. dbt[t].schema_state = "CREATING"
      BY <1>h, <2>2, <2>3
    <3>2. /\ dbt'[t].schema_state = "CREATED" /\ dbt'[t].no_data = dbt[t].no_data /\ OthersStay(t)
      BY <2>4 DEF Becomes
    <3>3. dbt[t].no_data \in BOOLEAN
      BY <2>2 DEF LoadInv, TablesOK, TableRecord
    <3>4. Created(w, t)
      BY <2>3, <3>2, <3>3 DEF Created
    <3>5. ~Halts
      BY <3>1, <3>2 DEF Halts
    <3>6. SchemaMove(w, t)
      BY <1>2, <2>3, <2>4, <3>1, <3>2, <3>4, <3>5 DEF SchemaMove
    <3> QED
      BY <1>o, <2>2, <3>2, <3>6
  <2> QED
    BY <1>e, <1>u, <2>2, <2>4
<1>3. CASE CreateTable(w)
  <2> DEFINE t == schema_worker[w].job
  <2>1. schema_worker[w].pc \in {"create", "created"}
    BY <1>3 DEF CreateTable
  <2>2. t \in Tables /\ (Halts \/ (Wakes(w) /\ Created(w, t)))
    BY <1>3, <1>f, SchemaStates
  <2>3. HasTable(w, {"sequence", "create", "created"}, t)
        /\ HasTable(w, {"sequence", "table", "create", "created"}, t)
    BY <2>1 DEF HasTable
  <2> HIDE DEF t
  <2>4. CASE Wakes(w) /\ Created(w, t)
    <3>1. dbt[t].schema_state = "CREATING"
      BY <1>h, <2>2, <2>3
    <3>2. /\ dbt'[t].schema_state = "CREATED" /\ dbt'[t].no_data = (dbt[t].no_data \/ Skips(w, t))
          /\ OthersStay(t)
      BY <2>4 DEF Created
    <3>5. ~Halts
      BY <3>1, <3>2 DEF Halts
    <3>6. SchemaMove(w, t)
      BY <1>3, <2>3, <2>4, <3>1, <3>2, <3>5 DEF SchemaMove
    <3> QED
      BY <1>o, <2>2, <3>2, <3>6
  <2> QED
    BY <1>e, <1>u, <2>2, <2>4
<1>4. CASE PurgeFails(w)
  <2> DEFINE t == schema_worker[w].job
  <2>1. schema_worker[w].pc = "table"
    BY <1>4 DEF PurgeFails
  <2>2. t \in Tables /\ (Halts \/ Becomes(t, "NOT_CREATED"))
    BY <1>4, <1>f, SchemaStates
  <2>3. HasTable(w, {"sequence", "table", "create", "created"}, t)
    BY <2>1 DEF HasTable
  <2> HIDE DEF t
  <2> QED
    BY <1>e, <1>h, <1>n, <1>o, <1>u, <2>2, <2>3
<1> QED
  BY <1>1, <1>2, <1>3, <1>4, <1>u, SchemaStates

(* What a step may do to a table *)
Moves(u) ==
    \/ TableStays(u)
    \/ /\ dbt'[u].no_data = dbt[u].no_data
       /\ \/ dbt[u].schema_state = "NOT_FOUND" /\ dbt'[u].schema_state = "NOT_CREATED"
          \/ /\ dbt[u].schema_state = "NOT_FOUND" /\ dbt'[u].schema_state = "CREATED"
             /\ wait_schema_worker_to_finish /\ u \in table_hash
          \/ dbt[u].schema_state = "CREATED" /\ dbt'[u].schema_state \in DataDone
          \/ dbt[u].schema_state \in DataDone /\ dbt'[u].schema_state = "ALL_DONE"
    \/ \E w \in SchemaWorkers : SchemaStep(w) /\ SchemaMove(w, u)

LEMMA StateMoves ==
    ASSUME ReadOnce, SchemaExact, UnreadOK, IndexJobsOK, FilesOK, SchemaOK, IndexOK, LoadInv,
           [Next]_vars
    PROVE  \A u \in Tables : Moves(u)
<1>b. ASSUME NEW t \in Tables, NEW s, Becomes(t, s),
             \/ dbt[t].schema_state = "NOT_FOUND" /\ s = "NOT_CREATED"
             \/ dbt[t].schema_state \in DataDone /\ s = "ALL_DONE"
      PROVE  \A u \in Tables : Moves(u)
  <2>1. Moves(t)
    BY <1>b DEF Becomes, Moves
  <2>2. ASSUME NEW u \in Tables \ {t} PROVE Moves(u)
    BY <1>b DEF Becomes, OthersStay, Moves
  <2> QED
    BY <2>1, <2>2
<1>s. StatesStay => \A u \in Tables : Moves(u)
  BY DEF StatesStay, Moves
<1>1. ASSUME NEW w \in FileWorkers, FileStep(w) PROVE \A u \in Tables : Moves(u)
  <2>1. ASSUME NEW t \in Tables, SequenceRead(t) PROVE \A u \in Tables : Moves(u)
    <3>1. dbt[t].schema_state = "NOT_FOUND" /\ Becomes(t, "NOT_CREATED")
      BY <2>1 DEF SequenceRead, UnreadOK
    <3> QED
      BY <1>b, <3>1
  <2>2. ASSUME NEW t \in Tables, parse_create_table_from_file(w), SchemaRead(w, t)
        PROVE  \A u \in Tables : Moves(u)
    <3>1. dbt[t].schema_state = "NOT_FOUND" /\ Becomes(t, "NOT_CREATED")
      BY <2>2 DEF SchemaRead, ReadOnce, NotParsed
    <3> QED
      BY <1>b, <3>1
  <2> QED
    BY <1>1, <1>s, <2>1, <2>2, FileStates
<1>2. CASE wait_file_type_to_complete \/ UNCHANGED vars
  <2>1. dbt' = dbt
    BY <1>2, FilesEndFrame DEF vars, tableVars
  <2> QED
    BY <1>s, <2>1, StatesSame
<1>3. ASSUME NEW w \in SchemaWorkers, SchemaStep(w) PROVE \A u \in Tables : Moves(u)
  BY <1>3, SchemaMoves DEF Moves
<1>4. CASE DispatcherStep
  <2>1. StatesStay \/ ScanStates
    BY <1>4, DispatcherStates
  <2>2. ASSUME ScanStates, NEW u \in Tables PROVE Moves(u)
    BY <2>2, ScanMoves DEF Moves
  <2> QED
    BY <1>s, <2>1, <2>2
<1>5. ASSUME NEW l \in Loaders, LoaderStep(l) PROVE \A u \in Tables : Moves(u)
  BY <1>5, <1>s, LoaderStates
<1>6. ASSUME NEW i \in IndexWorkers, IndexStep(i) PROVE \A u \in Tables : Moves(u)
  <2> DEFINE t == index_worker[i].job
  <2>1. CASE BuildIndex(i)
    <3>1. t \in Indexed /\ Becomes(t, "ALL_DONE")
      BY <1>6, <2>1, IndexStates
    <3>2. t \in Tables
      BY <3>1, LoaderAssumption
    <3>3. dbt[t].schema_state \in DataDone
      BY <2>1 DEF BuildIndex, IndexJobsOK
    <3> HIDE DEF t
    <3> QED
      BY <1>b, <3>1, <3>2, <3>3
  <2> QED
    BY <1>6, <1>s, <2>1, IndexStates
<1>7. ASSUME MainStep PROVE \A u \in Tables : Moves(u)
  BY <1>7, MainStates DEF Moves
<1> QED
  BY <1>1, <1>2, <1>3, <1>4, <1>5, <1>6, <1>7 DEF Next

(* What is never undone *)
LEMMA NeverBack ==
    ASSUME NEW u \in Tables, Moves(u)
    PROVE  /\ dbt'[u].schema_state = "NOT_FOUND" => dbt[u].schema_state = "NOT_FOUND"
           /\ dbt[u].schema_state \in DataDone => dbt'[u].schema_state \in DataDone
           /\ dbt[u].schema_state \notin BeforeCreated => dbt'[u].schema_state \notin BeforeCreated
           /\ dbt[u].no_data => dbt'[u].no_data
  BY DEF Moves, TableStays, SchemaMove, DataDone, BeforeCreated

-----------------------------------------------------------------------------
(* A schema file is read once. *)

LEMMA FilesTaken ==
    ASSUME NEW w \in FileWorkers, FileStep(w)
    PROVE  files' \in SUBSET files
<1>1. CASE process_database_filename(w)
  BY <1>1 DEF process_database_filename
<1>2. CASE process_schema_sequence_filename(w)
  BY <1>2 DEF process_schema_sequence_filename
<1>3. CASE append_new_db_table(w)
  BY <1>3 DEF append_new_db_table
<1>4. CASE CheckParsed(w) \/ parse_create_table_from_file(w) \/ process_data_filename(w)
           \/ WakeAfterFile(w) \/ FileWorkerEnds(w)
  BY <1>4 DEF CheckParsed, parse_create_table_from_file, process_data_filename, WakeAfterFile,
              FileWorkerEnds
<1> QED
  BY <1>1, <1>2, <1>3, <1>4 DEF FileStep

LEMMA NotFoundStays ==
    ASSUME ReadOnce, UnreadOK, SchemaExact, IndexJobsOK, TypeInv, LoadInv, [Next]_vars,
           ~wait_schema_worker_to_finish, ~(\E w \in FileWorkers : FileStep(w)),
           NEW u \in Tables, dbt[u].schema_state = "NOT_FOUND"
    PROVE  dbt'[u].schema_state = "NOT_FOUND"
<1>t. FilesOK /\ SchemaOK /\ IndexOK /\ ControlOK
  BY DEF TypeInv
<1>1. Moves(u)
  BY <1>t, StateMoves
<1>2. CASE dbt[u].schema_state = "NOT_FOUND" /\ dbt'[u].schema_state = "NOT_CREATED"
           /\ ~TableStays(u)
  <2>1. ASSUME NEW w \in SchemaWorkers, SchemaStep(w) PROVE FALSE
    <3>1. TableStays(u) \/ SchemaMove(w, u)
      BY <1>t, <2>1, SchemaMoves
    <3> QED
      BY <1>2, <3>1 DEF SchemaMove
  <2>2. ASSUME DispatcherStep PROVE FALSE
    <3>1. StatesStay \/ ScanStates
      BY <2>2, DispatcherStates
    <3> QED
      BY <1>2, <3>1, ScanMoves DEF StatesStay
  <2>3. ASSUME NEW l \in Loaders, LoaderStep(l) PROVE FALSE
    BY <1>2, <2>3, LoaderStates DEF StatesStay
  <2>4. ASSUME NEW i \in IndexWorkers, IndexStep(i) PROVE FALSE
    <3>1. StatesStay \/ Becomes(index_worker[i].job, "ALL_DONE")
      BY <1>t, <2>4, IndexStates
    <3> QED
      BY <1>2, <3>1 DEF StatesStay, Becomes, OthersStay
  <2>5. ASSUME MainStep PROVE FALSE
    BY <1>t, <1>2, <2>5, MainStates
  <2>6. ASSUME wait_file_type_to_complete \/ UNCHANGED vars PROVE FALSE
    <3>1. dbt' = dbt
      BY <2>6, FilesEndFrame DEF vars, tableVars
    <3> QED
      BY <1>2, <3>1 DEF TableStays
  <2> QED
    BY <2>1, <2>2, <2>3, <2>4, <2>5, <2>6 DEF Next
<1> QED
  BY <1>1, <1>2 DEF Moves, TableStays, SchemaMove, DataDone

LEMMA OtherFrames ==
    ASSUME [Next]_vars, ~(\E w \in FileWorkers : FileStep(w))
    PROVE  options' = options /\ files' = files /\ file_worker' = file_worker
<1>1. CASE wait_file_type_to_complete \/ UNCHANGED vars
  BY <1>1, FilesEndFrame DEF vars, fileVars
<1>2. CASE ~(wait_file_type_to_complete \/ UNCHANGED vars)
  BY <1>2, SchemaFrame, DispatcherFrame, LoaderFrame, IndexFrame, MainFrame DEF Next
<1> QED
  BY <1>1, <1>2

LEMMA UnreadFile ==
    ASSUME UnreadOK, FilesOK, LoadInv, NEW w \in FileWorkers, FileStep(w)
    PROVE  UnreadOK'
<1>0. SchemaFiles \subseteq Tables /\ SequenceObjects \subseteq Tables
      /\ SchemaFiles \cap SequenceObjects = {}
  BY LoaderAssumption
<1>1. CASE StatesStay
  BY <1>0, <1>1, FilesTaken DEF UnreadOK, StatesStay, TableStays, File
<1>2. ASSUME NEW t \in Tables, SequenceRead(t) PROVE UnreadOK'
  <2>1. files' = files \ {File("sequence", t, 0)} /\ OthersStay(t)
    BY <1>2 DEF SequenceRead, Becomes
  <2>2. ASSUME NEW u \in SequenceObjects, File("sequence", u, 0) \in files'
        PROVE  dbt'[u].schema_state = "NOT_FOUND"
    <3>1. u # t /\ u \in Tables /\ File("sequence", u, 0) \in files
      BY <1>0, <2>1, <2>2
    <3> QED
      BY <2>1, <3>1 DEF UnreadOK, OthersStay, TableStays
  <2> QED
    BY <2>2 DEF UnreadOK, File
<1>3. ASSUME NEW t \in Tables, SchemaRead(w, t) PROVE UnreadOK'
  <2>1. t \in SchemaFiles /\ files' = files /\ OthersStay(t)
    BY <1>3 DEF SchemaRead, Becomes
  <2>2. ASSUME NEW u \in SequenceObjects, File("sequence", u, 0) \in files'
        PROVE  dbt'[u].schema_state = "NOT_FOUND"
    <3>1. u # t /\ u \in Tables /\ File("sequence", u, 0) \in files
      BY <1>0, <2>1, <2>2
    <3> QED
      BY <2>1, <3>1 DEF UnreadOK, OthersStay, TableStays
  <2> QED
    BY <2>2 DEF UnreadOK, File
<1> QED
  BY <1>1, <1>2, <1>3, FileStates

LEMMA UnreadNext ==
    ASSUME ReadOnce, UnreadOK, EndedOK, SchemaExact, IndexJobsOK, TypeInv, LoadInv, [Next]_vars
    PROVE  UnreadOK'
<1>0. SequenceObjects \subseteq Tables /\ FilesOK
  BY LoaderAssumption DEF TypeInv
<1>1. ASSUME NEW w \in FileWorkers, FileStep(w) PROVE UnreadOK'
  BY <1>0, <1>1, UnreadFile
<1>2. CASE ~(\E w \in FileWorkers : FileStep(w)) /\ ~wait_schema_worker_to_finish
  <2>1. files' = files
    BY <1>2, OtherFrames
  <2>2. \A u \in Tables : dbt[u].schema_state = "NOT_FOUND" => dbt'[u].schema_state = "NOT_FOUND"
    BY <1>2, NotFoundStays
  <2> QED
    BY <1>0, <2>1, <2>2 DEF UnreadOK, File
<1>3. CASE wait_schema_worker_to_finish
  <2>1. files_ended /\ files' = files
    BY <1>3, MainFrame DEF wait_schema_worker_to_finish, fileVars
  <2>2. files = {}
    BY <2>1, FiniteAssumption DEF EndedOK
  <2> QED
    BY <2>1, <2>2 DEF UnreadOK
<1> QED
  BY <1>1, <1>2, <1>3

(* With one reader no other worker marks a table in between. *)

LEMMA MarkedMoved ==
    ASSUME MarkedOK, FilesOK, options' = options, StatesStay,
           NEW w \in FileWorkers, NEW x, file_worker' = [file_worker EXCEPT ![w] = x],
           x.pc = "mark" => dbt[x.job.of].schema_state = "NOT_FOUND" /\ x.job.of \in Tables,
           options.target_db /\ x.pc \in {"check", "mark"} => x.job.kind = "table"
    PROVE  MarkedOK'
<1>0. SchemaFiles \subseteq Tables /\ SequenceObjects \subseteq Tables
  BY LoaderAssumption
<1>w. file_worker'[w] = x /\ \A v \in FileWorkers \ {w} : file_worker'[v] = file_worker[v]
  BY DEF FilesOK
<1>2. ASSUME NEW v \in FileWorkers, file_worker'[v].pc = "mark"
      PROVE  dbt'[file_worker'[v].job.of].schema_state = "NOT_FOUND"
  <2> DEFINE t == file_worker'[v].job.of
  <2>1. CASE v = w
    <3>1. x.job.of \in Tables /\ dbt[x.job.of].schema_state = "NOT_FOUND" /\ t = x.job.of
      BY <1>2, <1>w, <2>1
    <3> QED
      BY <3>1 DEF StatesStay, TableStays
  <2>2. CASE v # w
    <3>1. t = file_worker[v].job.of /\ file_worker[v].pc = "mark"
      BY <1>2, <1>w, <2>2
    <3>2. t \in Tables /\ dbt[t].schema_state = "NOT_FOUND"
      BY <1>0, <3>1 DEF MarkedOK, FilesOK, FileHandOK
    <3> QED
      BY <3>2 DEF StatesStay, TableStays
  <2> QED
    BY <2>1, <2>2
<1>3. options'.target_db => \A v \in FileWorkers : Reading(v)' => file_worker'[v].job.kind = "table"
  BY <1>w DEF MarkedOK, Reading
<1> QED
  BY <1>2, <1>3 DEF MarkedOK

LEMMA MarkedFile ==
    ASSUME OneReader, MarkedOK, FilesOK, HandsOK, LoadInv, NEW w \in FileWorkers, FileStep(w)
    PROVE  MarkedOK'
<1>0. SchemaFiles \subseteq Tables /\ SequenceObjects \subseteq Tables
      /\ SchemaFiles \cap SequenceObjects = {}
  BY LoaderAssumption
<1>o. options' = options /\ options.tables \in SUBSET Tables
  BY FileFrame, ModeShape DEF FilesOK
<1>h. FileHandOK(file_worker[w]) /\ file_worker[w] \in FileRecord
  BY DEF FilesOK
<1>a. \A pc, f : At(pc, f).pc = pc /\ At(pc, f).job = f
  BY DEF At
<1>s. dbt' = dbt => StatesStay
  BY StatesSame
<1>1. CASE process_database_filename(w)
  <2>1. files' \in SUBSET files /\ file_worker' = file_worker /\ dbt' = dbt
    BY <1>1 DEF process_database_filename, tableVars
  <2>2. file_worker' = [file_worker EXCEPT ![w] = file_worker[w]]
    BY <2>1 DEF FilesOK
  <2> DEFINE x == file_worker[w]
  <2>3. x.pc = "idle"
    BY <1>1 DEF process_database_filename
  <2> HIDE DEF x
  <2> QED
    BY <1>o, <1>s, <2>1, <2>2, <2>3, MarkedMoved DEF x
<1>2. ASSUME NEW t \in Tables, SequenceRead(t) PROVE MarkedOK'
  <2>1. /\ t \in SequenceObjects /\ files' = files \ {File("sequence", t, 0)}
        /\ file_worker' = file_worker /\ OthersStay(t)
    BY <1>2 DEF SequenceRead, Becomes
  <2>3. ASSUME NEW v \in FileWorkers, file_worker'[v].pc = "mark"
        PROVE  dbt'[file_worker'[v].job.of].schema_state = "NOT_FOUND"
    <3> DEFINE u == file_worker[v].job.of
    <3>1. /\ file_worker'[v].job.of = u /\ u \in SchemaFiles /\ dbt[u].schema_state = "NOT_FOUND"
      BY <2>1, <2>3 DEF MarkedOK, FilesOK, FileHandOK
    <3> HIDE DEF u
    <3>2. u # t /\ u \in Tables
      BY <1>0, <2>1, <3>1
    <3> QED
      BY <2>1, <3>1, <3>2 DEF OthersStay, TableStays
  <2>4. options'.target_db => \A v \in FileWorkers : Reading(v)' => file_worker'[v].job.kind = "table"
    BY <1>o, <2>1 DEF MarkedOK, Reading
  <2> QED
    BY <2>3, <2>4 DEF MarkedOK
<1>3. CASE append_new_db_table(w)
  <2>1. PICK f \in files :
           /\ f.kind \in {"table", "data"} /\ files' = files \ {f}
           /\ file_worker' = [file_worker EXCEPT ![w] =
                 IF f.kind = "table"
                    \/ (f.of \notin table_hash /\ ~options.target_db /\ f.of \in SchemaFiles)
                 THEN At("check", f) ELSE At("add", f)]
    BY <1>3 DEF append_new_db_table
  <2>2. dbt' = dbt
    BY <1>3 DEF append_new_db_table
  <2> DEFINE x == IF f.kind = "table"
                     \/ (f.of \notin table_hash /\ ~options.target_db /\ f.of \in SchemaFiles)
                  THEN At("check", f) ELSE At("add", f)
  <2>3. x.pc # "mark" /\ (options.target_db /\ x.pc = "check" => x.job.kind = "table")
    BY <1>a
  <2> HIDE DEF x
  <2>4. file_worker' = [file_worker EXCEPT ![w] = x]
    BY <2>1 DEF x
  <2> QED
    BY <1>o, <1>s, <2>1, <2>2, <2>3, <2>4, MarkedMoved
<1>i. FileIdle.pc = "idle"
  BY DEF FileIdle, At
<1>4. CASE CheckParsed(w)
  <2> DEFINE f == file_worker[w].job
             x == IF NotParsed(f.of) THEN At("mark", f) ELSE AfterSchema(f)
  <2>1. /\ file_worker[w].pc = "check" /\ files' = files /\ dbt' = dbt
        /\ file_worker' = [file_worker EXCEPT ![w] = x]
    BY <1>4 DEF CheckParsed, tableVars
  <2>2. f.of \in Tables /\ (options.target_db => f.kind = "table")
    BY <1>0, <1>h, <2>1 DEF FileHandOK, MarkedOK, Reading
  <2>3. AfterSchema(f).pc \notin {"check", "mark"}
    BY <1>a, <1>i DEF AfterSchema
  <2>4. /\ x.pc = "mark" => dbt[x.job.of].schema_state = "NOT_FOUND" /\ x.job.of \in Tables
        /\ options.target_db /\ x.pc \in {"check", "mark"} => x.job.kind = "table"
    <3> HIDE DEF f
    <3>1. CASE NotParsed(f.of)
      BY <1>a, <2>2, <3>1 DEF NotParsed
    <3>2. CASE ~NotParsed(f.of)
      BY <2>3, <3>2
    <3> QED
      BY <3>1, <3>2
  <2> HIDE DEF x, f
  <2> QED
    BY <1>o, <1>s, <2>1, <2>4, MarkedMoved
<1>5. ASSUME NEW t \in Tables, SchemaRead(w, t) PROVE MarkedOK'
  <2> DEFINE x == AfterSchema(file_worker[w].job)
  <2>1. /\ t \in SchemaFiles /\ file_worker[w].pc = "mark" /\ file_worker[w].job.of = t
        /\ files' = files /\ file_worker' = [file_worker EXCEPT ![w] = x] /\ OthersStay(t)
    BY <1>5 DEF SchemaRead, Becomes
  <2>2. x.pc \notin {"check", "mark"}
    BY <1>a, <1>i DEF AfterSchema
  <2> HIDE DEF x
  <2>w. file_worker'[w] = x /\ \A v \in FileWorkers \ {w} : file_worker'[v] = file_worker[v]
    BY <2>1 DEF FilesOK
  <2>3. ASSUME NEW v \in FileWorkers, file_worker[v].pc = "mark", file_worker[v].job.of = t
        PROVE  v = w
    <3>1. CASE \A a, b \in FileWorkers : a = b
      BY <3>1
    <3>2. CASE \A m \in Modes : m.target_db
      <4>1. options.target_db
        BY <3>2 DEF FilesOK
      <4>2. file_worker[v].job.kind = "table" /\ file_worker[w].job.kind = "table"
        BY <2>1, <2>3, <4>1 DEF MarkedOK, Reading
      <4>3. /\ file_worker[v].job \in DumpFiles(options.tables)
            /\ file_worker[w].job \in DumpFiles(options.tables)
        BY <2>1, <2>3, FileRecords
      <4>4. file_worker[v].job = File("table", t, 0) /\ file_worker[w].job = File("table", t, 0)
        BY <1>o, <2>1, <2>3, <4>2, <4>3, FileEq
      <4> QED
        BY <2>1, <2>3, <4>4 DEF HandsOK, Holds
    <3> QED
      BY <3>1, <3>2 DEF OneReader
  <2>5. ASSUME NEW v \in FileWorkers, file_worker'[v].pc = "mark"
        PROVE  dbt'[file_worker'[v].job.of].schema_state = "NOT_FOUND"
    <3> DEFINE u == file_worker[v].job.of
    <3>1. v # w
      BY <2>2, <2>5, <2>w
    <3>2. file_worker'[v].job.of = u /\ file_worker[v].pc = "mark" /\ u # t
      BY <2>3, <2>5, <2>w, <3>1
    <3>3. u \in Tables /\ dbt[u].schema_state = "NOT_FOUND"
      BY <1>0, <3>2 DEF MarkedOK, FilesOK, FileHandOK
    <3> HIDE DEF u
    <3> QED
      BY <2>1, <3>2, <3>3 DEF OthersStay, TableStays
  <2>6. options'.target_db => \A v \in FileWorkers : Reading(v)' => file_worker'[v].job.kind = "table"
    BY <1>o, <2>2, <2>w DEF MarkedOK, Reading
  <2> QED
    BY <2>5, <2>6 DEF MarkedOK
<1>7. CASE process_data_filename(w)
  <2> DEFINE x == [file_worker[w] EXCEPT !.pc = "wake"]
  <2>1. files' \in SUBSET files /\ file_worker' = [file_worker EXCEPT ![w] = x] /\ StatesStay
    BY <1>7, DataFileStates DEF process_data_filename
  <2>2. x.pc = "wake"
    BY <1>h DEF FileRecord
  <2> HIDE DEF x
  <2> QED
    BY <1>o, <2>1, <2>2, MarkedMoved
<1>8. CASE WakeAfterFile(w)
  <2>1. files' \in SUBSET files /\ file_worker' = [file_worker EXCEPT ![w] = FileIdle] /\ StatesStay
    BY <1>8, <1>s DEF WakeAfterFile, tableVars
  <2> QED
    BY <1>o, <1>i, <2>1, MarkedMoved
<1>9. CASE FileWorkerEnds(w)
  <2> DEFINE x == [file_worker[w] EXCEPT !.pc = "left"]
  <2>1. files' \in SUBSET files /\ file_worker' = [file_worker EXCEPT ![w] = x] /\ StatesStay
    BY <1>9, <1>s DEF FileWorkerEnds, tableVars
  <2>2. x.pc = "left"
    BY <1>h DEF FileRecord
  <2> HIDE DEF x
  <2> QED
    BY <1>o, <2>1, <2>2, MarkedMoved
<1> QED
  BY <1>1, <1>2, <1>3, <1>4, <1>5, <1>7, <1>8, <1>9, FileStates DEF FileStep

LEMMA MarkedNext ==
    ASSUME OneReader, MarkedOK, ReadOnce, UnreadOK, EndedOK, SchemaExact, IndexJobsOK, TypeInv,
           HandsOK, LoadInv, [Next]_vars
    PROVE  MarkedOK'
<1>0. SchemaFiles \subseteq Tables /\ FilesOK
  BY LoaderAssumption DEF TypeInv
<1>1. ASSUME NEW w \in FileWorkers, FileStep(w) PROVE MarkedOK'
  BY <1>0, <1>1, MarkedFile
<1>2. CASE ~(\E w \in FileWorkers : FileStep(w)) /\ ~wait_schema_worker_to_finish
  <2>1. options' = options /\ file_worker' = file_worker
    BY <1>2, OtherFrames
  <2>2. ASSUME NEW w \in FileWorkers, file_worker[w].pc = "mark"
        PROVE  dbt'[file_worker[w].job.of].schema_state = "NOT_FOUND"
    <3> DEFINE t == file_worker[w].job.of
    <3>1. t \in Tables /\ dbt[t].schema_state = "NOT_FOUND"
      BY <1>0, <2>2 DEF MarkedOK, FilesOK, FileHandOK
    <3> HIDE DEF t
    <3>2. dbt'[t].schema_state = "NOT_FOUND"
      BY <1>2, <3>1, NotFoundStays
    <3> QED
      BY <3>2 DEF t
  <2> QED
    BY <2>1, <2>2 DEF MarkedOK, Reading
<1>3. CASE wait_schema_worker_to_finish
  <2>1. files_ended /\ file_worker' = file_worker
    BY <1>3, MainFrame DEF wait_schema_worker_to_finish, fileVars
  <2>2. \A w \in FileWorkers : file_worker[w].pc = "left"
    BY <2>1, FiniteAssumption DEF EndedOK
  <2> QED
    BY <2>1, <2>2 DEF MarkedOK, Reading
<1> QED
  BY <1>1, <1>2, <1>3

LEMMA MarkedOnce == ASSUME MarkedOK PROVE ReadOnce
  BY DEF MarkedOK, ReadOnce, NotParsed, parse_create_table_from_file

-----------------------------------------------------------------------------
(* StateInv: the jobs, their parts and the rows of a table *)

LEMMA ExactNext ==
    ASSUME ReadOnce, SchemaExact, AwayOK, UnreadOK, IndexJobsOK, TypeInv, LoadInv, [Next]_vars
    PROVE  SchemaExact' /\ AwayOK'
<1>t. FilesOK /\ SchemaOK /\ IndexOK /\ SchemaQueuesOK /\ SchemaWorkersOK
  BY SchemaParts DEF TypeInv
<1>0. SchemaFiles \subseteq Tables /\ SequenceObjects \subseteq Tables
  BY LoaderAssumption
<1>n. \A u \in Tables : JobsFor(u) \in Nat /\ MakingOf(u) \in Nat
  BY <1>t, JobCounts, MakingShape
<1>k. ASSUME JobsStay, AwayStays, schema_worker' = schema_worker,
             \A u \in Tables : TableStays(u) \/ (Unmade(dbt[u].schema_state) /\ Unmade(dbt'[u].schema_state))
      PROVE  SchemaExact' /\ AwayOK'
  BY <1>k, ExactKept, AwayNext, HandKept
<1>s. ASSUME StatesStay, NEW u \in Tables PROVE TableStays(u)
  BY <1>s DEF StatesStay
<1>1. ASSUME NEW w \in FileWorkers, FileStep(w) PROVE SchemaExact' /\ AwayOK'
  <2>f. schema_worker' = schema_worker /\ retry_queue' = retry_queue
    BY <1>1, FileFrame
  <2>1. ASSUME NEW t \in Tables, NEW job \in SequenceJobs \cup TableJobs, job.of = t,
               schema_push(job, DbOf[t]), Becomes(t, "NOT_CREATED"),
               dbt[t].schema_state = "NOT_FOUND"
        PROVE  SchemaExact' /\ AwayOK'
    <3>1. JobsPushed(t)
      BY <1>t, <2>1, <2>f, SchemaPushed
    <3>2. AwayStays /\ \A u \in Tables : JobsFor(u)' = IF u = t THEN JobsFor(u) + 1 ELSE JobsFor(u)
      BY <3>1 DEF JobsPushed, AwayStays
    <3>3. \A u \in Tables : MakingOf(u)' = IF u = t THEN MakingOf(u) + 0 ELSE MakingOf(u)
      BY <1>n, <2>f, HandKept DEF MakingStays
    <3>4. JobsFor(t) = 0 /\ MakingOf(t) = 0
      BY <2>1, ExactValues
    <3>5. dbt'[t].schema_state = "NOT_CREATED" /\ OthersStay(t)
      BY <2>1 DEF Becomes
    <3>6. SchemaExact'
      BY <3>2, <3>3, <3>4, <3>5, ExactMoved
    <3> QED
      BY <3>2, <3>6, AwayNext
  <2>2. ASSUME NEW t \in Tables, SequenceRead(t) PROVE SchemaExact' /\ AwayOK'
    <3> DEFINE job == SchemaJob("SEQUENCE", t)
    <3>1. t \in SequenceObjects /\ schema_push(job, DbOf[t]) /\ Becomes(t, "NOT_CREATED")
          /\ dbt[t].schema_state = "NOT_FOUND"
      BY <2>2 DEF SequenceRead, UnreadOK
    <3>2. job \in SequenceJobs \cup TableJobs /\ job.of = t
      BY <3>1, JobShape DEF SchemaJob
    <3> HIDE DEF job
    <3> QED
      BY <2>1, <3>1, <3>2
  <2>3. ASSUME NEW t \in Tables, parse_create_table_from_file(w), SchemaRead(w, t)
        PROVE  SchemaExact' /\ AwayOK'
    <3> DEFINE job == SchemaJob("TABLE", t)
    <3>1. t \in SchemaFiles /\ schema_push(job, DbOf[t]) /\ Becomes(t, "NOT_CREATED")
          /\ dbt[t].schema_state = "NOT_FOUND"
      BY <2>3 DEF SchemaRead, ReadOnce, NotParsed
    <3>2. job \in SequenceJobs \cup TableJobs /\ job.of = t
      BY <3>1, JobShape DEF SchemaJob
    <3> HIDE DEF job
    <3> QED
      BY <2>1, <3>1, <3>2
  <2>4. CASE /\ StatesStay /\ ~process_schema_sequence_filename(w)
             /\ ~parse_create_table_from_file(w)
    <3>1. JobsStay /\ AwayStays
      <4>1. CASE process_database_filename(w)
        <5>1. PICK f \in files :
                 /\ f.kind = "database"
                 /\ IF options.target_db
                    THEN /\ database' = [database EXCEPT ![f.of].created = TRUE]
                         /\ schema_job_queue' = schema_job_queue
                    ELSE /\ schema_job_queue' = PushSorted(schema_job_queue, SchemaJob("CREATE", f.of))
                         /\ database' = database
          BY <4>1 DEF process_database_filename
        <5>2. CASE options.target_db
          <6>1. \A d \in Databases : Waiting(d)' = Waiting(d)
            <7>1. ASSUME NEW d \in Databases
                  PROVE  /\ database'[d].sequence_queue = database[d].sequence_queue
                         /\ database'[d].table_queue = database[d].table_queue
              <8> DEFINE b == database[d]
                         x == [b EXCEPT !.created = TRUE]
              <8>1. b \in [created : BOOLEAN, sequence_queue : Seq(SequenceJobs),
                           table_queue : Seq(TableJobs)]
                BY <1>t DEF SchemaQueuesOK
              <8>2. database'[d] = b \/ database'[d] = x
                BY <1>t, <5>1, <5>2 DEF SchemaQueuesOK
              <8> HIDE DEF b
              <8>3. x.sequence_queue = b.sequence_queue /\ x.table_queue = b.table_queue
                BY <8>1
              <8> QED
                BY <8>2, <8>3 DEF b
            <7> QED
              BY <7>1 DEF Waiting
          <6>2. \A u \in Tables : DbOf[u] \in Databases
            BY LoaderAssumption
          <6>3. AwayStays
            BY <6>1 DEF AwayStays, ObjectJobs, SchemaJob
          <6>4. JobsStay
            BY <2>f, <5>1, <5>2, <6>1, <6>2 DEF JobsStay, JobsFor, ObjectJobs, SchemaJob
          <6> QED
            BY <6>3, <6>4
        <5>3. CASE ~options.target_db
          <6> DEFINE job == SchemaJob("CREATE", f.of)
          <6>1. f.of \in Databases
            BY <1>t, <5>1, FileShape, ModeShape DEF FilesOK, IsFile
          <6>2. job \in SchemaJobs /\ job.type = "CREATE"
            BY <6>1, JobShape DEF SchemaJob
          <6>3. schema_job_queue' = PushSorted(schema_job_queue, job) /\ database' = database
            BY <5>1, <5>3
          <6> HIDE DEF job
          <6>4. schema_job_queue \in Seq(SchemaJobs)
            BY <1>t DEF SchemaQueuesOK
          <6>5. \A P : Items(PushSorted(schema_job_queue, job), P) =
                          IF job \in P THEN Items(schema_job_queue, P) + 1 ELSE Items(schema_job_queue, P)
            BY <6>2, <6>4, PushSortedOK
          <6>6. \A u \in Tables : job \notin ObjectJobs(u)
            BY <6>2, ObjectShape
          <6> QED
            BY <1>t, <2>f, <6>3, <6>5, <6>6, QueueSame
        <5> QED
          BY <5>2, <5>3
      <4>2. CASE ~process_database_filename(w)
        <5>1. schema_job_queue' = schema_job_queue /\ database' = database
          BY <1>1, <2>4, <4>2 DEF FileStep, append_new_db_table, CheckParsed, process_data_filename,
                                  WakeAfterFile, FileWorkerEnds, schemaVars
        <5> QED
          BY <1>t, <2>f, <5>1, QueueSame
      <4> QED
        BY <4>1, <4>2
    <3> QED
      BY <1>k, <1>s, <2>4, <2>f, <3>1
  <2> QED
    BY <1>1, <1>t, <2>2, <2>3, <2>4, FileStates
<1>2. CASE wait_file_type_to_complete
  <2> DEFINE q == schema_job_queue
             job == Ending("PROCESS_ENDED")
  <2>1. /\ q' = Append(q, job) /\ retry_queue' = retry_queue /\ database' = database
        /\ schema_worker' = schema_worker /\ dbt' = dbt
    BY <1>2, FilesEndFrame DEF wait_file_type_to_complete
  <2>2. job \in SchemaJobs /\ job.type = "PROCESS_ENDED" /\ q \in Seq(SchemaJobs)
    BY <1>t, JobShape DEF Ending, SchemaJob, SchemaQueuesOK
  <2> HIDE DEF job
  <2>3. \A u \in Tables : job \notin ObjectJobs(u)
    BY <2>2, ObjectShape
  <2>4. \A P : Items(Append(q, job), P) = IF job \in P THEN Items(q, P) + 1 ELSE Items(q, P)
    <3> HIDE DEF q
    <3> QED
      BY <2>2, ItemsPush
  <2>5. JobsStay /\ AwayStays
    BY <1>t, <2>1, <2>3, <2>4, QueueSame
  <2> QED
    BY <1>k, <1>s, <2>1, <2>5, StatesSame
<1>3. ASSUME NEW w \in SchemaWorkers, SchemaStep(w) PROVE SchemaExact' /\ AwayOK'
  BY <1>3, <1>t, ExactSchema
<1>4. ASSUME schema_job_queue' = schema_job_queue, retry_queue' = retry_queue, database' = database,
             schema_worker' = schema_worker,
             \A u \in Tables : TableStays(u) \/ (Unmade(dbt[u].schema_state) /\ Unmade(dbt'[u].schema_state))
      PROVE  SchemaExact' /\ AwayOK'
  <2>1. JobsStay /\ AwayStays
    BY <1>4, <1>t, QueueSame
  <2> QED
    BY <1>4, <1>k, <2>1
<1>5. CASE DispatcherStep
  <2>1. ASSUME NEW u \in Tables
        PROVE  TableStays(u) \/ (Unmade(dbt[u].schema_state) /\ Unmade(dbt'[u].schema_state))
    <3>1. StatesStay \/ ScanStates
      BY <1>5, DispatcherStates
    <3> QED
      BY <1>s, <3>1, ScanMoves DEF Unmade, DataDone
  <2> QED
    BY <1>4, <1>5, <2>1, DispatcherFrame
<1>6. ASSUME NEW l \in Loaders, LoaderStep(l) PROVE SchemaExact' /\ AwayOK'
  BY <1>4, <1>6, <1>s, LoaderFrame, LoaderStates
<1>7. ASSUME NEW i \in IndexWorkers, IndexStep(i) PROVE SchemaExact' /\ AwayOK'
  <2>1. ASSUME NEW u \in Tables
        PROVE  TableStays(u) \/ (Unmade(dbt[u].schema_state) /\ Unmade(dbt'[u].schema_state))
    <3>1. CASE BuildIndex(i)
      <4>1. Becomes(index_worker[i].job, "ALL_DONE")
        BY <1>7, <1>t, <3>1, IndexStates
      <4>2. dbt[index_worker[i].job].schema_state \in DataDone
        BY <3>1 DEF BuildIndex, IndexJobsOK
      <4> QED
        BY <4>1, <4>2 DEF Becomes, OthersStay, Unmade, DataDone
    <3> QED
      BY <1>7, <1>s, <1>t, <3>1, IndexStates
  <2> QED
    BY <1>4, <1>7, <2>1, IndexFrame
<1>8. CASE MainStep
  <2>1. ASSUME NEW u \in Tables
        PROVE  TableStays(u) \/ (Unmade(dbt[u].schema_state) /\ Unmade(dbt'[u].schema_state))
    BY <1>8, <1>t, MainStates DEF Unmade
  <2> QED
    BY <1>4, <1>8, <2>1, MainFrame
<1>9. CASE UNCHANGED vars
  BY <1>4, <1>9, <1>s, StatesSame DEF vars, schemaVars, tableVars
<1> QED
  BY <1>1, <1>2, <1>3, <1>5, <1>6, <1>7, <1>8, <1>9 DEF Next

DoneIndexed == {t \in Indexed : dbt[t].schema_state \in DataDone}

LEMMA IndexJobsShape ==
    ASSUME IndexOK
    PROVE  IndexJobsOK <=> /\ index_queue \in Seq(DoneIndexed \cup {"SHUTDOWN"})
                           /\ \A i \in IndexWorkers : index_worker[i].pc = "build" =>
                                 index_worker[i].job \in DoneIndexed
<1> DEFINE q == index_queue
           D == DoneIndexed
<1>1. q \in Seq(Indexed \cup {"SHUTDOWN"}) /\ D \subseteq Indexed
  BY DEF IndexOK, DoneIndexed
<1>2. "SHUTDOWN" \notin Indexed
  BY FiniteAssumption, LoaderAssumption
<1>3. \A t \in Indexed : t \in D <=> dbt[t].schema_state \in DataDone
  BY DEF DoneIndexed
<1>4. \A k \in 1 .. Len(q) : q[k] \in Indexed \cup {"SHUTDOWN"}
  BY <1>1
<1>5. (\A k \in 1 .. Len(q) : q[k] # "SHUTDOWN" => dbt[q[k]].schema_state \in DataDone)
         <=> \A k \in 1 .. Len(q) : q[k] \in D \cup {"SHUTDOWN"}
  BY <1>1, <1>2, <1>3, <1>4
<1> HIDE DEF D
<1>6. (\A k \in 1 .. Len(q) : q[k] \in D \cup {"SHUTDOWN"}) <=> q \in Seq(D \cup {"SHUTDOWN"})
  <2> HIDE DEF q
  <2> QED
    BY <1>1
<1>7. \A i \in IndexWorkers : index_worker[i].pc = "build" => index_worker[i].job \in Indexed
  BY DEF IndexOK
<1> QED
  BY <1>3, <1>5, <1>6, <1>7 DEF IndexJobsOK, D

LEMMA IndexJobsNext ==
    ASSUME IndexJobsOK, IndexOK, IndexOK', FilesOK, LoadInv, \A u \in Tables : Moves(u), [Next]_vars
    PROVE  IndexJobsOK'
<1> DEFINE q == index_queue
           D == DoneIndexed
           E == DoneIndexed'
           J == D \cup {"SHUTDOWN"}
           K == E \cup {"SHUTDOWN"}
           r == index_queue'
<1>0. Indexed \subseteq Tables
  BY LoaderAssumption
<1>w. D \subseteq E
  BY <1>0, NeverBack DEF DoneIndexed
<1>j. q \in Seq(J) /\ \A i \in IndexWorkers : index_worker[i].pc = "build" => index_worker[i].job \in D
  BY IndexJobsShape
<1>e. E = {t \in Indexed : dbt'[t].schema_state \in DataDone}
  BY DEF DoneIndexed
<1>p. ASSUME r \in Seq(K), \A i \in IndexWorkers : index_worker'[i].pc = "build" => index_worker'[i].job \in E
      PROVE  IndexJobsOK'
  <2>1. ASSUME NEW k \in 1 .. Len(r), r[k] # "SHUTDOWN" PROVE dbt'[r[k]].schema_state \in DataDone
    <3>1. r[k] \in K
      <4> HIDE DEF r, K
      <4> QED
        BY <1>p, <2>1
    <3>2. r[k] \in E
      <4> HIDE DEF r, E
      <4> QED
        BY <2>1, <3>1
    <3> QED
      BY <1>e, <3>2
  <2>2. ASSUME NEW i \in IndexWorkers, index_worker'[i].pc = "build"
        PROVE  dbt'[index_worker'[i].job].schema_state \in DataDone
    BY <1>e, <1>p, <2>2
  <2> QED
    BY <2>1, <2>2 DEF IndexJobsOK
<1> HIDE DEF q, D, E, r
<1>k. q \in Seq(K) /\ \A i \in IndexWorkers : index_worker[i].pc = "build" => index_worker[i].job \in E
  BY <1>j, <1>w
<1>s. ASSUME r \in Seq(K), index_worker' = index_worker PROVE IndexJobsOK'
  BY <1>k, <1>p, <1>s
<1>1. ASSUME NEW i \in IndexWorkers, IndexStep(i) PROVE IndexJobsOK'
  <2>a. ASSUME NEW x, x.pc = "build" => x.job \in E,
               index_worker' = [index_worker EXCEPT ![i] = x], r \in Seq(K)
        PROVE  IndexJobsOK'
    <3>1. ASSUME NEW v \in IndexWorkers, index_worker'[v].pc = "build" PROVE index_worker'[v].job \in E
      <4>1. index_worker'[v] = IF v = i THEN x ELSE index_worker[v]
        BY <2>a DEF IndexOK
      <4> QED
        BY <1>k, <2>a, <3>1, <4>1
    <3> QED
      BY <1>p, <2>a, <3>1
  <2>1. CASE TakeIndex(i)
    <3> DEFINE h == Head(q)
               x == IF h = "SHUTDOWN" THEN At("wake", "SHUTDOWN") ELSE At("build", h)
    <3>1. q # <<>> /\ r = Tail(q) /\ index_worker' = [index_worker EXCEPT ![i] = x]
      BY <2>1 DEF TakeIndex, q, r
    <3>2. h \in K /\ Tail(q) \in Seq(K)
      BY <1>k, <3>1
    <3> HIDE DEF h
    <3>3. x.pc = "build" => x.job \in E
      BY <3>2 DEF At
    <3> HIDE DEF x
    <3> QED
      BY <2>a, <3>1, <3>2, <3>3
  <2>2. CASE BuildIndex(i)
    <3> DEFINE b == index_worker[i]
               x == [b EXCEPT !.pc = "wake"]
    <3>1. r = q /\ index_worker' = [index_worker EXCEPT ![i] = x]
      BY <2>2 DEF BuildIndex, q, r
    <3>2. b \in IndexRecord
      BY DEF IndexOK, IndexRecord
    <3> HIDE DEF b
    <3>3. x.pc = "wake"
      BY <3>2 DEF IndexRecord
    <3> HIDE DEF x
    <3> QED
      BY <1>k, <2>a, <3>1, <3>3
  <2>3. CASE WakeAfterIndex(i)
    <3>1. /\ r = q
          /\ \E x \in {At("left", "none"), Idle} : index_worker' = [index_worker EXCEPT ![i] = x]
      BY <2>3 DEF WakeAfterIndex, q, r
    <3>2. PICK x \in {At("left", "none"), Idle} : index_worker' = [index_worker EXCEPT ![i] = x]
      BY <3>1
    <3>3. x.pc # "build"
      BY <3>2 DEF At, Idle
    <3> QED
      BY <1>k, <2>a, <3>1, <3>2, <3>3
  <2> QED
    BY <1>1, <2>1, <2>2, <2>3 DEF IndexStep
<1>2. ASSUME DispatcherStep PROVE IndexJobsOK'
  <2>0. index_worker' = index_worker
    BY <1>2, DispatcherFrame
  <2>1. CASE DispatchFromList
    <3>1. r = q \o InOrder(IndexesDue) /\ ScanStates
      BY <1>2, <2>1, FromList, DispatcherStates DEF q, r
    <3>2. IndexesDue \in SUBSET Tables /\ IndexesDue \in SUBSET E
      <4>1. table_hash \in SUBSET Tables
        BY ModeShape DEF FilesOK
      <4>2. ASSUME NEW t \in IndexesDue PROVE t \in Tables /\ t \in E
        <5>1. /\ t \in Visited /\ t \in Tables /\ dbt[t].schema_state = "CREATED"
              /\ Scanned[t].schema_state = "INDEX_ENQUEUED"
          BY <4>1 DEF IndexesDue, Visited
        <5>2. dbt'[t].schema_state = "INDEX_ENQUEUED"
          BY <3>1, <5>1 DEF ScanStates
        <5>3. t \in Indexed
          BY <3>1, <5>1, <5>2, ScanMoves DEF TableStays
        <5> QED
          BY <1>e, <5>1, <5>2, <5>3 DEF DataDone
      <4> QED
        BY <4>2
    <3>3. InOrder(IndexesDue) \in Seq(K)
      <4>1. InOrder(IndexesDue) \in Seq(IndexesDue)
        BY <3>2, InOrderOK
      <4> QED
        BY <3>2, <4>1
    <3> QED
      BY <1>k, <1>s, <2>0, <3>1, <3>3
  <2>2. CASE ~DispatchFromList
    <3>1. r = q
      BY <1>2, <2>2, DispatcherStates DEF q, r
    <3> QED
      BY <1>k, <1>s, <2>0, <3>1
  <2> QED
    BY <2>1, <2>2
<1>3. ASSUME MainStep PROVE IndexJobsOK'
  <2>0. index_worker' = index_worker
    BY <1>3, MainFrame
  <2>1. CASE wait_worker_loader_main
    <3> DEFINE e == [i \in 1..Cardinality(IndexWorkers) |-> "SHUTDOWN"]
    <3>1. r = q \o e
      BY <2>1 DEF wait_worker_loader_main, q, r
    <3>2. e \in Seq(K)
      BY FiniteAssumption, FS_CardinalityType
    <3> HIDE DEF e
    <3> QED
      BY <1>k, <1>s, <2>0, <3>1, <3>2
  <2>2. CASE ~wait_worker_loader_main
    <3>1. r = q
      BY <1>3, <2>2 DEF MainStep, wait_schema_worker_to_finish, wait_index_worker_to_finish,
                        indexVars, q, r
    <3> QED
      BY <1>k, <1>s, <2>0, <3>1
  <2> QED
    BY <2>1, <2>2
<1>4. CASE \/ \E w \in FileWorkers : FileStep(w)
           \/ wait_file_type_to_complete \/ UNCHANGED vars
           \/ \E w \in SchemaWorkers : SchemaStep(w)
           \/ \E l \in Loaders : LoaderStep(l)
  <2>1. r = q /\ index_worker' = index_worker
    BY <1>4, FileFrame, FilesEndFrame, SchemaFrame, LoaderFrame DEF vars, indexVars, q, r
  <2> QED
    BY <1>k, <1>s, <2>1
<1> QED
  BY <1>1, <1>2, <1>3, <1>4 DEF Next

(* The jobs on their way stay in J when the dispatcher gives none but such. *)
LEMMA WithinNext ==
    ASSUME NEW J, JobsWithin(J), LoadInv, DataJob("PROCESS_ENDED", 0) \in J,
           \A t \in Tables : HasJob(t, dbt[t]) => DataJob(t, NextPart(dbt[t])) \in J, [Next]_vars
    PROVE  JobsWithin(J)'
<1> DEFINE q == data_job_queue
           r == data_job_queue'
<1>0. q \in Seq(J) /\ \A l \in Loaders : loader[l].pc = "load" => loader[l].job \in J
  BY DEF JobsWithin
<1>w. loader \in [Loaders -> LoaderRecord]
  BY DEF LoadInv, JobsOK
<1> HIDE DEF q, r
<1>p. ASSUME r \in Seq(J), \A l \in Loaders : loader'[l].pc = "load" => loader'[l].job \in J
      PROVE  JobsWithin(J)'
  BY <1>p DEF JobsWithin, r
<1>1. ASSUME NEW l \in Loaders, LoaderStep(l) PROVE JobsWithin(J)'
  <2>a. ASSUME NEW x, x.pc = "load" => x.job \in J, loader' = [loader EXCEPT ![l] = x], r \in Seq(J)
        PROVE  JobsWithin(J)'
    <3>1. ASSUME NEW v \in Loaders, loader'[v].pc = "load" PROVE loader'[v].job \in J
      <4>1. loader'[v] = IF v = l THEN x ELSE loader[v]
        BY <1>w, <2>a
      <4> QED
        BY <1>0, <2>a, <3>1, <4>1
    <3> QED
      BY <1>p, <2>a, <3>1
  <2>1. CASE TakeJob(l)
    <3> DEFINE x == At("load", Head(q))
    <3>1. q # <<>> /\ r = Tail(q) /\ loader' = [loader EXCEPT ![l] = x]
      BY <2>1 DEF TakeJob, q, r
    <3>2. Head(q) \in J /\ Tail(q) \in Seq(J)
      BY <1>0, <3>1
    <3>3. x.job \in J
      BY <3>2 DEF At
    <3> HIDE DEF x
    <3> QED
      BY <2>a, <3>1, <3>2, <3>3
  <2>2. CASE LoaderEnds(l)
    <3> DEFINE x == [loader[l] EXCEPT !.pc = "left"]
    <3>1. q # <<>> /\ r = Append(Tail(q), Head(q)) /\ loader' = [loader EXCEPT ![l] = x]
      BY <2>2 DEF LoaderEnds, q, r
    <3>2. Append(Tail(q), Head(q)) \in Seq(J)
      BY <1>0, <3>1
    <3>3. x.pc = "left"
      BY <1>w DEF LoaderRecord
    <3> HIDE DEF x
    <3> QED
      BY <2>a, <3>1, <3>2, <3>3
  <2>3. CASE Request(l) \/ RestoreFilename(l) \/ ReleaseTable(l)
    <3>1. r = q /\ \A v \in Loaders : loader'[v] = loader[v] \/ loader'[v].pc # "load"
      <4>1. CASE Request(l)
        BY <1>w, <4>1 DEF Request, LoaderRecord, loaderVars, q, r
      <4>2. CASE RestoreFilename(l)
        BY <1>w, <4>2 DEF RestoreFilename, LoaderRecord, q, r
      <4>3. CASE ReleaseTable(l)
        BY <1>w, <4>3 DEF ReleaseTable, LoaderRecord, LoaderIdle, At, q, r
      <4> QED
        BY <2>3, <4>1, <4>2, <4>3
    <3> QED
      BY <1>0, <1>p, <3>1
  <2> QED
    BY <1>1, <2>1, <2>2, <2>3 DEF LoaderStep
<1>2. CASE DispatcherStep
  <2>0. loader' = loader
    BY <1>2, DispatcherFrame
  <2>1. Gives
    BY <1>2, DispatcherStates
  <2>2. r = q \/ \E j \in J : r = Append(q, j)
    BY <2>1 DEF Gives, GivesJob, GivesEnd, GivesNone, q, r
  <2>3. r \in Seq(J)
    BY <1>0, <2>2
  <2> QED
    BY <1>0, <1>p, <2>0, <2>3
<1>3. ASSUME loader' = loader, r = q PROVE JobsWithin(J)'
  BY <1>0, <1>3, <1>p
<1>4. CASE \/ \E w \in FileWorkers : FileStep(w)
           \/ wait_file_type_to_complete \/ UNCHANGED vars
           \/ \E w \in SchemaWorkers : SchemaStep(w)
           \/ \E i \in IndexWorkers : IndexStep(i)
           \/ MainStep
  <2>1. loader' = loader /\ r = q
    BY <1>4, FileFrame, FilesEndFrame, SchemaFrame, IndexFrame, MainFrame DEF vars, loaderVars, q, r
  <2> QED
    BY <1>3, <2>1
<1> QED
  BY <1>1, <1>2, <1>4 DEF Next

-----------------------------------------------------------------------------
(* What each step does to what the server has of a table *)
ServerStays(u) ==
    /\ server'.rows[u] = server.rows[u]
    /\ u \in server'.tables <=> u \in server.tables
    /\ u \in server'.indexes <=> u \in server.indexes
Purged(w, u) ==
    /\ PurgeTable(w) /\ HasTable(w, {"table"}, u) /\ server'.rows[u] = {}
    /\ \/ options.purge_mode = "DROP" /\ u \notin server'.tables /\ u \notin server'.indexes
       \/ /\ options.purge_mode \in {"TRUNCATE", "DELETE"} /\ u \in server'.tables
          /\ u \in server'.indexes <=> u \in server.indexes
Made(w, u) ==
    /\ RestoreSequence(w) \/ CreateTable(w)
    /\ HasTable(w, {"sequence", "create", "created"}, u)
    /\ u \in server'.tables /\ server'.rows[u] = server.rows[u]
    /\ u \in server'.indexes <=> u \in server.indexes
Loaded(l, u) ==
    /\ RestoreFilename(l) /\ loader[l].pc = "load" /\ loader[l].job.of = u
    /\ dbt[u].schema_state \notin BeforeCreated /\ u \in server.tables /\ u \in server'.tables
    /\ server'.rows[u] = server.rows[u] \cup {loader[l].job.part}
    /\ u \in server'.indexes <=> u \in server.indexes
    /\ \A v \in Loaders \ {l} : loader'[v] = loader[v]
Built(i, u) ==
    /\ BuildIndex(i) /\ index_worker[i].pc = "build" /\ index_worker[i].job = u
    /\ ~dbt[u].no_data /\ u \in server'.indexes
    /\ server'.rows[u] = server.rows[u]
    /\ u \in server'.tables <=> u \in server.tables
ServerMove(u) ==
    \/ ServerStays(u)
    \/ \E w \in SchemaWorkers : SchemaStep(w) /\ (Purged(w, u) \/ Made(w, u))
    \/ \E l \in Loaders : Loaded(l, u)
    \/ \E i \in IndexWorkers : Built(i, u)
ServerMoves == \A u \in Tables : ServerMove(u)

LEMMA ServerSame ==
    ASSUME server' = server
    PROVE  ServerMoves
  BY DEF ServerMoves, ServerMove, ServerStays

LEMMA ServerBySchema ==
    ASSUME server \in ServerRecord, SchemaOK, NEW w \in SchemaWorkers, SchemaStep(w)
    PROVE  server' \in ServerRecord /\ ServerMoves
<1> DEFINE t == schema_worker[w].job
<1>h. SchemaHandOK(schema_worker[w])
  BY DEF SchemaOK
<1>f. SequenceObjects \subseteq Tables /\ SchemaFiles \subseteq Tables
  BY LoaderAssumption
<1>s. ASSUME server' = server PROVE server' \in ServerRecord /\ ServerMoves
  BY <1>s, ServerSame
<1>m. ASSUME NEW x, x \in Tables, x = schema_worker[w].job, RestoreSequence(w) \/ CreateTable(w),
             schema_worker[w].pc \in {"sequence", "create", "created"},
             server' = [server EXCEPT !.tables = @ \cup {x}]
      PROVE  server' \in ServerRecord /\ ServerMoves
  <2>1. /\ server' \in ServerRecord /\ server'.rows = server.rows
        /\ server'.indexes = server.indexes /\ server'.tables = server.tables \cup {x}
    BY <1>m DEF ServerRecord
  <2>2. ASSUME NEW u \in Tables PROVE ServerMove(u)
    <3>1. CASE u = x
      BY <1>m, <2>1, <3>1 DEF ServerMove, Made, HasTable
    <3>2. CASE u # x
      BY <2>1, <3>2 DEF ServerMove, ServerStays
    <3> QED
      BY <3>1, <3>2
  <2> QED
    BY <2>1, <2>2 DEF ServerMoves
<1>1. CASE CreateDatabase(w)
  <2> DEFINE D == server.databases \cup {t}
  <2>1. schema_worker[w].pc = "database" /\ server' = [server EXCEPT !.databases = D]
    BY <1>1 DEF CreateDatabase
  <2>2. D \in SUBSET Databases
    BY <1>h, <2>1 DEF SchemaHandOK, ServerRecord
  <2> HIDE DEF D
  <2>3. /\ server' \in ServerRecord /\ server'.rows = server.rows
        /\ server'.indexes = server.indexes /\ server'.tables = server.tables
    BY <2>1, <2>2 DEF ServerRecord
  <2> QED
    BY <2>3 DEF ServerMoves, ServerMove, ServerStays
<1>2. CASE RestoreSequence(w)
  <2>1. /\ schema_worker[w].pc = "sequence"
        /\ server' = server \/ server' = [server EXCEPT !.tables = @ \cup {t}]
    BY <1>2 DEF RestoreSequence
  <2>2. t \in Tables
    BY <1>f, <1>h, <2>1 DEF SchemaHandOK
  <2> QED
    BY <1>2, <1>m, <1>s, <2>1, <2>2
<1>3. CASE CreateTable(w)
  <2>1. /\ schema_worker[w].pc \in {"create", "created"}
        /\ server' = server \/ server' = [server EXCEPT !.tables = @ \cup {t}]
    BY <1>3 DEF CreateTable
  <2>2. t \in Tables
    BY <1>f, <1>h, <2>1 DEF SchemaHandOK
  <2> QED
    BY <1>3, <1>m, <1>s, <2>1, <2>2
<1>4. CASE PurgeTable(w)
  <2> DEFINE R == [server.rows EXCEPT ![t] = {}]
             T == server.tables \ {t}
             I == server.indexes \ {t}
  <2>1. /\ schema_worker[w].pc = "table"
        /\ \/ server' = server
           \/ options.purge_mode = "DROP" /\ server' = [server EXCEPT !.tables = T, !.rows = R, !.indexes = I]
           \/ /\ options.purge_mode \in {"TRUNCATE", "DELETE"} /\ t \in server.tables
              /\ server' = [server EXCEPT !.rows = R]
    BY <1>4 DEF PurgeTable
  <2>2. t \in Tables
    BY <1>f, <1>h, <2>1 DEF SchemaHandOK
  <2>3. R \in [Tables -> SUBSET Nat] /\ T \in SUBSET Tables /\ I \in SUBSET Tables
    BY DEF ServerRecord
  <2>4. R[t] = {} /\ \A u \in Tables \ {t} : R[u] = server.rows[u]
    BY <2>2 DEF ServerRecord
  <2>5. /\ t \notin T /\ t \notin I
        /\ \A u \in Tables \ {t} : (u \in T <=> u \in server.tables) /\ (u \in I <=> u \in server.indexes)
    OBVIOUS
  <2>6. HasTable(w, {"table"}, t)
    BY <2>1 DEF HasTable
  <2> HIDE DEF R, T, I, t
  <2>7. CASE options.purge_mode = "DROP" /\ server' = [server EXCEPT !.tables = T, !.rows = R, !.indexes = I]
    <3>1. /\ server' \in ServerRecord /\ server'.rows = R
          /\ server'.indexes = I /\ server'.tables = T
      BY <2>3, <2>7 DEF ServerRecord
    <3>2. Purged(w, t)
      BY <1>4, <2>4, <2>5, <2>6, <2>7, <3>1 DEF Purged
    <3>3. \A u \in Tables \ {t} : ServerStays(u)
      BY <2>4, <2>5, <3>1 DEF ServerStays
    <3> QED
      BY <3>1, <3>2, <3>3 DEF ServerMoves, ServerMove
  <2>8. CASE /\ options.purge_mode \in {"TRUNCATE", "DELETE"} /\ t \in server.tables
             /\ server' = [server EXCEPT !.rows = R]
    <3>1. /\ server' \in ServerRecord /\ server'.rows = R
          /\ server'.indexes = server.indexes /\ server'.tables = server.tables
      BY <2>3, <2>8 DEF ServerRecord
    <3>2. Purged(w, t)
      BY <1>4, <2>4, <2>6, <2>8, <3>1 DEF Purged
    <3>3. \A u \in Tables \ {t} : ServerStays(u)
      BY <2>4, <3>1 DEF ServerStays
    <3> QED
      BY <3>1, <3>2, <3>3 DEF ServerMoves, ServerMove
  <2> QED
    BY <1>s, <2>1, <2>7, <2>8
<1>5. CASE PopCreateJob(w) \/ PopObjectJob(w) \/ PurgeFails(w) \/ WakeAfterSchema(w)
           \/ SchemaProcessEnded(w) \/ SchemaWorkerEnds(w)
  BY <1>5, <1>s DEF PopCreateJob, PopObjectJob, PurgeFails, WakeAfterSchema, SchemaProcessEnded,
                    SchemaWorkerEnds, serverVars
<1> QED
  BY <1>1, <1>2, <1>3, <1>4, <1>5 DEF SchemaStep

LEMMA ServerByLoader ==
    ASSUME server \in ServerRecord, JobsOK, NEW l \in Loaders, LoaderStep(l)
    PROVE  server' \in ServerRecord /\ ServerMoves
<1>1. CASE RestoreFilename(l)
  <2> DEFINE t == loader[l].job.of
             p == loader[l].job.part
             R == [server.rows EXCEPT ![t] = @ \cup {p}]
             x == [loader[l] EXCEPT !.pc = "release"]
  <2>1. /\ loader[l].pc = "load" /\ dbt[t].schema_state \notin BeforeCreated
        /\ \/ server' = server
           \/ /\ t \in server.tables /\ server' = [server EXCEPT !.rows = R]
              /\ loader' = [loader EXCEPT ![l] = x]
    BY <1>1 DEF RestoreFilename
  <2>2. t \in Tables /\ p \in Nat
    BY <2>1 DEF JobsOK, LoaderRecord
  <2>3. /\ R \in [Tables -> SUBSET Nat] /\ R[t] = server.rows[t] \cup {p}
        /\ \A u \in Tables \ {t} : R[u] = server.rows[u]
    <3> HIDE DEF t, p
    <3> QED
      BY <2>2 DEF ServerRecord
  <2> HIDE DEF R, x
  <2>4. CASE /\ t \in server.tables /\ server' = [server EXCEPT !.rows = R]
             /\ loader' = [loader EXCEPT ![l] = x]
    <3>1. /\ server' \in ServerRecord /\ server'.rows = R
          /\ server'.indexes = server.indexes /\ server'.tables = server.tables
      BY <2>3, <2>4 DEF ServerRecord
    <3>2. \A v \in Loaders \ {l} : loader'[v] = loader[v]
      BY <2>4 DEF JobsOK
    <3>3. Loaded(l, t)
      BY <1>1, <2>1, <2>3, <2>4, <3>1, <3>2 DEF Loaded
    <3>4. \A u \in Tables \ {t} : ServerStays(u)
      BY <2>3, <3>1 DEF ServerStays
    <3> QED
      BY <3>1, <3>3, <3>4 DEF ServerMoves, ServerMove
  <2> QED
    BY <2>1, <2>4, ServerSame
<1>2. CASE Request(l) \/ TakeJob(l) \/ ReleaseTable(l) \/ LoaderEnds(l)
  BY <1>2, ServerSame DEF Request, TakeJob, ReleaseTable, LoaderEnds, serverVars
<1> QED
  BY <1>1, <1>2 DEF LoaderStep

LEMMA ServerByIndex ==
    ASSUME server \in ServerRecord, IndexOK, NEW i \in IndexWorkers, IndexStep(i)
    PROVE  server' \in ServerRecord /\ ServerMoves
<1>1. CASE BuildIndex(i)
  <2> DEFINE t == index_worker[i].job
             I == IF dbt[t].no_data THEN server.indexes ELSE server.indexes \cup {t}
  <2>1. index_worker[i].pc = "build" /\ server' = [server EXCEPT !.indexes = I]
    BY <1>1 DEF BuildIndex
  <2>2. t \in Tables
    BY <2>1, LoaderAssumption DEF IndexOK
  <2>3. I \in SUBSET Tables /\ \A u \in Tables \ {t} : u \in I <=> u \in server.indexes
    BY <2>2 DEF ServerRecord
  <2>4. dbt[t].no_data \/ t \in I
    OBVIOUS
  <2>5. dbt[t].no_data => I = server.indexes
    OBVIOUS
  <2> HIDE DEF I
  <2>6. /\ server' \in ServerRecord /\ server'.rows = server.rows
        /\ server'.indexes = I /\ server'.tables = server.tables
    BY <2>1, <2>3 DEF ServerRecord
  <2>7. ServerMove(t)
    <3>1. CASE dbt[t].no_data
      BY <2>5, <2>6, <3>1 DEF ServerMove, ServerStays
    <3>2. CASE ~dbt[t].no_data
      <4>1. Built(i, t)
        BY <1>1, <2>1, <2>4, <2>6, <3>2 DEF Built
      <4> QED
        BY <4>1 DEF ServerMove
    <3> QED
      BY <3>1, <3>2
  <2>8. \A u \in Tables \ {t} : ServerStays(u)
    BY <2>3, <2>6 DEF ServerStays
  <2> QED
    BY <2>6, <2>7, <2>8 DEF ServerMoves, ServerMove
<1>2. CASE TakeIndex(i) \/ WakeAfterIndex(i)
  BY <1>2, ServerSame DEF TakeIndex, WakeAfterIndex, serverVars
<1> QED
  BY <1>1, <1>2 DEF IndexStep

LEMMA ServerNext ==
    ASSUME server \in ServerRecord, SchemaOK, JobsOK, IndexOK, [Next]_vars
    PROVE  server' \in ServerRecord /\ ServerMoves
<1>1. CASE \/ \E w \in FileWorkers : FileStep(w)
           \/ wait_file_type_to_complete \/ DispatcherStep \/ MainStep \/ UNCHANGED vars
  BY <1>1, FileFrame, FilesEndFrame, DispatcherFrame, MainFrame, ServerSame DEF vars, serverVars
<1> QED
  BY <1>1, ServerBySchema, ServerByLoader, ServerByIndex DEF Next

-----------------------------------------------------------------------------
(* Rows are loaded once their table is made and never emptied again *)

LEMMA NextPartGiven ==
    ASSUME TablesOK, NEW t \in Tables, HasJob(t, dbt[t])
    PROVE  /\ NextPart(dbt[t]) \in dbt[t].restore_job_list /\ NextPart(dbt[t]) \in 1 .. Parts[t]
           /\ Parts[t] \in Nat
<1> DEFINE L == dbt[t].restore_job_list
<1>1. L \in SUBSET Nat /\ L # {} /\ L \subseteq 1 .. Parts[t]
  BY ListFinite DEF HasJob
<1>2. \E p \in L : \A q \in L : p <= q
  <2> HIDE DEF L
  <2> QED
    BY <1>1, LeastNatural
<1>3. NextPart(dbt[t]) \in L
  BY <1>2 DEF NextPart
<1> QED
  BY <1>1, <1>3, LoaderAssumption

LEMMA PartJobsNext ==
    ASSUME PartJobsOK, LoadInv, [Next]_vars
    PROVE  PartJobsOK'
<1>0. "PROCESS_ENDED" \notin Tables
  BY FiniteAssumption
<1>1. DataJob("PROCESS_ENDED", 0) \in PartJobs
  BY <1>0, JobsShape DEF PartJobs, DataJob
<1>2. ASSUME NEW t \in Tables, HasJob(t, dbt[t]) PROVE DataJob(t, NextPart(dbt[t])) \in PartJobs
  <2> DEFINE p == NextPart(dbt[t])
  <2>1. p \in 1 .. Parts[t] /\ p \in Nat
    BY <1>2, NextPartGiven DEF LoadInv
  <2> HIDE DEF p
  <2>2. DataJob(t, p) \in DataJobs
    BY <2>1, JobsShape
  <2>3. DataJob(t, p) \in PartJobs
    BY <2>1, <2>2 DEF PartJobs, DataJob
  <2> QED
    BY <2>3 DEF p
<1> DEFINE J == PartJobs
<1>3. JobsWithin(J)
  BY DEF PartJobsOK
<1>4. PartJobs' = PartJobs
  BY DEF PartJobs
<1> HIDE DEF J
<1>5. JobsWithin(J)'
  BY <1>1, <1>2, <1>3, WithinNext DEF J
<1> QED
  BY <1>4, <1>5 DEF PartJobsOK, JobsWithin, J

LEMMA RowsNext ==
    ASSUME RowsOK, PartJobsOK, SchemaExact, SchemaOK, LoadInv, server' \in ServerRecord,
           ServerMoves, \A u \in Tables : Moves(u)
    PROVE  RowsOK' /\ \A t \in Tables : server.rows[t] \subseteq server'.rows[t]
<1>1. ASSUME NEW t \in Tables
      PROVE  /\ server'.rows[t] \subseteq 1 .. Parts[t]
             /\ server'.rows[t] # {} => dbt'[t].schema_state \notin BeforeCreated
             /\ server.rows[t] \subseteq server'.rows[t]
  <2>0. /\ server.rows[t] \subseteq 1 .. Parts[t]
        /\ server.rows[t] # {} => dbt[t].schema_state \notin BeforeCreated
        /\ dbt[t].schema_state \notin BeforeCreated => dbt'[t].schema_state \notin BeforeCreated
    BY NeverBack DEF RowsOK
  <2>1. CASE server'.rows[t] = server.rows[t]
    BY <2>0, <2>1
  <2>2. ASSUME NEW w \in SchemaWorkers, Purged(w, t) PROVE server'.rows[t] = server.rows[t]
    <3>1. HasTable(w, {"sequence", "table", "create", "created"}, t)
      BY <2>2 DEF Purged, HasTable
    <3>2. MakingOf(t) >= 1 /\ MakingOf(t) = IF dbt[t].schema_state = "CREATING" THEN 1 ELSE 0
      BY <3>1, MakingShape, ExactValues DEF SchemaOK, SchemaWorkersOK
    <3>3. dbt[t].schema_state = "CREATING"
      BY <3>2
    <3>4. server.rows[t] = {}
      BY <2>0, <3>3 DEF BeforeCreated
    <3> QED
      BY <2>2, <3>4 DEF Purged
  <2>3. ASSUME NEW l \in Loaders, Loaded(l, t)
        PROVE  /\ server'.rows[t] \subseteq 1 .. Parts[t]
               /\ dbt'[t].schema_state \notin BeforeCreated
               /\ server.rows[t] \subseteq server'.rows[t]
    <3>1. loader[l].job \in PartJobs /\ loader[l].job.of = t
      BY <2>3 DEF Loaded, PartJobsOK, JobsWithin
    <3>2. loader[l].job.part \in 1 .. Parts[t]
      BY <3>1 DEF PartJobs
    <3> QED
      BY <2>0, <2>3, <3>2 DEF Loaded
  <2>4. ServerMove(t)
    BY DEF ServerMoves
  <2>5. ServerStays(t) \/ (\E w \in SchemaWorkers : Made(w, t)) \/ (\E i \in IndexWorkers : Built(i, t))
           => server'.rows[t] = server.rows[t]
    BY DEF ServerStays, Made, Built
  <2> QED
    BY <2>1, <2>2, <2>3, <2>4, <2>5 DEF ServerMove
<1> QED
  BY <1>1 DEF RowsOK

LEMMA StateInit == ASSUME Init PROVE StateInv /\ EndedOK
<1> USE DEF Init
<1>0. CountInv /\ FilesOK /\ SchemaOK
  BY CountInit DEF CountInv, TypeInv
<1>d. \A t \in Tables : dbt[t].schema_state = "NOT_FOUND"
  BY DEF NewTable
<1>w. \A w \in SchemaWorkers : schema_worker[w].pc = "idle"
  BY DEF Idle, At
<1>f. \A w \in FileWorkers : file_worker[w].pc = "idle"
  BY DEF FileIdle, At
<1>e. \A P : Items(<<>>, P) = 0
  BY ItemsEmpty
<1>q. \A d \in Databases : Waiting(d) = <<>>
  BY DEF Waiting
<1>b. DbOf \in [Tables -> Databases]
  BY LoaderAssumption
<1>1. SchemaExact
  <2>1. ASSUME NEW t \in Tables PROVE ExactAt(t)
    <3>1. Items(schema_job_queue, ObjectJobs(t)) = 0 /\ Items(retry_queue, ObjectJobs(t)) = 0
      BY <1>e
    <3>2. Items(Waiting(DbOf[t]), ObjectJobs(t)) = 0
      BY <1>b, <1>e, <1>q
    <3>3. JobsFor(t) = 0
      BY <3>1, <3>2 DEF JobsFor
    <3>4. \A w \in SchemaWorkers : schema_worker[w] \notin Making(t)
      BY <1>w DEF Making
    <3>5. Many(SchemaWorkers, schema_worker, Making(t)) = 0
      BY <3>4, FiniteAssumption, ManyBound
    <3> QED
      BY <1>d, <3>3, <3>5 DEF ExactAt
  <2> QED
    BY <2>1 DEF SchemaExact
<1>2. AwayOK
  BY <1>e, <1>q DEF AwayOK
<1>3. UnreadOK
  BY <1>d, LoaderAssumption DEF UnreadOK
<1>4. IndexJobsOK
  BY DEF IndexJobsOK, Idle, At
<1>5. RowsOK
  <2>1. options.existing \in SUBSET Tables
    BY <1>0, ModeShape DEF FilesOK
  <2> DEFINE D == IF options.target_db THEN Databases ELSE Databases \ CreateFiles
             E == options.existing
             R == [t \in Tables |-> {}]
  <2>2. D \in SUBSET Databases /\ R \in [Tables -> SUBSET Nat] /\ \A t \in Tables : R[t] = {}
    OBVIOUS
  <2>3. server = [databases |-> D, tables |-> E, rows |-> R, indexes |-> {}]
    OBVIOUS
  <2> HIDE DEF D, E, R
  <2> QED
    BY <2>1, <2>2, <2>3 DEF RowsOK, ServerRecord, E
<1>6. PartJobsOK
  BY DEF PartJobsOK, JobsWithin, LoaderIdle, At
<1>7. EndedOK
  <2>1. FileWorkers # {}
    BY FiniteAssumption
  <2> QED
    BY <1>e, <1>f DEF EndedOK
<1> QED
  BY <1>1, <1>2, <1>3, <1>4, <1>5, <1>6, <1>7 DEF StateInv

LEMMA StateNext ==
    ASSUME ReadOnce, CountInv, StateInv, EndedOK, [Next]_vars
    PROVE  /\ StateInv' /\ EndedOK' /\ (\A u \in Tables : Moves(u)) /\ ServerMoves
           /\ \A t \in Tables : server.rows[t] \subseteq server'.rows[t]
<1>1. /\ TypeInv /\ FilesOK /\ SchemaOK /\ ControlOK /\ IndexOK /\ HandsOK /\ LoadInv /\ JobsOK
  BY LoadParts DEF CountInv, TypeInv, LoadInv
<1>2. CountInv' /\ IndexOK'
  BY CountNext DEF CountInv, TypeInv
<1>3. /\ SchemaExact /\ AwayOK /\ UnreadOK /\ IndexJobsOK /\ RowsOK /\ PartJobsOK
  BY DEF StateInv
<1>4. \A u \in Tables : Moves(u)
  BY <1>1, <1>3, StateMoves
<1>5. EndedOK'
  BY <1>1, EndedNext
<1>6. SchemaExact' /\ AwayOK'
  BY <1>1, <1>3, ExactNext
<1>7. UnreadOK'
  BY <1>1, <1>3, UnreadNext
<1>8. IndexJobsOK'
  BY <1>1, <1>2, <1>3, <1>4, IndexJobsNext
<1>9. PartJobsOK'
  BY <1>1, <1>3, PartJobsNext
<1>10. server' \in ServerRecord /\ ServerMoves
  BY <1>1, <1>3, ServerNext DEF RowsOK
<1>11. RowsOK' /\ \A t \in Tables : server.rows[t] \subseteq server'.rows[t]
  BY <1>1, <1>3, <1>4, <1>10, RowsNext
<1> QED
  BY <1>4, <1>5, <1>6, <1>7, <1>8, <1>9, <1>10, <1>11 DEF StateInv

(* A stuttering step reads nothing. *)
LEMMA StepReads ==
    ASSUME FilesOK, [ReadOnce]_vars
    PROVE  ReadOnce
<1>1. ASSUME UNCHANGED vars, NEW w \in FileWorkers, parse_create_table_from_file(w) PROVE FALSE
  <2>1. /\ file_worker[w].pc = "mark" /\ file_worker' = file_worker
        /\ file_worker' = [file_worker EXCEPT ![w] = AfterSchema(file_worker[w].job)]
    BY <1>1 DEF parse_create_table_from_file, vars, fileVars
  <2>2. file_worker[w] = AfterSchema(file_worker[w].job)
    BY <2>1 DEF FilesOK
  <2>3. \A f : AfterSchema(f).pc # "mark"
    BY DEF AfterSchema, FileIdle, At
  <2> QED
    BY <2>1, <2>2, <2>3
<1> QED
  BY <1>1 DEF ReadOnce

(* One schema job is made for each table and one schema worker at a time   *)
(* runs it (StateInv): a failed job goes back to retry_queue once, the     *)
(* jobs that wait for a database are released once (set_db_schema_created) *)
(* and a table is never emptied, dropped or created after it is CREATED.   *)
(* Each thread that another one joins has left the work it was joined for  *)
(* (EndedOK).  All this in every run that reads no schema file twice.      *)
THEOREM TablesMadeOnce == Spec /\ [][ReadOnce]_vars => [](StateInv /\ EndedOK)
<1> DEFINE Inv == CountInv /\ StateInv /\ EndedOK
<1>1. Init => Inv
  BY CountInit, StateInit
<1>2. Inv /\ [Next]_vars /\ [ReadOnce]_vars => Inv'
  <2>1. CountInv => FilesOK
    BY DEF CountInv, TypeInv
  <2> QED
    BY <2>1, CountNext, StateNext, StepReads
<1> QED
  BY <1>1, <1>2, PTL DEF Spec

(* A single file type worker reads no schema file twice, nor do several if *)
(* a target database is set, since a data file then leaves the schema file *)
(* alone: with these options what is proved here and below has no further  *)
(* condition.                                                              *)
THEOREM OneReaderReadsOnce ==
    ASSUME OneReader
    PROVE  Spec => [][ReadOnce]_vars
<1> DEFINE Inv == CountInv /\ StateInv /\ EndedOK /\ MarkedOK
<1>1. Init => Inv
  <2>1. Init => MarkedOK
    BY DEF Init, MarkedOK, Reading, FileIdle, At
  <2> QED
    BY <2>1, CountInit, StateInit
<1>2. Inv => ReadOnce
  BY MarkedOnce
<1>3. Inv /\ [Next]_vars => Inv'
  <2> SUFFICES ASSUME Inv, [Next]_vars PROVE Inv'
    OBVIOUS
  <2>1. CountInv' /\ StateInv' /\ EndedOK'
    BY <1>2, CountNext, StateNext
  <2>2. MarkedOK'
    <3>1. TypeInv /\ HandsOK /\ LoadInv
      BY LoadParts DEF CountInv, TypeInv, LoadInv
    <3>2. UnreadOK /\ SchemaExact /\ IndexJobsOK
      BY DEF StateInv
    <3> QED
      BY <1>2, <3>1, <3>2, MarkedNext
  <2> QED
    BY <2>1, <2>2
<1>4. Inv /\ [Next]_vars => [ReadOnce]_vars
  BY <1>2
<1> QED
  BY <1>1, <1>3, <1>4, PTL DEF Spec

(* Rows that were restored stay: a schema worker empties or drops a table  *)
(* (overwrite_table) only while the table is CREATING, and a loader puts   *)
(* rows only into a table that is past that (RowsStay).  Only a schema     *)
(* file read twice can undo that, as the run Loader_reparse shows.         *)
THEOREM RowsNeverLost == Spec /\ [][ReadOnce]_vars => RowsStay
<1> DEFINE Inv == CountInv /\ StateInv /\ EndedOK
<1>1. Inv /\ [Next]_vars /\ [ReadOnce]_vars
        => [\A t \in Tables : server.rows[t] \subseteq server'.rows[t]]_vars
  <2>1. CountInv => FilesOK
    BY DEF CountInv, TypeInv
  <2> QED
    BY <2>1, StateNext, StepReads
<1>2. Spec /\ [][ReadOnce]_vars => []Inv
  BY LoaderCounts, TablesMadeOnce, PTL
<1> QED
  BY <1>1, <1>2, PTL DEF Spec, RowsStay

-----------------------------------------------------------------------------
(* Every part of a table stays on its way *)

LEMMA OptionsStay == ASSUME [Next]_vars PROVE options' = options
  BY FileFrame, FilesEndFrame, SchemaFrame, DispatcherFrame, LoaderFrame, IndexFrame, MainFrame
     DEF Next, vars

LEMMA ListsByState ==
    ASSUME TablesOK, NEW t, NEW s, dbt' = [dbt EXCEPT ![t].schema_state = s]
    PROVE  ListsStay
<1>1. ASSUME NEW u \in Tables PROVE dbt'[u].restore_job_list = dbt[u].restore_job_list
  <2> DEFINE r == dbt[u]
             x == [r EXCEPT !.schema_state = s]
  <2>1. r \in TableRecord /\ dbt'[u] \in {r, x}
    BY DEF TablesOK
  <2> HIDE DEF r
  <2>2. x.restore_job_list = r.restore_job_list
    BY <2>1 DEF TableRecord
  <2> QED
    BY <2>1, <2>2 DEF r
<1> QED
  BY <1>1 DEF ListsStay

LEMMA PartsByFile ==
    ASSUME FilesOK, LoadInv, NEW w \in FileWorkers, FileStep(w), NEW t \in Tables, NEW p,
           InFiles(t, p) \/ InHands(t, p) \/ InList(t, p)
    PROVE  InFiles(t, p)' \/ InHands(t, p)' \/ InList(t, p)' \/ dbt'[t].no_data
<1> DEFINE F == File("data", t, p)
           hands == {"check", "mark", "add"}
           on == InList(t, p)' \/ dbt'[t].no_data
<1>f. F.kind = "data" /\ F.of = t /\ F.part = p
  BY DEF File
<1>a. \A pc, f : At(pc, f).pc = pc /\ At(pc, f).job = f
  BY DEF At
<1>l. TablesOK
  BY DEF LoadInv
<1>i. InFiles(t, p)' <=> F \in files'
  BY DEF InFiles
<1>g. InFiles(t, p) <=> F \in files
  BY DEF InFiles
<1>n. ASSUME NEW v \in FileWorkers, file_worker'[v].pc \in hands, file_worker'[v].job = F
      PROVE  InHands(t, p)'
  BY <1>n DEF InHands, Holds
<1>o. InHands(t, p) => \E v \in FileWorkers : file_worker[v].pc \in hands /\ file_worker[v].job = F
  BY DEF InHands, Holds
<1> HIDE DEF F, hands
<1>m. ASSUME NEW x, file_worker' = [file_worker EXCEPT ![w] = x], InList(t, p) => on,
             file_worker[w].pc \in hands /\ file_worker[w].job = F => (x.pc \in hands /\ x.job = F) \/ on,
             F \in files => F \in files' \/ (x.pc \in hands /\ x.job = F)
      PROVE  InFiles(t, p)' \/ InHands(t, p)' \/ on
  <2>1. \A v \in FileWorkers : file_worker'[v] = IF v = w THEN x ELSE file_worker[v]
    BY <1>m DEF FilesOK
  <2>2. CASE InFiles(t, p)
    BY <1>g, <1>i, <1>m, <1>n, <2>1, <2>2
  <2>3. CASE InHands(t, p)
    <3>1. PICK v \in FileWorkers : file_worker[v].pc \in hands /\ file_worker[v].job = F
      BY <1>o, <2>3
    <3>2. CASE v = w
      BY <1>m, <1>n, <2>1, <3>1, <3>2
    <3>3. CASE v # w
      BY <1>n, <2>1, <3>1, <3>3
    <3> QED
      BY <3>2, <3>3
  <2> QED
    BY <1>m, <2>2, <2>3
<1>e. ASSUME dbt' = dbt PROVE InList(t, p) => on
  BY <1>e DEF InList
<1>s. ASSUME ListsStay PROVE InList(t, p) => on
  BY <1>s DEF InList, ListsStay
<1>k. ASSUME F \in files => F \in files', file_worker' = file_worker, InList(t, p) => on
      PROVE  InFiles(t, p)' \/ InHands(t, p)' \/ on
  BY <1>g, <1>i, <1>k, <1>n, <1>o
<1> HIDE DEF on
<1>1. CASE process_database_filename(w)
  <2>1. /\ \E f \in files : f.kind = "database" /\ files' = files \ {f}
        /\ file_worker' = file_worker /\ dbt' = dbt
    BY <1>1 DEF process_database_filename, tableVars
  <2> QED
    BY <1>e, <1>f, <1>k, <2>1 DEF on
<1>2. CASE process_schema_sequence_filename(w)
  <2>1. PICK f \in files : /\ f.kind = "sequence" /\ files' = files \ {f}
                           /\ file_worker' = file_worker
                           /\ dbt' = [dbt EXCEPT ![f.of].schema_state = "NOT_CREATED"]
    BY <1>2 DEF process_schema_sequence_filename
  <2>2. ListsStay
    BY <1>l, <2>1, ListsByState
  <2> QED
    BY <1>f, <1>k, <1>s, <2>1, <2>2 DEF on
<1>3. CASE append_new_db_table(w)
  <2>1. PICK f \in files : /\ files' = files \ {f} /\ dbt' = dbt /\ file_worker[w].pc = "idle"
                           /\ \E x \in {At("check", f), At("add", f)} :
                                 file_worker' = [file_worker EXCEPT ![w] = x]
    BY <1>3 DEF append_new_db_table
  <2>2. PICK x \in {At("check", f), At("add", f)} : file_worker' = [file_worker EXCEPT ![w] = x]
    BY <2>1
  <2>3. x.pc \in hands /\ x.job = f
    BY <1>a DEF hands
  <2>4. file_worker[w].pc \notin hands
    BY <2>1 DEF hands
  <2>5. F \in files => F \in files' \/ (x.pc \in hands /\ x.job = F)
    BY <2>1, <2>3
  <2> QED
    BY <1>e, <1>m, <2>1, <2>2, <2>4, <2>5 DEF on
<1>4. CASE CheckParsed(w) \/ parse_create_table_from_file(w)
  <2> DEFINE f == file_worker[w].job
  <2>1. /\ files' = files
        /\ \E x \in {At("mark", f), AfterSchema(f)} : file_worker' = [file_worker EXCEPT ![w] = x]
    BY <1>4 DEF CheckParsed, parse_create_table_from_file
  <2>2. PICK x \in {At("mark", f), AfterSchema(f)} : file_worker' = [file_worker EXCEPT ![w] = x]
    BY <2>1
  <2>3. f = F => x.pc \in hands /\ x.job = F
    BY <1>a, <1>f DEF AfterSchema, hands
  <2>4. ListsStay
    <3>1. CASE CheckParsed(w)
      BY <3>1 DEF CheckParsed, tableVars, ListsStay
    <3>2. CASE parse_create_table_from_file(w)
      <4>1. dbt' = [dbt EXCEPT ![f.of].schema_state = "NOT_CREATED"]
        BY <3>2 DEF parse_create_table_from_file
      <4> HIDE DEF f
      <4> QED
        BY <1>l, <4>1, ListsByState
    <3> QED
      BY <1>4, <3>1, <3>2
  <2> QED
    BY <1>m, <1>s, <2>1, <2>2, <2>3, <2>4 DEF on
<1>5. CASE process_data_filename(w)
  <2> DEFINE f == file_worker[w].job
             b == file_worker[w]
             x == [b EXCEPT !.pc = "wake"]
  <2>1. files' = files /\ file_worker' = [file_worker EXCEPT ![w] = x]
    BY <1>5 DEF process_data_filename
  <2>2. /\ StatesStay
        /\ \/ dbt' = dbt /\ dbt[f.of].no_data
           \/ /\ dbt'[f.of].restore_job_list = dbt[f.of].restore_job_list \cup {f.part}
              /\ \A u \in Tables \ {f.of} : dbt'[u] = dbt[u]
        /\ f.of \in Tables
    BY <1>5, DataFileStates
  <2>3. InList(t, p) => on
    BY <2>2 DEF InList, on
  <2>4. f = F => on
    BY <1>f, <2>2 DEF InList, on
  <2> HIDE DEF x, f
  <2> QED
    BY <1>m, <2>1, <2>3, <2>4 DEF on, f
<1>6. CASE WakeAfterFile(w) \/ FileWorkerEnds(w)
  <2>1. /\ files' = files /\ dbt' = dbt /\ file_worker[w].pc \in {"wake", "idle"}
        /\ \E x : file_worker' = [file_worker EXCEPT ![w] = x]
    BY <1>6 DEF WakeAfterFile, FileWorkerEnds, tableVars
  <2>2. PICK x : file_worker' = [file_worker EXCEPT ![w] = x]
    BY <2>1
  <2>3. file_worker[w].pc \notin hands
    BY <2>1 DEF hands
  <2> QED
    BY <1>e, <1>m, <2>1, <2>2, <2>3 DEF on
<1> QED
  BY <1>1, <1>2, <1>3, <1>4, <1>5, <1>6 DEF FileStep, on

LEMMA PartsByLoader ==
    ASSUME LoadInv, server \in ServerRecord, NEW l \in Loaders, LoaderStep(l), NEW t \in Tables,
           NEW p, InQueue(t, p) \/ InLoad(t, p)
    PROVE  InQueue(t, p)' \/ InLoad(t, p)' \/ InRows(t, p)'
<1> DEFINE j == DataJob(t, p)
           q == data_job_queue
           z == data_job_queue'
<1>w. JobsOK /\ loader \in [Loaders -> LoaderRecord] /\ q \in Seq(DataJobs)
  BY DEF LoadInv, JobsOK
<1>q. /\ InQueue(t, p) <=> Items(q, {j}) > 0
      /\ InQueue(t, p)' <=> Items(z, {j}) > 0
  BY DEF InQueue
<1>l. InLoad(t, p) => \E v \in Loaders : loader[v] = At("load", j)
  BY DEF InLoad
<1>m. ASSUME NEW v \in Loaders, loader'[v] = At("load", j) PROVE InLoad(t, p)'
  BY <1>m DEF InLoad
<1>a. \A pc, f : At(pc, f).pc = pc /\ At(pc, f).job = f
  BY DEF At
<1>j. j.of = t /\ j.part = p
  BY DEF DataJob
<1>n. Items(q, {j}) \in Nat
  BY <1>w, CountsNat
<1> HIDE DEF j, q, z
<1>o. ASSUME NEW x, loader' = [loader EXCEPT ![l] = x], loader[l].pc # "load", InLoad(t, p)
      PROVE  InLoad(t, p)'
  <2>1. PICK v \in Loaders : loader[v] = At("load", j)
    BY <1>l, <1>o
  <2>2. v # l /\ loader'[v] = loader[v]
    BY <1>a, <1>o, <1>w, <2>1
  <2> QED
    BY <1>m, <2>1, <2>2
<1>1. CASE Request(l)
  <2>1. z = q /\ loader[l].pc = "idle" /\ \E x : loader' = [loader EXCEPT ![l] = x]
    BY <1>1 DEF Request, q, z
  <2> QED
    BY <1>o, <1>q, <2>1
<1>2. CASE TakeJob(l)
  <2> DEFINE h == Head(q)
             x == At("load", h)
  <2>1. /\ q # <<>> /\ z = Tail(q) /\ loader[l].pc = "wait"
        /\ loader' = [loader EXCEPT ![l] = x]
    BY <1>2 DEF TakeJob, q, z
  <2>2. \A P : Items(Tail(q), P) = IF Head(q) \in P THEN Items(q, P) - 1 ELSE Items(q, P)
    BY <1>w, <2>1, ItemsTail
  <2>3. CASE h = j
    <3>1. loader'[l] = At("load", j)
      BY <1>w, <2>1, <2>3
    <3> QED
      BY <1>m, <3>1
  <2>4. CASE h # j
    <3>1. Items(z, {j}) = Items(q, {j})
      BY <2>1, <2>2, <2>4
    <3> HIDE DEF x
    <3> QED
      BY <1>o, <1>q, <2>1, <3>1
  <2> QED
    BY <2>3, <2>4
<1>3. CASE LoaderEnds(l)
  <2>1. /\ q # <<>> /\ z = Append(Tail(q), Head(q)) /\ loader[l].pc = "wait"
        /\ \E x : loader' = [loader EXCEPT ![l] = x]
    BY <1>3 DEF LoaderEnds, q, z
  <2>2. Items(z, {j}) = Items(q, {j})
    BY <1>w, <2>1, ItemsRotated
  <2> QED
    BY <1>o, <1>q, <2>1, <2>2
<1>4. CASE RestoreFilename(l)
  <2> DEFINE u == loader[l].job.of
             k == loader[l].job.part
             R == [server.rows EXCEPT ![u] = @ \cup {k}]
  <2>1. /\ z = q /\ loader[l].pc = "load"
        /\ \/ loader' = loader
           \/ /\ \E x : loader' = [loader EXCEPT ![l] = x]
              /\ server' = [server EXCEPT !.rows = R]
    BY <1>4 DEF RestoreFilename, q, z
  <2>2. CASE InQueue(t, p)
    BY <1>q, <2>1, <2>2
  <2>3. CASE InLoad(t, p)
    <3>1. PICK v \in Loaders : loader[v] = At("load", j)
      BY <1>l, <2>3
    <3>2. CASE loader' = loader
      BY <1>m, <3>1, <3>2
    <3>3. CASE v # l /\ \E x : loader' = [loader EXCEPT ![l] = x]
      BY <1>m, <1>w, <3>1, <3>3
    <3>4. CASE v = l /\ server' = [server EXCEPT !.rows = R]
      <4>1. u = t /\ k = p
        BY <1>a, <1>j, <3>1, <3>4
      <4>2. R[t] = server.rows[t] \cup {p}
        <5> HIDE DEF u, k
        <5> QED
          BY <4>1 DEF ServerRecord
      <4> HIDE DEF R
      <4>3. server'.rows = R
        BY <3>4 DEF ServerRecord
      <4> QED
        BY <4>2, <4>3 DEF InRows
    <3> QED
      BY <2>1, <3>2, <3>3, <3>4
  <2> QED
    BY <2>2, <2>3
<1>5. CASE ReleaseTable(l)
  <2>1. z = q /\ loader[l].pc = "release" /\ \E x : loader' = [loader EXCEPT ![l] = x]
    BY <1>5 DEF ReleaseTable, q, z
  <2> QED
    BY <1>o, <1>q, <2>1
<1> QED
  BY <1>1, <1>2, <1>3, <1>4, <1>5 DEF LoaderStep

LEMMA PartsByDispatcher ==
    ASSUME LoadInv, Gives, NEW t \in Tables, NEW p, InList(t, p) \/ InQueue(t, p)
    PROVE  InList(t, p)' \/ InQueue(t, p)'
<1> DEFINE q == data_job_queue
           z == data_job_queue'
           j == DataJob(t, p)
<1>q. /\ InQueue(t, p) <=> Items(q, {j}) > 0
      /\ InQueue(t, p)' <=> Items(z, {j}) > 0
      /\ InList(t, p) <=> p \in dbt[t].restore_job_list
      /\ InList(t, p)' <=> p \in dbt'[t].restore_job_list
  BY DEF InQueue, InList
<1>w. TablesOK /\ q \in Seq(DataJobs) /\ Items(q, {j}) \in Nat
  BY CountsNat DEF LoadInv, JobsOK
<1>p. \A x \in DataJobs : Append(q, x) \in Seq(DataJobs)
          /\ \A P : Items(Append(q, x), P) = IF x \in P THEN Items(q, P) + 1 ELSE Items(q, P)
  <2> HIDE DEF q
  <2> QED
    BY <1>w, ItemsPush
<1> HIDE DEF q, z
<1>1. ASSUME NEW u \in Tables, GivesJob(u) PROVE InList(t, p)' \/ InQueue(t, p)'
  <2> DEFINE k == NextPart(dbt[u])
             x == DataJob(u, k)
  <2>1. /\ HasJob(u, dbt[u]) /\ z = Append(q, x)
        /\ dbt'[u].restore_job_list = dbt[u].restore_job_list \ {k}
        /\ \A v \in Tables \ {u} : dbt'[v].restore_job_list = dbt[v].restore_job_list
    BY <1>1 DEF GivesJob, q, z
  <2>2. k \in 1 .. Parts[u] /\ Parts[u] \in Nat
    BY <1>w, <2>1, NextPartGiven
  <2> HIDE DEF k, j
  <2>3. x \in DataJobs
    BY <2>2, JobsShape
  <2>4. Items(z, {j}) = IF x = j THEN Items(q, {j}) + 1 ELSE Items(q, {j})
    <3> HIDE DEF x
    <3> QED
      BY <1>p, <2>1, <2>3
  <2>5. u = t /\ k = p => x = j
    BY DEF j
  <2> HIDE DEF x
  <2> QED
    BY <1>q, <1>w, <2>1, <2>4, <2>5
<1>2. CASE GivesEnd
  <2> DEFINE x == DataJob("PROCESS_ENDED", 0)
  <2>1. z = Append(q, x) /\ dbt'[t].restore_job_list = dbt[t].restore_job_list /\ x \in DataJobs
    BY <1>2, JobsShape DEF GivesEnd, ListsStay, q, z
  <2> HIDE DEF x, j
  <2>2. Items(q, {j}) > 0 => Items(z, {j}) > 0
    BY <1>p, <1>w, <2>1
  <2> QED
    BY <1>q, <1>w, <2>1, <2>2
<1>3. CASE GivesNone
  BY <1>3, <1>q DEF GivesNone, ListsStay, q, z
<1> QED
  BY <1>1, <1>2, <1>3 DEF Gives

LEMMA PartsNext ==
    ASSUME PartsOK, FilesOK, SchemaOK, IndexOK, LoadInv, server \in ServerRecord,
           \A u \in Tables : Moves(u), \A u \in Tables : server.rows[u] \subseteq server'.rows[u],
           [Next]_vars
    PROVE  PartsOK'
<1>o. options' = options /\ options.tables \in SUBSET Tables
  BY OptionsStay, ModeShape DEF FilesOK
<1>s. ASSUME NEW t \in Tables, NEW p, Somewhere(t, p) PROVE Somewhere(t, p)' \/ dbt'[t].no_data
  <2> DEFINE early == InFiles(t, p) \/ InHands(t, p)
             late == InQueue(t, p) \/ InLoad(t, p)
  <2>r. InRows(t, p) => InRows(t, p)'
    BY DEF InRows
  <2>e. ASSUME files' = files, file_worker' = file_worker
        PROVE  early => InFiles(t, p)' \/ InHands(t, p)'
    BY <2>e DEF InFiles, InHands, Holds
  <2>q. ASSUME data_job_queue' = data_job_queue PROVE InQueue(t, p) => InQueue(t, p)'
    BY <2>q DEF InQueue
  <2>d. ASSUME loader' = loader PROVE InLoad(t, p) => InLoad(t, p)'
    BY <2>d DEF InLoad
  <2>l. ASSUME dbt'[t].restore_job_list = dbt[t].restore_job_list PROVE InList(t, p) => InList(t, p)'
    BY <2>l DEF InList
  <2>f. Somewhere(t, p)' <=> \/ InFiles(t, p)' \/ InHands(t, p)' \/ InList(t, p)' \/ InQueue(t, p)'
                             \/ InLoad(t, p)' \/ InRows(t, p)'
    BY DEF Somewhere
  <2>g. InFiles(t, p) \/ InHands(t, p) \/ InList(t, p) \/ InQueue(t, p) \/ InLoad(t, p) \/ InRows(t, p)
    BY <1>s DEF Somewhere
  <2>1. ASSUME NEW w \in FileWorkers, FileStep(w) PROVE Somewhere(t, p)' \/ dbt'[t].no_data
    BY <2>1, <2>d, <2>f, <2>g, <2>q, <2>r, FileFrame, PartsByFile
  <2>2. ASSUME NEW l \in Loaders, LoaderStep(l) PROVE Somewhere(t, p)'
    <3>1. dbt'[t].restore_job_list = dbt[t].restore_job_list
      BY <2>2, LoaderStates DEF ListsStay
    <3> QED
      BY <2>2, <2>e, <2>f, <2>g, <2>l, <2>r, <3>1, LoaderFrame, PartsByLoader
  <2>3. CASE DispatcherStep
    <3>1. Gives
      BY <2>3, DispatcherStates
    <3> QED
      BY <2>3, <2>d, <2>e, <2>f, <2>g, <2>r, <3>1, DispatcherFrame, PartsByDispatcher
  <2>4. CASE \/ wait_file_type_to_complete \/ UNCHANGED vars \/ MainStep
             \/ \E w \in SchemaWorkers : SchemaStep(w)
             \/ \E i \in IndexWorkers : IndexStep(i)
    <3>1. /\ files' = files /\ file_worker' = file_worker /\ loader' = loader
          /\ data_job_queue' = data_job_queue
      BY <2>4, FilesEndFrame, MainFrame, SchemaFrame, IndexFrame DEF vars, fileVars, loaderVars
    <3>2. dbt'[t].restore_job_list = dbt[t].restore_job_list
      BY <2>4, FilesEndFrame, MainStates, SchemaStates, IndexStates DEF ListsStay, vars, tableVars
    <3> QED
      BY <2>d, <2>e, <2>f, <2>g, <2>l, <2>q, <2>r, <3>1, <3>2
  <2> QED
    BY <2>1, <2>2, <2>3, <2>4 DEF Next
<1>1. ASSUME NEW t \in options.tables, NEW p \in 1 .. Parts[t], ~dbt'[t].no_data
      PROVE  Somewhere(t, p)'
  <2>1. t \in Tables /\ ~dbt[t].no_data
    BY <1>1, <1>o, NeverBack
  <2>2. Somewhere(t, p)
    BY <1>1, <2>1 DEF PartsOK
  <2> QED
    BY <1>1, <1>s, <2>1, <2>2
<1> QED
  BY <1>1, <1>o DEF PartsOK

-----------------------------------------------------------------------------
(* What the dispatcher concludes is so *)

LEMMA UnnamedNext ==
    ASSUME UnnamedOK, FilesOK, [Next]_vars
    PROVE  UnnamedOK'
<1>o. options' = options
  BY OptionsStay
<1>k. \A t, p : /\ File("data", t, p).kind = "data" /\ File("data", t, p).of = t
                /\ File("table", t, 0).kind = "table" /\ File("table", t, 0).of = t
                /\ File("sequence", t, 0).kind = "sequence" /\ File("sequence", t, 0).of = t
  BY DEF File
<1>h. ASSUME table_hash \subseteq table_hash',
             NEW f, files' = files \ {f}, f.kind = "database" \/ f.of \in table_hash'
      PROVE  UnnamedOK'
  BY <1>h, <1>k, <1>o DEF UnnamedOK
<1>s. ASSUME files' = files, table_hash \subseteq table_hash' PROVE UnnamedOK'
  BY <1>o, <1>s DEF UnnamedOK
<1>1. ASSUME NEW w \in FileWorkers, FileStep(w) PROVE UnnamedOK'
  <2>1. CASE process_database_filename(w)
    BY <1>h, <2>1 DEF process_database_filename, tableVars
  <2>2. CASE process_schema_sequence_filename(w)
    BY <1>h, <2>2 DEF process_schema_sequence_filename
  <2>3. CASE append_new_db_table(w)
    <3>1. \E f \in files : files' = files \ {f} /\ table_hash' = table_hash \cup {f.of}
      BY <2>3 DEF append_new_db_table
    <3> QED
      BY <1>h, <3>1
  <2>4. CASE CheckParsed(w) \/ parse_create_table_from_file(w) \/ process_data_filename(w)
             \/ WakeAfterFile(w) \/ FileWorkerEnds(w)
    BY <1>s, <2>4 DEF CheckParsed, parse_create_table_from_file, process_data_filename,
                      WakeAfterFile, FileWorkerEnds, tableVars
  <2> QED
    BY <1>1, <2>1, <2>2, <2>3, <2>4 DEF FileStep
<1>2. ASSUME ~\E w \in FileWorkers : FileStep(w) PROVE UnnamedOK'
  BY <1>2, <1>s, FilesEndFrame, SchemaFrame, DispatcherFrame, LoaderFrame, IndexFrame, MainFrame
     DEF Next, vars, fileVars, tableVars
<1> QED
  BY <1>1, <1>2

LEMMA AllFilesTaken ==
    ASSUME EndedOK, main # "schema"
    PROVE  files = {} /\ \A w \in FileWorkers : file_worker[w].pc = "left"
<1>1. FileWorkers # {}
  BY FiniteAssumption
<1> QED
  BY <1>1 DEF EndedOK

LEMMA AllLoaded ==
    ASSUME LoadInv, PartsOK, RowsOK, FilesOK, EndedOK, all_jobs_are_enqueued,
           NEW t \in options.tables, DataIsDone(dbt[t]), ~dbt[t].no_data
    PROVE  server.rows[t] = 1 .. Parts[t]
<1>t. t \in Tables
  BY ModeShape DEF FilesOK
<1>w. JobsOK /\ data_job_queue \in Seq(DataJobs) /\ loader \in [Loaders -> LoaderRecord]
  BY DEF LoadInv, JobsOK
<1>0. files = {} /\ \A w \in FileWorkers : file_worker[w].pc = "left"
  BY AllFilesTaken DEF EndedOK
<1>1. dbt[t].restore_job_list = {} /\ dbt[t].remaining_jobs = 0
  BY DEF DataIsDone
<1>2. /\ Items(data_job_queue, JobsOf(t)) = 0
      /\ Many(Loaders, loader, LoadingAt(t, {"load"})) = 0
  <2>1. /\ Cardinality(dbt[t].restore_job_list) \in Nat
        /\ Items(data_job_queue, JobsOf(t)) \in Nat
        /\ Many(Loaders, loader, LoadingAt(t, {"load"})) \in Nat
    BY <1>t, <1>w, CountsNat, ListFinite DEF LoadInv
  <2>2. dbt[t].remaining_jobs = Cardinality(dbt[t].restore_job_list)
          + Items(data_job_queue, JobsOf(t)) + Many(Loaders, loader, LoadingAt(t, {"load"}))
    BY <1>t DEF LoadInv, CountersOK, CountersAt
  <2> QED
    BY <1>1, <2>1, <2>2
<1>3. ASSUME NEW p \in 1 .. Parts[t] PROVE p \in server.rows[t]
  <2> DEFINE j == DataJob(t, p)
  <2>1. p \in Nat
    BY <1>t, LoaderAssumption
  <2>2. j \in JobsOf(t) /\ j \in DataJobs /\ j.of = t
    BY <1>t, <2>1, JobsShape DEF JobsOf
  <2>3. ~InFiles(t, p) /\ ~InHands(t, p) /\ ~InList(t, p)
    BY <1>0, <1>1 DEF InFiles, InHands, InList, Holds
  <2>4. ~InQueue(t, p)
    <3> HIDE DEF j
    <3>1. \A n \in DOMAIN data_job_queue : data_job_queue[n] \notin JobsOf(t)
      BY <1>2, <1>w, ItemsBound
    <3>2. \A n \in DOMAIN data_job_queue : data_job_queue[n] \notin {j}
      BY <2>2, <3>1
    <3>3. Items(data_job_queue, {j}) = 0
      BY <1>w, <3>2, ItemsBound
    <3> QED
      BY <3>3 DEF InQueue, j
  <2>5. ~InLoad(t, p)
    <3>1. ASSUME NEW l \in Loaders, loader[l] = At("load", j) PROVE FALSE
      <4> HIDE DEF j
      <4>1. loader[l] \in LoadingAt(t, {"load"})
        BY <1>w, <2>2, <3>1 DEF LoadingAt, At
      <4> QED
        BY <1>2, <4>1, FiniteAssumption, ManyBound
    <3> QED
      BY <3>1 DEF InLoad
  <2>6. Somewhere(t, p)
    BY DEF PartsOK
  <2> QED
    BY <2>3, <2>4, <2>5, <2>6 DEF Somewhere, InRows
<1> QED
  BY <1>3, <1>t DEF RowsOK

(* Only the scan of the dispatcher takes a table past CREATED. *)
LEMMA DoneByScan ==
    ASSUME SchemaExact, FilesOK, SchemaOK, IndexOK, IndexJobsOK, LoadInv, [Next]_vars,
           NEW t \in Tables, dbt[t].schema_state \notin DataDone, dbt'[t].schema_state \in DataDone
    PROVE  DispatcherStep /\ DispatchFromList
<1>0. /\ ~TableStays(t) /\ ~StatesStay /\ dbt' # dbt
      /\ dbt'[t].schema_state \notin {"NOT_FOUND", "NOT_CREATED", "CREATING", "CREATED"}
  BY DEF TableStays, StatesStay, DataDone
<1>1. ASSUME NEW w \in FileWorkers, FileStep(w) PROVE FALSE
  BY <1>0, <1>1, FileStates DEF SequenceRead, SchemaRead, Becomes, OthersStay
<1>2. ASSUME NEW w \in SchemaWorkers, SchemaStep(w) PROVE FALSE
  BY <1>0, <1>2, SchemaMoves DEF SchemaMove
<1>3. ASSUME NEW l \in Loaders, LoaderStep(l) PROVE FALSE
  BY <1>0, <1>3, LoaderStates
<1>4. ASSUME NEW i \in IndexWorkers, IndexStep(i) PROVE FALSE
  <2>1. BuildIndex(i) /\ Becomes(index_worker[i].job, "ALL_DONE")
    BY <1>0, <1>4, IndexStates
  <2>2. index_worker[i].pc = "build"
    BY <2>1 DEF BuildIndex
  <2>3. dbt[index_worker[i].job].schema_state \in DataDone
    BY <2>2 DEF IndexJobsOK
  <2>4. t # index_worker[i].job
    BY <2>3
  <2> QED
    BY <1>0, <2>1, <2>4 DEF Becomes, OthersStay
<1>5. ASSUME MainStep PROVE FALSE
  BY <1>0, <1>5, MainStates
<1>6. ASSUME wait_file_type_to_complete \/ UNCHANGED vars PROVE FALSE
  BY <1>0, <1>6, FilesEndFrame DEF vars, tableVars
<1>7. DispatcherStep
  BY <1>1, <1>2, <1>3, <1>4, <1>5, <1>6 DEF Next
<1> QED
  BY <1>0, <1>7, DispatcherStates

LEMMA DoneNext ==
    ASSUME DoneOK, PartsOK, RowsOK, RowsOK', SchemaExact, FilesOK, SchemaOK, IndexOK, IndexJobsOK,
           LoadInv, EndedOK, \A u \in Tables : Moves(u),
           \A u \in Tables : server.rows[u] \subseteq server'.rows[u], [Next]_vars
    PROVE  DoneOK'
<1>1. ASSUME NEW t \in Tables, dbt'[t].schema_state \in DataDone, ~dbt'[t].no_data
      PROVE  server'.rows[t] = 1 .. Parts[t]
  <2>0. ~dbt[t].no_data
    BY <1>1, NeverBack
  <2>1. CASE dbt[t].schema_state \in DataDone
    BY <2>0, <2>1 DEF DoneOK, RowsOK
  <2>2. CASE dbt[t].schema_state \notin DataDone
    <3>1. DispatcherStep /\ DispatchFromList
      BY <1>1, <2>2, DoneByScan
    <3>2. ScanStates /\ all_jobs_are_enqueued
      BY <3>1, DispatcherStates, FromList
    <3>3. ~TableStays(t)
      BY <1>1, <2>2 DEF TableStays
    <3>4. t \in Visited /\ (DataIsDone(dbt[t]) \/ IsSkipped(dbt[t]))
      BY <3>2, <3>3, ScanMoves
    <3>5. DataIsDone(dbt[t]) /\ t \in options.tables
      BY <2>0, <3>4 DEF IsSkipped, Visited, FilesOK
    <3>6. server.rows[t] = 1 .. Parts[t]
      BY <2>0, <3>2, <3>5, AllLoaded
    <3> QED
      BY <3>6 DEF RowsOK
  <2> QED
    BY <2>1, <2>2
<1> QED
  BY <1>1 DEF DoneOK

LEMMA DispatcherMoves ==
    ASSUME DispatcherStep
    PROVE  /\ dispatcher # "left"
           /\ dispatcher' \in {"join", "left"} => dispatcher = "join" \/ (DispatchFromList /\ ScanEnds)
<1>1. CASE wake_threads_waiting \/ DispatchReady \/ DispatchLater \/ Sleep \/ FileTypeEnded
           \/ DispatcherEnds
  BY <1>1 DEF wake_threads_waiting, DispatchReady, DispatchLater, Sleep, FileTypeEnded,
              DispatcherEnds, Control
<1>2. CASE DispatchFromList
  BY <1>2, FromList DEF Control, ScanGives, ScanWaits
<1> QED
  BY <1>1, <1>2 DEF DispatcherStep

LEMMA DispatcherSame ==
    ASSUME [Next]_vars
    PROVE  dispatcher' = dispatcher \/ DispatcherStep
  BY FileFrame, FilesEndFrame, SchemaFrame, LoaderFrame, IndexFrame, MainFrame
     DEF Next, vars, dispatchVars

LEMMA HashSame ==
    ASSUME [Next]_vars, ~\E w \in FileWorkers : FileStep(w)
    PROVE  table_hash' = table_hash
  BY FilesEndFrame, SchemaFrame, DispatcherFrame, LoaderFrame, IndexFrame, MainFrame
     DEF Next, vars, tableVars

LEMMA FinishNext ==
    ASSUME FinishOK, EndedOK, ControlOK, FilesOK, LoadInv, \A u \in Tables : Moves(u), [Next]_vars
    PROVE  FinishOK'
<1>h. table_hash \subseteq Tables
  BY ModeShape DEF FilesOK
<1>1. ASSUME dispatcher \in {"join", "left"}
      PROVE  FinishOK'
  <2>1. main # "schema"
    BY <1>1 DEF EndedOK
  <2>2. table_hash' = table_hash
    BY <2>1, EndedFile, HashSame
  <2>3. ASSUME NEW t \in table_hash PROVE VotesForFinish(t, dbt'[t])
    <3>1. VotesForFinish(t, dbt[t]) /\ Moves(t)
      BY <1>1, <1>h, <2>3 DEF FinishOK
    <3>2. CASE dbt[t].schema_state \in DataDone
      BY <1>h, <2>3, <3>1, <3>2, NeverBack DEF VotesForFinish
    <3>3. CASE t \in SequenceObjects /\ dbt[t].schema_state = "CREATED"
      BY <3>1, <3>3 DEF VotesForFinish, Moves, TableStays, SchemaMove, DataDone
    <3> QED
      BY <3>1, <3>2, <3>3 DEF VotesForFinish
  <2> QED
    BY <2>2, <2>3 DEF FinishOK
<1>2. ASSUME dispatcher \notin {"join", "left"}, dispatcher' \in {"join", "left"}
      PROVE  FinishOK'
  <2>1. DispatcherStep /\ DispatchFromList /\ ScanEnds
    BY <1>2, DispatcherSame, DispatcherMoves
  <2>2. table_hash' = table_hash /\ dbt' = Scanned
    BY <2>1, DispatcherFrame DEF ScanEnds
  <2>3. \A t \in table_hash : VotesForFinish(t, Scanned[t])
    BY <2>1 DEF ScanEnds, Giveup
  <2> QED
    BY <2>2, <2>3 DEF FinishOK
<1> QED
  BY <1>1, <1>2 DEF FinishOK

LEMMA IndexTimeNext ==
    ASSUME IndexTimeOK, server \in ServerRecord, server' \in ServerRecord, ServerMoves, IndexOK,
           [Next]_vars
    PROVE  IndexTimeOK'
<1>o. options' = options
  BY OptionsStay
<1>1. dispatcher = "left" => dispatcher' = "left"
  BY DispatcherSame, DispatcherMoves
<1>2. ASSUME NEW i \in IndexWorkers, index_worker'[i].pc = "build", index_worker[i].pc # "build"
      PROVE  options.all_tables => dispatcher = "left"
  <2>1. ASSUME NEW v \in IndexWorkers, IndexStep(v) PROVE options.all_tables => dispatcher = "left"
    <3>1. CASE TakeIndex(v)
      BY <3>1 DEF TakeIndex, IndexMayStart
    <3>2. CASE BuildIndex(v) \/ WakeAfterIndex(v)
      <4>1. \E x \in {[index_worker[v] EXCEPT !.pc = "wake"], At("left", "none"), Idle} :
                index_worker' = [index_worker EXCEPT ![v] = x]
        BY <3>2 DEF BuildIndex, WakeAfterIndex
      <4>2. \A x \in {[index_worker[v] EXCEPT !.pc = "wake"], At("left", "none"), Idle} : x.pc # "build"
        BY DEF IndexOK, At, Idle
      <4> QED
        BY <1>2, <4>1, <4>2 DEF IndexOK
    <3> QED
      BY <2>1, <3>1, <3>2 DEF IndexStep
  <2>2. ASSUME ~\E v \in IndexWorkers : IndexStep(v) PROVE index_worker' = index_worker
    BY <2>2, FileFrame, FilesEndFrame, SchemaFrame, DispatcherFrame, LoaderFrame, MainFrame
       DEF Next, vars, indexVars
  <2> QED
    BY <1>2, <2>1, <2>2
<1>3. ASSUME NEW u \in server'.indexes
      PROVE  u \in server.indexes \/ \E i \in IndexWorkers : index_worker[i].pc = "build"
  <2>1. u \in Tables
    BY <1>3 DEF ServerRecord
  <2>2. ServerMove(u)
    BY <2>1 DEF ServerMoves
  <2> QED
    BY <1>3, <2>2 DEF ServerMove, ServerStays, Purged, Made, Loaded, Built
<1> QED
  BY <1>1, <1>2, <1>3, <1>o DEF IndexTimeOK

LEMMA DataInit == ASSUME Init PROVE DataInv
<1> USE DEF Init
<1>1. \A t, p : p \in 1 .. Parts[t] /\ t \in options.tables => File("data", t, p) \in files
  BY DEF DumpFiles
<1>2. PartsOK
  BY <1>1 DEF PartsOK, Somewhere, InFiles
<1>3. UnnamedOK
  <2>1. \A t \in options.tables : /\ t \in SchemaFiles => File("table", t, 0) \in files
                                  /\ t \in SequenceObjects => File("sequence", t, 0) \in files
    BY DEF DumpFiles
  <2> QED
    BY <1>1, <2>1 DEF UnnamedOK
<1>4. DoneOK
  BY DEF DoneOK, NewTable, DataDone
<1>5. FinishOK
  BY DEF FinishOK
<1>6. IndexTimeOK
  <2>1. server.indexes = {} /\ \A i \in IndexWorkers : index_worker[i].pc = "idle"
    BY DEF Idle, At
  <2> QED
    BY <2>1 DEF IndexTimeOK
<1> QED
  BY <1>2, <1>3, <1>4, <1>5, <1>6 DEF DataInv

LEMMA DataNext ==
    ASSUME ReadOnce, CountInv, StateInv, EndedOK, DataInv, [Next]_vars
    PROVE  DataInv'
<1>1. /\ TypeInv /\ FilesOK /\ SchemaOK /\ ControlOK /\ IndexOK /\ HandsOK /\ LoadInv /\ JobsOK
  BY LoadParts DEF CountInv, TypeInv, LoadInv
<1>2. StateInv' /\ (\A u \in Tables : Moves(u)) /\ ServerMoves
      /\ \A t \in Tables : server.rows[t] \subseteq server'.rows[t]
  BY StateNext
<1>3. SchemaExact /\ IndexJobsOK /\ RowsOK /\ RowsOK' /\ server \in ServerRecord /\ server' \in ServerRecord
  BY <1>2 DEF StateInv, RowsOK
<1>4. PartsOK /\ UnnamedOK /\ DoneOK /\ FinishOK /\ IndexTimeOK
  BY DEF DataInv
<1>5. PartsOK'
  BY <1>1, <1>2, <1>3, <1>4, PartsNext
<1>6. UnnamedOK'
  BY <1>1, <1>4, UnnamedNext
<1>7. DoneOK'
  BY <1>1, <1>2, <1>3, <1>4, DoneNext
<1>8. FinishOK'
  BY <1>1, <1>2, <1>4, FinishNext
<1>9. IndexTimeOK'
  BY <1>1, <1>2, <1>3, <1>4, IndexTimeNext
<1> QED
  BY <1>5, <1>6, <1>7, <1>8, <1>9 DEF DataInv

(* A table reaches INDEX_ENQUEUED or ALL_DONE only with the rows of all of *)
(* its files (DataInv, DoneOK): the dispatcher concludes from two counters *)
(* that a table has its data (enqueue_index_for_dbt_if_possible), and each *)
(* data file is at every moment in one of the places they count, or still  *)
(* in the hands of the file type workers, who have ended by then.  The     *)
(* condition is that no schema file is read twice: the second job would    *)
(* drop rows that were counted.                                            *)
THEOREM DataComplete ==
    Spec /\ [][ReadOnce]_vars => [](CountInv /\ StateInv /\ EndedOK /\ DataInv)
<1> DEFINE Inv == CountInv /\ StateInv /\ EndedOK /\ DataInv
<1>1. Init => Inv
  BY CountInit, StateInit, DataInit
<1>2. Inv /\ [Next]_vars /\ [ReadOnce]_vars => Inv'
  <2>1. CountInv => FilesOK
    BY DEF CountInv, TypeInv
  <2> QED
    BY <2>1, CountNext, StateNext, DataNext, StepReads
<1> QED
  BY <1>1, <1>2, PTL DEF Spec

LEMMA AllDataIn ==
    ASSUME StateInv, EndedOK, DataInv, FilesOK, dispatcher = "left", NEW t \in options.tables
    PROVE  /\ t \in table_hash => VotesForFinish(t, dbt[t])
           /\ dbt[t].no_data \/ server.rows[t] = 1 .. Parts[t]
<1>t. t \in Tables
  BY ModeShape DEF FilesOK
<1>r. server.rows[t] \subseteq 1 .. Parts[t]
  BY <1>t DEF StateInv, RowsOK
<1>v. t \in table_hash => VotesForFinish(t, dbt[t])
  BY DEF DataInv, FinishOK
<1>1. CASE t \notin table_hash
  <2>1. main # "schema"
    BY DEF EndedOK
  <2>2. 1 .. Parts[t] = {}
    BY <1>1, <2>1, AllFilesTaken DEF DataInv, UnnamedOK
  <2> QED
    BY <1>r, <1>v, <2>2
<1>2. CASE dbt[t].schema_state \in DataDone
  BY <1>t, <1>v, <1>2 DEF DataInv, DoneOK
<1>3. CASE t \in SequenceObjects
  <2>1. Parts[t] = 0
    BY <1>3, LoaderAssumption
  <2> QED
    BY <1>r, <1>v, <2>1
<1> QED
  BY <1>1, <1>2, <1>3, <1>v DEF VotesForFinish

(* With optimize_keys_all_tables no index is added before the last row is  *)
(* in (IndexesAfterAllData): index workers take a job only once the        *)
(* dispatcher has left (start_optimize_keys_all_tables), and it leaves     *)
(* only when the scan has found every table done.  The condition is that   *)
(* no schema file is read twice.                                           *)
THEOREM IndexesLast == Spec /\ [][ReadOnce]_vars => []IndexesAfterAllData
<1>1. ASSUME CountInv, StateInv, EndedOK, DataInv PROVE IndexesAfterAllData
  <2>1. FilesOK
    BY <1>1 DEF CountInv, TypeInv
  <2>2. options.all_tables /\ server.indexes # {} => dispatcher = "left"
    BY <1>1 DEF DataInv, IndexTimeOK
  <2> QED
    BY <1>1, <2>1, <2>2, AllDataIn DEF IndexesAfterAllData
<1> QED
  BY <1>1, DataComplete, PTL

-----------------------------------------------------------------------------
(* What the server has at the end *)

LEMMA ReadKept ==
    ASSUME ReadOK, FilesOK, options' = options, files' = files,
           \A w \in FileWorkers : Reading(w) =>
               \/ file_worker'[w] = file_worker[w]
               \/ dbt'[file_worker[w].job.of].schema_state # "NOT_FOUND",
           \A u \in Tables : Moves(u)
    PROVE  ReadOK'
<1>t. options.tables \in SUBSET Tables
  BY ModeShape DEF FilesOK
<1>n. \A u \in Tables : dbt[u].schema_state # "NOT_FOUND" => dbt'[u].schema_state # "NOT_FOUND"
  BY NeverBack
<1>r. \A w \in FileWorkers : file_worker'[w] = file_worker[w] /\ Reading(w) => Reading(w)'
  BY DEF Reading
<1> QED
  BY <1>n, <1>r, <1>t DEF ReadOK

LEMMA ReadFile ==
    ASSUME ReadOK, FilesOK, LoadInv, NEW w \in FileWorkers, FileStep(w), \A u \in Tables : Moves(u)
    PROVE  ReadOK'
<1> DEFINE hands == {"check", "mark"}
<1>o. options' = options
  BY FileFrame
<1>t. options.tables \in SUBSET Tables
  BY ModeShape DEF FilesOK
<1>n. \A u \in Tables : dbt[u].schema_state # "NOT_FOUND" => dbt'[u].schema_state # "NOT_FOUND"
  BY NeverBack
<1>k. \A t : /\ File("table", t, 0).kind = "table" /\ File("table", t, 0).of = t
             /\ File("sequence", t, 0).kind = "sequence" /\ File("sequence", t, 0).of = t
  BY DEF File
<1>a. \A pc, f : At(pc, f).pc = pc /\ At(pc, f).job = f
  BY DEF At
<1>f. ASSUME NEW f, files' = files \ {f}, file_worker' = file_worker,
             f.kind = "database" \/ (f.kind = "sequence" /\ dbt'[f.of].schema_state # "NOT_FOUND")
      PROVE  ReadOK'
  <2>1. \A v \in FileWorkers : Reading(v)' = Reading(v)
    BY <1>f DEF Reading
  <2>2. \A t : File("table", t, 0) \in files => File("table", t, 0) \in files'
    BY <1>f, <1>k
  <2>3. \A t : /\ File("sequence", t, 0) \in files
               /\ File("sequence", t, 0) \notin files'
               => dbt'[t].schema_state # "NOT_FOUND"
    BY <1>f, <1>k
  <2> QED
    BY <1>f, <1>n, <1>o, <1>t, <2>1, <2>2, <2>3 DEF ReadOK
<1>s. \/ /\ StatesStay /\ ~process_schema_sequence_filename(w)
         /\ ~parse_create_table_from_file(w)
      \/ \E t \in Tables : process_schema_sequence_filename(w) /\ SequenceRead(t)
      \/ \E t \in Tables : parse_create_table_from_file(w) /\ SchemaRead(w, t)
  BY FileStates
<1>x. ~(process_schema_sequence_filename(w) /\ parse_create_table_from_file(w))
  <2>1. process_schema_sequence_filename(w) => file_worker[w].pc = "idle"
    BY DEF process_schema_sequence_filename
  <2>2. parse_create_table_from_file(w) => file_worker[w].pc = "mark"
    BY DEF parse_create_table_from_file
  <2> QED
    BY <2>1, <2>2
<1>1. CASE process_database_filename(w)
  BY <1>1, <1>f DEF process_database_filename
<1>2. CASE process_schema_sequence_filename(w)
  <2>1. PICK t \in Tables : SequenceRead(t)
    BY <1>2, <1>s, <1>x
  <2>2. /\ files' = files \ {File("sequence", t, 0)} /\ file_worker' = file_worker
        /\ dbt'[t].schema_state # "NOT_FOUND"
    BY <2>1 DEF SequenceRead, Becomes
  <2> QED
    BY <1>f, <1>k, <2>2
<1>3. CASE append_new_db_table(w)
  <2>1. PICK f \in files : /\ files' = files \ {f} /\ file_worker[w].pc = "idle"
                           /\ file_worker' = [file_worker EXCEPT ![w] =
                                 IF f.kind = "table"
                                    \/ (f.of \notin table_hash /\ ~options.target_db /\ f.of \in SchemaFiles)
                                 THEN At("check", f) ELSE At("add", f)]
                           /\ f.kind \in {"table", "data"}
    BY <1>3 DEF append_new_db_table
  <2>2. \A v \in FileWorkers : v # w => file_worker'[v] = file_worker[v]
    BY <2>1 DEF FilesOK
  <2>3. f.kind = "table" => file_worker'[w].pc = "check" /\ file_worker'[w].job = f
    BY <1>a, <2>1 DEF FilesOK
  <2>4. \A v \in FileWorkers : Reading(v) => v # w /\ Reading(v)'
    BY <2>1, <2>2 DEF Reading
  <2>5. ASSUME NEW t \in options.tables \cap SchemaFiles, File("table", t, 0) \in files,
               File("table", t, 0) \notin files'
        PROVE  Reading(w)' /\ file_worker'[w].job.of = t
    <3>1. f = File("table", t, 0)
      BY <2>1, <2>5
    <3> QED
      BY <1>k, <2>3, <3>1 DEF Reading
  <2>6. \A t : File("sequence", t, 0) \in files => File("sequence", t, 0) \in files'
    BY <1>k, <2>1
  <2>7. \A v \in FileWorkers : Reading(v) => file_worker'[v].job.of = file_worker[v].job.of
    BY <2>2, <2>4
  <2> QED
    BY <1>n, <1>o, <1>t, <2>4, <2>5, <2>6, <2>7 DEF ReadOK
<1>4. CASE CheckParsed(w)
  <2> DEFINE f == file_worker[w].job
  <2>1. /\ file_worker[w].pc = "check" /\ files' = files /\ dbt' = dbt
        /\ file_worker' = [file_worker EXCEPT ![w] = IF NotParsed(f.of) THEN At("mark", f) ELSE AfterSchema(f)]
    BY <1>4 DEF CheckParsed, tableVars
  <2>2. \A v \in FileWorkers : v # w => file_worker'[v] = file_worker[v]
    BY <2>1 DEF FilesOK
  <2>3. \/ file_worker'[w].pc = "mark" /\ file_worker'[w].job = f
        \/ dbt'[f.of].schema_state # "NOT_FOUND"
    BY <1>a, <2>1 DEF FilesOK, NotParsed
  <2>4. ASSUME NEW v \in FileWorkers, Reading(v)
        PROVE  \/ Reading(v)' /\ file_worker'[v].job = file_worker[v].job
               \/ dbt'[file_worker[v].job.of].schema_state # "NOT_FOUND"
    BY <2>2, <2>3, <2>4 DEF Reading
  <2> QED
    BY <1>n, <1>o, <1>t, <2>1, <2>4 DEF ReadOK
<1>5. CASE parse_create_table_from_file(w)
  <2>1. PICK t \in Tables : SchemaRead(w, t)
    BY <1>5, <1>s, <1>x
  <2>2. /\ files' = files /\ file_worker[w].job.of = t /\ dbt'[t].schema_state = "NOT_CREATED"
        /\ \A v \in FileWorkers : v # w => file_worker'[v] = file_worker[v]
    BY <2>1 DEF SchemaRead, Becomes, FilesOK
  <2>3. ASSUME NEW v \in FileWorkers, Reading(v)
        PROVE  \/ file_worker'[v] = file_worker[v]
               \/ dbt'[file_worker[v].job.of].schema_state # "NOT_FOUND"
    BY <2>2
  <2> QED
    BY <1>o, <2>2, <2>3, ReadKept
<1>6. CASE process_data_filename(w) \/ WakeAfterFile(w) \/ FileWorkerEnds(w)
  <2>1. /\ files' = files /\ ~Reading(w)
        /\ \E x : file_worker' = [file_worker EXCEPT ![w] = x]
    BY <1>6 DEF process_data_filename, WakeAfterFile, FileWorkerEnds, Reading
  <2>2. \A v \in FileWorkers : v # w => file_worker'[v] = file_worker[v]
    BY <2>1 DEF FilesOK
  <2> QED
    BY <1>o, <2>1, <2>2, ReadKept
<1> QED
  BY <1>1, <1>2, <1>3, <1>4, <1>5, <1>6 DEF FileStep

LEMMA ReadNext ==
    ASSUME ReadOK, FilesOK, LoadInv, \A u \in Tables : Moves(u), [Next]_vars
    PROVE  ReadOK'
<1>1. CASE \E w \in FileWorkers : FileStep(w)
  BY <1>1, ReadFile
<1>2. CASE ~\E w \in FileWorkers : FileStep(w)
  <2>1. files' = files /\ file_worker' = file_worker /\ options' = options
    BY <1>2, FilesEndFrame, SchemaFrame, DispatcherFrame, LoaderFrame, IndexFrame, MainFrame
       DEF Next, vars, fileVars
  <2> QED
    BY <2>1, ReadKept
<1> QED
  BY <1>1, <1>2

(* A table that has a schema file is never taken to be on the server.      *)
LEMMA NotTaken ==
    ASSUME ReadOK, FilesOK, EndedOK, wait_schema_worker_to_finish,
           NEW t \in table_hash, dbt[t].schema_state = "NOT_FOUND"
    PROVE  t \notin SchemaFiles /\ t \notin SequenceObjects
<1>1. \A w \in FileWorkers : file_worker[w].pc = "left"
  BY DEF EndedOK, wait_schema_worker_to_finish
<1>2. files = {}
  BY <1>1, FiniteAssumption DEF EndedOK
<1>3. t \in options.tables
  BY DEF FilesOK
<1> QED
  BY <1>1, <1>2, <1>3 DEF ReadOK, Reading

LEMMA TableMade ==
    ASSUME server \in ServerRecord, NEW w \in SchemaWorkers, NEW u \in Tables,
           RestoreSequence(w) \/ CreateTable(w), ~Halts, schema_worker[w].job = u
    PROVE  u \in server'.tables
<1>1. CASE RestoreSequence(w)
  <2>1. Halts \/ server' = [server EXCEPT !.tables = @ \cup {u}]
    BY <1>1 DEF RestoreSequence, Halts
  <2> QED
    BY <2>1 DEF ServerRecord
<1>2. CASE CreateTable(w)
  <2>1. Halts \/ server' = [server EXCEPT !.tables = @ \cup {u}]
    BY <1>2 DEF CreateTable, Halts
  <2> QED
    BY <2>1 DEF ServerRecord
<1> QED
  BY <1>1, <1>2

(* Where a table comes from when it is seen as created for the first time. *)
LEMMA CreatedBy ==
    ASSUME NEW t \in Tables, Moves(t), t \in SchemaFiles \cup SequenceObjects,
           ReadOK, FilesOK, EndedOK,
           dbt[t].schema_state \in BeforeCreated, dbt'[t].schema_state \notin BeforeCreated
    PROVE  \E w \in SchemaWorkers :
               /\ SchemaStep(w)
               /\ RestoreSequence(w) \/ CreateTable(w)
               /\ HasTable(w, {"sequence", "create", "created"}, t)
               /\ Created(w, t) /\ ~Halts
<1>1. ~TableStays(t)
  BY DEF TableStays
<1>2. dbt[t].schema_state = "NOT_FOUND" => ~(wait_schema_worker_to_finish /\ t \in table_hash)
  BY NotTaken
<1>3. /\ dbt'[t].schema_state # "NOT_CREATED" /\ dbt[t].schema_state \notin DataDone
      /\ dbt[t].schema_state # "CREATED" /\ dbt'[t].schema_state # "CREATING"
  BY DEF BeforeCreated, DataDone
<1>4. \E w \in SchemaWorkers : SchemaStep(w) /\ SchemaMove(w, t)
  BY <1>1, <1>2, <1>3 DEF Moves
<1> QED
  BY <1>3, <1>4 DEF SchemaMove

(* Only an index worker takes a table from INDEX_ENQUEUED to ALL_DONE. *)
LEMMA IndexedByBuild ==
    ASSUME SchemaExact, FilesOK, SchemaOK, IndexOK, LoadInv, [Next]_vars, NEW t \in Tables,
           dbt[t].schema_state = "INDEX_ENQUEUED", dbt'[t].schema_state = "ALL_DONE"
    PROVE  \E i \in IndexWorkers : BuildIndex(i) /\ index_worker[i].job = t
<1>0. ~TableStays(t) /\ ~StatesStay /\ dbt' # dbt
  BY DEF TableStays, StatesStay
<1>1. ASSUME NEW w \in FileWorkers, FileStep(w) PROVE FALSE
  BY <1>0, <1>1, FileStates DEF SequenceRead, SchemaRead, Becomes, OthersStay
<1>2. ASSUME NEW w \in SchemaWorkers, SchemaStep(w) PROVE FALSE
  BY <1>0, <1>2, SchemaMoves DEF SchemaMove
<1>3. ASSUME NEW l \in Loaders, LoaderStep(l) PROVE FALSE
  BY <1>0, <1>3, LoaderStates
<1>4. ASSUME NEW i \in IndexWorkers, IndexStep(i) PROVE BuildIndex(i) /\ index_worker[i].job = t
  <2>1. BuildIndex(i) /\ Becomes(index_worker[i].job, "ALL_DONE")
    BY <1>0, <1>4, IndexStates
  <2> QED
    BY <1>0, <2>1 DEF Becomes, OthersStay
<1>5. ASSUME MainStep PROVE FALSE
  BY <1>0, <1>5, MainStates
<1>6. ASSUME wait_file_type_to_complete \/ UNCHANGED vars PROVE FALSE
  BY <1>0, <1>6, FilesEndFrame DEF vars, tableVars
<1>7. ASSUME DispatcherStep PROVE FALSE
  <2>1. DispatchFromList /\ ScanStates
    BY <1>0, <1>7, DispatcherStates
  <2> QED
    BY <1>0, <2>1, ScanMoves
<1> QED
  BY <1>1, <1>2, <1>3, <1>4, <1>5, <1>6, <1>7 DEF Next

(* A table that is purged is CREATING and stays so. *)
LEMMA PurgedCreating ==
    ASSUME SchemaExact, SchemaOK, NEW w \in SchemaWorkers, NEW t \in Tables, Purged(w, t)
    PROVE  dbt[t].schema_state = "CREATING" /\ dbt' = dbt
<1>1. HasTable(w, {"sequence", "table", "create", "created"}, t)
  BY DEF Purged, HasTable
<1>2. MakingOf(t) >= 1 /\ MakingOf(t) = IF dbt[t].schema_state = "CREATING" THEN 1 ELSE 0
  BY <1>1, MakingShape, ExactValues DEF SchemaOK, SchemaWorkersOK
<1>3. dbt' = dbt
  BY DEF Purged, PurgeTable, tableVars
<1> QED
  BY <1>2, <1>3

LEMMA BuiltIndex ==
    ASSUME server \in ServerRecord, NEW i \in IndexWorkers, BuildIndex(i),
           NEW t \in Tables, index_worker[i].job = t, ~dbt[t].no_data
    PROVE  t \in server'.indexes
<1>1. server' = [server EXCEPT !.indexes = @ \cup {t}]
  BY DEF BuildIndex
<1> QED
  BY <1>1 DEF ServerRecord

(* A table becomes skipped by the worker that could not create it. *)
LEMMA SkippedBy ==
    ASSUME LoadInv, SchemaOK, NEW t \in Tables, Moves(t), ~dbt[t].no_data, dbt'[t].no_data
    PROVE  /\ t \in SchemaFiles
           /\ \E w \in SchemaWorkers : SchemaStep(w) /\ SchemaMove(w, t)
<1>1. PICK w \in SchemaWorkers : SchemaStep(w) /\ SchemaMove(w, t)
  BY DEF Moves, TableStays
<1>2. CreateTable(w)
  BY <1>1 DEF SchemaMove
<1>3. /\ schema_worker[w].job \in SchemaFiles
      /\ Halts \/ Created(w, schema_worker[w].job)
  BY <1>1, <1>2, SchemaStates
<1>4. ~Halts /\ ~TableStays(t)
  BY DEF Halts, TableStays
<1>5. schema_worker[w].job = t
  BY <1>3, <1>4 DEF Created, OthersStay
<1> QED
  BY <1>1, <1>3, <1>5

LEMMA ServerOKNext ==
    ASSUME ServerOK, ReadOK, EndedOK, SchemaExact, IndexJobsOK, FilesOK, SchemaOK, IndexOK, LoadInv,
           server \in ServerRecord, server' \in ServerRecord, ServerMoves,
           \A u \in Tables : Moves(u), [Next]_vars
    PROVE  ServerOK'
<1> SUFFICES ASSUME NEW t \in Tables
             PROVE  /\ dbt'[t].schema_state \notin BeforeCreated /\ t \in SchemaFiles \cup SequenceObjects
                          => t \in server'.tables
                    /\ server'.rows[t] # {} => t \in server'.tables
                    /\ dbt'[t].schema_state = "ALL_DONE" /\ t \in Indexed /\ ~dbt'[t].no_data
                          => t \in server'.indexes
                    /\ dbt'[t].no_data => t \in SchemaFiles
  BY DEF ServerOK
<1>m. Moves(t) /\ ServerMove(t)
  BY DEF ServerMoves
<1>o. /\ dbt[t].schema_state \notin BeforeCreated /\ t \in SchemaFiles \cup SequenceObjects
            => t \in server.tables
      /\ server.rows[t] # {} => t \in server.tables
      /\ dbt[t].schema_state = "ALL_DONE" /\ t \in Indexed /\ ~dbt[t].no_data
            => t \in server.indexes
      /\ dbt[t].no_data => t \in SchemaFiles
  BY DEF ServerOK
<1>4. dbt'[t].no_data => t \in SchemaFiles
  BY <1>m, <1>o, SkippedBy
<1>1. CASE \E w \in SchemaWorkers : Purged(w, t)
  <2>1. dbt[t].schema_state = "CREATING" /\ dbt' = dbt
    BY <1>1, PurgedCreating
  <2>2. server'.rows[t] = {}
    BY <1>1 DEF Purged
  <2> QED
    BY <1>4, <2>1, <2>2 DEF BeforeCreated
<1>2. CASE ~\E w \in SchemaWorkers : Purged(w, t)
  <2>1. /\ t \in server.tables => t \in server'.tables
        /\ t \in server.indexes => t \in server'.indexes
        /\ server'.rows[t] # {} /\ server.rows[t] = {} => t \in server'.tables
    BY <1>2, <1>m DEF ServerMove, ServerStays, Made, Loaded, Built
  <2>2. ASSUME dbt'[t].schema_state \notin BeforeCreated, dbt[t].schema_state \in BeforeCreated,
               t \in SchemaFiles \cup SequenceObjects
        PROVE  t \in server'.tables
    <3>1. PICK w \in SchemaWorkers :
             /\ RestoreSequence(w) \/ CreateTable(w)
             /\ HasTable(w, {"sequence", "create", "created"}, t) /\ ~Halts
      BY <1>m, <2>2, CreatedBy
    <3>2. schema_worker[w].job = t
      BY <3>1 DEF HasTable
    <3> QED
      BY <3>1, <3>2, TableMade
  <2>3. ASSUME dbt'[t].schema_state = "ALL_DONE", dbt[t].schema_state # "ALL_DONE", t \in Indexed,
               ~dbt'[t].no_data
        PROVE  t \in server'.indexes
    <3>1. ~dbt[t].no_data
      BY <1>m, <2>3, NeverBack
    <3>2. CASE dbt[t].schema_state \in DataDone
      <4>1. dbt[t].schema_state = "INDEX_ENQUEUED"
        BY <2>3, <3>2 DEF DataDone
      <4>2. PICK i \in IndexWorkers : BuildIndex(i) /\ index_worker[i].job = t
        BY <2>3, <4>1, IndexedByBuild
      <4> QED
        BY <3>1, <4>2, BuiltIndex
    <3>3. CASE dbt[t].schema_state \notin DataDone
      <4>1. DispatcherStep /\ DispatchFromList
        BY <2>3, <3>3, DoneByScan DEF DataDone
      <4>2. ScanStates /\ ~TableStays(t)
        BY <2>3, <4>1, DispatcherStates DEF TableStays
      <4>3. /\ DataIsDone(dbt[t]) \/ IsSkipped(dbt[t])
            /\ DataIsDone(dbt[t]) => dbt'[t].schema_state =
                  IF t \in Indexed THEN "INDEX_ENQUEUED" ELSE "ALL_DONE"
        BY <4>2, ScanMoves
      <4> QED
        BY <2>3, <3>1, <4>3 DEF IsSkipped
    <3> QED
      BY <3>2, <3>3
  <2>4. dbt[t].no_data => dbt'[t].no_data
    BY <1>m, NeverBack
  <2> QED
    BY <1>4, <1>o, <2>1, <2>2, <2>3, <2>4
<1> QED
  BY <1>1, <1>2

-----------------------------------------------------------------------------
(* How index_queue and the index workers move *)

Shutting == main \in {"index", "done"}
IndexDone(i) ==
    /\ index_queue' = index_queue
    /\ \E x : /\ index_worker' = [index_worker EXCEPT ![i] = x] /\ x.pc # "build"
              /\ x.job = "SHUTDOWN" \/ x.pc = "left" => Stopping(i)
    /\ \/ index_worker[i].pc = "build" /\ BuildIndex(i)
       \/ index_worker[i].pc = "wake"
IndexMoves ==
    \/ /\ index_queue' = index_queue /\ index_worker' = index_worker
       /\ main' = main \/ (~Shutting /\ ~Shutting')
    \/ wait_index_worker_to_finish
    \/ wait_worker_loader_main
    \/ /\ DispatchFromList /\ main' = main /\ index_worker' = index_worker
       /\ IndexesDue \in SUBSET Tables /\ index_queue' = index_queue \o InOrder(IndexesDue)
    \/ /\ main' = main
       /\ \E i \in IndexWorkers : TakeIndex(i) \/ IndexDone(i)

LEMMA IndexMovesNext ==
    ASSUME IndexOK, FilesOK, LoadInv, [Next]_vars
    PROVE  IndexMoves
<1>1. ASSUME NEW i \in IndexWorkers, IndexStep(i) PROVE IndexMoves
  <2>0. main' = main
    BY <1>1, IndexFrame
  <2>1. CASE TakeIndex(i)
    BY <2>0, <2>1 DEF IndexMoves
  <2>2. CASE BuildIndex(i)
    <3> DEFINE b == index_worker[i]
               x == [b EXCEPT !.pc = "wake"]
    <3>1. index_queue' = index_queue /\ index_worker' = [index_worker EXCEPT ![i] = x]
      BY <2>2 DEF BuildIndex
    <3>2. b \in IndexRecord /\ b = index_worker[i]
      BY DEF IndexOK, IndexRecord
    <3> HIDE DEF b
    <3>3. x.pc = "wake" /\ x.job = b.job
      BY <3>2 DEF IndexRecord
    <3> HIDE DEF x
    <3>4. x.job = "SHUTDOWN" \/ x.pc = "left" => Stopping(i)
      BY <3>2, <3>3 DEF Stopping
    <3>5. IndexDone(i)
      BY <2>2, <3>1, <3>3, <3>4 DEF IndexDone, BuildIndex
    <3> QED
      BY <2>0, <3>5 DEF IndexMoves
  <2>3. CASE WakeAfterIndex(i)
    <3> DEFINE x == IF index_worker[i].job = "SHUTDOWN" THEN At("left", "none") ELSE Idle
    <3>1. index_queue' = index_queue /\ index_worker' = [index_worker EXCEPT ![i] = x]
          /\ index_worker[i].pc = "wake"
      BY <2>3 DEF WakeAfterIndex, IndexOK
    <3>2. x.pc # "build" /\ (x.job = "SHUTDOWN" \/ x.pc = "left" => Stopping(i))
      BY DEF At, Idle, Stopping
    <3> HIDE DEF x
    <3>w. \E y : /\ index_worker' = [index_worker EXCEPT ![i] = y] /\ y.pc # "build"
                 /\ y.job = "SHUTDOWN" \/ y.pc = "left" => Stopping(i)
      BY <3>1, <3>2, Zenon
    <3>3. IndexDone(i)
      BY <3>1, <3>w, Zenon DEF IndexDone
    <3> QED
      BY <2>0, <3>3 DEF IndexMoves
  <2> QED
    BY <1>1, <2>1, <2>2, <2>3 DEF IndexStep
<1>2. ASSUME DispatcherStep PROVE IndexMoves
  <2>0. index_worker' = index_worker /\ main' = main
    BY <1>2, DispatcherFrame
  <2>1. CASE DispatchFromList
    <3>1. index_queue' = index_queue \o InOrder(IndexesDue)
      BY <2>1, FromList
    <3>2. IndexesDue \in SUBSET Tables
      BY ModeShape DEF FilesOK, IndexesDue, Visited
    <3> QED
      BY <2>0, <2>1, <3>1, <3>2 DEF IndexMoves
  <2>2. CASE ~DispatchFromList
    <3>1. index_queue' = index_queue
      BY <1>2, <2>2, DispatcherStates
    <3> QED
      BY <2>0, <3>1 DEF IndexMoves
  <2> QED
    BY <2>1, <2>2
<1>3. ASSUME MainStep PROVE IndexMoves
  <2>1. CASE wait_schema_worker_to_finish
    <3>1. index_queue' = index_queue /\ index_worker' = index_worker
      BY <2>1 DEF wait_schema_worker_to_finish, indexVars
    <3>2. ~Shutting /\ ~Shutting'
      BY <2>1 DEF wait_schema_worker_to_finish, Shutting
    <3> QED
      BY <3>1, <3>2 DEF IndexMoves
  <2>2. CASE wait_worker_loader_main \/ wait_index_worker_to_finish
    BY <2>2 DEF IndexMoves
  <2> QED
    BY <1>3, <2>1, <2>2 DEF MainStep
<1>4. CASE \/ \E w \in FileWorkers : FileStep(w)
           \/ wait_file_type_to_complete \/ UNCHANGED vars
           \/ \E w \in SchemaWorkers : SchemaStep(w)
           \/ \E l \in Loaders : LoaderStep(l)
  <2>1. index_queue' = index_queue /\ index_worker' = index_worker /\ main' = main
    BY <1>4, FileFrame, FilesEndFrame, SchemaFrame, LoaderFrame DEF vars, indexVars
  <2> QED
    BY <2>1 DEF IndexMoves
<1> QED
  BY <1>1, <1>2, <1>3, <1>4 DEF Next

LEMMA ShutdownNext ==
    ASSUME ShutdownOK, EndedOK, IndexOK, IndexMoves
    PROVE  ShutdownOK'
<1> DEFINE q == index_queue
           r == index_queue'
           T == Indexed \cup {"SHUTDOWN"}
           Off(s, k) == s[k] = "SHUTDOWN"
<1>q. q \in Seq(T) /\ Len(q) \in Nat
  BY DEF IndexOK
<1>s. /\ \A a, b \in 1 .. Len(q) : a < b /\ Off(q, a) => Off(q, b)
      /\ (\E k \in 1 .. Len(q) : Off(q, k)) => Shutting
      /\ \A i \in IndexWorkers : Stopping(i) => Shutting /\ \A k \in 1 .. Len(q) : Off(q, k)
      /\ main = "done" => \A i \in IndexWorkers : index_worker[i].pc = "left"
  BY DEF ShutdownOK, Shutting
<1>p. ASSUME \A a, b \in 1 .. Len(r) : a < b /\ Off(r, a) => Off(r, b),
             (\E k \in 1 .. Len(r) : Off(r, k)) => Shutting',
             \A i \in IndexWorkers : Stopping(i)' => Shutting' /\ \A k \in 1 .. Len(r) : Off(r, k),
             main' = "done" => \A i \in IndexWorkers : index_worker'[i].pc = "left"
      PROVE  ShutdownOK'
  BY <1>p DEF ShutdownOK, Shutting
<1>t. index_worker' = index_worker => \A i : Stopping(i)' <=> Stopping(i)
  BY DEF Stopping
<1>d. main = "done" => Shutting
  BY DEF Shutting
<1> HIDE DEF q, r, T
<1>1. CASE /\ index_queue' = index_queue /\ index_worker' = index_worker
           /\ main' = main \/ (~Shutting /\ ~Shutting')
  <2>1. r = q
    BY <1>1 DEF q, r
  <2>2. (Shutting => Shutting') /\ (main' = "done" => main = "done")
    BY <1>1 DEF Shutting
  <2> QED
    BY <1>1, <1>p, <1>s, <1>t, <2>1, <2>2
<1>2. CASE wait_index_worker_to_finish
  <2>1. r = q /\ index_worker' = index_worker /\ Shutting'
        /\ \A i \in IndexWorkers : index_worker[i].pc = "left"
    BY <1>2 DEF wait_index_worker_to_finish, indexVars, Shutting, q, r
  <2> QED
    BY <1>p, <1>s, <1>t, <2>1
<1>3. CASE wait_worker_loader_main
  <2> DEFINE n == Cardinality(IndexWorkers)
             e == [i \in 1 .. n |-> "SHUTDOWN"]
  <2>1. r = q \o e /\ index_worker' = index_worker /\ ~Shutting /\ Shutting' /\ main' # "done"
    BY <1>3 DEF wait_worker_loader_main, Shutting, q, r
  <2>2. n \in Nat
    BY FiniteAssumption, FS_CardinalityType
  <2> HIDE DEF n
  <2>3. e \in Seq(T) /\ Len(e) = n
    BY <2>2 DEF T
  <2>4. \A k \in 1 .. n : e[k] = "SHUTDOWN"
    OBVIOUS
  <2> HIDE DEF e
  <2>5. Len(r) = Len(q) + n
    <3>1. e \in Seq(T) /\ q \in Seq(T)
      BY <1>q, <2>3
    <3>2. Len(q \o e) = Len(q) + Len(e)
      BY <3>1
    <3>3. r = q \o e
      BY <2>1
    <3> QED
      BY <2>3, <3>2, <3>3
  <2>6. ASSUME NEW k \in 1 .. Len(r)
        PROVE  Off(r, k) <=> k > Len(q)
    <3>1. CASE k <= Len(q)
      <4>1. r[k] = q[k] /\ k \in 1 .. Len(q)
        BY <1>q, <2>1, <2>2, <2>3, <2>5, <3>1
      <4>2. ~Off(q, k)
        BY <1>s, <2>1, <4>1
      <4> QED
        BY <1>q, <2>5, <2>2, <3>1, <4>1, <4>2
    <3>2. CASE k > Len(q)
      <4>1. r[k] = e[k - Len(q)] /\ k - Len(q) \in 1 .. n
        BY <1>q, <2>1, <2>2, <2>3, <2>5, <3>2
      <4> QED
        BY <2>4, <3>2, <4>1
    <3> QED
      BY <1>q, <2>5, <2>2, <3>1, <3>2
  <2>7. \A a, b \in 1 .. Len(r) : a < b /\ Off(r, a) => Off(r, b)
    <3> HIDE DEF Off
    <3> QED
      BY <1>q, <2>2, <2>5, <2>6
  <2>8. \A i \in IndexWorkers : ~Stopping(i)'
    BY <1>s, <1>t, <2>1
  <2> QED
    BY <1>p, <2>1, <2>7, <2>8
<1>4. CASE /\ DispatchFromList /\ main' = main /\ index_worker' = index_worker
           /\ IndexesDue \in SUBSET Tables /\ index_queue' = index_queue \o InOrder(IndexesDue)
  <2> DEFINE e == InOrder(IndexesDue)
             U == T \cup Tables
  <2>1. dispatcher = "pop"
    BY <1>4 DEF DispatchFromList, Control
  <2>2. ~Shutting /\ ~Shutting' /\ main' # "done"
    BY <1>4, <2>1 DEF EndedOK, Shutting
  <2>3. r = q \o e
    BY <1>4 DEF q, r
  <2>4. e \in Seq(Tables)
    <3>1. e \in Seq(IndexesDue)
      BY <1>4, InOrderOK
    <3> QED
      BY <1>4, <3>1
  <2> HIDE DEF e
  <2>5. ASSUME NEW k \in 1 .. Len(r) PROVE ~Off(r, k)
    <3>1. CASE k <= Len(q)
      <4>1. r[k] = q[k] /\ k \in 1 .. Len(q)
        BY <1>q, <2>3, <2>4, <3>1
      <4> QED
        BY <1>s, <2>2, <4>1
    <3>2. CASE k > Len(q)
      <4>1. r[k] = e[k - Len(q)] /\ k - Len(q) \in 1 .. Len(e)
        BY <1>q, <2>3, <2>4, <3>2
      <4>2. r[k] \in Tables
        BY <2>4, <4>1
      <4> QED
        BY <4>2, FiniteAssumption
    <3>3. Len(r) \in Nat
      BY <1>q, <2>3, <2>4
    <3> QED
      BY <1>q, <3>1, <3>2, <3>3
  <2>6. \A i \in IndexWorkers : ~Stopping(i)'
    BY <1>4, <1>s, <1>t, <2>2
  <2> QED
    BY <1>p, <2>2, <2>5, <2>6
<1>5. ASSUME NEW i \in IndexWorkers, TakeIndex(i), main' = main PROVE ShutdownOK'
  <2> DEFINE x == IF Head(q) = "SHUTDOWN" THEN At("wake", "SHUTDOWN") ELSE At("build", Head(q))
  <2>1. q # <<>> /\ r = Tail(q) /\ index_worker' = [index_worker EXCEPT ![i] = x]
        /\ index_worker[i].pc # "left"
    BY <1>5 DEF TakeIndex, q, r
  <2>2. Len(r) = Len(q) - 1 /\ Head(q) = q[1] /\ 1 \in 1 .. Len(q)
    BY <1>q, <2>1
  <2>3. \A k \in 1 .. Len(r) : r[k] = q[k + 1] /\ k + 1 \in 1 .. Len(q) /\ 1 < k + 1
    BY <1>q, <2>1, <2>2
  <2>4. x.pc # "left" /\ (x.job = "SHUTDOWN" <=> Off(q, 1))
    BY <2>2 DEF At
  <2> HIDE DEF x
  <2>5. \A v \in IndexWorkers : index_worker'[v] = IF v = i THEN x ELSE index_worker[v]
    BY <2>1 DEF IndexOK
  <2>6. \A a, b \in 1 .. Len(r) : a < b => a + 1 < b + 1
    BY <1>q, <2>2
  <2>7. \A a, b \in 1 .. Len(r) : a < b /\ Off(r, a) => Off(r, b)
    BY <1>s, <2>3, <2>6
  <2>8. Shutting' = Shutting
    BY <1>5 DEF Shutting
  <2>9. (\E k \in 1 .. Len(r) : Off(r, k)) => Shutting'
    BY <1>s, <2>3, <2>8
  <2>10. ASSUME NEW v \in IndexWorkers, Stopping(v)'
         PROVE  Shutting' /\ \A k \in 1 .. Len(r) : Off(r, k)
    <3>1. CASE v = i
      <4>1. Off(q, 1)
        BY <2>10, <2>4, <2>5, <3>1 DEF Stopping
      <4> QED
        BY <1>s, <2>2, <2>3, <2>8, <4>1
    <3>2. CASE v # i
      <4>1. Stopping(v)
        BY <2>10, <2>5, <3>2 DEF Stopping
      <4> QED
        BY <1>s, <2>3, <2>8, <4>1
    <3> QED
      BY <3>1, <3>2
  <2>11. main' # "done"
    BY <1>5, <1>s, <2>1
  <2> HIDE DEF Off
  <2> QED
    BY <1>p, <2>7, <2>9, <2>10, <2>11
<1>6. ASSUME NEW i \in IndexWorkers, IndexDone(i), main' = main PROVE ShutdownOK'
  <2>1. PICK x : /\ index_worker' = [index_worker EXCEPT ![i] = x]
                 /\ x.job = "SHUTDOWN" \/ x.pc = "left" => Stopping(i)
    BY <1>6 DEF IndexDone
  <2>2. \A v \in IndexWorkers : index_worker'[v] = IF v = i THEN x ELSE index_worker[v]
    BY <2>1 DEF IndexOK
  <2>3. \A v \in IndexWorkers : Stopping(v)' => Stopping(v)
    BY <2>1, <2>2 DEF Stopping
  <2>4. r = q /\ Shutting' = Shutting
    BY <1>6 DEF IndexDone, Shutting, q, r
  <2>5. main' # "done" \/ index_worker[i].pc = "left"
    BY <1>6, <1>s
  <2>6. index_worker[i].pc # "left"
    BY <1>6 DEF IndexDone
  <2> HIDE DEF Off
  <2> QED
    BY <1>p, <1>s, <2>3, <2>4, <2>5, <2>6
<1> QED
  BY <1>1, <1>2, <1>3, <1>4, <1>5, <1>6 DEF IndexMoves

(* A table that is INDEX_ENQUEUED is in index_queue or with a worker. *)
LEMMA QueuedNext ==
    ASSUME QueuedOK, IndexOK, IndexMoves, SchemaExact, FilesOK, SchemaOK, IndexJobsOK, LoadInv,
           \A u \in Tables : Moves(u), [Next]_vars
    PROVE  QueuedOK'
<1> DEFINE q == index_queue
           r == index_queue'
           T == Tables \cup {"SHUTDOWN"}
           Here(u) == Items(q, {u}) > 0 \/ \E i \in IndexWorkers : index_worker[i] = At("build", u)
           There(u) == Items(r, {u}) > 0 \/ \E i \in IndexWorkers : index_worker'[i] = At("build", u)
<1>q. q \in Seq(T)
  BY LoaderAssumption DEF IndexOK
<1> SUFFICES ASSUME NEW t \in Tables, dbt'[t].schema_state = "INDEX_ENQUEUED" PROVE There(t)
  BY DEF QueuedOK
<1>n. Items(q, {t}) \in Nat
  <2> HIDE DEF q, T
  <2> QED
    BY <1>q, ItemsBound
<1>a. At("build", t).pc = "build" /\ At("build", t).job = t
  BY DEF At
<1>c. ASSUME NEW e \in Seq(T), r = q \o e, index_worker' = index_worker
      PROVE  /\ Here(t) => There(t)
             /\ Items(e, {t}) > 0 => There(t)
  <2> HIDE DEF q, r, T
  <2>1. Items(q \o e, {t}) = Items(q, {t}) + Items(e, {t})
    BY <1>q, <1>c, ItemsConcat
  <2>2. Items(e, {t}) \in Nat
    BY <1>c, ItemsBound
  <2>3. Items(r, {t}) >= Items(q, {t}) /\ (Items(e, {t}) > 0 => Items(r, {t}) > 0)
    BY <1>c, <1>n, <2>1, <2>2
  <2>4. Items(q, {t}) > 0 => Items(r, {t}) > 0
    BY <1>n, <2>3, <2>1, <1>c, <2>2
  <2> QED
    BY <1>c, <2>3, <2>4
<1>s. r = q /\ index_worker' = index_worker => (Here(t) => There(t))
  OBVIOUS
<1> HIDE DEF q, r, T
<1>1. CASE dbt[t].schema_state # "INDEX_ENQUEUED"
  <2>1. dbt[t].schema_state \notin DataDone /\ ~TableStays(t)
    <3>1. Moves(t)
      OBVIOUS
    <3>2. dbt[t].schema_state \in DataDone => FALSE
      BY <1>1, <3>1 DEF Moves, TableStays, SchemaMove, DataDone
    <3> QED
      BY <1>1, <3>2 DEF TableStays
  <2>2. DispatcherStep /\ DispatchFromList
    BY <2>1, DoneByScan DEF DataDone
  <2>3. ScanStates /\ index_worker' = index_worker
    BY <2>2, DispatcherStates, DispatcherFrame
  <2>4. t \in IndexesDue
    <3>1. t \in Visited /\ dbt[t].schema_state = "CREATED"
      BY <2>1, <2>3, ScanMoves
    <3>2. Scanned[t].schema_state = "INDEX_ENQUEUED"
      BY <2>3 DEF ScanStates
    <3> QED
      BY <3>1, <3>2 DEF IndexesDue
  <2> DEFINE e == InOrder(IndexesDue)
  <2>5. r = q \o e
    BY <2>2, FromList DEF q, r
  <2>6. IndexesDue \in SUBSET Tables
    BY ModeShape DEF FilesOK, IndexesDue, Visited
  <2>7. e \in Seq(IndexesDue) /\ Items(e, {t}) = 1
    BY <2>4, <2>6, InOrderOK
  <2> HIDE DEF e
  <2>8. e \in Seq(T)
    BY <2>6, <2>7 DEF T
  <2> HIDE DEF There
  <2> QED
    BY <1>c, <2>3, <2>5, <2>7, <2>8
<1>2. CASE dbt[t].schema_state = "INDEX_ENQUEUED"
  <2>h. Here(t)
    BY <1>2 DEF QueuedOK, q
  <2>1. CASE index_queue' = index_queue /\ index_worker' = index_worker
    BY <1>s, <2>1, <2>h DEF q, r
  <2>2. CASE wait_index_worker_to_finish
    BY <1>s, <2>2, <2>h DEF wait_index_worker_to_finish, indexVars, q, r
  <2>3. CASE wait_worker_loader_main
    <3> DEFINE e == [i \in 1 .. Cardinality(IndexWorkers) |-> "SHUTDOWN"]
    <3>1. r = q \o e /\ index_worker' = index_worker
      BY <2>3 DEF wait_worker_loader_main, q, r
    <3>2. e \in Seq(T)
      BY FiniteAssumption, FS_CardinalityType DEF T
    <3> HIDE DEF e, Here, There
    <3> QED
      BY <1>c, <2>h, <3>1, <3>2
  <2>4. CASE /\ DispatchFromList /\ main' = main /\ index_worker' = index_worker
             /\ IndexesDue \in SUBSET Tables /\ index_queue' = index_queue \o InOrder(IndexesDue)
    <3> DEFINE e == InOrder(IndexesDue)
    <3>1. r = q \o e /\ index_worker' = index_worker
      BY <2>4 DEF q, r
    <3>2. e \in Seq(T)
      <4>1. e \in Seq(IndexesDue)
        BY <2>4, InOrderOK
      <4> QED
        BY <2>4, <4>1 DEF T
    <3> HIDE DEF e, Here, There
    <3> QED
      BY <1>c, <2>h, <3>1, <3>2
  <2>5. ASSUME NEW i \in IndexWorkers, TakeIndex(i) PROVE There(t)
    <3>1. q # <<>> /\ r = Tail(q) /\ index_worker[i].pc = "idle"
      BY <2>5 DEF TakeIndex, q, r
    <3>2. Head(q) # "SHUTDOWN" => index_worker'[i] = At("build", Head(q))
      BY <2>5 DEF TakeIndex, IndexOK, q
    <3>3. \A v \in IndexWorkers \ {i} : index_worker'[v] = index_worker[v]
      BY <2>5 DEF TakeIndex, IndexOK
    <3>4. CASE Head(q) = t
      <4>1. t # "SHUTDOWN"
        BY FiniteAssumption
      <4> QED
        BY <3>2, <3>4, <4>1
    <3>5. CASE Head(q) # t
      <4>1. \A P : Items(Tail(q), P) = IF Head(q) \in P THEN Items(q, P) - 1 ELSE Items(q, P)
        BY <1>q, <3>1, ItemsTail
      <4>2. Items(Tail(q), {t}) = Items(q, {t})
        BY <3>5, <4>1
      <4>3. Items(r, {t}) = Items(q, {t})
        BY <3>1, <4>2
      <4>4. \A v \in IndexWorkers : index_worker[v] = At("build", t) => index_worker'[v] = At("build", t)
        BY <1>a, <3>1, <3>3
      <4> QED
        BY <2>h, <4>3, <4>4
    <3> QED
      BY <3>4, <3>5
  <2>6. ASSUME NEW i \in IndexWorkers, IndexDone(i) PROVE There(t)
    <3>1. r = q
      BY <2>6 DEF IndexDone, q, r
    <3>2. \A v \in IndexWorkers \ {i} : index_worker'[v] = index_worker[v]
      BY <2>6 DEF IndexDone, IndexOK
    <3>3. index_worker[i] # At("build", t)
      <4>1. ASSUME index_worker[i] = At("build", t) PROVE FALSE
        <5>1. BuildIndex(i) /\ index_worker[i].job = t
          BY <1>a, <2>6, <4>1 DEF IndexDone
        <5>2. dbt' = [dbt EXCEPT ![t].schema_state = "ALL_DONE"]
          BY <5>1 DEF BuildIndex
        <5>3. dbt'[t].schema_state = "ALL_DONE"
          <6>1. TablesOK
            BY DEF LoadInv
          <6> QED
            BY <5>2, <6>1, StateBecomes DEF Becomes
        <5> QED
          BY <5>3
      <4> QED
        BY <4>1
    <3>4. \A v \in IndexWorkers : index_worker[v] = At("build", t) => index_worker'[v] = At("build", t)
      BY <3>2, <3>3
    <3> QED
      BY <2>h, <3>1, <3>4
  <2> HIDE DEF There, Here
  <2> QED
    BY <2>1, <2>2, <2>3, <2>4, <2>5, <2>6 DEF IndexMoves
<1> QED
  BY <1>1, <1>2

(* With SKIP no step reaches JOB_TO_CREATE_TABLE with a table emptied. *)
LEMMA NoneEmptied ==
    ASSUME SchemaOK, options.purge_mode = "SKIP", [Next]_vars,
           \A w \in SchemaWorkers : schema_worker[w].pc # "created"
    PROVE  \A w \in SchemaWorkers : schema_worker'[w].pc # "created"
<1>w. schema_worker \in [SchemaWorkers -> SchemaRecord]
  BY DEF SchemaOK
<1>1. ASSUME NEW w \in SchemaWorkers, SchemaStep(w)
      PROVE  \A v \in SchemaWorkers : schema_worker'[v].pc # "created"
  <2> DEFINE s == schema_worker[w]
             pcs == {"create", "wake", "left"}
             put == {[s EXCEPT !.pc = c] : c \in pcs}
  <2>s. s \in SchemaRecord
    BY <1>w
  <2>p. \A x \in put : x.pc # "created"
    <3> HIDE DEF s
    <3> QED
      BY <2>s DEF SchemaRecord
  <2>a. ASSUME NEW x, schema_worker' = [schema_worker EXCEPT ![w] = x], x.pc # "created"
        PROVE  \A v \in SchemaWorkers : schema_worker'[v].pc # "created"
    <3>1. \A v \in SchemaWorkers : schema_worker'[v] = IF v = w THEN x ELSE schema_worker[v]
      BY <1>w, <2>a
    <3> QED
      BY <2>a, <3>1
  <2>b. schema_worker' = schema_worker => \A v \in SchemaWorkers : schema_worker'[v].pc # "created"
    OBVIOUS
  <2>c. ASSUME NEW c \in pcs, schema_worker' = [schema_worker EXCEPT ![w].pc = c]
        PROVE  \A v \in SchemaWorkers : schema_worker'[v].pc # "created"
    <3>1. schema_worker' = [schema_worker EXCEPT ![w] = [s EXCEPT !.pc = c]]
      BY <2>c
    <3>2. [s EXCEPT !.pc = c] \in put
      OBVIOUS
    <3> HIDE DEF put, s
    <3> QED
      BY <2>a, <2>p, <3>1, <3>2
  <2> HIDE DEF s, put
  <2>1. CASE PopCreateJob(w)
    <3>1. \E d : schema_worker' = [schema_worker EXCEPT ![w] = At("database", d)]
      BY <2>1 DEF PopCreateJob
    <3>2. \A d : At("database", d).pc # "created"
      BY DEF At
    <3> QED
      BY <2>a, <3>1, <3>2
  <2>2. CASE PopObjectJob(w)
    <3>1. \E c \in {"table", "sequence"} : \E t : schema_worker' = [schema_worker EXCEPT ![w] = At(c, t)]
      BY <2>2 DEF PopObjectJob
    <3>2. \A c \in {"table", "sequence"} : \A t : At(c, t).pc # "created"
      BY DEF At
    <3> QED
      BY <2>a, <3>1, <3>2
  <2>3. CASE CreateDatabase(w) \/ WakeAfterSchema(w)
    <3>1. schema_worker' = [schema_worker EXCEPT ![w] = Idle]
      BY <2>3 DEF CreateDatabase, WakeAfterSchema
    <3>2. Idle.pc # "created"
      BY DEF Idle, At
    <3> QED
      BY <2>a, <3>1, <3>2
  <2>4. CASE PurgeTable(w)
    <3>1. \/ schema_worker' = schema_worker
          \/ schema_worker' = [schema_worker EXCEPT ![w].pc = "create"]
      BY <2>4 DEF PurgeTable
    <3> QED
      BY <2>b, <2>c, <3>1
  <2>5. CASE RestoreSequence(w) \/ PurgeFails(w) \/ CreateTable(w)
    <3>1. \/ schema_worker' = schema_worker
          \/ schema_worker' = [schema_worker EXCEPT ![w].pc = "wake"]
      BY <2>5 DEF RestoreSequence, PurgeFails, CreateTable
    <3> QED
      BY <2>b, <2>c, <3>1
  <2>6. CASE SchemaProcessEnded(w)
    BY <2>b, <2>6 DEF SchemaProcessEnded
  <2>7. CASE SchemaWorkerEnds(w)
    <3>1. schema_worker' = [schema_worker EXCEPT ![w].pc = "left"]
      BY <2>7 DEF SchemaWorkerEnds
    <3> QED
      BY <2>c, <3>1
  <2> QED
    BY <1>1, <2>1, <2>2, <2>3, <2>4, <2>5, <2>6, <2>7 DEF SchemaStep
<1>2. ASSUME ~\E w \in SchemaWorkers : SchemaStep(w)
      PROVE  schema_worker' = schema_worker
  BY <1>2, FileFrame, FilesEndFrame, DispatcherFrame, LoaderFrame, IndexFrame, MainFrame
     DEF Next, vars, schemaVars
<1> QED
  BY <1>1, <1>2

LEMMA SkipNext ==
    ASSUME SkipOK, ReadOK, EndedOK, IndexJobsOK, FilesOK, SchemaOK, LoadInv,
           server \in ServerRecord, ServerMoves, \A u \in Tables : Moves(u), [Next]_vars
    PROVE  SkipOK'
<1>o. options' = options
  BY OptionsStay
<1> SUFFICES ASSUME options.purge_mode = "SKIP" PROVE SkipOK'
  BY <1>o DEF SkipOK
<1>m. PICK m \in Modes : m = options
  BY DEF FilesOK
<1> DEFINE E == m.existing
           J == UnskippedJobs(E)
<1>e. Skipped(E) \subseteq Tables /\ Skipped(E) \subseteq SchemaFiles
      /\ \A t \in Skipped(E) : t \notin SequenceObjects
  BY LoaderAssumption DEF Skipped
<1>s. /\ JobsWithin(J)
      /\ \A w \in SchemaWorkers : schema_worker[w].pc # "created"
      /\ \A t \in Skipped(E) :
            /\ t \in server.tables /\ t \notin server.indexes /\ server.rows[t] = {}
            /\ dbt[t].schema_state \notin BeforeCreated => dbt[t].no_data
  BY <1>m DEF SkipOK
<1> HIDE DEF E
<1>1. JobsWithin(J)'
  <2>1. DataJob("PROCESS_ENDED", 0) \in J
    <3>1. "PROCESS_ENDED" \notin Skipped(E)
      BY <1>e, FiniteAssumption
    <3> QED
      BY <3>1, JobsShape DEF UnskippedJobs, DataJob
  <2>2. ASSUME NEW t \in Tables, HasJob(t, dbt[t]) PROVE DataJob(t, NextPart(dbt[t])) \in J
    <3> DEFINE p == NextPart(dbt[t])
    <3>1. p \in 1 .. Parts[t] /\ p \in Nat
      BY <2>2, NextPartGiven DEF LoadInv
    <3>2. t \notin Skipped(E)
      BY <1>s, <2>2 DEF HasJob, BeforeCreated
    <3> HIDE DEF p
    <3>3. DataJob(t, p) \in DataJobs /\ DataJob(t, p).of = t
      BY <3>1, JobsShape
    <3>4. DataJob(t, p) \in J
      BY <3>2, <3>3 DEF UnskippedJobs
    <3> QED
      BY <3>4 DEF p
  <2> HIDE DEF J
  <2>3. JobsWithin(J)
    BY <1>s DEF J
  <2> QED
    BY <2>1, <2>2, <2>3, WithinNext
<1>2. \A w \in SchemaWorkers : schema_worker'[w].pc # "created"
  BY <1>s, NoneEmptied
<1>3. ASSUME NEW t \in Skipped(E)
      PROVE  /\ t \in server'.tables /\ t \notin server'.indexes /\ server'.rows[t] = {}
             /\ dbt'[t].schema_state \notin BeforeCreated => dbt'[t].no_data
  <2>t. t \in Tables /\ t \in SchemaFiles /\ t \notin SequenceObjects
    BY <1>e
  <2>m. Moves(t) /\ ServerMove(t)
    BY <2>t DEF ServerMoves
  <2>0. /\ t \in server.tables /\ t \notin server.indexes /\ server.rows[t] = {}
        /\ dbt[t].schema_state \notin BeforeCreated => dbt[t].no_data
    BY <1>s
  <2>1. \A w \in SchemaWorkers : ~Purged(w, t)
    BY DEF Purged
  <2>2. ASSUME NEW l \in Loaders, Loaded(l, t) PROVE FALSE
    <3>1. loader[l].job \in J /\ loader[l].job.of = t
      BY <1>s, <2>2 DEF Loaded, JobsWithin
    <3> QED
      BY <3>1 DEF UnskippedJobs
  <2>3. ASSUME NEW i \in IndexWorkers, Built(i, t) PROVE FALSE
    <3>1. dbt[t].schema_state \in DataDone /\ ~dbt[t].no_data
      BY <2>3 DEF Built, IndexJobsOK
    <3> QED
      BY <2>0, <3>1 DEF DataDone, BeforeCreated
  <2>4. t \in server'.tables /\ t \notin server'.indexes /\ server'.rows[t] = {}
    BY <2>0, <2>1, <2>2, <2>3, <2>m DEF ServerMove, ServerStays, Made
  <2>5. ASSUME dbt'[t].schema_state \notin BeforeCreated PROVE dbt'[t].no_data
    <3>1. CASE dbt[t].schema_state \notin BeforeCreated
      BY <2>0, <2>m, <2>t, <3>1, NeverBack
    <3>2. CASE dbt[t].schema_state \in BeforeCreated
      <4>0. ReadOK /\ FilesOK /\ EndedOK /\ Moves(t) /\ t \in SchemaFiles \cup SequenceObjects
        BY <2>m, <2>t
      <4>1. PICK w \in SchemaWorkers :
              /\ SchemaStep(w)
              /\ RestoreSequence(w) \/ CreateTable(w)
              /\ HasTable(w, {"sequence", "create", "created"}, t)
              /\ Created(w, t)
        BY <2>5, <2>t, <3>2, <4>0, CreatedBy
      <4>2. ~RestoreSequence(w)
        BY <2>t, <4>1, SchemaStates DEF HasTable
      <4>3. schema_worker[w].pc = "create"
        BY <1>s, <4>1, <4>2 DEF CreateTable
      <4>4. Skips(w, t)
        BY <2>0, <4>3 DEF Skips
      <4> QED
        BY <4>1, <4>4 DEF Created
    <3> QED
      BY <3>1, <3>2
  <2> QED
    BY <2>4, <2>5
<1>4. JobsWithin(UnskippedJobs(options.existing))'
  BY <1>1, <1>m, <1>o DEF E, JobsWithin, UnskippedJobs, Skipped
<1>5. Skipped(options'.existing) = Skipped(E)
  BY <1>m, <1>o DEF E
<1> QED
  BY <1>2, <1>3, <1>4, <1>5 DEF SkipOK, Skipped

LEMMA EndInit == ASSUME Init PROVE EndInv
<1> USE DEF Init
<1>0. FilesOK /\ options.existing \in SUBSET Tables
  BY CountInit, ModeShape DEF CountInv, TypeInv, FilesOK
<1>d. \A t \in Tables : dbt[t].schema_state = "NOT_FOUND" /\ ~dbt[t].no_data
  BY DEF NewTable
<1>r. server.tables = options.existing /\ server.indexes = {} /\ \A t \in Tables : server.rows[t] = {}
  OBVIOUS
<1>1. ServerOK
  BY <1>d, <1>r DEF ServerOK, BeforeCreated
<1>2. ShutdownOK
  <2>1. \A i \in IndexWorkers : ~Stopping(i)
    BY DEF Idle, At, Stopping
  <2> QED
    BY <2>1 DEF ShutdownOK
<1>3. QueuedOK
  BY <1>d DEF QueuedOK
<1>4. ReadOK
  <2>1. \A t \in options.tables : /\ t \in SchemaFiles => File("table", t, 0) \in files
                                  /\ t \in SequenceObjects => File("sequence", t, 0) \in files
    BY DEF DumpFiles
  <2> QED
    BY <2>1 DEF ReadOK
<1>5. SkipOK
  <2>1. \A J : JobsWithin(J)
    BY DEF JobsWithin, LoaderIdle, At
  <2>2. \A w \in SchemaWorkers : schema_worker[w].pc # "created"
    BY DEF Idle, At
  <2>3. \A t \in Skipped(options.existing) : t \in Tables /\ t \in options.existing
    BY <1>0 DEF Skipped
  <2> QED
    BY <1>d, <1>r, <2>1, <2>2, <2>3 DEF SkipOK, BeforeCreated
<1> QED
  BY <1>1, <1>2, <1>3, <1>4, <1>5 DEF EndInv

LEMMA EndNext ==
    ASSUME ReadOnce, CountInv, StateInv, EndedOK, EndInv, [Next]_vars
    PROVE  EndInv'
<1>1. /\ FilesOK /\ SchemaOK /\ IndexOK /\ LoadInv
  BY LoadParts DEF CountInv, TypeInv, LoadInv
<1>2. StateInv' /\ (\A u \in Tables : Moves(u)) /\ ServerMoves
  BY StateNext
<1>3. SchemaExact /\ IndexJobsOK /\ server \in ServerRecord /\ server' \in ServerRecord
  BY <1>2 DEF StateInv, RowsOK
<1>4. ServerOK /\ ShutdownOK /\ QueuedOK /\ ReadOK /\ SkipOK
  BY DEF EndInv
<1>5. IndexMoves
  BY <1>1, IndexMovesNext
<1>6. ServerOK'
  BY <1>1, <1>2, <1>3, <1>4, ServerOKNext
<1>7. ShutdownOK'
  BY <1>1, <1>4, <1>5, ShutdownNext
<1>8. QueuedOK'
  BY <1>1, <1>2, <1>3, <1>4, <1>5, QueuedNext
<1>9. ReadOK'
  BY <1>1, <1>2, <1>4, ReadNext
<1>10. SkipOK'
  BY <1>1, <1>2, <1>3, <1>4, SkipNext
<1> QED
  BY <1>6, <1>7, <1>8, <1>9, <1>10 DEF EndInv

(* What main has joined by the time it is done. *)
LEMMA AllJoined ==
    ASSUME IndexWorkers # {}, EndedOK, EndInv, IndexOK, main = "done"
    PROVE  /\ files = {} /\ dispatcher = "left"
           /\ \A t \in Tables : dbt[t].schema_state # "INDEX_ENQUEUED"
<1>1. files = {}
  BY AllFilesTaken
<1>2. dispatcher = "left"
  BY DEF EndedOK
<1>3. \A i \in IndexWorkers : index_worker[i].pc = "left"
  BY DEF EndInv, ShutdownOK
<1>4. \A k \in 1 .. Len(index_queue) : index_queue[k] = "SHUTDOWN"
  BY <1>3 DEF EndInv, ShutdownOK, Stopping
<1>5. ASSUME NEW t \in Tables, dbt[t].schema_state = "INDEX_ENQUEUED" PROVE FALSE
  <2>1. \A i \in IndexWorkers : index_worker[i] # At("build", t)
    BY <1>3 DEF At
  <2>2. Items(index_queue, {t}) > 0
    BY <1>5, <2>1 DEF EndInv, QueuedOK
  <2>3. index_queue \in Seq(Indexed \cup {"SHUTDOWN"})
    BY DEF IndexOK
  <2>4. \A n \in DOMAIN index_queue : index_queue[n] \notin {t}
    <3>1. t # "SHUTDOWN"
      BY <1>5, FiniteAssumption
    <3>2. DOMAIN index_queue = 1 .. Len(index_queue)
      BY <2>3
    <3> QED
      BY <1>4, <3>1, <3>2
  <2>5. Items(index_queue, {t}) = 0
    BY <2>3, <2>4, ItemsBound
  <2> QED
    BY <2>2, <2>5
<1> QED
  BY <1>1, <1>2, <1>5

LEMMA RestoredAtEnd ==
    ASSUME IndexWorkers # {}, FilesOK, IndexOK, StateInv, EndedOK, DataInv, EndInv,
           main = "done", NEW t \in options.tables
    PROVE  /\ t \notin SequenceObjects => dbt[t].schema_state = "ALL_DONE"
           /\ t \in server.tables
           /\ t \in Indexed /\ ~dbt[t].no_data => t \in server.indexes
<1>t. t \in Tables /\ options \in Modes
  BY ModeShape DEF FilesOK
<1>j. files = {} /\ dispatcher = "left" /\ dbt[t].schema_state # "INDEX_ENQUEUED"
  BY <1>t, AllJoined
<1>f. t \in SchemaFiles \cup SequenceObjects \/ Parts[t] > 0
  BY <1>t, FilesAssumption
<1>p. Parts[t] \in Nat
  BY <1>t, LoaderAssumption
<1>h. t \in table_hash
  <2>1. ASSUME t \notin table_hash PROVE FALSE
    <3>1. /\ \A p \in 1 .. Parts[t] : File("data", t, p) \in files
          /\ t \notin SchemaFiles /\ t \notin SequenceObjects
      BY <1>j, <2>1 DEF DataInv, UnnamedOK
    <3>2. 1 \in 1 .. Parts[t]
      BY <1>f, <1>p, <3>1
    <3> QED
      BY <1>j, <3>1, <3>2
  <2> QED
    BY <2>1
<1>v. VotesForFinish(t, dbt[t])
  BY <1>h, <1>j DEF DataInv, FinishOK
<1>1. t \notin SequenceObjects => dbt[t].schema_state = "ALL_DONE"
  BY <1>j, <1>v DEF VotesForFinish, DataDone
<1>s. /\ dbt[t].schema_state \notin BeforeCreated /\ t \in SchemaFiles \cup SequenceObjects
            => t \in server.tables
      /\ server.rows[t] # {} => t \in server.tables
      /\ dbt[t].schema_state = "ALL_DONE" /\ t \in Indexed /\ ~dbt[t].no_data
            => t \in server.indexes
      /\ dbt[t].no_data => t \in SchemaFiles
  BY <1>t DEF EndInv, ServerOK
<1>2. t \in server.tables
  <2>1. CASE t \in SchemaFiles \cup SequenceObjects
    <3>1. dbt[t].schema_state \notin BeforeCreated
      BY <1>v DEF VotesForFinish, DataDone, BeforeCreated
    <3> QED
      BY <1>s, <2>1, <3>1
  <2>2. CASE t \notin SchemaFiles \cup SequenceObjects
    <3>1. dbt[t].schema_state \in DataDone /\ ~dbt[t].no_data
      BY <1>1, <1>s, <2>2 DEF DataDone
    <3>2. server.rows[t] = 1 .. Parts[t]
      BY <1>t, <3>1 DEF DataInv, DoneOK
    <3>3. 1 \in server.rows[t]
      BY <1>f, <1>p, <2>2, <3>2
    <3> QED
      BY <1>s, <3>3
  <2> QED
    BY <2>1, <2>2
<1>3. t \in Indexed /\ ~dbt[t].no_data => t \in server.indexes
  <2>1. t \in Indexed => t \notin SequenceObjects
    BY LoaderAssumption
  <2> QED
    BY <1>1, <1>s, <2>1
<1> QED
  BY <1>1, <1>2, <1>3

(* What main concludes from the threads it joined (EndInv): a table that   *)
(* is created is on the server, one that is ALL_DONE has its indexes, one  *)
(* that is INDEX_ENQUEUED stands in index_queue in front of every SHUTDOWN *)
(* or is in the hands of a worker, and the schema file of a table that is  *)
(* NOT_FOUND is still to be read.  The condition is that no schema file is *)
(* read twice.                                                             *)
THEOREM EndComplete ==
    Spec /\ [][ReadOnce]_vars => [](CountInv /\ StateInv /\ EndedOK /\ DataInv /\ EndInv)
<1> DEFINE Inv == CountInv /\ StateInv /\ EndedOK /\ DataInv /\ EndInv
<1>1. Init => Inv
  BY CountInit, StateInit, DataInit, EndInit
<1>2. Inv /\ [Next]_vars /\ [ReadOnce]_vars => Inv'
  <2>1. CountInv => FilesOK
    BY DEF CountInv, TypeInv
  <2> QED
    BY <2>1, CountNext, StateNext, DataNext, EndNext, StepReads
<1> QED
  BY <1>1, <1>2, PTL DEF Spec

(* The restore is complete (RestoredTables): a table is marked done only   *)
(* with all of its rows, when main is past wait_index_worker_to_finish     *)
(* every table is on the server, done and indexed, and --drop-table=SKIP   *)
(* leaves a table that was there as it was.  The conditions: no schema     *)
(* file is read twice, and there is an index worker, without which nobody  *)
(* would take the last table from index_queue.                             *)
THEOREM RestoreComplete ==
    ASSUME IndexWorkers # {}
    PROVE  Spec /\ [][ReadOnce]_vars => []RestoredTables
<1>1. ASSUME CountInv, StateInv, EndedOK, DataInv, EndInv PROVE RestoredTables
  <2>0. FilesOK /\ IndexOK
    BY <1>1 DEF CountInv, TypeInv
  <2>1. \A t \in Tables : dbt[t].schema_state \in DataDone /\ ~dbt[t].no_data
            => server.rows[t] = 1..Parts[t]
    BY <1>1 DEF DataInv, DoneOK
  <2>2. ASSUME main = "done", NEW t \in options.tables
        PROVE  /\ t \notin SequenceObjects => dbt[t].schema_state = "ALL_DONE"
               /\ t \in server.tables
               /\ t \in Indexed /\ ~dbt[t].no_data => t \in server.indexes
    BY <1>1, <2>0, <2>2, RestoredAtEnd
  <2>3. options.purge_mode = "SKIP" =>
            \A t \in options.existing \cap SchemaFiles : server.rows[t] = {} /\ t \notin server.indexes
    BY <1>1 DEF EndInv, SkipOK, Skipped
  <2> QED
    BY <2>1, <2>2, <2>3 DEF RestoredTables
<1> QED
  BY <1>1, EndComplete, PTL
=============================================================================
