-------------------------- MODULE DumpPhasesProofs --------------------------
(***************************************************************************)
(* Proofs about DumpPhases for any number of workers, databases and        *)
(* tables: the counter and the tokens the main thread waits for are        *)
(* explained by the jobs in initial_queue and the phases of the workers.   *)
(* The Effect lemmas say what each action of a worker does to its record   *)
(* and to the queues; DumpPhasesBackupProofs uses them as well.            *)
(***************************************************************************)
EXTENDS DumpPhases, Counting

StatusJob == Job("WRITE_SOURCE_AND_REPLICA_STATUS", "none")
AllJob == Job("DUMP_ALL_DATABASES", "none")
ListJob == Job("DUMP_TABLE_LIST", "none")
DatabaseJob(d) == Job("DUMP_DATABASE", d)
TableJob(t) == Job("TABLE", t)

(* How far start_dump is. *)
AfterInitial == {"post_data", "join", "done"}
AfterListing == AfterInitial \cup {"completed"}
AfterStatus == AfterListing \cup {"db_ready"}
AfterData == {"join", "done"}
One(b) == IF b THEN 1 ELSE 0

(* A job is processed in the phase of its queue. *)
Fits(r) ==
    /\ r.job \in InitialJobs => r.phase = "initial"
    /\ r.job \in SchemaWork => r.phase = "schema"
    /\ r.job \in PostDataWork => r.phase = "post_data"
    /\ r.todo \subseteq Rows(r.job)

ControlTypes ==
    /\ main \in {"jobs", "status", "db_ready", "completed", "post_data", "join", "done"}
    /\ database_counter \in Nat
    /\ initial_queue \in Seq(InitialJobs \cup {ShutdownJob})
    /\ schema_queue \in Seq(SchemaWork \cup {ShutdownJob})
    /\ post_data_queue \in Seq(PostDataWork \cup {ShutdownJob})
    /\ tokens \in [status : Nat, db_ready : Nat, initial_completed : Nat,
                   ready_non_transactional : Nat]
    /\ thread \in [Workers -> ThreadRecord]
    /\ shutdown_triggered \in BOOLEAN

RegistryTypes ==
    /\ request \in {"tables", "databases", "all"}
    /\ database_hash \subseteq Databases /\ unreadable \subseteq Databases
    /\ transactional_table \subseteq Tables /\ non_transactional_table \subseteq Tables
    /\ lock_tables_statement \subseteq Tables
    /\ done \in [Work -> Nat]
    /\ metadata \in {"partial", "final"}

ThreadsOK == \A w \in Workers : Fits(thread[w])

(* Nothing has happened before the jobs are created. *)
FreshOK ==
    main = "jobs" =>
        /\ database_counter = 0
        /\ initial_queue = <<>> /\ schema_queue = <<>> /\ post_data_queue = <<>>
        /\ database_hash = {} /\ unreadable = {}
        /\ transactional_table = {} /\ non_transactional_table = {}
        /\ \A w \in Workers : thread[w].job = NoJob
        /\ \A j \in Work : done[j] = 0
        /\ tokens.status = 0 /\ tokens.db_ready = 0

(* The jobs of A in initial_queue and the workers that are in B. *)
Listed(A, B) == Items(initial_queue, A) + Many(Workers, thread, B)

ListingJobs == {j \in InitialJobs : j.type \in ListingTypes}
Doing(A) == {r \in ThreadRecord : r.job \in A}

Listings == Listed(ListingJobs, Doing(ListingJobs))

CounterOK ==
    /\ Listings <= database_counter
    /\ ~shutdown_triggered => Listings = database_counter
    /\ tokens.db_ready + One(main \in AfterListing) <= 1
    /\ tokens.db_ready + One(main \in AfterListing) = 1 => database_counter = 0

StatusJobs == Listed({StatusJob}, Doing({StatusJob}))

StatusOK == StatusJobs + tokens.status + One(main \in AfterStatus) <= 1

AtPhase(F) == {r \in ThreadRecord : r.phase \in F}
Left == AtPhase({"schema", "waiting", "data", "post_data", "end"})
InData == AtPhase({"data", "post_data", "end"})

BarriersOK ==
    /\ Many(Workers, thread, Left) =
            tokens.initial_completed + IF main \in AfterInitial THEN N ELSE 0
    /\ Many(Workers, thread, InData) + tokens.ready_non_transactional =
            IF main \in AfterInitial THEN N ELSE 0

Only(x, q) == \A n \in DOMAIN q : q[n] = x
Without(x, q) == \A n \in DOMAIN q : q[n] # x
Ordered(q) == \A m, n \in DOMAIN q : m < n /\ q[m] = ShutdownJob => q[n] = ShutdownJob

OrderOK ==
    /\ Ordered(initial_queue) /\ Ordered(schema_queue) /\ Ordered(post_data_queue)
    /\ main \notin AfterListing => Without(ShutdownJob, initial_queue)
    /\ main \notin AfterInitial => Without(ShutdownJob, schema_queue)
    /\ main \notin AfterData => Without(ShutdownJob, post_data_queue)

(* The post-data and schema jobs new_table_to_dump makes of a table *)
WantedOf(t, type) ==
    CASE KindOf[t] = "sequence" -> type = "SEQUENCE"
      [] KindOf[t] = "view" -> type = "VIEW"
      [] KindOf[t] \in {"innodb", "myisam"} ->
            type \in {"SCHEMA", "CHECKSUM"} \/ (type = "TRIGGERS" /\ request = "tables")

(* The inductive invariant *)
QInv ==
    /\ ControlTypes /\ RegistryTypes /\ ThreadsOK /\ FreshOK /\ CounterOK /\ StatusOK
    /\ BarriersOK /\ OrderOK

-----------------------------------------------------------------------------
LEMMA NType == N \in Nat /\ N >= 1
<1>1. N \in Nat
  BY ObjectsAssumption, FS_CardinalityType DEF N
<1>2. N # 0
  BY ObjectsAssumption, FS_EmptySet DEF N
<1> QED
  BY <1>1, <1>2

(* A sequence of all elements of a set holds each of them once. *)
LEMMA Arranged ==
    ASSUME NEW S, IsFiniteSet(S), NEW f \in [1 .. Cardinality(S) -> S],
           \A m, n \in 1 .. Cardinality(S) : f[m] = f[n] => m = n
    PROVE  /\ f \in Seq(S)
           /\ \A P : Items(f, P) = Cardinality(S \cap P)
<1> DEFINE D == 1 .. Cardinality(S)
<1>1. Cardinality(S) \in Nat
  BY FS_CardinalityType
<1>2. IsFiniteSet(D) /\ Cardinality(D) = Cardinality(S)
  <2>1. Cardinality(S) = 0 \/ Cardinality(S) >= 1
    BY <1>1
  <2>2. IsFiniteSet(D) /\ Cardinality(D) = IF 1 > Cardinality(S) THEN 0 ELSE Cardinality(S) - 1 + 1
    BY <1>1, FS_Interval
  <2> QED
    BY <1>1, <2>1, <2>2
<1>3. f \in Injection(D, S)
  BY DEF Injection, IsInjective
<1>4. f \in Surjection(D, S)
  BY <1>2, <1>3, FS_Injection
<1>5. f \in Seq(S)
  BY <1>1, SMTT(30)
<1>6. ASSUME NEW P
      PROVE  Items(f, P) = Cardinality(S \cap P)
  <2> DEFINE R == {n \in DOMAIN f : f[n] \in P}
             g == [n \in R |-> f[n]]
  <2>1. g \in Bijection(R, S \cap P)
    <3>1. g \in [R -> S \cap P] /\ \A m, n \in R : g[m] = g[n] => m = n
      OBVIOUS
    <3>2. \A s \in S \cap P : \E n \in R : g[n] = s
      BY <1>4 DEF Surjection
    <3> QED
      BY <3>1, <3>2 DEF Bijection, Injection, Surjection, IsInjective
  <2>2. IsFiniteSet(R)
    BY <1>5, ItemsBound
  <2>3. Cardinality(S \cap P) = Cardinality(R)
    BY <2>1, <2>2, FS_Bijection DEF ExistsBijection
  <2> QED
    BY <2>3 DEF Items
<1> QED
  BY <1>5, <1>6

LEMMA SetToSeqItems ==
    ASSUME NEW S, IsFiniteSet(S)
    PROVE  /\ SetToSeq(S) \in Seq(S)
           /\ \A P : Items(SetToSeq(S), P) = Cardinality(S \cap P)
<1> DEFINE D == 1 .. Cardinality(S)
<1>1. \E f \in [D -> S] : IsInjective(f)
  BY FS_CardinalityType DEF ExistsBijection, Bijection, Injection
<1>2. SetToSeq(S) \in [D -> S] /\ IsInjective(SetToSeq(S))
  BY <1>1, Zenon DEF SetToSeq
<1>3. \A m, n \in D : SetToSeq(S)[m] = SetToSeq(S)[n] => m = n
  BY <1>2 DEF IsInjective
<1> QED
  BY <1>2, <1>3, Arranged

LEMMA SetToSeqsItems ==
    ASSUME NEW S, IsFiniteSet(S), NEW f \in SetToSeqs(S)
    PROVE  /\ f \in Seq(S)
           /\ \A P : Items(f, P) = Cardinality(S \cap P)
  BY Arranged DEF SetToSeqs

(* The jobs of one type. *)
LEMMA FiniteJobs ==
    ASSUME NEW S, IsFiniteSet(S), NEW type
    PROVE  /\ IsFiniteSet({Job(type, x) : x \in S})
           /\ Cardinality({Job(type, x) : x \in S}) = Cardinality(S)
<1> DEFINE f == [x \in S |-> Job(type, x)]
<1>1. f \in Bijection(S, {Job(type, x) : x \in S})
  BY DEF Job, Bijection, Injection, Surjection, IsInjective
<1> QED
  BY <1>1, FS_Bijection DEF ExistsBijection

(* Jobs of different queues are different. *)
LEMMA JobSets ==
    /\ \A j \in InitialJobs : j \notin Work /\ j # NoJob /\ j # ShutdownJob
    /\ \A j \in SchemaWork : j \notin PostDataWork /\ j # NoJob /\ j # ShutdownJob
    /\ \A j \in PostDataWork : j # NoJob /\ j # ShutdownJob
    /\ NoJob # ShutdownJob
    /\ ShutdownJob.type = "SHUTDOWN" /\ NoJob.type = "none"
    /\ \A j \in InitialJobs \cup Work : j.type # "SHUTDOWN" /\ j.type # "none"
  BY DEF InitialJobs, Work, SchemaWork, PostDataWork, NoJob, ShutdownJob, Job

LEMMA JobTypes ==
    /\ \A j \in InitialJobs \cup Work \cup {NoJob} :
          /\ j.type \in ListingTypes <=> j \in ListingJobs
          /\ j.type = "DUMP_ALL_DATABASES" <=> j = AllJob
          /\ j.type = "DUMP_TABLE_LIST" <=> j = ListJob
          /\ j.type = "DUMP_DATABASE" <=> (j.object \in Databases /\ j = DatabaseJob(j.object))
          /\ j.type = "TABLE" <=> (j.object \in Tables /\ j = TableJob(j.object))
          /\ j.type = "WRITE_SOURCE_AND_REPLICA_STATUS" <=> j = StatusJob
    /\ \A d \in Databases : DatabaseJob(d) \in ListingJobs
    /\ \A t \in Tables : TableJob(t) \in InitialJobs /\ TableJob(t) \notin ListingJobs
    /\ AllJob \in ListingJobs /\ ListJob \in ListingJobs
    /\ StatusJob \in InitialJobs /\ StatusJob \notin ListingJobs
    /\ ListingJobs \subseteq InitialJobs
<1> USE DEF Job
<1>1. ASSUME NEW j \in InitialJobs
      PROVE  /\ j.type \in ListingTypes <=> j \in ListingJobs
             /\ j.type = "DUMP_ALL_DATABASES" <=> j = AllJob
             /\ j.type = "DUMP_TABLE_LIST" <=> j = ListJob
             /\ j.type = "DUMP_DATABASE" <=> (j.object \in Databases /\ j = DatabaseJob(j.object))
             /\ j.type = "TABLE" <=> (j.object \in Tables /\ j = TableJob(j.object))
             /\ j.type = "WRITE_SOURCE_AND_REPLICA_STATUS" <=> j = StatusJob
  BY DEF InitialJobs, ListingJobs, AllJob, ListJob, DatabaseJob, TableJob, StatusJob
<1>2. ASSUME NEW j \in Work \cup {NoJob}
      PROVE  /\ j.type \notin ListingTypes /\ j.type # "TABLE"
             /\ j.type # "WRITE_SOURCE_AND_REPLICA_STATUS"
  BY DEF Work, SchemaWork, PostDataWork, NoJob, ListingTypes
<1>3. /\ \A d \in Databases : DatabaseJob(d) \in ListingJobs
      /\ \A t \in Tables : TableJob(t) \in InitialJobs /\ TableJob(t) \notin ListingJobs
      /\ AllJob \in ListingJobs /\ ListJob \in ListingJobs
      /\ StatusJob \in InitialJobs /\ StatusJob \notin ListingJobs
      /\ ListingJobs \subseteq InitialJobs
  BY DEF InitialJobs, ListingTypes, ListingJobs, AllJob, ListJob, DatabaseJob, TableJob, StatusJob
<1>4. \A j \in Work \cup {NoJob} : j \notin InitialJobs
  BY JobSets DEF Work
<1>5. ASSUME NEW j \in Work \cup {NoJob}
      PROVE  /\ j.type \in ListingTypes <=> j \in ListingJobs
             /\ j.type = "DUMP_ALL_DATABASES" <=> j = AllJob
             /\ j.type = "DUMP_TABLE_LIST" <=> j = ListJob
             /\ j.type = "DUMP_DATABASE" <=> (j.object \in Databases /\ j = DatabaseJob(j.object))
             /\ j.type = "TABLE" <=> (j.object \in Tables /\ j = TableJob(j.object))
             /\ j.type = "WRITE_SOURCE_AND_REPLICA_STATUS" <=> j = StatusJob
  BY <1>2, <1>3, <1>4 DEF ListingTypes
<1> QED
  BY <1>1, <1>3, <1>5

LEMMA RowsType ==
    ASSUME NEW j \in InitialJobs \cup Work \cup {NoJob}
    PROVE  /\ Rows(j) \subseteq Databases \cup Tables
           /\ j = AllJob => Rows(j) = Databases
           /\ j = ListJob => Rows(j) = Tables
           /\ \A d \in Databases : j = DatabaseJob(d) => Rows(j) = TablesOf(d)
           /\ j \notin ListingJobs => Rows(j) = {}
<1>1. /\ j.type = "DUMP_ALL_DATABASES" => Rows(j) = Databases
      /\ j.type = "DUMP_TABLE_LIST" => Rows(j) = Tables
      /\ j.type = "DUMP_DATABASE" => Rows(j) = TablesOf(j.object)
      /\ j.type \notin ListingTypes => Rows(j) = {}
  BY DEF Rows, ListingTypes
<1>2. \A d : TablesOf(d) \subseteq Tables
  BY DEF TablesOf
<1>3. j.type \in ListingTypes => j.type \in {"DUMP_ALL_DATABASES", "DUMP_TABLE_LIST", "DUMP_DATABASE"}
  BY DEF ListingTypes
<1>4. Rows(j) \subseteq Databases \cup Tables
  BY <1>1, <1>2, <1>3
<1>5. j \notin ListingJobs => Rows(j) = {}
  BY <1>1, JobTypes
<1>6. \A d \in Databases : j = DatabaseJob(d) => j.type = "DUMP_DATABASE" /\ j.object = d
  BY DEF DatabaseJob, Job
<1> QED
  BY <1>1, <1>4, <1>5, <1>6, JobTypes

-----------------------------------------------------------------------------
(* One worker's record changes. *)
Becomes(w, p, j, s) ==
    /\ thread' \in [Workers -> ThreadRecord]
    /\ thread'[w] = [phase |-> p, job |-> j, todo |-> s]
    /\ \A v \in Workers \ {w} : thread'[v] = thread[v]

AnyJob == InitialJobs \cup Work \cup {NoJob}

LEMMA RecordType ==
    /\ \A r \in ThreadRecord : /\ r.phase \in Phases /\ r.job \in AnyJob
                               /\ r.todo \subseteq Databases \cup Tables
                               /\ r = [phase |-> r.phase, job |-> r.job, todo |-> r.todo]
    /\ \A p \in Phases : \A j \in AnyJob : \A s \in SUBSET (Databases \cup Tables) :
           [phase |-> p, job |-> j, todo |-> s] \in ThreadRecord
<1> HIDE DEF Phases, AnyJob
<1>1. ThreadRecord = [phase : Phases, job : AnyJob, todo : SUBSET (Databases \cup Tables)]
  BY DEF ThreadRecord, AnyJob
<1> QED
  BY <1>1

LEMMA RecordChange ==
    ASSUME thread \in [Workers -> ThreadRecord], NEW w \in Workers,
           NEW p \in Phases, NEW j \in AnyJob, NEW s \in SUBSET (Databases \cup Tables),
           NEW f, f = [thread EXCEPT ![w] = f[w]],
           f[w] = [phase |-> p, job |-> j, todo |-> s],
           f = thread'
    PROVE  Becomes(w, p, j, s)
<1>1. f[w] \in ThreadRecord
  BY RecordType
<1>2. /\ f \in [Workers -> ThreadRecord]
      /\ \A v \in Workers \ {w} : f[v] = thread[v]
  BY <1>1
<1> QED
  BY <1>2 DEF Becomes

LEMMA ThreadSteps ==
    ASSUME thread \in [Workers -> ThreadRecord], NEW w \in Workers
    PROVE  /\ \A j \in AnyJob : Takes(w, j) => Becomes(w, thread[w].phase, j, Rows(j))
           /\ \A p \in Phases : Enters(w, p) => Becomes(w, p, thread[w].job, thread[w].todo)
           /\ Ends(w) => Becomes(w, thread[w].phase, NoJob, {})
           /\ \A x : thread' = [thread EXCEPT ![w].todo = @ \ {x}] =>
                 Becomes(w, thread[w].phase, thread[w].job, thread[w].todo \ {x})
<1> DEFINE p == thread[w].phase
           j == thread[w].job
           s == thread[w].todo
<1>0. thread[w] \in ThreadRecord
  OBVIOUS
<1>1. /\ p \in Phases /\ j \in AnyJob /\ s \in SUBSET (Databases \cup Tables)
      /\ thread[w] = [phase |-> p, job |-> j, todo |-> s]
  BY <1>0, RecordType
<1> HIDE DEF p, j, s
<1>2. ASSUME NEW k \in AnyJob, Takes(w, k)
      PROVE  Becomes(w, p, k, Rows(k))
  <2>0. thread' = [thread EXCEPT ![w] = [thread[w] EXCEPT !.job = k, !.todo = Rows(k)]]
    BY <1>2, Zenon DEF Takes
  <2> DEFINE r == [phase |-> p, job |-> k, todo |-> Rows(k)]
  <2>2a. [[phase |-> p, job |-> j, todo |-> s] EXCEPT !.job = k, !.todo = Rows(k)] = r
    <3> DEFINE e == [[phase |-> p, job |-> j, todo |-> s] EXCEPT !.job = k, !.todo = Rows(k)]
    <3>1. e \in [phase : {p}, job : {k}, todo : {Rows(k)}]
      OBVIOUS
    <3> HIDE DEF e
    <3>2. e = r
      BY <3>1
    <3> QED
      BY <3>2 DEF e
  <2>3. [thread[w] EXCEPT !.job = k, !.todo = Rows(k)] = r
    BY <1>1, <2>2a, Zenon
  <2> HIDE DEF r
  <2>4. thread' = [thread EXCEPT ![w] = r]
    BY <2>0, <2>3
  <2>5. thread'[w] = r /\ thread' = [thread EXCEPT ![w] = thread'[w]]
    BY <2>4
  <2>1. /\ thread'[w] = [phase |-> p, job |-> k, todo |-> Rows(k)]
        /\ thread' = [thread EXCEPT ![w] = thread'[w]]
    BY <2>5 DEF r
  <2>2. Rows(k) \in SUBSET (Databases \cup Tables)
    BY RowsType DEF AnyJob
  <2> QED
    BY <1>1, <2>1, <2>2, RecordChange
<1>3. ASSUME NEW h \in Phases, Enters(w, h)
      PROVE  Becomes(w, h, j, s)
  <2>0. thread' = [thread EXCEPT ![w] = [thread[w] EXCEPT !.phase = h]]
    BY <1>3, Zenon DEF Enters
  <2>1. /\ thread'[w] = [phase |-> h, job |-> j, todo |-> s]
        /\ thread' = [thread EXCEPT ![w] = thread'[w]]
    BY <1>1, <2>0
  <2> QED
    BY <1>1, <2>1, RecordChange
<1>4. ASSUME Ends(w)
      PROVE  Becomes(w, p, NoJob, {})
  <2>0. thread' = [thread EXCEPT ![w] = [thread[w] EXCEPT !.job = NoJob, !.todo = {}]]
    BY <1>4, Zenon DEF Ends
  <2> DEFINE r == [phase |-> p, job |-> NoJob, todo |-> {}]
  <2>2a. [[phase |-> p, job |-> j, todo |-> s] EXCEPT !.job = NoJob, !.todo = {}] = r
    <3> DEFINE e == [[phase |-> p, job |-> j, todo |-> s] EXCEPT !.job = NoJob, !.todo = {}]
    <3>1. e \in [phase : {p}, job : {NoJob}, todo : {{}}]
      OBVIOUS
    <3> HIDE DEF e
    <3>2. e = r
      BY <3>1
    <3> QED
      BY <3>2 DEF e
  <2>3. [thread[w] EXCEPT !.job = NoJob, !.todo = {}] = r
    BY <1>1, <2>2a, Zenon
  <2> HIDE DEF r
  <2>4. thread' = [thread EXCEPT ![w] = r]
    BY <2>0, <2>3
  <2>5. thread'[w] = r /\ thread' = [thread EXCEPT ![w] = thread'[w]]
    BY <2>4
  <2>1. /\ thread'[w] = [phase |-> p, job |-> NoJob, todo |-> {}]
        /\ thread' = [thread EXCEPT ![w] = thread'[w]]
    BY <2>5 DEF r
  <2>2. NoJob \in AnyJob /\ {} \in SUBSET (Databases \cup Tables)
    BY DEF AnyJob
  <2> QED
    BY <1>1, <2>1, <2>2, RecordChange
<1>5. ASSUME NEW x, thread' = [thread EXCEPT ![w].todo = @ \ {x}]
      PROVE  Becomes(w, p, j, s \ {x})
  <2>0. thread' = [thread EXCEPT ![w] = [thread[w] EXCEPT !.todo = thread[w].todo \ {x}]]
    BY <1>5, Zenon
  <2>1. /\ thread'[w] = [phase |-> p, job |-> j, todo |-> s \ {x}]
        /\ thread' = [thread EXCEPT ![w] = thread'[w]]
    BY <1>1, <2>0 DEF s
  <2>2. s \ {x} \in SUBSET (Databases \cup Tables)
    BY <1>1
  <2> QED
    BY <1>1, <2>1, <2>2, RecordChange
<1> QED
  BY <1>2, <1>3, <1>4, <1>5 DEF p, j, s

(* Counts are numbers, and one worker's step changes them by at most one.  *)
LEMMA ManyType ==
    \A P : /\ Many(Workers, thread, P) \in Nat /\ Many(Workers, thread, P) <= N
           /\ Many(Workers, thread, P) >= N => \A v \in Workers : thread[v] \in P
           /\ Many(Workers, thread, P) = 0 <=> \A v \in Workers : thread[v] \notin P
  BY ManyBound, ObjectsAssumption DEF N

LEMMA ItemsType ==
    ASSUME NEW T, NEW q \in Seq(T)
    PROVE  \A P : /\ Items(q, P) \in Nat
                  /\ Items(q, P) = 0 <=> \A n \in DOMAIN q : q[n] \notin P
  BY ItemsBound

LEMMA RecordCounts ==
    ASSUME thread \in [Workers -> ThreadRecord], NEW w \in Workers, NEW p, NEW j, NEW s,
           Becomes(w, p, j, s)
    PROVE  \A P : Many(Workers, thread', P) + One(thread[w] \in P) =
                  Many(Workers, thread, P) + One([phase |-> p, job |-> j, todo |-> s] \in P)
<1> DEFINE r == [phase |-> p, job |-> j, todo |-> s]
<1>1. Moved(Workers, thread, thread', w, thread[w], r)
  BY DEF Moved, Becomes
<1>2. ASSUME NEW P
      PROVE  Many(Workers, thread', P) + One(thread[w] \in P) = Many(Workers, thread, P) + One(r \in P)
  <2>1. Many(Workers, thread, P) \in Nat
    BY ManyType
  <2>2. Many(Workers, thread', P) =
          IF (thread[w] \in P <=> r \in P) THEN Many(Workers, thread, P)
          ELSE IF r \in P THEN Many(Workers, thread, P) + 1 ELSE Many(Workers, thread, P) - 1
    BY <1>1, ObjectsAssumption, ManyMoved
  <2> HIDE DEF r
  <2> QED
    BY <2>1, <2>2 DEF One
<1> QED
  BY <1>2

LEMMA BecomesCounts ==
    ASSUME thread \in [Workers -> ThreadRecord], NEW w \in Workers, NEW p, NEW j, NEW s,
           Becomes(w, p, j, s)
    PROVE  /\ \A A : Many(Workers, thread', Doing(A)) + One(thread[w].job \in A) =
                     Many(Workers, thread, Doing(A)) + One(j \in A)
           /\ \A F : Many(Workers, thread', AtPhase(F)) + One(thread[w].phase \in F) =
                     Many(Workers, thread, AtPhase(F)) + One(p \in F)
<1> DEFINE r == [phase |-> p, job |-> j, todo |-> s]
<1>1. thread[w] \in ThreadRecord /\ r \in ThreadRecord /\ r.job = j /\ r.phase = p
  BY DEF Becomes
<1>2. ASSUME NEW A
      PROVE  (thread[w] \in Doing(A) <=> thread[w].job \in A) /\ (r \in Doing(A) <=> j \in A)
  <2> HIDE DEF r
  <2> QED
    BY <1>1 DEF Doing
<1>3. ASSUME NEW F
      PROVE  (thread[w] \in AtPhase(F) <=> thread[w].phase \in F) /\ (r \in AtPhase(F) <=> p \in F)
  <2> HIDE DEF r
  <2> QED
    BY <1>1 DEF AtPhase
<1>4. \A P : Many(Workers, thread', P) + One(thread[w] \in P) =
             Many(Workers, thread, P) + One(r \in P)
  BY RecordCounts
<1> HIDE DEF r
<1>5. ASSUME NEW A
      PROVE  Many(Workers, thread', Doing(A)) + One(thread[w].job \in A) =
                     Many(Workers, thread, Doing(A)) + One(j \in A)
  BY <1>2, <1>4 DEF One
<1>6. ASSUME NEW F
      PROVE  Many(Workers, thread', AtPhase(F)) + One(thread[w].phase \in F) =
                     Many(Workers, thread, AtPhase(F)) + One(p \in F)
  BY <1>3, <1>4 DEF One
<1> QED
  BY <1>5, <1>6

-----------------------------------------------------------------------------
(* What a step does to a queue. *)
LEMMA QueueTail ==
    ASSUME NEW T, NEW q \in Seq(T), q # <<>>, NEW r, r = Tail(q)
    PROVE  /\ r \in Seq(T) /\ Head(q) \in T
           /\ \A P : Items(r, P) + One(Head(q) \in P) = Items(q, P)
           /\ Ordered(q) => Ordered(r)
           /\ Ordered(q) /\ Head(q) = ShutdownJob => Only(ShutdownJob, r)
           /\ \A x : Without(x, q) => Without(x, r) /\ Head(q) # x
           /\ \A x : Only(x, q) => Only(x, r) /\ Head(q) = x
<1>1. /\ DOMAIN q = 1 .. Len(q) /\ Len(q) \in Nat /\ Len(q) >= 1
      /\ DOMAIN r = 1 .. Len(q) - 1
      /\ \A n \in 1 .. Len(q) - 1 : r[n] = q[n + 1]
      /\ Head(q) = q[1]
  OBVIOUS
<1>2. r \in Seq(T) /\ Head(q) \in T
  OBVIOUS
<1>3. ASSUME NEW P
      PROVE  Items(r, P) + One(Head(q) \in P) = Items(q, P)
  <2>1. Items(q, P) \in Nat
    BY ItemsBound
  <2>2. Items(r, P) = IF Head(q) \in P THEN Items(q, P) - 1 ELSE Items(q, P)
    BY ItemsTail
  <2> QED
    BY <2>1, <2>2 DEF One
<1>4. Ordered(q) => Ordered(r)
  <2> SUFFICES ASSUME Ordered(q), NEW m \in DOMAIN r, NEW n \in DOMAIN r,
                      m < n, r[m] = ShutdownJob
               PROVE  r[n] = ShutdownJob
    BY DEF Ordered
  <2>1. m + 1 \in DOMAIN q /\ n + 1 \in DOMAIN q /\ m + 1 < n + 1
    BY <1>1
  <2>2. r[m] = q[m + 1] /\ r[n] = q[n + 1]
    BY <1>1
  <2> QED
    BY <2>1, <2>2 DEF Ordered
<1>5. Ordered(q) /\ Head(q) = ShutdownJob => Only(ShutdownJob, r)
  <2> SUFFICES ASSUME Ordered(q), Head(q) = ShutdownJob, NEW n \in DOMAIN r
               PROVE  r[n] = ShutdownJob
    BY DEF Only
  <2>1. 1 \in DOMAIN q /\ n + 1 \in DOMAIN q /\ 1 < n + 1
    BY <1>1
  <2>2. q[1] = ShutdownJob /\ r[n] = q[n + 1]
    BY <1>1
  <2> QED
    BY <2>1, <2>2 DEF Ordered
<1>6. 1 \in DOMAIN q /\ \A n \in DOMAIN r : n + 1 \in DOMAIN q /\ r[n] = q[n + 1]
  BY <1>1
<1>7. \A x : Without(x, q) => Without(x, r) /\ Head(q) # x
  BY <1>1, <1>6 DEF Without
<1>8. \A x : Only(x, q) => Only(x, r) /\ Head(q) = x
  BY <1>1, <1>6 DEF Only
<1> QED
  BY <1>2, <1>3, <1>4, <1>5, <1>7, <1>8

LEMMA QueueAppend ==
    ASSUME NEW T, NEW q \in Seq(T), NEW x \in T
    PROVE  /\ Append(q, x) \in Seq(T)
           /\ \A P : Items(Append(q, x), P) = Items(q, P) + One(x \in P)
           /\ \A y : Without(y, q) /\ x # y => Without(y, Append(q, x))
<1> DEFINE r == Append(q, x)
<1>1. /\ DOMAIN q = 1 .. Len(q) /\ Len(q) \in Nat
      /\ DOMAIN r = 1 .. Len(q) + 1
      /\ \A n \in 1 .. Len(q) : r[n] = q[n]
      /\ r[Len(q) + 1] = x
  OBVIOUS
<1>2. r \in Seq(T)
  OBVIOUS
<1>2a. r = Append(q, x)
  OBVIOUS
<1> HIDE DEF r
<1>3. ASSUME NEW P
      PROVE  Items(r, P) = Items(q, P) + One(x \in P)
  <2>1. Items(q, P) \in Nat
    BY ItemsBound
  <2>0. \A Q : Items(Append(q, x), Q) = IF x \in Q THEN Items(q, Q) + 1 ELSE Items(q, Q)
    BY ItemsAppend
  <2>2. Items(r, P) = IF x \in P THEN Items(q, P) + 1 ELSE Items(q, P)
    BY <2>0 DEF r
  <2> QED
    BY <2>1, <2>2 DEF One
<1>4. \A n \in DOMAIN r : (n \in DOMAIN q /\ r[n] = q[n]) \/ r[n] = x
  BY <1>1
<1>5. \A y : Without(y, q) /\ x # y => Without(y, r)
  BY <1>4 DEF Without
<1> QED
  BY <1>2, <1>3, <1>5 DEF r

LEMMA QueueJoin ==
    ASSUME NEW T, NEW q \in Seq(T), NEW e \in Seq(T)
    PROVE  /\ q \o e \in Seq(T)
           /\ \A P : Items(q \o e, P) = Items(q, P) + Items(e, P)
           /\ \A y : Without(y, q) /\ Without(y, e) => Without(y, q \o e)
           /\ \A y : Only(y, q) /\ Only(y, e) => Only(y, q \o e)
           /\ Ordered(q) /\ Only(ShutdownJob, e) => Ordered(q \o e)
<1> DEFINE r == q \o e
<1>1. /\ DOMAIN q = 1 .. Len(q) /\ Len(q) \in Nat
      /\ DOMAIN e = 1 .. Len(e) /\ Len(e) \in Nat
      /\ DOMAIN r = 1 .. Len(q) + Len(e)
      /\ \A n \in 1 .. Len(q) : r[n] = q[n]
      /\ \A n \in Len(q) + 1 .. Len(q) + Len(e) : r[n] = e[n - Len(q)]
  OBVIOUS
<1>2. r \in Seq(T)
  OBVIOUS
<1>3. \A P : Items(r, P) = Items(q, P) + Items(e, P)
  BY ItemsConcat
<1> HIDE DEF r
<1>4. \A n \in DOMAIN r : \/ n \in DOMAIN q /\ r[n] = q[n]
                          \/ n > Len(q) /\ n - Len(q) \in DOMAIN e /\ r[n] = e[n - Len(q)]
  BY <1>1
<1>5. \A y : Without(y, q) /\ Without(y, e) => Without(y, r)
  BY <1>4 DEF Without
<1>6. Ordered(q) /\ Only(ShutdownJob, e) => Ordered(r)
  <2> SUFFICES ASSUME Ordered(q), Only(ShutdownJob, e), NEW m \in DOMAIN r, NEW n \in DOMAIN r,
                      m < n, r[m] = ShutdownJob
               PROVE  r[n] = ShutdownJob
    BY DEF Ordered
  <2>1. CASE n \in DOMAIN q
    <3>1. m \in DOMAIN q /\ r[m] = q[m] /\ r[n] = q[n]
      BY <1>1, <2>1
    <3> QED
      BY <2>1, <3>1 DEF Ordered
  <2>2. CASE n \notin DOMAIN q
    BY <1>4, <2>2 DEF Only
  <2> QED
    BY <2>1, <2>2
<1>7. \A y : Only(y, q) /\ Only(y, e) => Only(y, r)
  BY <1>4 DEF Only
<1> QED
  BY <1>2, <1>3, <1>5, <1>6, <1>7 DEF r

LEMMA ShutdownQueue ==
    /\ Shutdowns \in Seq({ShutdownJob}) /\ Only(ShutdownJob, Shutdowns)
    /\ \A P : ShutdownJob \notin P => Items(Shutdowns, P) = 0
<1> DEFINE x == ShutdownJob
<1> HIDE DEF x
<1>1. Shutdowns = [n \in 1 .. N |-> x]
  BY DEF Shutdowns, x
<1>2. Shutdowns \in Seq({x})
  BY <1>1, NType, SMTT(30)
<1>3. Only(x, Shutdowns)
  BY <1>1 DEF Only
<1>4. ASSUME NEW P, x \notin P
      PROVE  Items(Shutdowns, P) = 0
  BY <1>2, <1>3, <1>4, ItemsBound DEF Only
<1> QED
  BY <1>2, <1>3, <1>4 DEF x

LEMMA OpenOrdered == \A q : Without(ShutdownJob, q) => Ordered(q)
  BY DEF Without, Ordered

(* get_database adds the job of each new database once. *)
LEMMA CreateDatabaseItems ==
    ASSUME NEW ds \in SUBSET Databases
    PROVE  /\ CreateDatabaseJobs(ds) \in Seq(SchemaWork \cup {ShutdownJob})
           /\ Without(ShutdownJob, CreateDatabaseJobs(ds))
           /\ \A j : Items(CreateDatabaseJobs(ds), {j}) =
                       One(\E d \in ds \ database_hash : j = Job("CREATE_DATABASE", d))
<1> DEFINE S == {Job("CREATE_DATABASE", d) : d \in ds \ database_hash}
           c == CreateDatabaseJobs(ds)
<1>1. IsFiniteSet(S)
  <2>1. IsFiniteSet(ds \ database_hash)
    BY ObjectsAssumption, FS_Subset
  <2> QED
    BY <2>1, FiniteJobs
<1>2. c = SetToSeq(S)
  BY DEF CreateDatabaseJobs
<1> HIDE DEF c
<1>3. c \in Seq(S) /\ \A P : Items(c, P) = Cardinality(S \cap P)
  BY <1>1, <1>2, SetToSeqItems
<1>4. S \subseteq SchemaWork
  BY DEF SchemaWork
<1>5. ShutdownJob \notin S
  BY <1>4, JobSets
<1>6. ASSUME NEW j
      PROVE  Items(c, {j}) = One(j \in S)
  <2>1. CASE j \in S
    <3>1. S \cap {j} = {j}
      BY <2>1
    <3> QED
      BY <1>3, <2>1, <3>1, FS_Singleton DEF One
  <2>2. CASE j \notin S
    <3>1. S \cap {j} = {}
      BY <2>2
    <3> QED
      BY <1>3, <2>2, <3>1, FS_EmptySet DEF One
  <2> QED
    BY <2>1, <2>2
<1>7. \A j : j \in S <=> \E d \in ds \ database_hash : j = Job("CREATE_DATABASE", d)
  OBVIOUS
<1> HIDE DEF S
<1>8. \A n \in DOMAIN c : c[n] \in S
  BY <1>3
<1>9. c \in Seq(SchemaWork \cup {ShutdownJob})
  BY <1>3, <1>4
<1>10. Without(ShutdownJob, c)
  BY <1>5, <1>8 DEF Without
<1> QED
  BY <1>6, <1>7, <1>9, <1>10 DEF c, One

-----------------------------------------------------------------------------
(* What each action of a worker does to its record and to the queues. *)
InitialQueueJobs == InitialJobs \cup {ShutdownJob}
SchemaQueueJobs == SchemaWork \cup {ShutdownJob}
PostDataQueueJobs == PostDataWork \cup {ShutdownJob}

LEMMA ThreadType ==
    ASSUME ControlTypes, NEW w \in Workers
    PROVE  /\ thread \in [Workers -> ThreadRecord]
           /\ thread[w] \in ThreadRecord /\ thread[w].phase \in Phases
           /\ thread[w].job \in AnyJob /\ thread[w].todo \subseteq Databases \cup Tables
<1>1. thread \in [Workers -> ThreadRecord]
  BY DEF ControlTypes
<1> QED
  BY <1>1, RecordType

LEMMA QueueTypes ==
    ControlTypes => /\ initial_queue \in Seq(InitialQueueJobs)
                    /\ schema_queue \in Seq(SchemaQueueJobs)
                    /\ post_data_queue \in Seq(PostDataQueueJobs)
  BY DEF ControlTypes, InitialQueueJobs, SchemaQueueJobs, PostDataQueueJobs

LEMMA TakeInitialEffect ==
    ASSUME ControlTypes, NEW w \in Workers, TakeInitialJob(w)
    PROVE  \E j \in InitialJobs :
              /\ thread[w].phase = "initial" /\ thread[w].job = NoJob
              /\ Becomes(w, "initial", j, Rows(j))
              /\ initial_queue # <<>> /\ initial_queue' = Tail(initial_queue) /\ j = Head(initial_queue)
              /\ initial_queue' \in Seq(InitialQueueJobs)
              /\ \A P : Items(initial_queue', P) + One(j \in P) = Items(initial_queue, P)
<1> DEFINE q == initial_queue
           r == initial_queue'
           j == Head(initial_queue)
<1>1. /\ thread[w].phase = "initial" /\ thread[w].job = NoJob
      /\ q # <<>> /\ r = Tail(q) /\ j.type # "SHUTDOWN" /\ Takes(w, j)
  BY Zenon DEF TakeInitialJob, Idle, Leaves
<1>2. q \in Seq(InitialQueueJobs)
  BY QueueTypes
<1> HIDE DEF q, r
<1>3. Head(q) \in InitialQueueJobs /\ r \in Seq(InitialQueueJobs) /\ \A P : Items(r, P) + One(Head(q) \in P) = Items(q, P)
  BY <1>1, <1>2, QueueTail
<1>4. j = Head(q)
  BY DEF q
<1> HIDE DEF j
<1>5. j \in InitialJobs
  BY <1>1, <1>3, <1>4, JobSets DEF InitialQueueJobs
<1>6. j \in AnyJob
  BY <1>5 DEF AnyJob
<1>7. Becomes(w, "initial", j, Rows(j))
  BY <1>1, <1>6, ThreadType, ThreadSteps
<1>8. /\ initial_queue # <<>> /\ initial_queue' = Tail(initial_queue) /\ j = Head(initial_queue)
      /\ initial_queue' \in Seq(InitialQueueJobs)
      /\ \A P : Items(initial_queue', P) + One(j \in P) = Items(initial_queue, P)
  BY <1>1, <1>3, <1>4 DEF q, r
<1> QED
  BY <1>1, <1>5, <1>7, <1>8

LEMMA EndInitialEffect ==
    ASSUME ControlTypes, NEW w \in Workers, EndInitial(w)
    PROVE  /\ thread[w].phase = "initial" /\ thread[w].job = NoJob
           /\ Becomes(w, "schema", NoJob, thread[w].todo)
           /\ initial_queue # <<>> /\ initial_queue' = Tail(initial_queue)
           /\ initial_queue' \in Seq(InitialQueueJobs) /\ Head(initial_queue) \in InitialQueueJobs
           /\ ~shutdown_triggered => Head(initial_queue) = ShutdownJob
           /\ \A P : Items(initial_queue', P) + One(Head(initial_queue) \in P) = Items(initial_queue, P)
<1> DEFINE q == initial_queue
           r == initial_queue'
<1>1. /\ thread[w].phase = "initial" /\ thread[w].job = NoJob
      /\ q # <<>> /\ r = Tail(q) /\ (Head(q).type = "SHUTDOWN" \/ shutdown_triggered)
      /\ Enters(w, "schema")
  BY Zenon DEF EndInitial, Idle, Leaves
<1>2. q \in Seq(InitialQueueJobs)
  BY QueueTypes
<1> HIDE DEF q, r
<1>3. Head(q) \in InitialQueueJobs /\ r \in Seq(InitialQueueJobs) /\ \A P : Items(r, P) + One(Head(q) \in P) = Items(q, P)
  BY <1>1, <1>2, QueueTail
<1>4. ~shutdown_triggered => Head(q) = ShutdownJob
  BY <1>1, <1>3, JobSets DEF InitialQueueJobs
<1>5. Becomes(w, "schema", NoJob, thread[w].todo)
  BY <1>1, ThreadType, ThreadSteps DEF Phases
<1> QED
  BY <1>1, <1>3, <1>4, <1>5 DEF q, r

LEMMA TakeSchemaEffect ==
    ASSUME ControlTypes, NEW w \in Workers, TakeSchemaJob(w)
    PROVE  \E j \in SchemaWork :
              /\ thread[w].phase = "schema" /\ thread[w].job = NoJob
              /\ Becomes(w, "schema", j, Rows(j))
              /\ schema_queue # <<>> /\ schema_queue' = Tail(schema_queue) /\ j = Head(schema_queue)
              /\ schema_queue' \in Seq(SchemaQueueJobs)
              /\ \A P : Items(schema_queue', P) + One(j \in P) = Items(schema_queue, P)
<1> DEFINE q == schema_queue
           r == schema_queue'
           j == Head(schema_queue)
<1>1. /\ thread[w].phase = "schema" /\ thread[w].job = NoJob
      /\ q # <<>> /\ r = Tail(q) /\ j.type # "SHUTDOWN" /\ Takes(w, j)
  BY Zenon DEF TakeSchemaJob, Idle, Leaves
<1>2. q \in Seq(SchemaQueueJobs)
  BY QueueTypes
<1> HIDE DEF q, r
<1>3. Head(q) \in SchemaQueueJobs /\ r \in Seq(SchemaQueueJobs) /\ \A P : Items(r, P) + One(Head(q) \in P) = Items(q, P)
  BY <1>1, <1>2, QueueTail
<1>4. j = Head(q)
  BY DEF q
<1> HIDE DEF j
<1>5. j \in SchemaWork
  BY <1>1, <1>3, <1>4, JobSets DEF SchemaQueueJobs
<1>6. j \in AnyJob
  BY <1>5 DEF AnyJob, Work
<1>7. Becomes(w, "schema", j, Rows(j))
  BY <1>1, <1>6, ThreadType, ThreadSteps
<1>8. /\ schema_queue # <<>> /\ schema_queue' = Tail(schema_queue) /\ j = Head(schema_queue)
      /\ schema_queue' \in Seq(SchemaQueueJobs)
      /\ \A P : Items(schema_queue', P) + One(j \in P) = Items(schema_queue, P)
  BY <1>1, <1>3, <1>4 DEF q, r
<1> QED
  BY <1>1, <1>5, <1>7, <1>8

LEMMA EndSchemaEffect ==
    ASSUME ControlTypes, NEW w \in Workers, EndSchema(w)
    PROVE  /\ thread[w].phase = "schema" /\ thread[w].job = NoJob
           /\ Becomes(w, "waiting", NoJob, thread[w].todo)
           /\ schema_queue # <<>> /\ schema_queue' = Tail(schema_queue)
           /\ schema_queue' \in Seq(SchemaQueueJobs) /\ Head(schema_queue) \in SchemaQueueJobs
           /\ ~shutdown_triggered => Head(schema_queue) = ShutdownJob
           /\ \A P : Items(schema_queue', P) + One(Head(schema_queue) \in P) = Items(schema_queue, P)
<1> DEFINE q == schema_queue
           r == schema_queue'
<1>1. /\ thread[w].phase = "schema" /\ thread[w].job = NoJob
      /\ q # <<>> /\ r = Tail(q) /\ (Head(q).type = "SHUTDOWN" \/ shutdown_triggered)
      /\ Enters(w, "waiting")
  BY Zenon DEF EndSchema, Idle, Leaves
<1>2. q \in Seq(SchemaQueueJobs)
  BY QueueTypes
<1> HIDE DEF q, r
<1>3. Head(q) \in SchemaQueueJobs /\ r \in Seq(SchemaQueueJobs) /\ \A P : Items(r, P) + One(Head(q) \in P) = Items(q, P)
  BY <1>1, <1>2, QueueTail
<1>4. ~shutdown_triggered => Head(q) = ShutdownJob
  BY <1>1, <1>3, JobSets DEF SchemaQueueJobs, Work
<1>5. Becomes(w, "waiting", NoJob, thread[w].todo)
  BY <1>1, ThreadType, ThreadSteps DEF Phases
<1> QED
  BY <1>1, <1>3, <1>4, <1>5 DEF q, r

LEMMA TakePostDataEffect ==
    ASSUME ControlTypes, NEW w \in Workers, TakePostDataJob(w)
    PROVE  \E j \in PostDataWork :
              /\ thread[w].phase = "post_data" /\ thread[w].job = NoJob
              /\ Becomes(w, "post_data", j, Rows(j))
              /\ post_data_queue # <<>> /\ post_data_queue' = Tail(post_data_queue) /\ j = Head(post_data_queue)
              /\ post_data_queue' \in Seq(PostDataQueueJobs)
              /\ \A P : Items(post_data_queue', P) + One(j \in P) = Items(post_data_queue, P)
<1> DEFINE q == post_data_queue
           r == post_data_queue'
           j == Head(post_data_queue)
<1>1. /\ thread[w].phase = "post_data" /\ thread[w].job = NoJob
      /\ q # <<>> /\ r = Tail(q) /\ j.type # "SHUTDOWN" /\ Takes(w, j)
  BY Zenon DEF TakePostDataJob, Idle, Leaves
<1>2. q \in Seq(PostDataQueueJobs)
  BY QueueTypes
<1> HIDE DEF q, r
<1>3. Head(q) \in PostDataQueueJobs /\ r \in Seq(PostDataQueueJobs) /\ \A P : Items(r, P) + One(Head(q) \in P) = Items(q, P)
  BY <1>1, <1>2, QueueTail
<1>4. j = Head(q)
  BY DEF q
<1> HIDE DEF j
<1>5. j \in PostDataWork
  BY <1>1, <1>3, <1>4, JobSets DEF PostDataQueueJobs
<1>6. j \in AnyJob
  BY <1>5 DEF AnyJob, Work
<1>7. Becomes(w, "post_data", j, Rows(j))
  BY <1>1, <1>6, ThreadType, ThreadSteps
<1>8. /\ post_data_queue # <<>> /\ post_data_queue' = Tail(post_data_queue) /\ j = Head(post_data_queue)
      /\ post_data_queue' \in Seq(PostDataQueueJobs)
      /\ \A P : Items(post_data_queue', P) + One(j \in P) = Items(post_data_queue, P)
  BY <1>1, <1>3, <1>4 DEF q, r
<1> QED
  BY <1>1, <1>5, <1>7, <1>8

LEMMA EndPostDataEffect ==
    ASSUME ControlTypes, NEW w \in Workers, EndPostData(w)
    PROVE  /\ thread[w].phase = "post_data" /\ thread[w].job = NoJob
           /\ Becomes(w, "end", NoJob, thread[w].todo)
           /\ post_data_queue # <<>> /\ post_data_queue' = Tail(post_data_queue)
           /\ post_data_queue' \in Seq(PostDataQueueJobs) /\ Head(post_data_queue) \in PostDataQueueJobs
           /\ ~shutdown_triggered => Head(post_data_queue) = ShutdownJob
           /\ \A P : Items(post_data_queue', P) + One(Head(post_data_queue) \in P) = Items(post_data_queue, P)
<1> DEFINE q == post_data_queue
           r == post_data_queue'
<1>1. /\ thread[w].phase = "post_data" /\ thread[w].job = NoJob
      /\ q # <<>> /\ r = Tail(q) /\ (Head(q).type = "SHUTDOWN" \/ shutdown_triggered)
      /\ Enters(w, "end")
  BY Zenon DEF EndPostData, Idle, Leaves
<1>2. q \in Seq(PostDataQueueJobs)
  BY QueueTypes
<1> HIDE DEF q, r
<1>3. Head(q) \in PostDataQueueJobs /\ r \in Seq(PostDataQueueJobs) /\ \A P : Items(r, P) + One(Head(q) \in P) = Items(q, P)
  BY <1>1, <1>2, QueueTail
<1>4. ~shutdown_triggered => Head(q) = ShutdownJob
  BY <1>1, <1>3, JobSets DEF PostDataQueueJobs, Work
<1>5. Becomes(w, "end", NoJob, thread[w].todo)
  BY <1>1, ThreadType, ThreadSteps DEF Phases
<1> QED
  BY <1>1, <1>3, <1>4, <1>5 DEF q, r

LEMMA DataEffect ==
    ASSUME ControlTypes, NEW w \in Workers, BeginData(w) \/ EndData(w)
    PROVE  \E p \in {"data", "post_data"} :
              /\ thread[w].job = NoJob /\ Becomes(w, p, NoJob, thread[w].todo)
              /\ BeginData(w) => thread[w].phase = "waiting" /\ p = "data"
              /\ EndData(w) => thread[w].phase = "data" /\ p = "post_data"
<1>1. CASE BeginData(w)
  <2>1. thread[w].job = NoJob /\ thread[w].phase = "waiting" /\ Enters(w, "data")
    BY <1>1, Zenon DEF BeginData, Idle
  <2>2. Becomes(w, "data", NoJob, thread[w].todo)
    BY <2>1, ThreadType, ThreadSteps DEF Phases
  <2>3. ~EndData(w)
    BY <2>1 DEF EndData, Idle
  <2> QED
    BY <2>1, <2>2, <2>3
<1>2. CASE EndData(w)
  <2>1. thread[w].job = NoJob /\ thread[w].phase = "data" /\ Enters(w, "post_data")
    BY <1>2, Zenon DEF EndData, Idle
  <2>2. Becomes(w, "post_data", NoJob, thread[w].todo)
    BY <2>1, ThreadType, ThreadSteps DEF Phases
  <2>3. ~BeginData(w)
    BY <2>1 DEF BeginData, Idle
  <2> QED
    BY <2>1, <2>2, <2>3
<1> QED
  BY <1>1, <1>2

LEMMA HandlerType ==
    ASSUME ControlTypes, ThreadsOK, NEW w \in Workers
    PROVE  /\ thread[w].job \in InitialJobs => thread[w].phase = "initial"
           /\ thread[w].todo \subseteq Rows(thread[w].job)
           /\ thread[w].job.type \in ListingTypes <=> thread[w].job \in ListingJobs
           /\ Runs(w, "DUMP_ALL_DATABASES") => thread[w].job = AllJob
           /\ Runs(w, "DUMP_TABLE_LIST") => thread[w].job = ListJob
           /\ Runs(w, "DUMP_DATABASE") =>
                /\ thread[w].job.object \in Databases
                /\ thread[w].job = DatabaseJob(thread[w].job.object)
           /\ Runs(w, "TABLE") =>
                /\ thread[w].job.object \in Tables
                /\ thread[w].job = TableJob(thread[w].job.object)
           /\ Runs(w, "WRITE_SOURCE_AND_REPLICA_STATUS") => thread[w].job = StatusJob
<1>1. Fits(thread[w])
  BY DEF ThreadsOK
<1>2. thread[w].job \in InitialJobs \cup Work \cup {NoJob}
  BY ThreadType DEF AnyJob
<1> QED
  BY <1>1, <1>2, JobTypes DEF Fits, Runs

LEMMA WriteStatusEffect ==
    ASSUME ControlTypes, ThreadsOK, NEW w \in Workers, WriteStatus(w)
    PROVE  thread[w].job = StatusJob /\ thread[w].phase = "initial"
           /\ Becomes(w, "initial", NoJob, {})
<1>1. Runs(w, "WRITE_SOURCE_AND_REPLICA_STATUS") /\ Ends(w)
  BY Zenon DEF WriteStatus
<1>2. thread[w].job = StatusJob /\ thread[w].phase = "initial"
  BY <1>1, HandlerType, JobTypes
<1> QED
  BY <1>1, <1>2, ThreadType, ThreadSteps

(* New jobs behind the others of a queue that has not been shut down. *)
Extended(q, r, j) ==
    /\ \A P : Items(r, P) = Items(q, P) + One(j \in P)
    /\ Without(ShutdownJob, q) => Without(ShutdownJob, r)

DatabaseMade(ds) ==
    /\ schema_queue' \in Seq(SchemaQueueJobs)
    /\ \A j : Items(schema_queue', {j}) = Items(schema_queue, {j})
                + One(\E d \in ds \ database_hash : j = Job("CREATE_DATABASE", d))
    /\ Without(ShutdownJob, schema_queue) => Without(ShutdownJob, schema_queue')

LEMMA DatabaseEffect ==
    ASSUME ControlTypes, NEW ds \in SUBSET Databases,
           schema_queue' = schema_queue \o CreateDatabaseJobs(ds)
    PROVE  DatabaseMade(ds)
<1> DEFINE c == CreateDatabaseJobs(ds)
           T == SchemaQueueJobs
<1>1. /\ c \in Seq(T) /\ Without(ShutdownJob, c)
      /\ \A j : Items(c, {j}) = One(\E d \in ds \ database_hash : j = Job("CREATE_DATABASE", d))
  BY CreateDatabaseItems DEF SchemaQueueJobs
<1>2. schema_queue \in Seq(T) /\ schema_queue' = schema_queue \o c
  BY QueueTypes
<1> HIDE DEF c, T
<1>3a. /\ schema_queue \o c \in Seq(T)
      /\ \A P : Items(schema_queue \o c, P) = Items(schema_queue, P) + Items(c, P)
      /\ \A y : Without(y, schema_queue) /\ Without(y, c) => Without(y, schema_queue \o c)
  BY <1>1, <1>2, QueueJoin
<1>3. /\ schema_queue' \in Seq(T)
      /\ \A P : Items(schema_queue', P) = Items(schema_queue, P) + Items(c, P)
      /\ \A y : Without(y, schema_queue) /\ Without(y, c) => Without(y, schema_queue')
  BY <1>2, <1>3a, Zenon
<1>4. \A j : Items(schema_queue', {j}) = Items(schema_queue, {j})
                + One(\E d \in ds \ database_hash : j = Job("CREATE_DATABASE", d))
  <2> TAKE j
  <2>1. Items(schema_queue', {j}) = Items(schema_queue, {j}) + Items(c, {j})
    BY <1>3
  <2>2. Items(c, {j}) = One(\E d \in ds \ database_hash : j = Job("CREATE_DATABASE", d))
    BY <1>1
  <2> QED
    BY <2>1, <2>2, Zenon
<1> QED
  BY <1>1, <1>3, <1>4 DEF DatabaseMade, T

LEMMA AppendEffect ==
    ASSUME NEW T, NEW q \in Seq(T), NEW j \in T, j # ShutdownJob
    PROVE  Append(q, j) \in Seq(T) /\ Extended(q, Append(q, j), j)
<1>1. /\ Append(q, j) \in Seq(T)
      /\ \A P : Items(Append(q, j), P) = Items(q, P) + One(j \in P)
      /\ \A y : Without(y, q) /\ j # y => Without(y, Append(q, j))
  BY QueueAppend
<1> QED
  BY <1>1 DEF Extended

LEMMA ListDatabaseEffect ==
    ASSUME ControlTypes, ThreadsOK, NEW w \in Workers, NEW d \in Databases, ListDatabase(w, d)
    PROVE  /\ thread[w].job = AllJob /\ thread[w].phase = "initial" /\ d \in thread[w].todo
           /\ Becomes(w, "initial", AllJob, thread[w].todo \ {d})
           /\ initial_queue' \in Seq(InitialQueueJobs)
           /\ Extended(initial_queue, initial_queue', DatabaseJob(d))
           /\ DatabaseMade({d})
<1>1. /\ Runs(w, "DUMP_ALL_DATABASES") /\ d \in thread[w].todo
      /\ schema_queue' = schema_queue \o CreateDatabaseJobs({d})
      /\ initial_queue' = Append(initial_queue, DatabaseJob(d))
      /\ thread' = [thread EXCEPT ![w].todo = @ \ {d}]
  BY Zenon DEF ListDatabase, DatabaseJob
<1>2. thread[w].job = AllJob /\ thread[w].phase = "initial"
  BY <1>1, HandlerType, JobTypes
<1>3. Becomes(w, "initial", AllJob, thread[w].todo \ {d})
  BY <1>1, <1>2, ThreadType, ThreadSteps
<1>4. DatabaseJob(d) \in InitialQueueJobs /\ DatabaseJob(d) # ShutdownJob
  BY JobTypes, JobSets DEF InitialQueueJobs
<1>5. initial_queue \in Seq(InitialQueueJobs)
  BY QueueTypes
<1>6. initial_queue' \in Seq(InitialQueueJobs) /\ Extended(initial_queue, initial_queue', DatabaseJob(d))
  BY <1>1, <1>4, <1>5, AppendEffect
<1>7. DatabaseMade({d})
  BY <1>1, DatabaseEffect
<1> QED
  BY <1>1, <1>2, <1>3, <1>6, <1>7

LEMMA ListTableEffect ==
    ASSUME ControlTypes, ThreadsOK, NEW w \in Workers, NEW t \in Tables, ListTable(w, t)
    PROVE  /\ thread[w].job \in {ListJob, DatabaseJob(DatabaseOf[t])}
           /\ thread[w].phase = "initial" /\ t \in thread[w].todo
           /\ Becomes(w, "initial", thread[w].job, thread[w].todo \ {t})
           /\ initial_queue' \in Seq(InitialQueueJobs)
           /\ Extended(initial_queue, initial_queue', TableJob(t))
           /\ DatabaseMade({DatabaseOf[t]})
<1>1. /\ Runs(w, "DUMP_DATABASE") \/ Runs(w, "DUMP_TABLE_LIST")
      /\ t \in thread[w].todo
      /\ schema_queue' = schema_queue \o CreateDatabaseJobs({DatabaseOf[t]})
      /\ initial_queue' = Append(initial_queue, TableJob(t))
      /\ thread' = [thread EXCEPT ![w].todo = @ \ {t}]
  BY Zenon DEF ListTable, TableJob
<1>2. thread[w].job \in {ListJob, DatabaseJob(DatabaseOf[t])}
  <2>1. CASE Runs(w, "DUMP_TABLE_LIST")
    BY <2>1, HandlerType
  <2>2. CASE Runs(w, "DUMP_DATABASE")
    <3> DEFINE d == thread[w].job.object
    <3>1. d \in Databases /\ thread[w].job = DatabaseJob(d)
      BY <2>2, HandlerType
    <3>2. Rows(thread[w].job) = TablesOf(d)
      BY <3>1, ThreadType, RowsType DEF AnyJob
    <3>3. t \in TablesOf(d)
      BY <1>1, <3>2, HandlerType
    <3> QED
      BY <3>1, <3>3 DEF TablesOf
  <2> QED
    BY <1>1, <2>1, <2>2
<1>3. DatabaseOf[t] \in Databases
  BY ObjectsAssumption
<1>4. thread[w].phase = "initial"
  BY <1>2, <1>3, HandlerType, JobTypes
<1>5. Becomes(w, "initial", thread[w].job, thread[w].todo \ {t})
  BY <1>1, <1>4, ThreadType, ThreadSteps
<1>6. TableJob(t) \in InitialQueueJobs /\ TableJob(t) # ShutdownJob
  BY JobTypes, JobSets DEF InitialQueueJobs
<1>7. initial_queue \in Seq(InitialQueueJobs)
  BY QueueTypes
<1>8. initial_queue' \in Seq(InitialQueueJobs) /\ Extended(initial_queue, initial_queue', TableJob(t))
  BY <1>1, <1>6, <1>7, AppendEffect
<1>9. DatabaseMade({DatabaseOf[t]})
  BY <1>1, <1>3, DatabaseEffect
<1> QED
  BY <1>1, <1>2, <1>4, <1>5, <1>8, <1>9

(* Jobs x of a database or a table go to a queue, or do not. *)
Gets(q, r, c, x) ==
    /\ \A j : Items(r, {j}) = Items(q, {j}) + One(c /\ j = x)
    /\ Without(ShutdownJob, q) => Without(ShutdownJob, r)

LEMMA GetsEffect ==
    ASSUME NEW T, NEW q \in Seq(T), NEW j \in T, j # ShutdownJob,
           NEW c \in BOOLEAN
    PROVE  LET r == IF c THEN Append(q, j) ELSE q
           IN  r \in Seq(T) /\ Gets(q, r, c, j)
<1> DEFINE r == IF c THEN Append(q, j) ELSE q
<1>1. CASE c
  <2>0. r = Append(q, j)
    BY <1>1
  <2>1. r \in Seq(T) /\ Extended(q, r, j)
    BY <2>0, AppendEffect
  <2>2. \A i : Items(r, {i}) = Items(q, {i}) + One(j \in {i})
    BY <2>1 DEF Extended
  <2>3. \A i : (j \in {i}) <=> (c /\ i = j)
    BY <1>1
  <2>4. \A i : Items(r, {i}) = Items(q, {i}) + One(c /\ i = j)
    BY <2>2, <2>3 DEF One
  <2> QED
    BY <2>1, <2>4 DEF Gets, Extended
<1>2. CASE ~c
  <2>1. r = q /\ \A i : Items(q, {i}) \in Nat
    BY <1>2, ItemsType
  <2>2. \A i : Items(r, {i}) = Items(q, {i}) + One(c /\ i = j)
    BY <1>2, <2>1 DEF One
  <2> QED
    BY <2>1, <2>2 DEF Gets
<1> QED
  BY <1>1, <1>2

LEMMA EndListingEffect ==
    ASSUME ControlTypes, ThreadsOK, NEW w \in Workers, EndListing(w)
    PROVE  LET j == thread[w].job IN
           /\ j \in ListingJobs /\ thread[w].phase = "initial" /\ thread[w].todo = {}
           /\ Becomes(w, "initial", NoJob, {})
           /\ schema_queue' \in Seq(SchemaQueueJobs)
           /\ post_data_queue' \in Seq(PostDataQueueJobs)
           /\ Gets(schema_queue, schema_queue',
                   j.type = "DUMP_DATABASE" /\ j.object \in Routines, Job("SCHEMA_POST", j.object))
           /\ Gets(post_data_queue, post_data_queue',
                   j.type = "DUMP_DATABASE", Job("SCHEMA_TRIGGERS", j.object))
<1> DEFINE j == thread[w].job
           x == Job("SCHEMA_POST", j.object)
           y == Job("SCHEMA_TRIGGERS", j.object)
<1>1. /\ j.type \in ListingTypes /\ thread[w].todo = {}
      /\ schema_queue' = IF j.type = "DUMP_DATABASE" /\ j.object \in Routines
                         THEN Append(schema_queue, x) ELSE schema_queue
      /\ post_data_queue' = IF j.type = "DUMP_DATABASE"
                            THEN Append(post_data_queue, y) ELSE post_data_queue
      /\ Ends(w)
  BY Zenon DEF EndListing
<1>2. j \in ListingJobs /\ thread[w].phase = "initial"
  BY <1>1, HandlerType, JobTypes
<1>3. Becomes(w, "initial", NoJob, {})
  BY <1>1, <1>2, ThreadType, ThreadSteps
<1>4. CASE j.type = "DUMP_DATABASE"
  <2>1. j.object \in Databases
    BY <1>4, HandlerType DEF Runs
  <2>2. x \in SchemaQueueJobs /\ x # ShutdownJob /\ y \in PostDataQueueJobs /\ y # ShutdownJob
    BY <2>1, JobSets DEF SchemaQueueJobs, PostDataQueueJobs, SchemaWork, PostDataWork
  <2>4. /\ schema_queue \in Seq(SchemaQueueJobs) /\ post_data_queue \in Seq(PostDataQueueJobs)
        /\ schema_queue' = IF j.object \in Routines THEN Append(schema_queue, x) ELSE schema_queue
        /\ post_data_queue' = Append(post_data_queue, y)
    BY <1>1, <1>4, QueueTypes
  <2> HIDE DEF x, y, j
  <2>5. schema_queue' \in Seq(SchemaQueueJobs) /\ Gets(schema_queue, schema_queue', j.object \in Routines, x)
    <3>1. CASE j.object \in Routines
      <4>1. /\ Append(schema_queue, x) \in Seq(SchemaQueueJobs)
            /\ Gets(schema_queue, Append(schema_queue, x), TRUE, x)
        BY <2>2, <2>4, GetsEffect
      <4> QED
        BY <2>4, <3>1, <4>1 DEF Gets
    <3>2. CASE j.object \notin Routines
      <4>1. Gets(schema_queue, schema_queue, FALSE, x)
        BY <2>2, <2>4, GetsEffect
      <4> QED
        BY <2>4, <3>2, <4>1 DEF Gets
    <3> QED
      BY <3>1, <3>2
  <2>6. post_data_queue' \in Seq(PostDataQueueJobs) /\ Extended(post_data_queue, post_data_queue', y)
    BY <2>2, <2>4, AppendEffect
  <2>7. Gets(post_data_queue, post_data_queue', j.type = "DUMP_DATABASE", y)
    <3>1. \A i : Items(post_data_queue', {i}) = Items(post_data_queue, {i}) + One(y \in {i})
      BY <2>6 DEF Extended
    <3>2. \A i : (y \in {i}) <=> (j.type = "DUMP_DATABASE" /\ i = y)
      BY <1>4
    <3>3. \A i : Items(post_data_queue', {i}) =
                 Items(post_data_queue, {i}) + One(j.type = "DUMP_DATABASE" /\ i = y)
      BY <3>1, <3>2 DEF One
    <3> QED
      BY <2>6, <3>3 DEF Gets, Extended
  <2>8. Gets(schema_queue, schema_queue', j.type = "DUMP_DATABASE" /\ j.object \in Routines, x)
    BY <1>4, <2>5 DEF Gets, One
  <2> QED
    BY <1>1, <1>2, <1>3, <2>5, <2>6, <2>7, <2>8 DEF x, y, j
<1>5. CASE j.type # "DUMP_DATABASE"
  <2>1. schema_queue' = schema_queue /\ post_data_queue' = post_data_queue
    BY <1>1, <1>5
  <2>2. /\ schema_queue \in Seq(SchemaQueueJobs) /\ post_data_queue \in Seq(PostDataQueueJobs)
    BY QueueTypes
  <2>3. \A i : Items(schema_queue, {i}) \in Nat /\ Items(post_data_queue, {i}) \in Nat
    BY <2>2, ItemsType
  <2> HIDE DEF x, y, j
  <2>4. Gets(schema_queue, schema_queue', j.type = "DUMP_DATABASE" /\ j.object \in Routines, x)
    <3>1. \A i : One(j.type = "DUMP_DATABASE" /\ j.object \in Routines /\ i = x) = 0
      BY <1>5 DEF One
    <3>2. \A i : Items(schema_queue, {i}) + 0 = Items(schema_queue, {i})
      BY <2>3
    <3> QED
      BY <2>1, <3>1, <3>2, Zenon DEF Gets
  <2>5. Gets(post_data_queue, post_data_queue', j.type = "DUMP_DATABASE", y)
    <3>1. \A i : One(j.type = "DUMP_DATABASE" /\ i = y) = 0
      BY <1>5 DEF One
    <3>2. \A i : Items(post_data_queue, {i}) + 0 = Items(post_data_queue, {i})
      BY <2>3
    <3> QED
      BY <2>1, <3>1, <3>2, Zenon DEF Gets
  <2> QED
    BY <1>1, <1>2, <1>3, <2>1, <2>2, <2>4, <2>5 DEF x, y, j
<1> QED
  BY <1>4, <1>5

LEMMA SelectFailsEffect ==
    ASSUME ControlTypes, ThreadsOK, NEW w \in Workers, SelectDatabaseFails(w)
    PROVE  LET d == thread[w].job.object IN
           /\ d \in Databases /\ thread[w].job = DatabaseJob(d)
           /\ thread[w].phase = "initial" /\ thread[w].todo = TablesOf(d)
           /\ unreadable' = unreadable \cup {d}
           /\ Becomes(w, "initial", NoJob, {})
<1>1. /\ Runs(w, "DUMP_DATABASE") /\ Ends(w)
      /\ thread[w].todo = TablesOf(thread[w].job.object)
      /\ unreadable' = unreadable \cup {thread[w].job.object}
  BY Zenon DEF SelectDatabaseFails, Runs
<1>2. thread[w].job.object \in Databases /\ thread[w].job = DatabaseJob(thread[w].job.object)
  BY <1>1, HandlerType
<1>3. thread[w].phase = "initial"
  BY <1>2, HandlerType, JobTypes
<1>4. Becomes(w, "initial", NoJob, {})
  BY <1>1, <1>3, ThreadType, ThreadSteps
<1> QED
  BY <1>1, <1>2, <1>3, <1>4

PostDataTypes == {"VIEW", "SEQUENCE", "TRIGGERS", "CHECKSUM"}

(* Each post-data job of a table comes once. *)
LEMMA PostDataItems ==
    ASSUME NEW t \in Tables
    PROVE  /\ PostDataJobs(t) \in Seq(PostDataQueueJobs)
           /\ Without(ShutdownJob, PostDataJobs(t))
           /\ \A j : Items(PostDataJobs(t), {j}) =
                       One(\E type \in PostDataTypes : WantedOf(t, type) /\ j = Job(type, t))
           /\ ToSet(PostDataJobs(t)) =
                {Job(type, t) : type \in {y \in PostDataTypes : WantedOf(t, y)}}
<1> DEFINE W == {Job(type, t) : type \in {y \in PostDataTypes : WantedOf(t, y)}}
           p == PostDataJobs(t)
<1>1. KindOf[t] \in Kinds
  BY ObjectsAssumption
<1>2. W \subseteq PostDataWork
  BY DEF PostDataWork, PostDataTypes
<1>3. /\ KindOf[t] = "sequence" => p = <<Job("SEQUENCE", t)>> /\ W = {Job("SEQUENCE", t)}
      /\ KindOf[t] = "view" => p = <<Job("VIEW", t)>> /\ W = {Job("VIEW", t)}
      /\ KindOf[t] \in {"innodb", "myisam"} =>
           /\ request = "tables" => /\ p = <<Job("TRIGGERS", t), Job("CHECKSUM", t)>>
                                    /\ W = {Job("TRIGGERS", t), Job("CHECKSUM", t)}
           /\ request # "tables" => p = <<Job("CHECKSUM", t)>> /\ W = {Job("CHECKSUM", t)}
  <2>1. CASE KindOf[t] = "sequence"
    BY <2>1 DEF PostDataJobs, WantedOf, PostDataTypes
  <2>2. CASE KindOf[t] = "view"
    BY <2>2 DEF PostDataJobs, WantedOf, PostDataTypes
  <2>3. CASE KindOf[t] \in {"innodb", "myisam"}
    <3>1. KindOf[t] # "sequence" /\ KindOf[t] # "view"
      BY <2>3
    <3>2. PostDataJobs(t) = (IF request = "tables" THEN <<Job("TRIGGERS", t)>> ELSE <<>>)
                  \o <<Job("CHECKSUM", t)>>
      BY <3>1 DEF PostDataJobs
    <3>3. \A type \in PostDataTypes : WantedOf(t, type) <=>
             (type = "CHECKSUM" \/ (type = "TRIGGERS" /\ request = "tables"))
      BY <2>3, <3>1 DEF WantedOf, PostDataTypes
    <3>4. ASSUME NEW x, NEW y
          PROVE  <<x>> \o <<y>> = <<x, y>> /\ <<>> \o <<y>> = <<y>>
      <4>1. <<x>> \o <<y>> = Append(<<x>>, y)
        OBVIOUS
      <4>2. <<x, y>> = Append(<<x>>, y)
        OBVIOUS
      <4>3. <<>> \o <<y>> = <<y>>
        OBVIOUS
      <4> QED
        BY <4>1, <4>2, <4>3, Zenon
    <3>5. W = IF request = "tables" THEN {Job("TRIGGERS", t), Job("CHECKSUM", t)}
                                    ELSE {Job("CHECKSUM", t)}
      BY <3>3 DEF PostDataTypes
    <3> HIDE DEF W
    <3> QED
      BY <3>1, <3>2, <3>4, <3>5
  <2> QED
    BY <1>1, <2>1, <2>2, <2>3 DEF Kinds
<1>4. Job("TRIGGERS", t) # Job("CHECKSUM", t)
  BY DEF Job
<1>5. \/ \E x : p = <<x>> /\ W = {x}
      \/ \E x, y : x # y /\ p = <<x, y>> /\ W = {x, y}
  <2> HIDE DEF p, W
  <2> QED
    BY <1>1, <1>3, <1>4 DEF Kinds
<1>6. \A j : j \in W <=> \E type \in PostDataTypes : WantedOf(t, type) /\ j = Job(type, t)
  OBVIOUS
<1> HIDE DEF p, W
<1>7. ASSUME NEW x, p = <<x>>, W = {x}
      PROVE  p \in Seq(W) /\ ToSet(p) = W /\ \A j : Items(p, {j}) = One(j \in W)
  <2>1. p \in Seq(W) /\ DOMAIN p = {1} /\ p[1] = x
    BY <1>7
  <2>2. ToSet(p) = W
    BY <1>7, <2>1 DEF ToSet
  <2>3. ASSUME NEW j
        PROVE  Items(p, {j}) = One(j \in W)
    <3>1. {n \in DOMAIN p : p[n] \in {j}} = IF j \in W THEN {1} ELSE {}
      BY <1>7, <2>1
    <3>2. Cardinality({1}) = 1 /\ Cardinality({}) = 0
      BY FS_Singleton, FS_EmptySet
    <3> QED
      BY <3>1, <3>2 DEF Items, One
  <2> QED
    BY <2>1, <2>2, <2>3
<1>8. ASSUME NEW x, NEW y, x # y, p = <<x, y>>, W = {x, y}
      PROVE  p \in Seq(W) /\ ToSet(p) = W /\ \A j : Items(p, {j}) = One(j \in W)
  <2>1. p \in Seq(W) /\ DOMAIN p = {1, 2} /\ p[1] = x /\ p[2] = y
    BY <1>8
  <2>2. ToSet(p) = W
    BY <1>8, <2>1 DEF ToSet
  <2>3. ASSUME NEW j
        PROVE  Items(p, {j}) = One(j \in W)
    <3>1. {n \in DOMAIN p : p[n] \in {j}} = IF j = x THEN {1} ELSE IF j = y THEN {2} ELSE {}
      BY <1>8, <2>1
    <3>2. Cardinality({1}) = 1 /\ Cardinality({2}) = 1 /\ Cardinality({}) = 0
      BY FS_Singleton, FS_EmptySet
    <3> QED
      BY <1>8, <3>1, <3>2 DEF Items, One
  <2> QED
    BY <2>1, <2>2, <2>3
<1>9. p \in Seq(W) /\ ToSet(p) = W /\ \A j : Items(p, {j}) = One(j \in W)
  BY <1>5, <1>7, <1>8
<1>10. p \in Seq(PostDataQueueJobs)
  BY <1>2, <1>9 DEF PostDataQueueJobs
<1>11. Without(ShutdownJob, p)
  <2>1. ShutdownJob \notin W
    BY <1>2, JobSets
  <2>2. \A n \in DOMAIN p : p[n] \in W
    BY <1>9
  <2> QED
    BY <2>1, <2>2 DEF Without
<1>12. \A j : Items(p, {j}) =
                One(\E type \in PostDataTypes : WantedOf(t, type) /\ j = Job(type, t))
  BY <1>6, <1>9 DEF One
<1> QED
  BY <1>9, <1>10, <1>11, <1>12 DEF p, W

LEMMA NewTableEffect ==
    ASSUME ControlTypes, ThreadsOK, NEW w \in Workers, NewTable(w)
    PROVE  LET t == thread[w].job.object IN
           /\ t \in Tables /\ thread[w].job = TableJob(t) /\ thread[w].phase = "initial"
           /\ Becomes(w, "initial", NoJob, {})
           /\ schema_queue' \in Seq(SchemaQueueJobs)
           /\ post_data_queue' \in Seq(PostDataQueueJobs)
           /\ Gets(schema_queue, schema_queue', KindOf[t] \in {"innodb", "myisam"},
                   Job("SCHEMA", t))
           /\ \A j : Items(post_data_queue', {j}) = Items(post_data_queue, {j})
                 + One(\E type \in PostDataTypes : WantedOf(t, type) /\ j = Job(type, t))
           /\ Without(ShutdownJob, post_data_queue) => Without(ShutdownJob, post_data_queue')
           /\ transactional_table' = transactional_table
                   \cup (IF KindOf[t] = "innodb" THEN {t} ELSE {})
           /\ non_transactional_table' = non_transactional_table
                   \cup (IF KindOf[t] = "myisam" THEN {t} ELSE {})
<1> DEFINE t == thread[w].job.object
           x == Job("SCHEMA", t)
           e == PostDataJobs(t)
<1>1. /\ Runs(w, "TABLE") /\ Ends(w)
      /\ schema_queue' = IF KindOf[t] \in {"innodb", "myisam"}
                         THEN Append(schema_queue, x) ELSE schema_queue
      /\ post_data_queue' = post_data_queue \o e
      /\ transactional_table' = transactional_table
              \cup (IF KindOf[t] = "innodb" THEN {t} ELSE {})
      /\ non_transactional_table' = non_transactional_table
              \cup (IF KindOf[t] = "myisam" THEN {t} ELSE {})
  BY Zenon DEF NewTable
<1>2. t \in Tables /\ thread[w].job = TableJob(t)
  BY <1>1, HandlerType
<1>3. thread[w].phase = "initial"
  BY <1>2, HandlerType, JobTypes
<1>4. Becomes(w, "initial", NoJob, {})
  BY <1>1, <1>3, ThreadType, ThreadSteps
<1>5. schema_queue \in Seq(SchemaQueueJobs) /\ post_data_queue \in Seq(PostDataQueueJobs)
  BY QueueTypes
<1>6. x \in SchemaQueueJobs /\ x # ShutdownJob
  BY <1>2, JobSets DEF SchemaQueueJobs, SchemaWork
<1>7. /\ e \in Seq(PostDataQueueJobs) /\ Without(ShutdownJob, e)
      /\ \A j : Items(e, {j}) =
                  One(\E type \in PostDataTypes : WantedOf(t, type) /\ j = Job(type, t))
  BY <1>2, PostDataItems
<1> HIDE DEF t, x, e
<1>8. /\ post_data_queue \o e \in Seq(PostDataQueueJobs)
      /\ \A P : Items(post_data_queue \o e, P) = Items(post_data_queue, P) + Items(e, P)
      /\ \A y : Without(y, post_data_queue) /\ Without(y, e) => Without(y, post_data_queue \o e)
  BY <1>5, <1>7, QueueJoin
<1>9. /\ post_data_queue' \in Seq(PostDataQueueJobs)
      /\ \A j : Items(post_data_queue', {j}) = Items(post_data_queue, {j}) + Items(e, {j})
      /\ Without(ShutdownJob, post_data_queue) => Without(ShutdownJob, post_data_queue')
  BY <1>1, <1>7, <1>8, Zenon
<1>10. \A j : Items(post_data_queue', {j}) = Items(post_data_queue, {j})
                 + One(\E type \in PostDataTypes : WantedOf(t, type) /\ j = Job(type, t))
  <2> TAKE j
  <2>1. Items(post_data_queue', {j}) = Items(post_data_queue, {j}) + Items(e, {j})
    BY <1>9
  <2>2. Items(e, {j}) =
          One(\E type \in PostDataTypes : WantedOf(t, type) /\ j = Job(type, t))
    BY <1>7
  <2> QED
    BY <2>1, <2>2, Zenon
<1>11. schema_queue' \in Seq(SchemaQueueJobs)
       /\ Gets(schema_queue, schema_queue', KindOf[t] \in {"innodb", "myisam"}, x)
  <2>1. CASE KindOf[t] \in {"innodb", "myisam"}
    <3>1. /\ Append(schema_queue, x) \in Seq(SchemaQueueJobs)
          /\ Gets(schema_queue, Append(schema_queue, x), TRUE, x)
      BY <1>5, <1>6, GetsEffect
    <3> QED
      BY <1>1, <2>1, <3>1 DEF Gets
  <2>2. CASE KindOf[t] \notin {"innodb", "myisam"}
    <3>1. Gets(schema_queue, schema_queue, FALSE, x)
      BY <1>5, <1>6, GetsEffect
    <3> QED
      BY <1>1, <1>5, <2>2, <3>1 DEF Gets
  <2> QED
    BY <2>1, <2>2
<1> QED
  BY <1>1, <1>2, <1>3, <1>4, <1>9, <1>10, <1>11 DEF t, x

LEMMA ProcessEffect ==
    ASSUME ControlTypes, ThreadsOK, NEW w \in Workers, ProcessJob(w)
    PROVE  /\ thread[w].job \in Work /\ thread[w].phase \in {"schema", "post_data"}
           /\ Becomes(w, thread[w].phase, NoJob, {})
           /\ done' = [done EXCEPT ![thread[w].job] = @ + 1]
<1>1. /\ thread[w].job \in Work /\ Ends(w)
      /\ done' = [done EXCEPT ![thread[w].job] = @ + 1]
  BY Zenon DEF ProcessJob
<1>2. Fits(thread[w])
  BY DEF ThreadsOK
<1>3. thread[w].phase \in {"schema", "post_data"}
  BY <1>1, <1>2 DEF Fits, Work
<1>4. Becomes(w, thread[w].phase, NoJob, {})
  BY <1>1, ThreadType, ThreadSteps
<1> QED
  BY <1>1, <1>3, <1>4

-----------------------------------------------------------------------------
LEMMA WorkerFrame ==
    ASSUME NEW w, Worker(w)
    PROVE  UNCHANGED <<request, main, lock_tables_statement, metadata, shutdown_triggered>>
<1>1. CASE TakeInitialJob(w)
  BY <1>1, Zenon DEF TakeInitialJob, lists
<1>2. CASE EndInitial(w)
  BY <1>2, Zenon DEF EndInitial, lists
<1>3. CASE TakeSchemaJob(w)
  BY <1>3, Zenon DEF TakeSchemaJob, lists
<1>4. CASE EndSchema(w)
  BY <1>4, Zenon DEF EndSchema, lists
<1>5. CASE BeginData(w)
  BY <1>5, Zenon DEF BeginData, lists
<1>6. CASE EndData(w)
  BY <1>6, Zenon DEF EndData, lists
<1>7. CASE TakePostDataJob(w)
  BY <1>7, Zenon DEF TakePostDataJob, lists
<1>8. CASE EndPostData(w)
  BY <1>8, Zenon DEF EndPostData, lists
<1>9. CASE WriteStatus(w)
  BY <1>9, Zenon DEF WriteStatus, lists
<1>10. CASE \E d \in Databases : ListDatabase(w, d)
  BY <1>10, Zenon DEF ListDatabase, lists
<1>11. CASE \E t \in Tables : ListTable(w, t)
  BY <1>11, Zenon DEF ListTable, lists
<1>12. CASE EndListing(w)
  BY <1>12, Zenon DEF EndListing, lists
<1>13. CASE SelectDatabaseFails(w)
  BY <1>13, Zenon DEF SelectDatabaseFails, lists
<1>14. CASE NewTable(w)
  BY <1>14, Zenon DEF NewTable
<1>15. CASE ProcessJob(w)
  BY <1>15, Zenon DEF ProcessJob, lists
<1> QED
  BY <1>1, <1>2, <1>3, <1>4, <1>5, <1>6, <1>7, <1>8, <1>9, <1>10, <1>11, <1>12, <1>13,
     <1>14, <1>15 DEF Worker

(* Who lists keeps the counter up, and who is in the first phase keeps the *)
(* main thread from closing the later queues.                              *)
LEMMA ListingHeld ==
    ASSUME ControlTypes, CounterOK, NEW w \in Workers, thread[w].job \in ListingJobs
    PROVE  database_counter >= 1 /\ main \notin AfterListing /\ tokens.db_ready = 0
<1> DEFINE q == Items(initial_queue, ListingJobs)
           m == Many(Workers, thread, Doing(ListingJobs))
<1>1. q \in Nat
  BY QueueTypes, ItemsType
<1>2. m \in Nat /\ m # 0
  <2>1. thread[w] \in Doing(ListingJobs)
    BY ThreadType DEF Doing
  <2> QED
    BY <2>1, ManyType
<1>3. q + m <= database_counter
  BY DEF CounterOK, Listings, Listed
<1>4. database_counter \in Nat /\ tokens.db_ready \in Nat
  BY DEF ControlTypes
<1> HIDE DEF q, m
<1>5. database_counter >= 1
  BY <1>1, <1>2, <1>3, <1>4
<1> QED
  BY <1>4, <1>5 DEF CounterOK, One

LEMMA InitialHeld ==
    ASSUME ControlTypes, BarriersOK, NEW w \in Workers, thread[w].phase = "initial"
    PROVE  main \notin AfterInitial
<1>1. thread[w] \notin Left
  BY DEF Left, AtPhase
<1>2. ~(Many(Workers, thread, Left) >= N)
  BY <1>1, ManyType
<1>3. tokens.initial_completed \in Nat
  BY DEF ControlTypes
<1> QED
  BY <1>2, <1>3, NType DEF BarriersOK

LEMMA WorkerRuns ==
    ASSUME ControlTypes, FreshOK, NEW w \in Workers, Worker(w)
    PROVE  main # "jobs"
<1> SUFFICES ASSUME main = "jobs" PROVE FALSE
  OBVIOUS
<1>1. thread[w].job = NoJob
  BY DEF FreshOK
<1>2. NoJob.type = "none" /\ NoJob \notin Work
  BY JobSets DEF Work
<1>3. \A p : ~Idle(w, p)
  BY DEF Idle
<1>4. \A y \in ListingTypes \cup {"TABLE", "WRITE_SOURCE_AND_REPLICA_STATUS"} : ~Runs(w, y)
  BY <1>1, <1>2 DEF Runs, ListingTypes
<1> QED
  BY <1>1, <1>2, <1>3, <1>4 DEF Worker, TakeInitialJob, EndInitial, TakeSchemaJob, EndSchema,
     BeginData, EndData, TakePostDataJob, EndPostData, WriteStatus, ListDatabase, ListTable,
     EndListing, SelectDatabaseFails, NewTable, ProcessJob, Runs, ListingTypes

LEMMA CountDownType ==
    ASSUME ControlTypes, CounterOK, NEW w \in Workers, thread[w].job \in ListingJobs, CountDown
    PROVE  /\ database_counter' \in Nat /\ database_counter' = database_counter - 1
           /\ tokens' \in [status : Nat, db_ready : Nat, initial_completed : Nat,
                           ready_non_transactional : Nat]
           /\ tokens'.status = tokens.status
           /\ tokens'.initial_completed = tokens.initial_completed
           /\ tokens'.ready_non_transactional = tokens.ready_non_transactional
           /\ tokens'.db_ready = One(database_counter = 1)
<1>1. database_counter >= 1 /\ tokens.db_ready = 0
  BY ListingHeld
<1>2. /\ database_counter \in Nat
      /\ tokens \in [status : Nat, db_ready : Nat, initial_completed : Nat,
                     ready_non_transactional : Nat]
  BY DEF ControlTypes
<1>3. /\ database_counter' = database_counter - 1
      /\ tokens' = IF database_counter = 1
                 THEN [tokens EXCEPT !.db_ready = @ + 1] ELSE tokens
  BY DEF CountDown
<1>4. CASE database_counter = 1
  <2>1. tokens' = [tokens EXCEPT !.db_ready = tokens.db_ready + 1]
    BY <1>3, <1>4
  <2>2. database_counter' \in Nat
    BY <1>3, <1>4
  <2> QED
    BY <1>1, <1>2, <1>3, <1>4, <2>1, <2>2 DEF One
<1>5. CASE database_counter # 1
  <2>1. tokens' = tokens
    BY <1>3, <1>5
  <2> QED
    BY <1>1, <1>2, <1>3, <1>5, <2>1 DEF One
<1> QED
  BY <1>4, <1>5

-----------------------------------------------------------------------------
LEMMA TokenSteps ==
    ASSUME NEW s \in [status : Nat, db_ready : Nat, initial_completed : Nat,
                      ready_non_transactional : Nat], NEW n \in Nat
    PROVE  LET TokenRecord == [status : Nat, db_ready : Nat, initial_completed : Nat,
                               ready_non_transactional : Nat]
           IN  /\ [s EXCEPT !.status = @ + 1] \in TokenRecord
               /\ s.status >= 1 => [s EXCEPT !.status = @ - 1] \in TokenRecord
               /\ s.db_ready >= 1 => [s EXCEPT !.db_ready = @ - 1] \in TokenRecord
               /\ [s EXCEPT !.initial_completed = @ + 1] \in TokenRecord
               /\ s.initial_completed >= n =>
                    [s EXCEPT !.initial_completed = @ - n, !.ready_non_transactional = @ + n]
                       \in TokenRecord
               /\ s.ready_non_transactional >= 1 =>
                    [s EXCEPT !.ready_non_transactional = @ - 1] \in TokenRecord
<1>1. s.initial_completed >= n =>
        [s EXCEPT !.initial_completed = @ - n, !.ready_non_transactional = @ + n]
           \in [status : Nat, db_ready : Nat, initial_completed : Nat,
                ready_non_transactional : Nat]
  <2> DEFINE a == s.initial_completed - n
             b == s.ready_non_transactional + n
  <2>1. s.initial_completed >= n => a \in Nat /\ b \in Nat
    OBVIOUS
  <2> HIDE DEF a, b
  <2>2. a \in Nat /\ b \in Nat =>
           [s EXCEPT !.initial_completed = a, !.ready_non_transactional = b]
           \in [status : Nat, db_ready : Nat, initial_completed : Nat,
                ready_non_transactional : Nat]
    OBVIOUS
  <2> QED
    BY <2>1, <2>2 DEF a, b
<1> QED
  BY <1>1

LEMMA FirstJobsType ==
    ASSUME RegistryTypes
    PROVE  /\ FirstJobs \subseteq ListingJobs /\ IsFiniteSet(FirstJobs)
           /\ request = "tables" => FirstJobs = {ListJob}
           /\ request = "databases" => FirstJobs = {DatabaseJob(d) : d \in Databases}
           /\ request = "all" => FirstJobs = {AllJob}
<1>1. /\ request = "tables" => FirstJobs = {ListJob}
      /\ request = "databases" => FirstJobs = {DatabaseJob(d) : d \in Databases}
      /\ request = "all" => FirstJobs = {AllJob}
  BY DEF FirstJobs, ListJob, DatabaseJob, AllJob
<1>2. request \in {"tables", "databases", "all"}
  BY DEF RegistryTypes
<1>3. FirstJobs \subseteq ListingJobs
  BY <1>1, <1>2, JobTypes
<1>4. IsFiniteSet({ListJob}) /\ IsFiniteSet({AllJob})
  BY FS_Singleton
<1>5. IsFiniteSet({DatabaseJob(d) : d \in Databases})
  BY ObjectsAssumption, FiniteJobs DEF DatabaseJob
<1> QED
  BY <1>1, <1>2, <1>3, <1>4, <1>5

LEMMA CreateJobsEffect ==
    ASSUME ControlTypes, RegistryTypes, FreshOK, CreateJobs
    PROVE  /\ initial_queue' \in Seq(InitialQueueJobs)
           /\ Without(ShutdownJob, initial_queue')
           /\ \A P : Items(initial_queue', P) = One(StatusJob \in P) + Cardinality(FirstJobs \cap P)
           /\ DatabaseMade(IF request = "databases" THEN Databases ELSE {})
           /\ database_counter' = Cardinality(FirstJobs) /\ database_counter' \in Nat
<1> DEFINE named == IF request = "databases" THEN Databases ELSE {}
           s == <<StatusJob>>
           T == InitialQueueJobs
<1>1. PICK f \in SetToSeqs(FirstJobs) : initial_queue' = s \o f
  BY DEF CreateJobs, StatusJob
<1>2. /\ main = "jobs" /\ database_counter' = Cardinality(FirstJobs)
      /\ schema_queue' = CreateDatabaseJobs(named)
  BY DEF CreateJobs
<1>3. FirstJobs \subseteq ListingJobs /\ IsFiniteSet(FirstJobs)
  BY FirstJobsType
<1>4. f \in Seq(FirstJobs) /\ \A P : Items(f, P) = Cardinality(FirstJobs \cap P)
  BY <1>3, SetToSeqsItems
<1>5. FirstJobs \subseteq InitialJobs /\ StatusJob \in InitialJobs
  BY <1>3, JobTypes
<1>6. f \in Seq(T)
  BY <1>4, <1>5 DEF InitialQueueJobs
<1>7. Without(ShutdownJob, f)
  <2>1. \A n \in DOMAIN f : f[n] \in FirstJobs
    BY <1>4
  <2> QED
    BY <1>5, <2>1, JobSets DEF Without
<1>8. s \in Seq(T) /\ Without(ShutdownJob, s)
  BY <1>5, JobSets DEF InitialQueueJobs, Without
<1>9. \A P : Items(s, P) = One(StatusJob \in P)
  <2> TAKE P
  <2>1. {n \in DOMAIN s : s[n] \in P} = IF StatusJob \in P THEN {1} ELSE {}
    OBVIOUS
  <2>2. Cardinality({1}) = 1 /\ Cardinality({}) = 0
    BY FS_Singleton, FS_EmptySet
  <2> QED
    BY <2>1, <2>2 DEF Items, One
<1> HIDE DEF s, T
<1>10. /\ s \o f \in Seq(T)
       /\ \A P : Items(s \o f, P) = Items(s, P) + Items(f, P)
       /\ \A y : Without(y, s) /\ Without(y, f) => Without(y, s \o f)
  BY <1>6, <1>8, QueueJoin
<1>11. /\ initial_queue' \in Seq(T) /\ Without(ShutdownJob, initial_queue')
       /\ \A P : Items(initial_queue', P) = Items(s, P) + Items(f, P)
  BY <1>1, <1>7, <1>8, <1>10, Zenon
<1>12. \A P : Items(initial_queue', P) = One(StatusJob \in P) + Cardinality(FirstJobs \cap P)
  <2> TAKE P
  <2>1. Items(initial_queue', P) = Items(s, P) + Items(f, P)
    BY <1>11
  <2>2. Items(s, P) = One(StatusJob \in P) /\ Items(f, P) = Cardinality(FirstJobs \cap P)
    BY <1>4, <1>9
  <2> QED
    BY <2>1, <2>2, Zenon
<1>13. schema_queue = <<>>
  BY <1>2 DEF FreshOK
<1>14. named \in SUBSET Databases
  OBVIOUS
<1>15. DatabaseMade(named)
  <2> DEFINE c == CreateDatabaseJobs(named)
  <2>1. /\ c \in Seq(SchemaQueueJobs) /\ Without(ShutdownJob, c)
        /\ \A j : Items(c, {j}) = One(\E d \in named \ database_hash : j = Job("CREATE_DATABASE", d))
    BY <1>14, CreateDatabaseItems DEF SchemaQueueJobs
  <2>2. schema_queue' = schema_queue \o c
    BY <1>2, <1>13, <2>1
  <2> QED
    BY <1>14, <2>2, DatabaseEffect
<1>16. Cardinality(FirstJobs) \in Nat
  BY <1>3, FS_CardinalityType
<1> QED
  BY <1>2, <1>11, <1>12, <1>15, <1>16 DEF T

-----------------------------------------------------------------------------
TokenRecord == [status : Nat, db_ready : Nat, initial_completed : Nat,
                ready_non_transactional : Nat]

LEMMA ShutdownsJoin ==
    ASSUME NEW S, NEW q \in Seq(S \cup {ShutdownJob})
    PROVE  /\ q \o Shutdowns \in Seq(S \cup {ShutdownJob})
           /\ Ordered(q) => Ordered(q \o Shutdowns)
           /\ \A y : Without(y, q) /\ y # ShutdownJob => Without(y, q \o Shutdowns)
           /\ Only(ShutdownJob, q) => Only(ShutdownJob, q \o Shutdowns)
           /\ \A P : ShutdownJob \notin P => Items(q \o Shutdowns, P) = Items(q, P)
<1> DEFINE T == S \cup {ShutdownJob}
           e == Shutdowns
<1>1. e \in Seq(T)
  BY ShutdownQueue
<1>2. Only(ShutdownJob, e) /\ \A P : ShutdownJob \notin P => Items(e, P) = 0
  BY ShutdownQueue
<1>3. q \in Seq(T)
  OBVIOUS
<1> HIDE DEF T, e
<1>4. /\ q \o e \in Seq(T)
      /\ \A P : Items(q \o e, P) = Items(q, P) + Items(e, P)
      /\ \A y : Without(y, q) /\ Without(y, e) => Without(y, q \o e)
      /\ \A y : Only(y, q) /\ Only(y, e) => Only(y, q \o e)
      /\ Ordered(q) /\ Only(ShutdownJob, e) => Ordered(q \o e)
  BY <1>1, <1>3, QueueJoin
<1>5. \A y : y # ShutdownJob => Without(y, e)
  BY <1>2 DEF Only, Without
<1>6. ASSUME NEW P, ShutdownJob \notin P
      PROVE  Items(q \o e, P) = Items(q, P)
  <2>1. Items(q, P) \in Nat
    BY <1>3, ItemsType
  <2>2. Items(q \o e, P) = Items(q, P) + Items(e, P) /\ Items(e, P) = 0
    BY <1>2, <1>4, <1>6
  <2> QED
    BY <2>1, <2>2
<1> QED
  BY <1>2, <1>4, <1>5, <1>6 DEF T, e

LEMMA ControlStep == QInv /\ [Next]_vars => ControlTypes'
<1> SUFFICES ASSUME QInv, [Next]_vars PROVE ControlTypes'
  OBVIOUS
<1>0. ControlTypes /\ RegistryTypes /\ ThreadsOK /\ FreshOK /\ CounterOK
  BY DEF QInv
<1>c. /\ main \in {"jobs", "status", "db_ready", "completed", "post_data", "join", "done"}
      /\ database_counter \in Nat /\ tokens \in TokenRecord
      /\ shutdown_triggered \in BOOLEAN
      /\ thread \in [Workers -> ThreadRecord]
      /\ initial_queue \in Seq(InitialQueueJobs)
      /\ schema_queue \in Seq(SchemaQueueJobs)
      /\ post_data_queue \in Seq(PostDataQueueJobs)
  BY <1>0 DEF ControlTypes, TokenRecord, InitialQueueJobs, SchemaQueueJobs, PostDataQueueJobs
<1> DEFINE Goal ==
      /\ main' \in {"jobs", "status", "db_ready", "completed", "post_data", "join", "done"}
      /\ database_counter' \in Nat /\ tokens' \in TokenRecord
      /\ shutdown_triggered' \in BOOLEAN
      /\ thread' \in [Workers -> ThreadRecord]
      /\ initial_queue' \in Seq(InitialQueueJobs)
      /\ schema_queue' \in Seq(SchemaQueueJobs)
      /\ post_data_queue' \in Seq(PostDataQueueJobs)
<1>g. SUFFICES Goal
  BY DEF ControlTypes, TokenRecord, InitialQueueJobs, SchemaQueueJobs, PostDataQueueJobs
<1>t. /\ [tokens EXCEPT !.status = @ + 1] \in TokenRecord
      /\ tokens.status >= 1 => [tokens EXCEPT !.status = @ - 1] \in TokenRecord
      /\ tokens.db_ready >= 1 => [tokens EXCEPT !.db_ready = @ - 1] \in TokenRecord
      /\ [tokens EXCEPT !.initial_completed = @ + 1] \in TokenRecord
      /\ tokens.initial_completed >= N =>
           [tokens EXCEPT !.initial_completed = @ - N, !.ready_non_transactional = @ + N]
              \in TokenRecord
      /\ tokens.ready_non_transactional >= 1 =>
           [tokens EXCEPT !.ready_non_transactional = @ - 1] \in TokenRecord
  BY <1>c, TokenSteps, NType DEF TokenRecord
<1>q. /\ initial_queue \o Shutdowns \in Seq(InitialQueueJobs)
      /\ schema_queue \o Shutdowns \in Seq(SchemaQueueJobs)
      /\ post_data_queue \o Shutdowns \in Seq(PostDataQueueJobs)
  BY <1>c, ShutdownsJoin DEF InitialQueueJobs, SchemaQueueJobs, PostDataQueueJobs
<1>1. CASE CreateJobs
  <2>1. /\ initial_queue' \in Seq(InitialQueueJobs) /\ database_counter' \in Nat
        /\ schema_queue' \in Seq(SchemaQueueJobs)
    BY <1>0, <1>1, CreateJobsEffect DEF DatabaseMade
  <2>2. main' = "status" /\ UNCHANGED <<post_data_queue, tokens, thread, shutdown_triggered>>
    BY <1>1, Zenon DEF CreateJobs
  <2> QED
    BY <1>c, <2>1, <2>2
<1>2. CASE AwaitStatus
  <2>1. /\ main' = "db_ready" /\ tokens.status >= 1 /\ tokens' = [tokens EXCEPT !.status = @ - 1]
        /\ UNCHANGED <<database_counter, queues, thread, shutdown_triggered>>
    BY <1>2, Zenon DEF AwaitStatus
  <2> QED
    BY <1>c, <1>t, <2>1 DEF queues
<1>3. CASE ShutdownInitial
  <2>1. /\ main' = "completed" /\ tokens.db_ready >= 1
        /\ tokens' = [tokens EXCEPT !.db_ready = @ - 1]
        /\ initial_queue' = initial_queue \o Shutdowns
        /\ UNCHANGED <<database_counter, schema_queue, post_data_queue, thread, shutdown_triggered>>
    BY <1>3, Zenon DEF ShutdownInitial
  <2> QED
    BY <1>c, <1>t, <1>q, <2>1
<1>4. CASE StartData
  <2>1. /\ main' = "post_data" /\ tokens.initial_completed >= N
        /\ tokens' = [tokens EXCEPT !.initial_completed = @ - N, !.ready_non_transactional = @ + N]
        /\ schema_queue' = schema_queue \o Shutdowns
        /\ UNCHANGED <<database_counter, initial_queue, post_data_queue, thread, shutdown_triggered>>
    BY <1>4, Zenon DEF StartData
  <2>2. tokens' \in TokenRecord
    BY <1>t, <2>1, Zenon
  <2> QED
    BY <1>c, <1>q, <2>1, <2>2, Zenon
<1>5. CASE ShutdownPostData
  <2>1. /\ main' = "join" /\ post_data_queue' = post_data_queue \o Shutdowns
        /\ UNCHANGED <<database_counter, initial_queue, schema_queue, tokens, thread,
                       shutdown_triggered>>
    BY <1>5, Zenon DEF ShutdownPostData
  <2> QED
    BY <1>c, <1>q, <2>1
<1>6. CASE Finish
  <2>1. /\ main' = "done"
        /\ UNCHANGED <<database_counter, queues, tokens, thread, shutdown_triggered>>
    BY <1>6, Zenon DEF Finish
  <2> QED
    BY <1>c, <2>1 DEF queues
<1>7. ASSUME NEW w \in Workers, Worker(w)
      PROVE  Goal
  <2>f. main' = main /\ shutdown_triggered' = shutdown_triggered
    BY <1>7, WorkerFrame
  <2>1. CASE TakeInitialJob(w)
    <3>1. thread' \in [Workers -> ThreadRecord] /\ initial_queue' \in Seq(InitialQueueJobs)
      BY <1>0, <2>1, TakeInitialEffect DEF Becomes
    <3>2. UNCHANGED <<database_counter, schema_queue, post_data_queue, tokens>>
      BY <2>1, Zenon DEF TakeInitialJob
    <3> QED
      BY <1>c, <2>f, <3>1, <3>2
  <2>2. CASE EndInitial(w)
    <3>1. thread' \in [Workers -> ThreadRecord] /\ initial_queue' \in Seq(InitialQueueJobs)
      BY <1>0, <2>2, EndInitialEffect DEF Becomes
    <3>2. UNCHANGED <<database_counter, schema_queue, post_data_queue>> /\ tokens' = [tokens EXCEPT !.initial_completed = @ + 1]
      BY <2>2, Zenon DEF EndInitial
    <3> QED
      BY <1>c, <1>t, <2>f, <3>1, <3>2
  <2>3. CASE TakeSchemaJob(w)
    <3>1. thread' \in [Workers -> ThreadRecord] /\ schema_queue' \in Seq(SchemaQueueJobs)
      BY <1>0, <2>3, TakeSchemaEffect DEF Becomes
    <3>2. UNCHANGED <<database_counter, initial_queue, post_data_queue, tokens>>
      BY <2>3, Zenon DEF TakeSchemaJob
    <3> QED
      BY <1>c, <2>f, <3>1, <3>2
  <2>4. CASE EndSchema(w)
    <3>1. thread' \in [Workers -> ThreadRecord] /\ schema_queue' \in Seq(SchemaQueueJobs)
      BY <1>0, <2>4, EndSchemaEffect DEF Becomes
    <3>2. UNCHANGED <<database_counter, initial_queue, post_data_queue, tokens>>
      BY <2>4, Zenon DEF EndSchema
    <3> QED
      BY <1>c, <2>f, <3>1, <3>2
  <2>5. CASE TakePostDataJob(w)
    <3>1. thread' \in [Workers -> ThreadRecord] /\ post_data_queue' \in Seq(PostDataQueueJobs)
      BY <1>0, <2>5, TakePostDataEffect DEF Becomes
    <3>2. UNCHANGED <<database_counter, initial_queue, schema_queue, tokens>>
      BY <2>5, Zenon DEF TakePostDataJob
    <3> QED
      BY <1>c, <2>f, <3>1, <3>2
  <2>6. CASE EndPostData(w)
    <3>1. thread' \in [Workers -> ThreadRecord] /\ post_data_queue' \in Seq(PostDataQueueJobs)
      BY <1>0, <2>6, EndPostDataEffect DEF Becomes
    <3>2. UNCHANGED <<database_counter, initial_queue, schema_queue, tokens>>
      BY <2>6, Zenon DEF EndPostData
    <3> QED
      BY <1>c, <2>f, <3>1, <3>2
  <2>7. CASE BeginData(w)
    <3>1. thread' \in [Workers -> ThreadRecord]
      BY <1>0, <2>7, DataEffect DEF Becomes
    <3>2. /\ UNCHANGED <<database_counter, queues>> /\ tokens.ready_non_transactional >= 1
          /\ tokens' = [tokens EXCEPT !.ready_non_transactional = @ - 1]
      BY <2>7, Zenon DEF BeginData
    <3> QED
      BY <1>c, <1>t, <2>f, <3>1, <3>2 DEF queues
  <2>8. CASE EndData(w)
    <3>1. thread' \in [Workers -> ThreadRecord]
      BY <1>0, <2>8, DataEffect DEF Becomes
    <3>2. UNCHANGED <<database_counter, queues, tokens>>
      BY <2>8, Zenon DEF EndData
    <3> QED
      BY <1>c, <2>f, <3>1, <3>2 DEF queues
  <2>9. CASE WriteStatus(w)
    <3>1. thread' \in [Workers -> ThreadRecord]
      BY <1>0, <2>9, WriteStatusEffect DEF Becomes
    <3>2. /\ UNCHANGED <<database_counter, queues>>
          /\ tokens' = [tokens EXCEPT !.status = @ + 1]
      BY <2>9, Zenon DEF WriteStatus
    <3> QED
      BY <1>c, <1>t, <2>f, <3>1, <3>2 DEF queues
  <2>10. ASSUME NEW d \in Databases, ListDatabase(w, d)
         PROVE  Goal
    <3>1. /\ thread' \in [Workers -> ThreadRecord] /\ initial_queue' \in Seq(InitialQueueJobs)
          /\ schema_queue' \in Seq(SchemaQueueJobs)
      BY <1>0, <2>10, ListDatabaseEffect DEF Becomes, DatabaseMade
    <3>2. database_counter' = database_counter + 1 /\ UNCHANGED <<post_data_queue, tokens>>
      BY <2>10, Zenon DEF ListDatabase
    <3> QED
      BY <1>c, <2>f, <3>1, <3>2
  <2>11. ASSUME NEW t \in Tables, ListTable(w, t)
         PROVE  Goal
    <3>1. /\ thread' \in [Workers -> ThreadRecord] /\ initial_queue' \in Seq(InitialQueueJobs)
          /\ schema_queue' \in Seq(SchemaQueueJobs)
      BY <1>0, <2>11, ListTableEffect DEF Becomes, DatabaseMade
    <3>2. UNCHANGED <<database_counter, post_data_queue, tokens>>
      BY <2>11, Zenon DEF ListTable
    <3> QED
      BY <1>c, <2>f, <3>1, <3>2
  <2>12. CASE EndListing(w)
    <3>1. /\ thread' \in [Workers -> ThreadRecord] /\ schema_queue' \in Seq(SchemaQueueJobs)
          /\ post_data_queue' \in Seq(PostDataQueueJobs) /\ thread[w].job \in ListingJobs
      BY <1>0, <2>12, EndListingEffect DEF Becomes
    <3>2. CountDown /\ UNCHANGED initial_queue
      BY <2>12, Zenon DEF EndListing
    <3>3. database_counter' \in Nat /\ tokens' \in TokenRecord
      BY <1>0, <3>1, <3>2, CountDownType DEF TokenRecord
    <3> QED
      BY <1>c, <2>f, <3>1, <3>2, <3>3
  <2>13. CASE SelectDatabaseFails(w)
    <3>1. thread' \in [Workers -> ThreadRecord] /\ thread[w].job \in ListingJobs
      BY <1>0, <2>13, SelectFailsEffect, JobTypes DEF Becomes
    <3>2. CountDown /\ UNCHANGED queues
      BY <2>13, Zenon DEF SelectDatabaseFails
    <3>3. database_counter' \in Nat /\ tokens' \in TokenRecord
      BY <1>0, <3>1, <3>2, CountDownType DEF TokenRecord
    <3> QED
      BY <1>c, <2>f, <3>1, <3>2, <3>3 DEF queues
  <2>14. CASE NewTable(w)
    <3>1. /\ thread' \in [Workers -> ThreadRecord] /\ schema_queue' \in Seq(SchemaQueueJobs)
          /\ post_data_queue' \in Seq(PostDataQueueJobs)
      BY <1>0, <2>14, NewTableEffect DEF Becomes
    <3>2. UNCHANGED <<database_counter, initial_queue, tokens>>
      BY <2>14, Zenon DEF NewTable
    <3> QED
      BY <1>c, <2>f, <3>1, <3>2
  <2>15. CASE ProcessJob(w)
    <3>1. thread' \in [Workers -> ThreadRecord]
      BY <1>0, <2>15, ProcessEffect DEF Becomes
    <3>2. UNCHANGED <<database_counter, queues, tokens>>
      BY <2>15, Zenon DEF ProcessJob
    <3> QED
      BY <1>c, <2>f, <3>1, <3>2 DEF queues
  <2> QED
    BY <1>7, <2>1, <2>2, <2>3, <2>4, <2>5, <2>6, <2>7, <2>8, <2>9, <2>10, <2>11, <2>12, <2>13,
       <2>14, <2>15 DEF Worker
<1>8. CASE Shutdown
  <2>1. /\ shutdown_triggered' = TRUE
        /\ UNCHANGED <<main, database_counter, queues, tokens, thread>>
    BY <1>8, Zenon DEF Shutdown
  <2> QED
    BY <1>c, <2>1 DEF queues
<1>9. CASE Ended \/ UNCHANGED vars
  <2>1. UNCHANGED <<main, database_counter, queues, tokens, thread, shutdown_triggered>>
    BY <1>9, Zenon DEF Ended, vars
  <2> QED
    BY <1>c, <2>1 DEF queues
<1> HIDE DEF Goal
<1> QED
  BY <1>1, <1>2, <1>3, <1>4, <1>5, <1>6, <1>7, <1>8, <1>9 DEF Next, Main

-----------------------------------------------------------------------------
LEMMA RegistryStep == QInv /\ [Next]_vars => RegistryTypes'
<1> SUFFICES ASSUME QInv, [Next]_vars PROVE RegistryTypes'
  OBVIOUS
<1>0. ControlTypes /\ RegistryTypes /\ ThreadsOK /\ FreshOK /\ CounterOK
  BY DEF QInv
<1> DEFINE same == UNCHANGED <<request, database_hash, unreadable, transactional_table,
                               non_transactional_table, lock_tables_statement, done, metadata>>
<1>s. same => RegistryTypes'
  BY <1>0 DEF RegistryTypes
<1>1. CASE CreateJobs
  <2>1. /\ database_hash' = IF request = "databases" THEN Databases ELSE {}
        /\ UNCHANGED <<request, lists, unreadable, done, metadata>>
    BY <1>1, Zenon DEF CreateJobs
  <2>2. database_hash' \subseteq Databases
    BY <2>1
  <2> QED
    BY <1>0, <2>1, <2>2 DEF RegistryTypes, lists
<1>2. CASE AwaitStatus
  <2>1. same
    BY <1>2, Zenon DEF AwaitStatus, lists
  <2> QED
    BY <1>s, <2>1
<1>3. CASE ShutdownInitial
  <2>1. same
    BY <1>3, Zenon DEF ShutdownInitial, lists
  <2> QED
    BY <1>s, <2>1
<1>4. CASE StartData
  <2>1. /\ lock_tables_statement' = non_transactional_table
        /\ UNCHANGED <<request, database_hash, transactional_table, non_transactional_table,
                       unreadable, done, metadata>>
    BY <1>4, Zenon DEF StartData
  <2> QED
    BY <1>0, <2>1 DEF RegistryTypes
<1>5. CASE ShutdownPostData
  <2>1. same
    BY <1>5, Zenon DEF ShutdownPostData, lists
  <2> QED
    BY <1>s, <2>1
<1>6. CASE Finish
  <2>1. metadata' = "final" /\ UNCHANGED <<request, database_hash, lists, unreadable, done>>
    BY <1>6, Zenon DEF Finish
  <2> QED
    BY <1>0, <2>1 DEF RegistryTypes, lists
<1>7. ASSUME NEW w \in Workers, Worker(w)
      PROVE  RegistryTypes'
  <2>1. CASE TakeInitialJob(w)
    <3>1. same
      BY <2>1, Zenon DEF TakeInitialJob, lists
    <3> QED
      BY <1>s, <3>1
  <2>2. CASE EndInitial(w)
    <3>1. same
      BY <2>2, Zenon DEF EndInitial, lists
    <3> QED
      BY <1>s, <3>1
  <2>3. CASE TakeSchemaJob(w)
    <3>1. same
      BY <2>3, Zenon DEF TakeSchemaJob, lists
    <3> QED
      BY <1>s, <3>1
  <2>4. CASE EndSchema(w)
    <3>1. same
      BY <2>4, Zenon DEF EndSchema, lists
    <3> QED
      BY <1>s, <3>1
  <2>5. CASE BeginData(w)
    <3>1. same
      BY <2>5, Zenon DEF BeginData, lists
    <3> QED
      BY <1>s, <3>1
  <2>6. CASE EndData(w)
    <3>1. same
      BY <2>6, Zenon DEF EndData, lists
    <3> QED
      BY <1>s, <3>1
  <2>7. CASE TakePostDataJob(w)
    <3>1. same
      BY <2>7, Zenon DEF TakePostDataJob, lists
    <3> QED
      BY <1>s, <3>1
  <2>8. CASE EndPostData(w)
    <3>1. same
      BY <2>8, Zenon DEF EndPostData, lists
    <3> QED
      BY <1>s, <3>1
  <2>9. CASE WriteStatus(w)
    <3>1. same
      BY <2>9, Zenon DEF WriteStatus, lists
    <3> QED
      BY <1>s, <3>1
  <2>10. CASE EndListing(w)
    <3>1. same
      BY <2>10, Zenon DEF EndListing, lists
    <3> QED
      BY <1>s, <3>1
  <2>11. ASSUME NEW d \in Databases, ListDatabase(w, d)
         PROVE  RegistryTypes'
    <3>1. /\ database_hash' = database_hash \cup {d}
          /\ UNCHANGED <<request, lists, unreadable, done, metadata>>
      BY <2>11, Zenon DEF ListDatabase
    <3> QED
      BY <1>0, <3>1 DEF RegistryTypes, lists
  <2>12. ASSUME NEW t \in Tables, ListTable(w, t)
         PROVE  RegistryTypes'
    <3>1. /\ database_hash' = database_hash \cup {DatabaseOf[t]}
          /\ UNCHANGED <<request, lists, unreadable, done, metadata>>
      BY <2>12, Zenon DEF ListTable
    <3>2. DatabaseOf[t] \in Databases
      BY ObjectsAssumption
    <3> QED
      BY <1>0, <3>1, <3>2 DEF RegistryTypes, lists
  <2>13. CASE SelectDatabaseFails(w)
    <3>1. UNCHANGED <<request, database_hash, lists, done, metadata>>
      BY <2>13, Zenon DEF SelectDatabaseFails
    <3>2. /\ unreadable' = unreadable \cup {thread[w].job.object}
          /\ thread[w].job.object \in Databases
      BY <1>0, <2>13, SelectFailsEffect
    <3> QED
      BY <1>0, <3>1, <3>2 DEF RegistryTypes, lists
  <2>14. CASE NewTable(w)
    <3> DEFINE t == thread[w].job.object
    <3>1. UNCHANGED <<request, database_hash, lock_tables_statement, unreadable, done, metadata>>
      BY <2>14, Zenon DEF NewTable
    <3>2. /\ t \in Tables
          /\ transactional_table' = transactional_table
                   \cup (IF KindOf[t] = "innodb" THEN {t} ELSE {})
          /\ non_transactional_table' = non_transactional_table
                   \cup (IF KindOf[t] = "myisam" THEN {t} ELSE {})
      BY <1>0, <2>14, NewTableEffect
    <3> HIDE DEF t
    <3> QED
      BY <1>0, <3>1, <3>2 DEF RegistryTypes
  <2>15. CASE ProcessJob(w)
    <3>1. UNCHANGED <<request, database_hash, lists, unreadable, metadata>>
      BY <2>15, Zenon DEF ProcessJob
    <3>2. thread[w].job \in Work /\ done' = [done EXCEPT ![thread[w].job] = @ + 1]
      BY <1>0, <2>15, ProcessEffect
    <3>3. done \in [Work -> Nat]
      BY <1>0 DEF RegistryTypes
    <3>4. done' \in [Work -> Nat]
      BY <3>2, <3>3
    <3> QED
      BY <1>0, <3>1, <3>4 DEF RegistryTypes, lists
  <2> QED
    BY <1>7, <2>1, <2>2, <2>3, <2>4, <2>5, <2>6, <2>7, <2>8, <2>9, <2>10, <2>11, <2>12, <2>13,
       <2>14, <2>15 DEF Worker
<1>8. CASE Shutdown
  <2>1. same
    BY <1>8, Zenon DEF Shutdown, lists
  <2> QED
    BY <1>s, <2>1
<1>9. CASE Ended \/ UNCHANGED vars
  <2>1. same
    BY <1>9, Zenon DEF Ended, vars, lists
  <2> QED
    BY <1>s, <2>1
<1> HIDE DEF same
<1> QED
  BY <1>1, <1>2, <1>3, <1>4, <1>5, <1>6, <1>7, <1>8, <1>9 DEF Next, Main

(* The main thread, a signal and a stutter leave the workers alone. *)
LEMMA OthersStay ==
    ASSUME Main \/ Shutdown \/ Ended \/ UNCHANGED vars
    PROVE  thread' = thread
<1>1. CASE Main
  BY <1>1, Zenon DEF Main, CreateJobs, AwaitStatus, ShutdownInitial, StartData, ShutdownPostData,
     Finish
<1>2. CASE Shutdown
  BY <1>2, Zenon DEF Shutdown
<1>3. CASE Ended \/ UNCHANGED vars
  BY <1>3, Zenon DEF Ended, vars
<1> QED
  BY <1>1, <1>2, <1>3

(* What a worker's record becomes fits again. *)
FitsNext(w) ==
    \E p \in Phases : \E j \in AnyJob : \E s :
        /\ Becomes(w, p, j, s)
        /\ s \subseteq Rows(j)
        /\ \/ j = NoJob
           \/ j = thread[w].job /\ p = thread[w].phase
           \/ j \in InitialJobs /\ p = "initial"
           \/ j \in SchemaWork /\ p = "schema"
           \/ j \in PostDataWork /\ p = "post_data"

LEMMA WorkerFits ==
    ASSUME ControlTypes, ThreadsOK, NEW w \in Workers, Worker(w)
    PROVE  FitsNext(w)
<1>0. NoJob \in AnyJob /\ Rows(NoJob) = {} /\ {} \subseteq Rows(NoJob)
  BY RowsType, JobSets, JobTypes DEF AnyJob
<1>r. thread[w].todo \subseteq Rows(thread[w].job)
  BY HandlerType
<1>t. thread[w].job \in AnyJob /\ thread[w].phase \in Phases
  BY ThreadType
<1>p. {"initial", "schema", "waiting", "data", "post_data", "end"} \subseteq Phases
  BY DEF Phases
<1>1. CASE TakeInitialJob(w)
  <2>1. PICK j \in InitialJobs : Becomes(w, "initial", j, Rows(j))
    BY <1>1, TakeInitialEffect
  <2> QED
    BY <1>p, <2>1 DEF FitsNext, AnyJob
<1>2. CASE TakeSchemaJob(w)
  <2>1. PICK j \in SchemaWork : Becomes(w, "schema", j, Rows(j))
    BY <1>2, TakeSchemaEffect
  <2> QED
    BY <1>p, <2>1 DEF FitsNext, AnyJob, Work
<1>3. CASE TakePostDataJob(w)
  <2>1. PICK j \in PostDataWork : Becomes(w, "post_data", j, Rows(j))
    BY <1>3, TakePostDataEffect
  <2> QED
    BY <1>p, <2>1 DEF FitsNext, AnyJob, Work
<1>4. CASE EndInitial(w) \/ EndSchema(w) \/ EndPostData(w) \/ BeginData(w) \/ EndData(w)
  <2>1. thread[w].job = NoJob /\ \E p \in Phases : Becomes(w, p, NoJob, thread[w].todo)
    <3>1. CASE EndInitial(w)
      BY <1>p, <3>1, EndInitialEffect
    <3>2. CASE EndSchema(w)
      BY <1>p, <3>2, EndSchemaEffect
    <3>3. CASE EndPostData(w)
      BY <1>p, <3>3, EndPostDataEffect
    <3>4. CASE BeginData(w) \/ EndData(w)
      BY <1>p, <3>4, DataEffect
    <3> QED
      BY <1>4, <3>1, <3>2, <3>3, <3>4
  <2> QED
    BY <1>0, <1>r, <2>1 DEF FitsNext
<1>5. CASE WriteStatus(w) \/ EndListing(w) \/ SelectDatabaseFails(w) \/ NewTable(w) \/ ProcessJob(w)
  <2>1. \E p \in Phases : Becomes(w, p, NoJob, {})
    <3>1. CASE WriteStatus(w)
      BY <1>p, <3>1, WriteStatusEffect
    <3>2. CASE EndListing(w)
      BY <1>p, <3>2, EndListingEffect
    <3>3. CASE SelectDatabaseFails(w)
      BY <1>p, <3>3, SelectFailsEffect
    <3>4. CASE NewTable(w)
      BY <1>p, <3>4, NewTableEffect
    <3>5. CASE ProcessJob(w)
      BY <1>p, <1>t, <3>5, ProcessEffect
    <3> QED
      BY <1>5, <3>1, <3>2, <3>3, <3>4, <3>5
  <2> QED
    BY <1>0, <2>1 DEF FitsNext
<1>6. ASSUME NEW x, Becomes(w, thread[w].phase, thread[w].job, thread[w].todo \ {x})
      PROVE  FitsNext(w)
  <2>1. thread[w].todo \ {x} \subseteq Rows(thread[w].job)
    BY <1>r
  <2>2. PICK p, j, s : p = thread[w].phase /\ j = thread[w].job /\ s = thread[w].todo \ {x}
    OBVIOUS
  <2>3. p \in Phases /\ j \in AnyJob /\ Becomes(w, p, j, s) /\ s \subseteq Rows(j)
    BY <1>6, <1>t, <2>1, <2>2
  <2> QED
    BY <2>2, <2>3, SMT DEF FitsNext
<1>7. ASSUME NEW d \in Databases, ListDatabase(w, d)
      PROVE  FitsNext(w)
  BY <1>6, <1>7, ListDatabaseEffect
<1>8. ASSUME NEW t \in Tables, ListTable(w, t)
      PROVE  FitsNext(w)
  BY <1>6, <1>8, ListTableEffect
<1> QED
  BY <1>1, <1>2, <1>3, <1>4, <1>5, <1>7, <1>8 DEF Worker

LEMMA ThreadsStep == QInv /\ [Next]_vars => ThreadsOK'
<1> SUFFICES ASSUME QInv, [Next]_vars PROVE ThreadsOK'
  OBVIOUS
<1>0. ControlTypes /\ ThreadsOK
  BY DEF QInv
<1>1. CASE Main \/ Shutdown \/ Ended \/ UNCHANGED vars
  BY <1>0, <1>1, OthersStay DEF ThreadsOK
<1>2. ASSUME NEW w \in Workers, Worker(w)
      PROVE  ThreadsOK'
  <2>p. PICK p \in Phases : \E j \in AnyJob : \E s :
          /\ Becomes(w, p, j, s)
          /\ s \subseteq Rows(j)
          /\ \/ j = NoJob
             \/ j = thread[w].job /\ p = thread[w].phase
             \/ j \in InitialJobs /\ p = "initial"
             \/ j \in SchemaWork /\ p = "schema"
             \/ j \in PostDataWork /\ p = "post_data"
    BY <1>0, <1>2, WorkerFits, Zenon DEF FitsNext
  <2>j. PICK j \in AnyJob : \E s :
          /\ Becomes(w, p, j, s)
          /\ s \subseteq Rows(j)
          /\ \/ j = NoJob
             \/ j = thread[w].job /\ p = thread[w].phase
             \/ j \in InitialJobs /\ p = "initial"
             \/ j \in SchemaWork /\ p = "schema"
             \/ j \in PostDataWork /\ p = "post_data"
    BY <2>p, Zenon
  <2>1. PICK s :
          /\ Becomes(w, p, j, s)
          /\ s \subseteq Rows(j)
          /\ \/ j = NoJob
             \/ j = thread[w].job /\ p = thread[w].phase
             \/ j \in InitialJobs /\ p = "initial"
             \/ j \in SchemaWork /\ p = "schema"
             \/ j \in PostDataWork /\ p = "post_data"
    BY <2>j, Zenon
  <2> DEFINE r == [phase |-> p, job |-> j, todo |-> s]
  <2>2. thread'[w] = r /\ \A v \in Workers \ {w} : thread'[v] = thread[v]
    BY <2>1 DEF Becomes
  <2>3. r.phase = p /\ r.job = j /\ r.todo = s
    OBVIOUS
  <2> HIDE DEF r
  <2>4. Fits(r)
    <3>1. Fits(thread[w])
      BY <1>0 DEF ThreadsOK
    <3>2. CASE j = NoJob
      BY <2>1, <2>3, <3>2, JobSets DEF Fits
    <3>3. CASE j = thread[w].job /\ p = thread[w].phase
      BY <2>1, <2>3, <3>1, <3>3 DEF Fits
    <3>4. CASE j \in InitialJobs /\ p = "initial"
      BY <2>1, <2>3, <3>4, JobSets DEF Fits, Work
    <3>5. CASE j \in SchemaWork /\ p = "schema"
      BY <2>1, <2>3, <3>5, JobSets DEF Fits, Work
    <3>6. CASE j \in PostDataWork /\ p = "post_data"
      BY <2>1, <2>3, <3>6, JobSets DEF Fits, Work
    <3> QED
      BY <2>1, <3>2, <3>3, <3>4, <3>5, <3>6
  <2>5. \A v \in Workers : Fits(thread'[v])
    BY <1>0, <2>2, <2>4 DEF ThreadsOK
  <2> QED
    BY <2>5 DEF ThreadsOK
<1> QED
  BY <1>1, <1>2 DEF Next

LEMMA FreshStep == QInv /\ [Next]_vars => FreshOK'
<1> SUFFICES ASSUME QInv, [Next]_vars, main' = "jobs" PROVE FreshOK'
  BY DEF FreshOK
<1>0. ControlTypes /\ FreshOK
  BY DEF QInv
<1>1. ASSUME NEW w \in Workers, Worker(w) PROVE FALSE
  BY <1>0, <1>1, WorkerRuns, WorkerFrame
<1>2. ASSUME Main PROVE FALSE
  BY <1>2 DEF Main, CreateJobs, AwaitStatus, ShutdownInitial, StartData, ShutdownPostData, Finish
<1>3. CASE Shutdown
  <2>1. UNCHANGED <<main, database_counter, queues, tokens, database_hash, lists, unreadable,
                    thread, done>>
    BY <1>3, Zenon DEF Shutdown
  <2> QED
    BY <1>0, <2>1 DEF FreshOK, queues, lists
<1>4. CASE Ended \/ UNCHANGED vars
  <2>1. UNCHANGED <<main, database_counter, queues, tokens, database_hash, lists, unreadable,
                    thread, done>>
    BY <1>4, Zenon DEF Ended, vars
  <2> QED
    BY <1>0, <2>1 DEF FreshOK, queues, lists
<1> QED
  BY <1>1, <1>2, <1>3, <1>4 DEF Next

-----------------------------------------------------------------------------
(* How a worker changes the number of jobs of each kind that are queued or *)
(* being processed: x is gone and y is new.                                *)
Net(x, y) ==
    \A A \in SUBSET InitialJobs :
        Items(initial_queue', A) + Many(Workers, thread', Doing(A)) + One(x \in A) =
        Items(initial_queue, A) + Many(Workers, thread, Doing(A)) + One(y \in A)

LEMMA CountsAreNumbers ==
    ASSUME ControlTypes
    PROVE  \A A, B : Items(initial_queue, A) \in Nat /\ Many(Workers, thread, B) \in Nat
  BY QueueTypes, ItemsType, ManyType

LEMMA CountsAreNumbersNext ==
    ControlTypes' => \A A, B : Items(initial_queue', A) \in Nat /\ Many(Workers, thread', B) \in Nat
<1>1. ControlTypes => \A A, B : Items(initial_queue, A) \in Nat /\ Many(Workers, thread, B) \in Nat
  BY CountsAreNumbers
<1>2. ControlTypes' => initial_queue' \in Seq(InitialQueueJobs)
  BY DEF ControlTypes, InitialQueueJobs
<1>3. ASSUME NEW B PROVE Many(Workers, thread', B) \in Nat
  BY ManyBound, ObjectsAssumption
<1>4. ASSUME initial_queue' \in Seq(InitialQueueJobs), NEW A PROVE Items(initial_queue', A) \in Nat
  <2> DEFINE q == initial_queue'
  <2>1. q \in Seq(InitialQueueJobs)
    BY <1>4
  <2> HIDE DEF q
  <2>2. Items(q, A) \in Nat
    BY <2>1, ItemsBound
  <2> QED
    BY <2>2 DEF q
<1> QED
  BY <1>2, <1>3, <1>4

LEMMA NetQuiet ==
    ASSUME ControlTypes, NEW w \in Workers, NEW p, NEW j, NEW s, Becomes(w, p, j, s),
           initial_queue' = initial_queue,
           j \notin InitialJobs \/ j = thread[w].job
    PROVE  Net(IF j = thread[w].job THEN NoJob ELSE thread[w].job, NoJob)
<1> SUFFICES ASSUME NEW A \in SUBSET InitialJobs
             PROVE  Items(initial_queue', A) + Many(Workers, thread', Doing(A))
                       + One((IF j = thread[w].job THEN NoJob ELSE thread[w].job) \in A) =
                    Items(initial_queue, A) + Many(Workers, thread, Doing(A)) + One(NoJob \in A)
  BY DEF Net
<1>1. Many(Workers, thread', Doing(A)) + One(thread[w].job \in A) =
                     Many(Workers, thread, Doing(A)) + One(j \in A)
  BY ThreadType, BecomesCounts
<1>2. /\ Items(initial_queue, A) \in Nat /\ Many(Workers, thread, Doing(A)) \in Nat
      /\ Many(Workers, thread', Doing(A)) \in Nat
  BY CountsAreNumbers, ManyBound, ObjectsAssumption
<1>3. NoJob \notin A
  BY JobSets
<1> QED
  BY <1>1, <1>2, <1>3 DEF One

LEMMA NetTaken ==
    ASSUME ControlTypes, NEW w \in Workers, TakeInitialJob(w)
    PROVE  Net(NoJob, NoJob)
<1> SUFFICES ASSUME NEW A \in SUBSET InitialJobs
             PROVE  Items(initial_queue', A) + Many(Workers, thread', Doing(A)) + One(NoJob \in A) =
                    Items(initial_queue, A) + Many(Workers, thread, Doing(A)) + One(NoJob \in A)
  BY DEF Net
<1>1. PICK j \in InitialJobs :
              /\ thread[w].job = NoJob
              /\ Becomes(w, "initial", j, Rows(j))
              /\ initial_queue' \in Seq(InitialQueueJobs)
              /\ \A P : Items(initial_queue', P) + One(j \in P) = Items(initial_queue, P)
  BY TakeInitialEffect
<1>2. Many(Workers, thread', Doing(A)) + One(thread[w].job \in A) =
                     Many(Workers, thread, Doing(A)) + One(j \in A)
  BY <1>1, ThreadType, BecomesCounts
<1>3. Items(initial_queue', A) + One(j \in A) = Items(initial_queue, A)
  BY <1>1
<1>4. NoJob \notin A
  BY JobSets
<1>5. /\ Items(initial_queue, A) \in Nat /\ Many(Workers, thread, Doing(A)) \in Nat
      /\ Many(Workers, thread', Doing(A)) \in Nat
  BY CountsAreNumbers, ManyBound, ObjectsAssumption
<1>6. Items(initial_queue', A) \in Nat
  <2> DEFINE q == initial_queue'
  <2>1. q \in Seq(InitialQueueJobs)
    BY <1>1
  <2> HIDE DEF q
  <2>2. Items(q, A) \in Nat
    BY <2>1, ItemsBound
  <2> QED
    BY <2>2 DEF q
<1> QED
  BY <1>1, <1>2, <1>3, <1>4, <1>5, <1>6 DEF One

LEMMA NetExtended ==
    ASSUME ControlTypes, NEW w \in Workers, NEW p, NEW s, Becomes(w, p, thread[w].job, s),
           NEW k, Extended(initial_queue, initial_queue', k)
    PROVE  Net(NoJob, k)
<1> SUFFICES ASSUME NEW A \in SUBSET InitialJobs
             PROVE  Items(initial_queue', A) + Many(Workers, thread', Doing(A)) + One(NoJob \in A) =
                    Items(initial_queue, A) + Many(Workers, thread, Doing(A)) + One(k \in A)
  BY DEF Net
<1>1. Many(Workers, thread', Doing(A)) + One(thread[w].job \in A) =
                     Many(Workers, thread, Doing(A)) + One(thread[w].job \in A)
  BY ThreadType, BecomesCounts
<1>2. Items(initial_queue', A) = Items(initial_queue, A) + One(k \in A)
  BY DEF Extended
<1>3. NoJob \notin A
  BY JobSets
<1>4. /\ Items(initial_queue, A) \in Nat /\ Many(Workers, thread, Doing(A)) \in Nat
      /\ Many(Workers, thread', Doing(A)) \in Nat
  BY CountsAreNumbers, ManyBound, ObjectsAssumption
<1> QED
  BY <1>1, <1>2, <1>3, <1>4 DEF One

LEMMA NetLeft ==
    ASSUME ControlTypes, NEW w \in Workers, EndInitial(w)
    PROVE  Net(Head(initial_queue), NoJob)
<1> SUFFICES ASSUME NEW A \in SUBSET InitialJobs
             PROVE  Items(initial_queue', A) + Many(Workers, thread', Doing(A))
                       + One(Head(initial_queue) \in A) =
                    Items(initial_queue, A) + Many(Workers, thread, Doing(A)) + One(NoJob \in A)
  BY DEF Net
<1>1. /\ thread[w].job = NoJob
      /\ Becomes(w, "schema", NoJob, thread[w].todo)
      /\ initial_queue' \in Seq(InitialQueueJobs)
      /\ \A P : Items(initial_queue', P) + One(Head(initial_queue) \in P) = Items(initial_queue, P)
  BY EndInitialEffect
<1>2. Many(Workers, thread', Doing(A)) + One(thread[w].job \in A) =
                     Many(Workers, thread, Doing(A)) + One(NoJob \in A)
  BY <1>1, ThreadType, BecomesCounts
<1>3. Items(initial_queue', A) + One(Head(initial_queue) \in A) = Items(initial_queue, A)
  BY <1>1
<1>4. NoJob \notin A
  BY JobSets
<1>5. /\ Items(initial_queue, A) \in Nat /\ Many(Workers, thread, Doing(A)) \in Nat
      /\ Many(Workers, thread', Doing(A)) \in Nat
  BY CountsAreNumbers, ManyBound, ObjectsAssumption
<1>6. Items(initial_queue', A) \in Nat
  <2> DEFINE q == initial_queue'
  <2>1. q \in Seq(InitialQueueJobs)
    BY <1>1
  <2> HIDE DEF q
  <2>2. Items(q, A) \in Nat
    BY <2>1, ItemsBound
  <2> QED
    BY <2>2 DEF q
<1> QED
  BY <1>1, <1>2, <1>3, <1>4, <1>5, <1>6 DEF One

(* The actions of a worker that keep all these numbers *)
Calm(w) == \/ TakeInitialJob(w) \/ TakeSchemaJob(w) \/ EndSchema(w) \/ BeginData(w) \/ EndData(w)
           \/ TakePostDataJob(w) \/ EndPostData(w) \/ ProcessJob(w)

LEMMA CalmNet ==
    ASSUME ControlTypes, ThreadsOK, NEW w \in Workers, Calm(w)
    PROVE  Net(NoJob, NoJob)
<1>1. CASE TakeInitialJob(w)
  BY <1>1, NetTaken
<1>2. CASE TakeSchemaJob(w)
  <2>1. PICK j \in SchemaWork : thread[w].job = NoJob /\ Becomes(w, "schema", j, Rows(j))
    BY <1>2, TakeSchemaEffect
  <2>2. initial_queue' = initial_queue /\ j \notin InitialJobs
    BY <1>2, JobSets DEF TakeSchemaJob, Work
  <2> QED
    BY <2>1, <2>2, NetQuiet
<1>3. CASE TakePostDataJob(w)
  <2>1. PICK j \in PostDataWork : thread[w].job = NoJob /\ Becomes(w, "post_data", j, Rows(j))
    BY <1>3, TakePostDataEffect
  <2>2. initial_queue' = initial_queue /\ j \notin InitialJobs
    BY <1>3, JobSets DEF TakePostDataJob, Work
  <2> QED
    BY <2>1, <2>2, NetQuiet
<1>4. CASE EndSchema(w) \/ EndPostData(w) \/ BeginData(w) \/ EndData(w)
  <2>1. thread[w].job = NoJob /\ \E p : Becomes(w, p, NoJob, thread[w].todo)
    BY <1>4, EndSchemaEffect, EndPostDataEffect, DataEffect
  <2>2. initial_queue' = initial_queue
    BY <1>4 DEF EndSchema, EndPostData, BeginData, EndData, queues
  <2> QED
    BY <2>1, <2>2, NetQuiet
<1>5. CASE ProcessJob(w)
  <2>1. thread[w].job \in Work /\ Becomes(w, thread[w].phase, NoJob, {})
    BY <1>5, ProcessEffect
  <2>2. initial_queue' = initial_queue
    BY <1>5 DEF ProcessJob, queues
  <2>3. thread[w].job # NoJob /\ NoJob \notin InitialJobs /\ thread[w].job \notin InitialJobs
    BY <2>1, JobSets DEF Work
  <2>4. Net(thread[w].job, NoJob)
    BY <2>1, <2>2, <2>3, NetQuiet
  <2>5. \A A \in SUBSET InitialJobs : One(thread[w].job \in A) = One(NoJob \in A)
    BY <2>3 DEF One
  <2> QED
    BY <2>4, <2>5, Zenon DEF Net
<1> QED
  BY <1>1, <1>2, <1>3, <1>4, <1>5 DEF Calm

-----------------------------------------------------------------------------
LEMMA NetNumbers ==
    ASSUME NEW x, NEW y, Net(x, y)
    PROVE  /\ Listings' + One(x \in ListingJobs) = Listings + One(y \in ListingJobs)
           /\ StatusJobs' + One(x = StatusJob) = StatusJobs + One(y = StatusJob)
<1>1. ListingJobs \in SUBSET InitialJobs /\ {StatusJob} \in SUBSET InitialJobs
  BY JobTypes
<1>2. Listings' + One(x \in ListingJobs) = Listings + One(y \in ListingJobs)
  BY <1>1 DEF Net, Listings, Listed
<1>3. StatusJobs' + One(x \in {StatusJob}) = StatusJobs + One(y \in {StatusJob})
  BY <1>1 DEF Net, StatusJobs, Listed
<1>4. \A z : z \in {StatusJob} <=> z = StatusJob
  OBVIOUS
<1> QED
  BY <1>2, <1>3, <1>4 DEF One

NumbersOK == Listings \in Nat /\ StatusJobs \in Nat

LEMMA NumberType == ControlTypes => NumbersOK
<1> SUFFICES ASSUME ControlTypes PROVE NumbersOK
  OBVIOUS
<1>1. \A A, B : Items(initial_queue, A) \in Nat /\ Many(Workers, thread, B) \in Nat
  BY CountsAreNumbers
<1> QED
  BY <1>1 DEF NumbersOK, Listings, StatusJobs, Listed

LEMMA NumberTypeNext == ControlTypes' => NumbersOK'
  BY NumberType, PTL

LEMMA NetCases ==
    ASSUME ControlTypes, ControlTypes', NEW x, NEW y, Net(x, y)
    PROVE  /\ x \notin ListingJobs /\ y \notin ListingJobs => Listings' = Listings
           /\ x \in ListingJobs /\ y \notin ListingJobs => Listings' + 1 = Listings
           /\ x \notin ListingJobs /\ y \in ListingJobs => Listings' = Listings + 1
           /\ x # StatusJob /\ y # StatusJob => StatusJobs' = StatusJobs
           /\ x = StatusJob /\ y # StatusJob => StatusJobs' + 1 = StatusJobs
<1> DEFINE b == One(x \in ListingJobs)
           c == One(y \in ListingJobs)
           d == One(x = StatusJob)
           e == One(y = StatusJob)
<1>1. Listings' + b = Listings + c /\ StatusJobs' + d = StatusJobs + e
  BY NetNumbers
<1>2. /\ x \in ListingJobs => b = 1
      /\ x \notin ListingJobs => b = 0
      /\ y \in ListingJobs => c = 1
      /\ y \notin ListingJobs => c = 0
      /\ x = StatusJob => d = 1
      /\ x # StatusJob => d = 0
      /\ y = StatusJob => e = 1
      /\ y # StatusJob => e = 0
  BY DEF One
<1>3. Listings \in Nat /\ Listings' \in Nat /\ StatusJobs \in Nat /\ StatusJobs' \in Nat
  BY NumberType, NumberTypeNext DEF NumbersOK
<1>4. PICK k, l, m, n \in Nat : k = Listings /\ l = Listings' /\ m = StatusJobs /\ n = StatusJobs'
  BY <1>3
<1>5. l + b = k + c /\ n + d = m + e
  BY <1>1, <1>4
<1> HIDE DEF b, c, d, e
<1>6. /\ x \notin ListingJobs /\ y \notin ListingJobs => l = k
      /\ x \in ListingJobs /\ y \notin ListingJobs => l + 1 = k
      /\ x \notin ListingJobs /\ y \in ListingJobs => l = k + 1
  BY <1>2, <1>5
<1>7. /\ x # StatusJob /\ y # StatusJob => n = m
      /\ x = StatusJob /\ y # StatusJob => n + 1 = m
  BY <1>2, <1>5
<1> QED
  BY <1>4, <1>6, <1>7

(* The numbers a step does not change when the queue, the workers and the  *)
(* main thread's progress stay.                                            *)
LEMMA CounterSame ==
    ASSUME CounterOK, Listings' = Listings, database_counter' = database_counter,
           tokens'.db_ready = tokens.db_ready,
           main' \in AfterListing <=> main \in AfterListing,
           shutdown_triggered => shutdown_triggered'
    PROVE  CounterOK'
  BY DEF CounterOK, One

LEMMA CounterStep == QInv /\ ControlTypes' /\ [Next]_vars => CounterOK'
<1> SUFFICES ASSUME QInv, ControlTypes', [Next]_vars PROVE CounterOK'
  OBVIOUS
<1>0. ControlTypes /\ RegistryTypes /\ ThreadsOK /\ FreshOK /\ CounterOK
  BY DEF QInv
<1>n. /\ Listings \in Nat /\ Listings' \in Nat /\ database_counter \in Nat
      /\ database_counter' \in Nat /\ tokens \in TokenRecord /\ tokens' \in TokenRecord
  BY <1>0, NumberType, NumberTypeNext DEF ControlTypes, TokenRecord, NumbersOK
<1>m. ASSUME NEW x, NEW y, Net(x, y)
      PROVE  /\ x \notin ListingJobs /\ y \notin ListingJobs => Listings' = Listings
             /\ x \in ListingJobs /\ y \notin ListingJobs => Listings' + 1 = Listings
             /\ x \notin ListingJobs /\ y \in ListingJobs => Listings' = Listings + 1
  BY <1>0, <1>m, NetCases
<1>j. NoJob \notin ListingJobs
  BY JobSets, JobTypes
<1>e. Net(NoJob, NoJob) => Listings' = Listings
  BY <1>m, <1>j
<1>1. CASE CreateJobs
  <2>1. /\ \A P : Items(initial_queue', P) = One(StatusJob \in P) + Cardinality(FirstJobs \cap P)
        /\ database_counter' = Cardinality(FirstJobs)
    BY <1>0, <1>1, CreateJobsEffect
  <2>2. main = "jobs" /\ main' = "status" /\ UNCHANGED <<tokens, thread>>
    BY <1>1, Zenon DEF CreateJobs
  <2>3. FirstJobs \cap ListingJobs = FirstJobs /\ StatusJob \notin ListingJobs
    BY <1>0, FirstJobsType, JobTypes
  <2>4. Items(initial_queue', ListingJobs) = 0 + Cardinality(FirstJobs)
    BY <2>1, <2>3 DEF One
  <2>5. Many(Workers, thread', Doing(ListingJobs)) = 0
    <3>1. \A v \in Workers : thread[v] \notin Doing(ListingJobs)
      BY <1>0, <1>j, <2>2 DEF FreshOK, Doing
    <3> QED
      BY <2>2, <3>1, ManyType
  <2>6. Listings' = database_counter'
    BY <1>n, <2>1, <2>4, <2>5 DEF Listings, Listed
  <2>7. tokens'.db_ready = 0 /\ main' \notin AfterListing
    BY <1>0, <2>2 DEF FreshOK, AfterListing, AfterInitial
  <2> QED
    BY <1>n, <2>6, <2>7 DEF CounterOK, One
<1>2. CASE AwaitStatus
  <2>1. /\ tokens' = [tokens EXCEPT !.status = @ - 1] /\ main = "status" /\ main' = "db_ready"
        /\ UNCHANGED <<database_counter, queues, thread, shutdown_triggered>>
    BY <1>2, Zenon DEF AwaitStatus
  <2>2. tokens'.db_ready = tokens.db_ready
    BY <1>n, <2>1 DEF TokenRecord
  <2>3. Listings' = Listings
    BY <2>1 DEF Listings, Listed, queues
  <2> QED
    BY <1>0, <2>1, <2>2, <2>3, CounterSame DEF AfterListing, AfterInitial
<1>3. CASE ShutdownInitial
  <2>1. /\ tokens' = [tokens EXCEPT !.db_ready = @ - 1] /\ tokens.db_ready >= 1
        /\ main = "db_ready" /\ main' = "completed"
        /\ initial_queue' = initial_queue \o Shutdowns
        /\ UNCHANGED <<database_counter, thread, shutdown_triggered>>
    BY <1>3, Zenon DEF ShutdownInitial
  <2>2. tokens'.db_ready = tokens.db_ready - 1 /\ tokens.db_ready \in Nat
    BY <1>n, <2>1 DEF TokenRecord
  <2>3. Items(initial_queue', ListingJobs) = Items(initial_queue, ListingJobs)
    <3>1. ShutdownJob \notin ListingJobs
      BY JobSets, JobTypes
    <3>2. initial_queue \in Seq(InitialJobs \cup {ShutdownJob})
      BY <1>0 DEF ControlTypes
    <3>3. Items(initial_queue \o Shutdowns, ListingJobs) = Items(initial_queue, ListingJobs)
      BY <3>1, <3>2, ShutdownsJoin
    <3> QED
      BY <2>1, <3>3
  <2>4. Listings' = Listings
    BY <2>1, <2>3 DEF Listings, Listed
  <2>5. main \notin AfterListing /\ main' \in AfterListing
    BY <2>1 DEF AfterListing, AfterInitial
  <2> QED
    BY <1>0, <1>n, <2>1, <2>2, <2>4, <2>5 DEF CounterOK, One
<1>4. CASE StartData
  <2>1. /\ tokens' = [tokens EXCEPT !.initial_completed = @ - N, !.ready_non_transactional = @ + N]
        /\ main = "completed" /\ main' = "post_data"
        /\ UNCHANGED <<database_counter, initial_queue, thread, shutdown_triggered>>
    BY <1>4, Zenon DEF StartData
  <2>2. tokens'.db_ready = tokens.db_ready
    BY <1>n, <2>1 DEF TokenRecord
  <2>3. Listings' = Listings
    BY <2>1 DEF Listings, Listed
  <2> QED
    BY <1>0, <2>1, <2>2, <2>3, CounterSame DEF AfterListing, AfterInitial
<1>5. CASE ShutdownPostData \/ Finish
  <2>1. /\ main \in {"post_data", "join"} /\ main' \in {"join", "done"}
        /\ UNCHANGED <<database_counter, initial_queue, tokens, thread, shutdown_triggered>>
    BY <1>5 DEF ShutdownPostData, Finish, queues
  <2>2. Listings' = Listings
    BY <2>1 DEF Listings, Listed
  <2> QED
    BY <1>0, <2>1, <2>2, CounterSame DEF AfterListing, AfterInitial
<1>6. ASSUME NEW w \in Workers, Worker(w)
      PROVE  CounterOK'
  <2>f. main' = main /\ shutdown_triggered' = shutdown_triggered
    BY <1>6, WorkerFrame
  <2>s. ASSUME Listings' = Listings, database_counter' = database_counter,
               tokens'.db_ready = tokens.db_ready
        PROVE  CounterOK'
    BY <1>0, <2>f, <2>s, CounterSame
  <2>1. CASE Calm(w)
    <3>1. Listings' = Listings
      BY <1>0, <1>e, <2>1, CalmNet
    <3>2. database_counter' = database_counter
      BY <2>1 DEF Calm, TakeInitialJob, TakeSchemaJob, EndSchema, BeginData, EndData,
                  TakePostDataJob, EndPostData, ProcessJob
    <3>3. tokens' = tokens \/ tokens' = [tokens EXCEPT !.ready_non_transactional = @ - 1]
      BY <2>1 DEF Calm, TakeInitialJob, TakeSchemaJob, EndSchema, BeginData, EndData,
                  TakePostDataJob, EndPostData, ProcessJob
    <3>4. tokens'.db_ready = tokens.db_ready
      BY <1>n, <3>3 DEF TokenRecord
    <3> QED
      BY <2>s, <3>1, <3>2, <3>4
  <2>2. CASE EndInitial(w)
    <3>1. Net(Head(initial_queue), NoJob) /\ (~shutdown_triggered => Head(initial_queue) = ShutdownJob)
      BY <1>0, <2>2, NetLeft, EndInitialEffect
    <3>2. tokens' = [tokens EXCEPT !.initial_completed = @ + 1] /\ database_counter' = database_counter
      BY <2>2, Zenon DEF EndInitial
    <3>3. tokens'.db_ready = tokens.db_ready
      BY <1>n, <3>2 DEF TokenRecord
    <3>4. ShutdownJob \notin ListingJobs
      BY JobSets, JobTypes
    <3>5. Listings' = Listings \/ (Listings' + 1 = Listings /\ Head(initial_queue) \in ListingJobs)
      BY <1>m, <1>j, <3>1
    <3>6. Listings' <= Listings /\ (~shutdown_triggered => Listings' = Listings)
      <4>1. PICK k, l \in Nat : k = Listings /\ l = Listings'
        BY <1>n
      <4>2. l = k \/ (l + 1 = k /\ Head(initial_queue) \in ListingJobs)
        BY <3>5, <4>1
      <4>3. l <= k
        BY <4>2
      <4> QED
        BY <3>1, <3>4, <4>1, <4>2, <4>3
    <3> QED
      BY <1>0, <1>n, <2>f, <3>2, <3>3, <3>6 DEF CounterOK, One
  <2>3. CASE WriteStatus(w)
    <3>1. thread[w].job = StatusJob /\ Becomes(w, "initial", NoJob, {})
      BY <1>0, <2>3, WriteStatusEffect
    <3>2. tokens' = [tokens EXCEPT !.status = @ + 1] /\ UNCHANGED <<database_counter, queues>>
      BY <2>3, Zenon DEF WriteStatus
    <3>3. tokens'.db_ready = tokens.db_ready /\ initial_queue' = initial_queue
      BY <1>n, <3>2 DEF TokenRecord, queues
    <3>4. NoJob \notin InitialJobs /\ NoJob # StatusJob /\ StatusJob \notin ListingJobs
      BY JobSets, JobTypes
    <3>5. Net(StatusJob, NoJob)
      BY <1>0, <3>1, <3>3, <3>4, NetQuiet
    <3>6. Listings' = Listings
      BY <1>m, <1>j, <3>4, <3>5
    <3> QED
      BY <2>s, <3>2, <3>3, <3>6
  <2>4. ASSUME NEW d \in Databases, ListDatabase(w, d)
        PROVE  CounterOK'
    <3>1. /\ thread[w].job = AllJob /\ Becomes(w, "initial", AllJob, thread[w].todo \ {d})
          /\ Extended(initial_queue, initial_queue', DatabaseJob(d))
      BY <1>0, <2>4, ListDatabaseEffect
    <3>2. database_counter' = database_counter + 1 /\ tokens' = tokens
      BY <2>4, Zenon DEF ListDatabase
    <3>3. Net(NoJob, DatabaseJob(d)) /\ DatabaseJob(d) \in ListingJobs /\ AllJob \in ListingJobs
      BY <1>0, <3>1, NetExtended, JobTypes
    <3>4. Listings' = Listings + 1
      BY <1>m, <1>j, <3>3
    <3>5. main \notin AfterListing /\ tokens.db_ready = 0
      BY <1>0, <3>1, <3>3, ListingHeld
    <3> QED
      BY <1>0, <1>n, <2>f, <3>2, <3>4, <3>5 DEF CounterOK, One
  <2>5. ASSUME NEW t \in Tables, ListTable(w, t)
        PROVE  CounterOK'
    <3>1. /\ Becomes(w, "initial", thread[w].job, thread[w].todo \ {t})
          /\ Extended(initial_queue, initial_queue', TableJob(t))
      BY <1>0, <2>5, ListTableEffect
    <3>2. database_counter' = database_counter /\ tokens' = tokens
      BY <2>5, Zenon DEF ListTable
    <3>3. Net(NoJob, TableJob(t)) /\ TableJob(t) \notin ListingJobs
      BY <1>0, <3>1, NetExtended, JobTypes
    <3>4. Listings' = Listings
      BY <1>m, <1>j, <3>3
    <3> QED
      BY <2>s, <3>2, <3>4
  <2>6. CASE EndListing(w) \/ SelectDatabaseFails(w)
    <3>1. thread[w].job \in ListingJobs /\ Becomes(w, "initial", NoJob, {})
      <4>1. CASE EndListing(w)
        BY <1>0, <4>1, EndListingEffect
      <4>2. CASE SelectDatabaseFails(w)
        BY <1>0, <4>2, SelectFailsEffect, JobTypes
      <4> QED
        BY <2>6, <4>1, <4>2
    <3>2. CountDown /\ initial_queue' = initial_queue
      BY <2>6 DEF EndListing, SelectDatabaseFails, queues
    <3>3. NoJob \notin InitialJobs /\ NoJob # thread[w].job
      BY <3>1, JobSets, JobTypes
    <3>4. Net(thread[w].job, NoJob)
      BY <1>0, <3>1, <3>2, <3>3, NetQuiet
    <3>5. Listings' + 1 = Listings
      BY <1>m, <1>j, <3>1, <3>4
    <3>6. /\ database_counter' = database_counter - 1
          /\ tokens'.db_ready = One(database_counter = 1)
      BY <1>0, <3>1, <3>2, CountDownType
    <3>7. main \notin AfterListing /\ database_counter >= 1
      BY <1>0, <3>1, ListingHeld
    <3> QED
      <4>1. PICK k, l, c, d \in Nat : /\ k = Listings /\ l = Listings'
                                      /\ c = database_counter /\ d = database_counter'
        BY <1>n
      <4>2. k <= c /\ (~shutdown_triggered => k = c) /\ l + 1 = k /\ d = c - 1
        BY <1>0, <3>5, <3>6, <4>1 DEF CounterOK
      <4>3. l <= d /\ (~shutdown_triggered => l = d) /\ (c = 1 => d = 0)
        BY <4>2
      <4>4. /\ tokens'.db_ready + One(main' \in AfterListing) <= 1
            /\ tokens'.db_ready + One(main' \in AfterListing) = 1 => c = 1
        BY <2>f, <3>6, <3>7, <4>1 DEF One
      <4> QED
        BY <2>f, <4>1, <4>3, <4>4 DEF CounterOK
  <2>7. CASE NewTable(w)
    <3> DEFINE t == thread[w].job.object
    <3>1. t \in Tables /\ thread[w].job = TableJob(t) /\ Becomes(w, "initial", NoJob, {})
      BY <1>0, <2>7, NewTableEffect
    <3>2. UNCHANGED <<database_counter, initial_queue, tokens>>
      BY <2>7, Zenon DEF NewTable
    <3> HIDE DEF t
    <3>3. NoJob \notin InitialJobs /\ NoJob # TableJob(t) /\ TableJob(t) \notin ListingJobs
      BY <3>1, JobSets, JobTypes
    <3>4. Net(TableJob(t), NoJob)
      BY <1>0, <3>1, <3>2, <3>3, NetQuiet
    <3>5. Listings' = Listings
      BY <1>m, <1>j, <3>3, <3>4
    <3> QED
      BY <2>s, <3>2, <3>5
  <2> QED
    BY <1>6, <2>1, <2>2, <2>3, <2>4, <2>5, <2>6, <2>7 DEF Worker, Calm
<1>7. CASE Shutdown
  <2>1. /\ shutdown_triggered' = TRUE
        /\ UNCHANGED <<main, database_counter, queues, tokens, thread>>
    BY <1>7, Zenon DEF Shutdown
  <2>2. Listings' = Listings
    BY <2>1 DEF Listings, Listed, queues
  <2> QED
    BY <1>0, <2>1, <2>2, CounterSame
<1>8. CASE Ended \/ UNCHANGED vars
  <2>1. UNCHANGED <<main, database_counter, queues, tokens, thread, shutdown_triggered>>
    BY <1>8, Zenon DEF Ended, vars
  <2>2. Listings' = Listings
    BY <2>1 DEF Listings, Listed, queues
  <2> QED
    BY <1>0, <2>1, <2>2, CounterSame
<1> QED
  BY <1>1, <1>2, <1>3, <1>4, <1>5, <1>6, <1>7, <1>8 DEF Next, Main

-----------------------------------------------------------------------------
LEMMA StatusSame ==
    ASSUME StatusOK, StatusJobs' = StatusJobs, tokens'.status = tokens.status,
           main' \in AfterStatus <=> main \in AfterStatus
    PROVE  StatusOK'
  BY DEF StatusOK, One

LEMMA StatusStep == QInv /\ ControlTypes' /\ [Next]_vars => StatusOK'
<1> SUFFICES ASSUME QInv, ControlTypes', [Next]_vars PROVE StatusOK'
  OBVIOUS
<1>0. ControlTypes /\ RegistryTypes /\ ThreadsOK /\ FreshOK /\ CounterOK /\ StatusOK
  BY DEF QInv
<1>n. /\ StatusJobs \in Nat /\ StatusJobs' \in Nat
      /\ tokens \in TokenRecord /\ tokens' \in TokenRecord
  BY <1>0, NumberType, NumberTypeNext DEF ControlTypes, TokenRecord, NumbersOK
<1>t. tokens.status \in Nat /\ tokens'.status \in Nat
  BY <1>n DEF TokenRecord
<1>m. ASSUME NEW x, NEW y, Net(x, y)
      PROVE  /\ x # StatusJob /\ y # StatusJob => StatusJobs' = StatusJobs
             /\ x = StatusJob /\ y # StatusJob => StatusJobs' + 1 = StatusJobs
  BY <1>0, <1>m, NetCases
<1>j. NoJob # StatusJob
  BY JobSets, JobTypes
<1>1. CASE CreateJobs
  <2>1. \A P : Items(initial_queue', P) = One(StatusJob \in P) + Cardinality(FirstJobs \cap P)
    BY <1>0, <1>1, CreateJobsEffect
  <2>2. main = "jobs" /\ main' = "status" /\ UNCHANGED <<tokens, thread>>
    BY <1>1, Zenon DEF CreateJobs
  <2>3. FirstJobs \cap {StatusJob} = {}
    BY <1>0, FirstJobsType, JobTypes
  <2>4. Items(initial_queue', {StatusJob}) = 1 + 0
    BY <2>1, <2>3, FS_EmptySet DEF One
  <2>5. Many(Workers, thread', Doing({StatusJob})) = 0
    <3>1. \A v \in Workers : thread[v] \notin Doing({StatusJob})
      BY <1>0, <1>j, <2>2 DEF FreshOK, Doing
    <3> QED
      BY <2>2, <3>1, ManyType
  <2>6. StatusJobs' = 1
    BY <2>4, <2>5 DEF StatusJobs, Listed
  <2>7. tokens'.status = 0 /\ main' \notin AfterStatus
    BY <1>0, <2>2 DEF FreshOK, AfterStatus, AfterListing, AfterInitial
  <2> QED
    BY <2>6, <2>7 DEF StatusOK, One
<1>2. CASE AwaitStatus
  <2>1. /\ tokens' = [tokens EXCEPT !.status = @ - 1] /\ main = "status" /\ main' = "db_ready"
        /\ tokens.status >= 1
        /\ UNCHANGED <<database_counter, queues, thread, shutdown_triggered>>
    BY <1>2, Zenon DEF AwaitStatus
  <2>2. tokens'.status = tokens.status - 1
    BY <1>n, <2>1 DEF TokenRecord
  <2>3. StatusJobs' = StatusJobs
    BY <2>1 DEF StatusJobs, Listed, queues
  <2>4. main \notin AfterStatus /\ main' \in AfterStatus
    BY <2>1 DEF AfterStatus, AfterListing, AfterInitial
  <2>5. StatusJobs + tokens.status + 0 <= 1
    BY <1>0, <2>4 DEF StatusOK, One
  <2>6. StatusJobs' + tokens'.status + 1 <= 1
    BY <1>n, <1>t, <2>2, <2>3, <2>5
  <2> QED
    BY <2>4, <2>6 DEF StatusOK, One
<1>3. CASE ShutdownInitial
  <2>1. /\ tokens' = [tokens EXCEPT !.db_ready = @ - 1]
        /\ main = "db_ready" /\ main' = "completed"
        /\ initial_queue' = initial_queue \o Shutdowns
        /\ UNCHANGED <<database_counter, thread, shutdown_triggered>>
    BY <1>3, Zenon DEF ShutdownInitial
  <2>2. tokens'.status = tokens.status
    BY <1>n, <2>1 DEF TokenRecord
  <2>3. Items(initial_queue', {StatusJob}) = Items(initial_queue, {StatusJob})
    <3>1. ShutdownJob \notin {StatusJob}
      BY JobSets, JobTypes
    <3>2. initial_queue \in Seq(InitialJobs \cup {ShutdownJob})
      BY <1>0 DEF ControlTypes
    <3>3. Items(initial_queue \o Shutdowns, {StatusJob}) = Items(initial_queue, {StatusJob})
      BY <3>1, <3>2, ShutdownsJoin
    <3> QED
      BY <2>1, <3>3
  <2>4. StatusJobs' = StatusJobs
    BY <2>1, <2>3 DEF StatusJobs, Listed
  <2> QED
    BY <1>0, <2>1, <2>2, <2>4, StatusSame DEF AfterStatus, AfterListing, AfterInitial
<1>4. CASE StartData
  <2>1. /\ tokens' = [tokens EXCEPT !.initial_completed = @ - N, !.ready_non_transactional = @ + N]
        /\ main = "completed" /\ main' = "post_data"
        /\ UNCHANGED <<database_counter, initial_queue, thread, shutdown_triggered>>
    BY <1>4, Zenon DEF StartData
  <2>2. tokens'.status = tokens.status
    BY <1>n, <2>1 DEF TokenRecord
  <2>3. StatusJobs' = StatusJobs
    BY <2>1 DEF StatusJobs, Listed
  <2> QED
    BY <1>0, <2>1, <2>2, <2>3, StatusSame DEF AfterStatus, AfterListing, AfterInitial
<1>5. CASE ShutdownPostData \/ Finish
  <2>1. /\ main \in {"post_data", "join"} /\ main' \in {"join", "done"}
        /\ UNCHANGED <<database_counter, initial_queue, tokens, thread, shutdown_triggered>>
    BY <1>5 DEF ShutdownPostData, Finish, queues
  <2>2. StatusJobs' = StatusJobs
    BY <2>1 DEF StatusJobs, Listed
  <2> QED
    BY <1>0, <2>1, <2>2, StatusSame DEF AfterStatus, AfterListing, AfterInitial
<1>6. ASSUME NEW w \in Workers, Worker(w)
      PROVE  StatusOK'
  <2>f. main' = main /\ shutdown_triggered' = shutdown_triggered
    BY <1>6, WorkerFrame
  <2>s. ASSUME StatusJobs' = StatusJobs, tokens'.status = tokens.status
        PROVE  StatusOK'
    BY <1>0, <2>f, <2>s, StatusSame
  <2>1. CASE Calm(w)
    <3>1. StatusJobs' = StatusJobs
      BY <1>0, <1>m, <1>j, <2>1, CalmNet
    <3>3. tokens' = tokens \/ tokens' = [tokens EXCEPT !.ready_non_transactional = @ - 1]
      BY <2>1 DEF Calm, TakeInitialJob, TakeSchemaJob, EndSchema, BeginData, EndData,
                  TakePostDataJob, EndPostData, ProcessJob
    <3>4. tokens'.status = tokens.status
      BY <1>n, <3>3 DEF TokenRecord
    <3> QED
      BY <2>s, <3>1, <3>4
  <2>2. CASE EndInitial(w)
    <3>1. Net(Head(initial_queue), NoJob)
      BY <1>0, <2>2, NetLeft
    <3>2. tokens' = [tokens EXCEPT !.initial_completed = @ + 1]
      BY <2>2, Zenon DEF EndInitial
    <3>3. tokens'.status = tokens.status
      BY <1>n, <3>2 DEF TokenRecord
    <3>4. StatusJobs' = StatusJobs \/ StatusJobs' + 1 = StatusJobs
      BY <1>m, <1>j, <3>1
    <3>5. StatusJobs' <= StatusJobs
      <4>1. PICK k, l \in Nat : k = StatusJobs /\ l = StatusJobs'
        BY <1>n
      <4>2. l = k \/ l + 1 = k
        BY <3>4, <4>1
      <4>3. l <= k
        BY <4>2
      <4> QED
        BY <4>1, <4>3, Zenon
    <3>6. One(main \in AfterStatus) \in Nat
      BY DEF One
    <3>7. StatusJobs' + tokens'.status + One(main \in AfterStatus) <= 1
      <4> DEFINE a == One(main \in AfterStatus)
      <4>1. StatusJobs + tokens.status + a <= 1
        BY <1>0 DEF StatusOK
      <4>2. PICK k, l, m \in Nat : k = StatusJobs /\ l = StatusJobs' /\ m = tokens.status
        BY <1>n, <1>t
      <4> HIDE DEF a
      <4>3. l + m + a <= 1
        BY <3>5, <3>6, <4>1, <4>2 DEF a
      <4> QED
        BY <3>3, <4>2, <4>3 DEF a
    <3> QED
      BY <2>f, <3>7 DEF StatusOK
  <2>3. CASE WriteStatus(w)
    <3>1. thread[w].job = StatusJob /\ Becomes(w, "initial", NoJob, {})
      BY <1>0, <2>3, WriteStatusEffect
    <3>2. tokens' = [tokens EXCEPT !.status = @ + 1] /\ UNCHANGED <<database_counter, queues>>
      BY <2>3, Zenon DEF WriteStatus
    <3>3. tokens'.status = tokens.status + 1 /\ initial_queue' = initial_queue
      BY <1>n, <3>2 DEF TokenRecord, queues
    <3>4. NoJob \notin InitialJobs /\ NoJob # StatusJob
      BY JobSets, JobTypes
    <3>5. Net(StatusJob, NoJob)
      BY <1>0, <3>1, <3>3, <3>4, NetQuiet
    <3>6. StatusJobs' + 1 = StatusJobs
      BY <1>m, <1>j, <3>5
    <3>7. StatusJobs' + tokens'.status = StatusJobs + tokens.status
      <4>1. PICK k, l, m, n \in Nat : /\ k = StatusJobs /\ l = StatusJobs'
                                      /\ m = tokens.status /\ n = tokens'.status
        BY <1>n, <1>t
      <4>2. l + 1 = k /\ n = m + 1
        BY <3>3, <3>6, <4>1
      <4>3. l + n = k + m
        BY <4>2
      <4> QED
        BY <4>1, <4>3
    <3> QED
      BY <1>0, <2>f, <3>7 DEF StatusOK
  <2>4. ASSUME NEW k \in InitialJobs, k # StatusJob, NEW p, NEW s,
               Becomes(w, p, thread[w].job, s),
               Extended(initial_queue, initial_queue', k), tokens' = tokens
        PROVE  StatusOK'
    <3>1. Net(NoJob, k)
      BY <1>0, <2>4, NetExtended
    <3>2. StatusJobs' = StatusJobs
      BY <1>m, <1>j, <2>4, <3>1
    <3> QED
      BY <2>s, <2>4, <3>2
  <2>5. ASSUME NEW d \in Databases, ListDatabase(w, d)
        PROVE  StatusOK'
    <3>1. /\ Becomes(w, "initial", thread[w].job, thread[w].todo \ {d})
          /\ Extended(initial_queue, initial_queue', DatabaseJob(d))
      BY <1>0, <2>5, ListDatabaseEffect
    <3>2. tokens' = tokens
      BY <2>5, Zenon DEF ListDatabase
    <3>3. DatabaseJob(d) \in InitialJobs /\ DatabaseJob(d) # StatusJob
      BY JobTypes
    <3> QED
      BY <2>4, <3>1, <3>2, <3>3
  <2>6. ASSUME NEW t \in Tables, ListTable(w, t)
        PROVE  StatusOK'
    <3>1. /\ Becomes(w, "initial", thread[w].job, thread[w].todo \ {t})
          /\ Extended(initial_queue, initial_queue', TableJob(t))
      BY <1>0, <2>6, ListTableEffect
    <3>2. tokens' = tokens
      BY <2>6, Zenon DEF ListTable
    <3>3. TableJob(t) \in InitialJobs /\ TableJob(t) # StatusJob
      BY DEF TableJob, StatusJob, Job, InitialJobs
    <3> QED
      BY <2>4, <3>1, <3>2, <3>3
  <2>7. ASSUME NEW k \in InitialJobs, k # StatusJob, thread[w].job = k, NEW p,
               Becomes(w, p, NoJob, {}),
               initial_queue' = initial_queue, tokens'.status = tokens.status
        PROVE  StatusOK'
    <3>1. NoJob \notin InitialJobs /\ NoJob # k
      BY JobSets
    <3>2. Net(k, NoJob)
      BY <1>0, <2>7, <3>1, NetQuiet
    <3>3. StatusJobs' = StatusJobs
      BY <1>m, <1>j, <2>7, <3>2
    <3> QED
      BY <2>s, <2>7, <3>3
  <2>8. CASE EndListing(w) \/ SelectDatabaseFails(w)
    <3>1. thread[w].job \in ListingJobs /\ Becomes(w, "initial", NoJob, {})
      <4>1. CASE EndListing(w)
        BY <1>0, <4>1, EndListingEffect
      <4>2. CASE SelectDatabaseFails(w)
        BY <1>0, <4>2, SelectFailsEffect, JobTypes
      <4> QED
        BY <2>8, <4>1, <4>2
    <3>2. CountDown /\ initial_queue' = initial_queue
      BY <2>8 DEF EndListing, SelectDatabaseFails, queues
    <3>3. thread[w].job \in InitialJobs /\ thread[w].job # StatusJob
      BY <3>1, JobTypes
    <3>4. tokens'.status = tokens.status
      BY <1>0, <3>1, <3>2, CountDownType
    <3> QED
      BY <2>7, <3>1, <3>2, <3>3, <3>4
  <2>9. CASE NewTable(w)
    <3> DEFINE t == thread[w].job.object
    <3>1. t \in Tables /\ thread[w].job = TableJob(t) /\ Becomes(w, "initial", NoJob, {})
      BY <1>0, <2>9, NewTableEffect
    <3>2. UNCHANGED <<database_counter, initial_queue, tokens>>
      BY <2>9, Zenon DEF NewTable
    <3> HIDE DEF t
    <3>3. TableJob(t) \in InitialJobs /\ TableJob(t) # StatusJob
      BY <3>1 DEF TableJob, StatusJob, Job, InitialJobs
    <3> QED
      BY <2>7, <3>1, <3>2, <3>3
  <2> QED
    BY <1>6, <2>1, <2>2, <2>3, <2>5, <2>6, <2>8, <2>9 DEF Worker, Calm
<1>7. CASE Shutdown \/ Ended \/ UNCHANGED vars
  <2>1. UNCHANGED <<main, queues, tokens, thread>>
    BY <1>7, Zenon DEF Shutdown, Ended, vars
  <2>2. StatusJobs' = StatusJobs
    BY <2>1 DEF StatusJobs, Listed, queues
  <2> QED
    BY <1>0, <2>1, <2>2, StatusSame
<1> QED
  BY <1>1, <1>2, <1>3, <1>4, <1>5, <1>6, <1>7 DEF Next, Main

-----------------------------------------------------------------------------
(* How many workers have left initial_queue, and how many have begun the   *)
(* data.                                                                   *)
Gone == Many(Workers, thread, Left)
Begun == Many(Workers, thread, InData)

LEMMA GoneTypes ==
    ControlTypes => /\ Gone \in Nat /\ Begun \in Nat
                    /\ tokens.initial_completed \in Nat /\ tokens.ready_non_transactional \in Nat
<1>1. \A P : Many(Workers, thread, P) \in Nat
  BY ManyType
<1> QED
  BY <1>1 DEF Gone, Begun, ControlTypes

LEMMA PhaseNumbers ==
    ASSUME ControlTypes, NEW w \in Workers, NEW p, NEW j, NEW s, Becomes(w, p, j, s)
    PROVE  /\ thread[w].phase = p => Gone' = Gone /\ Begun' = Begun
           /\ thread[w].phase = "initial" /\ p = "schema" => Gone' = Gone + 1 /\ Begun' = Begun
           /\ thread[w].phase = "schema" /\ p = "waiting" => Gone' = Gone /\ Begun' = Begun
           /\ thread[w].phase = "waiting" /\ p = "data" => Gone' = Gone /\ Begun' = Begun + 1
           /\ thread[w].phase = "data" /\ p = "post_data" => Gone' = Gone /\ Begun' = Begun
           /\ thread[w].phase = "post_data" /\ p = "end" => Gone' = Gone /\ Begun' = Begun
<1> DEFINE F == {"schema", "waiting", "data", "post_data", "end"}
           G == {"data", "post_data", "end"}
<1>1. /\ Gone' + One(thread[w].phase \in F) = Gone + One(p \in F)
      /\ Begun' + One(thread[w].phase \in G) = Begun + One(p \in G)
  BY ThreadType, BecomesCounts DEF Gone, Begun, Left, InData
<1>2. PICK a, b, c, d \in Nat : a = Gone /\ b = Gone' /\ c = Begun /\ d = Begun'
  <2>1. Gone \in Nat /\ Begun \in Nat /\ Gone' \in Nat /\ Begun' \in Nat
    BY ManyBound, ObjectsAssumption DEF Gone, Begun
  <2> QED
    BY <2>1
<1>3. /\ b + One(thread[w].phase \in F) = a + One(p \in F)
      /\ d + One(thread[w].phase \in G) = c + One(p \in G)
  BY <1>1, <1>2
<1>4. /\ thread[w].phase = p => b = a /\ d = c
      /\ thread[w].phase = "initial" /\ p = "schema" => b = a + 1 /\ d = c
      /\ thread[w].phase = "schema" /\ p = "waiting" => b = a /\ d = c
      /\ thread[w].phase = "waiting" /\ p = "data" => b = a /\ d = c + 1
      /\ thread[w].phase = "data" /\ p = "post_data" => b = a /\ d = c
      /\ thread[w].phase = "post_data" /\ p = "end" => b = a /\ d = c
  BY <1>3 DEF One
<1> QED
  BY <1>2, <1>4

LEMMA BarriersSame ==
    ASSUME BarriersOK, Gone' = Gone, Begun' = Begun,
           tokens'.initial_completed = tokens.initial_completed,
           tokens'.ready_non_transactional = tokens.ready_non_transactional,
           main' \in AfterInitial <=> main \in AfterInitial
    PROVE  BarriersOK'
  BY DEF BarriersOK, Gone, Begun

LEMMA BarriersStep == QInv /\ [Next]_vars => BarriersOK'
<1> SUFFICES ASSUME QInv, [Next]_vars PROVE BarriersOK'
  OBVIOUS
<1>0. ControlTypes /\ RegistryTypes /\ ThreadsOK /\ FreshOK /\ CounterOK /\ BarriersOK
  BY DEF QInv
<1>n. /\ Gone \in Nat /\ Begun \in Nat /\ tokens \in TokenRecord
      /\ tokens.initial_completed \in Nat /\ tokens.ready_non_transactional \in Nat
  BY <1>0, GoneTypes DEF ControlTypes, TokenRecord
<1>b. /\ Gone = tokens.initial_completed + IF main \in AfterInitial THEN N ELSE 0
      /\ Begun + tokens.ready_non_transactional = IF main \in AfterInitial THEN N ELSE 0
  BY <1>0 DEF BarriersOK, Gone, Begun
<1>p. tokens' = tokens => /\ tokens'.initial_completed = tokens.initial_completed
                          /\ tokens'.ready_non_transactional = tokens.ready_non_transactional
  OBVIOUS
<1>t. thread' = thread => Gone' = Gone /\ Begun' = Begun
  BY DEF Gone, Begun
<1>1. CASE CreateJobs
  <2>1. main = "jobs" /\ main' = "status" /\ UNCHANGED <<tokens, thread>>
    BY <1>1, Zenon DEF CreateJobs
  <2> QED
    BY <1>0, <1>p, <1>t, <2>1, BarriersSame DEF AfterInitial
<1>2. CASE AwaitStatus
  <2>1. /\ tokens' = [tokens EXCEPT !.status = @ - 1] /\ main = "status" /\ main' = "db_ready"
        /\ thread' = thread
    BY <1>2, Zenon DEF AwaitStatus
  <2>2. /\ tokens'.initial_completed = tokens.initial_completed
        /\ tokens'.ready_non_transactional = tokens.ready_non_transactional
    BY <1>n, <2>1 DEF TokenRecord
  <2> QED
    BY <1>0, <1>t, <2>1, <2>2, BarriersSame DEF AfterInitial
<1>3. CASE ShutdownInitial
  <2>1. /\ tokens' = [tokens EXCEPT !.db_ready = @ - 1]
        /\ main = "db_ready" /\ main' = "completed" /\ thread' = thread
    BY <1>3, Zenon DEF ShutdownInitial
  <2>2. /\ tokens'.initial_completed = tokens.initial_completed
        /\ tokens'.ready_non_transactional = tokens.ready_non_transactional
    BY <1>n, <2>1 DEF TokenRecord
  <2> QED
    BY <1>0, <1>t, <2>1, <2>2, BarriersSame DEF AfterInitial
<1>4. CASE StartData
  <2>1. /\ tokens' = [tokens EXCEPT !.initial_completed = @ - N, !.ready_non_transactional = @ + N]
        /\ tokens.initial_completed >= N
        /\ main = "completed" /\ main' = "post_data" /\ thread' = thread
    BY <1>4, Zenon DEF StartData
  <2> DEFINE a == tokens.initial_completed - N
             b == tokens.ready_non_transactional + N
  <2>2. tokens' = [tokens EXCEPT !.initial_completed = a, !.ready_non_transactional = b]
    BY <2>1, Zenon
  <2>3. a \in Nat /\ b \in Nat
    BY <1>n, <2>1, NType
  <2> HIDE DEF a, b
  <2>4. tokens'.initial_completed = a /\ tokens'.ready_non_transactional = b
    BY <1>n, <2>2, <2>3 DEF TokenRecord
  <2>5. main \notin AfterInitial /\ main' \in AfterInitial
    BY <2>1 DEF AfterInitial
  <2>6. Gone <= N /\ Gone = tokens.initial_completed /\ Begun + tokens.ready_non_transactional = 0
    <3>1. Gone <= N
      BY ManyType DEF Gone
    <3> QED
      BY <1>n, <1>b, <2>5, <3>1
  <2>7. Gone = a + N /\ Begun + b = N
    <3>1. PICK c, d, e, f, n \in Nat : /\ c = Gone /\ d = Begun /\ e = tokens.initial_completed
                                      /\ f = tokens.ready_non_transactional /\ n = N
      BY <1>n, NType
    <3>2. a = e - n /\ b = f + n /\ c <= n /\ c = e /\ d + f = 0 /\ e >= n
      BY <2>1, <2>6, <3>1 DEF a, b
    <3>3. c = (e - n) + n /\ d + (f + n) = n
      BY <3>2
    <3> QED
      BY <3>1, <3>2, <3>3
  <2> QED
    BY <1>t, <2>1, <2>4, <2>5, <2>7 DEF BarriersOK, Gone, Begun
<1>5. CASE ShutdownPostData \/ Finish
  <2>1. /\ main \in {"post_data", "join"} /\ main' \in {"join", "done"}
        /\ UNCHANGED <<tokens, thread>>
    BY <1>5 DEF ShutdownPostData, Finish
  <2> QED
    BY <1>0, <1>p, <1>t, <2>1, BarriersSame DEF AfterInitial
<1>6. ASSUME NEW w \in Workers, Worker(w)
      PROVE  BarriersOK'
  <2>f. main' = main
    BY <1>6, WorkerFrame
  <2>s. ASSUME Gone' = Gone, Begun' = Begun,
               tokens'.initial_completed = tokens.initial_completed,
               tokens'.ready_non_transactional = tokens.ready_non_transactional
        PROVE  BarriersOK'
    BY <1>0, <2>f, <2>s, BarriersSame
  <2>c. ASSUME NEW p, NEW j, NEW s, Becomes(w, p, j, s)
        PROVE  /\ thread[w].phase = p => Gone' = Gone /\ Begun' = Begun
               /\ thread[w].phase = "initial" /\ p = "schema" => Gone' = Gone + 1 /\ Begun' = Begun
               /\ thread[w].phase = "schema" /\ p = "waiting" => Gone' = Gone /\ Begun' = Begun
               /\ thread[w].phase = "waiting" /\ p = "data" => Gone' = Gone /\ Begun' = Begun + 1
               /\ thread[w].phase = "data" /\ p = "post_data" => Gone' = Gone /\ Begun' = Begun
               /\ thread[w].phase = "post_data" /\ p = "end" => Gone' = Gone /\ Begun' = Begun
    BY <1>0, <2>c, PhaseNumbers
  <2>1. CASE TakeInitialJob(w) \/ TakeSchemaJob(w) \/ TakePostDataJob(w) \/ ProcessJob(w)
    <3>1. \E j, s : Becomes(w, thread[w].phase, j, s)
      <4>1. CASE TakeInitialJob(w)
        BY <1>0, <4>1, TakeInitialEffect
      <4>2. CASE TakeSchemaJob(w)
        BY <1>0, <4>2, TakeSchemaEffect
      <4>3. CASE TakePostDataJob(w)
        BY <1>0, <4>3, TakePostDataEffect
      <4>4. CASE ProcessJob(w)
        BY <1>0, <4>4, ProcessEffect
      <4> QED
        BY <2>1, <4>1, <4>2, <4>3, <4>4
    <3>2. tokens' = tokens
      BY <2>1 DEF TakeInitialJob, TakeSchemaJob, TakePostDataJob, ProcessJob
    <3> QED
      BY <1>p, <2>s, <2>c, <3>1, <3>2
  <2>2. CASE EndInitial(w)
    <3>1. thread[w].phase = "initial" /\ Becomes(w, "schema", NoJob, thread[w].todo)
      BY <1>0, <2>2, EndInitialEffect
    <3>2. tokens' = [tokens EXCEPT !.initial_completed = @ + 1]
      BY <2>2, Zenon DEF EndInitial
    <3>3. /\ tokens'.initial_completed = tokens.initial_completed + 1
          /\ tokens'.ready_non_transactional = tokens.ready_non_transactional
      BY <1>n, <3>2 DEF TokenRecord
    <3>4. Gone' = Gone + 1 /\ Begun' = Begun
      BY <2>c, <3>1
    <3>5. main \notin AfterInitial
      BY <1>0, <3>1, InitialHeld
    <3>6. Gone' = tokens'.initial_completed + 0 /\ Begun' + tokens'.ready_non_transactional = 0
      BY <1>n, <1>b, <3>3, <3>4, <3>5
    <3> QED
      BY <2>f, <3>5, <3>6 DEF BarriersOK, Gone, Begun
  <2>3. CASE EndSchema(w)
    <3>1. thread[w].phase = "schema" /\ Becomes(w, "waiting", NoJob, thread[w].todo)
      BY <1>0, <2>3, EndSchemaEffect
    <3>2. tokens' = tokens
      BY <2>3, Zenon DEF EndSchema
    <3> QED
      BY <1>p, <2>s, <2>c, <3>1, <3>2
  <2>4. CASE BeginData(w)
    <3>1. thread[w].phase = "waiting" /\ Becomes(w, "data", NoJob, thread[w].todo)
      BY <1>0, <2>4, DataEffect
    <3>2. /\ tokens' = [tokens EXCEPT !.ready_non_transactional = @ - 1]
          /\ tokens.ready_non_transactional >= 1
      BY <2>4, Zenon DEF BeginData
    <3>3. /\ tokens'.initial_completed = tokens.initial_completed
          /\ tokens'.ready_non_transactional = tokens.ready_non_transactional - 1
      BY <1>n, <3>2 DEF TokenRecord
    <3>4. Gone' = Gone /\ Begun' = Begun + 1
      BY <2>c, <3>1
    <3>5. Begun' + tokens'.ready_non_transactional = Begun + tokens.ready_non_transactional
      BY <1>n, <3>3, <3>4
    <3> QED
      BY <1>b, <2>f, <3>3, <3>4, <3>5 DEF BarriersOK, Gone, Begun
  <2>5. CASE EndData(w)
    <3>1. thread[w].phase = "data" /\ Becomes(w, "post_data", NoJob, thread[w].todo)
      BY <1>0, <2>5, DataEffect
    <3>2. tokens' = tokens
      BY <2>5, Zenon DEF EndData
    <3> QED
      BY <1>p, <2>s, <2>c, <3>1, <3>2
  <2>6. CASE EndPostData(w)
    <3>1. thread[w].phase = "post_data" /\ Becomes(w, "end", NoJob, thread[w].todo)
      BY <1>0, <2>6, EndPostDataEffect
    <3>2. tokens' = tokens
      BY <2>6, Zenon DEF EndPostData
    <3> QED
      BY <1>p, <2>s, <2>c, <3>1, <3>2
  <2>7. CASE WriteStatus(w)
    <3>1. thread[w].phase = "initial" /\ Becomes(w, "initial", NoJob, {})
      BY <1>0, <2>7, WriteStatusEffect
    <3>2. tokens' = [tokens EXCEPT !.status = @ + 1]
      BY <2>7, Zenon DEF WriteStatus
    <3>3. /\ tokens'.initial_completed = tokens.initial_completed
          /\ tokens'.ready_non_transactional = tokens.ready_non_transactional
      BY <1>n, <3>2 DEF TokenRecord
    <3> QED
      BY <2>s, <2>c, <3>1, <3>3
  <2>8. ASSUME NEW d \in Databases, ListDatabase(w, d)
        PROVE  BarriersOK'
    <3>1. thread[w].phase = "initial" /\ Becomes(w, "initial", AllJob, thread[w].todo \ {d})
      BY <1>0, <2>8, ListDatabaseEffect
    <3>2. tokens' = tokens
      BY <2>8, Zenon DEF ListDatabase
    <3> QED
      BY <1>p, <2>s, <2>c, <3>1, <3>2
  <2>9. ASSUME NEW t \in Tables, ListTable(w, t)
        PROVE  BarriersOK'
    <3>1. thread[w].phase = "initial" /\ Becomes(w, "initial", thread[w].job, thread[w].todo \ {t})
      BY <1>0, <2>9, ListTableEffect
    <3>2. tokens' = tokens
      BY <2>9, Zenon DEF ListTable
    <3> QED
      BY <1>p, <2>s, <2>c, <3>1, <3>2
  <2>10. CASE EndListing(w) \/ SelectDatabaseFails(w)
    <3>1. /\ thread[w].job \in ListingJobs /\ thread[w].phase = "initial"
          /\ Becomes(w, "initial", NoJob, {})
      <4>1. CASE EndListing(w)
        BY <1>0, <4>1, EndListingEffect
      <4>2. CASE SelectDatabaseFails(w)
        BY <1>0, <4>2, SelectFailsEffect, JobTypes
      <4> QED
        BY <2>10, <4>1, <4>2
    <3>2. CountDown
      BY <2>10 DEF EndListing, SelectDatabaseFails
    <3>3. /\ tokens'.initial_completed = tokens.initial_completed
          /\ tokens'.ready_non_transactional = tokens.ready_non_transactional
      BY <1>0, <3>1, <3>2, CountDownType
    <3> QED
      BY <2>s, <2>c, <3>1, <3>3
  <2>11. CASE NewTable(w)
    <3>1. thread[w].phase = "initial" /\ Becomes(w, "initial", NoJob, {})
      BY <1>0, <2>11, NewTableEffect
    <3>2. tokens' = tokens
      BY <2>11, Zenon DEF NewTable
    <3> QED
      BY <1>p, <2>s, <2>c, <3>1, <3>2
  <2> QED
    BY <1>6, <2>1, <2>2, <2>3, <2>4, <2>5, <2>6, <2>7, <2>8, <2>9, <2>10, <2>11 DEF Worker
<1>7. CASE Shutdown \/ Ended \/ UNCHANGED vars
  <2>1. UNCHANGED <<main, tokens, thread>>
    BY <1>7, Zenon DEF Shutdown, Ended, vars
  <2> QED
    BY <1>0, <1>p, <1>t, <2>1, BarriersSame
<1> QED
  BY <1>1, <1>2, <1>3, <1>4, <1>5, <1>6, <1>7 DEF Next, Main

-----------------------------------------------------------------------------
(* A queue loses its first job, gets jobs while it is open, or stays.      *)
Keeps(q, r, open) ==
    \/ r = q
    \/ q # <<>> /\ r = Tail(q)
    \/ open /\ (Without(ShutdownJob, q) => Without(ShutdownJob, r))

LEMMA KeepsOrder ==
    ASSUME NEW T, NEW q \in Seq(T), NEW r, NEW open, Keeps(q, r, open),
           Ordered(q), open => Without(ShutdownJob, q)
    PROVE  Ordered(r) /\ (open => Without(ShutdownJob, r))
<1>1. CASE r = q
  BY <1>1
<1>2. CASE q # <<>> /\ r = Tail(q)
  BY <1>2, QueueTail
<1>3. CASE open /\ (Without(ShutdownJob, q) => Without(ShutdownJob, r))
  BY <1>3, OpenOrdered
<1> QED
  BY <1>1, <1>2, <1>3 DEF Keeps

LEMMA OrderKept ==
    ASSUME ControlTypes, OrderOK,
           main' \notin AfterListing => main \notin AfterListing,
           main' \notin AfterInitial => main \notin AfterInitial,
           main' \notin AfterData => main \notin AfterData,
           Keeps(initial_queue, initial_queue', main \notin AfterListing),
           Keeps(schema_queue, schema_queue', main \notin AfterInitial),
           Keeps(post_data_queue, post_data_queue', main \notin AfterData)
    PROVE  OrderOK'
<1>1. Ordered(initial_queue') /\ (main \notin AfterListing => Without(ShutdownJob, initial_queue'))
  BY QueueTypes, KeepsOrder DEF OrderOK
<1>2. Ordered(schema_queue') /\ (main \notin AfterInitial => Without(ShutdownJob, schema_queue'))
  BY QueueTypes, KeepsOrder DEF OrderOK
<1>3. Ordered(post_data_queue') /\ (main \notin AfterData => Without(ShutdownJob, post_data_queue'))
  BY QueueTypes, KeepsOrder DEF OrderOK
<1> QED
  BY <1>1, <1>2, <1>3 DEF OrderOK

(* What no worker does: push behind a JOB_SHUTDOWN *)
QueuesKept ==
    /\ Keeps(initial_queue, initial_queue', main \notin AfterListing)
    /\ Keeps(schema_queue, schema_queue', main \notin AfterInitial)
    /\ Keeps(post_data_queue, post_data_queue', main \notin AfterData)

LEMMA WorkerKeeps ==
    ASSUME QInv, NEW w \in Workers, Worker(w)
    PROVE  QueuesKept
<1>0. ControlTypes /\ RegistryTypes /\ ThreadsOK /\ FreshOK /\ CounterOK /\ BarriersOK
  BY DEF QInv
<1>k. \A q, open : Keeps(q, q, open)
  BY DEF Keeps
<1>h. AfterData \subseteq AfterInitial
  BY DEF AfterData, AfterInitial
<1>s. ASSUME Keeps(initial_queue, initial_queue', main \notin AfterListing),
             Keeps(schema_queue, schema_queue', main \notin AfterInitial),
             Keeps(post_data_queue, post_data_queue', main \notin AfterData)
      PROVE  QueuesKept
  BY <1>s DEF QueuesKept
<1>e. \A q, r, j, open : open /\ Extended(q, r, j) => Keeps(q, r, open)
  BY DEF Extended, Keeps
<1>g. \A q, r, c, j, open : open /\ Gets(q, r, c, j) => Keeps(q, r, open)
  BY DEF Gets, Keeps
<1>d. \A ds, open : open /\ DatabaseMade(ds) => Keeps(schema_queue, schema_queue', open)
  BY DEF DatabaseMade, Keeps
<1>i. thread[w].phase = "initial" => main \notin AfterInitial /\ main \notin AfterData
  BY <1>0, <1>h, InitialHeld
<1>1. CASE TakeInitialJob(w)
  <2>1. initial_queue # <<>> /\ initial_queue' = Tail(initial_queue)
    BY <1>0, <1>1, TakeInitialEffect
  <2>2. UNCHANGED <<schema_queue, post_data_queue>>
    BY <1>1, Zenon DEF TakeInitialJob
  <2> QED
    BY <1>k, <1>s, <2>1, <2>2 DEF Keeps
<1>2. CASE EndInitial(w)
  <2>1. initial_queue # <<>> /\ initial_queue' = Tail(initial_queue)
    BY <1>0, <1>2, EndInitialEffect
  <2>2. UNCHANGED <<schema_queue, post_data_queue>>
    BY <1>2, Zenon DEF EndInitial
  <2> QED
    BY <1>k, <1>s, <2>1, <2>2 DEF Keeps
<1>3. CASE TakeSchemaJob(w)
  <2>1. schema_queue # <<>> /\ schema_queue' = Tail(schema_queue)
    BY <1>0, <1>3, TakeSchemaEffect
  <2>2. UNCHANGED <<initial_queue, post_data_queue>>
    BY <1>3, Zenon DEF TakeSchemaJob
  <2> QED
    BY <1>k, <1>s, <2>1, <2>2 DEF Keeps
<1>4. CASE EndSchema(w)
  <2>1. schema_queue # <<>> /\ schema_queue' = Tail(schema_queue)
    BY <1>0, <1>4, EndSchemaEffect
  <2>2. UNCHANGED <<initial_queue, post_data_queue>>
    BY <1>4, Zenon DEF EndSchema
  <2> QED
    BY <1>k, <1>s, <2>1, <2>2 DEF Keeps
<1>5. CASE TakePostDataJob(w)
  <2>1. post_data_queue # <<>> /\ post_data_queue' = Tail(post_data_queue)
    BY <1>0, <1>5, TakePostDataEffect
  <2>2. UNCHANGED <<initial_queue, schema_queue>>
    BY <1>5, Zenon DEF TakePostDataJob
  <2> QED
    BY <1>k, <1>s, <2>1, <2>2 DEF Keeps
<1>6. CASE EndPostData(w)
  <2>1. post_data_queue # <<>> /\ post_data_queue' = Tail(post_data_queue)
    BY <1>0, <1>6, EndPostDataEffect
  <2>2. UNCHANGED <<initial_queue, schema_queue>>
    BY <1>6, Zenon DEF EndPostData
  <2> QED
    BY <1>k, <1>s, <2>1, <2>2 DEF Keeps
<1>7. CASE BeginData(w) \/ EndData(w) \/ WriteStatus(w) \/ SelectDatabaseFails(w) \/ ProcessJob(w)
  <2>1. UNCHANGED <<initial_queue, schema_queue, post_data_queue>>
    BY <1>7 DEF BeginData, EndData, WriteStatus, SelectDatabaseFails, ProcessJob, queues
  <2> QED
    BY <1>k, <1>s, <2>1
<1>8. ASSUME NEW d \in Databases, ListDatabase(w, d)
      PROVE  QueuesKept
  <2>1. /\ thread[w].job = AllJob /\ thread[w].phase = "initial" /\ DatabaseMade({d})
        /\ Extended(initial_queue, initial_queue', DatabaseJob(d))
    BY <1>0, <1>8, ListDatabaseEffect
  <2>2. post_data_queue' = post_data_queue
    BY <1>8, Zenon DEF ListDatabase
  <2>3. main \notin AfterListing
    BY <1>0, <2>1, ListingHeld, JobTypes
  <2> QED
    BY <1>k, <1>s, <1>e, <1>d, <1>i, <2>1, <2>2, <2>3
<1>9. ASSUME NEW t \in Tables, ListTable(w, t)
      PROVE  QueuesKept
  <2>1. /\ thread[w].job \in {ListJob, DatabaseJob(DatabaseOf[t])}
        /\ thread[w].phase = "initial" /\ DatabaseMade({DatabaseOf[t]})
        /\ Extended(initial_queue, initial_queue', TableJob(t))
    BY <1>0, <1>9, ListTableEffect
  <2>2. post_data_queue' = post_data_queue
    BY <1>9, Zenon DEF ListTable
  <2>3. DatabaseOf[t] \in Databases
    BY ObjectsAssumption
  <2>4. main \notin AfterListing
    BY <1>0, <2>1, <2>3, ListingHeld, JobTypes
  <2> QED
    BY <1>k, <1>s, <1>e, <1>d, <1>i, <2>1, <2>2, <2>4
<1>10. CASE EndListing(w)
  <2> DEFINE j == thread[w].job
  <2>1. /\ thread[w].phase = "initial"
        /\ Gets(schema_queue, schema_queue',
                j.type = "DUMP_DATABASE" /\ j.object \in Routines, Job("SCHEMA_POST", j.object))
        /\ Gets(post_data_queue, post_data_queue',
                j.type = "DUMP_DATABASE", Job("SCHEMA_TRIGGERS", j.object))
    BY <1>0, <1>10, EndListingEffect
  <2>2. initial_queue' = initial_queue
    BY <1>10, Zenon DEF EndListing
  <2> QED
    BY <1>k, <1>s, <1>g, <1>i, <2>1, <2>2
<1>11. CASE NewTable(w)
  <2> DEFINE t == thread[w].job.object
  <2>1. /\ thread[w].phase = "initial"
        /\ Gets(schema_queue, schema_queue', KindOf[t] \in {"innodb", "myisam"}, Job("SCHEMA", t))
        /\ Without(ShutdownJob, post_data_queue) => Without(ShutdownJob, post_data_queue')
    BY <1>0, <1>11, NewTableEffect
  <2>2. initial_queue' = initial_queue
    BY <1>11, Zenon DEF NewTable
  <2>3. Keeps(post_data_queue, post_data_queue', main \notin AfterData)
    BY <1>i, <2>1 DEF Keeps
  <2> QED
    BY <1>k, <1>s, <1>g, <1>i, <2>1, <2>2, <2>3
<1> QED
  BY <1>1, <1>2, <1>3, <1>4, <1>5, <1>6, <1>7, <1>8, <1>9, <1>10, <1>11 DEF Worker

LEMMA OrderStep == QInv /\ [Next]_vars => OrderOK'
<1> SUFFICES ASSUME QInv, [Next]_vars PROVE OrderOK'
  OBVIOUS
<1>0. ControlTypes /\ RegistryTypes /\ ThreadsOK /\ FreshOK /\ CounterOK /\ BarriersOK /\ OrderOK
  BY DEF QInv
<1>o. /\ Ordered(initial_queue) /\ Ordered(schema_queue) /\ Ordered(post_data_queue)
      /\ main \notin AfterListing => Without(ShutdownJob, initial_queue)
      /\ main \notin AfterInitial => Without(ShutdownJob, schema_queue)
      /\ main \notin AfterData => Without(ShutdownJob, post_data_queue)
  BY <1>0 DEF OrderOK
<1>k. \A q, open : Keeps(q, q, open)
  BY DEF Keeps
<1>j. /\ Ordered(initial_queue \o Shutdowns) /\ Ordered(schema_queue \o Shutdowns)
      /\ Ordered(post_data_queue \o Shutdowns)
  <2>1. /\ initial_queue \in Seq(InitialJobs \cup {ShutdownJob})
        /\ schema_queue \in Seq(SchemaWork \cup {ShutdownJob})
        /\ post_data_queue \in Seq(PostDataWork \cup {ShutdownJob})
    BY <1>0 DEF ControlTypes
  <2> QED
    BY <1>o, <2>1, ShutdownsJoin
<1>1. CASE CreateJobs
  <2>1. Without(ShutdownJob, initial_queue') /\ schema_queue = <<>> /\ post_data_queue = <<>>
    BY <1>0, <1>1, CreateJobsEffect DEF CreateJobs, FreshOK
  <2>2. Without(ShutdownJob, <<>>)
    BY DEF Without
  <2>3. Without(ShutdownJob, schema_queue')
    <3>1. Without(ShutdownJob, schema_queue) => Without(ShutdownJob, schema_queue')
      BY <1>0, <1>1, CreateJobsEffect DEF DatabaseMade
    <3> QED
      BY <2>1, <2>2, <3>1
  <2>4. post_data_queue' = <<>>
    BY <1>1, <2>1 DEF CreateJobs
  <2> QED
    BY <2>1, <2>2, <2>3, <2>4, OpenOrdered DEF OrderOK
<1>2. CASE AwaitStatus
  <2>1. main = "status" /\ main' = "db_ready" /\ UNCHANGED queues
    BY <1>2, Zenon DEF AwaitStatus
  <2> QED
    BY <1>0, <1>k, <2>1, OrderKept DEF queues, AfterData, AfterListing, AfterInitial
<1>3. CASE ShutdownInitial
  <2>1. /\ main = "db_ready" /\ main' = "completed" /\ initial_queue' = initial_queue \o Shutdowns
        /\ UNCHANGED <<schema_queue, post_data_queue>>
    BY <1>3, Zenon DEF ShutdownInitial
  <2> QED
    BY <1>o, <1>j, <2>1 DEF OrderOK, AfterData, AfterListing, AfterInitial
<1>4. CASE StartData
  <2>1. /\ main = "completed" /\ main' = "post_data" /\ schema_queue' = schema_queue \o Shutdowns
        /\ UNCHANGED <<initial_queue, post_data_queue>>
    BY <1>4, Zenon DEF StartData
  <2> QED
    BY <1>o, <1>j, <2>1 DEF OrderOK, AfterData, AfterListing, AfterInitial
<1>5. CASE ShutdownPostData
  <2>1. /\ main = "post_data" /\ main' = "join" /\ post_data_queue' = post_data_queue \o Shutdowns
        /\ UNCHANGED <<initial_queue, schema_queue>>
    BY <1>5, Zenon DEF ShutdownPostData
  <2> QED
    BY <1>o, <1>j, <2>1 DEF OrderOK, AfterData, AfterListing, AfterInitial
<1>6. CASE Finish
  <2>1. main = "join" /\ main' = "done" /\ UNCHANGED queues
    BY <1>6, Zenon DEF Finish
  <2> QED
    BY <1>0, <1>k, <2>1, OrderKept DEF queues, AfterData, AfterListing, AfterInitial
<1>7. ASSUME NEW w \in Workers, Worker(w)
      PROVE  OrderOK'
  <2>1. QueuesKept /\ main' = main
    BY <1>7, WorkerKeeps, WorkerFrame
  <2> QED
    BY <1>0, <2>1, OrderKept DEF QueuesKept
<1>8. CASE Shutdown \/ Ended \/ UNCHANGED vars
  <2>1. UNCHANGED <<main, initial_queue, schema_queue, post_data_queue>>
    BY <1>8, Zenon DEF Shutdown, Ended, vars, queues
  <2> QED
    BY <1>0, <1>k, <2>1, OrderKept
<1> QED
  BY <1>1, <1>2, <1>3, <1>4, <1>5, <1>6, <1>7, <1>8 DEF Next, Main

-----------------------------------------------------------------------------
LEMMA QInvInit == Init => QInv
<1> SUFFICES ASSUME Init PROVE QInv
  OBVIOUS
<1>i. /\ request \in {"tables", "databases", "all"} /\ main = "jobs" /\ database_counter = 0
      /\ initial_queue = <<>> /\ schema_queue = <<>> /\ post_data_queue = <<>>
      /\ tokens = [status |-> 0, db_ready |-> 0, initial_completed |-> 0,
                   ready_non_transactional |-> 0]
      /\ database_hash = {} /\ transactional_table = {} /\ non_transactional_table = {}
      /\ lock_tables_statement = {} /\ unreadable = {}
      /\ thread = [w \in Workers |-> [phase |-> "initial", job |-> NoJob, todo |-> {}]]
      /\ done = [j \in Work |-> 0]
      /\ metadata = "partial" /\ shutdown_triggered = FALSE
  BY DEF Init
<1>r. /\ "initial" \in Phases /\ NoJob \in AnyJob
      /\ [phase |-> "initial", job |-> NoJob, todo |-> {}] \in ThreadRecord
  BY RecordType DEF Phases, AnyJob
<1>t. thread \in [Workers -> ThreadRecord]
  BY <1>i, <1>r
<1>w. \A w \in Workers : thread[w].phase = "initial" /\ thread[w].job = NoJob /\ thread[w].todo = {}
  BY <1>i
<1>q. \A T : <<>> \in Seq(T)
  OBVIOUS
<1>1. ControlTypes
  BY <1>i, <1>q, <1>t DEF ControlTypes
<1>2. RegistryTypes
  <2>1. done \in [Work -> Nat]
    BY <1>i
  <2> QED
    BY <1>i, <2>1 DEF RegistryTypes
<1>3. ThreadsOK
  BY <1>w, JobSets DEF ThreadsOK, Fits, Work
<1>4. FreshOK
  BY <1>i, <1>w DEF FreshOK
<1>5. /\ main \notin AfterListing /\ main \notin AfterInitial /\ main \notin AfterStatus
      /\ main \notin AfterData
  BY <1>i DEF AfterStatus, AfterListing, AfterInitial, AfterData
<1>6. /\ Listings = 0 /\ StatusJobs = 0
      /\ Many(Workers, thread, Left) = 0 /\ Many(Workers, thread, InData) = 0
  <2>1. \A P : Items(initial_queue, P) = 0
    BY <1>i, ItemsEmpty
  <2>2. NoJob \notin ListingJobs /\ NoJob \notin {StatusJob}
    BY JobTypes, JobSets
  <2>3. \A w \in Workers : /\ thread[w] \notin Doing(ListingJobs)
                           /\ thread[w] \notin Doing({StatusJob})
                           /\ thread[w] \notin Left /\ thread[w] \notin InData
    BY <1>w, <2>2 DEF Doing, Left, InData, AtPhase
  <2>4. /\ Many(Workers, thread, Doing(ListingJobs)) = 0
        /\ Many(Workers, thread, Doing({StatusJob})) = 0
        /\ Many(Workers, thread, Left) = 0 /\ Many(Workers, thread, InData) = 0
    BY <2>3, ManyType
  <2> QED
    BY <2>1, <2>4 DEF Listings, StatusJobs, Listed
<1>7. /\ tokens.status = 0 /\ tokens.db_ready = 0 /\ tokens.initial_completed = 0
      /\ tokens.ready_non_transactional = 0
  BY <1>i
<1>8. CounterOK
  BY <1>i, <1>5, <1>6, <1>7 DEF CounterOK, One
<1>9. StatusOK
  BY <1>5, <1>6, <1>7 DEF StatusOK, One
<1>10. BarriersOK
  BY <1>5, <1>6, <1>7 DEF BarriersOK
<1>11. OrderOK
  BY <1>i DEF OrderOK, Ordered, Without
<1> QED
  BY <1>1, <1>2, <1>3, <1>4, <1>8, <1>9, <1>10, <1>11 DEF QInv

LEMMA QInvNext == QInv /\ [Next]_vars => QInv'
<1> SUFFICES ASSUME QInv, [Next]_vars PROVE QInv'
  OBVIOUS
<1>1. ControlTypes'
  BY ControlStep
<1>2. RegistryTypes' /\ ThreadsOK' /\ FreshOK'
  BY RegistryStep, ThreadsStep, FreshStep
<1>3. CounterOK' /\ StatusOK'
  BY <1>1, CounterStep, StatusStep
<1>4. BarriersOK' /\ OrderOK'
  BY BarriersStep, OrderStep
<1> QED
  BY <1>1, <1>2, <1>3, <1>4 DEF QInv

(* QInv is inductive: whatever the threads do, and with or without a       *)
(* signal, the counter and the tokens of start_dump agree with where the   *)
(* workers are, and every JOB_SHUTDOWN is behind the work of its queue.    *)
THEOREM Inductive == Spec => []QInv
  BY QInvInit, QInvNext, PTL DEF Spec

LEMMA QInvTypes == QInv => TypeOK
<1> SUFFICES ASSUME QInv PROVE TypeOK
  OBVIOUS
<1>0. ControlTypes /\ RegistryTypes /\ ThreadsOK /\ CounterOK /\ StatusOK /\ BarriersOK
  BY DEF QInv
<1>1. tokens \in TokenRecord
  BY <1>0 DEF ControlTypes, TokenRecord
<1>2. /\ tokens.status \in Nat /\ tokens.db_ready \in Nat /\ tokens.initial_completed \in Nat
      /\ tokens.ready_non_transactional \in Nat
      /\ tokens = [status |-> tokens.status, db_ready |-> tokens.db_ready,
                   initial_completed |-> tokens.initial_completed,
                   ready_non_transactional |-> tokens.ready_non_transactional]
  BY <1>1 DEF TokenRecord
<1>3. tokens.status <= 1
  <2>1. StatusJobs \in Nat
    BY <1>0, NumberType DEF NumbersOK
  <2>2. One(main \in AfterStatus) \in Nat
    BY DEF One
  <2> QED
    BY <1>0, <1>2, <2>1, <2>2 DEF StatusOK
<1>4. tokens.db_ready <= 1
  <2>1. One(main \in AfterListing) \in Nat
    BY DEF One
  <2> QED
    BY <1>0, <1>2, <2>1 DEF CounterOK
<1>5. tokens.initial_completed <= N /\ tokens.ready_non_transactional <= N
  <2>1. /\ Many(Workers, thread, Left) \in Nat /\ Many(Workers, thread, Left) <= N
        /\ Many(Workers, thread, InData) \in Nat
    BY ManyType
  <2> QED
    BY <1>0, <1>2, <2>1, NType DEF BarriersOK
<1>6. tokens \in [status : 0 .. 1, db_ready : 0 .. 1, initial_completed : 0 .. N,
                  ready_non_transactional : 0 .. N]
  <2>1. /\ tokens.status \in 0 .. 1 /\ tokens.db_ready \in 0 .. 1
        /\ tokens.initial_completed \in 0 .. N /\ tokens.ready_non_transactional \in 0 .. N
    BY <1>2, <1>3, <1>4, <1>5, NType
  <2> QED
    BY <1>2, <2>1
<1>7. \A w \in Workers : thread[w].todo \subseteq Rows(thread[w].job)
  BY <1>0 DEF ThreadsOK, Fits
<1> QED
  BY <1>0, <1>6, <1>7 DEF TypeOK, ControlTypes, RegistryTypes

LEMMA QInvQueues == QInv => QueuesSound
<1> SUFFICES ASSUME QInv PROVE QueuesSound
  OBVIOUS
<1>0. ControlTypes /\ CounterOK /\ OrderOK
  BY DEF QInv
<1> DEFINE queued == {n \in DOMAIN initial_queue : initial_queue[n].type \in ListingTypes}
           taken == {w \in Workers : thread[w].job.type \in ListingTypes}
<1>1. Cardinality(queued) = Items(initial_queue, ListingJobs)
  <2>1. ShutdownJob.type \notin ListingTypes /\ ShutdownJob \notin ListingJobs
    BY JobSets, JobTypes DEF ListingTypes
  <2>2. \A n \in DOMAIN initial_queue : initial_queue[n] \in InitialQueueJobs
    BY <1>0, QueueTypes
  <2>3. \A n \in DOMAIN initial_queue :
            initial_queue[n].type \in ListingTypes <=> initial_queue[n] \in ListingJobs
    BY <2>1, <2>2, JobTypes DEF InitialQueueJobs
  <2>4. queued = {n \in DOMAIN initial_queue : initial_queue[n] \in ListingJobs}
    BY <2>3
  <2> QED
    BY <2>4 DEF Items
<1>2. Cardinality(taken) = Many(Workers, thread, Doing(ListingJobs))
  <2>1. \A w \in Workers : thread[w] \in ThreadRecord /\ thread[w].job \in AnyJob
    BY <1>0, ThreadType
  <2>2. \A w \in Workers : thread[w].job.type \in ListingTypes <=> thread[w] \in Doing(ListingJobs)
    BY <2>1, JobTypes DEF Doing, AnyJob
  <2>3. taken = {w \in Workers : thread[w] \in Doing(ListingJobs)}
    BY <2>2
  <2> QED
    BY <2>3 DEF Many
<1>3. ~shutdown_triggered => database_counter = Cardinality(queued) + Cardinality(taken)
  BY <1>0, <1>1, <1>2 DEF CounterOK, Listings, Listed
<1>4. tokens.db_ready = 1 \/ main \in {"completed", "post_data", "join", "done"}
         => database_counter = 0
  <2>1. tokens.db_ready \in Nat
    BY <1>0 DEF ControlTypes
  <2>2. main \in {"completed", "post_data", "join", "done"} <=> main \in AfterListing
    BY DEF AfterListing, AfterInitial
  <2> QED
    BY <1>0, <2>1, <2>2 DEF CounterOK, One
<1>5. ListingCounted
  BY <1>3, <1>4, Zenon DEF ListingCounted
<1>6. NothingBehindShutdown
  BY <1>0 DEF OrderOK, Ordered, NothingBehindShutdown
<1> QED
  BY <1>5, <1>6 DEF QueuesSound

(* Every variable keeps its type for any number of workers: each queue     *)
(* holds only jobs its process function knows, database_counter, a guint   *)
(* that handlers count down, never wraps, and the source status and        *)
(* db_ready are announced at most once, the end of a worker's initial      *)
(* phase at most once per worker.                                          *)
THEOREM TypesCorrect == Spec => []TypeOK
<1>1. QInv => TypeOK
  BY QInvTypes
<1> QED
  BY <1>1, Inductive, PTL

(* The queues are sound: without a signal database_counter is the number   *)
(* of listing jobs queued or being processed, so that db_ready is pushed   *)
(* only when all listing is over, and no job is ever behind a JOB_SHUTDOWN *)
(* pushed by start_dump, where no worker would reach it.                   *)
THEOREM QueuesCorrect == Spec => []QueuesSound
<1>1. QInv => QueuesSound
  BY QInvQueues
<1> QED
  BY <1>1, Inductive, PTL
=============================================================================
