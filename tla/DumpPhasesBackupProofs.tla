----------------------- MODULE DumpPhasesBackupProofs -----------------------
(***************************************************************************)
(* Proofs about what a backup contains, for any number of workers,         *)
(* databases and tables.  A table is followed from the job that will list  *)
(* it through the job that dumps it to the schema and post-data jobs it    *)
(* becomes: at each time it is in one place.                               *)
(***************************************************************************)
EXTENDS DumpPhasesProofs

(* Workers go past the phases F only when main is at C and what is left in *)
(* the queue of these phases are JOB_SHUTDOWN jobs.                        *)
Gate(F, C, q) ==
    \A w \in Workers : thread[w].phase \notin F => main \in C /\ Only(ShutdownJob, q)

(* A queue is left when all of its jobs have been taken. *)
ClosedOK ==
    ~shutdown_triggered =>
        /\ Gate({"initial"}, AfterListing, initial_queue)
        /\ Gate({"initial", "schema"}, AfterInitial, schema_queue)
        /\ Gate(Phases \ {"end"}, AfterData, post_data_queue)

LockOK == main \in AfterInitial => lock_tables_statement = non_transactional_table

FinishOK == metadata = "final" => \A w \in Workers : thread[w].phase = "end"

(* Where a schema or post-data job is. *)
Made(j) ==
    Items(schema_queue, {j}) + Items(post_data_queue, {j}) + Many(Workers, thread, Doing({j}))
        + done[j]

(* What will still become the jobs of a table, those of a database, the    *)
(* job that creates a database, and the job of a table that is on a list.  *)
AboveTable(t) == {AllJob, ListJob, DatabaseJob(DatabaseOf[t]), TableJob(t)}
AtTable(t) == {r \in ThreadRecord :
                  \/ r.job = TableJob(t)
                  \/ r.job = AllJob /\ DatabaseOf[t] \in r.todo
                  \/ r.job = ListJob /\ t \in r.todo
                  \/ r.job = DatabaseJob(DatabaseOf[t]) /\ t \in r.todo}
TableDue(t) == Listed(AboveTable(t), AtTable(t))

AboveDatabase(d) == {AllJob, DatabaseJob(d)}
AtDatabase(d) == {r \in ThreadRecord : \/ r.job = DatabaseJob(d)
                                       \/ r.job = AllJob /\ d \in r.todo}
DatabaseDue(d) == Listed(AboveDatabase(d), AtDatabase(d))

AtCreation(d) == {r \in ThreadRecord : r.job = AllJob /\ d \in r.todo}
CreationDue(d) == Listed({AllJob}, AtCreation(d))

AtName(t) == {r \in ThreadRecord : r.job = ListJob /\ t \in r.todo}
NameDue(t) == Listed({ListJob}, AtName(t))

TableTypes == {"SCHEMA", "VIEW", "SEQUENCE", "TRIGGERS", "CHECKSUM"}
DatabaseTypes == {"SCHEMA_POST", "SCHEMA_TRIGGERS"}

AtMostOnce ==
    /\ \A t \in Tables : \A type \in TableTypes : Made(Job(type, t)) + TableDue(t) <= 1
    /\ \A d \in Databases : \A type \in DatabaseTypes :
            Made(Job(type, d)) + DatabaseDue(d) <= 1
    /\ \A d \in Databases :
            Made(Job("CREATE_DATABASE", d)) <= One(d \in database_hash)

TableExact(t) ==
    /\ t \notin Readable => TableDue(t) = 0
    /\ \A type \in TableTypes :
          Made(Job(type, t)) =
             IF WantedOf(t, type) /\ t \in Readable THEN 1 - TableDue(t) ELSE 0
    /\ t \in transactional_table <=>
          t \in Readable /\ KindOf[t] = "innodb" /\ TableDue(t) = 0
    /\ t \in non_transactional_table <=>
          t \in Readable /\ KindOf[t] = "myisam" /\ TableDue(t) = 0
TablesExact == \A t \in Tables : TableExact(t)

Whole(d) == request # "tables" /\ d \notin unreadable

DatabaseExact(d) ==
    /\ ~Whole(d) => DatabaseDue(d) = 0
    /\ \A type \in DatabaseTypes :
          Made(Job(type, d)) =
             IF Whole(d) /\ (type = "SCHEMA_POST" => d \in Routines)
             THEN 1 - DatabaseDue(d) ELSE 0
DatabasesExact == \A d \in Databases : DatabaseExact(d)

NamesExact ==
    /\ \A d \in Databases : d \in database_hash => Made(Job("CREATE_DATABASE", d)) = 1
    /\ request = "databases" => database_hash = Databases
    /\ request = "all" => \A d \in Databases : d \in database_hash \/ CreationDue(d) >= 1
    /\ request = "tables" =>
          /\ \A d \in database_hash : \E t \in Tables : DatabaseOf[t] = d
          /\ \A t \in Tables : DatabaseOf[t] \in database_hash \/ NameDue(t) >= 1

NoneLost ==
    ~shutdown_triggered /\ main # "jobs" => TablesExact /\ DatabasesExact /\ NamesExact

(* The inductive invariant *)
BackupInv ==
    QInv /\ ClosedOK /\ LockOK /\ FinishOK /\ AtMostOnce /\ NoneLost

-----------------------------------------------------------------------------
(* Where a worker's step takes it. *)
Goes(w, p) ==
    /\ \E j, s : Becomes(w, p, j, s)
    /\ thread[w].phase # "end"
    /\ \/ p = thread[w].phase
       \/ thread[w].phase \in {"waiting", "data"} /\ p \in {"data", "post_data"}
       \/ EndInitial(w) /\ thread[w].phase = "initial" /\ p = "schema"
       \/ EndSchema(w) /\ thread[w].phase = "schema" /\ p = "waiting"
       \/ EndPostData(w) /\ thread[w].phase = "post_data" /\ p = "end"

LEMMA WorkerGoes ==
    ASSUME ControlTypes, ThreadsOK, NEW w \in Workers, Worker(w)
    PROVE  \E p : Goes(w, p)
<1>s. ASSUME NEW j, NEW s, Becomes(w, thread[w].phase, j, s), thread[w].phase # "end"
      PROVE  \E p : Goes(w, p)
  BY <1>s DEF Goes
<1>i. ASSUME NEW j, NEW s, Becomes(w, "initial", j, s), thread[w].phase = "initial"
      PROVE  \E p : Goes(w, p)
  BY <1>i, <1>s
<1>1. CASE TakeInitialJob(w)
  BY <1>1, <1>i, TakeInitialEffect
<1>2. CASE TakeSchemaJob(w)
  BY <1>2, <1>s, TakeSchemaEffect
<1>3. CASE TakePostDataJob(w)
  BY <1>3, <1>s, TakePostDataEffect
<1>4. CASE EndInitial(w)
  <2>1. Goes(w, "schema")
    BY <1>4, EndInitialEffect DEF Goes
  <2> QED
    BY <2>1
<1>5. CASE EndSchema(w)
  <2>1. Goes(w, "waiting")
    BY <1>5, EndSchemaEffect DEF Goes
  <2> QED
    BY <2>1
<1>6. CASE EndPostData(w)
  <2>1. Goes(w, "end")
    BY <1>6, EndPostDataEffect DEF Goes
  <2> QED
    BY <2>1
<1>7. CASE BeginData(w) \/ EndData(w)
  <2>1. PICK p \in {"data", "post_data"} : Becomes(w, p, NoJob, thread[w].todo)
    BY <1>7, DataEffect
  <2>2. thread[w].phase \in {"waiting", "data"}
    BY <1>7 DEF BeginData, EndData, Idle
  <2>3. Goes(w, p)
    BY <2>1, <2>2 DEF Goes
  <2> QED
    BY <2>3
<1>8. CASE WriteStatus(w)
  BY <1>8, <1>i, WriteStatusEffect
<1>9. CASE EndListing(w)
  BY <1>9, <1>i, EndListingEffect
<1>10. CASE SelectDatabaseFails(w)
  BY <1>10, <1>i, SelectFailsEffect
<1>11. CASE NewTable(w)
  BY <1>11, <1>i, NewTableEffect
<1>12. CASE ProcessJob(w)
  BY <1>12, <1>s, ProcessEffect
<1>13. ASSUME NEW d \in Databases, ListDatabase(w, d)
       PROVE  \E p : Goes(w, p)
  BY <1>13, <1>i, ListDatabaseEffect
<1>14. ASSUME NEW t \in Tables, ListTable(w, t)
       PROVE  \E p : Goes(w, p)
  BY <1>14, <1>i, ListTableEffect
<1> QED
  BY <1>1, <1>2, <1>3, <1>4, <1>5, <1>6, <1>7, <1>8, <1>9, <1>10, <1>11, <1>12, <1>13, <1>14
  DEF Worker

(* Nothing is put in a queue that some worker has left. *)
LEMMA GateKept ==
    ASSUME ControlTypes, NEW w \in Workers, NEW p, NEW j, NEW s, Becomes(w, p, j, s),
           NEW F, NEW C, NEW q, NEW T, q \in Seq(T), NEW r, Gate(F, C, q),
           p \notin F => thread[w].phase \notin F,
           Keeps(q, r, main \notin C), main' = main
    PROVE  \A v \in Workers : thread'[v].phase \notin F => main' \in C /\ Only(ShutdownJob, r)
<1> SUFFICES ASSUME NEW v \in Workers, thread'[v].phase \notin F
             PROVE  main' \in C /\ Only(ShutdownJob, r)
  OBVIOUS
<1>1. thread[v].phase \notin F
  BY DEF Becomes
<1>2. main \in C /\ Only(ShutdownJob, q)
  BY <1>1 DEF Gate
<1>3. r = q \/ (q # <<>> /\ r = Tail(q))
  BY <1>2 DEF Keeps
<1>4. Only(ShutdownJob, r)
  BY <1>2, <1>3, QueueTail
<1> QED
  BY <1>2, <1>4

(* A JOB_SHUTDOWN at the head of a queue has only others behind it. *)
LEMMA GatePassed ==
    ASSUME NEW F, NEW C, NEW q, NEW T, q \in Seq(T), q # <<>>, NEW r, r = Tail(q),
           Head(q) = ShutdownJob, Ordered(q), main \notin C => Without(ShutdownJob, q),
           main' = main
    PROVE  main' \in C /\ Only(ShutdownJob, r)
<1>1. Only(ShutdownJob, r)
  BY QueueTail
<1>2. main \in C
  BY QueueTail
<1> QED
  BY <1>1, <1>2

(* The main thread closes a queue before anybody has left it. *)
LEMMA GateMain ==
    ASSUME NEW F, NEW C, NEW q, NEW r, Gate(F, C, q), thread' = thread,
           main \in C => main' \in C /\ r = q
    PROVE  \A v \in Workers : thread'[v].phase \notin F => main' \in C /\ Only(ShutdownJob, r)
  BY DEF Gate

LEMMA ClosedStep == QInv /\ ClosedOK /\ [Next]_vars => ClosedOK'
<1> DEFINE Initial == {"initial"}
           Schema == {"initial", "schema"}
           NotEnd == Phases \ {"end"}
           Closed(F, C, r) == \A v \in Workers :
                                  thread'[v].phase \notin F => main' \in C /\ Only(ShutdownJob, r)
           Goal == /\ Closed(Initial, AfterListing, initial_queue')
                   /\ Closed(Schema, AfterInitial, schema_queue')
                   /\ Closed(NotEnd, AfterData, post_data_queue')
<1> SUFFICES ASSUME QInv, ClosedOK, [Next]_vars, ~shutdown_triggered' PROVE Goal
  BY DEF ClosedOK, Gate
<1>0. ControlTypes /\ ThreadsOK /\ OrderOK
  BY DEF QInv
<1>g. ~shutdown_triggered =>
        /\ Gate(Initial, AfterListing, initial_queue)
        /\ Gate(Schema, AfterInitial, schema_queue)
        /\ Gate(NotEnd, AfterData, post_data_queue)
  BY DEF ClosedOK
<1>q. /\ initial_queue \in Seq(InitialQueueJobs)
      /\ schema_queue \in Seq(SchemaQueueJobs)
      /\ post_data_queue \in Seq(PostDataQueueJobs)
  BY <1>0, QueueTypes
<1>o. /\ Ordered(initial_queue) /\ Ordered(schema_queue) /\ Ordered(post_data_queue)
      /\ main \notin AfterListing => Without(ShutdownJob, initial_queue)
      /\ main \notin AfterInitial => Without(ShutdownJob, schema_queue)
      /\ main \notin AfterData => Without(ShutdownJob, post_data_queue)
  BY <1>0 DEF OrderOK
<1> HIDE DEF Initial, Schema, NotEnd, Goal
<1>m. ASSUME ~shutdown_triggered, thread' = thread,
             main \in AfterListing => main' \in AfterListing /\ initial_queue' = initial_queue,
             main \in AfterInitial => main' \in AfterInitial /\ schema_queue' = schema_queue,
             main \in AfterData => main' \in AfterData /\ post_data_queue' = post_data_queue
      PROVE  Goal
  BY <1>g, <1>m, GateMain DEF Goal
<1>1. CASE Main
  <2>1. ~shutdown_triggered /\ thread' = thread
    BY <1>1, OthersStay DEF Main, CreateJobs, AwaitStatus, ShutdownInitial, StartData,
       ShutdownPostData, Finish
  <2>2. CASE CreateJobs
    <3>1. main = "jobs"
      BY <2>2 DEF CreateJobs
    <3> QED
      BY <1>m, <2>1, <3>1 DEF AfterListing, AfterInitial, AfterData
  <2>3. CASE AwaitStatus
    <3>1. main = "status"
      BY <2>3 DEF AwaitStatus
    <3> QED
      BY <1>m, <2>1, <3>1 DEF AfterListing, AfterInitial, AfterData
  <2>4. CASE ShutdownInitial
    <3>1. main = "db_ready"
      BY <2>4 DEF ShutdownInitial
    <3> QED
      BY <1>m, <2>1, <3>1 DEF AfterListing, AfterInitial, AfterData
  <2>5. CASE StartData
    <3>1. main = "completed" /\ main' = "post_data" /\ initial_queue' = initial_queue
      BY <2>5 DEF StartData
    <3> QED
      BY <1>m, <2>1, <3>1 DEF AfterListing, AfterInitial, AfterData
  <2>6. CASE ShutdownPostData
    <3>1. /\ main = "post_data" /\ main' = "join" /\ initial_queue' = initial_queue
          /\ schema_queue' = schema_queue
      BY <2>6 DEF ShutdownPostData
    <3> QED
      BY <1>m, <2>1, <3>1 DEF AfterListing, AfterInitial, AfterData
  <2>7. CASE Finish
    <3>1. main = "join" /\ main' = "done" /\ UNCHANGED queues
      BY <2>7 DEF Finish
    <3> QED
      BY <1>m, <2>1, <3>1 DEF queues, AfterListing, AfterInitial, AfterData
  <2> QED
    BY <1>1, <2>2, <2>3, <2>4, <2>5, <2>6, <2>7 DEF Main
<1>2. ASSUME NEW w \in Workers, Worker(w)
      PROVE  Goal
  <2>1. /\ QueuesKept /\ main' = main /\ ~shutdown_triggered
    BY <1>2, WorkerKeeps, WorkerFrame
  <2>2. PICK p : Goes(w, p)
    BY <1>0, <1>2, WorkerGoes
  <2>3. PICK j, s : Becomes(w, p, j, s)
    BY <2>2 DEF Goes
  <2>4. /\ Keeps(initial_queue, initial_queue', main \notin AfterListing)
        /\ Keeps(schema_queue, schema_queue', main \notin AfterInitial)
        /\ Keeps(post_data_queue, post_data_queue', main \notin AfterData)
    BY <2>1 DEF QueuesKept
  <2>5. Closed(Initial, AfterListing, initial_queue')
    <3>1. CASE EndInitial(w)
      <4>1. /\ initial_queue # <<>> /\ initial_queue' = Tail(initial_queue)
            /\ Head(initial_queue) = ShutdownJob
        BY <1>0, <2>1, <3>1, EndInitialEffect
      <4> QED
        BY <1>o, <1>q, <2>1, <4>1, GatePassed
    <3>2. CASE ~EndInitial(w)
      <4>1. p \notin Initial => thread[w].phase \notin Initial
        BY <2>2, <3>2 DEF Goes, Initial
      <4>2. Gate(Initial, AfterListing, initial_queue)
        BY <1>g, <2>1
      <4> QED
        BY <1>0, <1>q, <2>1, <2>3, <2>4, <4>1, <4>2, GateKept
    <3> QED
      BY <3>1, <3>2
  <2>6. Closed(Schema, AfterInitial, schema_queue')
    <3>1. CASE EndSchema(w)
      <4>1. /\ schema_queue # <<>> /\ schema_queue' = Tail(schema_queue)
            /\ Head(schema_queue) = ShutdownJob
        BY <1>0, <2>1, <3>1, EndSchemaEffect
      <4> QED
        BY <1>o, <1>q, <2>1, <4>1, GatePassed
    <3>2. CASE ~EndSchema(w)
      <4>1. p \notin Schema => thread[w].phase \notin Schema
        BY <2>2, <3>2 DEF Goes, Schema
      <4>2. Gate(Schema, AfterInitial, schema_queue)
        BY <1>g, <2>1
      <4> QED
        BY <1>0, <1>q, <2>1, <2>3, <2>4, <4>1, <4>2, GateKept
    <3> QED
      BY <3>1, <3>2
  <2>7. Closed(NotEnd, AfterData, post_data_queue')
    <3>1. CASE EndPostData(w)
      <4>1. /\ post_data_queue # <<>> /\ post_data_queue' = Tail(post_data_queue)
            /\ Head(post_data_queue) = ShutdownJob
        BY <1>0, <2>1, <3>1, EndPostDataEffect
      <4> QED
        BY <1>o, <1>q, <2>1, <4>1, GatePassed
    <3>2. CASE ~EndPostData(w)
      <4>0. thread[w].phase \in Phases
        BY <1>0, ThreadType
      <4>1. p \notin NotEnd => thread[w].phase \notin NotEnd
        BY <2>2, <3>2, <4>0 DEF Goes, NotEnd, Phases
      <4>2. Gate(NotEnd, AfterData, post_data_queue)
        BY <1>g, <2>1
      <4> QED
        BY <1>0, <1>q, <2>1, <2>3, <2>4, <4>1, <4>2, GateKept
    <3> QED
      BY <3>1, <3>2
  <2> QED
    BY <2>5, <2>6, <2>7 DEF Goal
<1>3. CASE Shutdown
  BY <1>3 DEF Shutdown
<1>4. CASE Ended \/ UNCHANGED vars
  <2>1. UNCHANGED <<main, initial_queue, schema_queue, post_data_queue, thread, shutdown_triggered>>
    BY <1>4, Zenon DEF Ended, vars, queues
  <2> QED
    BY <1>m, <2>1
<1> QED
  BY <1>1, <1>2, <1>3, <1>4 DEF Next

LEMMA LockStep == QInv /\ LockOK /\ [Next]_vars => LockOK'
<1> SUFFICES ASSUME QInv, LockOK, [Next]_vars PROVE LockOK'
  OBVIOUS
<1>0. ControlTypes /\ ThreadsOK /\ BarriersOK
  BY DEF QInv
<1>h. "jobs" \notin AfterInitial /\ "status" \notin AfterInitial /\ "db_ready" \notin AfterInitial
      /\ "completed" \notin AfterInitial /\ "post_data" \in AfterInitial /\ "join" \in AfterInitial
  BY DEF AfterInitial
<1>1. CASE CreateJobs \/ AwaitStatus \/ ShutdownInitial
  <2>1. main' \in {"status", "db_ready", "completed"}
    BY <1>1 DEF CreateJobs, AwaitStatus, ShutdownInitial
  <2> QED
    BY <1>h, <2>1 DEF LockOK
<1>2. CASE StartData
  <2>1. /\ lock_tables_statement' = non_transactional_table
        /\ UNCHANGED non_transactional_table
    BY <1>2, Zenon DEF StartData
  <2> QED
    BY <2>1 DEF LockOK
<1>3. CASE ShutdownPostData \/ Finish
  <2>1. main \in {"post_data", "join"} /\ UNCHANGED lists
    BY <1>3 DEF ShutdownPostData, Finish
  <2> QED
    BY <1>h, <2>1 DEF LockOK, lists
<1>4. ASSUME NEW w \in Workers, Worker(w)
      PROVE  LockOK'
  <2>1. UNCHANGED <<main, lock_tables_statement>>
    BY <1>4, WorkerFrame
  <2>2. CASE NewTable(w)
    <3>1. main \notin AfterInitial
      BY <1>0, <2>2, NewTableEffect, InitialHeld
    <3> QED
      BY <2>1, <3>1 DEF LockOK
  <2>3. CASE ~NewTable(w)
    <3>1. non_transactional_table' = non_transactional_table
      BY <1>4, <2>3 DEF Worker, TakeInitialJob, EndInitial, TakeSchemaJob, EndSchema,
         BeginData, EndData, TakePostDataJob, EndPostData, WriteStatus, ListDatabase, ListTable,
         EndListing, SelectDatabaseFails, ProcessJob, lists
    <3> QED
      BY <2>1, <3>1 DEF LockOK
  <2> QED
    BY <2>2, <2>3
<1>5. CASE Shutdown \/ Ended \/ UNCHANGED vars
  <2>1. UNCHANGED <<main, lists>>
    BY <1>5, Zenon DEF Shutdown, Ended, vars
  <2> QED
    BY <2>1 DEF LockOK, lists
<1> QED
  BY <1>1, <1>2, <1>3, <1>4, <1>5 DEF Next, Main

LEMMA FinishStep == QInv /\ FinishOK /\ [Next]_vars => FinishOK'
<1> SUFFICES ASSUME QInv, FinishOK, [Next]_vars PROVE FinishOK'
  OBVIOUS
<1>0. ControlTypes /\ ThreadsOK
  BY DEF QInv
<1>1. CASE Finish
  <2>1. \A w \in Workers : thread[w].phase = "end"
    BY <1>1 DEF Finish
  <2>2. thread' = thread
    BY <1>1, OthersStay DEF Main
  <2> QED
    BY <2>1, <2>2 DEF FinishOK
<1>2. CASE (Main /\ ~Finish) \/ Shutdown \/ Ended \/ UNCHANGED vars
  <2>1. thread' = thread
    BY <1>2, OthersStay
  <2>2. CASE Main /\ ~Finish
    <3>1. metadata' = metadata
      BY <2>2 DEF Main, CreateJobs, AwaitStatus, ShutdownInitial, StartData, ShutdownPostData
    <3> QED
      BY <2>1, <3>1 DEF FinishOK
  <2>3. CASE Shutdown \/ Ended \/ UNCHANGED vars
    <3>1. metadata' = metadata
      BY <2>3, Zenon DEF Shutdown, Ended, vars
    <3> QED
      BY <2>1, <3>1 DEF FinishOK
  <2> QED
    BY <1>2, <2>2, <2>3
<1>3. ASSUME NEW w \in Workers, Worker(w)
      PROVE  FinishOK'
  <2>1. metadata' = metadata
    BY <1>3, WorkerFrame
  <2>2. thread[w].phase # "end"
    BY <1>0, <1>3, WorkerGoes DEF Goes
  <2> QED
    BY <2>1, <2>2 DEF FinishOK
<1> QED
  BY <1>1, <1>2, <1>3 DEF Next

-----------------------------------------------------------------------------
(* The jobs from which tables and databases are still to come. *)
DueJobs == ListingJobs \cup {TableJob(t) : t \in Tables}

LEMMA JobDistinct ==
    /\ AllJob # ListJob /\ AllJob \notin {NoJob, StatusJob, ShutdownJob}
    /\ ListJob \notin {NoJob, StatusJob, ShutdownJob}
    /\ \A d : DatabaseJob(d) \notin {AllJob, ListJob, NoJob, StatusJob, ShutdownJob}
    /\ \A t : TableJob(t) \notin {AllJob, ListJob, NoJob, StatusJob, ShutdownJob}
    /\ \A d, t : DatabaseJob(d) # TableJob(t)
    /\ \A d, e : DatabaseJob(d) = DatabaseJob(e) => d = e
    /\ \A t, u : TableJob(t) = TableJob(u) => t = u
  BY DEF AllJob, ListJob, StatusJob, DatabaseJob, TableJob, NoJob, ShutdownJob, Job

LEMMA NotDue ==
    /\ \A r \in ThreadRecord : r.job \notin DueJobs =>
          /\ \A t \in Tables : r \notin AtTable(t) /\ r \notin AtName(t)
          /\ \A d \in Databases : r \notin AtDatabase(d) /\ r \notin AtCreation(d)
    /\ \A x : x \notin DueJobs =>
          /\ \A t \in Tables : x \notin AboveTable(t) /\ x \notin {ListJob}
          /\ \A d \in Databases : x \notin AboveDatabase(d) /\ x \notin {AllJob}
<1>1. /\ AllJob \in DueJobs /\ ListJob \in DueJobs
      /\ \A d \in Databases : DatabaseJob(d) \in DueJobs
      /\ \A t \in Tables : TableJob(t) \in DueJobs /\ DatabaseOf[t] \in Databases
  BY JobTypes, ObjectsAssumption DEF DueJobs
<1> QED
  BY <1>1 DEF AtTable, AtName, AtDatabase, AtCreation, AboveTable, AboveDatabase

LEMMA AboveTypes ==
    /\ \A t \in Tables : AboveTable(t) \in SUBSET InitialJobs
    /\ \A d \in Databases : AboveDatabase(d) \in SUBSET InitialJobs
    /\ {AllJob} \in SUBSET InitialJobs /\ {ListJob} \in SUBSET InitialJobs
<1>1. \A t \in Tables : DatabaseOf[t] \in Databases
  BY ObjectsAssumption
<1> QED
  BY <1>1, JobTypes DEF AboveTable, AboveDatabase

LEMMA OthersNotDue ==
    /\ NoJob \notin DueJobs /\ StatusJob \notin DueJobs /\ ShutdownJob \notin DueJobs
    /\ \A j \in Work : j \notin DueJobs
    /\ DueJobs \subseteq InitialJobs
<1>1. DueJobs \subseteq InitialJobs
  BY JobTypes DEF DueJobs
<1>2. StatusJob \notin DueJobs
  BY JobTypes, JobDistinct DEF DueJobs
<1> QED
  BY <1>1, <1>2, JobSets

(* Job x leaves initial_queue, job y comes, and w's record becomes r. *)
Weight(x, r, A, B) == One(x \in A) + One(r \in B)
Flow(w, x, y, r) ==
    \A A \in SUBSET InitialJobs : \A B :
        Listed(A, B)' + Weight(x, thread[w], A, B) = Listed(A, B) + Weight(y, r, A, B)

Exchanged(x, y) ==
    \A P \in SUBSET InitialJobs :
        Items(initial_queue', P) + One(x \in P) = Items(initial_queue, P) + One(y \in P)

LEMMA FlowOf ==
    ASSUME ControlTypes, ControlTypes', NEW w \in Workers, NEW p, NEW j, NEW s,
           Becomes(w, p, j, s), NEW x, NEW y, Exchanged(x, y)
    PROVE  Flow(w, x, y, [phase |-> p, job |-> j, todo |-> s])
<1> DEFINE r == [phase |-> p, job |-> j, todo |-> s]
<1>1. \A P : Many(Workers, thread', P) + One(thread[w] \in P) = Many(Workers, thread, P) + One(r \in P)
  BY ThreadType, RecordCounts
<1> HIDE DEF r
<1>2. ASSUME NEW A \in SUBSET InitialJobs, NEW B
      PROVE  Listed(A, B)' + Weight(x, thread[w], A, B) = Listed(A, B) + Weight(y, r, A, B)
  <2>1. /\ Items(initial_queue, A) \in Nat /\ Items(initial_queue', A) \in Nat
        /\ Many(Workers, thread, B) \in Nat /\ Many(Workers, thread', B) \in Nat
    BY CountsAreNumbers, CountsAreNumbersNext
  <2>2. /\ Listed(A, B) = Items(initial_queue, A) + Many(Workers, thread, B)
        /\ Listed(A, B)' = Items(initial_queue', A) + Many(Workers, thread', B)
    BY DEF Listed
  <2> DEFINE a == One(x \in A)
             b == One(thread[w] \in B)
             c == One(y \in A)
             e == One(r \in B)
  <2>3. a \in Nat /\ b \in Nat /\ c \in Nat /\ e \in Nat
    BY DEF One
  <2>4. /\ Items(initial_queue', A) + a = Items(initial_queue, A) + c
        /\ Many(Workers, thread', B) + b = Many(Workers, thread, B) + e
    BY <1>1 DEF Exchanged
  <2>5. Weight(x, thread[w], A, B) = a + b /\ Weight(y, r, A, B) = c + e
    BY DEF Weight
  <2> HIDE DEF a, b, c, e
  <2> QED
    BY <2>1, <2>2, <2>3, <2>4, <2>5
<1> QED
  BY <1>2 DEF Flow, r

DuesOK ==
    /\ \A t \in Tables : TableDue(t) \in Nat /\ NameDue(t) \in Nat
    /\ \A d \in Databases : DatabaseDue(d) \in Nat /\ CreationDue(d) \in Nat

LEMMA DuesType == ControlTypes => DuesOK
  BY CountsAreNumbers DEF DuesOK, TableDue, NameDue, DatabaseDue, CreationDue, Listed

LEMMA DuesTypeNext == ControlTypes' => DuesOK'
  BY DuesType, PTL

(* What is due less: the tables T, the databases D, the creation of the    *)
(* databases E and the names U.                                            *)
DuesLess(T, D, E, U) ==
    /\ \A t \in Tables : /\ TableDue(t)' + One(t \in T) = TableDue(t)
                         /\ NameDue(t)' + One(t \in U) = NameDue(t)
    /\ \A d \in Databases : /\ DatabaseDue(d)' + One(d \in D) = DatabaseDue(d)
                            /\ CreationDue(d)' + One(d \in E) = CreationDue(d)

DuesSame ==
    /\ \A t \in Tables : TableDue(t)' = TableDue(t) /\ NameDue(t)' = NameDue(t)
    /\ \A d \in Databases : DatabaseDue(d)' = DatabaseDue(d) /\ CreationDue(d)' = CreationDue(d)

DuesNoMore ==
    /\ \A t \in Tables : TableDue(t)' <= TableDue(t)
    /\ \A d \in Databases : DatabaseDue(d)' <= DatabaseDue(d)

LEMMA LessWeights ==
    ASSUME ControlTypes, ControlTypes', NEW w, NEW x, NEW y, NEW r, Flow(w, x, y, r),
           NEW T, NEW D, NEW E, NEW U,
           \A t \in Tables : /\ Weight(x, thread[w], AboveTable(t), AtTable(t)) =
                                Weight(y, r, AboveTable(t), AtTable(t)) + One(t \in T)
                             /\ Weight(x, thread[w], {ListJob}, AtName(t)) =
                                Weight(y, r, {ListJob}, AtName(t)) + One(t \in U),
           \A d \in Databases : /\ Weight(x, thread[w], AboveDatabase(d), AtDatabase(d)) =
                                   Weight(y, r, AboveDatabase(d), AtDatabase(d)) + One(d \in D)
                                /\ Weight(x, thread[w], {AllJob}, AtCreation(d)) =
                                   Weight(y, r, {AllJob}, AtCreation(d)) + One(d \in E)
    PROVE  DuesLess(T, D, E, U)
<1>0. DuesOK /\ DuesOK'
  BY DuesType, DuesTypeNext
<1>n. (\A c, q, A, B : Weight(c, q, A, B) \in Nat) /\ (\A c : One(c) \in Nat)
  BY DEF Weight, One
<1>1. ASSUME NEW t \in Tables
      PROVE  /\ TableDue(t)' + One(t \in T) = TableDue(t)
             /\ NameDue(t)' + One(t \in U) = NameDue(t)
  <2>1. /\ TableDue(t)' + Weight(x, thread[w], AboveTable(t), AtTable(t)) =
           TableDue(t) + Weight(y, r, AboveTable(t), AtTable(t))
        /\ NameDue(t)' + Weight(x, thread[w], {ListJob}, AtName(t)) =
           NameDue(t) + Weight(y, r, {ListJob}, AtName(t))
    BY AboveTypes, Zenon DEF Flow, TableDue, NameDue
  <2>2. /\ TableDue(t) \in Nat /\ NameDue(t) \in Nat
        /\ TableDue(t)' \in Nat /\ NameDue(t)' \in Nat
    BY <1>0 DEF DuesOK
  <2> QED
    BY <1>n, <2>1, <2>2
<1>2. ASSUME NEW d \in Databases
      PROVE  /\ DatabaseDue(d)' + One(d \in D) = DatabaseDue(d)
             /\ CreationDue(d)' + One(d \in E) = CreationDue(d)
  <2>1. /\ DatabaseDue(d)' + Weight(x, thread[w], AboveDatabase(d), AtDatabase(d)) =
           DatabaseDue(d) + Weight(y, r, AboveDatabase(d), AtDatabase(d))
        /\ CreationDue(d)' + Weight(x, thread[w], {AllJob}, AtCreation(d)) =
           CreationDue(d) + Weight(y, r, {AllJob}, AtCreation(d))
    BY AboveTypes, Zenon DEF Flow, DatabaseDue, CreationDue
  <2>2. /\ DatabaseDue(d) \in Nat /\ CreationDue(d) \in Nat
        /\ DatabaseDue(d)' \in Nat /\ CreationDue(d)' \in Nat
    BY <1>0 DEF DuesOK
  <2> QED
    BY <1>n, <2>1, <2>2
<1> QED
  BY <1>1, <1>2 DEF DuesLess

LEMMA NothingLess ==
    ASSUME ControlTypes, ControlTypes', DuesLess({}, {}, {}, {})
    PROVE  DuesSame
<1>0. DuesOK /\ DuesOK'
  BY DuesType, DuesTypeNext
<1>1. \A x : One(x \in {}) = 0
  BY DEF One
<1> QED
  BY <1>0, <1>1 DEF DuesLess, DuesSame, DuesOK

LEMMA DuesFall ==
    ASSUME ControlTypes, ControlTypes', NEW T, NEW D, NEW E, NEW U, DuesLess(T, D, E, U)
    PROVE  DuesNoMore
<1>0. DuesOK /\ DuesOK'
  BY DuesType, DuesTypeNext
<1>1. \A c : One(c) \in Nat
  BY DEF One
<1> QED
  BY <1>0, <1>1 DEF DuesLess, DuesNoMore, DuesOK

LEMMA TailExchanged ==
    ASSUME ControlTypes, NEW x,
           \A P : Items(initial_queue', P) + One(x \in P) = Items(initial_queue, P)
    PROVE  Exchanged(x, NoJob)
<1> SUFFICES ASSUME NEW P \in SUBSET InitialJobs
             PROVE  Items(initial_queue', P) + One(x \in P) = Items(initial_queue, P) + One(NoJob \in P)
  BY DEF Exchanged
<1>1. Items(initial_queue, P) \in Nat
  BY CountsAreNumbers
<1>2. One(NoJob \in P) = 0
  BY JobSets DEF One
<1> QED
  BY <1>1, <1>2

(* Steps of a worker that has no such job and gets none: only what leaves  *)
(* initial_queue is due less.                                              *)
LEMMA DuesIdle ==
    ASSUME ControlTypes, ControlTypes', NEW w \in Workers, NEW p, NEW j, NEW s,
           Becomes(w, p, j, s), thread[w].job \notin DueJobs, j \notin DueJobs, NEW x,
           Exchanged(x, NoJob)
    PROVE  /\ DuesNoMore
           /\ x \notin DueJobs => DuesSame
<1> DEFINE r == [phase |-> p, job |-> j, todo |-> s]
           T == {t \in Tables : x \in AboveTable(t)}
           D == {d \in Databases : x \in AboveDatabase(d)}
           E == {d \in Databases : x \in {AllJob}}
           U == {t \in Tables : x \in {ListJob}}
<1>0. /\ thread[w] \in ThreadRecord /\ r \in ThreadRecord /\ r.job = j
  BY ThreadType DEF Becomes
<1>1. Flow(w, x, NoJob, r)
  BY FlowOf
<1> HIDE DEF r
<1>2. /\ \A t \in Tables : /\ thread[w] \notin AtTable(t) /\ thread[w] \notin AtName(t)
                           /\ r \notin AtTable(t) /\ r \notin AtName(t)
      /\ \A d \in Databases : /\ thread[w] \notin AtDatabase(d) /\ thread[w] \notin AtCreation(d)
                              /\ r \notin AtDatabase(d) /\ r \notin AtCreation(d)
  BY <1>0, NotDue
<1>3. /\ \A t \in Tables : NoJob \notin AboveTable(t) /\ NoJob \notin {ListJob}
      /\ \A d \in Databases : NoJob \notin AboveDatabase(d) /\ NoJob \notin {AllJob}
  BY NotDue, OthersNotDue
<1>4. /\ \A t \in Tables : /\ Weight(x, thread[w], AboveTable(t), AtTable(t)) =
                              Weight(NoJob, r, AboveTable(t), AtTable(t)) + One(t \in T)
                           /\ Weight(x, thread[w], {ListJob}, AtName(t)) =
                              Weight(NoJob, r, {ListJob}, AtName(t)) + One(t \in U)
      /\ \A d \in Databases : /\ Weight(x, thread[w], AboveDatabase(d), AtDatabase(d)) =
                                 Weight(NoJob, r, AboveDatabase(d), AtDatabase(d)) + One(d \in D)
                              /\ Weight(x, thread[w], {AllJob}, AtCreation(d)) =
                                 Weight(NoJob, r, {AllJob}, AtCreation(d)) + One(d \in E)
  BY <1>2, <1>3 DEF Weight, One
<1>5. DuesLess(T, D, E, U)
  <2> HIDE DEF T, D, E, U
  <2>1. \A t \in Tables : /\ Weight(x, thread[w], AboveTable(t), AtTable(t)) =
                              Weight(NoJob, r, AboveTable(t), AtTable(t)) + One(t \in T)
                           /\ Weight(x, thread[w], {ListJob}, AtName(t)) =
                              Weight(NoJob, r, {ListJob}, AtName(t)) + One(t \in U)
    BY <1>4
  <2>2. \A d \in Databases : /\ Weight(x, thread[w], AboveDatabase(d), AtDatabase(d)) =
                                 Weight(NoJob, r, AboveDatabase(d), AtDatabase(d)) + One(d \in D)
                              /\ Weight(x, thread[w], {AllJob}, AtCreation(d)) =
                                 Weight(NoJob, r, {AllJob}, AtCreation(d)) + One(d \in E)
    BY <1>4
  <2> QED
    BY <1>1, <2>1, <2>2, LessWeights, SMTT(30)
<1>6. DuesNoMore
  <2> HIDE DEF T, D, E, U
  <2> QED
    BY <1>5, DuesFall
<1>7. ASSUME x \notin DueJobs
      PROVE  DuesSame
  <2>1. T = {} /\ D = {} /\ E = {} /\ U = {}
    BY <1>7, NotDue
  <2> HIDE DEF T, D, E, U
  <2>2. DuesLess({}, {}, {}, {})
    BY <1>5, <2>1
  <2> QED
    BY <2>2, NothingLess
<1> QED
  BY <1>6, <1>7

(* The actions of a worker after which the same is due *)
LEMMA DuesQuiet ==
    ASSUME ControlTypes, ControlTypes', ThreadsOK, NEW w \in Workers,
           \/ TakeSchemaJob(w) \/ TakePostDataJob(w) \/ EndSchema(w) \/ EndPostData(w)
           \/ BeginData(w) \/ EndData(w) \/ WriteStatus(w) \/ ProcessJob(w)
    PROVE  DuesSame /\ initial_queue' = initial_queue
<1>s. ASSUME NEW p, NEW j, NEW s, Becomes(w, p, j, s), thread[w].job \notin DueJobs,
             j \notin DueJobs, initial_queue' = initial_queue
      PROVE  DuesSame
  <2>1. Exchanged(NoJob, NoJob)
    BY <1>s DEF Exchanged
  <2> QED
    BY <1>s, <2>1, DuesIdle, OthersNotDue
<1>q. initial_queue' = initial_queue
  BY DEF TakeSchemaJob, TakePostDataJob, EndSchema, EndPostData, BeginData, EndData, WriteStatus,
     ProcessJob, queues
<1>w. /\ \A j \in SchemaWork : j \notin DueJobs
      /\ \A j \in PostDataWork : j \notin DueJobs
  BY OthersNotDue DEF Work
<1>1. CASE TakeSchemaJob(w)
  BY <1>1, <1>q, <1>s, <1>w, TakeSchemaEffect, OthersNotDue
<1>2. CASE TakePostDataJob(w)
  BY <1>2, <1>q, <1>s, <1>w, TakePostDataEffect, OthersNotDue
<1>3. CASE EndSchema(w)
  BY <1>3, <1>q, <1>s, EndSchemaEffect, OthersNotDue
<1>4. CASE EndPostData(w)
  BY <1>4, <1>q, <1>s, EndPostDataEffect, OthersNotDue
<1>5. CASE BeginData(w) \/ EndData(w)
  BY <1>5, <1>q, <1>s, DataEffect, OthersNotDue
<1>6. CASE WriteStatus(w)
  BY <1>6, <1>q, <1>s, WriteStatusEffect, OthersNotDue
<1>7. CASE ProcessJob(w)
  BY <1>7, <1>q, <1>s, ProcessEffect, OthersNotDue
<1> QED
  BY <1>1, <1>2, <1>3, <1>4, <1>5, <1>6, <1>7, <1>q

(* A worker leaves initial_queue: with a signal, jobs may be dropped. *)
LEMMA DuesEndInitial ==
    ASSUME ControlTypes, ControlTypes', NEW w \in Workers, EndInitial(w)
    PROVE  DuesNoMore /\ (~shutdown_triggered => DuesSame)
<1> DEFINE x == Head(initial_queue)
<1>1. /\ thread[w].job = NoJob /\ Becomes(w, "schema", NoJob, thread[w].todo)
      /\ ~shutdown_triggered => x = ShutdownJob
      /\ \A P : Items(initial_queue', P) + One(x \in P) = Items(initial_queue, P)
  BY EndInitialEffect
<1> HIDE DEF x
<1>2. Exchanged(x, NoJob)
  BY <1>1, TailExchanged
<1>3. DuesNoMore /\ (x \notin DueJobs => DuesSame)
  BY <1>1, <1>2, DuesIdle, OthersNotDue
<1> QED
  BY <1>1, <1>3, OthersNotDue

(* A worker that takes a listing job has all of its rows to list. *)
LEMMA AllRowsDue ==
    ASSUME NEW k \in InitialJobs, NEW r \in ThreadRecord, r.job = k, r.todo = Rows(k)
    PROVE  /\ \A t \in Tables : /\ r \in AtTable(t) <=> k \in AboveTable(t)
                                /\ r \in AtName(t) <=> k \in {ListJob}
           /\ \A d \in Databases : /\ r \in AtDatabase(d) <=> k \in AboveDatabase(d)
                                   /\ r \in AtCreation(d) <=> k \in {AllJob}
<1>1. /\ k = AllJob => Rows(k) = Databases
      /\ k = ListJob => Rows(k) = Tables
      /\ \A d \in Databases : k = DatabaseJob(d) => Rows(k) = TablesOf(d)
  BY RowsType
<1>2. ASSUME NEW t \in Tables
      PROVE  /\ r \in AtTable(t) <=> k \in AboveTable(t)
             /\ r \in AtName(t) <=> k \in {ListJob}
  <2>1. DatabaseOf[t] \in Databases /\ t \in TablesOf(DatabaseOf[t])
    BY ObjectsAssumption DEF TablesOf
  <2> QED
    BY <1>1, <2>1 DEF AtTable, AtName, AboveTable
<1>3. ASSUME NEW d \in Databases
      PROVE  /\ r \in AtDatabase(d) <=> k \in AboveDatabase(d)
             /\ r \in AtCreation(d) <=> k \in {AllJob}
  BY <1>1 DEF AtDatabase, AtCreation, AboveDatabase
<1> QED
  BY <1>2, <1>3

LEMMA DuesTake ==
    ASSUME ControlTypes, ControlTypes', NEW w \in Workers, TakeInitialJob(w)
    PROVE  DuesSame
<1>1. PICK k \in InitialJobs :
              /\ thread[w].job = NoJob
              /\ Becomes(w, "initial", k, Rows(k))
              /\ \A P : Items(initial_queue', P) + One(k \in P) = Items(initial_queue, P)
  BY TakeInitialEffect
<1> DEFINE r == [phase |-> "initial", job |-> k, todo |-> Rows(k)]
<1>2. Flow(w, k, NoJob, r)
  BY <1>1, TailExchanged, FlowOf
<1>3. /\ thread[w] \in ThreadRecord /\ r \in ThreadRecord /\ r.job = k /\ r.todo = Rows(k)
  BY <1>1, ThreadType DEF Becomes
<1> HIDE DEF r
<1>4. /\ \A t \in Tables : thread[w] \notin AtTable(t) /\ thread[w] \notin AtName(t)
      /\ \A d \in Databases : thread[w] \notin AtDatabase(d) /\ thread[w] \notin AtCreation(d)
      /\ \A t \in Tables : NoJob \notin AboveTable(t) /\ NoJob \notin {ListJob}
      /\ \A d \in Databases : NoJob \notin AboveDatabase(d) /\ NoJob \notin {AllJob}
  BY <1>1, <1>3, NotDue, OthersNotDue
<1>5. /\ \A t \in Tables : /\ r \in AtTable(t) <=> k \in AboveTable(t)
                           /\ r \in AtName(t) <=> k \in {ListJob}
      /\ \A d \in Databases : /\ r \in AtDatabase(d) <=> k \in AboveDatabase(d)
                              /\ r \in AtCreation(d) <=> k \in {AllJob}
  BY <1>3, AllRowsDue
<1>6. \A t \in Tables : /\ Weight(k, thread[w], AboveTable(t), AtTable(t)) =
                           Weight(NoJob, r, AboveTable(t), AtTable(t)) + One(t \in {})
                        /\ Weight(k, thread[w], {ListJob}, AtName(t)) =
                           Weight(NoJob, r, {ListJob}, AtName(t)) + One(t \in {})
  BY <1>4, <1>5 DEF Weight, One
<1>7. \A d \in Databases : /\ Weight(k, thread[w], AboveDatabase(d), AtDatabase(d)) =
                              Weight(NoJob, r, AboveDatabase(d), AtDatabase(d)) + One(d \in {})
                           /\ Weight(k, thread[w], {AllJob}, AtCreation(d)) =
                              Weight(NoJob, r, {AllJob}, AtCreation(d)) + One(d \in {})
  BY <1>4, <1>5 DEF Weight, One
<1>8. DuesLess({}, {}, {}, {})
  BY <1>2, <1>6, <1>7, LessWeights
<1> QED
  BY <1>8, NothingLess

(* The jobs a worker has listed are behind it, the others before it. *)
LEMMA ExtendedExchanged ==
    ASSUME ControlTypes, NEW k, Extended(initial_queue, initial_queue', k)
    PROVE  Exchanged(NoJob, k)
<1> SUFFICES ASSUME NEW P \in SUBSET InitialJobs
             PROVE  Items(initial_queue', P) + One(NoJob \in P) = Items(initial_queue, P) + One(k \in P)
  BY DEF Exchanged
<1>1. /\ Items(initial_queue, P) \in Nat
      /\ Items(initial_queue', P) = Items(initial_queue, P) + One(k \in P)
  BY CountsAreNumbers DEF Extended
<1>2. One(NoJob \in P) = 0 /\ One(k \in P) \in Nat
  BY JobSets DEF One
<1> QED
  BY <1>1, <1>2

LEMMA DuesListDatabase ==
    ASSUME ControlTypes, ControlTypes', ThreadsOK, NEW w \in Workers, NEW e \in Databases,
           ListDatabase(w, e)
    PROVE  DuesLess({}, {}, {e}, {})
<1> DEFINE R == thread[w].todo
           r == [phase |-> "initial", job |-> AllJob, todo |-> R \ {e}]
           y == DatabaseJob(e)
<1>1. /\ thread[w].job = AllJob /\ e \in R
      /\ Becomes(w, "initial", AllJob, R \ {e})
      /\ Extended(initial_queue, initial_queue', y)
  BY ListDatabaseEffect
<1>2. Flow(w, NoJob, y, r)
  BY <1>1, ExtendedExchanged, FlowOf
<1>3. /\ thread[w] \in ThreadRecord /\ r \in ThreadRecord
      /\ r.job = AllJob /\ r.todo = R \ {e} /\ y = DatabaseJob(e)
  BY <1>1, ThreadType DEF Becomes
<1> HIDE DEF r, y
<1>4. /\ \A t \in Tables : NoJob \notin AboveTable(t) /\ NoJob \notin {ListJob}
      /\ \A d \in Databases : NoJob \notin AboveDatabase(d) /\ NoJob \notin {AllJob}
  BY NotDue, OthersNotDue
<1>5. \A t \in Tables :
         /\ thread[w] \in AtTable(t) <=> DatabaseOf[t] \in R
         /\ r \in AtTable(t) <=> DatabaseOf[t] \in R /\ DatabaseOf[t] # e
         /\ y \in AboveTable(t) <=> DatabaseOf[t] = e
         /\ thread[w] \notin AtName(t) /\ r \notin AtName(t) /\ y \notin {ListJob}
  BY <1>1, <1>3, JobDistinct DEF AtTable, AtName, AboveTable
<1>6. \A d \in Databases :
         /\ thread[w] \in AtDatabase(d) <=> d \in R
         /\ r \in AtDatabase(d) <=> d \in R /\ d # e
         /\ y \in AboveDatabase(d) <=> d = e
         /\ thread[w] \in AtCreation(d) <=> d \in R
         /\ r \in AtCreation(d) <=> d \in R /\ d # e
         /\ y \notin {AllJob}
  BY <1>1, <1>3, JobDistinct DEF AtDatabase, AtCreation, AboveDatabase
<1>7. \A t \in Tables : /\ Weight(NoJob, thread[w], AboveTable(t), AtTable(t)) =
                           Weight(y, r, AboveTable(t), AtTable(t)) + One(t \in {})
                        /\ Weight(NoJob, thread[w], {ListJob}, AtName(t)) =
                           Weight(y, r, {ListJob}, AtName(t)) + One(t \in {})
  BY <1>1, <1>4, <1>5 DEF Weight, One
<1>8. \A d \in Databases : /\ Weight(NoJob, thread[w], AboveDatabase(d), AtDatabase(d)) =
                              Weight(y, r, AboveDatabase(d), AtDatabase(d)) + One(d \in {})
                           /\ Weight(NoJob, thread[w], {AllJob}, AtCreation(d)) =
                              Weight(y, r, {AllJob}, AtCreation(d)) + One(d \in {e})
  BY <1>1, <1>4, <1>6 DEF Weight, One
<1> QED
  BY <1>2, <1>7, <1>8, LessWeights

LEMMA DuesListTable ==
    ASSUME ControlTypes, ControlTypes', ThreadsOK, NEW w \in Workers, NEW u \in Tables,
           ListTable(w, u)
    PROVE  DuesLess({}, {}, {}, IF thread[w].job = ListJob THEN {u} ELSE {})
<1> DEFINE R == thread[w].todo
           j == thread[w].job
           r == [phase |-> "initial", job |-> j, todo |-> R \ {u}]
           y == TableJob(u)
           U == IF j = ListJob THEN {u} ELSE {}
<1>1. /\ j \in {ListJob, DatabaseJob(DatabaseOf[u])} /\ u \in R
      /\ Becomes(w, "initial", j, R \ {u})
      /\ Extended(initial_queue, initial_queue', y)
  BY ListTableEffect
<1>2. Flow(w, NoJob, y, r)
  BY <1>1, ExtendedExchanged, FlowOf
<1>3. /\ thread[w] \in ThreadRecord /\ r \in ThreadRecord
      /\ r.job = j /\ r.todo = R \ {u} /\ y = TableJob(u) /\ thread[w].job = j /\ thread[w].todo = R
  BY <1>1, ThreadType DEF Becomes
<1>u. \A t : t \in U <=> j = ListJob /\ t = u
  OBVIOUS
<1> HIDE DEF r, y, j, R, U
<1>4. /\ \A t \in Tables : NoJob \notin AboveTable(t) /\ NoJob \notin {ListJob}
      /\ \A d \in Databases : NoJob \notin AboveDatabase(d) /\ NoJob \notin {AllJob}
  BY NotDue, OthersNotDue
<1>5. \A t \in Tables :
         /\ thread[w] \in AtTable(t) <=>
               (j = ListJob \/ j = DatabaseJob(DatabaseOf[t])) /\ t \in R
         /\ r \in AtTable(t) <=>
               (j = ListJob \/ j = DatabaseJob(DatabaseOf[t])) /\ t \in R /\ t # u
         /\ y \in AboveTable(t) <=> t = u
         /\ thread[w] \in AtName(t) <=> j = ListJob /\ t \in R
         /\ r \in AtName(t) <=> j = ListJob /\ t \in R /\ t # u
         /\ y \notin {ListJob}
  BY <1>1, <1>3, JobDistinct DEF AtTable, AtName, AboveTable
<1>6. \A d \in Databases :
         /\ thread[w] \in AtDatabase(d) <=> j = DatabaseJob(d)
         /\ r \in AtDatabase(d) <=> j = DatabaseJob(d)
         /\ y \notin AboveDatabase(d) /\ y \notin {AllJob}
         /\ thread[w] \notin AtCreation(d) /\ r \notin AtCreation(d)
  BY <1>1, <1>3, JobDistinct DEF AtDatabase, AtCreation, AboveDatabase
<1>7. \A t \in Tables : /\ Weight(NoJob, thread[w], AboveTable(t), AtTable(t)) =
                           Weight(y, r, AboveTable(t), AtTable(t)) + One(t \in {})
                        /\ Weight(NoJob, thread[w], {ListJob}, AtName(t)) =
                           Weight(y, r, {ListJob}, AtName(t)) + One(t \in U)
  BY <1>1, <1>4, <1>5, <1>u DEF Weight, One
<1>8. \A d \in Databases : /\ Weight(NoJob, thread[w], AboveDatabase(d), AtDatabase(d)) =
                              Weight(y, r, AboveDatabase(d), AtDatabase(d)) + One(d \in {})
                           /\ Weight(NoJob, thread[w], {AllJob}, AtCreation(d)) =
                              Weight(y, r, {AllJob}, AtCreation(d)) + One(d \in {})
  BY <1>1, <1>4, <1>6 DEF Weight, One
<1>9. DuesLess({}, {}, {}, U)
  BY <1>2, <1>7, <1>8, LessWeights
<1> QED
  BY <1>9 DEF U, j

LEMMA SameExchanged ==
    ASSUME initial_queue' = initial_queue
    PROVE  Exchanged(NoJob, NoJob)
  BY DEF Exchanged

LEMMA DuesEndListing ==
    ASSUME ControlTypes, ControlTypes', ThreadsOK, NEW w \in Workers, EndListing(w)
    PROVE  DuesLess({}, {d \in Databases : thread[w].job = DatabaseJob(d)}, {}, {})
<1> DEFINE j == thread[w].job
           r == [phase |-> "initial", job |-> NoJob, todo |-> {}]
           D == {d \in Databases : j = DatabaseJob(d)}
<1>1. j \in ListingJobs /\ thread[w].todo = {} /\ Becomes(w, "initial", NoJob, {})
  BY EndListingEffect
<1>2. initial_queue' = initial_queue
  BY Zenon DEF EndListing
<1>3. Flow(w, NoJob, NoJob, r)
  BY <1>1, <1>2, SameExchanged, FlowOf
<1>4. thread[w] \in ThreadRecord /\ r \in ThreadRecord /\ r.job = NoJob /\ thread[w].job = j
  BY <1>1, ThreadType DEF Becomes
<1>d. \A d \in Databases : d \in D <=> j = DatabaseJob(d)
  OBVIOUS
<1> HIDE DEF r, j, D
<1>5. /\ \A t \in Tables : NoJob \notin AboveTable(t) /\ NoJob \notin {ListJob}
      /\ \A d \in Databases : NoJob \notin AboveDatabase(d) /\ NoJob \notin {AllJob}
      /\ \A t \in Tables : r \notin AtTable(t) /\ r \notin AtName(t)
      /\ \A d \in Databases : r \notin AtDatabase(d) /\ r \notin AtCreation(d)
  BY <1>4, NotDue, OthersNotDue
<1>6. \A t \in Tables : thread[w] \notin AtTable(t) /\ thread[w] \notin AtName(t)
  <2>1. \A t \in Tables : j # TableJob(t)
    BY <1>1, JobTypes
  <2> QED
    BY <1>1, <1>4, <2>1 DEF AtTable, AtName
<1>7. \A d \in Databases :
         (thread[w] \in AtDatabase(d) <=> j = DatabaseJob(d)) /\ thread[w] \notin AtCreation(d)
  BY <1>1, <1>4 DEF AtDatabase, AtCreation
<1>8. \A t \in Tables : /\ Weight(NoJob, thread[w], AboveTable(t), AtTable(t)) =
                           Weight(NoJob, r, AboveTable(t), AtTable(t)) + One(t \in {})
                        /\ Weight(NoJob, thread[w], {ListJob}, AtName(t)) =
                           Weight(NoJob, r, {ListJob}, AtName(t)) + One(t \in {})
  BY <1>5, <1>6 DEF Weight, One
<1>9. \A d \in Databases : /\ Weight(NoJob, thread[w], AboveDatabase(d), AtDatabase(d)) =
                              Weight(NoJob, r, AboveDatabase(d), AtDatabase(d)) + One(d \in D)
                           /\ Weight(NoJob, thread[w], {AllJob}, AtCreation(d)) =
                              Weight(NoJob, r, {AllJob}, AtCreation(d)) + One(d \in {})
  BY <1>5, <1>7, <1>d DEF Weight, One
<1>10. DuesLess({}, D, {}, {})
  BY <1>3, <1>8, <1>9, LessWeights
<1> QED
  BY <1>10 DEF D, j

LEMMA DuesSelectFails ==
    ASSUME ControlTypes, ControlTypes', ThreadsOK, NEW w \in Workers, SelectDatabaseFails(w)
    PROVE  DuesLess(TablesOf(thread[w].job.object), {thread[w].job.object}, {}, {})
<1> DEFINE e == thread[w].job.object
           r == [phase |-> "initial", job |-> NoJob, todo |-> {}]
           T == TablesOf(e)
<1>1. /\ e \in Databases /\ thread[w].job = DatabaseJob(e) /\ thread[w].todo = T
      /\ Becomes(w, "initial", NoJob, {})
  BY SelectFailsEffect
<1>2. initial_queue' = initial_queue
  BY Zenon DEF SelectDatabaseFails, queues
<1>3. Flow(w, NoJob, NoJob, r)
  BY <1>1, <1>2, SameExchanged, FlowOf
<1>4. thread[w] \in ThreadRecord /\ r \in ThreadRecord /\ r.job = NoJob
  BY <1>1, ThreadType DEF Becomes
<1>d. \A t \in Tables : t \in T <=> DatabaseOf[t] = e
  BY DEF TablesOf
<1> HIDE DEF r, e, T
<1>5. /\ \A t \in Tables : NoJob \notin AboveTable(t) /\ NoJob \notin {ListJob}
      /\ \A d \in Databases : NoJob \notin AboveDatabase(d) /\ NoJob \notin {AllJob}
      /\ \A t \in Tables : r \notin AtTable(t) /\ r \notin AtName(t)
      /\ \A d \in Databases : r \notin AtDatabase(d) /\ r \notin AtCreation(d)
  BY <1>4, NotDue, OthersNotDue
<1>6. \A t \in Tables : (thread[w] \in AtTable(t) <=> t \in T) /\ thread[w] \notin AtName(t)
  BY <1>1, <1>4, <1>d, JobDistinct DEF AtTable, AtName
<1>7. \A d \in Databases : (thread[w] \in AtDatabase(d) <=> d = e) /\ thread[w] \notin AtCreation(d)
  BY <1>1, <1>4, JobDistinct DEF AtDatabase, AtCreation
<1>8. \A t \in Tables : /\ Weight(NoJob, thread[w], AboveTable(t), AtTable(t)) =
                           Weight(NoJob, r, AboveTable(t), AtTable(t)) + One(t \in T)
                        /\ Weight(NoJob, thread[w], {ListJob}, AtName(t)) =
                           Weight(NoJob, r, {ListJob}, AtName(t)) + One(t \in {})
  BY <1>5, <1>6 DEF Weight, One
<1>9. \A d \in Databases : /\ Weight(NoJob, thread[w], AboveDatabase(d), AtDatabase(d)) =
                              Weight(NoJob, r, AboveDatabase(d), AtDatabase(d)) + One(d \in {e})
                           /\ Weight(NoJob, thread[w], {AllJob}, AtCreation(d)) =
                              Weight(NoJob, r, {AllJob}, AtCreation(d)) + One(d \in {})
  BY <1>5, <1>7 DEF Weight, One
<1>10. DuesLess(T, {e}, {}, {})
  BY <1>3, <1>8, <1>9, LessWeights
<1> QED
  BY <1>10 DEF T, e

LEMMA DuesNewTable ==
    ASSUME ControlTypes, ControlTypes', ThreadsOK, NEW w \in Workers, NewTable(w)
    PROVE  DuesLess({thread[w].job.object}, {}, {}, {})
<1> DEFINE u == thread[w].job.object
           r == [phase |-> "initial", job |-> NoJob, todo |-> {}]
<1>1. u \in Tables /\ thread[w].job = TableJob(u) /\ Becomes(w, "initial", NoJob, {})
  BY NewTableEffect
<1>2. initial_queue' = initial_queue
  BY Zenon DEF NewTable
<1>3. Flow(w, NoJob, NoJob, r)
  BY <1>1, <1>2, SameExchanged, FlowOf
<1>4. thread[w] \in ThreadRecord /\ r \in ThreadRecord /\ r.job = NoJob
  BY <1>1, ThreadType DEF Becomes
<1> HIDE DEF r, u
<1>5. /\ \A t \in Tables : NoJob \notin AboveTable(t) /\ NoJob \notin {ListJob}
      /\ \A d \in Databases : NoJob \notin AboveDatabase(d) /\ NoJob \notin {AllJob}
      /\ \A t \in Tables : r \notin AtTable(t) /\ r \notin AtName(t)
      /\ \A d \in Databases : r \notin AtDatabase(d) /\ r \notin AtCreation(d)
  BY <1>4, NotDue, OthersNotDue
<1>6. \A t \in Tables : (thread[w] \in AtTable(t) <=> t = u) /\ thread[w] \notin AtName(t)
  BY <1>1, <1>4, JobDistinct DEF AtTable, AtName
<1>7. \A d \in Databases : thread[w] \notin AtDatabase(d) /\ thread[w] \notin AtCreation(d)
  BY <1>1, <1>4, JobDistinct DEF AtDatabase, AtCreation
<1>8. \A t \in Tables : /\ Weight(NoJob, thread[w], AboveTable(t), AtTable(t)) =
                           Weight(NoJob, r, AboveTable(t), AtTable(t)) + One(t \in {u})
                        /\ Weight(NoJob, thread[w], {ListJob}, AtName(t)) =
                           Weight(NoJob, r, {ListJob}, AtName(t)) + One(t \in {})
  BY <1>5, <1>6 DEF Weight, One
<1>9. \A d \in Databases : /\ Weight(NoJob, thread[w], AboveDatabase(d), AtDatabase(d)) =
                              Weight(NoJob, r, AboveDatabase(d), AtDatabase(d)) + One(d \in {})
                           /\ Weight(NoJob, thread[w], {AllJob}, AtCreation(d)) =
                              Weight(NoJob, r, {AllJob}, AtCreation(d)) + One(d \in {})
  BY <1>5, <1>7 DEF Weight, One
<1>10. DuesLess({u}, {}, {}, {})
  BY <1>3, <1>8, <1>9, LessWeights
<1> QED
  BY <1>10 DEF u

(* Steps of the main thread after the jobs are created, and a signal *)
LEMMA DuesMain ==
    ASSUME thread' = thread,
           \A P \in SUBSET InitialJobs : Items(initial_queue', P) = Items(initial_queue, P)
    PROVE  DuesSame
<1>1. \A A \in SUBSET InitialJobs : \A B : Listed(A, B)' = Listed(A, B)
  BY DEF Listed
<1> QED
  BY <1>1, AboveTypes DEF DuesSame, TableDue, NameDue, DatabaseDue, CreationDue

-----------------------------------------------------------------------------
(* The schema and post-data jobs *)
Pending(j) == Items(schema_queue, {j}) + Items(post_data_queue, {j})
TypesOK == ControlTypes /\ RegistryTypes

MadeOK == \A j \in Work : Pending(j) \in Nat /\ Made(j) \in Nat /\ done[j] \in Nat

LEMMA MadeType == TypesOK => MadeOK
<1> SUFFICES ASSUME TypesOK, NEW j \in Work
             PROVE  Pending(j) \in Nat /\ Made(j) \in Nat /\ done[j] \in Nat
  BY DEF MadeOK
<1>1. Items(schema_queue, {j}) \in Nat /\ Items(post_data_queue, {j}) \in Nat
  BY QueueTypes, ItemsType DEF TypesOK
<1>2. Many(Workers, thread, Doing({j})) \in Nat
  BY ManyType
<1>3. done[j] \in Nat
  BY DEF TypesOK, RegistryTypes
<1> QED
  BY <1>1, <1>2, <1>3 DEF Pending, Made

LEMMA MadeTypeNext == TypesOK' => MadeOK'
  BY MadeType, PTL

LEMMA MadeFlow ==
    ASSUME TypesOK, TypesOK', NEW w \in Workers, NEW p, NEW k, NEW s, Becomes(w, p, k, s),
           done' = done, NEW j \in Work, NEW a \in Nat, NEW b \in Nat,
           Pending(j)' + a = Pending(j) + b
    PROVE  Made(j)' + a + One(thread[w].job = j) = Made(j) + b + One(k = j)
<1>1. Many(Workers, thread', Doing({j})) + One(thread[w].job \in {j}) =
      Many(Workers, thread, Doing({j})) + One(k \in {j})
  BY ThreadType, BecomesCounts DEF TypesOK
<1>2. /\ Many(Workers, thread', Doing({j})) \in Nat /\ Many(Workers, thread, Doing({j})) \in Nat
      /\ Pending(j) \in Nat /\ Pending(j)' \in Nat /\ done[j] \in Nat
  <2>1. MadeOK /\ MadeOK'
    BY MadeType, MadeTypeNext
  <2>2. Many(Workers, thread', Doing({j})) \in Nat
    BY ManyBound, ObjectsAssumption
  <2> QED
    BY <2>1, <2>2, ManyType DEF MadeOK
<1>3. /\ Made(j) = Pending(j) + Many(Workers, thread, Doing({j})) + done[j]
      /\ Made(j)' = Pending(j)' + Many(Workers, thread', Doing({j})) + done[j]
  BY DEF Made, Pending
<1>4. /\ One(thread[w].job = j) = One(thread[w].job \in {j}) /\ One(k = j) = One(k \in {j})
      /\ One(thread[w].job = j) \in Nat /\ One(k = j) \in Nat
  BY DEF One
<1> DEFINE x == One(thread[w].job = j)
           y == One(k = j)
           m == Many(Workers, thread, Doing({j}))
           n == Many(Workers, thread', Doing({j}))
           f == Pending(j)
           g == Pending(j)'
           h == done[j]
<1>5. n + x = m + y /\ x \in Nat /\ y \in Nat /\ m \in Nat /\ n \in Nat
  BY <1>1, <1>2, <1>4
<1>6. Made(j) = f + m + h /\ Made(j)' = g + n + h
  BY <1>3
<1>8. g + a = f + b /\ f \in Nat /\ g \in Nat /\ h \in Nat
  BY <1>2
<1> HIDE DEF x, y, m, n, f, g, h
<1>7. Made(j)' + a + x = Made(j) + b + y
  BY <1>5, <1>6, <1>8
<1> QED
  BY <1>7 DEF x, y

MadeMore(S) == \A j \in Work : Made(j)' = Made(j) + One(j \in S)
MadeSame == \A j \in Work : Made(j)' = Made(j)
MadeNoMore == \A j \in Work : Made(j)' <= Made(j)

LEMMA MadeFall == TypesOK /\ MadeSame => MadeNoMore
  BY MadeType DEF MadeSame, MadeNoMore, MadeOK

(* Jobs S are put in the queues by a worker that was processing no such    *)
(* job and takes none.                                                     *)
LEMMA MadeNew ==
    ASSUME TypesOK, TypesOK', NEW w \in Workers, NEW p, NEW k, NEW s, Becomes(w, p, k, s),
           done' = done, thread[w].job \notin Work, k \notin Work,
           NEW S, \A j \in Work : Pending(j)' = Pending(j) + One(j \in S)
    PROVE  MadeMore(S)
<1> SUFFICES ASSUME NEW j \in Work
             PROVE  Made(j)' = Made(j) + One(j \in S)
  BY DEF MadeMore
<1>0. MadeOK /\ MadeOK'
  BY MadeType, MadeTypeNext
<1> DEFINE b == One(j \in S)
<1>1. b \in Nat /\ Pending(j)' = Pending(j) + b
  BY DEF One
<1>2. One(thread[w].job = j) = 0 /\ One(k = j) = 0
  BY DEF One
<1> HIDE DEF b
<1>3. /\ Pending(j) \in Nat /\ Pending(j)' \in Nat /\ Made(j) \in Nat /\ Made(j)' \in Nat
  BY <1>0 DEF MadeOK
<1>4. Pending(j)' + 0 = Pending(j) + b
  BY <1>1, <1>3
<1>5. Made(j)' + 0 + One(thread[w].job = j) = Made(j) + b + One(k = j)
  BY <1>1, <1>4, MadeFlow
<1>6. Made(j)' = Made(j) + b
  BY <1>1, <1>2, <1>3, <1>5
<1> QED
  BY <1>6 DEF b

(* The steps that leave the two queues and the done jobs alone *)
LEMMA MadeQuiet ==
    ASSUME TypesOK, TypesOK', ThreadsOK, NEW w \in Workers,
           \/ TakeInitialJob(w) \/ EndInitial(w) \/ BeginData(w) \/ EndData(w) \/ WriteStatus(w)
           \/ SelectDatabaseFails(w)
    PROVE  MadeSame
<1>0. ControlTypes
  BY DEF TypesOK
<1>1. UNCHANGED <<schema_queue, post_data_queue, done>>
  BY DEF TakeInitialJob, EndInitial, BeginData, EndData, WriteStatus, SelectDatabaseFails, queues
<1>2. \A j \in Work : Pending(j)' = Pending(j) + One(j \in {})
  <2>1. \A j \in Work : Pending(j)' = Pending(j) /\ Pending(j) \in Nat
    BY <1>1, MadeType DEF Pending, MadeOK
  <2> QED
    BY <2>1 DEF One
<1>s. ASSUME NEW p, NEW k, NEW s, Becomes(w, p, k, s), thread[w].job \notin Work, k \notin Work
      PROVE  MadeSame
  <2>1. MadeMore({})
    BY <1>1, <1>2, <1>s, MadeNew
  <2>2. \A j \in Work : Made(j) \in Nat
    BY MadeType DEF MadeOK
  <2> QED
    BY <2>1, <2>2 DEF MadeMore, MadeSame, One
<1>w. NoJob \notin Work /\ \A j \in InitialJobs : j \notin Work
  BY JobSets DEF Work
<1>3. CASE TakeInitialJob(w)
  BY <1>0, <1>3, <1>s, <1>w, TakeInitialEffect
<1>4. CASE EndInitial(w)
  BY <1>0, <1>4, <1>s, <1>w, EndInitialEffect
<1>5. CASE BeginData(w) \/ EndData(w)
  BY <1>0, <1>5, <1>s, <1>w, DataEffect
<1>6. CASE WriteStatus(w)
  BY <1>0, <1>6, <1>s, <1>w, WriteStatusEffect, JobTypes
<1>7. CASE SelectDatabaseFails(w)
  BY <1>0, <1>7, <1>s, <1>w, SelectFailsEffect, JobTypes
<1> QED
  BY <1>3, <1>4, <1>5, <1>6, <1>7

(* What one queue loses or gets is what is pending less or more. *)
QueueItemsOK ==
    \A j : Items(schema_queue, {j}) \in Nat /\ Items(post_data_queue, {j}) \in Nat

LEMMA QueueItemsType == TypesOK => QueueItemsOK
  BY QueueTypes, ItemsType DEF TypesOK, QueueItemsOK

LEMMA QueueItemsTypeNext == TypesOK' => QueueItemsOK'
  BY QueueItemsType, PTL

Shrinks(q, r, x) == \A j : Items(r, {j}) + One(j = x) = Items(q, {j})
Drops(x) == \A j \in Work : Pending(j)' + One(j = x) = Pending(j)

LEMMA QueueDrops ==
    ASSUME TypesOK, TypesOK', NEW x,
           \/ Shrinks(schema_queue, schema_queue', x) /\ post_data_queue' = post_data_queue
           \/ Shrinks(post_data_queue, post_data_queue', x) /\ schema_queue' = schema_queue
    PROVE  Drops(x)
<1> SUFFICES ASSUME NEW j \in Work
             PROVE  Pending(j)' + One(j = x) = Pending(j)
  BY DEF Drops
<1> DEFINE f == Items(schema_queue, {j})
           g == Items(post_data_queue, {j})
           m == Items(schema_queue', {j})
           n == Items(post_data_queue', {j})
           a == One(j = x)
<1>1. QueueItemsOK /\ QueueItemsOK'
  BY QueueItemsType, QueueItemsTypeNext
<1>2. f \in Nat /\ g \in Nat /\ m \in Nat /\ n \in Nat /\ a \in Nat
  BY <1>1 DEF QueueItemsOK, One
<1>3. Pending(j) = f + g /\ Pending(j)' = m + n
  BY DEF Pending
<1>4. (m + a = f /\ n = g) \/ (n + a = g /\ m = f)
  BY DEF Shrinks
<1> HIDE DEF f, g, m, n, a
<1>5. Pending(j)' + a = Pending(j)
  BY <1>2, <1>3, <1>4
<1> QED
  BY <1>5 DEF a

(* A worker that processes no such job takes job x, or leaves its queue    *)
(* and with a signal drops it.                                             *)
MadeDropped(x, k) == \A j \in Work : Made(j)' + One(j = x) = Made(j) + One(j = k)

LEMMA MadeDrops ==
    ASSUME TypesOK, TypesOK', NEW w \in Workers, NEW p, NEW k, NEW s, Becomes(w, p, k, s),
           thread[w].job \notin Work, done' = done, NEW x, Drops(x)
    PROVE  MadeDropped(x, k)
<1> SUFFICES ASSUME NEW j \in Work
             PROVE  Made(j)' + One(j = x) = Made(j) + One(j = k)
  BY DEF MadeDropped
<1> DEFINE a == One(j = x)
           b == One(j = k)
<1>0. MadeOK /\ MadeOK'
  BY MadeType, MadeTypeNext
<1>1. /\ Pending(j) \in Nat /\ Pending(j)' \in Nat /\ Made(j) \in Nat /\ Made(j)' \in Nat
      /\ a \in Nat /\ b \in Nat
  BY <1>0 DEF MadeOK, One
<1>2. Pending(j)' + a = Pending(j)
  BY DEF Drops
<1>3. One(thread[w].job = j) = 0 /\ One(k = j) = b
  BY DEF One
<1> HIDE DEF a, b
<1>4. Pending(j)' + a = Pending(j) + 0
  BY <1>1, <1>2
<1>5. Made(j)' + a + One(thread[w].job = j) = Made(j) + 0 + One(k = j)
  BY <1>1, <1>4, MadeFlow
<1>6. Made(j)' + a = Made(j) + b
  BY <1>1, <1>3, <1>5
<1> QED
  BY <1>6 DEF a, b

LEMMA MadeMoved ==
    ASSUME TypesOK, TypesOK', NEW x, MadeDropped(x, x)
    PROVE  MadeSame
<1> SUFFICES ASSUME NEW j \in Work
             PROVE  Made(j)' = Made(j)
  BY DEF MadeSame
<1> DEFINE a == One(j = x)
<1>1. MadeOK /\ MadeOK'
  BY MadeType, MadeTypeNext
<1>2. Made(j) \in Nat /\ Made(j)' \in Nat /\ a \in Nat
  BY <1>1 DEF MadeOK, One
<1>3. Made(j)' + a = Made(j) + a
  BY DEF MadeDropped
<1> HIDE DEF a
<1> QED
  BY <1>2, <1>3

LEMMA MadeTake ==
    ASSUME TypesOK, TypesOK', NEW w \in Workers, TakeSchemaJob(w) \/ TakePostDataJob(w)
    PROVE  MadeSame
<1>0. ControlTypes
  BY DEF TypesOK
<1>w. NoJob \notin Work
  BY JobSets DEF Work
<1>1. CASE TakeSchemaJob(w)
  <2>1. PICK k \in SchemaWork :
           /\ thread[w].job = NoJob /\ Becomes(w, "schema", k, Rows(k))
           /\ \A P : Items(schema_queue', P) + One(k \in P) = Items(schema_queue, P)
    BY <1>0, <1>1, TakeSchemaEffect
  <2>2. post_data_queue' = post_data_queue /\ done' = done
    BY <1>1 DEF TakeSchemaJob
  <2>3. Shrinks(schema_queue, schema_queue', k)
    BY <2>1 DEF Shrinks, One
  <2>4. Drops(k)
    BY <2>2, <2>3, QueueDrops
  <2>5. MadeDropped(k, k)
    BY <1>w, <2>1, <2>2, <2>4, MadeDrops
  <2> QED
    BY <2>5, MadeMoved
<1>2. CASE TakePostDataJob(w)
  <2>1. PICK k \in PostDataWork :
           /\ thread[w].job = NoJob /\ Becomes(w, "post_data", k, Rows(k))
           /\ \A P : Items(post_data_queue', P) + One(k \in P) = Items(post_data_queue, P)
    BY <1>0, <1>2, TakePostDataEffect
  <2>2. schema_queue' = schema_queue /\ done' = done
    BY <1>2 DEF TakePostDataJob
  <2>3. Shrinks(post_data_queue, post_data_queue', k)
    BY <2>1 DEF Shrinks, One
  <2>4. Drops(k)
    BY <2>2, <2>3, QueueDrops
  <2>5. MadeDropped(k, k)
    BY <1>w, <2>1, <2>2, <2>4, MadeDrops
  <2> QED
    BY <2>5, MadeMoved
<1> QED
  BY <1>1, <1>2

LEMMA MadeLost ==
    ASSUME TypesOK, TypesOK', NEW x, MadeDropped(x, NoJob),
           ~shutdown_triggered => x = ShutdownJob
    PROVE  MadeNoMore /\ (~shutdown_triggered => MadeSame)
<1>0. MadeOK /\ MadeOK'
  BY MadeType, MadeTypeNext
<1>1. ASSUME NEW j \in Work
      PROVE  Made(j)' <= Made(j) /\ (~shutdown_triggered => Made(j)' = Made(j))
  <2> DEFINE a == One(j = x)
  <2>1. j # NoJob /\ j # ShutdownJob
    BY JobSets DEF Work
  <2>2. Made(j) \in Nat /\ Made(j)' \in Nat /\ a \in Nat /\ (~shutdown_triggered => a = 0)
    BY <1>0, <2>1 DEF MadeOK, One
  <2>3. Made(j)' + a = Made(j) + One(j = NoJob) /\ One(j = NoJob) = 0
    BY <2>1 DEF MadeDropped, One
  <2> HIDE DEF a
  <2> QED
    BY <2>2, <2>3
<1> QED
  BY <1>1 DEF MadeNoMore, MadeSame

LEMMA MadeEnd ==
    ASSUME TypesOK, TypesOK', NEW w \in Workers, EndSchema(w) \/ EndPostData(w)
    PROVE  MadeNoMore /\ (~shutdown_triggered => MadeSame)
<1>0. ControlTypes
  BY DEF TypesOK
<1>w. NoJob \notin Work
  BY JobSets DEF Work
<1>2. CASE EndSchema(w)
  <2> DEFINE x == Head(schema_queue)
  <2>1. /\ thread[w].job = NoJob /\ Becomes(w, "waiting", NoJob, thread[w].todo)
        /\ ~shutdown_triggered => x = ShutdownJob
        /\ \A P : Items(schema_queue', P) + One(x \in P) = Items(schema_queue, P)
    BY <1>0, <1>2, EndSchemaEffect
  <2>2. post_data_queue' = post_data_queue /\ done' = done
    BY <1>2 DEF EndSchema
  <2> HIDE DEF x
  <2>3. Shrinks(schema_queue, schema_queue', x)
    BY <2>1 DEF Shrinks, One
  <2>4. Drops(x)
    BY <2>2, <2>3, QueueDrops
  <2>5. MadeDropped(x, NoJob)
    BY <1>w, <2>1, <2>2, <2>4, MadeDrops
  <2> QED
    BY <2>1, <2>5, MadeLost
<1>3. CASE EndPostData(w)
  <2> DEFINE x == Head(post_data_queue)
  <2>1. /\ thread[w].job = NoJob /\ Becomes(w, "end", NoJob, thread[w].todo)
        /\ ~shutdown_triggered => x = ShutdownJob
        /\ \A P : Items(post_data_queue', P) + One(x \in P) = Items(post_data_queue, P)
    BY <1>0, <1>3, EndPostDataEffect
  <2>2. schema_queue' = schema_queue /\ done' = done
    BY <1>3 DEF EndPostData
  <2> HIDE DEF x
  <2>3. Shrinks(post_data_queue, post_data_queue', x)
    BY <2>1 DEF Shrinks, One
  <2>4. Drops(x)
    BY <2>2, <2>3, QueueDrops
  <2>5. MadeDropped(x, NoJob)
    BY <1>w, <2>1, <2>2, <2>4, MadeDrops
  <2> QED
    BY <2>1, <2>5, MadeLost
<1> QED
  BY <1>2, <1>3

LEMMA MadeProcess ==
    ASSUME TypesOK, TypesOK', ThreadsOK, NEW w \in Workers, ProcessJob(w)
    PROVE  MadeSame
<1> SUFFICES ASSUME NEW j \in Work
             PROVE  Made(j)' = Made(j)
  BY DEF MadeSame
<1> DEFINE k == thread[w].job
           a == One(k = j)
           f == Pending(j)
           g == Pending(j)'
           m == Many(Workers, thread, Doing({j}))
           n == Many(Workers, thread', Doing({j}))
           x == done[j]
           y == done'[j]
<1>0. ControlTypes /\ RegistryTypes /\ MadeOK /\ MadeOK'
  BY MadeType, MadeTypeNext DEF TypesOK
<1>1. k \in Work /\ Becomes(w, thread[w].phase, NoJob, {}) /\ done' = [done EXCEPT ![k] = @ + 1]
  BY <1>0, ProcessEffect
<1>2. g = f
  BY Zenon DEF ProcessJob, queues, Pending
<1>3. n + One(k \in {j}) = m + One(NoJob \in {j})
  BY <1>0, <1>1, ThreadType, BecomesCounts
<1>4. One(NoJob \in {j}) = 0 /\ One(k \in {j}) = a /\ a \in Nat
  BY JobSets DEF One, Work
<1>5. m \in Nat /\ n \in Nat
  BY ManyBound, ObjectsAssumption
<1>6. f \in Nat /\ x \in Nat
  BY <1>0 DEF MadeOK
<1>7. y = x + a
  BY <1>0, <1>1, <1>6 DEF RegistryTypes, One
<1>8. Made(j) = f + m + x /\ Made(j)' = g + n + y
  BY DEF Made, Pending
<1> HIDE DEF a, f, g, m, n, x, y
<1> QED
  BY <1>2, <1>3, <1>4, <1>5, <1>6, <1>7, <1>8

(* What the queues get is what is made. *)
Grows(q, r, S) == \A j : Items(r, {j}) = Items(q, {j}) + One(j \in S)
Adds(S) == \A j \in Work : Pending(j)' = Pending(j) + One(j \in S)

LEMMA QueuesAdd ==
    ASSUME TypesOK, TypesOK', NEW S, NEW R, \A x : x \notin S \/ x \notin R,
           Grows(schema_queue, schema_queue', S), Grows(post_data_queue, post_data_queue', R)
    PROVE  Adds(S \cup R)
<1> SUFFICES ASSUME NEW j \in Work
             PROVE  Pending(j)' = Pending(j) + One(j \in S \cup R)
  BY DEF Adds
<1> DEFINE f == Items(schema_queue, {j})
           g == Items(post_data_queue, {j})
           m == Items(schema_queue', {j})
           n == Items(post_data_queue', {j})
           a == One(j \in S)
           b == One(j \in R)
           c == One(j \in S \cup R)
<1>1. QueueItemsOK
  BY QueueItemsType
<1>2. f \in Nat /\ g \in Nat /\ a \in Nat /\ b \in Nat
  BY <1>1 DEF QueueItemsOK, One
<1>3. c = a + b
  BY DEF One
<1>4. m = f + a /\ n = g + b
  BY DEF Grows
<1>5. Pending(j) = f + g /\ Pending(j)' = m + n
  BY DEF Pending
<1> HIDE DEF f, g, m, n, a, b, c
<1>6. Pending(j)' = Pending(j) + c
  BY <1>2, <1>3, <1>4, <1>5
<1> QED
  BY <1>6 DEF c

LEMMA NothingGrows ==
    ASSUME NEW T, NEW q \in Seq(T)
    PROVE  Grows(q, q, {})
  BY ItemsType DEF Grows, One

LEMMA MadeAdded ==
    ASSUME TypesOK, TypesOK', NEW w \in Workers, NEW p, NEW k, NEW s, Becomes(w, p, k, s),
           done' = done, thread[w].job \notin Work, k \notin Work, NEW S, Adds(S)
    PROVE  MadeMore(S)
<1>1. \A j \in Work : Pending(j)' = Pending(j) + One(j \in S)
  BY DEF Adds
<1> QED
  BY <1>1, MadeNew

LEMMA MadeAlike ==
    ASSUME NEW S, NEW R, MadeMore(S), \A j \in Work : j \in S <=> j \in R
    PROVE  MadeMore(R)
<1>1. \A j \in Work : One(j \in S) = One(j \in R)
  BY DEF One
<1> QED
  BY <1>1 DEF MadeMore

(* The jobs get_database creates for databases not seen before *)
Creations(ds) == {Job("CREATE_DATABASE", d) : d \in ds \ database_hash}

LEMMA DatabaseGrows ==
    ASSUME NEW ds, DatabaseMade(ds)
    PROVE  Grows(schema_queue, schema_queue', Creations(ds))
<1>1. \A j : (\E d \in ds \ database_hash : j = Job("CREATE_DATABASE", d)) <=> j \in Creations(ds)
  BY DEF Creations
<1>2. \A j : One(\E d \in ds \ database_hash : j = Job("CREATE_DATABASE", d)) = One(j \in Creations(ds))
  BY <1>1 DEF One
<1>3. \A j : Items(schema_queue', {j}) = Items(schema_queue, {j})
                + One(\E d \in ds \ database_hash : j = Job("CREATE_DATABASE", d))
  BY DEF DatabaseMade
<1> QED
  BY <1>2, <1>3, Zenon DEF Grows

LEMMA ListingNotWork ==
    /\ NoJob \notin Work /\ AllJob \notin Work /\ ListJob \notin Work
    /\ \A j \in InitialJobs : j \notin Work
    /\ \A d \in Databases : DatabaseJob(d) \notin Work
    /\ \A t \in Tables : DatabaseOf[t] \in Databases
  BY JobSets, JobTypes, ObjectsAssumption DEF Work

LEMMA MadeListDatabase ==
    ASSUME TypesOK, TypesOK', ThreadsOK, NEW w \in Workers, NEW d \in Databases,
           ListDatabase(w, d)
    PROVE  MadeMore(Creations({d}))
<1>0. ControlTypes
  BY DEF TypesOK
<1>1. /\ thread[w].job = AllJob /\ Becomes(w, "initial", AllJob, thread[w].todo \ {d})
      /\ DatabaseMade({d})
  BY <1>0, ListDatabaseEffect
<1>2. post_data_queue' = post_data_queue /\ done' = done
  BY DEF ListDatabase
<1>3. Grows(post_data_queue, post_data_queue', {})
  BY <1>0, <1>2, NothingGrows, QueueTypes
<1>4. Grows(schema_queue, schema_queue', Creations({d}))
  BY <1>1, DatabaseGrows
<1>5. Adds(Creations({d}) \cup {})
  BY <1>3, <1>4, QueuesAdd
<1>6. MadeMore(Creations({d}) \cup {})
  BY <1>1, <1>2, <1>5, MadeAdded, ListingNotWork
<1> QED
  BY <1>6, MadeAlike

LEMMA MadeListTable ==
    ASSUME TypesOK, TypesOK', ThreadsOK, NEW w \in Workers, NEW t \in Tables, ListTable(w, t)
    PROVE  MadeMore(Creations({DatabaseOf[t]}))
<1> DEFINE C == Creations({DatabaseOf[t]})
<1>0. ControlTypes
  BY DEF TypesOK
<1>1. /\ thread[w].job \in {ListJob, DatabaseJob(DatabaseOf[t])}
      /\ Becomes(w, "initial", thread[w].job, thread[w].todo \ {t})
      /\ DatabaseMade({DatabaseOf[t]})
  BY <1>0, ListTableEffect
<1>2. post_data_queue' = post_data_queue /\ done' = done
  BY DEF ListTable
<1>3. Grows(post_data_queue, post_data_queue', {})
  BY <1>0, <1>2, NothingGrows, QueueTypes
<1>4. Grows(schema_queue, schema_queue', C)
  BY <1>1, DatabaseGrows
<1> HIDE DEF C
<1>5. Adds(C \cup {})
  BY <1>3, <1>4, QueuesAdd
<1>6. MadeMore(C \cup {})
  BY <1>1, <1>2, <1>5, MadeAdded, ListingNotWork
<1>7. MadeMore(C)
  BY <1>6, MadeAlike
<1> QED
  BY <1>7 DEF C

(* The jobs of a database whose listing ends *)
DatabaseWork(j) ==
    {x \in Work : \E d \in Databases : \E type \in DatabaseTypes :
         j = DatabaseJob(d) /\ x = Job(type, d) /\ (type = "SCHEMA_POST" => d \in Routines)}

(* The jobs of a table *)
TableWork(t) == {x \in Work : \E type \in TableTypes : WantedOf(t, type) /\ x = Job(type, t)}

LEMMA GetsGrows ==
    ASSUME NEW q, NEW r, NEW c, NEW x, Gets(q, r, c, x), NEW S, \A j : j \in S <=> c /\ j = x
    PROVE  Grows(q, r, S)
<1>2. \A j : One(c /\ j = x) = One(j \in S)
  BY DEF One
<1> QED
  BY <1>2 DEF Gets, Grows

LEMMA MadeEndListing ==
    ASSUME TypesOK, TypesOK', ThreadsOK, NEW w \in Workers, EndListing(w)
    PROVE  MadeMore(DatabaseWork(thread[w].job))
<1> DEFINE j == thread[w].job
           c == j.type = "DUMP_DATABASE"
           x == Job("SCHEMA_POST", j.object)
           y == Job("SCHEMA_TRIGGERS", j.object)
           S == {z \in {x} : c /\ j.object \in Routines}
           R == {z \in {y} : c}
<1>0. ControlTypes
  BY DEF TypesOK
<1>1. /\ j \in ListingJobs /\ Becomes(w, "initial", NoJob, {})
      /\ Gets(schema_queue, schema_queue', c /\ j.object \in Routines, x)
      /\ Gets(post_data_queue, post_data_queue', c, y)
  BY <1>0, EndListingEffect
<1>2. done' = done
  BY Zenon DEF EndListing
<1>3. Grows(schema_queue, schema_queue', S) /\ Grows(post_data_queue, post_data_queue', R)
  <2> DEFINE b == c /\ j.object \in Routines
  <2>1. (\A z : z \in S <=> b /\ z = x) /\ (\A z : z \in R <=> c /\ z = y)
    OBVIOUS
  <2>2. Gets(schema_queue, schema_queue', b, x) /\ Gets(post_data_queue, post_data_queue', c, y)
    BY <1>1
  <2> HIDE DEF b, c, x, y, S, R
  <2> QED
    BY <2>1, <2>2, GetsGrows
<1>4. \A z : z \notin S \/ z \notin R
  <2>1. x # y
    BY DEF Job
  <2> QED
    BY <2>1
<1>5. j \in AnyJob /\ j \notin Work /\ NoJob \notin Work
  BY <1>1, ListingNotWork DEF ListingJobs, AnyJob
<1>6. \A z \in Work : z \in S \cup R <=> z \in DatabaseWork(j)
  <2>1. c => j.object \in Databases /\ j = DatabaseJob(j.object)
    BY <1>5, JobTypes DEF AnyJob
  <2>2. \A d \in Databases : j = DatabaseJob(d) => c /\ j.object = d
    BY DEF DatabaseJob, Job
  <2>3. ASSUME NEW z \in Work, z \in S \cup R
        PROVE  z \in DatabaseWork(j)
    <3>1. c /\ ((z = x /\ j.object \in Routines) \/ z = y)
      BY <2>3
    <3> QED
      BY <2>1, <3>1 DEF DatabaseWork, DatabaseTypes
  <2>4. ASSUME NEW z \in Work, z \in DatabaseWork(j)
        PROVE  z \in S \cup R
    <3>1. PICK d \in Databases : \E type \in DatabaseTypes :
              j = DatabaseJob(d) /\ z = Job(type, d) /\ (type = "SCHEMA_POST" => d \in Routines)
      BY <2>4 DEF DatabaseWork
    <3>2. PICK type \in DatabaseTypes :
              j = DatabaseJob(d) /\ z = Job(type, d) /\ (type = "SCHEMA_POST" => d \in Routines)
      BY <3>1
    <3>3. c /\ j.object = d
      BY <2>2, <3>2
    <3> QED
      BY <3>2, <3>3 DEF DatabaseTypes
  <2> QED
    BY <2>3, <2>4
<1> HIDE DEF S, R, j
<1>7. Adds(S \cup R)
  BY <1>3, <1>4, QueuesAdd
<1>8. MadeMore(S \cup R)
  <2>1. thread[w].job \notin Work
    BY <1>5 DEF j
  <2> QED
    BY <1>1, <1>2, <1>5, <1>7, <2>1, MadeAdded
<1>9. MadeMore(DatabaseWork(j))
  BY <1>6, <1>8, MadeAlike
<1> QED
  BY <1>9 DEF j

LEMMA MadeNewTable ==
    ASSUME TypesOK, TypesOK', ThreadsOK, NEW w \in Workers, NewTable(w)
    PROVE  MadeMore(TableWork(thread[w].job.object))
<1> DEFINE u == thread[w].job.object
           c == KindOf[u] \in {"innodb", "myisam"}
           x == Job("SCHEMA", u)
           S == {z \in {x} : c}
           R == {Job(type, u) : type \in {y \in PostDataTypes : WantedOf(u, y)}}
<1>0. ControlTypes
  BY DEF TypesOK
<1>1. /\ u \in Tables /\ thread[w].job = TableJob(u) /\ Becomes(w, "initial", NoJob, {})
      /\ Gets(schema_queue, schema_queue', c, x)
      /\ \A j : Items(post_data_queue', {j}) = Items(post_data_queue, {j})
                 + One(\E type \in PostDataTypes : WantedOf(u, type) /\ j = Job(type, u))
  BY <1>0, NewTableEffect
<1>2. done' = done
  BY Zenon DEF NewTable
<1>3. Grows(schema_queue, schema_queue', S)
  <2>1. \A z : z \in S <=> c /\ z = x
    OBVIOUS
  <2>2. Gets(schema_queue, schema_queue', c, x)
    BY <1>1
  <2> HIDE DEF c, x, S
  <2> QED
    BY <2>1, <2>2, GetsGrows
<1>4. Grows(post_data_queue, post_data_queue', R)
  <2>1. \A j : (\E type \in PostDataTypes : WantedOf(u, type) /\ j = Job(type, u)) <=> j \in R
    OBVIOUS
  <2> HIDE DEF R
  <2>2. \A j : One(\E type \in PostDataTypes : WantedOf(u, type) /\ j = Job(type, u)) = One(j \in R)
    BY <2>1 DEF One
  <2> QED
    BY <1>1, <2>2 DEF Grows
<1>5. \A z : z \notin S \/ z \notin R
  BY DEF Job, PostDataTypes
<1>6. \A z \in Work : z \in S \cup R <=> z \in TableWork(u)
  <2>1. KindOf[u] \in Kinds
    BY <1>1, ObjectsAssumption
  <2>2. WantedOf(u, "SCHEMA") <=> c
    BY <2>1 DEF WantedOf, Kinds
  <2>3. TableTypes = PostDataTypes \cup {"SCHEMA"}
    BY DEF TableTypes, PostDataTypes
  <2> QED
    BY <2>2, <2>3 DEF TableWork
<1>7. thread[w].job \notin Work /\ NoJob \notin Work
  BY <1>1, ListingNotWork, JobTypes
<1> HIDE DEF S, R, u
<1>8. Adds(S \cup R)
  BY <1>3, <1>4, <1>5, QueuesAdd
<1>9. MadeMore(S \cup R)
  BY <1>1, <1>2, <1>7, <1>8, MadeAdded
<1>10. MadeMore(TableWork(u))
  BY <1>6, <1>9, MadeAlike
<1> QED
  BY <1>10 DEF u

(* Steps that move no schema or post-data job *)
LEMMA MadeStill ==
    ASSUME thread' = thread, done' = done,
           \A P : ShutdownJob \notin P => Items(schema_queue', P) = Items(schema_queue, P),
           \A P : ShutdownJob \notin P => Items(post_data_queue', P) = Items(post_data_queue, P)
    PROVE  MadeSame
<1>1. \A j \in Work : ShutdownJob \notin {j}
  BY JobSets DEF Work
<1> QED
  BY <1>1 DEF Made, MadeSame

-----------------------------------------------------------------------------
(* No job is made twice *)
LEMMA JobNames ==
    \A a, b, x, y : Job(a, x) = Job(b, y) <=> a = b /\ x = y
  BY DEF Job

LEMMA WorkNames ==
    /\ \A t \in Tables : \A type \in TableTypes : Job(type, t) \in Work
    /\ \A d \in Databases : \A type \in DatabaseTypes : Job(type, d) \in Work
    /\ \A d \in Databases : Job("CREATE_DATABASE", d) \in Work
<1>1. ASSUME NEW t \in Tables, NEW type \in TableTypes
      PROVE  Job(type, t) \in Work
  BY DEF TableTypes, Work, SchemaWork, PostDataWork
<1>2. ASSUME NEW d \in Databases
      PROVE  /\ Job("CREATE_DATABASE", d) \in Work
             /\ Job("SCHEMA_POST", d) \in Work /\ Job("SCHEMA_TRIGGERS", d) \in Work
  BY DEF Work, SchemaWork, PostDataWork
<1> QED
  BY <1>1, <1>2 DEF DatabaseTypes

LEMMA TypeNames ==
    /\ "CREATE_DATABASE" \notin TableTypes /\ "CREATE_DATABASE" \notin DatabaseTypes
    /\ \A type \in TableTypes : type \notin DatabaseTypes
    /\ \A type \in DatabaseTypes : type \notin TableTypes
  BY DEF TableTypes, DatabaseTypes

LEMMA CreationNames ==
    ASSUME NEW ds
    PROVE  /\ \A t \in Tables : \A type \in TableTypes : Job(type, t) \notin Creations(ds)
           /\ \A d \in Databases : \A type \in DatabaseTypes : Job(type, d) \notin Creations(ds)
           /\ \A d \in Databases : Job("CREATE_DATABASE", d) \in Creations(ds)
                                      <=> d \in ds /\ d \notin database_hash
  BY JobNames, TypeNames DEF Creations

LEMMA TableNames ==
    ASSUME NEW u
    PROVE  /\ \A t \in Tables : \A type \in TableTypes :
                 Job(type, t) \in TableWork(u) <=> t = u /\ WantedOf(u, type)
           /\ \A d \in Databases : \A type \in DatabaseTypes : Job(type, d) \notin TableWork(u)
           /\ \A d \in Databases : Job("CREATE_DATABASE", d) \notin TableWork(u)
  BY JobNames, TypeNames, WorkNames DEF TableWork

LEMMA DatabaseNames ==
    ASSUME NEW j
    PROVE  /\ \A t \in Tables : \A type \in TableTypes : Job(type, t) \notin DatabaseWork(j)
           /\ \A d \in Databases : \A type \in DatabaseTypes :
                 Job(type, d) \in DatabaseWork(j)
                    <=> j = DatabaseJob(d) /\ (type = "SCHEMA_POST" => d \in Routines)
           /\ \A d \in Databases : Job("CREATE_DATABASE", d) \notin DatabaseWork(j)
  BY JobNames, TypeNames, WorkNames DEF DatabaseWork

(* The numbers of one table or database, before and after a step *)
NumbersNat ==
    /\ \A t \in Tables : TableDue(t) \in Nat /\ NameDue(t) \in Nat
    /\ \A d \in Databases : DatabaseDue(d) \in Nat /\ CreationDue(d) \in Nat
    /\ \A t \in Tables : \A type \in TableTypes : Made(Job(type, t)) \in Nat
    /\ \A d \in Databases : \A type \in DatabaseTypes : Made(Job(type, d)) \in Nat
    /\ \A d \in Databases : Made(Job("CREATE_DATABASE", d)) \in Nat

LEMMA NumbersType == TypesOK => NumbersNat
<1> SUFFICES ASSUME TypesOK
             PROVE  NumbersNat
  OBVIOUS
<1>1. DuesOK /\ MadeOK
  BY DuesType, MadeType DEF TypesOK
<1> QED
  BY <1>1, WorkNames DEF DuesOK, MadeOK, NumbersNat

LEMMA NumbersTypeNext == TypesOK' => NumbersNat'
  BY NumbersType, PTL

LEMMA OnceKept ==
    ASSUME TypesOK, TypesOK', AtMostOnce, MadeNoMore, DuesNoMore,
           database_hash \subseteq database_hash'
    PROVE  AtMostOnce'
<1>0. NumbersNat /\ NumbersNat'
  BY NumbersType, NumbersTypeNext
<1>1. ASSUME NEW t \in Tables, NEW type \in TableTypes
      PROVE  Made(Job(type, t))' + TableDue(t)' <= 1
  <2>1. /\ Made(Job(type, t)) \in Nat /\ Made(Job(type, t))' \in Nat
        /\ TableDue(t) \in Nat /\ TableDue(t)' \in Nat
    BY <1>0 DEF NumbersNat
  <2>2. Made(Job(type, t))' <= Made(Job(type, t)) /\ TableDue(t)' <= TableDue(t)
    BY WorkNames DEF MadeNoMore, DuesNoMore
  <2>3. Made(Job(type, t)) + TableDue(t) <= 1
    BY DEF AtMostOnce
  <2> QED
    BY <2>1, <2>2, <2>3
<1>2. ASSUME NEW d \in Databases, NEW type \in DatabaseTypes
      PROVE  Made(Job(type, d))' + DatabaseDue(d)' <= 1
  <2>1. /\ Made(Job(type, d)) \in Nat /\ Made(Job(type, d))' \in Nat
        /\ DatabaseDue(d) \in Nat /\ DatabaseDue(d)' \in Nat
    BY <1>0 DEF NumbersNat
  <2>2. Made(Job(type, d))' <= Made(Job(type, d)) /\ DatabaseDue(d)' <= DatabaseDue(d)
    BY WorkNames DEF MadeNoMore, DuesNoMore
  <2>3. Made(Job(type, d)) + DatabaseDue(d) <= 1
    BY DEF AtMostOnce
  <2> QED
    BY <2>1, <2>2, <2>3
<1>3. ASSUME NEW d \in Databases
      PROVE  Made(Job("CREATE_DATABASE", d))' <= One(d \in database_hash')
  <2> DEFINE j == Job("CREATE_DATABASE", d)
  <2>1. /\ Made(j) \in Nat /\ Made(j)' \in Nat
    BY <1>0 DEF NumbersNat
  <2>2. Made(j)' <= Made(j) /\ Made(j) <= One(d \in database_hash)
    BY WorkNames DEF MadeNoMore, AtMostOnce
  <2>3. /\ One(d \in database_hash) <= One(d \in database_hash')
        /\ One(d \in database_hash) \in Nat /\ One(d \in database_hash') \in Nat
    BY DEF One
  <2> HIDE DEF j
  <2>4. Made(j)' <= One(d \in database_hash')
    BY <2>1, <2>2, <2>3
  <2> QED
    BY <2>4 DEF j
<1> QED
  BY <1>1, <1>2, <1>3 DEF AtMostOnce

(* The first caller of get_database creates the job of a database. *)
LEMMA OnceCreated ==
    ASSUME TypesOK, TypesOK', AtMostOnce, DuesNoMore, NEW ds, MadeMore(Creations(ds)),
           database_hash' = database_hash \cup ds
    PROVE  AtMostOnce'
<1>0. NumbersNat /\ NumbersNat'
  BY NumbersType, NumbersTypeNext
<1>1. ASSUME NEW t \in Tables, NEW type \in TableTypes
      PROVE  Made(Job(type, t))' + TableDue(t)' <= 1
  <2>1. /\ Made(Job(type, t)) \in Nat /\ Made(Job(type, t))' \in Nat
        /\ TableDue(t) \in Nat /\ TableDue(t)' \in Nat
    BY <1>0 DEF NumbersNat
  <2>2. Made(Job(type, t))' = Made(Job(type, t)) + 0 /\ TableDue(t)' <= TableDue(t)
    BY WorkNames, CreationNames DEF MadeMore, DuesNoMore, One
  <2>3. Made(Job(type, t)) + TableDue(t) <= 1
    BY DEF AtMostOnce
  <2> QED
    BY <2>1, <2>2, <2>3
<1>2. ASSUME NEW d \in Databases, NEW type \in DatabaseTypes
      PROVE  Made(Job(type, d))' + DatabaseDue(d)' <= 1
  <2>1. /\ Made(Job(type, d)) \in Nat /\ Made(Job(type, d))' \in Nat
        /\ DatabaseDue(d) \in Nat /\ DatabaseDue(d)' \in Nat
    BY <1>0 DEF NumbersNat
  <2>2. Made(Job(type, d))' = Made(Job(type, d)) + 0 /\ DatabaseDue(d)' <= DatabaseDue(d)
    BY WorkNames, CreationNames DEF MadeMore, DuesNoMore, One
  <2>3. Made(Job(type, d)) + DatabaseDue(d) <= 1
    BY DEF AtMostOnce
  <2> QED
    BY <2>1, <2>2, <2>3
<1>3. ASSUME NEW d \in Databases
      PROVE  Made(Job("CREATE_DATABASE", d))' <= One(d \in database_hash')
  <2> DEFINE j == Job("CREATE_DATABASE", d)
  <2>1. /\ Made(j) \in Nat /\ Made(j)' \in Nat
    BY <1>0 DEF NumbersNat
  <2>2. j \in Creations(ds) <=> d \in ds /\ d \notin database_hash
    BY CreationNames
  <2>3. Made(j)' = Made(j) + One(j \in Creations(ds)) /\ Made(j) <= One(d \in database_hash)
    BY WorkNames DEF MadeMore, AtMostOnce
  <2>4. One(d \in database_hash') = One(d \in database_hash) + One(j \in Creations(ds))
    BY <2>2 DEF One
  <2>5. One(d \in database_hash) \in Nat /\ One(j \in Creations(ds)) \in Nat
    BY DEF One
  <2> HIDE DEF j
  <2>6. Made(j)' <= One(d \in database_hash')
    BY <2>1, <2>3, <2>4, <2>5
  <2> QED
    BY <2>6 DEF j
<1> QED
  BY <1>1, <1>2, <1>3 DEF AtMostOnce

(* A table, or a database, is due less when its jobs are made. *)
LEMMA OnceTable ==
    ASSUME TypesOK, TypesOK', AtMostOnce, NEW u, MadeMore(TableWork(u)),
           DuesLess({u}, {}, {}, {}), database_hash' = database_hash
    PROVE  AtMostOnce'
<1>0. NumbersNat /\ NumbersNat'
  BY NumbersType, NumbersTypeNext
<1>1. ASSUME NEW t \in Tables, NEW type \in TableTypes
      PROVE  Made(Job(type, t))' + TableDue(t)' <= 1
  <2> DEFINE a == One(Job(type, t) \in TableWork(u))
             b == One(t \in {u})
  <2>1. /\ Made(Job(type, t)) \in Nat /\ Made(Job(type, t))' \in Nat
        /\ TableDue(t) \in Nat /\ TableDue(t)' \in Nat
    BY <1>0 DEF NumbersNat
  <2>2. Made(Job(type, t))' = Made(Job(type, t)) + a /\ TableDue(t)' + b = TableDue(t)
    BY WorkNames DEF MadeMore, DuesLess
  <2>3. Made(Job(type, t)) + TableDue(t) <= 1
    BY DEF AtMostOnce
  <2>4. a \in Nat /\ b \in Nat /\ a <= b
    BY TableNames DEF One
  <2> HIDE DEF a, b
  <2> QED
    BY <2>1, <2>2, <2>3, <2>4
<1>2. ASSUME NEW d \in Databases, NEW type \in DatabaseTypes
      PROVE  Made(Job(type, d))' + DatabaseDue(d)' <= 1
  <2>1. /\ Made(Job(type, d)) \in Nat /\ Made(Job(type, d))' \in Nat
        /\ DatabaseDue(d) \in Nat /\ DatabaseDue(d)' \in Nat
    BY <1>0 DEF NumbersNat
  <2>2. Made(Job(type, d))' = Made(Job(type, d)) + 0 /\ DatabaseDue(d)' + 0 = DatabaseDue(d)
    BY WorkNames, TableNames DEF MadeMore, DuesLess, One
  <2>3. Made(Job(type, d)) + DatabaseDue(d) <= 1
    BY DEF AtMostOnce
  <2> QED
    BY <2>1, <2>2, <2>3
<1>3. ASSUME NEW d \in Databases
      PROVE  Made(Job("CREATE_DATABASE", d))' <= One(d \in database_hash')
  <2>1. Made(Job("CREATE_DATABASE", d))' = Made(Job("CREATE_DATABASE", d)) + 0
    BY WorkNames, TableNames DEF MadeMore, One
  <2>2. Made(Job("CREATE_DATABASE", d)) \in Nat
    BY <1>0 DEF NumbersNat
  <2>3. Made(Job("CREATE_DATABASE", d)) <= One(d \in database_hash)
    BY DEF AtMostOnce
  <2> QED
    BY <2>1, <2>2, <2>3
<1> QED
  BY <1>1, <1>2, <1>3 DEF AtMostOnce

LEMMA OnceDatabase ==
    ASSUME TypesOK, TypesOK', AtMostOnce, NEW j, MadeMore(DatabaseWork(j)),
           DuesLess({}, {d \in Databases : j = DatabaseJob(d)}, {}, {}),
           database_hash' = database_hash
    PROVE  AtMostOnce'
<1>0. NumbersNat /\ NumbersNat'
  BY NumbersType, NumbersTypeNext
<1>1. ASSUME NEW t \in Tables, NEW type \in TableTypes
      PROVE  Made(Job(type, t))' + TableDue(t)' <= 1
  <2>1. /\ Made(Job(type, t)) \in Nat /\ Made(Job(type, t))' \in Nat
        /\ TableDue(t) \in Nat /\ TableDue(t)' \in Nat
    BY <1>0 DEF NumbersNat
  <2>2. Made(Job(type, t))' = Made(Job(type, t)) + 0 /\ TableDue(t)' + 0 = TableDue(t)
    BY WorkNames, DatabaseNames DEF MadeMore, DuesLess, One
  <2>3. Made(Job(type, t)) + TableDue(t) <= 1
    BY DEF AtMostOnce
  <2> QED
    BY <2>1, <2>2, <2>3
<1>2. ASSUME NEW d \in Databases, NEW type \in DatabaseTypes
      PROVE  Made(Job(type, d))' + DatabaseDue(d)' <= 1
  <2> DEFINE a == One(Job(type, d) \in DatabaseWork(j))
             b == One(d \in {e \in Databases : j = DatabaseJob(e)})
  <2>1. /\ Made(Job(type, d)) \in Nat /\ Made(Job(type, d))' \in Nat
        /\ DatabaseDue(d) \in Nat /\ DatabaseDue(d)' \in Nat
    BY <1>0 DEF NumbersNat
  <2>2. Made(Job(type, d))' = Made(Job(type, d)) + a /\ DatabaseDue(d)' + b = DatabaseDue(d)
    BY WorkNames DEF MadeMore, DuesLess
  <2>3. Made(Job(type, d)) + DatabaseDue(d) <= 1
    BY DEF AtMostOnce
  <2>4. a \in Nat /\ b \in Nat /\ a <= b
    BY DatabaseNames DEF One
  <2> HIDE DEF a, b
  <2> QED
    BY <2>1, <2>2, <2>3, <2>4
<1>3. ASSUME NEW d \in Databases
      PROVE  Made(Job("CREATE_DATABASE", d))' <= One(d \in database_hash')
  <2>1. Made(Job("CREATE_DATABASE", d))' = Made(Job("CREATE_DATABASE", d)) + 0
    BY WorkNames, DatabaseNames DEF MadeMore, One
  <2>2. Made(Job("CREATE_DATABASE", d)) \in Nat
    BY <1>0 DEF NumbersNat
  <2>3. Made(Job("CREATE_DATABASE", d)) <= One(d \in database_hash)
    BY DEF AtMostOnce
  <2> QED
    BY <2>1, <2>2, <2>3
<1> QED
  BY <1>1, <1>2, <1>3 DEF AtMostOnce

-----------------------------------------------------------------------------
(* The steps of the main thread once the jobs are created, and a signal *)
Still ==
    \/ AwaitStatus \/ ShutdownInitial \/ StartData \/ ShutdownPostData \/ Finish
    \/ Shutdown \/ Ended \/ UNCHANGED vars

SameItems(q, r) == \A P : ShutdownJob \notin P => Items(r, P) = Items(q, P)

LEMMA StillItems ==
    ASSUME ControlTypes, Still
    PROVE  /\ SameItems(initial_queue, initial_queue')
           /\ SameItems(schema_queue, schema_queue')
           /\ SameItems(post_data_queue, post_data_queue')
<1>s. \A q : SameItems(q, q)
  BY DEF SameItems
<1>1. /\ SameItems(initial_queue, initial_queue \o Shutdowns)
      /\ SameItems(schema_queue, schema_queue \o Shutdowns)
      /\ SameItems(post_data_queue, post_data_queue \o Shutdowns)
  BY ShutdownsJoin DEF ControlTypes, SameItems
<1>2. /\ initial_queue' \in {initial_queue, initial_queue \o Shutdowns}
      /\ schema_queue' \in {schema_queue, schema_queue \o Shutdowns}
      /\ post_data_queue' \in {post_data_queue, post_data_queue \o Shutdowns}
  BY DEF Still, AwaitStatus, ShutdownInitial, StartData, ShutdownPostData, Finish, Shutdown, Ended,
     vars, queues
<1> QED
  BY <1>s, <1>1, <1>2

StillFrame ==
    /\ UNCHANGED <<request, database_hash, unreadable, transactional_table,
                   non_transactional_table>>
    /\ main' = "jobs" => main = "jobs"
    /\ shutdown_triggered => shutdown_triggered'

LEMMA StillSame ==
    ASSUME ControlTypes, Still
    PROVE  MadeSame /\ DuesSame /\ StillFrame
<1>1. thread' = thread /\ done' = done
  BY DEF Still, AwaitStatus, ShutdownInitial, StartData, ShutdownPostData, Finish, Shutdown, Ended,
     vars
<1>2. MadeSame
  <2>1. /\ \A P : ShutdownJob \notin P => Items(schema_queue', P) = Items(schema_queue, P)
        /\ \A P : ShutdownJob \notin P => Items(post_data_queue', P) = Items(post_data_queue, P)
    BY StillItems DEF SameItems
  <2> QED
    BY <1>1, <2>1, MadeStill
<1>3. DuesSame
  <2>1. \A P \in SUBSET InitialJobs : ShutdownJob \notin P
    BY JobSets
  <2>2. \A P \in SUBSET InitialJobs : Items(initial_queue', P) = Items(initial_queue, P)
    BY <2>1, StillItems DEF SameItems
  <2> QED
    BY <1>1, <2>2, DuesMain
<1>4. StillFrame
  <2>1. UNCHANGED <<request, database_hash, unreadable, transactional_table,
                    non_transactional_table>>
    BY DEF Still, AwaitStatus, ShutdownInitial, StartData, ShutdownPostData, Finish, Shutdown,
       Ended, vars, lists
  <2>2. main' = "jobs" => main = "jobs"
    BY DEF Still, AwaitStatus, ShutdownInitial, StartData, ShutdownPostData, Finish, Shutdown,
       Ended, vars
  <2>3. shutdown_triggered => shutdown_triggered'
    BY DEF Still, AwaitStatus, ShutdownInitial, StartData, ShutdownPostData, Finish, Shutdown,
       Ended, vars
  <2> QED
    BY <2>1, <2>2, <2>3 DEF StillFrame
<1> QED
  BY <1>2, <1>3, <1>4

LEMMA SameFalls ==
    ASSUME TypesOK, TypesOK'
    PROVE  /\ MadeSame => MadeNoMore
           /\ DuesSame => DuesNoMore
<1>1. NumbersNat
  BY NumbersType
<1>2. DuesSame => DuesNoMore
  BY <1>1 DEF DuesSame, DuesNoMore, NumbersNat
<1> QED
  BY <1>2, MadeFall

(* What is due when start_dump has created its jobs *)
Created ==
    /\ \A t \in Tables : TableDue(t)' = 1
    /\ \A d \in Databases : DatabaseDue(d)' = One(request # "tables")
    /\ request = "all" => \A d \in Databases : CreationDue(d)' = 1
    /\ request = "tables" => \A t \in Tables : NameDue(t)' = 1

LEMMA CreatedDues ==
    ASSUME ControlTypes, RegistryTypes, FreshOK, CreateJobs
    PROVE  Created
<1>1. \A P : Items(initial_queue', P) = One(StatusJob \in P) + Cardinality(FirstJobs \cap P)
  BY CreateJobsEffect
<1>2. \A w \in Workers : thread'[w] = thread[w] /\ thread[w] \in ThreadRecord /\ thread[w].job = NoJob
  BY ThreadType DEF CreateJobs, FreshOK
<1>n. \A P : (\A w \in Workers : thread'[w] \notin P) => Many(Workers, thread', P) = 0
  <2> SUFFICES ASSUME NEW P, \A w \in Workers : thread'[w] \notin P
               PROVE  Many(Workers, thread', P) = 0
    OBVIOUS
  <2> DEFINE f == thread'
  <2>1. \A w \in Workers : f[w] \notin P
    OBVIOUS
  <2> HIDE DEF f
  <2>2. Many(Workers, f, P) = 0
    BY <2>1, ManyBound, ObjectsAssumption
  <2> QED
    BY <2>2 DEF f
<1>3. /\ \A t \in Tables : Many(Workers, thread', AtTable(t)) = 0 /\ Many(Workers, thread', AtName(t)) = 0
      /\ \A d \in Databases : /\ Many(Workers, thread', AtDatabase(d)) = 0
                              /\ Many(Workers, thread', AtCreation(d)) = 0
  BY <1>2, <1>n, NotDue, OthersNotDue
<1>4. \A P : P \subseteq DueJobs => One(StatusJob \in P) = 0
  BY OthersNotDue DEF One
<1>5. /\ \A t \in Tables : AboveTable(t) \subseteq DueJobs /\ DatabaseOf[t] \in Databases
      /\ \A d \in Databases : AboveDatabase(d) \subseteq DueJobs
      /\ {AllJob} \subseteq DueJobs /\ {ListJob} \subseteq DueJobs
  BY JobTypes, ObjectsAssumption DEF DueJobs, AboveTable, AboveDatabase
<1>6. \A S : (\E x : S = {x}) => Cardinality(S) = 1
  BY FS_Singleton
<1>7. Cardinality({}) = 0
  BY FS_EmptySet
<1>f. /\ request = "tables" => FirstJobs = {ListJob}
      /\ request = "databases" => FirstJobs = {DatabaseJob(d) : d \in Databases}
      /\ request = "all" => FirstJobs = {AllJob}
      /\ request \in {"tables", "databases", "all"}
  BY FirstJobsType DEF RegistryTypes
<1>8. ASSUME NEW t \in Tables
      PROVE  TableDue(t)' = 1 /\ (request = "tables" => NameDue(t)' = 1)
  <2>1. \E x : FirstJobs \cap AboveTable(t) = {x}
    <3>1. CASE request = "tables"
      BY <1>f, <3>1, JobDistinct DEF AboveTable
    <3>2. CASE request = "databases"
      <4>1. FirstJobs \cap AboveTable(t) = {DatabaseJob(DatabaseOf[t])}
        BY <1>5, <1>f, <3>2, JobDistinct DEF AboveTable
      <4> QED
        BY <4>1
    <3>3. CASE request = "all"
      BY <1>f, <3>3, JobDistinct DEF AboveTable
    <3> QED
      BY <1>f, <3>1, <3>2, <3>3
  <2>2. Items(initial_queue', AboveTable(t)) = 0 + 1
    BY <1>1, <1>4, <1>5, <1>6, <2>1
  <2>3. TableDue(t)' = Items(initial_queue', AboveTable(t)) + Many(Workers, thread', AtTable(t))
    BY DEF TableDue, Listed
  <2>4. ASSUME request = "tables"
        PROVE  NameDue(t)' = 1
    <3>1. \E x : FirstJobs \cap {ListJob} = {x}
      BY <1>f, <2>4
    <3>2. Items(initial_queue', {ListJob}) = 0 + 1
      BY <1>1, <1>4, <1>5, <1>6, <3>1
    <3>3. NameDue(t)' = Items(initial_queue', {ListJob}) + Many(Workers, thread', AtName(t))
      BY DEF NameDue, Listed
    <3> QED
      BY <1>3, <3>2, <3>3
  <2> QED
    BY <1>3, <2>2, <2>3, <2>4
<1>9. ASSUME NEW d \in Databases
      PROVE  DatabaseDue(d)' = One(request # "tables") /\ (request = "all" => CreationDue(d)' = 1)
  <2>1. /\ request # "tables" => \E x : FirstJobs \cap AboveDatabase(d) = {x}
        /\ request = "tables" => FirstJobs \cap AboveDatabase(d) = {}
    <3>1. CASE request = "tables"
      BY <1>f, <3>1, JobDistinct DEF AboveDatabase
    <3>2. CASE request = "databases"
      <4>1. FirstJobs \cap AboveDatabase(d) = {DatabaseJob(d)}
        BY <1>f, <3>2, JobDistinct DEF AboveDatabase
      <4> QED
        BY <3>2, <4>1
    <3>3. CASE request = "all"
      BY <1>f, <3>3, JobDistinct DEF AboveDatabase
    <3> QED
      BY <1>f, <3>1, <3>2, <3>3
  <2>2. Items(initial_queue', AboveDatabase(d)) = 0 + One(request # "tables")
    BY <1>1, <1>4, <1>5, <1>6, <1>7, <2>1 DEF One
  <2>3. DatabaseDue(d)' = Items(initial_queue', AboveDatabase(d)) + Many(Workers, thread', AtDatabase(d))
    BY DEF DatabaseDue, Listed
  <2>4. ASSUME request = "all"
        PROVE  CreationDue(d)' = 1
    <3>1. \E x : FirstJobs \cap {AllJob} = {x}
      BY <1>f, <2>4
    <3>2. Items(initial_queue', {AllJob}) = 0 + 1
      BY <1>1, <1>4, <1>5, <1>6, <3>1
    <3>3. CreationDue(d)' = Items(initial_queue', {AllJob}) + Many(Workers, thread', AtCreation(d))
      BY DEF CreationDue, Listed
    <3> QED
      BY <1>3, <3>2, <3>3
  <2>5. DatabaseDue(d)' = One(request # "tables")
    BY <1>3, <2>2, <2>3 DEF One
  <2> QED
    BY <2>4, <2>5
<1> QED
  BY <1>8, <1>9 DEF Created

(* The jobs of the databases given with --database *)
CreatedMade ==
    \A j \in Work : Made(j)' = One(\E d \in database_hash' : j = Job("CREATE_DATABASE", d))

LEMMA CreatedJobs ==
    ASSUME ControlTypes, RegistryTypes, FreshOK, CreateJobs
    PROVE  CreatedMade /\ database_hash' = IF request = "databases" THEN Databases ELSE {}
<1> DEFINE ds == IF request = "databases" THEN Databases ELSE {}
<1>1. DatabaseMade(ds)
  BY CreateJobsEffect
<1>2. /\ database_hash' = ds /\ database_hash = {} /\ thread' = thread /\ done' = done
      /\ schema_queue = <<>> /\ post_data_queue = <<>> /\ post_data_queue' = post_data_queue
      /\ \A w \in Workers : thread[w].job = NoJob
      /\ \A j \in Work : done[j] = 0
  BY Zenon DEF CreateJobs, FreshOK
<1> HIDE DEF ds
<1>3. ASSUME NEW j \in Work
      PROVE  Made(j)' = One(\E d \in database_hash' : j = Job("CREATE_DATABASE", d))
  <2>1. Items(schema_queue, {j}) = 0 /\ Items(post_data_queue', {j}) = 0
    <3>1. Items(<<>>, {j}) = 0
      BY ItemsEmpty
    <3> QED
      BY <1>2, <3>1
  <2>2. Many(Workers, thread, Doing({j})) = 0
    BY <1>2, ManyType, ListingNotWork DEF Doing
  <2>3. Items(schema_queue', {j}) = 0 + One(\E d \in ds \ database_hash : j = Job("CREATE_DATABASE", d))
    BY <1>1, <2>1 DEF DatabaseMade
  <2>4. One(\E d \in ds \ database_hash : j = Job("CREATE_DATABASE", d)) =
        One(\E d \in database_hash' : j = Job("CREATE_DATABASE", d))
    BY <1>2 DEF One
  <2>5. Made(j)' = Items(schema_queue', {j}) + Items(post_data_queue', {j})
                     + Many(Workers, thread, Doing({j})) + done[j]
    BY <1>2 DEF Made
  <2>6. done[j] = 0 /\ One(\E d \in database_hash' : j = Job("CREATE_DATABASE", d)) \in Nat
    BY <1>2 DEF One
  <2> DEFINE o == One(\E d \in database_hash' : j = Job("CREATE_DATABASE", d))
             m == Items(schema_queue', {j})
             n == Items(post_data_queue', {j})
             k == Many(Workers, thread, Doing({j}))
  <2>7. m = 0 + o /\ n = 0 /\ k = 0 /\ o \in Nat
    BY <2>1, <2>2, <2>3, <2>4, <2>6
  <2>8. Made(j)' = m + n + k + 0
    BY <2>5, <2>6
  <2> HIDE DEF o, m, n, k
  <2>9. Made(j)' = o
    BY <2>7, <2>8
  <2> QED
    BY <2>9 DEF o
<1> QED
  BY <1>2, <1>3 DEF CreatedMade, ds

LEMMA OnceFirst ==
    ASSUME TypesOK, FreshOK, CreateJobs
    PROVE  AtMostOnce'
<1>0. ControlTypes /\ RegistryTypes
  BY DEF TypesOK
<1>1. Created /\ CreatedMade
  BY <1>0, CreatedDues, CreatedJobs
<1>2. ASSUME NEW t \in Tables, NEW type \in TableTypes
      PROVE  Made(Job(type, t))' + TableDue(t)' <= 1
  <2>1. Made(Job(type, t))' = 0
    BY <1>1, WorkNames, JobNames, TypeNames DEF CreatedMade, One
  <2>2. TableDue(t)' = 1
    BY <1>1 DEF Created
  <2> QED
    BY <2>1, <2>2
<1>3. ASSUME NEW d \in Databases, NEW type \in DatabaseTypes
      PROVE  Made(Job(type, d))' + DatabaseDue(d)' <= 1
  <2>1. Made(Job(type, d))' = 0
    BY <1>1, WorkNames, JobNames, TypeNames DEF CreatedMade, One
  <2>2. DatabaseDue(d)' = One(request # "tables")
    BY <1>1 DEF Created
  <2> QED
    BY <2>1, <2>2 DEF One
<1>4. ASSUME NEW d \in Databases
      PROVE  Made(Job("CREATE_DATABASE", d))' <= One(d \in database_hash')
  <2>1. Made(Job("CREATE_DATABASE", d))' =
        One(\E e \in database_hash' : Job("CREATE_DATABASE", d) = Job("CREATE_DATABASE", e))
    BY <1>1, WorkNames DEF CreatedMade
  <2>2. One(\E e \in database_hash' : Job("CREATE_DATABASE", d) = Job("CREATE_DATABASE", e)) =
        One(d \in database_hash')
    BY JobNames DEF One
  <2> DEFINE o == One(d \in database_hash')
  <2>3. o \in Nat
    BY DEF One
  <2>4. Made(Job("CREATE_DATABASE", d))' = o
    BY <2>1, <2>2
  <2> HIDE DEF o
  <2>5. Made(Job("CREATE_DATABASE", d))' <= o
    BY <2>3, <2>4
  <2> QED
    BY <2>5 DEF o
<1> QED
  BY <1>2, <1>3, <1>4 DEF AtMostOnce

(* What a step of a worker does to what is made and due *)
QuietStep(w) ==
    \/ TakeInitialJob(w) \/ TakeSchemaJob(w) \/ TakePostDataJob(w) \/ BeginData(w) \/ EndData(w)
    \/ WriteStatus(w) \/ ProcessJob(w)

LEMMA QuietSame ==
    ASSUME TypesOK, TypesOK', ThreadsOK, NEW w \in Workers, QuietStep(w)
    PROVE  MadeSame /\ DuesSame
<1>0. ControlTypes /\ ControlTypes'
  BY DEF TypesOK
<1>1. MadeSame
  BY MadeQuiet, MadeTake, MadeProcess DEF QuietStep
<1>2. DuesSame
  BY <1>0, DuesQuiet, DuesTake DEF QuietStep
<1> QED
  BY <1>1, <1>2

LeaveStep(w) == EndInitial(w) \/ EndSchema(w) \/ EndPostData(w)

LEMMA LeaveFalls ==
    ASSUME TypesOK, TypesOK', ThreadsOK, NEW w \in Workers, LeaveStep(w)
    PROVE  /\ MadeNoMore /\ DuesNoMore
           /\ ~shutdown_triggered => MadeSame /\ DuesSame
<1>0. ControlTypes /\ ControlTypes'
  BY DEF TypesOK
<1>1. CASE EndInitial(w)
  <2>1. MadeSame
    BY <1>1, MadeQuiet
  <2>2. DuesNoMore /\ (~shutdown_triggered => DuesSame)
    BY <1>0, <1>1, DuesEndInitial
  <2> QED
    BY <2>1, <2>2, SameFalls
<1>2. CASE EndSchema(w) \/ EndPostData(w)
  <2>1. DuesSame
    BY <1>0, <1>2, DuesQuiet
  <2>2. MadeNoMore /\ (~shutdown_triggered => MadeSame)
    BY <1>2, MadeEnd
  <2> QED
    BY <2>1, <2>2, SameFalls
<1> QED
  BY <1>1, <1>2 DEF LeaveStep

Registry == <<database_hash, unreadable, transactional_table, non_transactional_table>>

LEMMA QuietRegistry ==
    ASSUME NEW w, QuietStep(w) \/ LeaveStep(w)
    PROVE  UNCHANGED Registry
  BY DEF QuietStep, LeaveStep, TakeInitialJob, TakeSchemaJob, TakePostDataJob, BeginData, EndData,
     WriteStatus, ProcessJob, EndInitial, EndSchema, EndPostData, Registry, lists

LEMMA WorkerCases ==
    ASSUME NEW w, Worker(w)
    PROVE  \/ QuietStep(w) \/ LeaveStep(w) \/ (\E d \in Databases : ListDatabase(w, d))
           \/ (\E t \in Tables : ListTable(w, t)) \/ EndListing(w)
           \/ SelectDatabaseFails(w) \/ NewTable(w)
  BY Zenon DEF Worker, QuietStep, LeaveStep

LEMMA NextCases ==
    ASSUME [Next]_vars
    PROVE  CreateJobs \/ Still \/ \E w \in Workers : Worker(w)
  BY DEF Next, Main, Still

LEMMA OnceWorker ==
    ASSUME QInv, TypesOK', AtMostOnce, NEW w \in Workers, Worker(w)
    PROVE  AtMostOnce'
<1>0. TypesOK /\ ThreadsOK
  BY DEF QInv, TypesOK
<1>c. ControlTypes /\ ControlTypes'
  BY <1>0 DEF TypesOK
<1>1. CASE QuietStep(w) \/ LeaveStep(w)
  <2>1. MadeNoMore /\ DuesNoMore
    BY <1>0, <1>1, QuietSame, LeaveFalls, SameFalls
  <2>2. database_hash \subseteq database_hash'
    BY <1>1, QuietRegistry DEF Registry
  <2> QED
    BY <1>0, <2>1, <2>2, OnceKept
<1>2. ASSUME NEW d \in Databases, ListDatabase(w, d)
      PROVE  AtMostOnce'
  <2>1. database_hash' = database_hash \cup {d}
    BY <1>2 DEF ListDatabase
  <2>2. MadeMore(Creations({d}))
    BY <1>0, <1>2, MadeListDatabase
  <2>3. DuesNoMore
    BY <1>0, <1>2, <1>c, DuesListDatabase, DuesFall
  <2> QED
    BY <1>0, <2>1, <2>2, <2>3, OnceCreated
<1>3. ASSUME NEW t \in Tables, ListTable(w, t)
      PROVE  AtMostOnce'
  <2>1. database_hash' = database_hash \cup {DatabaseOf[t]}
    BY <1>3 DEF ListTable
  <2>2. MadeMore(Creations({DatabaseOf[t]}))
    BY <1>0, <1>3, MadeListTable
  <2>3. DuesNoMore
    BY <1>0, <1>3, <1>c, DuesListTable, DuesFall
  <2> QED
    BY <1>0, <2>1, <2>2, <2>3, OnceCreated
<1>4. CASE EndListing(w)
  <2>1. database_hash' = database_hash
    BY <1>4, Zenon DEF EndListing
  <2>2. MadeMore(DatabaseWork(thread[w].job))
    BY <1>0, <1>4, MadeEndListing
  <2>3. DuesLess({}, {d \in Databases : thread[w].job = DatabaseJob(d)}, {}, {})
    BY <1>0, <1>4, <1>c, DuesEndListing
  <2> QED
    BY <1>0, <2>1, <2>2, <2>3, OnceDatabase
<1>5. CASE SelectDatabaseFails(w)
  <2>1. database_hash \subseteq database_hash'
    <3>1. database_hash' = database_hash
      BY <1>5, Zenon DEF SelectDatabaseFails
    <3> QED
      BY <3>1
  <2>2. MadeSame
    BY <1>0, <1>5, MadeQuiet
  <2>3. DuesNoMore
    BY <1>0, <1>5, <1>c, DuesSelectFails, DuesFall
  <2> QED
    BY <1>0, <2>1, <2>2, <2>3, OnceKept, SameFalls
<1>6. CASE NewTable(w)
  <2>1. database_hash' = database_hash
    BY <1>6, Zenon DEF NewTable
  <2>2. MadeMore(TableWork(thread[w].job.object))
    BY <1>0, <1>6, MadeNewTable
  <2>3. DuesLess({thread[w].job.object}, {}, {}, {})
    BY <1>0, <1>6, <1>c, DuesNewTable
  <2> QED
    BY <1>0, <2>1, <2>2, <2>3, OnceTable
<1> QED
  BY <1>1, <1>2, <1>3, <1>4, <1>5, <1>6, WorkerCases

LEMMA OnceStep ==
    ASSUME QInv, TypesOK', AtMostOnce, [Next]_vars
    PROVE  AtMostOnce'
<1>0. TypesOK /\ FreshOK
  BY DEF QInv, TypesOK
<1>c. ControlTypes
  BY <1>0 DEF TypesOK
<1>1. CASE CreateJobs
  BY <1>0, <1>1, OnceFirst
<1>2. CASE Still
  <2>1. MadeSame /\ DuesSame /\ StillFrame
    BY <1>2, <1>c, StillSame
  <2>2. database_hash \subseteq database_hash'
    BY <2>1 DEF StillFrame
  <2> QED
    BY <1>0, <2>1, <2>2, SameFalls, OnceKept
<1>3. CASE \E w \in Workers : Worker(w)
  BY <1>3, OnceWorker
<1> QED
  BY <1>1, <1>2, <1>3, NextCases

-----------------------------------------------------------------------------
(* Nothing is lost *)
Exact == TablesExact /\ DatabasesExact /\ NamesExact

LEMMA TableSame ==
    ASSUME NEW t \in Tables, TableExact(t), request' = request,
           t \in Readable' <=> t \in Readable, TableDue(t)' = TableDue(t),
           \A type \in TableTypes : Made(Job(type, t))' = Made(Job(type, t)),
           t \in transactional_table' <=> t \in transactional_table,
           t \in non_transactional_table' <=> t \in non_transactional_table
    PROVE  TableExact(t)'
<1>1. \A type : WantedOf(t, type)' = WantedOf(t, type)
  BY DEF WantedOf
<1> QED
  BY <1>1 DEF TableExact

LEMMA DatabaseSame ==
    ASSUME NEW d \in Databases, DatabaseExact(d), Whole(d)' <=> Whole(d),
           DatabaseDue(d)' = DatabaseDue(d),
           \A type \in DatabaseTypes : Made(Job(type, d))' = Made(Job(type, d))
    PROVE  DatabaseExact(d)'
  BY DEF DatabaseExact

NamesSame ==
    /\ request' = request /\ database_hash' = database_hash
    /\ \A d \in Databases : /\ Made(Job("CREATE_DATABASE", d))' = Made(Job("CREATE_DATABASE", d))
                            /\ CreationDue(d)' = CreationDue(d)
    /\ \A t \in Tables : NameDue(t)' = NameDue(t)

LEMMA NamesKept ==
    ASSUME NamesExact, NamesSame
    PROVE  NamesExact'
  BY DEF NamesExact, NamesSame

LEMMA ExactKept ==
    ASSUME Exact, MadeSame, DuesSame, request' = request, UNCHANGED Registry
    PROVE  Exact'
<1>1. Readable' = Readable /\ \A d : Whole(d)' <=> Whole(d)
  BY DEF Readable, Whole, Registry
<1>2. ASSUME NEW t \in Tables
      PROVE  TableExact(t)'
  <2>1. TableExact(t)
    BY DEF Exact, TablesExact
  <2>2. \A type \in TableTypes : Made(Job(type, t))' = Made(Job(type, t))
    BY WorkNames DEF MadeSame
  <2>3. TableDue(t)' = TableDue(t)
    BY DEF DuesSame
  <2>4. /\ t \in transactional_table' <=> t \in transactional_table
        /\ t \in non_transactional_table' <=> t \in non_transactional_table
    BY DEF Registry
  <2> QED
    BY <1>1, <2>1, <2>2, <2>3, <2>4, TableSame
<1>3. ASSUME NEW d \in Databases
      PROVE  DatabaseExact(d)'
  <2>1. DatabaseExact(d)
    BY DEF Exact, DatabasesExact
  <2>2. \A type \in DatabaseTypes : Made(Job(type, d))' = Made(Job(type, d))
    BY WorkNames DEF MadeSame
  <2>3. DatabaseDue(d)' = DatabaseDue(d)
    BY DEF DuesSame
  <2> QED
    BY <1>1, <2>1, <2>2, <2>3, DatabaseSame
<1>4. NamesExact'
  <2>1. NamesSame
    BY WorkNames DEF NamesSame, MadeSame, DuesSame, Registry
  <2> QED
    BY <2>1, NamesKept DEF Exact
<1> QED
  BY <1>2, <1>3, <1>4 DEF Exact, TablesExact, DatabasesExact

(* A step that makes other jobs and leaves dues alone is seen as such. *)
LEMMA NotMade ==
    ASSUME TypesOK, NEW S, MadeMore(S), NEW j \in Work, j \notin S
    PROVE  Made(j)' = Made(j)
<1>1. Made(j) \in Nat
  BY MadeType DEF MadeOK
<1>2. Made(j)' = Made(j) + 0
  BY DEF MadeMore, One
<1> QED
  BY <1>1, <1>2

LEMMA NotLess ==
    ASSUME TypesOK, TypesOK', NEW T, NEW D, NEW E, NEW U, DuesLess(T, D, E, U)
    PROVE  /\ \A t \in Tables : t \notin T => TableDue(t)' = TableDue(t)
           /\ \A t \in Tables : t \notin U => NameDue(t)' = NameDue(t)
           /\ \A d \in Databases : d \notin D => DatabaseDue(d)' = DatabaseDue(d)
           /\ \A d \in Databases : d \notin E => CreationDue(d)' = CreationDue(d)
           /\ \A t \in Tables : t \in T => TableDue(t)' + 1 = TableDue(t)
           /\ \A d \in Databases : d \in D => DatabaseDue(d)' + 1 = DatabaseDue(d)
<1>1. NumbersNat /\ NumbersNat'
  BY NumbersType, NumbersTypeNext
<1>2. (\A x, S : x \in S => One(x \in S) = 1) /\ (\A x, S : x \notin S => One(x \in S) = 0)
  BY DEF One
<1>3. ASSUME NEW t \in Tables
      PROVE  /\ t \notin T => TableDue(t)' = TableDue(t)
             /\ t \notin U => NameDue(t)' = NameDue(t)
             /\ t \in T => TableDue(t)' + 1 = TableDue(t)
  <2>1. TableDue(t)' \in Nat /\ NameDue(t)' \in Nat
    BY <1>1 DEF NumbersNat
  <2>2. TableDue(t)' + One(t \in T) = TableDue(t) /\ NameDue(t)' + One(t \in U) = NameDue(t)
    BY DEF DuesLess
  <2> QED
    BY <1>2, <2>1, <2>2
<1>4. ASSUME NEW d \in Databases
      PROVE  /\ d \notin D => DatabaseDue(d)' = DatabaseDue(d)
             /\ d \notin E => CreationDue(d)' = CreationDue(d)
             /\ d \in D => DatabaseDue(d)' + 1 = DatabaseDue(d)
  <2>1. DatabaseDue(d)' \in Nat /\ CreationDue(d)' \in Nat
    BY <1>1 DEF NumbersNat
  <2>2. DatabaseDue(d)' + One(d \in D) = DatabaseDue(d) /\ CreationDue(d)' + One(d \in E) = CreationDue(d)
    BY DEF DuesLess
  <2> QED
    BY <1>2, <2>1, <2>2
<1> QED
  BY <1>3, <1>4

(* A row of a listing: get_database for ds *)
LEMMA ExactCreated ==
    ASSUME TypesOK, TypesOK', AtMostOnce, Exact, NEW ds \in SUBSET Databases, NEW E, NEW U,
           MadeMore(Creations(ds)), DuesLess({}, {}, E, U), request' = request,
           database_hash' = database_hash \cup ds,
           UNCHANGED <<unreadable, transactional_table, non_transactional_table>>,
           \A d \in E : d \in ds, \A t \in U : DatabaseOf[t] \in ds,
           request = "tables" => \A d \in ds : \E t \in Tables : DatabaseOf[t] = d
    PROVE  Exact'
<1>1. Readable' = Readable /\ \A d : Whole(d)' <=> Whole(d)
  BY DEF Readable, Whole
<1>l. /\ \A t \in Tables : TableDue(t)' = TableDue(t)
      /\ \A t \in Tables : t \notin U => NameDue(t)' = NameDue(t)
      /\ \A d \in Databases : DatabaseDue(d)' = DatabaseDue(d)
      /\ \A d \in Databases : d \notin E => CreationDue(d)' = CreationDue(d)
  BY NotLess
<1>2. ASSUME NEW t \in Tables
      PROVE  TableExact(t)'
  <2>1. TableExact(t)
    BY DEF Exact, TablesExact
  <2>2. \A type \in TableTypes : Made(Job(type, t))' = Made(Job(type, t))
    BY WorkNames, NotMade, CreationNames
  <2>3. /\ t \in transactional_table' <=> t \in transactional_table
        /\ t \in non_transactional_table' <=> t \in non_transactional_table
    OBVIOUS
  <2> QED
    BY <1>1, <1>l, <2>1, <2>2, <2>3, TableSame
<1>3. ASSUME NEW d \in Databases
      PROVE  DatabaseExact(d)'
  <2>1. DatabaseExact(d)
    BY DEF Exact, DatabasesExact
  <2>2. \A type \in DatabaseTypes : Made(Job(type, d))' = Made(Job(type, d))
    BY WorkNames, NotMade, CreationNames
  <2> QED
    BY <1>1, <1>l, <2>1, <2>2, DatabaseSame
<1>4. NamesExact'
  <2>0. NamesExact
    BY DEF Exact
  <2>1. \A d \in Databases : d \in database_hash' => Made(Job("CREATE_DATABASE", d))' = 1
    <3> SUFFICES ASSUME NEW d \in Databases, d \in database_hash'
                 PROVE  Made(Job("CREATE_DATABASE", d))' = 1
      OBVIOUS
    <3>1. CASE d \in database_hash
      <4>1. Made(Job("CREATE_DATABASE", d)) = 1
        BY <2>0, <3>1 DEF NamesExact
      <4>2. Made(Job("CREATE_DATABASE", d))' = Made(Job("CREATE_DATABASE", d))
        BY <3>1, CreationNames, WorkNames, NotMade
      <4> QED
        BY <4>1, <4>2
    <3>2. CASE d \notin database_hash
      <4>1. Made(Job("CREATE_DATABASE", d)) \in Nat /\ Made(Job("CREATE_DATABASE", d)) <= 0
        <5>1. NumbersNat
          BY NumbersType
        <5>2. One(d \in database_hash) = 0
          BY <3>2 DEF One
        <5> QED
          BY <5>1, <5>2 DEF NumbersNat, AtMostOnce
      <4>2. Made(Job("CREATE_DATABASE", d))' = Made(Job("CREATE_DATABASE", d)) + 1
        <5>1. Job("CREATE_DATABASE", d) \in Creations(ds) /\ Job("CREATE_DATABASE", d) \in Work
          BY <3>2, CreationNames, WorkNames
        <5> QED
          BY <5>1 DEF MadeMore, One
      <4> QED
        BY <4>1, <4>2
    <3> QED
      BY <3>1, <3>2
  <2>2. request' = "databases" => database_hash' = Databases
    BY <2>0 DEF NamesExact
  <2>3. request' = "all" => \A d \in Databases : d \in database_hash' \/ CreationDue(d)' >= 1
    <3> SUFFICES ASSUME request = "all", NEW d \in Databases, d \notin database_hash'
                 PROVE  CreationDue(d)' >= 1
      OBVIOUS
    <3>1. d \notin E /\ d \notin database_hash
      OBVIOUS
    <3>2. CreationDue(d) >= 1
      BY <2>0, <3>1 DEF NamesExact
    <3> QED
      BY <1>l, <3>1, <3>2
  <2>4. request' = "tables" => \A d \in database_hash' : \E t \in Tables : DatabaseOf[t] = d
    BY <2>0 DEF NamesExact
  <2>5. request' = "tables" =>
          \A t \in Tables : DatabaseOf[t] \in database_hash' \/ NameDue(t)' >= 1
    <3> SUFFICES ASSUME request = "tables", NEW t \in Tables, DatabaseOf[t] \notin database_hash'
                 PROVE  NameDue(t)' >= 1
      OBVIOUS
    <3>1. t \notin U /\ DatabaseOf[t] \notin database_hash
      OBVIOUS
    <3>2. NameDue(t) >= 1
      BY <2>0, <3>1 DEF NamesExact
    <3> QED
      BY <1>l, <3>1, <3>2
  <2> QED
    BY <2>1, <2>2, <2>3, <2>4, <2>5 DEF NamesExact
<1> QED
  BY <1>2, <1>3, <1>4 DEF Exact, TablesExact, DatabasesExact

(* The listing of a database is over. *)
LEMMA ExactDatabase ==
    ASSUME TypesOK, TypesOK', AtMostOnce, Exact, NEW j, MadeMore(DatabaseWork(j)),
           DuesLess({}, {d \in Databases : j = DatabaseJob(d)}, {}, {}),
           request' = request, UNCHANGED Registry
    PROVE  Exact'
<1> DEFINE D == {d \in Databases : j = DatabaseJob(d)}
<1>0. NumbersNat /\ NumbersNat'
  BY NumbersType, NumbersTypeNext
<1>1. Readable' = Readable /\ \A d : Whole(d)' <=> Whole(d)
  BY DEF Readable, Whole, Registry
<1>l. /\ \A t \in Tables : TableDue(t)' = TableDue(t) /\ NameDue(t)' = NameDue(t)
      /\ \A d \in Databases : CreationDue(d)' = CreationDue(d)
      /\ \A d \in Databases : d \notin D => DatabaseDue(d)' = DatabaseDue(d)
      /\ \A d \in Databases : d \in D => DatabaseDue(d)' + 1 = DatabaseDue(d)
  <2>1. DuesLess({}, D, {}, {})
    OBVIOUS
  <2> HIDE DEF D
  <2> QED
    BY <2>1, NotLess
<1>2. ASSUME NEW t \in Tables
      PROVE  TableExact(t)'
  <2>1. TableExact(t)
    BY DEF Exact, TablesExact
  <2>2. \A type \in TableTypes : Made(Job(type, t))' = Made(Job(type, t))
    BY WorkNames, NotMade, DatabaseNames
  <2>3. /\ t \in transactional_table' <=> t \in transactional_table
        /\ t \in non_transactional_table' <=> t \in non_transactional_table
    BY DEF Registry
  <2> QED
    BY <1>1, <1>l, <2>1, <2>2, <2>3, TableSame
<1>3. ASSUME NEW d \in Databases
      PROVE  DatabaseExact(d)'
  <2>1. DatabaseExact(d)
    BY DEF Exact, DatabasesExact
  <2>2. CASE d \notin D
    <3>1. \A type \in DatabaseTypes : Made(Job(type, d))' = Made(Job(type, d))
      BY <2>2, WorkNames, NotMade, DatabaseNames
    <3> QED
      BY <1>1, <1>l, <2>1, <2>2, <3>1, DatabaseSame
  <2>3. CASE d \in D
    <3>1. DatabaseDue(d)' + 1 = DatabaseDue(d) /\ DatabaseDue(d)' \in Nat /\ DatabaseDue(d) \in Nat
      BY <1>0, <1>l, <2>3 DEF NumbersNat
    <3>2. Whole(d)
      BY <2>1, <3>1 DEF DatabaseExact
    <3>3. ASSUME NEW type \in DatabaseTypes
          PROVE  /\ Made(Job(type, d))' = One(type = "SCHEMA_POST" => d \in Routines)
                 /\ DatabaseDue(d)' = 0
      <4> DEFINE o == One(type = "SCHEMA_POST" => d \in Routines)
                 x == Job(type, d)
      <4>1. Made(x) + DatabaseDue(d) <= 1 /\ Made(x) \in Nat
        BY <1>0 DEF AtMostOnce, NumbersNat
      <4>2. o = One(x \in DatabaseWork(j)) /\ o \in Nat
        BY <2>3, DatabaseNames DEF One
      <4>3. Made(x)' = Made(x) + o
        BY <4>2, WorkNames DEF MadeMore
      <4> HIDE DEF o, x
      <4>4. Made(x)' = o /\ DatabaseDue(d)' = 0
        BY <3>1, <4>1, <4>2, <4>3
      <4> QED
        BY <4>4 DEF o, x
    <3>4. DatabaseDue(d)' = 0
      BY <3>3 DEF DatabaseTypes
    <3> QED
      BY <1>1, <3>2, <3>3, <3>4 DEF DatabaseExact, One
  <2> QED
    BY <2>2, <2>3
<1>4. NamesExact'
  <2>1. NamesSame
    <3>1. \A d \in Databases : Made(Job("CREATE_DATABASE", d))' = Made(Job("CREATE_DATABASE", d))
      BY WorkNames, DatabaseNames, NotMade
    <3> QED
      BY <1>l, <3>1 DEF NamesSame, Registry
  <2> QED
    BY <2>1, NamesKept DEF Exact
<1> QED
  BY <1>2, <1>3, <1>4 DEF Exact, TablesExact, DatabasesExact

(* A table becomes its schema and post-data jobs. *)
LEMMA ExactTable ==
    ASSUME TypesOK, TypesOK', AtMostOnce, Exact, NEW u \in Tables, MadeMore(TableWork(u)),
           DuesLess({u}, {}, {}, {}), request' = request,
           UNCHANGED <<database_hash, unreadable>>,
           transactional_table' = transactional_table
               \cup (IF KindOf[u] = "innodb" THEN {u} ELSE {}),
           non_transactional_table' = non_transactional_table
               \cup (IF KindOf[u] = "myisam" THEN {u} ELSE {})
    PROVE  Exact'
<1>0. NumbersNat /\ NumbersNat'
  BY NumbersType, NumbersTypeNext
<1>1. Readable' = Readable /\ \A d : Whole(d)' <=> Whole(d)
  BY DEF Readable, Whole
<1>l. /\ \A t \in Tables : t # u => TableDue(t)' = TableDue(t)
      /\ TableDue(u)' + 1 = TableDue(u)
      /\ \A t \in Tables : NameDue(t)' = NameDue(t)
      /\ \A d \in Databases : CreationDue(d)' = CreationDue(d) /\ DatabaseDue(d)' = DatabaseDue(d)
  BY NotLess
<1>2. ASSUME NEW t \in Tables, t # u
      PROVE  TableExact(t)'
  <2>1. TableExact(t)
    BY DEF Exact, TablesExact
  <2>2. \A type \in TableTypes : Made(Job(type, t))' = Made(Job(type, t))
    BY <1>2, WorkNames, NotMade, TableNames
  <2>3. /\ t \in transactional_table' <=> t \in transactional_table
        /\ t \in non_transactional_table' <=> t \in non_transactional_table
    BY <1>2
  <2> QED
    BY <1>1, <1>2, <1>l, <2>1, <2>2, <2>3, TableSame
<1>3. TableExact(u)'
  <2>1. TableExact(u)
    BY DEF Exact, TablesExact
  <2>2. TableDue(u)' \in Nat /\ TableDue(u) \in Nat /\ TableDue(u)' + 1 = TableDue(u)
    BY <1>0, <1>l DEF NumbersNat
  <2>3. u \in Readable
    BY <2>1, <2>2 DEF TableExact
  <2>4. ASSUME NEW type \in TableTypes
        PROVE  Made(Job(type, u))' = One(WantedOf(u, type)) /\ TableDue(u)' = 0
    <3> DEFINE o == One(WantedOf(u, type))
               x == Job(type, u)
    <3>1. Made(x) + TableDue(u) <= 1 /\ Made(x) \in Nat
      BY <1>0 DEF AtMostOnce, NumbersNat
    <3>2. o = One(x \in TableWork(u)) /\ o \in Nat
      BY TableNames DEF One
    <3>3. Made(x)' = Made(x) + o
      BY <3>2, WorkNames DEF MadeMore
    <3> HIDE DEF o, x
    <3>4. Made(x)' = o /\ TableDue(u)' = 0
      BY <2>2, <3>1, <3>2, <3>3
    <3> QED
      BY <3>4 DEF o, x
  <2>5. TableDue(u)' = 0
    BY <2>4 DEF TableTypes
  <2>6. \A type : WantedOf(u, type)' = WantedOf(u, type)
    BY DEF WantedOf
  <2>7. \A type \in TableTypes :
          Made(Job(type, u))' =
             IF WantedOf(u, type)' /\ u \in Readable' THEN 1 - TableDue(u)' ELSE 0
    BY <1>1, <2>3, <2>4, <2>5, <2>6 DEF One
  <2>8. /\ u \in transactional_table' <=> KindOf[u] = "innodb"
        /\ u \in non_transactional_table' <=> KindOf[u] = "myisam"
    <3>1. u \notin transactional_table /\ u \notin non_transactional_table
      BY <2>1, <2>2 DEF TableExact
    <3> QED
      BY <3>1
  <2> QED
    BY <1>1, <2>3, <2>5, <2>7, <2>8 DEF TableExact
<1>4. ASSUME NEW d \in Databases
      PROVE  DatabaseExact(d)'
  <2>1. DatabaseExact(d)
    BY DEF Exact, DatabasesExact
  <2>2. \A type \in DatabaseTypes : Made(Job(type, d))' = Made(Job(type, d))
    BY WorkNames, NotMade, TableNames
  <2> QED
    BY <1>1, <1>l, <2>1, <2>2, DatabaseSame
<1>5. NamesExact'
  <2>1. NamesSame
    <3>1. \A d \in Databases : Made(Job("CREATE_DATABASE", d))' = Made(Job("CREATE_DATABASE", d))
      BY WorkNames, TableNames, NotMade
    <3> QED
      BY <1>l, <3>1 DEF NamesSame
  <2> QED
    BY <2>1, NamesKept DEF Exact
<1> QED
  BY <1>2, <1>3, <1>4, <1>5 DEF Exact, TablesExact, DatabasesExact

(* A database turns out to be unreadable before any of its tables is listed. *)
LEMMA ExactUnreadable ==
    ASSUME TypesOK, TypesOK', AtMostOnce, Exact, NEW e \in Databases, MadeSame,
           DuesLess(TablesOf(e), {e}, {}, {}), request' = request,
           unreadable' = unreadable \cup {e},
           UNCHANGED <<database_hash, transactional_table, non_transactional_table>>
    PROVE  Exact'
<1>0. NumbersNat /\ NumbersNat'
  BY NumbersType, NumbersTypeNext
<1>l. /\ \A t \in Tables : t \notin TablesOf(e) => TableDue(t)' = TableDue(t)
      /\ \A t \in Tables : t \in TablesOf(e) => TableDue(t)' + 1 = TableDue(t)
      /\ \A t \in Tables : NameDue(t)' = NameDue(t)
      /\ \A d \in Databases : CreationDue(d)' = CreationDue(d)
      /\ \A d \in Databases : d # e => DatabaseDue(d)' = DatabaseDue(d)
      /\ DatabaseDue(e)' + 1 = DatabaseDue(e)
  BY NotLess
<1>1. Whole(e)
  <2>1. DatabaseExact(e)
    BY DEF Exact, DatabasesExact
  <2>2. DatabaseDue(e)' \in Nat
    BY <1>0 DEF NumbersNat
  <2> QED
    BY <1>l, <2>1, <2>2 DEF DatabaseExact
<1>2. /\ \A t \in Tables : t \notin TablesOf(e) => (t \in Readable' <=> t \in Readable)
      /\ \A t \in Tables : t \in TablesOf(e) => t \notin Readable'
      /\ \A d : d # e => (Whole(d)' <=> Whole(d))
      /\ ~Whole(e)'
  BY <1>1 DEF Readable, Whole, TablesOf
<1>m. \A type \in TableTypes : \A t \in Tables : Made(Job(type, t))' = Made(Job(type, t))
  BY WorkNames DEF MadeSame
<1>n. \A type \in DatabaseTypes : \A d \in Databases : Made(Job(type, d))' = Made(Job(type, d))
  BY WorkNames DEF MadeSame
<1>3. ASSUME NEW t \in Tables, t \notin TablesOf(e)
      PROVE  TableExact(t)'
  <2>1. TableExact(t)
    BY DEF Exact, TablesExact
  <2>2. \A type \in TableTypes : Made(Job(type, t))' = Made(Job(type, t))
    BY <1>m
  <2>3. /\ t \in transactional_table' <=> t \in transactional_table
        /\ t \in non_transactional_table' <=> t \in non_transactional_table
    OBVIOUS
  <2> QED
    BY <1>2, <1>3, <1>l, <2>1, <2>2, <2>3, TableSame
<1>4. ASSUME NEW t \in Tables, t \in TablesOf(e)
      PROVE  TableExact(t)'
  <2>1. TableExact(t)
    BY DEF Exact, TablesExact
  <2>2. TableDue(t)' \in Nat /\ TableDue(t) \in Nat /\ TableDue(t)' + 1 = TableDue(t)
    BY <1>0, <1>4, <1>l DEF NumbersNat
  <2>3. \A type \in TableTypes : Made(Job(type, t))' = 0 /\ TableDue(t)' = 0
    <3> SUFFICES ASSUME NEW type \in TableTypes
                 PROVE  Made(Job(type, t))' = 0 /\ TableDue(t)' = 0
      OBVIOUS
    <3>1. Made(Job(type, t)) + TableDue(t) <= 1 /\ Made(Job(type, t)) \in Nat
      BY <1>0 DEF AtMostOnce, NumbersNat
    <3>2. Made(Job(type, t))' = Made(Job(type, t))
      BY <1>m
    <3> QED
      BY <2>2, <3>1, <3>2
  <2>4. TableDue(t)' = 0
    BY <2>3 DEF TableTypes
  <2>5. t \notin transactional_table' /\ t \notin non_transactional_table'
    BY <2>1, <2>2 DEF TableExact
  <2> QED
    BY <1>2, <1>4, <2>3, <2>4, <2>5 DEF TableExact
<1>5. ASSUME NEW d \in Databases, d # e
      PROVE  DatabaseExact(d)'
  <2>1. DatabaseExact(d)
    BY DEF Exact, DatabasesExact
  <2>2. \A type \in DatabaseTypes : Made(Job(type, d))' = Made(Job(type, d))
    BY <1>n
  <2> QED
    BY <1>2, <1>5, <1>l, <2>1, <2>2, DatabaseSame
<1>6. DatabaseExact(e)'
  <2>1. DatabaseDue(e)' \in Nat /\ DatabaseDue(e) \in Nat /\ DatabaseDue(e)' + 1 = DatabaseDue(e)
    BY <1>0, <1>l DEF NumbersNat
  <2>2. \A type \in DatabaseTypes : Made(Job(type, e))' = 0 /\ DatabaseDue(e)' = 0
    <3> SUFFICES ASSUME NEW type \in DatabaseTypes
                 PROVE  Made(Job(type, e))' = 0 /\ DatabaseDue(e)' = 0
      OBVIOUS
    <3>1. Made(Job(type, e)) + DatabaseDue(e) <= 1 /\ Made(Job(type, e)) \in Nat
      BY <1>0 DEF AtMostOnce, NumbersNat
    <3>2. Made(Job(type, e))' = Made(Job(type, e))
      BY <1>n
    <3> QED
      BY <2>1, <3>1, <3>2
  <2>3. DatabaseDue(e)' = 0
    BY <2>2 DEF DatabaseTypes
  <2> QED
    BY <1>2, <2>2, <2>3 DEF DatabaseExact
<1>7. NamesExact'
  <2>1. NamesSame
    BY <1>l, WorkNames DEF NamesSame, MadeSame
  <2> QED
    BY <2>1, NamesKept DEF Exact
<1> QED
  BY <1>3, <1>4, <1>5, <1>6, <1>7 DEF Exact, TablesExact, DatabasesExact

LEMMA ExactFirst ==
    ASSUME TypesOK, TypesOK', FreshOK, CreateJobs
    PROVE  Exact'
<1>0. ControlTypes /\ RegistryTypes
  BY DEF TypesOK
<1>1. /\ Created /\ CreatedMade
      /\ database_hash' = IF request = "databases" THEN Databases ELSE {}
  BY <1>0, CreatedDues, CreatedJobs
<1>2. /\ request' = request /\ unreadable' = {}
      /\ transactional_table' = {} /\ non_transactional_table' = {}
  BY Zenon DEF CreateJobs, FreshOK, lists
<1>3. Readable' = Tables /\ \A d : Whole(d)' <=> request # "tables"
  BY <1>2 DEF Readable, Whole
<1>4. ASSUME NEW t \in Tables
      PROVE  TableExact(t)'
  <2>1. \A type \in TableTypes : Made(Job(type, t))' = 0
    BY <1>1, WorkNames, JobNames, TypeNames DEF CreatedMade, One
  <2>2. TableDue(t)' = 1
    BY <1>1 DEF Created
  <2> QED
    BY <1>2, <1>3, <2>1, <2>2 DEF TableExact
<1>5. ASSUME NEW d \in Databases
      PROVE  DatabaseExact(d)'
  <2>1. \A type \in DatabaseTypes : Made(Job(type, d))' = 0
    BY <1>1, WorkNames, JobNames, TypeNames DEF CreatedMade, One
  <2>2. DatabaseDue(d)' = One(request # "tables")
    BY <1>1 DEF Created
  <2> QED
    BY <1>3, <2>1, <2>2 DEF DatabaseExact, One
<1>6. NamesExact'
  <2>1. \A d \in Databases : d \in database_hash' => Made(Job("CREATE_DATABASE", d))' = 1
    BY <1>1, WorkNames DEF CreatedMade, One
  <2>2. request' = "databases" => database_hash' = Databases
    BY <1>1, <1>2
  <2>3. request' = "all" => \A d \in Databases : CreationDue(d)' = 1
    BY <1>1, <1>2 DEF Created
  <2>4. request' = "tables" => database_hash' = {} /\ \A t \in Tables : NameDue(t)' = 1
    BY <1>1, <1>2 DEF Created
  <2> QED
    BY <2>1, <2>2, <2>3, <2>4 DEF NamesExact
<1> QED
  BY <1>4, <1>5, <1>6 DEF Exact, TablesExact, DatabasesExact

(* Databases are listed by name only when no list of tables was given. *)
LEMMA AllListed ==
    ASSUME TypesOK, Exact, NEW w \in Workers, NEW d \in Databases, thread[w].job = AllJob,
           d \in thread[w].todo
    PROVE  request # "tables"
<1>0. ControlTypes
  BY DEF TypesOK
<1>1. thread[w] \in AtDatabase(d)
  BY <1>0, ThreadType DEF AtDatabase
<1>2. Many(Workers, thread, AtDatabase(d)) \in Nat /\ Many(Workers, thread, AtDatabase(d)) # 0
  BY <1>1, ManyType
<1>3. Items(initial_queue, AboveDatabase(d)) \in Nat
  BY <1>0, CountsAreNumbers
<1>4. DatabaseDue(d) # 0
  BY <1>2, <1>3 DEF DatabaseDue, Listed
<1> QED
  BY <1>4 DEF Exact, DatabasesExact, DatabaseExact, Whole

LEMMA ExactWorker ==
    ASSUME QInv, TypesOK', AtMostOnce, Exact, ~shutdown_triggered, NEW w \in Workers, Worker(w)
    PROVE  Exact'
<1>0. TypesOK /\ ThreadsOK
  BY DEF QInv, TypesOK
<1>c. ControlTypes /\ ControlTypes'
  BY <1>0 DEF TypesOK
<1>r. request' = request
  BY WorkerFrame
<1>1. CASE QuietStep(w) \/ LeaveStep(w)
  <2>1. MadeSame /\ DuesSame
    BY <1>0, <1>1, QuietSame, LeaveFalls
  <2>2. UNCHANGED Registry
    BY <1>1, QuietRegistry
  <2> QED
    BY <1>r, <2>1, <2>2, ExactKept
<1>2. ASSUME NEW d \in Databases, ListDatabase(w, d)
      PROVE  Exact'
  <2>1. /\ database_hash' = database_hash \cup {d}
        /\ UNCHANGED <<unreadable, transactional_table, non_transactional_table>>
    BY <1>2 DEF ListDatabase, lists
  <2>2. MadeMore(Creations({d}))
    BY <1>0, <1>2, MadeListDatabase
  <2>3. DuesLess({}, {}, {d}, {})
    BY <1>0, <1>2, <1>c, DuesListDatabase
  <2>4. request # "tables"
    <3>1. thread[w].job = AllJob /\ d \in thread[w].todo
      BY <1>0, <1>2, <1>c, ListDatabaseEffect
    <3> QED
      BY <1>0, <3>1, AllListed
  <2> QED
    BY <1>0, <1>r, <2>1, <2>2, <2>3, <2>4, ExactCreated
<1>3. ASSUME NEW t \in Tables, ListTable(w, t)
      PROVE  Exact'
  <2> DEFINE e == DatabaseOf[t]
             U == IF thread[w].job = ListJob THEN {t} ELSE {}
  <2>1. /\ database_hash' = database_hash \cup {e}
        /\ UNCHANGED <<unreadable, transactional_table, non_transactional_table>>
    BY <1>3 DEF ListTable, lists
  <2>2. MadeMore(Creations({e}))
    BY <1>0, <1>3, MadeListTable
  <2>3. DuesLess({}, {}, {}, U)
    BY <1>0, <1>3, <1>c, DuesListTable
  <2>4. /\ {e} \in SUBSET Databases /\ \A u \in U : DatabaseOf[u] \in {e}
        /\ \A d \in {e} : \E u \in Tables : DatabaseOf[u] = d
    BY ListingNotWork
  <2> HIDE DEF e, U
  <2> QED
    BY <1>0, <1>r, <2>1, <2>2, <2>3, <2>4, ExactCreated
<1>4. CASE EndListing(w)
  <2>1. UNCHANGED Registry
    BY <1>4, Zenon DEF EndListing, Registry, lists
  <2>2. MadeMore(DatabaseWork(thread[w].job))
    BY <1>0, <1>4, MadeEndListing
  <2>3. DuesLess({}, {d \in Databases : thread[w].job = DatabaseJob(d)}, {}, {})
    BY <1>0, <1>4, <1>c, DuesEndListing
  <2> QED
    BY <1>0, <1>r, <2>1, <2>2, <2>3, ExactDatabase
<1>5. CASE SelectDatabaseFails(w)
  <2> DEFINE e == thread[w].job.object
  <2>1. UNCHANGED <<database_hash, transactional_table, non_transactional_table>>
    BY <1>5, Zenon DEF SelectDatabaseFails, lists
  <2>2. e \in Databases /\ unreadable' = unreadable \cup {e}
    BY <1>0, <1>5, <1>c, SelectFailsEffect
  <2>3. MadeSame
    BY <1>0, <1>5, MadeQuiet
  <2>4. DuesLess(TablesOf(e), {e}, {}, {})
    BY <1>0, <1>5, <1>c, DuesSelectFails
  <2> HIDE DEF e
  <2> QED
    BY <1>0, <1>r, <2>1, <2>2, <2>3, <2>4, ExactUnreadable
<1>6. CASE NewTable(w)
  <2> DEFINE u == thread[w].job.object
  <2>1. UNCHANGED <<database_hash, unreadable>>
    BY <1>6, Zenon DEF NewTable
  <2>2. /\ u \in Tables
        /\ transactional_table' = transactional_table
               \cup (IF KindOf[u] = "innodb" THEN {u} ELSE {})
        /\ non_transactional_table' = non_transactional_table
               \cup (IF KindOf[u] = "myisam" THEN {u} ELSE {})
    BY <1>0, <1>6, <1>c, NewTableEffect
  <2>3. MadeMore(TableWork(u))
    BY <1>0, <1>6, MadeNewTable
  <2>4. DuesLess({u}, {}, {}, {})
    BY <1>0, <1>6, <1>c, DuesNewTable
  <2> HIDE DEF u
  <2> QED
    BY <1>0, <1>r, <2>1, <2>2, <2>3, <2>4, ExactTable
<1> QED
  BY <1>1, <1>2, <1>3, <1>4, <1>5, <1>6, WorkerCases

LEMMA LostStep ==
    ASSUME QInv, TypesOK', AtMostOnce, NoneLost, [Next]_vars
    PROVE  NoneLost'
<1> SUFFICES ASSUME ~shutdown_triggered', main' # "jobs"
             PROVE  Exact'
  BY DEF NoneLost, Exact
<1>0. TypesOK /\ ControlTypes /\ FreshOK
  BY DEF QInv, TypesOK
<1>e. ~shutdown_triggered /\ main # "jobs" => Exact
  BY DEF NoneLost, Exact
<1>1. CASE CreateJobs
  BY <1>0, <1>1, ExactFirst
<1>2. CASE Still
  <2>1. MadeSame /\ DuesSame /\ StillFrame
    BY <1>0, <1>2, StillSame
  <2>2. request' = request /\ UNCHANGED Registry
    BY <2>1 DEF StillFrame, Registry
  <2>3. Exact
    BY <1>e, <1>2, <2>1 DEF StillFrame, Still, AwaitStatus, ShutdownInitial, StartData, ShutdownPostData, Finish, Shutdown,
       Ended, vars
  <2> QED
    BY <2>1, <2>2, <2>3, ExactKept
<1>3. ASSUME NEW w \in Workers, Worker(w)
      PROVE  Exact'
  <2>1. UNCHANGED <<main, shutdown_triggered>>
    BY <1>3, WorkerFrame
  <2> QED
    BY <1>3, <1>e, <2>1, ExactWorker
<1> QED
  BY <1>1, <1>2, <1>3, NextCases

-----------------------------------------------------------------------------
LEMMA BackupInvInit == Init => BackupInv
<1> SUFFICES ASSUME Init
             PROVE  BackupInv
  OBVIOUS
<1>1. QInv
  BY QInvInit
<1>2. main = "jobs" /\ metadata = "partial"
  BY DEF Init
<1>3. \A w \in Workers : thread[w].phase = "initial" /\ thread[w].job = NoJob /\ thread[w] \in ThreadRecord
  BY <1>1, ThreadType DEF Init, QInv
<1>4. ClosedOK
  BY <1>3 DEF ClosedOK, Gate, Phases
<1>5. LockOK /\ FinishOK /\ NoneLost
  BY <1>2 DEF LockOK, AfterInitial, FinishOK, NoneLost
<1>6. \A P : Items(initial_queue, P) = 0 /\ Items(schema_queue, P) = 0 /\ Items(post_data_queue, P) = 0
  BY ItemsEmpty DEF Init
<1>7. /\ \A t \in Tables : TableDue(t) = 0
      /\ \A d \in Databases : DatabaseDue(d) = 0
  <2>1. \A w \in Workers : /\ \A t \in Tables : thread[w] \notin AtTable(t)
                           /\ \A d \in Databases : thread[w] \notin AtDatabase(d)
    BY <1>3, NotDue, OthersNotDue
  <2>2. /\ \A t \in Tables : Many(Workers, thread, AtTable(t)) = 0
        /\ \A d \in Databases : Many(Workers, thread, AtDatabase(d)) = 0
    BY <2>1, ManyType
  <2> QED
    BY <1>6, <2>2 DEF TableDue, DatabaseDue, Listed
<1>8. \A j \in Work : Made(j) = 0
  <2> SUFFICES ASSUME NEW j \in Work
               PROVE  Made(j) = 0
    OBVIOUS
  <2>1. Many(Workers, thread, Doing({j})) = 0
    BY <1>3, ManyType, ListingNotWork DEF Doing
  <2>2. done[j] = 0
    BY DEF Init
  <2> QED
    BY <1>6, <2>1, <2>2 DEF Made
<1>9. AtMostOnce
  BY <1>7, <1>8, WorkNames DEF AtMostOnce, One
<1> QED
  BY <1>1, <1>4, <1>5, <1>9 DEF BackupInv

LEMMA BackupInvNext == BackupInv /\ [Next]_vars => BackupInv'
<1> SUFFICES ASSUME BackupInv, [Next]_vars
             PROVE  BackupInv'
  OBVIOUS
<1>0. QInv /\ ClosedOK /\ LockOK /\ FinishOK /\ AtMostOnce /\ NoneLost
  BY DEF BackupInv
<1>1. QInv'
  BY <1>0, QInvNext
<1>2. TypesOK'
  BY <1>1 DEF QInv, TypesOK
<1>3. ClosedOK' /\ LockOK' /\ FinishOK'
  BY <1>0, ClosedStep, LockStep, FinishStep
<1>4. AtMostOnce'
  BY <1>0, <1>2, OnceStep
<1>5. NoneLost'
  BY <1>0, <1>2, LostStep
<1> QED
  BY <1>1, <1>3, <1>4, <1>5 DEF BackupInv

(* The invariant of the whole dump: each table and each database is in one *)
(* place between the job that will list it and the jobs it becomes, a      *)
(* queue is left only when it is empty of work, and the metadata is final  *)
(* only when every worker has ended.                                       *)
THEOREM BackupInductive == Spec => []BackupInv
<1>1. Init => BackupInv
  BY BackupInvInit
<1>2. BackupInv /\ [Next]_vars => BackupInv'
  BY BackupInvNext
<1> QED
  BY <1>1, <1>2, PTL DEF Spec

-----------------------------------------------------------------------------
(* When a worker is at the data no table and no database is to come.       *)
NothingDue ==
    /\ \A t \in Tables : TableDue(t) = 0 /\ NameDue(t) = 0
    /\ \A d \in Databases : DatabaseDue(d) = 0 /\ CreationDue(d) = 0

LEMMA ListingOver ==
    ASSUME BackupInv, ~shutdown_triggered, NEW w \in Workers,
           thread[w].phase \in {"data", "post_data", "end"}
    PROVE  main \in AfterInitial /\ NothingDue
<1>0. /\ ControlTypes /\ ThreadsOK /\ BarriersOK /\ ClosedOK
  BY DEF BackupInv, QInv
<1>1. main \in AfterInitial
  <2>1. thread[w] \in InData
    BY <1>0, ThreadType DEF InData, AtPhase
  <2>2. Many(Workers, thread, InData) \in Nat /\ Many(Workers, thread, InData) # 0
    BY <2>1, ManyType
  <2>3. tokens.ready_non_transactional \in Nat
    BY <1>0 DEF ControlTypes
  <2> QED
    BY <1>0, <2>2, <2>3 DEF BarriersOK
<1>2. \A v \in Workers : thread[v] \in Left
  <2>1. tokens.initial_completed \in Nat /\ N \in Nat
    BY <1>0, NType DEF ControlTypes
  <2>2. Many(Workers, thread, Left) = tokens.initial_completed + N
    BY <1>0, <1>1 DEF BarriersOK
  <2>3. Many(Workers, thread, Left) >= N
    BY <2>1, <2>2
  <2> QED
    BY <2>3, ManyType
<1>3. \A v \in Workers : thread[v] \in ThreadRecord /\ thread[v].job \notin DueJobs
  <2> SUFFICES ASSUME NEW v \in Workers
               PROVE  thread[v] \in ThreadRecord /\ thread[v].job \notin DueJobs
    OBVIOUS
  <2>1. thread[v] \in ThreadRecord /\ thread[v].phase # "initial"
    BY <1>2 DEF Left, AtPhase
  <2>2. thread[v].job \notin InitialJobs
    BY <1>0, <2>1 DEF ThreadsOK, Fits
  <2> QED
    BY <2>1, <2>2, OthersNotDue
<1>4. /\ \A t \in Tables : Many(Workers, thread, AtTable(t)) = 0 /\ Many(Workers, thread, AtName(t)) = 0
      /\ \A d \in Databases : /\ Many(Workers, thread, AtDatabase(d)) = 0
                              /\ Many(Workers, thread, AtCreation(d)) = 0
  BY <1>3, NotDue, ManyType
<1>5. \A P \in SUBSET InitialJobs : Items(initial_queue, P) = 0
  <2>1. Only(ShutdownJob, initial_queue)
    BY <1>0 DEF ClosedOK, Gate
  <2>2. \A P \in SUBSET InitialJobs : ShutdownJob \notin P
    BY JobSets
  <2> QED
    BY <1>0, <2>1, <2>2, ItemsType, QueueTypes DEF Only
<1>6. NothingDue
  BY <1>4, <1>5, AboveTypes DEF NothingDue, TableDue, NameDue, DatabaseDue, CreationDue, Listed
<1> QED
  BY <1>1, <1>6

LEMMA BackupExact ==
    ASSUME BackupInv, ~shutdown_triggered, main \in AfterInitial
    PROVE  Exact
<1>1. main # "jobs"
  BY DEF AfterInitial
<1> QED
  BY <1>1 DEF BackupInv, NoneLost, Exact

LEMMA BackupInvLists == BackupInv => ListsComplete
<1> SUFFICES ASSUME BackupInv, ~shutdown_triggered, NEW w \in Workers,
                    thread[w].phase \in {"data", "post_data", "end"}
             PROVE  /\ transactional_table = {t \in Readable : KindOf[t] = "innodb"}
                    /\ non_transactional_table = {t \in Readable : KindOf[t] = "myisam"}
                    /\ lock_tables_statement = non_transactional_table
  BY DEF ListsComplete
<1>1. main \in AfterInitial /\ NothingDue /\ Exact
  BY ListingOver, BackupExact
<1>2. transactional_table \subseteq Tables /\ non_transactional_table \subseteq Tables
  BY DEF BackupInv, QInv, RegistryTypes
<1>3. \A t \in Tables :
         /\ t \in transactional_table <=> t \in Readable /\ KindOf[t] = "innodb"
         /\ t \in non_transactional_table <=> t \in Readable /\ KindOf[t] = "myisam"
  BY <1>1 DEF NothingDue, Exact, TablesExact, TableExact
<1>4. Readable \subseteq Tables
  BY DEF Readable
<1>5. lock_tables_statement = non_transactional_table
  BY <1>1 DEF BackupInv, LockOK
<1> QED
  BY <1>2, <1>3, <1>4, <1>5

-----------------------------------------------------------------------------
LEMMA WorkForms ==
    ASSUME NEW j \in Work
    PROVE  \/ \E t \in Tables : \E type \in TableTypes : j = Job(type, t)
           \/ \E d \in Databases : \E type \in DatabaseTypes : j = Job(type, d)
           \/ \E d \in Databases : j = Job("CREATE_DATABASE", d)
<1>1. CASE j \in SchemaWork
  <2>1. /\ "SCHEMA" \in TableTypes /\ "SCHEMA_POST" \in DatabaseTypes
    BY DEF TableTypes, DatabaseTypes
  <2> QED
    BY <1>1, <2>1 DEF SchemaWork
<1>2. CASE j \in PostDataWork
  <2>1. /\ {"VIEW", "SEQUENCE", "TRIGGERS", "CHECKSUM"} \subseteq TableTypes
        /\ "SCHEMA_TRIGGERS" \in DatabaseTypes
    BY DEF TableTypes, DatabaseTypes
  <2> QED
    BY <1>2, <2>1 DEF PostDataWork
<1> QED
  BY <1>1, <1>2 DEF Work

LEMMA DoneOnce ==
    ASSUME BackupInv, NEW j \in Work
    PROVE  done[j] <= 1
<1>0. TypesOK /\ AtMostOnce
  BY DEF BackupInv, QInv, TypesOK
<1>1. NumbersNat
  BY <1>0, NumbersType
<1>2. Made(j) <= 1
  <2>1. CASE \E t \in Tables : \E type \in TableTypes : j = Job(type, t)
    <3>1. PICK t \in Tables : \E type \in TableTypes : j = Job(type, t)
      BY <2>1
    <3>2. PICK type \in TableTypes : j = Job(type, t)
      BY <3>1
    <3>3. Made(j) \in Nat /\ TableDue(t) \in Nat /\ Made(j) + TableDue(t) <= 1
      BY <1>0, <1>1, <3>2 DEF NumbersNat, AtMostOnce
    <3> QED
      BY <3>3
  <2>2. CASE \E d \in Databases : \E type \in DatabaseTypes : j = Job(type, d)
    <3>1. PICK d \in Databases : \E type \in DatabaseTypes : j = Job(type, d)
      BY <2>2
    <3>2. PICK type \in DatabaseTypes : j = Job(type, d)
      BY <3>1
    <3>3. Made(j) \in Nat /\ DatabaseDue(d) \in Nat /\ Made(j) + DatabaseDue(d) <= 1
      BY <1>0, <1>1, <3>2 DEF NumbersNat, AtMostOnce
    <3> QED
      BY <3>3
  <2>3. CASE \E d \in Databases : j = Job("CREATE_DATABASE", d)
    <3>1. PICK d \in Databases : j = Job("CREATE_DATABASE", d)
      BY <2>3
    <3>2. Made(j) <= One(d \in database_hash) /\ Made(j) \in Nat
      BY <1>0, <1>1, <3>1 DEF NumbersNat, AtMostOnce
    <3> QED
      BY <3>2 DEF One
  <2> QED
    BY <2>1, <2>2, <2>3, WorkForms
<1>3. /\ Pending(j) \in Nat /\ done[j] \in Nat /\ Many(Workers, thread, Doing({j})) \in Nat
  BY <1>0, MadeType, ManyType DEF MadeOK
<1>4. Made(j) = Pending(j) + Many(Workers, thread, Doing({j})) + done[j]
  BY DEF Made, Pending
<1> QED
  BY <1>2, <1>3, <1>4

(* The objects of the backup, kind by kind *)
Named(d) == request = "tables" => \E t \in Tables : DatabaseOf[t] = d
ExpectedTable(j) ==
    \E t \in Tables : \E type \in TableTypes :
        j = Job(type, t) /\ t \in Readable /\ WantedOf(t, type)
ExpectedDatabase(j) ==
    \E d \in Databases : \E type \in DatabaseTypes :
        j = Job(type, d) /\ Whole(d) /\ (type = "SCHEMA_POST" => d \in Routines)
ExpectedName(j) == \E d \in Databases : j = Job("CREATE_DATABASE", d) /\ Named(d)

LEMMA ExpectedForms ==
    \A j : j \in Expected <=> ExpectedTable(j) \/ ExpectedDatabase(j) \/ ExpectedName(j)
<1> DEFINE whole == IF request = "tables" THEN {} ELSE Databases \ unreadable
           named == IF request = "tables" THEN {DatabaseOf[t] : t \in Tables} ELSE Databases
           A == {Job("CREATE_DATABASE", d) : d \in named}
           B == {Job("SCHEMA_POST", d) : d \in whole \cap Routines}
           C == {Job("SCHEMA_TRIGGERS", d) : d \in whole}
           D == {Job("SCHEMA", t) : t \in {r \in Readable : KindOf[r] \in {"innodb", "myisam"}}}
           E == UNION {ToSet(PostDataJobs(t)) : t \in Readable}
<1>0. Expected = A \cup B \cup C \cup D \cup E
  BY DEF Expected
<1>1. \A d : d \in whole <=> d \in Databases /\ Whole(d)
  BY DEF Whole
<1>2. \A d : d \in named <=> d \in Databases /\ Named(d)
  BY ObjectsAssumption DEF Named
<1> HIDE DEF whole, named
<1>3. \A j : j \in A <=> ExpectedName(j)
  BY <1>2 DEF ExpectedName
<1>4. \A j : j \in B \cup C <=> ExpectedDatabase(j)
  <2> SUFFICES ASSUME NEW j
               PROVE  j \in B \cup C <=> ExpectedDatabase(j)
    OBVIOUS
  <2>1. j \in B <=> \E d \in Databases : j = Job("SCHEMA_POST", d) /\ Whole(d) /\ d \in Routines
    BY <1>1
  <2>2. j \in C <=> \E d \in Databases : j = Job("SCHEMA_TRIGGERS", d) /\ Whole(d)
    BY <1>1
  <2> HIDE DEF B, C
  <2> QED
    BY <2>1, <2>2 DEF ExpectedDatabase, DatabaseTypes
<1>5. \A j : j \in D \cup E <=> ExpectedTable(j)
  <2> SUFFICES ASSUME NEW j
               PROVE  j \in D \cup E <=> ExpectedTable(j)
    OBVIOUS
  <2>0. Readable \subseteq Tables /\ \A t \in Tables : KindOf[t] \in Kinds
    BY ObjectsAssumption DEF Readable
  <2>1. \A t \in Tables : KindOf[t] \in {"innodb", "myisam"} <=> WantedOf(t, "SCHEMA")
    BY <2>0 DEF WantedOf, Kinds
  <2>2. j \in D <=> \E t \in Readable : j = Job("SCHEMA", t) /\ WantedOf(t, "SCHEMA")
    BY <2>0, <2>1
  <2>3. \A t \in Tables : ToSet(PostDataJobs(t)) =
                {Job(type, t) : type \in {y \in PostDataTypes : WantedOf(t, y)}}
    BY PostDataItems
  <2>4. j \in E <=> \E t \in Readable : j \in ToSet(PostDataJobs(t))
    OBVIOUS
  <2>5. j \in E <=> \E t \in Readable : \E type \in PostDataTypes :
                       j = Job(type, t) /\ WantedOf(t, type)
    BY <2>0, <2>3, <2>4
  <2>6. TableTypes = PostDataTypes \cup {"SCHEMA"}
    BY DEF TableTypes, PostDataTypes
  <2> HIDE DEF D, E
  <2> QED
    BY <2>0, <2>2, <2>5, <2>6 DEF ExpectedTable
<1> HIDE DEF A, B, C, D, E
<1> QED
  BY <1>0, <1>3, <1>4, <1>5

(* At the end of a dump what is made is done. *)
LEMMA MadeDone ==
    ASSUME BackupInv, ~shutdown_triggered, \A w \in Workers : thread[w].phase = "end",
           NEW j \in Work
    PROVE  Made(j) = done[j]
<1>0. ControlTypes /\ RegistryTypes /\ ThreadsOK /\ ClosedOK
  BY DEF BackupInv, QInv
<1>1. PICK w : w \in Workers
  BY ObjectsAssumption
<1>2. Only(ShutdownJob, schema_queue) /\ Only(ShutdownJob, post_data_queue)
  BY <1>0, <1>1 DEF ClosedOK, Gate
<1>3. ShutdownJob \notin {j}
  BY JobSets DEF Work
<1>4. Items(schema_queue, {j}) = 0 /\ Items(post_data_queue, {j}) = 0
  BY <1>0, <1>2, <1>3, ItemsType, QueueTypes DEF Only
<1>5. Many(Workers, thread, Doing({j})) = 0
  <2>1. \A v \in Workers : thread[v].job # j
    BY <1>0 DEF ThreadsOK, Fits, Work
  <2> QED
    BY <2>1, ManyType DEF Doing
<1>6. done[j] \in Nat
  BY <1>0 DEF RegistryTypes
<1> QED
  BY <1>4, <1>5, <1>6 DEF Made

LEMMA DoneExpected ==
    ASSUME BackupInv, ~shutdown_triggered, metadata = "final", NEW j \in Work
    PROVE  done[j] = 1 <=> j \in Expected
<1>0. TypesOK /\ AtMostOnce /\ \A w \in Workers : thread[w].phase = "end"
  BY DEF BackupInv, QInv, TypesOK, FinishOK
<1>1. PICK w : w \in Workers
  BY ObjectsAssumption
<1>2. NothingDue /\ Exact
  BY <1>0, <1>1, ListingOver, BackupExact
<1>3. Made(j) = done[j]
  BY <1>0, MadeDone
<1>4. CASE \E t \in Tables : \E type \in TableTypes : j = Job(type, t)
  <2>1. PICK t \in Tables : \E type \in TableTypes : j = Job(type, t)
    BY <1>4
  <2>2. PICK type \in TableTypes : j = Job(type, t)
    BY <2>1
  <2>3. Made(j) = IF WantedOf(t, type) /\ t \in Readable THEN 1 - 0 ELSE 0
    BY <1>2, <2>2 DEF NothingDue, Exact, TablesExact, TableExact
  <2>4. ExpectedTable(j) <=> WantedOf(t, type) /\ t \in Readable
    BY <2>2, JobNames DEF ExpectedTable
  <2>5. ~ExpectedDatabase(j) /\ ~ExpectedName(j)
    BY <2>2, JobNames, TypeNames DEF ExpectedDatabase, ExpectedName
  <2> QED
    BY <1>3, <2>3, <2>4, <2>5, ExpectedForms
<1>5. CASE \E d \in Databases : \E type \in DatabaseTypes : j = Job(type, d)
  <2>1. PICK d \in Databases : \E type \in DatabaseTypes : j = Job(type, d)
    BY <1>5
  <2>2. PICK type \in DatabaseTypes : j = Job(type, d)
    BY <2>1
  <2>3. Made(j) = IF Whole(d) /\ (type = "SCHEMA_POST" => d \in Routines) THEN 1 - 0 ELSE 0
    BY <1>2, <2>2 DEF NothingDue, Exact, DatabasesExact, DatabaseExact
  <2>4. ExpectedDatabase(j) <=> Whole(d) /\ (type = "SCHEMA_POST" => d \in Routines)
    BY <2>2, JobNames DEF ExpectedDatabase
  <2>5. ~ExpectedTable(j) /\ ~ExpectedName(j)
    BY <2>2, JobNames, TypeNames DEF ExpectedTable, ExpectedName
  <2> QED
    BY <1>3, <2>3, <2>4, <2>5, ExpectedForms
<1>6. CASE \E d \in Databases : j = Job("CREATE_DATABASE", d)
  <2>1. PICK d \in Databases : j = Job("CREATE_DATABASE", d)
    BY <1>6
  <2>2. d \in database_hash <=> Named(d)
    <3>1. request \in {"tables", "databases", "all"}
      BY <1>0 DEF TypesOK, RegistryTypes
    <3>2. NamesExact /\ database_hash \subseteq Databases
      BY <1>0, <1>2 DEF Exact, TypesOK, RegistryTypes
    <3> QED
      BY <1>2, <3>1, <3>2 DEF NamesExact, NothingDue, Named
  <2>3. d \in database_hash => Made(j) = 1
    BY <1>2, <2>1 DEF Exact, NamesExact
  <2>4. d \notin database_hash => Made(j) = 0
    <3>1. Made(j) \in Nat /\ Made(j) <= One(d \in database_hash)
      BY <1>0, <2>1, NumbersType DEF NumbersNat, AtMostOnce
    <3> QED
      BY <3>1 DEF One
  <2>5. ExpectedName(j) <=> Named(d)
    BY <2>1, JobNames DEF ExpectedName
  <2>6. ~ExpectedTable(j) /\ ~ExpectedDatabase(j)
    BY <2>1, JobNames, TypeNames DEF ExpectedTable, ExpectedDatabase
  <2> QED
    BY <1>3, <2>2, <2>3, <2>4, <2>5, <2>6, ExpectedForms
<1> QED
  BY <1>4, <1>5, <1>6, WorkForms

LEMMA BackupInvComplete == BackupInv => BackupComplete
<1> SUFFICES ASSUME BackupInv
             PROVE  BackupComplete
  OBVIOUS
<1>1. \A j \in Work : done[j] <= 1
  BY DoneOnce
<1>2. ASSUME metadata = "final", ~shutdown_triggered
      PROVE  {j \in Work : done[j] = 1} = Expected
  <2>1. \A j \in Work : done[j] = 1 <=> j \in Expected
    BY <1>2, DoneExpected
  <2>2. \A j \in Expected : j \in Work
    BY ExpectedForms, WorkNames DEF ExpectedTable, ExpectedDatabase, ExpectedName
  <2> QED
    BY <2>1, <2>2
<1> QED
  BY <1>1, <1>2 DEF BackupComplete

(* When the first worker starts on the data the lists of transactional and *)
(* other tables and the LOCK TABLES statement are complete: the main       *)
(* thread lets nobody into the data before every worker has left           *)
(* initial_queue, and a worker leaves it only when no table is to come.    *)
THEOREM ListsReady == Spec => []ListsComplete
  BY BackupInductive, BackupInvLists, PTL

(* No schema or post-data object is written twice, and metadata.partial is *)
(* renamed only when each object of the databases and tables that can be   *)
(* read has been written, whatever the interleaving of the listing jobs.   *)
THEOREM BackupWhole == Spec => []BackupComplete
  BY BackupInductive, BackupInvComplete, PTL
=============================================================================
