----------------------------- MODULE DumpPhases -----------------------------
(***************************************************************************)
(* How the objects of a backup are discovered and turned into jobs.  The   *)
(* main thread (start_dump) queues one or more listing jobs, workers list  *)
(* databases and tables from them, each table becomes a JOB_TABLE, and a   *)
(* JOB_TABLE puts schema, post-data and data work where later phases find  *)
(* it.  database_counter tells the main thread when the last listing job   *)
(* is over; JOB_SHUTDOWN jobs behind all others end the initial, schema    *)
(* and post_data phases of each worker.                                    *)
(*                                                                         *)
(* The locks and snapshots between the phases are in ConsistentSnapshot    *)
(* and the data phase is in ChunkBuilder; here a worker only passes        *)
(* through it.  Filters (regex, skip lists, engines) are left out: Tables  *)
(* are the tables that pass them.  Objects that are not filtered keep      *)
(* their schema, data and triggers, and --no-trx-tables is given: with     *)
(* --trx-tables the "myisam" tables would be listed as transactional.      *)
(***************************************************************************)
EXTENDS Integers, FiniteSets, SequencesExt

CONSTANTS
    Workers,    \* the worker threads, num_threads of them
    Databases,  \* the databases of the server
    Tables,     \* their tables, views and sequences
    DatabaseOf, \* the database of each table
    KindOf,     \* "innodb", "myisam", "view" or "sequence"
    Routines    \* databases elected by determine_if_schema_is_elected_to_dump_post

Kinds == {"innodb", "myisam", "view", "sequence"}

ASSUME ObjectsAssumption ==
    /\ IsFiniteSet(Workers) /\ Workers # {}
    /\ IsFiniteSet(Databases) /\ IsFiniteSet(Tables)
    /\ DatabaseOf \in [Tables -> Databases]
    /\ KindOf \in [Tables -> Kinds]
    /\ Routines \subseteq Databases

VARIABLES
    request,     \* --tables-list, --database or neither
    main,        \* where start_dump is
    database_counter,
    initial_queue, schema_queue, post_data_queue,
    tokens,      \* source_and_replica_status_queue, db_ready,
                 \* initial_completed_queue and ready_non_transactional_queue
    database_hash, \* the databases get_database has created
    transactional_table, non_transactional_table,
    lock_tables_statement, \* the tables in conf->lock_tables_statement
    unreadable,  \* databases mysql_select_db failed on
    thread,      \* phase of each worker, its job and what is left to list
    done,        \* how often each schema and post-data job was processed
    metadata,    \* "partial" until it is renamed
    shutdown_triggered

queues == <<initial_queue, schema_queue, post_data_queue>>
lists == <<transactional_table, non_transactional_table, lock_tables_statement>>
vars == <<request, main, database_counter, queues, tokens, database_hash, lists,
          unreadable, thread, done, metadata, shutdown_triggered>>

N == Cardinality(Workers)

Job(type, object) == [type |-> type, object |-> object]
ShutdownJob == Job("SHUTDOWN", "none")
NoJob == Job("none", "none")
Shutdowns == [n \in 1 .. N |-> ShutdownJob]

ListingTypes == {"DUMP_ALL_DATABASES", "DUMP_TABLE_LIST", "DUMP_DATABASE"}
TablesOf(d) == {t \in Tables : DatabaseOf[t] = d}

(* The jobs of schema_queue and of post_data_queue.                        *)
SchemaWork == {Job("CREATE_DATABASE", d) : d \in Databases}
         \cup {Job("SCHEMA_POST", d) : d \in Databases}
         \cup {Job("SCHEMA", t) : t \in Tables}
PostDataWork == {Job(type, t) : type \in {"VIEW", "SEQUENCE", "TRIGGERS", "CHECKSUM"},
                                t \in Tables}
         \cup {Job("SCHEMA_TRIGGERS", d) : d \in Databases}
Work == SchemaWork \cup PostDataWork

InitialJobs == {Job("WRITE_SOURCE_AND_REPLICA_STATUS", "none"),
                Job("DUMP_ALL_DATABASES", "none"), Job("DUMP_TABLE_LIST", "none")}
         \cup {Job("DUMP_DATABASE", d) : d \in Databases}
         \cup {Job("TABLE", t) : t \in Tables}

Phases == {"initial", "schema", "waiting", "data", "post_data", "end"}

Init ==
    /\ request \in {"tables", "databases", "all"}
    /\ main = "jobs"
    /\ database_counter = 0
    /\ initial_queue = <<>> /\ schema_queue = <<>> /\ post_data_queue = <<>>
    /\ tokens = [status |-> 0, db_ready |-> 0, initial_completed |-> 0,
                 ready_non_transactional |-> 0]
    /\ database_hash = {}
    /\ transactional_table = {} /\ non_transactional_table = {}
    /\ lock_tables_statement = {}
    /\ unreadable = {}
    /\ thread = [w \in Workers |-> [phase |-> "initial", job |-> NoJob, todo |-> {}]]
    /\ done = [j \in Work |-> 0]
    /\ metadata = "partial"
    /\ shutdown_triggered = FALSE

-----------------------------------------------------------------------------
(* Mutant: every caller of get_database creates the job.                   *)
CreateDatabaseJobsAlways(ds) ==
    SetToSeq({Job("CREATE_DATABASE", d) : d \in ds})

(* get_database: the first caller creates the database and its job.        *)
CreateDatabaseJobs(ds) ==
    SetToSeq({Job("CREATE_DATABASE", d) : d \in ds \ database_hash})

(* The listing jobs start_dump creates for each kind of request.           *)
FirstJobs ==
    CASE request = "tables" -> {Job("DUMP_TABLE_LIST", "none")}
      [] request = "databases" -> {Job("DUMP_DATABASE", d) : d \in Databases}
      [] request = "all" -> {Job("DUMP_ALL_DATABASES", "none")}

(* Begin Job Creation ... End Job Creation.  No worker runs yet.           *)
CreateJobs ==
    LET named == IF request = "databases" THEN Databases ELSE {}
    IN  /\ main = "jobs"
        /\ \E listing \in SetToSeqs(FirstJobs) :
              initial_queue' = <<Job("WRITE_SOURCE_AND_REPLICA_STATUS", "none")>>
                               \o listing
        /\ database_counter' = Cardinality(FirstJobs)
        /\ schema_queue' = CreateDatabaseJobs(named)
        /\ database_hash' = named
        /\ main' = "status"
        /\ UNCHANGED <<request, post_data_queue, tokens, lists, unreadable, thread,
                       done, metadata, shutdown_triggered>>

AwaitStatus ==
    /\ main = "status"
    /\ tokens.status >= 1
    /\ tokens' = [tokens EXCEPT !.status = @ - 1]
    /\ main' = "db_ready"
    /\ UNCHANGED <<request, database_counter, queues, database_hash, lists,
                   unreadable, thread, done, metadata, shutdown_triggered>>

(* Mutant: the main thread does not wait for db_ready.                     *)
ShutdownInitialEager ==
    /\ main = "db_ready"
    /\ initial_queue' = initial_queue \o Shutdowns
    /\ main' = "completed"
    /\ UNCHANGED <<request, database_counter, schema_queue, post_data_queue, tokens,
                   database_hash, lists, unreadable, thread, done, metadata,
                   shutdown_triggered>>

(* "At this point all schema jobs are completed": one JOB_SHUTDOWN per     *)
(* worker goes to initial_queue.                                           *)
ShutdownInitial ==
    /\ main = "db_ready"
    /\ tokens.db_ready >= 1
    /\ tokens' = [tokens EXCEPT !.db_ready = @ - 1]
    /\ initial_queue' = initial_queue \o Shutdowns
    /\ main' = "completed"
    /\ UNCHANGED <<request, database_counter, schema_queue, post_data_queue,
                   database_hash, lists, unreadable, thread, done, metadata,
                   shutdown_triggered>>

(* Mutant: the first worker that leaves initial_queue starts the data.     *)
StartDataEager ==
    /\ main = "completed"
    /\ tokens.initial_completed >= 1
    /\ tokens' = [tokens EXCEPT !.initial_completed = @ - 1,
                                !.ready_non_transactional = @ + N]
    /\ schema_queue' = schema_queue \o Shutdowns
    /\ lock_tables_statement' = non_transactional_table
    /\ main' = "post_data"
    /\ UNCHANGED <<request, database_counter, initial_queue, post_data_queue,
                   database_hash, transactional_table, non_transactional_table,
                   unreadable, thread, done, metadata, shutdown_triggered>>

(* All workers have left initial_queue: close schema_queue,                *)
(* build_lock_tables_statement, and let the workers go on to the data.     *)
StartData ==
    /\ main = "completed"
    /\ tokens.initial_completed >= N
    /\ tokens' = [tokens EXCEPT !.initial_completed = @ - N,
                                !.ready_non_transactional = @ + N]
    /\ schema_queue' = schema_queue \o Shutdowns
    /\ lock_tables_statement' = non_transactional_table
    /\ main' = "post_data"
    /\ UNCHANGED <<request, database_counter, initial_queue, post_data_queue,
                   database_hash, transactional_table, non_transactional_table,
                   unreadable, thread, done, metadata, shutdown_triggered>>

ShutdownPostData ==
    /\ main = "post_data"
    /\ post_data_queue' = post_data_queue \o Shutdowns
    /\ main' = "join"
    /\ UNCHANGED <<request, database_counter, initial_queue, schema_queue, tokens,
                   database_hash, lists, unreadable, thread, done, metadata,
                   shutdown_triggered>>

(* wait_working_thread_to_finish, then the metadata file is completed and  *)
(* renamed.                                                                *)
Finish ==
    /\ main = "join"
    /\ \A w \in Workers : thread[w].phase = "end"
    /\ metadata' = "final"
    /\ main' = "done"
    /\ UNCHANGED <<request, database_counter, queues, tokens, database_hash, lists,
                   unreadable, thread, done, shutdown_triggered>>

Main == \/ CreateJobs \/ AwaitStatus \/ ShutdownInitial \/ StartData
        \/ ShutdownPostData \/ Finish

-----------------------------------------------------------------------------
(* The workers run once the jobs are created (start_working_thread).       *)
Idle(w, phase) ==
    /\ main # "jobs"
    /\ thread[w].phase = phase
    /\ thread[w].job = NoJob

(* process_queue leaves its loop at a JOB_SHUTDOWN, or drops the job it    *)
(* has popped after a shutdown was triggered.                              *)
Leaves(j) == j.type = "SHUTDOWN" \/ shutdown_triggered

(* What the handler of a listing job goes through row by row.              *)
Rows(j) == CASE j.type = "DUMP_ALL_DATABASES" -> Databases
             [] j.type = "DUMP_TABLE_LIST" -> Tables
             [] j.type = "DUMP_DATABASE" -> TablesOf(j.object)
             [] OTHER -> {}

Takes(w, j) == thread' = [thread EXCEPT ![w].job = j, ![w].todo = Rows(j)]

Enters(w, phase) == thread' = [thread EXCEPT ![w].phase = phase]

TakeInitialJob(w) ==
    /\ Idle(w, "initial") /\ initial_queue # <<>>
    /\ ~Leaves(Head(initial_queue))
    /\ Takes(w, Head(initial_queue))
    /\ initial_queue' = Tail(initial_queue)
    /\ UNCHANGED <<request, main, database_counter, schema_queue, post_data_queue,
                   tokens, database_hash, lists, unreadable, done, metadata,
                   shutdown_triggered>>

(* Mutant: the worker leaves initial_queue without telling.                *)
EndInitialSilent(w) ==
    /\ Idle(w, "initial") /\ initial_queue # <<>>
    /\ Leaves(Head(initial_queue))
    /\ initial_queue' = Tail(initial_queue)
    /\ Enters(w, "schema")
    /\ UNCHANGED <<request, main, database_counter, schema_queue, post_data_queue,
                   tokens, database_hash, lists, unreadable, done, metadata,
                   shutdown_triggered>>

(* The worker leaves initial_queue and tells the main thread.              *)
EndInitial(w) ==
    /\ Idle(w, "initial") /\ initial_queue # <<>>
    /\ Leaves(Head(initial_queue))
    /\ initial_queue' = Tail(initial_queue)
    /\ tokens' = [tokens EXCEPT !.initial_completed = @ + 1]
    /\ Enters(w, "schema")
    /\ UNCHANGED <<request, main, database_counter, schema_queue, post_data_queue,
                   database_hash, lists, unreadable, done, metadata,
                   shutdown_triggered>>

TakeSchemaJob(w) ==
    /\ Idle(w, "schema") /\ schema_queue # <<>>
    /\ ~Leaves(Head(schema_queue))
    /\ Takes(w, Head(schema_queue))
    /\ schema_queue' = Tail(schema_queue)
    /\ UNCHANGED <<request, main, database_counter, initial_queue, post_data_queue,
                   tokens, database_hash, lists, unreadable, done, metadata,
                   shutdown_triggered>>

EndSchema(w) ==
    /\ Idle(w, "schema") /\ schema_queue # <<>>
    /\ Leaves(Head(schema_queue))
    /\ schema_queue' = Tail(schema_queue)
    /\ Enters(w, "waiting")
    /\ UNCHANGED <<request, main, database_counter, initial_queue, post_data_queue,
                   tokens, database_hash, lists, unreadable, done, metadata,
                   shutdown_triggered>>

(* The pop of ready_non_transactional_queue: from here on this worker      *)
(* locks tables and asks the chunk builder for chunks of the listed ones.  *)
BeginData(w) ==
    /\ Idle(w, "waiting")
    /\ tokens.ready_non_transactional >= 1
    /\ tokens' = [tokens EXCEPT !.ready_non_transactional = @ - 1]
    /\ Enters(w, "data")
    /\ UNCHANGED <<request, main, database_counter, queues, database_hash, lists,
                   unreadable, done, metadata, shutdown_triggered>>

EndData(w) ==
    /\ Idle(w, "data")
    /\ Enters(w, "post_data")
    /\ UNCHANGED <<request, main, database_counter, queues, tokens, database_hash,
                   lists, unreadable, done, metadata, shutdown_triggered>>

TakePostDataJob(w) ==
    /\ Idle(w, "post_data") /\ post_data_queue # <<>>
    /\ ~Leaves(Head(post_data_queue))
    /\ Takes(w, Head(post_data_queue))
    /\ post_data_queue' = Tail(post_data_queue)
    /\ UNCHANGED <<request, main, database_counter, initial_queue, schema_queue,
                   tokens, database_hash, lists, unreadable, done, metadata,
                   shutdown_triggered>>

EndPostData(w) ==
    /\ Idle(w, "post_data") /\ post_data_queue # <<>>
    /\ Leaves(Head(post_data_queue))
    /\ post_data_queue' = Tail(post_data_queue)
    /\ Enters(w, "end")
    /\ UNCHANGED <<request, main, database_counter, initial_queue, schema_queue,
                   tokens, database_hash, lists, unreadable, done, metadata,
                   shutdown_triggered>>

-----------------------------------------------------------------------------
Runs(w, type) == thread[w].job.type = type

Ends(w) == thread' = [thread EXCEPT ![w].job = NoJob, ![w].todo = {}]

(* g_atomic_int_dec_and_test(&database_counter)                            *)
CountDown ==
    /\ database_counter' = database_counter - 1
    /\ tokens' = IF database_counter = 1
                 THEN [tokens EXCEPT !.db_ready = @ + 1] ELSE tokens

(* JOB_WRITE_SOURCE_AND_REPLICA_STATUS *)
WriteStatus(w) ==
    /\ Runs(w, "WRITE_SOURCE_AND_REPLICA_STATUS")
    /\ tokens' = [tokens EXCEPT !.status = @ + 1]
    /\ Ends(w)
    /\ UNCHANGED <<request, main, database_counter, queues, database_hash, lists,
                   unreadable, done, metadata, shutdown_triggered>>

(* thd_JOB_DUMP_ALL_DATABASES, one row: get_database and                   *)
(* create_job_to_dump_database, which raises the counter.                  *)
ListDatabase(w, d) ==
    /\ Runs(w, "DUMP_ALL_DATABASES") /\ d \in thread[w].todo
    /\ schema_queue' = schema_queue \o CreateDatabaseJobs({d})
    /\ database_hash' = database_hash \cup {d}
    /\ database_counter' = database_counter + 1
    /\ initial_queue' = Append(initial_queue, Job("DUMP_DATABASE", d))
    /\ thread' = [thread EXCEPT ![w].todo = @ \ {d}]
    /\ UNCHANGED <<request, main, post_data_queue, tokens, lists, unreadable, done,
                   metadata, shutdown_triggered>>

(* dump_database_thread, one row: create_job_to_dump_table.  From a list   *)
(* of tables (get_table_info_to_process_from_list) the database is created *)
(* here too.                                                               *)
ListTable(w, t) ==
    /\ Runs(w, "DUMP_DATABASE") \/ Runs(w, "DUMP_TABLE_LIST")
    /\ t \in thread[w].todo
    /\ schema_queue' = schema_queue \o CreateDatabaseJobs({DatabaseOf[t]})
    /\ database_hash' = database_hash \cup {DatabaseOf[t]}
    /\ initial_queue' = Append(initial_queue, Job("TABLE", t))
    /\ thread' = [thread EXCEPT ![w].todo = @ \ {t}]
    /\ UNCHANGED <<request, main, database_counter, post_data_queue, tokens, lists,
                   unreadable, done, metadata, shutdown_triggered>>

(* The rows are over.  For a database its routines and triggers are        *)
(* queued; then database_counter goes down.                                *)
EndListing(w) ==
    LET j == thread[w].job
    IN  /\ j.type \in ListingTypes /\ thread[w].todo = {}
        /\ schema_queue' = IF j.type = "DUMP_DATABASE" /\ j.object \in Routines
                           THEN Append(schema_queue, Job("SCHEMA_POST", j.object))
                           ELSE schema_queue
        /\ post_data_queue' = IF j.type = "DUMP_DATABASE"
                              THEN Append(post_data_queue, Job("SCHEMA_TRIGGERS", j.object))
                              ELSE post_data_queue
        /\ CountDown
        /\ Ends(w)
        /\ UNCHANGED <<request, main, initial_queue, database_hash, lists, unreadable,
                       done, metadata, shutdown_triggered>>

(* mysql_select_db fails: dump_database_thread returns with nothing        *)
(* listed, and the counter goes down all the same.                         *)
SelectDatabaseFails(w) ==
    LET j == thread[w].job
    IN  /\ j.type = "DUMP_DATABASE" /\ thread[w].todo = TablesOf(j.object)
        /\ unreadable' = unreadable \cup {j.object}
        /\ CountDown
        /\ Ends(w)
        /\ UNCHANGED <<request, main, queues, database_hash, lists, done, metadata,
                       shutdown_triggered>>

(* new_table_to_dump: the post-data jobs of a table of each kind.  The     *)
(* triggers of a table are a job of their own only where the database's    *)
(* triggers are not dumped at once, that is, with a list of tables.        *)
PostDataJobs(t) ==
    CASE KindOf[t] = "sequence" -> <<Job("SEQUENCE", t)>>
      [] KindOf[t] = "view" -> <<Job("VIEW", t)>>
      [] OTHER -> (IF request = "tables" THEN <<Job("TRIGGERS", t)>> ELSE <<>>)
                  \o <<Job("CHECKSUM", t)>>

(* thd_JOB_TABLE *)
NewTable(w) ==
    LET t == thread[w].job.object
    IN  /\ Runs(w, "TABLE")
        /\ schema_queue' = IF KindOf[t] \in {"innodb", "myisam"}
                           THEN Append(schema_queue, Job("SCHEMA", t)) ELSE schema_queue
        /\ post_data_queue' = post_data_queue \o PostDataJobs(t)
        /\ transactional_table' = transactional_table
                \cup (IF KindOf[t] = "innodb" THEN {t} ELSE {})
        /\ non_transactional_table' = non_transactional_table
                \cup (IF KindOf[t] = "myisam" THEN {t} ELSE {})
        /\ Ends(w)
        /\ UNCHANGED <<request, main, database_counter, initial_queue, tokens,
                       database_hash, lock_tables_statement, unreadable, done,
                       metadata, shutdown_triggered>>

(* process_job: a schema or post-data object is written.                   *)
ProcessJob(w) ==
    /\ thread[w].job \in Work
    /\ done' = [done EXCEPT ![thread[w].job] = @ + 1]
    /\ Ends(w)
    /\ UNCHANGED <<request, main, database_counter, queues, tokens, database_hash,
                   lists, unreadable, metadata, shutdown_triggered>>

Worker(w) ==
    \/ TakeInitialJob(w) \/ EndInitial(w) \/ TakeSchemaJob(w) \/ EndSchema(w)
    \/ BeginData(w) \/ EndData(w) \/ TakePostDataJob(w) \/ EndPostData(w)
    \/ WriteStatus(w) \/ (\E d \in Databases : ListDatabase(w, d))
    \/ (\E t \in Tables : ListTable(w, t)) \/ EndListing(w)
    \/ SelectDatabaseFails(w) \/ NewTable(w) \/ ProcessJob(w)

(* sig_triggered: the user asked to stop.                                  *)
Shutdown ==
    /\ ~shutdown_triggered
    /\ shutdown_triggered' = TRUE
    /\ UNCHANGED <<request, main, database_counter, queues, tokens, database_hash,
                   lists, unreadable, thread, done, metadata>>

Ended == main = "done" /\ UNCHANGED vars

Next == Main \/ (\E w \in Workers : Worker(w)) \/ Shutdown \/ Ended

Spec == Init /\ [][Next]_vars

(* Threads are scheduled fairly; a signal need not come.                   *)
FairSpec == Spec /\ WF_vars(Main) /\ \A w \in Workers : WF_vars(Worker(w))

-----------------------------------------------------------------------------
ThreadRecord == [phase : Phases, job : InitialJobs \cup Work \cup {NoJob},
                 todo : SUBSET (Databases \cup Tables)]

(* One type invariant: the counter, which is a guint, stays a natural      *)
(* number and every queue holds only jobs its process function knows (any  *)
(* other is "Something very bad happened!").                               *)
TypeOK ==
    /\ request \in {"tables", "databases", "all"}
    /\ main \in {"jobs", "status", "db_ready", "completed", "post_data", "join", "done"}
    /\ database_counter \in Nat
    /\ initial_queue \in Seq(InitialJobs \cup {ShutdownJob})
    /\ schema_queue \in Seq(SchemaWork \cup {ShutdownJob})
    /\ post_data_queue \in Seq(PostDataWork \cup {ShutdownJob})
    /\ tokens \in [status : 0 .. 1, db_ready : 0 .. 1, initial_completed : 0 .. N,
                   ready_non_transactional : 0 .. N]
    /\ database_hash \subseteq Databases /\ unreadable \subseteq Databases
    /\ transactional_table \subseteq Tables /\ non_transactional_table \subseteq Tables
    /\ lock_tables_statement \subseteq Tables
    /\ thread \in [Workers -> ThreadRecord]
    /\ \A w \in Workers : thread[w].todo \subseteq Rows(thread[w].job)
    /\ done \in [Work -> Nat]
    /\ metadata \in {"partial", "final"}
    /\ shutdown_triggered \in BOOLEAN

(* database_counter is the number of listing jobs that are queued or being *)
(* processed, although a handler raises it while others lower it; so       *)
(* db_ready is pushed once, and only when nothing is left to be listed.    *)
ListingCounted ==
    LET queued == {n \in DOMAIN initial_queue : initial_queue[n].type \in ListingTypes}
        taken == {w \in Workers : thread[w].job.type \in ListingTypes}
    IN  ~shutdown_triggered =>
          /\ database_counter = Cardinality(queued) + Cardinality(taken)
          /\ tokens.db_ready = 1 \/ main \in {"completed", "post_data", "join", "done"}
                => database_counter = 0

(* A JOB_SHUTDOWN is always behind all the work of its queue: whatever is  *)
(* pushed behind it, by any thread, would never be processed.              *)
NothingBehindShutdown ==
    \A q \in {initial_queue, schema_queue, post_data_queue} :
        \A m, n \in DOMAIN q :
            m < n /\ q[m] = ShutdownJob => q[n] = ShutdownJob

(* Both: no job is lost to a wrong count or to a queue that was shut down. *)
QueuesSound == ListingCounted /\ NothingBehindShutdown

Readable == {t \in Tables : request = "tables" \/ DatabaseOf[t] \notin unreadable}

(* When the first worker starts on the data every table has been           *)
(* classified: the chunk builder's lists and the LOCK TABLES statement,    *)
(* which are read without the mutex of the writers, are complete.          *)
ListsComplete ==
    (\E w \in Workers : thread[w].phase \in {"data", "post_data", "end"})
        /\ ~shutdown_triggered =>
        /\ transactional_table = {t \in Readable : KindOf[t] = "innodb"}
        /\ non_transactional_table = {t \in Readable : KindOf[t] = "myisam"}
        /\ lock_tables_statement = non_transactional_table

(* The schema and post-data objects the backup must have.                  *)
Expected ==
    LET whole == IF request = "tables" THEN {} ELSE Databases \ unreadable
        named == IF request = "tables" THEN {DatabaseOf[t] : t \in Tables} ELSE Databases
    IN  {Job("CREATE_DATABASE", d) : d \in named}
          \cup {Job("SCHEMA_POST", d) : d \in whole \cap Routines}
          \cup {Job("SCHEMA_TRIGGERS", d) : d \in whole}
          \cup {Job("SCHEMA", t) : t \in {r \in Readable : KindOf[r] \in {"innodb", "myisam"}}}
          \cup UNION {ToSet(PostDataJobs(t)) : t \in Readable}

(* No object is written twice, and metadata.partial becomes metadata only  *)
(* when each object of the backup has been written.                        *)
BackupComplete ==
    /\ \A j \in Work : done[j] <= 1
    /\ metadata = "final" /\ ~shutdown_triggered =>
         {j \in Work : done[j] = 1} = Expected

(* What a signal can do: workers leave initial_queue and drop the jobs     *)
(* they have taken, so the main thread waits for the source status or for  *)
(* the end of the listing, which nobody will send.                         *)
AnswerLost ==
    /\ shutdown_triggered
    /\ \/ main = "status" /\ tokens.status = 0
       \/ main = "db_ready" /\ tokens.db_ready = 0 /\ database_counter > 0
    /\ \A w \in Workers : thread[w].phase = "initial" =>
                            thread[w].job = NoJob /\ initial_queue = <<>>

(* start_dump ends: every listing job, failed or not, is counted and every *)
(* worker gets one JOB_SHUTDOWN of each queue.  With a signal it ends too, *)
(* unless an answer is lost to it.                                         *)
Termination == <>(main = "done" \/ AnswerLost)
=============================================================================
