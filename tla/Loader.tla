------------------------------- MODULE Loader -------------------------------
(***************************************************************************)
(* myloader: how the files of a dump become tables, rows and indexes.      *)
(*                                                                         *)
(*   file type workers  read the file names, register databases, tables    *)
(*                      and data jobs            (process_file_type_worker)*)
(*   schema workers     create databases, sequences and tables             *)
(*                                               (worker_schema_thread)    *)
(*   dispatcher         hands one data job to each request of a loader     *)
(*                                               (worker_loader_main_thread)*)
(*   loaders            restore one data file at a time  (loader_thread)   *)
(*   index workers      add the indexes of the tables that have their data *)
(*                                               (worker_index_thread)     *)
(*   main               joins them in order      (myloader.c, main)        *)
(*                                                                         *)
(* A step is what a thread does between two points at which another thread *)
(* can see or change what it uses: under one mutex, or from one queue      *)
(* operation to the next. The lists table_list and loading_table_list are  *)
(* rebuilt by every schema worker that ends, so the only readers, which    *)
(* run after the last of them has ended, find every table in both: the     *)
(* model keeps TableOrder instead. The server is modelled by the databases *)
(* and tables it has and the data files whose rows each table holds.       *)
(* --resume, --drop-database, --no-schema, views and the objects of the    *)
(* post-loading phase are not part of this module, nor is a signal.        *)
(***************************************************************************)
EXTENDS Naturals, Sequences, FiniteSets

CONSTANTS
    Databases,     \* the databases of the dump
    CreateFiles,   \* those that have a schema-create file
    Tables,        \* the db_tables of the dump, sequences included
    SequenceObjects, \* the ones that are sequences
    DbOf,          \* the database of a table
    SchemaFiles,   \* the tables that have a schema file
    Parts,         \* how many data files a table has
    Indexed,       \* the tables whose indexes are added after the data
    TableOrder,    \* the order of loading_table_list
    FileWorkers, SchemaWorkers, Loaders, IndexWorkers,
    MaxThreads,    \* dbt->max_threads
    RetryCount,    \* --retry-count
    DropFailures,  \* bound: how many DROP TABLE statements may time out
    Modes          \* the combinations of options and tables to consider

ASSUME LoaderAssumption ==
    /\ CreateFiles \subseteq Databases
    /\ DbOf \in [Tables -> Databases]
    /\ SequenceObjects \subseteq Tables /\ SchemaFiles \subseteq Tables \ SequenceObjects
    /\ Indexed \subseteq SchemaFiles
    /\ Parts \in [Tables -> Nat] /\ \A t \in SequenceObjects : Parts[t] = 0
    /\ TableOrder \in Seq(Tables) /\ Len(TableOrder) = Cardinality(Tables)
    /\ {TableOrder[i] : i \in 1..Len(TableOrder)} = Tables
    /\ MaxThreads \in Nat \ {0} /\ RetryCount \in Nat /\ DropFailures \in Nat
    /\ Modes \subseteq [purge_mode : {"FAIL", "NONE", "DROP", "TRUNCATE", "DELETE", "SKIP"},
                        target_db : BOOLEAN, all_tables : BOOLEAN,
                        tables : SUBSET Tables, existing : SUBSET Tables]

\* The tables of a dump are those its files name: a table without a schema
\* file has a data file.
ASSUME FilesAssumption ==
    \A m \in Modes : \A t \in m.tables : t \in SchemaFiles \cup SequenceObjects \/ Parts[t] > 0

\* A dump has finitely many tables and databases and a restore finitely many
\* threads, among them a file type worker; "none", "SHUTDOWN" and
\* "PROCESS_ENDED" stand for what is no table.
ASSUME FiniteAssumption ==
    /\ IsFiniteSet(Databases) /\ IsFiniteSet(FileWorkers) /\ IsFiniteSet(SchemaWorkers)
    /\ IsFiniteSet(Loaders) /\ IsFiniteSet(IndexWorkers) /\ FileWorkers # {}
    /\ {"none", "SHUTDOWN", "PROCESS_ENDED"} \cap Tables = {}

VARIABLES
    options,          \* purge_mode, has_been_defined_a_target_database(),
                      \* optimize_keys_all_tables, the tables that were
                      \* dumped and the ones the server has beforehand
    files,            \* the file names not yet taken by a file type worker
    file_worker,      \* where each file type worker is, and with which file
    files_ended,      \* wait_file_type_to_complete has sent SCHEMA_PROCESS_ENDED
    database,         \* struct database: is it CREATED, and the jobs that wait for it
    table_hash,       \* the tables that have a struct db_table
    dbt,              \* struct db_table of each table
    ready_table_queue,
    schema_job_queue, retry_queue, schema_worker,
    single_threaded_create_table, \* is that mutex locked
    data_control_queue, threads_waiting, all_jobs_are_enqueued, dispatcher,
    data_job_queue, loader,
    index_queue, index_worker,
    main,             \* what main is waiting for
    server,           \* databases, tables, rows and indexes of the target server
    always_fatal,     \* g_log_set_always_fatal has been called
    drops_failed,     \* DROP TABLE statements that timed out so far
    exited            \* the process has called exit or abort

fileVars == <<files, file_worker, files_ended>>
tableVars == <<table_hash, dbt, ready_table_queue>>
schemaVars == <<schema_job_queue, retry_queue, schema_worker, single_threaded_create_table>>
dispatchVars == <<data_control_queue, threads_waiting, all_jobs_are_enqueued, dispatcher>>
loaderVars == <<data_job_queue, loader>>
indexVars == <<index_queue, index_worker>>
serverVars == <<server, always_fatal, drops_failed, exited>>
vars == <<options, fileVars, database, tableVars, schemaVars, dispatchVars, loaderVars,
          indexVars, main, serverVars>>

----------------------------------------------------------------------------
(* Data *)

\* The files of the dump: part is 0 for a file that holds no rows.
File(kind, of, part) == [kind |-> kind, of |-> of, part |-> part]
DumpFiles(T) ==
    {File("database", d, 0) : d \in CreateFiles}
    \cup {File("table", t, 0) : t \in T \cap SchemaFiles}
    \cup {File("sequence", t, 0) : t \in T \cap SequenceObjects}
    \cup UNION {{File("data", t, p) : p \in 1..Parts[t]} : t \in T}

\* enum schema_status; DATA_DONE never outlives the critical section that sets it.
schema_status == {"NOT_FOUND", "NOT_CREATED", "CREATING", "CREATED", "INDEX_ENQUEUED", "ALL_DONE"}
BeforeCreated == {"NOT_FOUND", "NOT_CREATED", "CREATING"}
DataDone == {"INDEX_ENQUEUED", "ALL_DONE"}

\* enum schema_job_type, in its order.
JobRank == [CREATE |-> 0, SEQUENCE |-> 1, TABLE |-> 2, PROCESS_ENDED |-> 3, ENDED |-> 4]
SchemaJob(type, of) == [type |-> type, of |-> of]
Ending(type) == SchemaJob(type, "none")

\* g_async_queue_push_sorted with schema_job_cmp: right behind the last job of
\* the queue that is not greater, whatever the order of the others.
PushSorted(q, job) ==
    LET notGreater == {i \in 1..Len(q) : JobRank[q[i].type] <= JobRank[job.type]}
        n == IF notGreater = {} THEN 0 ELSE CHOOSE i \in notGreater : \A j \in notGreater : j <= i
    IN  SubSeq(q, 1, n) \o <<job>> \o SubSeq(q, n + 1, Len(q))

\* The tables of S in the order of loading_table_list.
InOrder(S) ==
    LET list[n \in 0..Len(TableOrder)] ==
            IF n = 0 THEN <<>>
            ELSE IF TableOrder[n] \in S THEN Append(list[n - 1], TableOrder[n]) ELSE list[n - 1]
    IN  list[Len(TableOrder)]

\* append_new_db_table: the struct db_table of a table no file has named yet.
NewTable == [schema_state |-> "NOT_FOUND", restore_job_list |-> {}, current_threads |-> 0,
             remaining_jobs |-> 0, retry_count |-> RetryCount,
             in_ready_queue |-> FALSE, no_data |-> FALSE]

\* Mutant: a skipped table gives jobs like any other.
HasJobSkipped(t, r) ==
    /\ r.schema_state = "CREATED" /\ r.restore_job_list # {}
    /\ r.current_threads < MaxThreads /\ t \notin SequenceObjects

\* What enqueue_table_if_ready and give_me_next_data_job_conf ask of a table
\* before a job of it is handed out; restore_job_list is the set of its parts.
HasJob(t, r) ==
    /\ r.schema_state = "CREATED"
    /\ r.restore_job_list # {}
    /\ r.current_threads < MaxThreads
    /\ ~r.no_data
    /\ t \notin SequenceObjects

enqueue_table_if_ready(t, r) ==
    LET push == HasJob(t, r) /\ ~r.in_ready_queue
    IN  /\ dbt' = [dbt EXCEPT ![t] = [r EXCEPT !.in_ready_queue = @ \/ push]]
        /\ ready_table_queue' = IF push THEN Append(ready_table_queue, t) ELSE ready_table_queue

wake_data_threads ==
    data_control_queue' = IF threads_waiting > 0 THEN Append(data_control_queue, "WAKE")
                                                 ELSE data_control_queue

\* Where a thread is and what it has in hand.
At(pc, job) == [pc |-> pc, job |-> job]
Idle == At("idle", "none")
FileIdle == At("idle", File("none", "none", 0))
DataJob(t, p) == [of |-> t, part |-> p]
LoaderIdle == At("idle", DataJob("none", 0))

Init ==
    /\ options \in Modes
    /\ files = DumpFiles(options.tables)
    /\ file_worker = [w \in FileWorkers |-> FileIdle]
    /\ files_ended = FALSE
    /\ database = [d \in Databases |-> [created |-> FALSE, sequence_queue |-> <<>>, table_queue |-> <<>>]]
    /\ table_hash = {}
    /\ dbt = [t \in Tables |-> NewTable]
    /\ ready_table_queue = <<>>
    /\ schema_job_queue = <<>> /\ retry_queue = <<>>
    /\ schema_worker = [w \in SchemaWorkers |-> Idle]
    /\ single_threaded_create_table = FALSE
    /\ data_control_queue = <<>> /\ threads_waiting = 0
    /\ all_jobs_are_enqueued = FALSE /\ dispatcher = "pop"
    /\ data_job_queue = <<>>
    /\ loader = [l \in Loaders |-> LoaderIdle]
    /\ index_queue = <<>>
    /\ index_worker = [i \in IndexWorkers |-> Idle]
    /\ main = "schema"
    /\ server = [databases |-> IF options.target_db THEN Databases ELSE Databases \ CreateFiles,
                 tables |-> options.existing, rows |-> [t \in Tables |-> {}], indexes |-> {}]
    /\ always_fatal = FALSE /\ drops_failed = 0 /\ exited = FALSE

----------------------------------------------------------------------------
(* File type workers *)

\* schema_push of a sequence or table job, under the mutex of its database.
schema_push(job, d) ==
    IF database[d].created
    THEN /\ schema_job_queue' = PushSorted(schema_job_queue, job)
         /\ UNCHANGED database
    ELSE /\ database' = IF job.type = "SEQUENCE"
                        THEN [database EXCEPT ![d].sequence_queue = Append(@, job)]
                        ELSE [database EXCEPT ![d].table_queue = Append(@, job)]
         /\ UNCHANGED schema_job_queue

\* process_database_filename: with a target database nothing is created.
process_database_filename(w) ==
    /\ ~exited /\ file_worker[w].pc = "idle"
    /\ \E f \in files :
        /\ f.kind = "database"
        /\ files' = files \ {f}
        /\ IF options.target_db
           THEN /\ database' = [database EXCEPT ![f.of].created = TRUE]
                /\ UNCHANGED schema_job_queue
           ELSE /\ schema_job_queue' = PushSorted(schema_job_queue, SchemaJob("CREATE", f.of))
                /\ UNCHANGED database
    /\ UNCHANGED <<options, file_worker, files_ended, tableVars, retry_queue, schema_worker,
                   single_threaded_create_table, dispatchVars, loaderVars, indexVars, main, serverVars>>

process_schema_sequence_filename(w) ==
    /\ ~exited /\ file_worker[w].pc = "idle"
    /\ \E f \in files :
        /\ f.kind = "sequence"
        /\ files' = files \ {f}
        /\ table_hash' = table_hash \cup {f.of}
        /\ dbt' = [dbt EXCEPT ![f.of].schema_state = "NOT_CREATED"]
        /\ schema_push(SchemaJob("SEQUENCE", f.of), DbOf[f.of])
    /\ UNCHANGED <<options, file_worker, files_ended, ready_table_queue, retry_queue, schema_worker,
                   single_threaded_create_table, dispatchVars, loaderVars, indexVars, main, serverVars>>

\* A schema file, or a data file that is the first to name its table: unless a
\* target database is set, the worker then looks for the schema file itself.
append_new_db_table(w) ==
    /\ ~exited /\ file_worker[w].pc = "idle"
    /\ \E f \in files :
        /\ f.kind \in {"table", "data"}
        /\ files' = files \ {f}
        /\ table_hash' = table_hash \cup {f.of}
        /\ file_worker' = [file_worker EXCEPT ![w] =
               IF f.kind = "table"
                  \/ (f.of \notin table_hash /\ ~options.target_db /\ f.of \in SchemaFiles)
               THEN At("check", f) ELSE At("add", f)]
    /\ UNCHANGED <<options, files_ended, database, dbt, ready_table_queue, schemaVars, dispatchVars,
                   loaderVars, indexVars, main, serverVars>>

\* Where a worker goes when it is done with the schema of the file's table.
AfterSchema(f) == IF f.kind = "data" THEN At("add", f) ELSE FileIdle

\* Mutant: only a table that is already created counts as parsed.
NotParsedLate(t) == dbt[t].schema_state \in BeforeCreated

\* process_table_filename: the test that its schema file was not read before.
NotParsed(t) == dbt[t].schema_state = "NOT_FOUND"
CheckParsed(w) ==
    /\ ~exited /\ file_worker[w].pc = "check"
    /\ LET f == file_worker[w].job
       IN  file_worker' = [file_worker EXCEPT ![w] =
               IF NotParsed(f.of) THEN At("mark", f) ELSE AfterSchema(f)]
    /\ UNCHANGED <<options, files, files_ended, database, tableVars, schemaVars, dispatchVars,
                   loaderVars, indexVars, main, serverVars>>

\* process_table_filename: mark the table, read its file and push the job.
parse_create_table_from_file(w) ==
    /\ ~exited /\ file_worker[w].pc = "mark"
    /\ LET f == file_worker[w].job
       IN  /\ file_worker' = [file_worker EXCEPT ![w] = AfterSchema(f)]
           /\ dbt' = [dbt EXCEPT ![f.of].schema_state = "NOT_CREATED"]
           /\ schema_push(SchemaJob("TABLE", f.of), DbOf[f.of])
    /\ UNCHANGED <<options, files, files_ended, table_hash, ready_table_queue, retry_queue,
                   schema_worker, single_threaded_create_table, dispatchVars, loaderVars,
                   indexVars, main, serverVars>>

\* process_data_filename: the file becomes a job of its table, unless the
\* table has been skipped.
process_data_filename(w) ==
    /\ ~exited /\ file_worker[w].pc = "add"
    /\ LET f == file_worker[w].job
           r == dbt[f.of]
       IN  IF r.no_data THEN UNCHANGED <<dbt, ready_table_queue>>
           ELSE enqueue_table_if_ready(f.of,
                    [r EXCEPT !.restore_job_list = @ \cup {f.part}, !.remaining_jobs = @ + 1])
    /\ file_worker' = [file_worker EXCEPT ![w].pc = "wake"]
    /\ UNCHANGED <<options, files, files_ended, database, table_hash, schemaVars, dispatchVars,
                   loaderVars, indexVars, main, serverVars>>

WakeAfterFile(w) ==
    /\ ~exited /\ file_worker[w].pc = "wake"
    /\ wake_data_threads
    /\ file_worker' = [file_worker EXCEPT ![w] = FileIdle]
    /\ UNCHANGED <<options, files, files_ended, database, tableVars, schemaVars, threads_waiting,
                   all_jobs_are_enqueued, dispatcher, loaderVars, indexVars, main, serverVars>>

\* FILENAME_ENDED, which sorts behind every file.
FileWorkerEnds(w) ==
    /\ ~exited /\ file_worker[w].pc = "idle" /\ files = {}
    /\ file_worker' = [file_worker EXCEPT ![w].pc = "left"]
    /\ UNCHANGED <<options, files, files_ended, database, tableVars, schemaVars, dispatchVars,
                   loaderVars, indexVars, main, serverVars>>

wait_file_type_to_complete ==
    /\ ~exited /\ ~files_ended /\ \A w \in FileWorkers : file_worker[w].pc = "left"
    /\ files_ended' = TRUE
    /\ schema_job_queue' = Append(schema_job_queue, Ending("PROCESS_ENDED"))
    /\ UNCHANGED <<options, files, file_worker, database, tableVars, retry_queue, schema_worker,
                   single_threaded_create_table, dispatchVars, loaderVars, indexVars, main, serverVars>>

----------------------------------------------------------------------------
(* Schema workers *)

SingleThreaded == Cardinality(SchemaWorkers) = 1
Popped(type) == schema_job_queue # <<>> /\ Head(schema_job_queue).type = type

\* A statement that fails is logged with g_critical, which ends the process
\* once g_log_set_always_fatal has been called; so does a USE that fails.
UseFails(t) == DbOf[t] \notin server.databases

PopCreateJob(w) ==
    /\ ~exited /\ schema_worker[w].pc = "idle" /\ Popped("CREATE")
    /\ schema_worker' = [schema_worker EXCEPT ![w] = At("database", Head(schema_job_queue).of)]
    /\ schema_job_queue' = Tail(schema_job_queue)
    /\ UNCHANGED <<options, fileVars, database, tableVars, retry_queue, single_threaded_create_table,
                   dispatchVars, loaderVars, indexVars, main, serverVars>>

\* set_db_schema_created on the databases of D: the jobs that waited for them
\* go to the end of the queue, the sequences of a database before its tables.
set_db_schema_created(D) ==
    database' = [d \in Databases |->
        IF d \in D THEN [created |-> TRUE, sequence_queue |-> <<>>, table_queue |-> <<>>]
                   ELSE database[d]]
WaitingJobs(D) ==
    LET jobs[S \in SUBSET D] ==
            IF S = {} THEN <<>>
            ELSE LET d == CHOOSE x \in S : TRUE
                 IN  database[d].sequence_queue \o database[d].table_queue \o jobs[S \ {d}]
    IN  jobs[D]

\* SCHEMA_CREATE_JOB, under the mutex of the database.
CreateDatabase(w) ==
    /\ ~exited /\ schema_worker[w].pc = "database"
    /\ LET d == schema_worker[w].job
       IN  /\ server' = [server EXCEPT !.databases = @ \cup {d}]
           /\ set_db_schema_created({d})
           /\ schema_job_queue' = schema_job_queue \o WaitingJobs({d})
    /\ always_fatal' = TRUE
    /\ schema_worker' = [schema_worker EXCEPT ![w] = Idle]
    /\ UNCHANGED <<options, fileVars, tableVars, retry_queue, single_threaded_create_table,
                   dispatchVars, loaderVars, indexVars, main, drops_failed, exited>>

\* SCHEMA_SEQUENCE_JOB and SCHEMA_TABLE_JOB: the table is CREATING from here on.
PopObjectJob(w) ==
    /\ ~exited /\ schema_worker[w].pc = "idle"
    /\ Popped("SEQUENCE") \/ Popped("TABLE")
    /\ LET job == Head(schema_job_queue)
       IN  /\ schema_worker' = [schema_worker EXCEPT ![w] =
                  At(IF job.type = "TABLE" THEN "table" ELSE "sequence", job.of)]
           /\ dbt' = [dbt EXCEPT ![job.of].schema_state = "CREATING"]
    /\ schema_job_queue' = Tail(schema_job_queue)
    /\ UNCHANGED <<options, fileVars, database, table_hash, ready_table_queue, retry_queue,
                   single_threaded_create_table, dispatchVars, loaderVars, indexVars, main, serverVars>>

\* JOB_RESTORE_SCHEMA_FILENAME of a sequence: its statements come from a file.
RestoreSequence(w) ==
    /\ ~exited /\ schema_worker[w].pc = "sequence"
    /\ LET t == schema_worker[w].job
       IN  IF UseFails(t) \/ t \in server.tables
           THEN exited' = TRUE /\ UNCHANGED <<dbt, schema_worker, server>>
           ELSE /\ server' = [server EXCEPT !.tables = @ \cup {t}]
                /\ dbt' = [dbt EXCEPT ![t].schema_state = "CREATED"]
                /\ schema_worker' = [schema_worker EXCEPT ![w].pc = "wake"]
                /\ UNCHANGED exited
    /\ always_fatal' = TRUE
    /\ UNCHANGED <<options, fileVars, database, table_hash, ready_table_queue, schema_job_queue,
                   retry_queue, single_threaded_create_table, dispatchVars, loaderVars, indexVars,
                   main, drops_failed>>

\* overwrite_table when its statement succeeds: DROP removes the table,
\* TRUNCATE and DELETE empty it and its CREATE TABLE is then left out. The
\* other modes execute nothing. single_threaded_create_table is locked first.
PurgeTable(w) ==
    /\ ~exited /\ schema_worker[w].pc = "table"
    /\ SingleThreaded => ~single_threaded_create_table
    /\ LET t == schema_worker[w].job
           mode == options.purge_mode
       IN  \/ /\ mode \in {"FAIL", "NONE", "SKIP"}
              /\ schema_worker' = [schema_worker EXCEPT ![w].pc = "create"]
              /\ UNCHANGED <<server, exited>>
           \/ /\ mode = "DROP" /\ ~UseFails(t)
              /\ server' = [server EXCEPT !.tables = @ \ {t}, !.rows[t] = {}, !.indexes = @ \ {t}]
              /\ schema_worker' = [schema_worker EXCEPT ![w].pc = "create"]
              /\ UNCHANGED exited
           \/ /\ mode \in {"TRUNCATE", "DELETE"} /\ ~UseFails(t) /\ t \in server.tables
              /\ server' = [server EXCEPT !.rows[t] = {}]
              /\ schema_worker' = [schema_worker EXCEPT ![w].pc = "created"]
              /\ UNCHANGED exited
           \/ /\ mode \in {"DROP", "TRUNCATE", "DELETE"} /\ UseFails(t)
              /\ exited' = TRUE
              /\ UNCHANGED <<server, schema_worker>>
    /\ single_threaded_create_table' = SingleThreaded
    /\ UNCHANGED <<options, fileVars, database, tableVars, schema_job_queue, retry_queue,
                   dispatchVars, loaderVars, indexVars, main, always_fatal, drops_failed>>

\* overwrite_table when its statement fails: a DROP that times out, a TRUNCATE
\* or DELETE of a table the server does not have. The job is kept for a retry,
\* and single_threaded_create_table stays locked.
PurgeFails(w) ==
    /\ ~exited /\ schema_worker[w].pc = "table"
    /\ SingleThreaded => ~single_threaded_create_table
    /\ LET t == schema_worker[w].job
       IN  /\ ~UseFails(t)
           /\ \/ /\ options.purge_mode = "DROP" /\ drops_failed < DropFailures
                 /\ drops_failed' = drops_failed + 1
              \/ /\ options.purge_mode \in {"TRUNCATE", "DELETE"} /\ t \notin server.tables
                 /\ UNCHANGED drops_failed
           /\ IF always_fatal \/ dbt[t].retry_count = 0
              THEN exited' = TRUE /\ UNCHANGED <<dbt, retry_queue, schema_worker>>
              ELSE /\ dbt' = [dbt EXCEPT ![t].retry_count = @ - 1, ![t].schema_state = "NOT_CREATED"]
                   /\ retry_queue' = Append(retry_queue, SchemaJob("TABLE", t))
                   /\ schema_worker' = [schema_worker EXCEPT ![w].pc = "wake"]
                   /\ UNCHANGED exited
    /\ single_threaded_create_table' = SingleThreaded
    /\ UNCHANGED <<options, fileVars, database, table_hash, ready_table_queue, schema_job_queue,
                   dispatchVars, loaderVars, indexVars, main, server, always_fatal>>

\* JOB_TO_CREATE_TABLE after the purge: CREATE TABLE fails when the server has
\* the table; then SKIP gives the table up, FAIL ends the process and the
\* other modes go on. Either way the table is CREATED and offered to loaders.
CreateTable(w) ==
    /\ ~exited /\ schema_worker[w].pc \in {"create", "created"}
    /\ LET t == schema_worker[w].job
           run == schema_worker[w].pc = "create"
           fails == run /\ t \in server.tables
       IN  IF (run /\ UseFails(t)) \/ (fails /\ (always_fatal \/ options.purge_mode = "FAIL"))
           THEN exited' = TRUE /\ UNCHANGED <<dbt, ready_table_queue, schema_worker, server>>
           ELSE /\ enqueue_table_if_ready(t, [dbt[t] EXCEPT !.schema_state = "CREATED",
                        !.no_data = @ \/ (fails /\ options.purge_mode = "SKIP")])
                /\ server' = [server EXCEPT !.tables = @ \cup {t}]
                /\ schema_worker' = [schema_worker EXCEPT ![w].pc = "wake"]
                /\ UNCHANGED exited
    /\ single_threaded_create_table' = FALSE
    /\ UNCHANGED <<options, fileVars, database, table_hash, schema_job_queue, retry_queue,
                   dispatchVars, loaderVars, indexVars, main, always_fatal, drops_failed>>

WakeAfterSchema(w) ==
    /\ ~exited /\ schema_worker[w].pc = "wake"
    /\ wake_data_threads
    /\ schema_worker' = [schema_worker EXCEPT ![w] = Idle]
    /\ UNCHANGED <<options, fileVars, database, tableVars, schema_job_queue, retry_queue,
                   single_threaded_create_table, threads_waiting, all_jobs_are_enqueued, dispatcher,
                   loaderVars, indexVars, main, serverVars>>

\* SCHEMA_PROCESS_ENDED: the jobs to retry, what waited for a database, the end.
SchemaProcessEnded(w) ==
    /\ ~exited /\ schema_worker[w].pc = "idle" /\ Popped("PROCESS_ENDED")
    /\ retry_queue' = <<>>
    /\ set_db_schema_created(Databases)
    /\ schema_job_queue' = Tail(schema_job_queue) \o retry_queue \o WaitingJobs(Databases)
                           \o <<Ending("ENDED")>>
    /\ UNCHANGED <<options, fileVars, tableVars, schema_worker, single_threaded_create_table,
                   dispatchVars, loaderVars, indexVars, main, serverVars>>

\* SCHEMA_ENDED stays in the queue for the other workers.
SchemaWorkerEnds(w) ==
    /\ ~exited /\ schema_worker[w].pc = "idle" /\ Popped("ENDED")
    /\ schema_job_queue' = Append(Tail(schema_job_queue), Head(schema_job_queue))
    /\ schema_worker' = [schema_worker EXCEPT ![w].pc = "left"]
    /\ UNCHANGED <<options, fileVars, database, tableVars, retry_queue, single_threaded_create_table,
                   dispatchVars, loaderVars, indexVars, main, serverVars>>

----------------------------------------------------------------------------
(* Dispatcher: worker_loader_main_thread *)

Control(type) == dispatcher = "pop" /\ data_control_queue # <<>> /\ Head(data_control_queue) = type

\* Mutant: only one of the waiting loaders is woken.
WakeOne ==
    /\ ~exited /\ Control("WAKE")
    /\ data_control_queue' = Append(Tail(data_control_queue), "REQUEST")
    /\ threads_waiting' = 0
    /\ UNCHANGED <<options, fileVars, database, tableVars, schemaVars, all_jobs_are_enqueued,
                   dispatcher, loaderVars, indexVars, main, serverVars>>

\* WAKE_DATA_THREAD: every loader that waits asks again.
wake_threads_waiting ==
    /\ ~exited /\ Control("WAKE")
    /\ data_control_queue' = Tail(data_control_queue) \o [i \in 1..threads_waiting |-> "REQUEST"]
    /\ threads_waiting' = 0
    /\ UNCHANGED <<options, fileVars, database, tableVars, schemaVars, all_jobs_are_enqueued,
                   dispatcher, loaderVars, indexVars, main, serverVars>>

\* The job a table gives, the one with the lowest part.
NextPart(r) == CHOOSE p \in r.restore_job_list : \A q \in r.restore_job_list : p <= q
\* Mutant: current_threads is not raised.
DispatchedUncounted(r) == [r EXCEPT !.restore_job_list = @ \ {NextPart(r)}]

\* The table after it has given that job.
Dispatched(r) == [r EXCEPT !.restore_job_list = @ \ {NextPart(r)}, !.current_threads = @ + 1]

\* give_me_next_data_job_conf leaves the queue at its first table with a job;
\* the tables in front of that one are dropped from it.
ReadyAt == {i \in 1..Len(ready_table_queue) : HasJob(ready_table_queue[i], dbt[ready_table_queue[i]])}
Unqueued(n) == [t \in Tables |->
    [dbt[t] EXCEPT !.in_ready_queue = @ /\ \A i \in 1..n : ready_table_queue[i] # t]]

\* REQUEST_DATA_JOB answered from the queue of ready tables.
DispatchReady ==
    /\ ~exited /\ Control("REQUEST") /\ ReadyAt # {}
    /\ LET n == CHOOSE i \in ReadyAt : \A j \in ReadyAt : i <= j
           t == ready_table_queue[n]
           rest == SubSeq(ready_table_queue, n + 1, Len(ready_table_queue))
           r == Dispatched(Unqueued(n)[t])
       IN  /\ data_job_queue' = Append(data_job_queue, DataJob(t, NextPart(dbt[t])))
           /\ dbt' = [Unqueued(n) EXCEPT ![t] = [r EXCEPT !.in_ready_queue = HasJob(t, r)]]
           /\ ready_table_queue' = IF HasJob(t, r) THEN Append(rest, t) ELSE rest
    /\ data_control_queue' = Tail(data_control_queue)
    /\ UNCHANGED <<options, fileVars, database, table_hash, schemaVars, threads_waiting,
                   all_jobs_are_enqueued, dispatcher, loader, indexVars, main, serverVars>>

\* REQUEST_DATA_JOB while files or tables are still to come: the loader waits.
DispatchLater ==
    /\ ~exited /\ Control("REQUEST") /\ ReadyAt = {} /\ ~all_jobs_are_enqueued
    /\ dbt' = Unqueued(Len(ready_table_queue))
    /\ ready_table_queue' = <<>>
    /\ data_control_queue' = Tail(data_control_queue)
    /\ dispatcher' = "sleep"
    /\ UNCHANGED <<options, fileVars, database, table_hash, schemaVars, threads_waiting,
                   all_jobs_are_enqueued, loaderVars, indexVars, main, serverVars>>

Sleep ==
    /\ ~exited /\ dispatcher = "sleep"
    /\ threads_waiting' = IF threads_waiting < Cardinality(Loaders) THEN threads_waiting + 1
                                                                    ELSE threads_waiting
    /\ dispatcher' = "pop"
    /\ UNCHANGED <<options, fileVars, database, tableVars, schemaVars, data_control_queue,
                   all_jobs_are_enqueued, loaderVars, indexVars, main, serverVars>>

\* The scan of loading_table_list. A table with no job left to give or to wait
\* for gets its indexes (enqueue_index_for_dbt_if_possible); a skipped table is
\* done with; one that is not created, or is being loaded, keeps the scan from
\* giving up.
DataIsDone(r) == /\ r.schema_state = "CREATED" /\ r.restore_job_list = {}
                 /\ r.current_threads = 0 /\ r.remaining_jobs = 0
IsSkipped(r) == r.schema_state = "CREATED" /\ r.restore_job_list # {} /\ r.no_data
Voted(t, r) ==
    IF t \in SequenceObjects /\ r.schema_state = "CREATED" THEN r
    ELSE [r EXCEPT !.schema_state =
             IF DataIsDone(r) THEN IF t \in Indexed THEN "INDEX_ENQUEUED" ELSE "ALL_DONE"
             ELSE IF IsSkipped(r) THEN "ALL_DONE" ELSE @]
VotesForFinish(t, r) == r.schema_state \in DataDone \/ (t \in SequenceObjects /\ r.schema_state = "CREATED")

\* REQUEST_DATA_JOB once every job is enqueued: the first table of the list with
\* a job gives it; without one the loaders are told to end, or one more waits.
DispatchFromList ==
    /\ ~exited /\ Control("REQUEST") /\ ReadyAt = {} /\ all_jobs_are_enqueued
    /\ LET found == {i \in 1..Len(TableOrder) : /\ TableOrder[i] \in table_hash
                                                /\ HasJob(TableOrder[i], dbt[TableOrder[i]])}
           n == IF found = {} THEN Len(TableOrder) + 1
                              ELSE CHOOSE i \in found : \A j \in found : i <= j
           visited == {TableOrder[i] : i \in 1..(n - 1)} \cap table_hash
           unqueued == Unqueued(Len(ready_table_queue))
           scanned == [t \in Tables |-> IF t \in visited THEN Voted(t, unqueued[t]) ELSE unqueued[t]]
           giveup == found = {} /\ \A t \in table_hash : VotesForFinish(t, scanned[t])
       IN  /\ index_queue' = index_queue \o InOrder({t \in visited :
                  dbt[t].schema_state = "CREATED" /\ scanned[t].schema_state = "INDEX_ENQUEUED"})
           /\ \/ /\ found # {}
                 /\ LET t == TableOrder[n]
                        r == Dispatched(scanned[t])
                    IN  /\ data_job_queue' = Append(data_job_queue, DataJob(t, NextPart(dbt[t])))
                        /\ dbt' = [scanned EXCEPT ![t] = [r EXCEPT !.in_ready_queue = HasJob(t, r)]]
                        /\ ready_table_queue' = IF HasJob(t, r) THEN <<t>> ELSE <<>>
                 /\ UNCHANGED dispatcher
              \/ /\ giveup
                 /\ data_job_queue' = Append(data_job_queue, DataJob("PROCESS_ENDED", 0))
                 /\ dispatcher' = "join"
                 /\ dbt' = scanned /\ ready_table_queue' = <<>>
              \/ /\ found = {} /\ ~giveup
                 /\ dispatcher' = "sleep"
                 /\ dbt' = scanned /\ ready_table_queue' = <<>>
                 /\ UNCHANGED data_job_queue
    /\ data_control_queue' = Tail(data_control_queue)
    /\ UNCHANGED <<options, fileVars, database, table_hash, schemaVars, threads_waiting,
                   all_jobs_are_enqueued, loader, index_worker, main, serverVars>>

\* Mutant: nobody looks at the tables once more.
FileTypeEndedSilent ==
    /\ ~exited /\ Control("FILE_TYPE_ENDED")
    /\ all_jobs_are_enqueued' = TRUE
    /\ data_control_queue' = Tail(data_control_queue)
    /\ UNCHANGED <<options, fileVars, database, tableVars, schemaVars, threads_waiting, dispatcher,
                   loaderVars, indexVars, main, serverVars>>

FileTypeEnded ==
    /\ ~exited /\ Control("FILE_TYPE_ENDED")
    /\ all_jobs_are_enqueued' = TRUE
    /\ data_control_queue' = Append(Tail(data_control_queue), "REQUEST")
    /\ UNCHANGED <<options, fileVars, database, tableVars, schemaVars, threads_waiting, dispatcher,
                   loaderVars, indexVars, main, serverVars>>

\* wait_loader_threads_to_finish, then start_optimize_keys_all_tables.
DispatcherEnds ==
    /\ ~exited /\ dispatcher = "join" /\ \A l \in Loaders : loader[l].pc = "left"
    /\ dispatcher' = "left"
    /\ UNCHANGED <<options, fileVars, database, tableVars, schemaVars, data_control_queue,
                   threads_waiting, all_jobs_are_enqueued, loaderVars, indexVars, main, serverVars>>

----------------------------------------------------------------------------
(* Loaders *)

\* loader_thread: ask for a job.
Request(l) ==
    /\ ~exited /\ loader[l].pc = "idle"
    /\ data_control_queue' = Append(data_control_queue, "REQUEST")
    /\ loader' = [loader EXCEPT ![l].pc = "wait"]
    /\ UNCHANGED <<options, fileVars, database, tableVars, schemaVars, threads_waiting,
                   all_jobs_are_enqueued, dispatcher, data_job_queue, indexVars, main, serverVars>>

Ended(job) == job = DataJob("PROCESS_ENDED", 0)

TakeJob(l) ==
    /\ ~exited
    /\ loader[l].pc = "wait" /\ data_job_queue # <<>> /\ ~Ended(Head(data_job_queue))
    /\ loader' = [loader EXCEPT ![l] = At("load", Head(data_job_queue))]
    /\ data_job_queue' = Tail(data_job_queue)
    /\ UNCHANGED <<options, fileVars, database, tableVars, schemaVars, dispatchVars, indexVars,
                   main, serverVars>>

\* JOB_RESTORE_FILENAME, once the table is created: the rows of the file go to
\* the table. A statement that fails ends the process.
RestoreFilename(l) ==
    /\ ~exited /\ loader[l].pc = "load"
    /\ LET t == loader[l].job.of
           p == loader[l].job.part
       IN  /\ dbt[t].schema_state \notin BeforeCreated
           /\ IF UseFails(t) \/ t \notin server.tables
              THEN exited' = TRUE /\ UNCHANGED <<dbt, server, loader>>
              ELSE /\ server' = [server EXCEPT !.rows[t] = @ \cup {p}]
                   /\ dbt' = [dbt EXCEPT ![t].remaining_jobs = @ - 1]
                   /\ loader' = [loader EXCEPT ![l].pc = "release"]
                   /\ UNCHANGED exited
    /\ always_fatal' = TRUE
    /\ UNCHANGED <<options, fileVars, database, table_hash, ready_table_queue, schemaVars,
                   dispatchVars, data_job_queue, indexVars, main, drops_failed>>

ReleaseTable(l) ==
    /\ ~exited /\ loader[l].pc = "release"
    /\ dbt' = [dbt EXCEPT ![loader[l].job.of].current_threads = @ - 1]
    /\ loader' = [loader EXCEPT ![l] = LoaderIdle]
    /\ UNCHANGED <<options, fileVars, database, table_hash, ready_table_queue, schemaVars,
                   dispatchVars, data_job_queue, indexVars, main, serverVars>>

\* DATA_PROCESS_ENDED goes back to the queue for the other loaders.
LoaderEnds(l) ==
    /\ ~exited
    /\ loader[l].pc = "wait" /\ data_job_queue # <<>> /\ Ended(Head(data_job_queue))
    /\ data_job_queue' = Append(Tail(data_job_queue), Head(data_job_queue))
    /\ loader' = [loader EXCEPT ![l].pc = "left"]
    /\ UNCHANGED <<options, fileVars, database, tableVars, schemaVars, dispatchVars, indexVars,
                   main, serverVars>>

----------------------------------------------------------------------------
(* Index workers *)

\* Mutant: the workers start as soon as every job is enqueued.
IndexMayStartEarly == options.all_tables => all_jobs_are_enqueued

\* With optimize_keys_all_tables a worker starts when all the data is loaded.
IndexMayStart == options.all_tables => dispatcher = "left"

TakeIndex(i) ==
    /\ ~exited /\ index_worker[i].pc = "idle" /\ index_queue # <<>>
    /\ IndexMayStart
    /\ index_worker' = [index_worker EXCEPT ![i] =
           IF Head(index_queue) = "SHUTDOWN" THEN At("wake", "SHUTDOWN")
                                             ELSE At("build", Head(index_queue))]
    /\ index_queue' = Tail(index_queue)
    /\ UNCHANGED <<options, fileVars, database, tableVars, schemaVars, dispatchVars, loaderVars,
                   main, serverVars>>

\* process_index: a table that was skipped has no_index set.
BuildIndex(i) ==
    /\ ~exited /\ index_worker[i].pc = "build"
    /\ LET t == index_worker[i].job
       IN  /\ server' = [server EXCEPT !.indexes = IF dbt[t].no_data THEN @ ELSE @ \cup {t}]
           /\ dbt' = [dbt EXCEPT ![t].schema_state = "ALL_DONE"]
    /\ index_worker' = [index_worker EXCEPT ![i].pc = "wake"]
    /\ UNCHANGED <<options, fileVars, database, table_hash, ready_table_queue, schemaVars,
                   dispatchVars, loaderVars, index_queue, main, always_fatal, drops_failed, exited>>

WakeAfterIndex(i) ==
    /\ ~exited /\ index_worker[i].pc = "wake"
    /\ wake_data_threads
    /\ index_worker' = [index_worker EXCEPT ![i] =
           IF @.job = "SHUTDOWN" THEN At("left", "none") ELSE Idle]
    /\ UNCHANGED <<options, fileVars, database, tableVars, schemaVars, threads_waiting,
                   all_jobs_are_enqueued, dispatcher, loaderVars, index_queue, main, serverVars>>

----------------------------------------------------------------------------
(* main *)

\* wait_schema_worker_to_finish: a table no schema file described is taken to
\* be on the server already.
wait_schema_worker_to_finish ==
    /\ ~exited /\ main = "schema" /\ files_ended
    /\ \A w \in SchemaWorkers : schema_worker[w].pc = "left"
    /\ LET r == [t \in Tables |-> IF t \in table_hash /\ dbt[t].schema_state = "NOT_FOUND"
                                  THEN [dbt[t] EXCEPT !.schema_state = "CREATED"] ELSE dbt[t]]
           push == {t \in table_hash : HasJob(t, r[t]) /\ ~r[t].in_ready_queue}
       IN  /\ dbt' = [t \in Tables |-> [r[t] EXCEPT !.in_ready_queue = @ \/ t \in push]]
           /\ ready_table_queue' = ready_table_queue \o InOrder(push)
    /\ data_control_queue' = Append(data_control_queue, "FILE_TYPE_ENDED")
    /\ main' = "loaders"
    /\ UNCHANGED <<options, fileVars, database, table_hash, schemaVars, threads_waiting,
                   all_jobs_are_enqueued, dispatcher, loaderVars, indexVars, serverVars>>

\* wait_worker_loader_main, then create_index_shutdown_job.
wait_worker_loader_main ==
    /\ ~exited /\ main = "loaders" /\ dispatcher = "left"
    /\ index_queue' = index_queue \o [i \in 1..Cardinality(IndexWorkers) |-> "SHUTDOWN"]
    /\ main' = "index"
    /\ UNCHANGED <<options, fileVars, database, tableVars, schemaVars, dispatchVars, loaderVars,
                   index_worker, serverVars>>

wait_index_worker_to_finish ==
    /\ ~exited /\ main = "index" /\ \A i \in IndexWorkers : index_worker[i].pc = "left"
    /\ main' = "done"
    /\ UNCHANGED <<options, fileVars, database, tableVars, schemaVars, dispatchVars, loaderVars,
                   indexVars, serverVars>>

----------------------------------------------------------------------------

FileStep(w) ==
    \/ process_database_filename(w) \/ process_schema_sequence_filename(w)
    \/ append_new_db_table(w) \/ CheckParsed(w) \/ parse_create_table_from_file(w)
    \/ process_data_filename(w) \/ WakeAfterFile(w) \/ FileWorkerEnds(w)
SchemaStep(w) ==
    \/ PopCreateJob(w) \/ CreateDatabase(w) \/ PopObjectJob(w) \/ RestoreSequence(w)
    \/ PurgeTable(w) \/ PurgeFails(w) \/ CreateTable(w) \/ WakeAfterSchema(w)
    \/ SchemaProcessEnded(w) \/ SchemaWorkerEnds(w)
DispatcherStep ==
    \/ wake_threads_waiting \/ DispatchReady \/ DispatchLater \/ Sleep
    \/ DispatchFromList \/ FileTypeEnded \/ DispatcherEnds
LoaderStep(l) ==
    Request(l) \/ TakeJob(l) \/ RestoreFilename(l) \/ ReleaseTable(l) \/ LoaderEnds(l)
IndexStep(i) == TakeIndex(i) \/ BuildIndex(i) \/ WakeAfterIndex(i)
MainStep ==
    wait_schema_worker_to_finish \/ wait_worker_loader_main \/ wait_index_worker_to_finish

Next ==
    \/ \E w \in FileWorkers : FileStep(w)
    \/ wait_file_type_to_complete
    \/ \E w \in SchemaWorkers : SchemaStep(w)
    \/ DispatcherStep
    \/ \E l \in Loaders : LoaderStep(l)
    \/ \E i \in IndexWorkers : IndexStep(i)
    \/ MainStep

\* The operating system runs every thread that can run.
Fairness ==
    /\ \A w \in FileWorkers : WF_vars(FileStep(w))
    /\ WF_vars(wait_file_type_to_complete)
    /\ \A w \in SchemaWorkers : WF_vars(SchemaStep(w))
    /\ WF_vars(DispatcherStep)
    /\ \A l \in Loaders : WF_vars(LoaderStep(l))
    /\ \A i \in IndexWorkers : WF_vars(IndexStep(i))
    /\ WF_vars(MainStep)

Spec == Init /\ [][Next]_vars
FairSpec == Spec /\ Fairness

----------------------------------------------------------------------------
(* Properties *)

MaxParts == CHOOSE n \in {Parts[t] : t \in Tables} : \A t \in Tables : Parts[t] <= n
WorkerPC == {"idle", "check", "mark", "add", "wake", "database", "sequence", "table", "create",
             "created", "wait", "load", "release", "build", "left"}

\* Every variable keeps its shape; a table is never seen in DATA_DONE, because
\* enqueue_index_for_dbt_if_possible runs under the mutex that set it.
TypeOK ==
    /\ files \subseteq DumpFiles(options.tables) /\ table_hash \subseteq Tables
    /\ \A w \in FileWorkers : file_worker[w].pc \in WorkerPC
    /\ \A w \in SchemaWorkers : schema_worker[w].pc \in WorkerPC
    /\ \A l \in Loaders : loader[l].pc \in WorkerPC
    /\ \A i \in IndexWorkers : index_worker[i].pc \in WorkerPC
    /\ dbt \in [Tables -> [schema_state : schema_status,
                           restore_job_list : SUBSET (1..MaxParts), current_threads : 0..MaxThreads,
                           remaining_jobs : 0..MaxParts, retry_count : 0..RetryCount,
                           in_ready_queue : BOOLEAN, no_data : BOOLEAN]]
    /\ threads_waiting \in 0..Cardinality(Loaders)
    /\ dispatcher \in {"pop", "sleep", "join", "left"}
    /\ main \in {"schema", "loaders", "index", "done"}
    /\ server.tables \subseteq Tables /\ server.indexes \subseteq Tables

\* The jobs of a table that were handed out and whose file is still to be
\* restored, and the ones that still hold a place among its threads.
Queued(t) == {i \in 1..Len(data_job_queue) : data_job_queue[i].of = t}
Busy(t, pcs) == {l \in Loaders : loader[l].pc \in pcs /\ loader[l].job.of = t}

\* The two counters by which the dispatcher tells that a table has all its data
\* are exact: remaining_jobs counts the files not restored yet, wherever they
\* are, and current_threads the jobs handed out and not given back; and a table
\* is in ready_table_queue exactly when it says so, once. A count that is too
\* low builds the indexes early, one that is too high never ends the restore.
TableCounters ==
    \A t \in Tables :
        /\ dbt[t].remaining_jobs = Cardinality(dbt[t].restore_job_list)
                                   + Cardinality(Queued(t)) + Cardinality(Busy(t, {"load"}))
        /\ dbt[t].current_threads = Cardinality(Queued(t)) + Cardinality(Busy(t, {"load", "release"}))
        /\ Cardinality({i \in 1..Len(ready_table_queue) : ready_table_queue[i] = t})
             = IF dbt[t].in_ready_queue THEN 1 ELSE 0

\* A table reaches its indexes (INDEX_ENQUEUED) or its end (ALL_DONE) only with
\* the rows of all of its files, unless it was skipped; and when main gets past
\* the index workers every table of the dump has reached its end.  With
\* --drop-table=SKIP a table that was on the server stays as it was, also when
\* its data files were registered before its CREATE TABLE failed.
RestoredTables ==
    /\ \A t \in Tables : (dbt[t].schema_state \in DataDone /\ ~dbt[t].no_data)
                            => server.rows[t] = 1..Parts[t]
    /\ main = "done" => \A t \in options.tables : /\ t \notin SequenceObjects => dbt[t].schema_state = "ALL_DONE"
                                          /\ t \in server.tables
                                          /\ (t \in Indexed /\ ~dbt[t].no_data) => t \in server.indexes
    /\ options.purge_mode = "SKIP" =>
        \A t \in options.existing \cap SchemaFiles : server.rows[t] = {} /\ t \notin server.indexes

\* Rows that were restored stay: no step of any worker drops or empties a table
\* after one of its files has been loaded.
RowsStay == [][\A t \in Tables : server.rows[t] \subseteq server'.rows[t]]_vars

\* No request of a loader is lost: while the dispatcher runs, each loader that
\* waits is matched by a request, a job in the queue, or a place in
\* threads_waiting from which the next WAKE_DATA_THREAD makes a request.
RequestsKept ==
    dispatcher \in {"pop", "sleep"} =>
        Cardinality({l \in Loaders : loader[l].pc = "wait"})
          <= Cardinality({i \in 1..Len(data_control_queue) : data_control_queue[i] = "REQUEST"})
             + Len(data_job_queue) + threads_waiting + (IF dispatcher = "sleep" THEN 1 ELSE 0)

\* With optimize_keys_all_tables no index is added before the last row is in.
IndexesAfterAllData ==
    (options.all_tables /\ server.indexes # {}) =>
        \A t \in options.tables : dbt[t].no_data \/ server.rows[t] = 1..Parts[t]

\* A table job that failed after SCHEMA_PROCESS_ENDED emptied retry_queue.
RetryStranded == retry_queue # <<>> /\ \A w \in SchemaWorkers : schema_worker[w].pc = "left"

\* The restore ends, all threads joined or the process gone, whatever the order
\* of files, jobs and wake-ups; the one exception is a job nobody retries.
EndsUnlessRetryStranded == <>(main = "done" \/ exited \/ RetryStranded)

\* The restore ends.
RestoreEnds == <>(main = "done" \/ exited)

=============================================================================
