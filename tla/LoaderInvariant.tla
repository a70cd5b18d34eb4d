--------------------------- MODULE LoaderInvariant ---------------------------
(***************************************************************************)
(* The inductive invariant of Loader, in four layers, each of which needs  *)
(* the ones before it:                                                     *)
(*                                                                         *)
(*   CountInv  every job of a table is counted where it is, and no data    *)
(*             file is in two places                                       *)
(*   StateInv  the schema job of a table exists once, in a queue while the *)
(*             table is NOT_CREATED and with a worker while it is CREATING *)
(*   DataInv   every data file is somewhere between the files and the rows *)
(*   EndInv    what is still to come before main may conclude its end      *)
(*                                                                         *)
(* LoaderProofs proves it.                                                 *)
(***************************************************************************)
EXTENDS Loader, Counting

(* Types *)

NoFile == File("none", "none", 0)
FileRecord == [pc : {"idle", "check", "mark", "add", "wake", "left"},
               job : DumpFiles(options.tables) \cup {NoFile}]

FileHandOK(r) ==
    /\ r.pc \in {"check", "mark"} => r.job.kind \in {"table", "data"} /\ r.job.of \in SchemaFiles
    /\ r.pc = "add" => r.job.kind = "data"

FilesOK ==
    /\ options \in Modes
    /\ files \in SUBSET DumpFiles(options.tables)
    /\ file_worker \in [FileWorkers -> FileRecord]
    /\ \A w \in FileWorkers : FileHandOK(file_worker[w])
    /\ table_hash \in SUBSET options.tables

SequenceJobs == {SchemaJob("SEQUENCE", t) : t \in SequenceObjects}
TableJobs == {SchemaJob("TABLE", t) : t \in SchemaFiles}
SchemaJobs ==
    {SchemaJob("CREATE", d) : d \in Databases} \cup SequenceJobs \cup TableJobs
    \cup {Ending("PROCESS_ENDED"), Ending("ENDED")}
SchemaRecord ==
    [pc : {"idle", "database", "sequence", "table", "create", "created", "wake", "left"},
     job : Databases \cup Tables \cup {"none"}]

SchemaHandOK(r) ==
    /\ r.pc = "database" => r.job \in Databases
    /\ r.pc = "sequence" => r.job \in SequenceObjects
    /\ r.pc \in {"table", "create", "created"} => r.job \in SchemaFiles

SchemaOK ==
    /\ schema_job_queue \in Seq(SchemaJobs) /\ retry_queue \in Seq(TableJobs)
    /\ database \in [Databases -> [created : BOOLEAN, sequence_queue : Seq(SequenceJobs),
                                   table_queue : Seq(TableJobs)]]
    /\ schema_worker \in [SchemaWorkers -> SchemaRecord]
    /\ \A w \in SchemaWorkers : SchemaHandOK(schema_worker[w])

TableRecord ==
    [schema_state : schema_status, restore_job_list : SUBSET Nat, current_threads : Int,
     remaining_jobs : Int, retry_count : Nat, in_ready_queue : BOOLEAN, no_data : BOOLEAN]
DataJobs == [of : Tables, part : Nat] \cup {DataJob("PROCESS_ENDED", 0)}
LoaderRecord == [pc : {"idle", "wait", "load", "release", "left"},
                 job : [of : Tables \cup {"none", "PROCESS_ENDED"}, part : Nat]]

LoadOK ==
    /\ dbt \in [Tables -> TableRecord]
    /\ \A t \in Tables : dbt[t].restore_job_list \subseteq 1 .. Parts[t]
    /\ ready_table_queue \in Seq(Tables)
    /\ data_job_queue \in Seq(DataJobs)
    /\ loader \in [Loaders -> LoaderRecord]
    /\ \A l \in Loaders : loader[l].pc \in {"load", "release"} => loader[l].job.of \in Tables

Controls == {"REQUEST", "WAKE", "FILE_TYPE_ENDED"}
ControlOK ==
    /\ data_control_queue \in Seq(Controls)
    /\ threads_waiting \in Nat
    /\ dispatcher \in {"pop", "sleep", "join", "left"}
    /\ main \in {"schema", "loaders", "index", "done"}

IndexOK ==
    /\ index_queue \in Seq(Indexed \cup {"SHUTDOWN"})
    /\ index_worker \in [IndexWorkers -> [pc : {"idle", "build", "wake", "left"},
                                          job : Indexed \cup {"none", "SHUTDOWN"}]]
    /\ \A i \in IndexWorkers : index_worker[i].pc = "build" => index_worker[i].job \in Indexed

TypeInv == FilesOK /\ SchemaOK /\ LoadOK /\ ControlOK /\ IndexOK

(* What a file of the dump is. *)
IsFile(f, T) ==
    /\ f \in [kind : {"database", "table", "sequence", "data"}, of : Databases \cup Tables,
              part : Nat]
    /\ f.kind = "database" => f.of \in Databases
    /\ f.kind = "table" => f.of \in SchemaFiles /\ f.of \in T
    /\ f.kind = "sequence" => f.of \in SequenceObjects /\ f.of \in T
    /\ f.kind = "data" => f.of \in T /\ f.part \in 1 .. Parts[f.of]

(* The two queues of a database, joined. *)
Waiting(d) == database[d].sequence_queue \o database[d].table_queue

-----------------------------------------------------------------------------
(* The jobs of a table in data_job_queue, and what a loader that has one   *)
(* looks like.                                                             *)
JobsOf(t) == {j \in DataJobs : j.of = t}
LoadingAt(t, pcs) == {r \in LoaderRecord : r.pc \in pcs /\ r.job.of = t}

CountersAt(t) ==
    /\ dbt[t].remaining_jobs = Cardinality(dbt[t].restore_job_list)
          + Items(data_job_queue, JobsOf(t)) + Many(Loaders, loader, LoadingAt(t, {"load"}))
    /\ dbt[t].current_threads = Items(data_job_queue, JobsOf(t))
          + Many(Loaders, loader, LoadingAt(t, {"load", "release"}))
CountersOK == \A t \in Tables : CountersAt(t)

ReadyOK ==
    \A t \in Tables : Items(ready_table_queue, {t}) = IF dbt[t].in_ready_queue THEN 1 ELSE 0

(* A file name is in one place: it is still to be taken, in the hands of   *)
(* one file type worker, or its part is in the list of its table.          *)
Holds(w) == file_worker[w].pc \in {"check", "mark", "add"}
HandsOK ==
    /\ \A f \in files : f.kind = "data" => f.part \notin dbt[f.of].restore_job_list
    /\ \A w \in FileWorkers : Holds(w) =>
          /\ file_worker[w].job \in DumpFiles(options.tables) /\ file_worker[w].job \notin files
          /\ file_worker[w].job.kind = "data" =>
                file_worker[w].job.part \notin dbt[file_worker[w].job.of].restore_job_list
    /\ \A v, w \in FileWorkers : Holds(v) /\ Holds(w) /\ v # w =>
          file_worker[v].job # file_worker[w].job

RequestsOK ==
    dispatcher \in {"pop", "sleep"} =>
        Many(Loaders, loader, {r \in LoaderRecord : r.pc = "wait"})
          <= Items(data_control_queue, {"REQUEST"}) + Len(data_job_queue) + threads_waiting
             + (IF dispatcher = "sleep" THEN 1 ELSE 0)

CountInv == TypeInv /\ CountersOK /\ ReadyOK /\ HandsOK /\ RequestsOK

-----------------------------------------------------------------------------
(* What the dispatcher concludes from its counters and what main concludes *)
(* from the threads that have ended hold of the rows themselves as long as *)
(* no schema file is read twice: a worker marks a table as parsed only if  *)
(* no other one did since it looked (process_table_filename takes no lock  *)
(* from its test to its assignment).                                       *)
ReadOnce ==
    \A w \in FileWorkers : parse_create_table_from_file(w) => NotParsed(file_worker[w].job.of)

(* Options that make it so: one file type worker, or no data file that     *)
(* makes its worker look for the schema of its table.                      *)
OneReader == (\A v, w \in FileWorkers : v = w) \/ (\A m \in Modes : m.target_db)

ObjectJobs(t) == {SchemaJob("SEQUENCE", t), SchemaJob("TABLE", t)}
Making(t) == {r \in SchemaRecord : r.pc \in {"sequence", "table", "create", "created"} /\ r.job = t}
JobsFor(t) ==
    Items(schema_job_queue, ObjectJobs(t)) + Items(retry_queue, ObjectJobs(t))
    + Items(Waiting(DbOf[t]), ObjectJobs(t))

(* A table has one schema job while it is NOT_CREATED, in one of the       *)
(* queues, and one schema worker while it is CREATING.                     *)
ExactAt(t) ==
    /\ JobsFor(t) = IF dbt[t].schema_state = "NOT_CREATED" THEN 1 ELSE 0
    /\ Many(SchemaWorkers, schema_worker, Making(t))
          = IF dbt[t].schema_state = "CREATING" THEN 1 ELSE 0
SchemaExact == \A t \in Tables : ExactAt(t)
AwayOK ==
    \A t \in Tables, d \in Databases : DbOf[t] # d => Items(Waiting(d), ObjectJobs(t)) = 0

(* A sequence is NOT_FOUND for as long as its file lies unread.            *)
UnreadOK ==
    \A t \in SequenceObjects : File("sequence", t, 0) \in files => dbt[t].schema_state = "NOT_FOUND"

(* With one reader a table that a worker is about to mark is NOT_FOUND.    *)
Reading(w) == file_worker[w].pc \in {"check", "mark"}
MarkedOK ==
    /\ \A w \in FileWorkers : file_worker[w].pc = "mark" =>
          dbt[file_worker[w].job.of].schema_state = "NOT_FOUND"
    /\ options.target_db => \A w \in FileWorkers : Reading(w) => file_worker[w].job.kind = "table"

(* A table whose indexes are queued has all its data.                      *)
IndexJobsOK ==
    /\ \A k \in 1 .. Len(index_queue) : index_queue[k] # "SHUTDOWN" =>
          dbt[index_queue[k]].schema_state \in DataDone
    /\ \A i \in IndexWorkers : index_worker[i].pc = "build" =>
          dbt[index_worker[i].job].schema_state \in DataDone

(* A table has rows only from its own files and only once it is created.   *)
ServerRecord == [databases : SUBSET Databases, tables : SUBSET Tables,
                 rows : [Tables -> SUBSET Nat], indexes : SUBSET Tables]
RowsOK ==
    /\ server \in ServerRecord
    /\ \A t \in Tables : /\ server.rows[t] \subseteq 1 .. Parts[t]
                         /\ server.rows[t] # {} => dbt[t].schema_state \notin BeforeCreated

(* The jobs handed out and not restored yet are all in J.                  *)
JobsWithin(J) ==
    data_job_queue \in Seq(J) /\ \A l \in Loaders : loader[l].pc = "load" => loader[l].job \in J
PartJobs == {j \in DataJobs : j.of \in Tables => j.part \in 1 .. Parts[j.of]}
PartJobsOK == JobsWithin(PartJobs)

StateInv == SchemaExact /\ AwayOK /\ UnreadOK /\ IndexJobsOK /\ RowsOK /\ PartJobsOK

(* Every file of a table that is not skipped is somewhere on its way to    *)
(* the rows of the table.                                                  *)
InFiles(t, p) == File("data", t, p) \in files
InHands(t, p) == \E w \in FileWorkers : Holds(w) /\ file_worker[w].job = File("data", t, p)
InList(t, p) == p \in dbt[t].restore_job_list
InQueue(t, p) == Items(data_job_queue, {DataJob(t, p)}) > 0
InLoad(t, p) == \E l \in Loaders : loader[l] = At("load", DataJob(t, p))
InRows(t, p) == p \in server.rows[t]
Somewhere(t, p) ==
    \/ InFiles(t, p) \/ InHands(t, p) \/ InList(t, p) \/ InQueue(t, p) \/ InLoad(t, p) \/ InRows(t, p)
PartsOK ==
    \A t \in options.tables : dbt[t].no_data \/ \A p \in 1 .. Parts[t] : Somewhere(t, p)

(* Who has ended, by what main and the dispatcher have seen.               *)
EndedOK ==
    /\ (\E w \in FileWorkers : file_worker[w].pc = "left") => files = {}
    /\ files_ended => \A w \in FileWorkers : file_worker[w].pc = "left"
    /\ main # "schema" => files_ended /\ \A w \in SchemaWorkers : schema_worker[w].pc = "left"
    /\ Items(data_control_queue, {"FILE_TYPE_ENDED"}) > 0 => main # "schema"
    /\ all_jobs_are_enqueued => main # "schema"
    /\ dispatcher \in {"join", "left"} => all_jobs_are_enqueued
    /\ main \in {"index", "done"} => dispatcher = "left"

(* A table no file has named yet has all its files unread.                 *)
UnnamedOK ==
    \A t \in options.tables \ table_hash :
        /\ \A p \in 1 .. Parts[t] : File("data", t, p) \in files
        /\ t \in SchemaFiles => File("table", t, 0) \in files
        /\ t \in SequenceObjects => File("sequence", t, 0) \in files

DoneOK ==
    \A t \in Tables : dbt[t].schema_state \in DataDone /\ ~dbt[t].no_data
                          => server.rows[t] = 1 .. Parts[t]
FinishOK ==
    dispatcher \in {"join", "left"} => \A t \in table_hash : VotesForFinish(t, dbt[t])
IndexTimeOK ==
    options.all_tables /\ (server.indexes # {} \/ \E i \in IndexWorkers : index_worker[i].pc = "build")
        => dispatcher = "left"

DataInv == PartsOK /\ UnnamedOK /\ DoneOK /\ FinishOK /\ IndexTimeOK

(* What the server has of a table that is created or indexed.              *)
ServerOK ==
    \A t \in Tables :
        /\ dbt[t].schema_state \notin BeforeCreated /\ t \in SchemaFiles \cup SequenceObjects
              => t \in server.tables
        /\ server.rows[t] # {} => t \in server.tables
        /\ dbt[t].schema_state = "ALL_DONE" /\ t \in Indexed /\ ~dbt[t].no_data
              => t \in server.indexes
        /\ dbt[t].no_data => t \in SchemaFiles

(* The tables that wait for their indexes stand in front of the SHUTDOWNs. *)
Stopping(i) == index_worker[i].job = "SHUTDOWN" \/ index_worker[i].pc = "left"
ShutdownOK ==
    /\ \A a, b \in 1 .. Len(index_queue) :
          a < b /\ index_queue[a] = "SHUTDOWN" => index_queue[b] = "SHUTDOWN"
    /\ \A k \in 1 .. Len(index_queue) : index_queue[k] = "SHUTDOWN" => main \in {"index", "done"}
    /\ \A i \in IndexWorkers : Stopping(i) =>
          /\ main \in {"index", "done"}
          /\ \A k \in 1 .. Len(index_queue) : index_queue[k] = "SHUTDOWN"
    /\ main = "done" => \A i \in IndexWorkers : index_worker[i].pc = "left"
QueuedOK ==
    \A t \in Tables : dbt[t].schema_state = "INDEX_ENQUEUED" =>
        \/ Items(index_queue, {t}) > 0
        \/ \E i \in IndexWorkers : index_worker[i] = At("build", t)

(* The schema file of a table is unread, being read, or its table marked.  *)
ReadOK ==
    /\ \A t \in options.tables \cap SchemaFiles :
          \/ File("table", t, 0) \in files
          \/ \E w \in FileWorkers : Reading(w) /\ file_worker[w].job.of = t
          \/ dbt[t].schema_state # "NOT_FOUND"
    /\ \A t \in options.tables \cap SequenceObjects :
          File("sequence", t, 0) \in files \/ dbt[t].schema_state # "NOT_FOUND"

(* With SKIP a table that was on the server is never created nor loaded.   *)
Skipped(E) == E \cap SchemaFiles
UnskippedJobs(E) == {j \in DataJobs : j.of \notin Skipped(E)}
SkipOK ==
    options.purge_mode = "SKIP" =>
        /\ JobsWithin(UnskippedJobs(options.existing))
        /\ \A w \in SchemaWorkers : schema_worker[w].pc # "created"
        /\ \A t \in Skipped(options.existing) :
              /\ t \in server.tables /\ t \notin server.indexes /\ server.rows[t] = {}
              /\ dbt[t].schema_state \notin BeforeCreated => dbt[t].no_data

EndInv == ServerOK /\ ShutdownOK /\ QueuedOK /\ ReadOK /\ SkipOK

=============================================================================
