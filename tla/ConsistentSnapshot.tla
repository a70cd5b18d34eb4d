------------------------- MODULE ConsistentSnapshot -------------------------
(***************************************************************************)
(* How mydumper makes N connections read one point in time of the server:  *)
(* start_dump (mydumper_start_dump.c) takes a global lock or none, starts  *)
(* the workers, waits at a chain of barriers and releases the lock; every  *)
(* worker (working_thread, mydumper_working_thread.c) opens a consistent   *)
(* snapshot, and in the GTID mode the main thread compares the positions   *)
(* of all snapshots and makes the workers try again until they agree.      *)
(*                                                                         *)
(* The server is external: it is a position pos that a commit advances,    *)
(* and a commit is only possible while no global lock is held.  A snapshot *)
(* or a LOCK TABLES ... READ LOCAL shows the data of the position at which *)
(* it was taken.  LOCK TABLES commits the transaction of the connection it *)
(* is sent on: a worker's snapshot ends with it, and what that worker      *)
(* reads later is of the position the server has by then.  Which jobs the  *)
(* queues carry is modelled in DumpPhases and ChunkBuilder; here only the  *)
(* barriers and what is read count.                                        *)
(***************************************************************************)
EXTENDS Integers, Sequences, FiniteSets

CONSTANTS
    Workers,     \* the worker threads, num_threads of them
    SyncModes,   \* the values of --sync-thread-lock-mode that are explored
    MaxRetries,  \* MAX_START_TRANSACTION_RETRIES
    MaxPos,      \* bound: commits the server accepts during the backup
    None         \* no snapshot, no table lock, no position yet

(* AUTO, FTWRL and LOCK_ALL all end up holding a lock that stops commits   *)
(* and are one mode, "LOCK", here.                                         *)
Modes == {"LOCK", "GTID", "SAFE_NO_LOCK", "NO_LOCK"}

(* The GAsyncQueues whose items carry no data: a worker or the main thread *)
(* only counts them.  "initial", "schema" and "post_data" count the        *)
(* JOB_SHUTDOWN jobs of the queues of these names.                         *)
Tokens == {"gtid_pos_checked", "ready", "source_and_replica_status",
           "initial", "initial_completed", "schema",
           "ready_non_transactional", "unlock_tables", "post_data"}

N == Cardinality(Workers)

ASSUME ConstantsAssumption ==
    /\ IsFiniteSet(Workers) /\ Workers # {}
    /\ SyncModes \subseteq Modes
    /\ MaxRetries \in Nat \ {0}
    /\ MaxPos \in Nat
    /\ None \notin Nat

VARIABLES
    mode,        \* sync_thread_lock_mode
    trx_tables,  \* every table is said to be transactional
    lock_tables_statement,   \* there will be a LOCK TABLES statement
    no_data,     \* --no-data
    pos,         \* server: its binlog position
    global_lock, \* server: FTWRL, BACKUP STAGE or LOCK TABLES of the main thread
    main,        \* where start_dump is
    round,       \* start_transaction_retry in start_working_thread
    initial_source, \* initial_source_log/pos/gtid
    source_info, \* the [source] section of the metadata file
    status_job,  \* JOB_WRITE_SOURCE_AND_REPLICA_STATUS is in initial_queue
    thread,      \* where each working_thread is
    snapshot,    \* the position of each worker's transaction
    retry,       \* start_transaction_retry of each worker
    table_locks, \* the position each worker's LOCK TABLES froze
    queue,       \* how many items are in each queue of Tokens
    are_all_threads_in_same_pos, \* the queue of answers, 1 or 2
    transactional_read,     \* positions the exported transactional rows are of
    non_transactional_read, \* positions the other exported rows are of
    checksums    \* positions the checksums of non-transactional tables are of

config == <<mode, trx_tables, lock_tables_statement, no_data>>
server == <<pos, global_lock>>
sync   == <<round, retry, are_all_threads_in_same_pos>>
files  == <<transactional_read, non_transactional_read, checksums>>
source == <<initial_source, source_info, status_job>>
vars   == <<config, server, sync, files, source, main, thread, snapshot,
            table_locks, queue>>

Locking == mode \notin {"NO_LOCK", "SAFE_NO_LOCK"}

(* The process ends, with exit(EXIT_FAILURE), in "failed".                 *)
MainPhases == {"lock", "position", "sync", "ready", "status", "trx_unlock",
               "initial", "completed", "unlock_tables", "post_data", "join",
               "done", "failed"}

ThreadPhases == {"none", "start", "checking", "initial", "schema", "waiting",
                 "non_transactional", "transactional", "post_data", "end"}

(* One type invariant: in particular no queue is ever popped below zero.   *)
TypeOK ==
    /\ mode \in SyncModes /\ {trx_tables, no_data} \subseteq BOOLEAN
    /\ lock_tables_statement \in BOOLEAN
    /\ pos \in 0 .. MaxPos /\ global_lock \in BOOLEAN
    /\ main \in MainPhases
    /\ round \in 0 .. MaxRetries
    /\ {initial_source, source_info} \subseteq Nat \cup {None}
    /\ status_job \in BOOLEAN
    /\ thread \in [Workers -> ThreadPhases]
    /\ snapshot \in [Workers -> Nat \cup {None}]
    /\ retry \in [Workers -> 0 .. MaxRetries]
    /\ table_locks \in [Workers -> Nat \cup {None}]
    /\ queue \in [Tokens -> 0 .. 2 * N]
    /\ are_all_threads_in_same_pos \in Seq({1, 2})
    /\ transactional_read \subseteq Nat /\ non_transactional_read \subseteq Nat
    /\ checksums \subseteq Nat

(* initialize_start_dump: the two modes without a lock imply --trx-tables. *)
(* Without it a LOCK TABLES statement is built if the list                 *)
(* non_transactional_table is not empty: a table of another engine than    *)
(* InnoDB and TokuDB is dumped, or a view with --views-as-tables.          *)
Init ==
    /\ mode \in SyncModes
    /\ trx_tables \in {t \in BOOLEAN : Locking \/ t}
    /\ lock_tables_statement \in {t \in BOOLEAN : ~trx_tables \/ ~t}
    /\ no_data \in BOOLEAN
    /\ pos = 0 /\ global_lock = FALSE
    /\ main = "lock" /\ round = 0
    /\ initial_source = None /\ source_info = None /\ status_job = FALSE
    /\ thread = [w \in Workers |-> "none"]
    /\ snapshot = [w \in Workers |-> None]
    /\ retry = [w \in Workers |-> 0]
    /\ table_locks = [w \in Workers |-> None]
    /\ queue = [q \in Tokens |-> 0]
    /\ are_all_threads_in_same_pos = <<>>
    /\ transactional_read = {} /\ non_transactional_read = {}
    /\ checksums = {}

Pushed(q, n) == [queue EXCEPT ![q] = @ + n]

Popped(q, n) == [queue EXCEPT ![q] = @ - n]

-----------------------------------------------------------------------------
(* The server commits a transaction or a write to a non-transactional      *)
(* table.  It may happen at any time no global lock is held.               *)
Commit ==
    /\ ~global_lock
    /\ pos < MaxPos
    /\ pos' = pos + 1
    /\ UNCHANGED <<config, global_lock, sync, files, source, main, thread,
                   snapshot, table_locks, queue>>

-----------------------------------------------------------------------------
(* start_dump selects and sends the locks, then queues the job that writes *)
(* the source status.                                                      *)
AcquireLocks ==
    /\ main = "lock"
    /\ global_lock' = (mode = "LOCK")
    /\ status_job' = TRUE
    /\ main' = "position"
    /\ UNCHANGED <<config, pos, sync, files, initial_source, source_info,
                   thread, snapshot, table_locks, queue>>

(* get_binlog_position, then start_working_thread creates the threads.     *)
StartWorkers ==
    /\ main = "position"
    /\ initial_source' = pos
    /\ thread' = [w \in Workers |-> "start"]
    /\ main' = IF mode = "GTID" THEN "sync" ELSE "ready"
    /\ UNCHANGED <<config, server, sync, files, source_info, status_job,
                   snapshot, table_locks, queue>>

(* One turn of the loop of start_working_thread: all the positions are     *)
(* read once N threads have reported theirs, and N answers are queued.     *)
ComparePositions ==
    LET same == \A v, w \in Workers : snapshot[v] = snapshot[w]
    IN  /\ main = "sync"
        /\ queue["gtid_pos_checked"] >= N
        /\ queue' = Popped("gtid_pos_checked", N)
        /\ are_all_threads_in_same_pos' = are_all_threads_in_same_pos
                \o [i \in 1 .. N |-> IF same THEN 1 ELSE 2]
        /\ round' = round + 1
        /\ main' = IF same \/ round + 1 = MaxRetries THEN "ready" ELSE "sync"
        /\ UNCHANGED <<config, server, retry, files, source, thread, snapshot,
                       table_locks>>

(* start_working_thread ends when N threads are ready.                     *)
AwaitReady ==
    /\ main = "ready"
    /\ queue["ready"] >= N
    /\ queue' = Popped("ready", N)
    /\ main' = "status"
    /\ UNCHANGED <<config, server, sync, files, source, thread, snapshot,
                   table_locks>>

(* The source status is written; the position is read again and a          *)
(* difference is fatal in SAFE_NO_LOCK only.                               *)
RecheckPosition ==
    /\ main = "status"
    /\ queue["source_and_replica_status"] >= 1
    /\ queue' = Popped("source_and_replica_status", 1)
    /\ main' = IF pos # initial_source /\ mode = "SAFE_NO_LOCK"
               THEN "failed" ELSE "trx_unlock"
    /\ UNCHANGED <<config, server, sync, files, source, thread, snapshot,
                   table_locks>>

(* With --trx-tables the global lock is released now.                      *)
ReleaseEarly ==
    /\ main = "trx_unlock"
    /\ global_lock' = (global_lock /\ ~trx_tables)
    /\ main' = "initial"
    /\ UNCHANGED <<config, pos, sync, files, source, thread, snapshot,
                   table_locks, queue>>

(* db_ready has been received: N JOB_SHUTDOWN go to initial_queue.         *)
ShutdownInitial ==
    /\ main = "initial"
    /\ queue' = Pushed("initial", N)
    /\ main' = "completed"
    /\ UNCHANGED <<config, server, sync, files, source, thread, snapshot,
                   table_locks>>

(* All workers have left initial_queue: schema_queue is closed, the LOCK   *)
(* TABLES statement is built and the workers may go on to the data.        *)
StartData ==
    /\ main = "completed"
    /\ queue["initial_completed"] >= N
    /\ queue' = [queue EXCEPT !["initial_completed"] = @ - N,
                              !["schema"] = @ + N,
                              !["ready_non_transactional"] = @ + N]
    /\ main' = IF Locking /\ ~trx_tables THEN "unlock_tables" ELSE "post_data"
    /\ UNCHANGED <<config, server, sync, files, source, thread, snapshot,
                   table_locks>>

(* Mutant: the lock goes when the first worker has locked its tables.      *)
ReleaseLateFirst ==
    /\ main = "unlock_tables"
    /\ queue["unlock_tables"] >= 1
    /\ queue' = Popped("unlock_tables", 1)
    /\ global_lock' = FALSE
    /\ main' = "post_data"
    /\ UNCHANGED <<config, pos, sync, files, source, thread, snapshot,
                   table_locks>>

(* Once N workers have pushed to unlock_tables the global lock goes.       *)
ReleaseLate ==
    /\ main = "unlock_tables"
    /\ queue["unlock_tables"] >= N
    /\ queue' = Popped("unlock_tables", N)
    /\ global_lock' = FALSE
    /\ main' = "post_data"
    /\ UNCHANGED <<config, pos, sync, files, source, thread, snapshot,
                   table_locks>>

ShutdownPostData ==
    /\ main = "post_data"
    /\ queue' = Pushed("post_data", N)
    /\ main' = "join"
    /\ UNCHANGED <<config, server, sync, files, source, thread, snapshot,
                   table_locks>>

(* wait_working_thread_to_finish *)
JoinWorkers ==
    /\ main = "join"
    /\ \A w \in Workers : thread[w] = "end"
    /\ main' = "done"
    /\ UNCHANGED <<config, server, sync, files, source, thread, snapshot,
                   table_locks, queue>>

Main ==
    \/ AcquireLocks \/ StartWorkers \/ ComparePositions \/ AwaitReady
    \/ RecheckPosition \/ ReleaseEarly \/ ShutdownInitial \/ StartData
    \/ ReleaseLate \/ ShutdownPostData \/ JoinWorkers

-----------------------------------------------------------------------------
Goes(w, phase) == thread' = [thread EXCEPT ![w] = phase]

(* initialize_consistent_snapshot in the GTID mode, up to the pop: a new   *)
(* transaction and its binlog_snapshot_gtid_executed.                      *)
TrySnapshot(w) ==
    /\ thread[w] = "start" /\ mode = "GTID"
    /\ snapshot' = [snapshot EXCEPT ![w] = pos]
    /\ retry' = [retry EXCEPT ![w] = @ + 1]
    /\ queue' = Pushed("gtid_pos_checked", 1)
    /\ Goes(w, "checking")
    /\ UNCHANGED <<config, server, round, are_all_threads_in_same_pos, files,
                   source, main, table_locks>>

(* The answer is 1: this thread is ready.                                  *)
SnapshotAccepted(w) ==
    /\ thread[w] = "checking"
    /\ are_all_threads_in_same_pos # <<>>
    /\ Head(are_all_threads_in_same_pos) = 1
    /\ are_all_threads_in_same_pos' = Tail(are_all_threads_in_same_pos)
    /\ queue' = Pushed("ready", 1)
    /\ Goes(w, "initial")
    /\ UNCHANGED <<config, server, round, retry, files, source, main,
                   snapshot, table_locks>>

(* Mutant: an answer that rejects is looked at but left in the queue.      *)
SnapshotRejectedPeek(w) ==
    /\ thread[w] = "checking"
    /\ are_all_threads_in_same_pos # <<>>
    /\ Head(are_all_threads_in_same_pos) = 2
    /\ UNCHANGED are_all_threads_in_same_pos
    /\ IF retry[w] < MaxRetries
         THEN Goes(w, "start") /\ UNCHANGED main
         ELSE main' = "failed" /\ UNCHANGED thread
    /\ UNCHANGED <<config, server, round, retry, files, source, snapshot,
                   table_locks, queue>>

(* Mutant: the worker's loop allows one try more than the main thread's.   *)
SnapshotRejectedOneMore(w) ==
    /\ thread[w] = "checking"
    /\ are_all_threads_in_same_pos # <<>>
    /\ Head(are_all_threads_in_same_pos) = 2
    /\ are_all_threads_in_same_pos' = Tail(are_all_threads_in_same_pos)
    /\ IF retry[w] <= MaxRetries
         THEN Goes(w, "start") /\ UNCHANGED main
         ELSE main' = "failed" /\ UNCHANGED thread
    /\ UNCHANGED <<config, server, round, retry, files, source, snapshot,
                   table_locks, queue>>

(* The answer is 2: once more, or m_critical when the retries are used up. *)
SnapshotRejected(w) ==
    /\ thread[w] = "checking"
    /\ are_all_threads_in_same_pos # <<>>
    /\ Head(are_all_threads_in_same_pos) = 2
    /\ are_all_threads_in_same_pos' = Tail(are_all_threads_in_same_pos)
    /\ IF retry[w] < MaxRetries
         THEN Goes(w, "start") /\ UNCHANGED main
         ELSE main' = "failed" /\ UNCHANGED thread
    /\ UNCHANGED <<config, server, round, retry, files, source, snapshot,
                   table_locks, queue>>

(* initialize_consistent_snapshot in the other modes: START TRANSACTION,   *)
(* except in NO_LOCK, and then the thread is ready.                        *)
OpenSnapshot(w) ==
    /\ thread[w] = "start" /\ mode # "GTID"
    /\ snapshot' = IF mode = "NO_LOCK" THEN snapshot
                   ELSE [snapshot EXCEPT ![w] = pos]
    /\ queue' = Pushed("ready", 1)
    /\ Goes(w, "initial")
    /\ UNCHANGED <<config, server, sync, files, source, main, table_locks>>

(* JOB_WRITE_SOURCE_AND_REPLICA_STATUS: write_source_info.                 *)
WriteSourceInfo(w) ==
    /\ thread[w] = "initial" /\ status_job
    /\ status_job' = FALSE
    /\ source_info' = initial_source
    /\ queue' = Pushed("source_and_replica_status", 1)
    /\ UNCHANGED <<config, server, sync, files, initial_source, main, thread,
                   snapshot, table_locks>>

(* JOB_SHUTDOWN of initial_queue, which is behind the status job.          *)
EndInitial(w) ==
    /\ thread[w] = "initial" /\ ~status_job
    /\ queue["initial"] >= 1
    /\ queue' = [queue EXCEPT !["initial"] = @ - 1,
                              !["initial_completed"] = @ + 1]
    /\ Goes(w, "schema")
    /\ UNCHANGED <<config, server, sync, files, source, main, snapshot,
                   table_locks>>

(* JOB_SHUTDOWN of schema_queue.  With --no-data the thread leaves the     *)
(* data out and only tells the main thread that it needs no lock.          *)
EndSchema(w) ==
    /\ thread[w] = "schema"
    /\ queue["schema"] >= 1
    /\ queue' = [queue EXCEPT !["schema"] = @ - 1,
                 ![IF no_data THEN "unlock_tables" ELSE "ready"] = @ + 1]
    /\ Goes(w, IF no_data THEN "post_data" ELSE "waiting")
    /\ UNCHANGED <<config, server, sync, files, source, main, snapshot,
                   table_locks>>

(* LOCK TABLES over all the non-transactional tables, when there are any:  *)
(* it is sent on td->thrconn, whose transaction it commits.  With          *)
(* --trx-tables the thread goes straight to the transactional tables; a    *)
(* view that it still finds in the other queue is read in the snapshot as  *)
(* they are.                                                               *)
LockTables(w) ==
    /\ thread[w] = "waiting"
    /\ queue["ready_non_transactional"] >= 1
    /\ queue' = [queue EXCEPT !["ready_non_transactional"] = @ - 1,
                              !["unlock_tables"] = @ + 1]
    /\ IF lock_tables_statement
         THEN /\ table_locks' = [table_locks EXCEPT ![w] = pos]
              /\ snapshot' = [snapshot EXCEPT ![w] = None]
         ELSE UNCHANGED <<table_locks, snapshot>>
    /\ Goes(w, IF trx_tables THEN "transactional" ELSE "non_transactional")
    /\ UNCHANGED <<config, server, sync, files, source, main>>

(* What a SELECT on a table of each kind returns to worker w.              *)
NonTransactionalView(w) == IF table_locks[w] = None THEN pos ELSE table_locks[w]

TransactionalView(w) == IF snapshot[w] = None THEN pos ELSE snapshot[w]

(* A chunk of a non-transactional table is dumped.                         *)
DumpNonTransactional(w) ==
    /\ thread[w] = "non_transactional" /\ lock_tables_statement
    /\ non_transactional_read' = non_transactional_read
            \cup {NonTransactionalView(w)}
    /\ UNCHANGED <<config, server, sync, transactional_read, checksums, source,
                   main, thread, snapshot, table_locks, queue>>

(* The non-transactional queues are closed for this worker: UNLOCK TABLES. *)
(* It commits only where LOCK TABLES was sent, and there the transaction   *)
(* is gone already; no new one is started.                                 *)
UnlockTables(w) ==
    /\ thread[w] = "non_transactional"
    /\ table_locks' = [table_locks EXCEPT ![w] = None]
    /\ Goes(w, "transactional")
    /\ UNCHANGED <<config, server, sync, files, source, main, snapshot, queue>>

DumpTransactional(w) ==
    /\ thread[w] = "transactional"
    /\ transactional_read' = transactional_read \cup {TransactionalView(w)}
    /\ UNCHANGED <<config, server, sync, non_transactional_read, checksums,
                   source, main, thread, snapshot, table_locks, queue>>

EndTransactional(w) ==
    /\ thread[w] = "transactional"
    /\ Goes(w, "post_data")
    /\ UNCHANGED <<config, server, sync, files, source, main, snapshot,
                   table_locks, queue>>

(* JOB_CHECKSUM of a non-transactional table: CHECKSUM TABLE in the        *)
(* post_data phase.                                                        *)
ChecksumTable(w) ==
    /\ thread[w] = "post_data"
    /\ ~no_data /\ lock_tables_statement
    /\ checksums' = checksums \cup {NonTransactionalView(w)}
    /\ UNCHANGED <<config, server, sync, transactional_read,
                   non_transactional_read, source, main, thread, snapshot,
                   table_locks, queue>>

EndPostData(w) ==
    /\ thread[w] = "post_data"
    /\ queue["post_data"] >= 1
    /\ queue' = Popped("post_data", 1)
    /\ Goes(w, "end")
    /\ UNCHANGED <<config, server, sync, files, source, main, snapshot,
                   table_locks>>

Worker(w) ==
    /\ main # "failed"
    /\ \/ TrySnapshot(w) \/ SnapshotAccepted(w) \/ SnapshotRejected(w)
       \/ OpenSnapshot(w) \/ WriteSourceInfo(w) \/ EndInitial(w)
       \/ EndSchema(w) \/ LockTables(w) \/ DumpNonTransactional(w)
       \/ UnlockTables(w) \/ DumpTransactional(w) \/ EndTransactional(w)
       \/ ChecksumTable(w) \/ EndPostData(w)

(* The process has ended. *)
Ended == main \in {"done", "failed"} /\ UNCHANGED vars

Next == Commit \/ Main \/ (\E w \in Workers : Worker(w)) \/ Ended

Spec == Init /\ [][Next]_vars

(* The code's threads run until they block: every process that can take a  *)
(* step eventually does.  Nothing is assumed of the server's commits.      *)
FairSpec == Spec /\ WF_vars(Main) /\ \A w \in Workers : WF_vars(Worker(w))

-----------------------------------------------------------------------------
(* A worker that sends LOCK TABLES loses its snapshot by it.               *)
KeepsSnapshots == ~lock_tables_statement

(* A backup is consistent.  As long as no table needs LOCK TABLES, all     *)
(* transactional rows that worker threads export are of one server         *)
(* position, in every mode but NO_LOCK; with the global lock, and in       *)
(* SAFE_NO_LOCK because of the second look at the binlog position, it is   *)
(* the position that write_source_info put in the metadata file.  In any   *)
(* of these modes they are never of an earlier position than that one.     *)
(* With the global lock the rows of non-transactional tables are of the    *)
(* position in the metadata, although the lock is gone while they are      *)
(* read.                                                                   *)
Consistent ==
    /\ mode # "NO_LOCK" /\ KeepsSnapshots => Cardinality(transactional_read) <= 1
    /\ mode \in {"LOCK", "SAFE_NO_LOCK"} /\ KeepsSnapshots =>
          transactional_read \subseteq {source_info}
    /\ mode # "NO_LOCK" => \A p \in transactional_read : source_info <= p
    /\ mode = "LOCK" => non_transactional_read \subseteq {source_info}

(* README.md: mydumper "maintains snapshot across all threads": under the  *)
(* global lock all transactional rows are of one position, whatever other  *)
(* tables the dump holds.  LOCK TABLES on the workers' own connections     *)
(* refutes it.                                                             *)
SnapshotMaintained == mode = "LOCK" => Cardinality(transactional_read) <= 1

(* start_working_thread reads td->binlog_snapshot_gtid_executed of every   *)
(* worker without a lock.  That is sound because then every worker waits   *)
(* for an answer and no answer of an earlier round is left, even though a  *)
(* fast worker may have taken the answers meant for the others.            *)
ComparedAtRest ==
    (main = "sync" /\ queue["gtid_pos_checked"] >= N) =>
        /\ \A w \in Workers : thread[w] = "checking"
        /\ are_all_threads_in_same_pos = <<>>

(* start_dump ends, with a backup or with an error: no barrier waits for a *)
(* token that nobody sends, whatever the mode and however the retries of   *)
(* the GTID mode are spread over the workers.                              *)
Termination == <>(main \in {"done", "failed"})

=============================================================================
