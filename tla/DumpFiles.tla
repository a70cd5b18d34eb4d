----------------------------- MODULE DumpFiles -----------------------------
(***************************************************************************)
(* The files of a dump on their way out: the worker threads that write     *)
(* them (RowWriter, SchemaJobs), the file handler                          *)
(* (src/mydumper/mydumper_file_handler.c), with --compress or              *)
(* --exec-per-thread a child process per file and the threads that close   *)
(* its pipe, --exec's command threads (mydumper_exec_command.c), the       *)
(* stream and the writer of partial metadata (mydumper_stream.c), and the  *)
(* beginning and the end of start_dump, which start and stop all of them.  *)
(*                                                                         *)
(* A file's text is written by one thread and seen by others only after    *)
(* m_close, so m_open puts it all on disk at once; `complete' says that no *)
(* process still has a part of it in its buffers.                          *)
(***************************************************************************)
EXTENDS RowWriter, SchemaJobs, FiniteSets

CONSTANTS
    Workers,        \* the worker threads
    CloseThreads,   \* the close_file_threads (NUM_CLOSE_FILE_THREADS)
    ExecThreads,    \* the exec_command_threads (num_exec_threads)
    Scenarios,      \* option settings, jobs and faults, see Scenario
    MaxPartials     \* bound on the metadata.partial files

ASSUME ThreadsAssumption ==
    /\ Workers # {} /\ IsFiniteSet(Workers)
    /\ CloseThreads # {} /\ IsFiniteSet(CloseThreads)
    /\ MaxPartials \in Nat

VARIABLES
    scenario,         \* what this run of mydumper was asked to do
    jobs,             \* the queues of schema and of data jobs left
    td,               \* the worker threads
    disk,             \* the dump directory: the files in it
    failed,           \* some query or write failed (then `errors' or a warning)
    available_pids,   \* the number of tokens for child processes
    fifo_hash,        \* the files opened through a pipe
    close_queue,      \* close_file_queue
    cft,              \* the close_file_threads
    exec,             \* exec_queue, the exec threads and their children
    stream_queue,
    streamed,         \* what process_stream has written to stdout
    stream_ended,     \* process_stream has returned
    acks,             \* the threads whose `done' queue was pushed
    metadata,         \* the initial metadata barrier and the partial writer
    rows,             \* dbt->rows
    main,             \* where start_dump is
    crashed           \* the process was ended by g_error or m_error

handlerVars == <<available_pids, fifo_hash, close_queue, cft>>
streamVars == <<stream_queue, streamed, stream_ended, acks>>
vars == <<scenario, jobs, td, disk, failed, handlerVars, exec, streamVars, metadata,
          rows, main, crashed>>

pipe == scenario.pipe
stream == scenario.stream
no_sync == scenario.no_sync

\* The files that start_dump and the metadata writer make by themselves.
Metadata(name, part) == [name |-> name, table |-> NoTable, part |-> part]

Nobody == "nobody"                              \* no `done' queue
EndOfStream == Metadata("", 0)                  \* the empty file name
EndOfQueue == Close(EndOfStream, 0, NoTable)    \* the fifo with gpid -10
WakeUp == "wake up"                             \* GINT_TO_POINTER(1)

-----------------------------------------------------------------------------
(* What the workers do *)

DataFile(job, name, f) ==
    [name |-> name, table |-> job.table, part |-> f.part, sub_part |-> f.sub_part,
     chunk |-> job.chunk]

\* The m_open and m_close calls for the files of a table job: the rows file
\* is opened first and closed last.
FileOps(job, format, f) ==
    LET data == DataFile(job, "rows", f)
        sql == DataFile(job, "sql", f)
    IN IF format = "SQL_INSERT"
       THEN <<Open(data, f.statements), Close(data, f.size, job.table)>>
       ELSE <<Open(data, f.statements), Open(sql, f.loads),
              Close(sql, f.size, job.table), Close(data, f.size, job.table)>>

DataOps(job, format, files) ==
    FoldLeft(LAMBDA ops, f : ops \o FileOps(job, format, f), <<>>, files)

\* A job in the queue, with what it will do under each fault: RowWriter has
\* no state, so this is known from the start.
Queued(s, job) ==
    [table |-> job.table,
     result |-> [fault \in s.faults |->
                   LET written == TableJob(s.format, job.steps, job.fixed, fault)
                   IN [ops |-> DataOps(job, s.format, written.files), rows |-> written.rows]]]

\* process_queue(schema_queue)
TakeSchemaJob(t) ==
    /\ td[t].at = "schema" /\ td[t].ops = <<>>
    /\ main.at = "join"
    /\ jobs.schema # <<>>
    /\ \E outcome \in scenario.outcomes :
         /\ td' = [td EXCEPT ![t].ops = SchemaJob(Head(jobs.schema), outcome)]
         /\ failed' = (failed \/ outcome # "ok")
    /\ jobs' = [jobs EXCEPT !.schema = Tail(@)]
    /\ UNCHANGED <<scenario, disk, handlerVars, exec, streamVars, metadata, rows, main, crashed>>

\* send_initial_metadata: one push for every worker, and no data before the
\* answer.
EndSchema(t) ==
    /\ td[t].at = "schema" /\ td[t].ops = <<>>
    /\ main.at = "join"
    /\ jobs.schema = <<>>
    /\ td' = [td EXCEPT ![t].at = IF stream THEN "initial" ELSE "data"]
    /\ metadata' = IF stream THEN [metadata EXCEPT !.initial = @ + 1] ELSE metadata
    /\ UNCHANGED <<scenario, jobs, disk, failed, handlerVars, exec, streamVars, rows, main,
                   crashed>>

InitialMetadataSent(t) ==
    /\ td[t].at = "initial"
    /\ metadata.lock > 0
    /\ td' = [td EXCEPT ![t].at = "data"]
    /\ metadata' = [metadata EXCEPT !.lock = @ - 1]
    /\ UNCHANGED <<scenario, jobs, disk, failed, handlerVars, exec, streamVars, rows, main,
                   crashed>>

TakeDataJob(t) ==
    /\ td[t].at = "data" /\ td[t].ops = <<>>
    /\ jobs.data # <<>>
    /\ \E fault \in scenario.faults :
         LET job == Head(jobs.data)
         IN /\ td' = [td EXCEPT ![t].ops = job.result[fault].ops]
            /\ rows' = [rows EXCEPT ![job.table] = @ + job.result[fault].rows]
            /\ failed' = (failed \/ fault # "none")
    /\ jobs' = [jobs EXCEPT !.data = Tail(@)]
    /\ UNCHANGED <<scenario, disk, handlerVars, exec, streamVars, metadata, main, crashed>>

EndWorker(t) ==
    /\ td[t].at = "data" /\ td[t].ops = <<>>
    /\ jobs.data = <<>>
    /\ td' = [td EXCEPT ![t].at = "ended"]
    /\ UNCHANGED <<scenario, jobs, disk, failed, handlerVars, exec, streamVars, metadata,
                   rows, main, crashed>>
-----------------------------------------------------------------------------
(* m_open and m_close *)

Op(t) == Head(td[t].ops)
Calls(t, op) == td[t].wait = "none" /\ td[t].ops # <<>> /\ Op(t).op = op
OpDone(t) == [td EXCEPT ![t].ops = Tail(@), ![t].wait = "none"]

OnDisk(file, data, state) == (file :> [data |-> data, state |-> state]) @@ disk
Removed(file) == [f \in DOMAIN disk \ {file} |-> disk[f]]

\* The states in which the whole text of a file is in the dump directory.
Complete == {"complete", "reaped", "closed"}

\* m_open_file
OpenFile(t) ==
    /\ Calls(t, "open") /\ ~pipe
    /\ disk' = OnDisk(Op(t).file, Op(t).data, "open")
    /\ td' = OpDone(t)
    /\ UNCHANGED <<scenario, jobs, failed, handlerVars, exec, streamVars, metadata, rows,
                   main, crashed>>

\* m_open_pipe: a name is used once only, and a child needs a token.  A fork
\* that fails is not noticed.
OpenPipe(t) ==
    /\ Calls(t, "open") /\ pipe
    /\ Op(t).file \notin fifo_hash
    /\ available_pids > 0
    /\ available_pids' = available_pids - 1
    /\ fifo_hash' = fifo_hash \cup {Op(t).file}
    /\ \E state \in (IF scenario.fork_fails THEN {"open", "no child"} ELSE {"open"}) :
         disk' = OnDisk(Op(t).file, Op(t).data, state)
    /\ td' = OpDone(t)
    /\ UNCHANGED <<scenario, jobs, failed, close_queue, cft, exec, streamVars, metadata,
                   rows, main, crashed>>

OpenTwice(t) ==
    /\ Calls(t, "open") /\ pipe
    /\ Op(t).file \in fifo_hash
    /\ crashed' = TRUE
    /\ UNCHANGED <<scenario, jobs, td, disk, failed, handlerVars, exec, streamVars, metadata,
                   rows, main>>

\* metadata_partial_queue_push
PartialPushed(dbt) ==
    IF dbt = NoTable THEN metadata ELSE [metadata EXCEPT !.queue = Append(@, dbt)]

\* stream_queue_push up to the wait for the answer.
StreamPush(thread, file) ==
    stream_queue' = Append(stream_queue,
                           [file |-> file, waiter |-> IF no_sync THEN Nobody ELSE thread])

\* m_close_file: what is empty is removed, the rest goes to --exec or to the
\* stream, or just stays.
CloseEmpty(t) ==
    /\ Calls(t, "close") /\ ~pipe
    /\ Op(t).size = 0
    /\ disk' = IF scenario.build_empty_files
               THEN [disk EXCEPT ![Op(t).file].state = "closed"] ELSE Removed(Op(t).file)
    /\ td' = OpDone(t)
    /\ UNCHANGED <<scenario, jobs, failed, handlerVars, exec, streamVars, metadata, rows,
                   main, crashed>>

CloseFile(t) ==
    /\ Calls(t, "close") /\ ~pipe
    /\ Op(t).size > 0
    /\ disk' = [disk EXCEPT ![Op(t).file].state = "closed"]
    /\ \/ /\ scenario.exec
          /\ exec' = [exec EXCEPT !.queue = Append(@, [file |-> Op(t).file, waiter |-> t])]
          /\ td' = [td EXCEPT ![t].wait = "exec"]
          /\ UNCHANGED <<stream_queue, metadata>>
       \/ /\ stream
          /\ StreamPush(t, Op(t).file)
          /\ td' = IF no_sync THEN OpDone(t) ELSE [td EXCEPT ![t].wait = "ack"]
          /\ metadata' = IF no_sync THEN PartialPushed(Op(t).dbt) ELSE metadata
          /\ UNCHANGED exec
       \/ /\ ~scenario.exec /\ ~stream
          /\ td' = OpDone(t)
          /\ UNCHANGED <<exec, stream_queue, metadata>>
    /\ UNCHANGED <<scenario, jobs, failed, handlerVars, streamed, stream_ended, acks, rows,
                   main, crashed>>

\* Mutant: the writer does not wait for its child.
ClosePipeNow(t) ==
    /\ Calls(t, "close") /\ pipe
    /\ available_pids' = available_pids + 1
    /\ close_queue' = Append(close_queue, Op(t))
    /\ td' = OpDone(t)
    /\ UNCHANGED <<scenario, jobs, disk, failed, fifo_hash, cft, exec, streamVars, metadata,
                   rows, main, crashed>>

\* m_close_pipe and close_file_queue_push: the token is given back at once;
\* without a child there is nothing to wait for, and out_mutex stays locked.
ClosePipe(t) ==
    /\ Calls(t, "close") /\ pipe
    /\ available_pids' = available_pids + 1
    /\ close_queue' = Append(close_queue, Op(t))
    /\ td' = IF disk[Op(t).file].state = "no child" THEN OpDone(t)
             ELSE [td EXCEPT ![t].wait = "child"]
    /\ UNCHANGED <<scenario, jobs, disk, failed, fifo_hash, cft, exec, streamVars, metadata,
                   rows, main, crashed>>

\* waitpid gives the writer its child, and it unlocks out_mutex.
ReapChild(t) ==
    /\ td[t].wait = "child"
    /\ disk[Op(t).file].state = "complete"
    /\ disk' = [disk EXCEPT ![Op(t).file].state = "reaped"]
    /\ td' = OpDone(t)
    /\ UNCHANGED <<scenario, jobs, failed, handlerVars, exec, streamVars, metadata, rows,
                   main, crashed>>

\* g_async_queue_pop(done)
Acknowledged(t) ==
    /\ td[t].wait \in {"ack", "exec"}
    /\ t \in acks
    /\ acks' = acks \ {t}
    /\ metadata' = IF td[t].wait = "ack" THEN PartialPushed(Op(t).dbt) ELSE metadata
    /\ td' = OpDone(t)
    /\ UNCHANGED <<scenario, jobs, disk, failed, handlerVars, exec, stream_queue, streamed,
                   stream_ended, rows, main, crashed>>

-----------------------------------------------------------------------------
(* close_file_thread *)

PopClose(c) ==
    /\ cft[c].at = "idle"
    /\ close_queue # <<>>
    /\ close_queue' = Tail(close_queue)
    /\ IF Head(close_queue) = EndOfQueue
       THEN /\ cft' = [cft EXCEPT ![c].at = "ended"]
            /\ UNCHANGED disk
       ELSE /\ cft' = [cft EXCEPT ![c] = [at |-> "lock", f |-> Head(close_queue)]]
            /\ disk' = [disk EXCEPT ![Head(close_queue).file].state =
                                       IF @ = "open" THEN "eof" ELSE @]
    /\ UNCHANGED <<scenario, jobs, td, failed, available_pids, fifo_hash, exec, streamVars,
                   metadata, rows, main, crashed>>

\* The child reads to the end of its pipe, writes its output and ends.
ChildEnds(file) ==
    /\ disk[file].state = "eof"
    /\ disk' = [disk EXCEPT ![file].state = "complete"]
    /\ UNCHANGED <<scenario, jobs, td, failed, handlerVars, exec, streamVars, metadata, rows,
                   main, crashed>>

\* Mutant: out_mutex is waited for only before a file is removed.
OutMutexFreeForRows(f) == f.size > 0 \/ disk[f.file].state = "reaped"

\* The writer has unlocked out_mutex.
OutMutexFree(f) == disk[f.file].state = "reaped"

\* fsync, close, a second token, and final_step_close_file.
FinalStep(c) ==
    LET f == cft[c].f
        idle == [cft EXCEPT ![c].at = "idle"]
    IN /\ cft[c].at = "lock"
       /\ OutMutexFree(f)
       /\ available_pids' = available_pids + 1
       /\ \/ /\ f.size > 0 /\ stream
             /\ StreamPush(c, f.file)
             /\ cft' = IF no_sync THEN idle ELSE [cft EXCEPT ![c].at = "ack"]
             /\ metadata' = IF no_sync THEN PartialPushed(f.dbt) ELSE metadata
             /\ UNCHANGED disk
          \/ /\ f.size > 0 /\ ~stream
             /\ cft' = idle
             /\ disk' = [disk EXCEPT ![f.file].state = "closed"]
             /\ UNCHANGED <<stream_queue, metadata>>
          \/ /\ f.size = 0
             /\ cft' = idle
             /\ disk' = IF scenario.build_empty_files THEN disk ELSE Removed(f.file)
             /\ UNCHANGED <<stream_queue, metadata>>
       /\ UNCHANGED <<scenario, jobs, td, failed, fifo_hash, close_queue, exec, streamed,
                      stream_ended, acks, rows, main, crashed>>

CloseAcknowledged(c) ==
    /\ cft[c].at = "ack"
    /\ c \in acks
    /\ acks' = acks \ {c}
    /\ metadata' = PartialPushed(cft[c].f.dbt)
    /\ cft' = [cft EXCEPT ![c].at = "idle"]
    /\ UNCHANGED <<scenario, jobs, td, disk, failed, available_pids, fifo_hash, close_queue,
                   exec, stream_queue, streamed, stream_ended, rows, main, crashed>>

-----------------------------------------------------------------------------
(* process_stream *)

Sent(file) == Append(streamed, [file |-> file, data |-> disk[file].data,
                                complete |-> disk[file].state \in Complete])

Acked(waiter) == acks \cup ({waiter} \ {Nobody})

StreamFile ==
    /\ stream_queue # <<>> /\ ~stream_ended
    /\ LET sf == Head(stream_queue) IN
         /\ sf.file # EndOfStream
         /\ IF sf.file \in DOMAIN disk
            THEN /\ streamed' = Sent(sf.file)
                 /\ disk' = IF scenario.no_delete THEN disk ELSE Removed(sf.file)
                 /\ acks' = Acked(sf.waiter)
                 /\ UNCHANGED crashed
            ELSE /\ crashed' = TRUE
                 /\ UNCHANGED <<streamed, disk, acks>>
    /\ stream_queue' = Tail(stream_queue)
    /\ UNCHANGED <<scenario, jobs, td, failed, handlerVars, exec, stream_ended, metadata,
                   rows, main>>

StreamEnds ==
    /\ stream_queue # <<>> /\ ~stream_ended
    /\ Head(stream_queue).file = EndOfStream
    /\ acks' = Acked(Head(stream_queue).waiter)
    /\ stream_ended' = TRUE
    /\ stream_queue' = Tail(stream_queue)
    /\ UNCHANGED <<scenario, jobs, td, disk, failed, handlerVars, exec, streamed, metadata,
                   rows, main, crashed>>

-----------------------------------------------------------------------------
(* process_exec_command: several threads, and wait() returns any child *)

ExecTake(e) ==
    /\ exec.at[e] = "idle"
    /\ exec.queue # <<>>
    /\ LET sqe == Head(exec.queue) IN
         /\ exec' = [exec EXCEPT !.queue = Tail(@), !.at[e] = "forked", !.sqe[e] = sqe,
                                 !.running = @ \cup {sqe.file}]
         /\ streamed' = Sent(sqe.file)
    /\ UNCHANGED <<scenario, jobs, td, disk, failed, handlerVars, stream_queue, stream_ended,
                   acks, metadata, rows, main, crashed>>

\* g_hash_table_insert(pid_file_table), after the vfork
ExecRegister(e) ==
    /\ exec.at[e] = "forked"
    /\ exec' = [exec EXCEPT !.at[e] = "waiting", !.table = @ \cup {exec.sqe[e]}]
    /\ UNCHANGED <<scenario, jobs, td, disk, failed, handlerVars, streamVars, metadata, rows,
                   main, crashed>>

ExecExits(file) ==
    /\ file \in exec.running
    /\ exec' = [exec EXCEPT !.running = @ \ {file}, !.exited = @ \cup {file}]
    /\ UNCHANGED <<scenario, jobs, td, disk, failed, handlerVars, streamVars, metadata, rows,
                   main, crashed>>

\* Whose child it was is looked up; a child that is not registered yet is
\* "pid not found".  With --no-delete the writer gets no answer.
ExecReap(e, file) ==
    LET entry == {sqe \in exec.table : sqe.file = file}
    IN /\ exec.at[e] = "waiting"
       /\ file \in exec.exited
       /\ exec' = [exec EXCEPT !.at[e] = "idle", !.exited = @ \ {file},
                               !.table = IF scenario.no_delete THEN @ ELSE @ \ entry]
       /\ IF scenario.no_delete THEN UNCHANGED <<disk, acks, crashed>>
          ELSE IF entry = {} THEN crashed' = TRUE /\ UNCHANGED <<disk, acks>>
          ELSE /\ disk' = Removed(file)
               /\ acks' = acks \cup {sqe.waiter : sqe \in entry}
               /\ UNCHANGED crashed
       /\ UNCHANGED <<scenario, jobs, td, failed, handlerVars, stream_queue, streamed,
                      stream_ended, metadata, rows, main>>

-----------------------------------------------------------------------------
(* metadata_partial_writer *)

\* A partial file and its stream_queue_push.
PushPartial(n) ==
    /\ disk' = OnDisk(Metadata("partial", n), <<>>, "closed")
    /\ StreamPush("writer", Metadata("partial", n))

\* The first partial file is made when every worker has done its schemas.
WriterInitial ==
    /\ metadata.at = "initial" /\ stream
    /\ metadata.initial = Cardinality(Workers)
    /\ PushPartial(0)
    /\ metadata' = [metadata EXCEPT !.initial = 0, !.queue = <<>>, !.dbts = Range(metadata.queue),
                                    !.at = IF no_sync THEN "release" ELSE "initial ack"]
    /\ UNCHANGED <<scenario, jobs, td, failed, handlerVars, exec, streamed, stream_ended,
                   acks, rows, main, crashed>>

WriterAcknowledged ==
    /\ metadata.at \in {"initial ack", "ack"}
    /\ "writer" \in acks
    /\ acks' = acks \ {"writer"}
    /\ metadata' = [metadata EXCEPT !.at = IF @ = "ack" THEN "pop" ELSE "release"]
    /\ UNCHANGED <<scenario, jobs, td, disk, failed, handlerVars, exec, stream_queue, streamed,
                   stream_ended, rows, main, crashed>>

WriterRelease ==
    /\ metadata.at = "release"
    /\ metadata' = [metadata EXCEPT !.lock = Cardinality(Workers), !.at = "pop", !.next = 1]
    /\ UNCHANGED <<scenario, jobs, td, disk, failed, handlerVars, exec, streamVars, rows,
                   main, crashed>>

\* g_async_queue_timeout_pop
WriterPop ==
    /\ metadata.at = "pop"
    /\ metadata' = IF metadata.queue = <<>> THEN [metadata EXCEPT !.at = "test", !.dbt = NoTable]
                   ELSE [metadata EXCEPT !.at = "test", !.queue = Tail(@),
                                         !.dbt = Head(metadata.queue)]
    /\ UNCHANGED <<scenario, jobs, td, disk, failed, handlerVars, exec, streamVars, rows,
                   main, crashed>>

WriterEnds ==
    /\ metadata.at = "test"
    /\ ~metadata.alive
    /\ metadata' = [metadata EXCEPT !.at = "ended"]
    /\ UNCHANGED <<scenario, jobs, td, disk, failed, handlerVars, exec, streamVars, rows,
                   main, crashed>>

\* The wake-up call is no table: it must never get here.
Noted == metadata.dbts \cup ({metadata.dbt} \ {NoTable})

WriterNotes ==
    /\ metadata.at = "test"
    /\ metadata.alive
    /\ metadata' = [metadata EXCEPT !.at = "pop", !.dbts = Noted]
    /\ crashed' = (metadata.dbt = WakeUp)
    /\ UNCHANGED <<scenario, jobs, td, disk, failed, handlerVars, exec, streamVars, rows, main>>

\* More than METADATA_PARTIAL_INTERVAL seconds later.
WriterPartial ==
    /\ metadata.at = "test"
    /\ metadata.alive
    /\ Noted # {}
    /\ metadata.next <= MaxPartials
    /\ PushPartial(metadata.next)
    /\ metadata' = [metadata EXCEPT !.at = IF no_sync THEN "pop" ELSE "ack",
                                    !.next = @ + 1, !.dbts = {}]
    /\ crashed' = (metadata.dbt = WakeUp)
    /\ UNCHANGED <<scenario, jobs, td, failed, handlerVars, exec, streamed, stream_ended, acks,
                   rows, main>>

-----------------------------------------------------------------------------
(* start_dump *)

\* initialize_stream, and the metadata's first part, which is streamed first.
MainStart ==
    /\ main.at = "start"
    /\ IF stream
       THEN /\ disk' = OnDisk(Metadata("header", 0), <<>>, "closed")
            /\ StreamPush("main", Metadata("header", 0))
            /\ main' = [main EXCEPT !.at = IF no_sync THEN "join" ELSE "start ack"]
       ELSE /\ main' = [main EXCEPT !.at = "join"]
            /\ UNCHANGED <<disk, stream_queue>>
    /\ UNCHANGED <<scenario, jobs, td, failed, handlerVars, exec, streamed, stream_ended, acks,
                   metadata, rows, crashed>>

MainAcknowledged ==
    /\ main.at \in {"start ack", "metadata ack", "end ack"}
    /\ "main" \in acks
    /\ acks' = acks \ {"main"}
    /\ main' = [main EXCEPT !.at = CASE @ = "start ack" -> "join"
                                     [] @ = "metadata ack" -> "shutdown"
                                     [] @ = "end ack" -> "join stream"]
    /\ UNCHANGED <<scenario, jobs, td, disk, failed, handlerVars, exec, stream_queue, streamed,
                   stream_ended, metadata, rows, crashed>>

\* Every worker is joined; wait_close_files sends one end per close thread.
MainJoin ==
    /\ main.at = "join"
    /\ \A t \in Workers : td[t].at = "ended"
    /\ close_queue' = IF pipe THEN close_queue \o [i \in 1 .. Cardinality(CloseThreads) |-> EndOfQueue]
                      ELSE close_queue
    /\ main' = [main EXCEPT !.at = "close"]
    /\ UNCHANGED <<scenario, jobs, td, disk, failed, available_pids, fifo_hash, cft, exec,
                   streamVars, metadata, rows, crashed>>

\* g_thread_join(cft[i])
Closed == pipe => \A c \in CloseThreads : cft[c].at = "ended"

\* The metadata file gets every table's rows and its final name.
MainMetadata ==
    /\ main.at = "close"
    /\ Closed
    /\ disk' = OnDisk(Metadata("metadata", 0), rows, "closed")
    /\ IF stream THEN StreamPush("main", Metadata("metadata", 0)) ELSE UNCHANGED stream_queue
    /\ main' = [main EXCEPT !.at = IF ~stream THEN "ended"
                                   ELSE IF no_sync THEN "shutdown" ELSE "metadata ack"]
    /\ UNCHANGED <<scenario, jobs, td, failed, handlerVars, exec, streamed, stream_ended, acks,
                   metadata, rows, crashed>>

\* Mutant: the two threads are stopped in the other order.
StopOrderSwapped == <<"stream", "writer">>

\* wait_stream_to_finish stops the metadata writer first.
StopOrder == <<"writer", "stream">>

Stopping(thread) == main.at = "shutdown" /\ main.stop <= 2 /\ StopOrder[main.stop] = thread

MainStopWriter ==
    /\ Stopping("writer")
    /\ metadata' = [metadata EXCEPT !.alive = FALSE]
    /\ main' = [main EXCEPT !.at = "wake"]
    /\ UNCHANGED <<scenario, jobs, td, disk, failed, handlerVars, exec, streamVars, rows, crashed>>

MainWakeWriter ==
    /\ main.at = "wake"
    /\ metadata' = [metadata EXCEPT !.queue = Append(@, WakeUp)]
    /\ main' = [main EXCEPT !.at = "join writer"]
    /\ UNCHANGED <<scenario, jobs, td, disk, failed, handlerVars, exec, streamVars, rows, crashed>>

MainStopStream ==
    /\ Stopping("stream")
    /\ StreamPush("main", EndOfStream)
    /\ main' = [main EXCEPT !.at = IF no_sync THEN "join stream" ELSE "end ack"]
    /\ UNCHANGED <<scenario, jobs, td, disk, failed, handlerVars, exec, streamed, stream_ended,
                   acks, metadata, rows, crashed>>

\* g_thread_join
MainStopped ==
    /\ \/ main.at = "join writer" /\ metadata.at = "ended"
       \/ main.at = "join stream" /\ stream_ended
    /\ main' = [at |-> IF main.stop = 2 THEN "ended" ELSE "shutdown", stop |-> main.stop + 1]
    /\ UNCHANGED <<scenario, jobs, td, disk, failed, handlerVars, exec, streamVars, metadata,
                   rows, crashed>>

-----------------------------------------------------------------------------
Init ==
    /\ scenario \in Scenarios
    /\ jobs = [schema |-> scenario.schema_jobs,
               data |-> [i \in DOMAIN scenario.data_jobs |-> Queued(scenario, scenario.data_jobs[i])]]
    /\ td = [t \in Workers |-> [at |-> "schema", ops |-> <<>>, wait |-> "none"]]
    /\ disk = <<>>
    /\ failed = FALSE
    /\ available_pids = 2 * Cardinality(Workers)
    /\ fifo_hash = {}
    /\ close_queue = <<>>
    /\ cft = [c \in CloseThreads |-> [at |-> "idle", f |-> EndOfQueue]]
    /\ exec = [queue |-> <<>>, at |-> [e \in ExecThreads |-> "idle"],
               sqe |-> [e \in ExecThreads |-> EndOfQueue],
               running |-> {}, exited |-> {}, table |-> {}]
    /\ stream_queue = <<>>
    /\ streamed = <<>>
    /\ stream_ended = FALSE
    /\ acks = {}
    /\ metadata = [initial |-> 0, lock |-> 0, queue |-> <<>>, alive |-> TRUE, at |-> "initial",
                   dbts |-> {}, dbt |-> NoTable, next |-> 0]
    /\ rows = [table \in {job.table : job \in Range(scenario.data_jobs)} |-> 0]
    /\ main = [at |-> "start", stop |-> 1]
    /\ crashed = FALSE

Worker(t) ==
    /\ ~crashed
    /\ \/ TakeSchemaJob(t) \/ EndSchema(t) \/ InitialMetadataSent(t) \/ TakeDataJob(t)
       \/ EndWorker(t) \/ OpenFile(t) \/ OpenPipe(t) \/ OpenTwice(t) \/ CloseEmpty(t)
       \/ CloseFile(t) \/ ClosePipe(t) \/ ReapChild(t) \/ Acknowledged(t)

CloseThread(c) == ~crashed /\ (PopClose(c) \/ FinalStep(c) \/ CloseAcknowledged(c))

Stream == ~crashed /\ (StreamFile \/ StreamEnds)

ExecThread(e) ==
    /\ ~crashed
    /\ ExecTake(e) \/ ExecRegister(e) \/ \E file \in exec.exited : ExecReap(e, file)

Children == /\ ~crashed
            /\ \/ \E file \in DOMAIN disk : ChildEnds(file)
               \/ \E file \in exec.running : ExecExits(file)

Writer == ~crashed /\ (\/ WriterInitial \/ WriterAcknowledged \/ WriterRelease \/ WriterPop
                        \/ WriterEnds \/ WriterNotes \/ WriterPartial)

Main == ~crashed /\ (\/ MainStart \/ MainAcknowledged \/ MainJoin \/ MainMetadata
                      \/ MainStopWriter \/ MainWakeWriter \/ MainStopStream \/ MainStopped)

Threads == \/ \E t \in Workers : Worker(t)
           \/ \E c \in CloseThreads : CloseThread(c)
           \/ \E e \in ExecThreads : ExecThread(e)
           \/ Children \/ Stream \/ Main

Next == Threads \/ Writer

\* The machine never idles while some thread or child can go on, and the
\* metadata writer, which alone may turn for ever, does not keep the others
\* from running.  Fairness of every thread implies this.
Fairness == WF_vars(Threads) /\ WF_vars(Writer)

Spec == Init /\ [][Next]_vars /\ Fairness

-----------------------------------------------------------------------------
(* Properties *)

Ended == main.at = "ended" /\ ~crashed

\* What a reader of the backup gets: the dump directory, or what was streamed
\* or handed to the command of --exec.
Sends == stream \/ scenario.exec
Output == IF Sends THEN {streamed[i].file : i \in DOMAIN streamed} ELSE DOMAIN disk
Content(file) == IF Sends THEN streamed[CHOOSE i \in DOMAIN streamed : streamed[i].file = file].data
                 ELSE disk[file].data

\* The row ids of a job's files, in the order of part and sub_part.
RowsOf(file) == FoldLeft(LAMBDA ids, st : ids \o st.rows, <<>>, Content(file))
DataOf(job) == {f \in Output : f.name = "rows" /\ f.table = job.table /\ f.chunk = job.chunk}
FileOrder(f, g) == f.part < g.part \/ (f.part = g.part /\ f.sub_part < g.sub_part)
RowsWritten(job) ==
    FoldLeft(LAMBDA ids, f : ids \o RowsOf(f), <<>>, SetToSortSeq(DataOf(job), FileOrder))
RowsRead(job) ==
    FoldLeft(LAMBDA ids, step : ids \o [i \in DOMAIN step |-> step[i].id], <<>>, job.steps)

\* A statement can be executed: INSERT INTO and at least a row, the SET
\* statements at the head of the file, and no more than the server was told
\* to accept unless it is one row.
WellFormed(text) ==
    /\ text # <<>> \/ scenario.build_empty_files
    /\ \A i \in DOMAIN text :
         /\ text[i].rows # <<>>
         /\ text[i].insert = Inserts(scenario.format)
         /\ scenario.format = "SQL_INSERT" => (text[i].header <=> i = 1)
         /\ Len(text[i].rows) > 1 => text[i].len <= StatementSize + TerminatorSize

\* When the dump ends and nothing failed, the rows of every job are in the
\* output in the order they were read, each once, in well-formed statements;
\* every data file is read by exactly one LOAD DATA; every file that a schema
\* job closes is there; and the metadata counts the rows of each table.
OutputComplete ==
    Ended /\ ~failed =>
      /\ \A job \in Range(scenario.data_jobs) :
           /\ RowsWritten(job) = RowsRead(job)
           /\ \A f \in DataOf(job) :
                /\ WellFormed(Content(f))
                /\ scenario.format # "SQL_INSERT" =>
                     \E g \in Output : g = [f EXCEPT !.name = "sql"] /\ Content(g) = 1
      /\ \A job \in Range(scenario.schema_jobs) :
           \A op \in Range(SchemaJob(job, "ok")) : op.op = "close" => op.file \in Output
      /\ Metadata("metadata", 0) \in Output \/ scenario.exec
      /\ \A table \in DOMAIN rows :
           rows[table] = FoldSet(LAMBDA job, n : n + Len(RowsWritten(job)), 0,
                                 {job \in Range(scenario.data_jobs) : job.table = table})

\* A file is sent, or handed to a command, once and when it is complete; the
\* stream starts with the metadata's header, has the initial metadata before
\* any rows and the final metadata after all of them; and no thread meets a
\* file that is gone or takes the wake-up call for a table.
StreamSound ==
    /\ \A i \in DOMAIN streamed : streamed[i].complete
    /\ \A i, j \in DOMAIN streamed : streamed[i].file = streamed[j].file => i = j
    /\ stream =>
         \A i \in DOMAIN streamed :
           LET before == {streamed[j].file.name : j \in 1 .. i - 1}
           IN /\ i = 1 <=> streamed[i].file.name = "header"
              /\ streamed[i].file.name \in {"rows", "sql"} => "partial" \in before
              /\ "metadata" \in before => streamed[i].file.name = "partial"
    /\ crashed => scenario.exec

\* Although a token comes back twice, so that there may be tokens left when
\* all children are running, there are never more children than 2 * num_threads,
\* as long as every file is closed: the writers wait for theirs.
ChildrenBounded ==
    ~failed => Cardinality({f \in DOMAIN disk \cap fifo_hash : disk[f].state \in {"open", "eof"}})
                 <= 2 * Cardinality(Workers)

\* The dump ends, unless a fork failed, an unregistered child was reaped
\* (crashed), or --exec runs with --no-delete.
Termination ==
    <>(\/ main.at = "ended" \/ crashed
       \/ scenario.exec /\ scenario.no_delete
       \/ \E f \in DOMAIN disk : disk[f].state = "no child")
=============================================================================
