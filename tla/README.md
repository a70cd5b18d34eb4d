# A verification project for mydumper and myloader

mydumper makes a logical backup of a MySQL-like server with several worker
threads; myloader restores it, also in parallel. This directory holds TLA+
modules translated from the C source (`src/src/mydumper`, `src/src/myloader`), TLC
configurations that check them on small instances, and TLAPS proofs of the
properties of the chunked export for every instance. `PROJECT.json` maps each
definition to the lines it models and lists runs, mutants, findings and hazards.

## 1. The system

### mydumper

| part | state | operations | talks to |
|---|---|---|---|
| `start_dump` (main thread) | lock mode, lock connections, `initial_source_*`, metadata file | take and release locks, create the first jobs, start the builder and the workers, wait at barriers, push `JOB_SHUTDOWN`s, finish the metadata file | workers through nine `GAsyncQueue`s |
| worker threads (`working_thread`) | a connection with a snapshot, phase | open the snapshot (with retries in the GTID mode), serve `initial_queue`, `schema_queue`, the two data queues and their `defer` queues, `post_data_queue` | main, builder |
| chunk builder | the two `table_list`s, walk position | answer one request token with one job, retry, end with one `JOB_SHUTDOWN` per worker | workers through `request_chunk`, `queue`, `defer` |
| tables (`db_table`) | `status`, `chunks`, `chunks_queue`, `current_threads_running` | define the chunk strategy, get the next chunk | builder and workers under `chunks_mutex` |
| integer chunks | `min`, `cursor`, `max`, `step`, `status`, part number | split, step, resize, skip gaps | builder and one worker per chunk, under the chunk's mutex, which is free while a SELECT runs |
| string and partition chunks | prefix ranges, lists of partitions | the same interface | as above |
| job creation, schema and post-data jobs | queues, `database_counter` | turn databases and tables into jobs, write their definitions | workers |
| row writer, file handler, stream, exec | statement buffers, open files, pipes, `stream_queue` | format rows, rotate files, close files in a thread of its own, stream or post-process finished files | workers, child processes |
| daemon, masquerading, options, monitoring, logging | | | |

### myloader

| part | state | operations | talks to |
|---|---|---|---|
| input (directory or stream) and file-type workers | sorted queue of file names | classify a file, parse it, create databases, tables and jobs | schema queue, dispatcher |
| tables and databases | `schema_state`, `remaining_jobs`, `current_threads`, list of data files | | all workers |
| schema workers | schema queue, `retry_queue` | create databases and tables, retry a failed DROP | main, dispatcher |
| data dispatcher and loaders | ready queue, `threads_waiting` | give each loader the next data file of a table that exists | index workers |
| index and post workers | their queues | build the indexes once the data is in; views, triggers, routines | main |
| restore, connection pool | statement queues per connection | send statements, retry, commit in batches | server |

### What is hard, and what correctness means

* **One row, one file, once.** Chunks are split while they are dumped, with the
  mutex released (IntegerChunks).
* **Work is handed out, never lost, never stuck.** Tokens, jobs and counters
  flow between the builder and the workers; `--use-defer` adds a second queue
  and a second decrement (ChunkBuilder).
* **One point in time.** Several connections, several lock modes, retries, and
  a lock that is released while rows are still read (ConsistentSnapshot).
* **Phases.** Workers discover the objects while others already work; the
  `JOB_SHUTDOWN`s must be behind everything (DumpPhases).
* **Every row reaches the reader of the backup.** Statements and files are
  limited in size, files close in other threads and in child processes, and a
  stream wants them complete and in a readable order (RowWriter, SchemaJobs,
  DumpFiles).
* **What was sent is what is restored.** A stream is cut into files by a buffer
  that ends anywhere, and file names are taken apart into names of objects
  (StreamParser, LoaderInput).
* **The restore's table life cycle**: schema before data before indexes, each
  once, with failing DROPs and sleeping loaders (Loader).
* **Statements take effect once.** They travel over pooled connections and
  shared queues, in transactions that can fail (RestoreConnections).

The `hazards` of `PROJECT.json` list the single places.

## 2. Modules

`TableExport` — the abstract promise of a table's export: a row is written at
most once, and the export completes only when every row was written.

`IntegerChunks` — `mydumper_integer_chunks.c` for one table with an unsigned
single-column key. `csi[i]` is the i-th `chunk_step_item`, `tj[i]` the place of
its worker between two mutex operations, `chunks_queue` is
`dbt->chunks_queue`. `AssignChunk`, `DropChunk`, `MarkUnsplittable`,
`SplitChunk` and `GetNextNull` are the branches of `get_next_integer_chunk`;
`BeginStep`, `SkipEmpty`, `WriteRows`, `UpdateStep` and `UpdateMin` are the
stages of `process_integer_chunk_step`; `LoopTest` and `CancelJob` belong to
`process_integer_chunk`. `written` and `files` are history: how often a row went
into a file, and which part numbers were used. Keys are integers of width
`MaxU + 1`; `Inc` and `USub` wrap. `AddedPart` is the part number of a split chunk,
rounded when it has outgrown a double, whose exact numbers end at `ExactParts`. The rows with a NULL key are one more row.
`IntegerChunks` is shown to implement `TableExport`.

`StringChunks` — `mydumper_string_chunks.c` for one table with a single-column
string key. A chunk is a range of prefixes; its own worker splits it before the
SELECT (`ChunkByItems`, `ChunkFits`, `Deepen`, `SplitByEstimate`), while the builder waits on
the chunk's condition variable. `max_items` is chosen in `Init` among the
values of `--max-items-per-string-chunk`. That `str_cur` is an alias of
`str_min` is modelled: after the second `set_next_cur` the chunk's lower prefix
is whatever its freed block may hold, and `reused` remembers it. `NewParts` adds
2^deep as the code does, in a double: `Rounded` keeps `MantissaBits` bits (53 in a
double), and a sum that no longer fits `PartBits` (64) becomes 0 or the maximum. It
implements
`TableExport` too, with a chunk of that kind mapped to an export that was given
up.

`ChunkBuilder` — `mydumper_chunks.c` and the data part of
`mydumper_working_thread.c`. The walk of `get_next_dbt_and_chunk_step_item` is
one action per table visited, because it locks one table at a time; a worker's
`thd_JOB_DUMP` is two actions, since the counter is lowered after the chunk is
done. Two stages, for non-transactional and transactional tables. `get_next`
is a free choice between a chunk and NULL (IntegerChunks says which). String
chunks take the same way through the queues as partitions.

`ConsistentSnapshot` — the locks and barriers of `start_dump` and
`working_thread`. The server is external: a position that commits advance
while no global lock is held, and LOCK TABLES commits the transaction of the
connection it is sent on, so that a worker's snapshot (`snapshot[w]`) ends with
it; `lock_tables_statement` says whether a non-transactional table was found.
The queues that carry no data are counters. The
positions of all rows read are collected in `transactional_read`,
`non_transactional_read` and `checksums`.

`DumpPhases` — discovery: listing jobs, `database_counter`, `get_database`,
`JOB_TABLE`, the schema and post-data jobs, the `JOB_SHUTDOWN`s of the three
queues and the renaming of `metadata.partial`. Each row of a listing handler is
an action of its own, since other workers run between two rows.

`Loader` — the whole restore, from file names to indexes: the file type
workers (`process_file_type_worker`), the schema workers (`process_schema`,
`process_restore_job`), the dispatcher (`worker_loader_main_thread`), the
loaders, the index workers and main, which joins them in order. `dbt[t]` is the
`struct db_table` of a table: `schema_state`, the parts in `restore_job_list`,
`current_threads`, `remaining_jobs`, `retry_count`, `in_ready_queue` and
`no_data`; `database[d]` is the `struct database` with the jobs that wait for it.
The queues are sequences under their names in the code, and `schema_job_queue`
is kept by `PushSorted`, which does what `g_async_queue_push_sorted` does. A thread's
`pc` says where it is between two steps another thread can observe: the test
and the assignment of `schema_state` in `process_table_filename` are two steps
(`CheckParsed`, `parse_create_table_from_file`), and so are finding no job and
raising `threads_waiting` (`DispatchLater` or `DispatchFromList`, and `Sleep`).
The server is external: its databases, its tables, and the data files whose
rows a table holds. A failed statement ends the process (`exited`) once
`g_log_set_always_fatal` was called, which restoring any file does
(`always_fatal`). Left out: `--resume`, signals, views and everything after the
indexes, `--drop-database`, `--no-schemas`, `--no-data`.

`RowWriter` — `mydumper_write.c` without state: operators that take a table job
from one row to the next (`WriteRow`), from one SELECT to the next
(`WriteResult`, `WriteTableJob`) and to the files it leaves (`TableJob`). Text
is its length; a row keeps an identity so that files can be compared with what
was read.

`SchemaJobs` — `mydumper_jobs.c`: each schema job as the sequence of files it
opens and closes, for each way its queries and writes can fail.

`DumpFiles` — what the workers of both do to files, with the threads around
them: the file handler with or without a child process per file
(`mydumper_file_handler.c`), its close threads, the command threads of `--exec`
(`mydumper_exec_command.c`), the stream thread and the writer of partial
metadata (`mydumper_stream.c`), and the start and end of `start_dump`.
`disk[f]` is a file with its text, the state of its child and whether all of it
has left the buffers; `streamed` is what went out. A `scenario` fixes options,
jobs and faults.

`StreamParser` — `myloader_stream.c`: one buffer of `buffer_size` symbols that is
filled from `stdin`, and the search for `\n-- <name> <size>` headers in it, each
turn of the inner loop a step. `sent` is what mydumper's stream thread wrote, and
`written` and `pushed` are the files on disk and the names handed on.

`LoaderInput` — extends it with everything from a name to an object:
`myloader_directory.c`, the two stages of workers
(`myloader_process_filename.c`, `myloader_process_file_type.c`), the metadata
file and the name handling of `myloader_process.c` and `myloader_common.c`,
against the way mydumper composes the names (`BuildFilename`, `get_ref_table`).
Names are sequences of pieces such as `-schema`, `.` or a new line: the code
splits them at those.

`RestoreConnections` — `myloader_restore.c`: the workers that read a file or a
string (`td`), the connections with their restore threads (`cd`), the pairs of
queues between them, transactions, the single retry, and the meeting of a LOAD
DATA statement with its file. The server is external: what a session has not
committed (`pending`), what took effect (`committed`), and faults that undo or
repeat something without an error that the program checks (`silent`).

`MCStringChunks`, `MCChunkBuilder`, `MCDumpPhases`, `MCDumpFiles`, `MCLoader`,
`MCLoaderInput` and `MCRestoreConnections` hold the instances for TLC.
`IntegerChunksProofs`, `ChunkBuilderProofs`, `ConsistentSnapshotProofs`,
`DumpPhasesProofs`, `DumpPhasesBackupProofs`, `LoaderProofs` and
`RestoreConnectionsProofs` hold the theorems; `LoaderInvariant` the invariant that
`LoaderProofs` proves; `Counting` the lemmas about counting
that all but the first share.

The modules share no variables except by extension (`DumpFiles` uses `RowWriter`
and `SchemaJobs`, `LoaderInput` extends `StreamParser`); they overlap in the code
they look at. ConsistentSnapshot keeps only the shutdown counts of the queues
whose jobs are in DumpPhases and ChunkBuilder; ChunkBuilder keeps only the
interface of the chunks modelled in IntegerChunks and StringChunks; Loader takes a
restored file as one step, which RestoreConnections takes apart; Loader's files
arrive in any order, which is what LoaderInput delivers.

## 3. Runs

| run | instance | shows |
|---|---|---|
| `IntegerChunks_adaptive` | 4-bit keys, 7 rows with two gaps, the last key is 15, steps 1..4, measured steps 0 and 3, 2 workers, part numbers exact up to 8 | safety, distinct files while part numbers are exact, termination, refinement of `TableExport` |
| `StringChunks_split` | 6 keys of two characters, `max_items` 0, 1, 2 and 5, 3 workers, 3-bit part numbers added in a double with a 1-bit mantissa | refinement of `TableExport`, distinct files up to the width, the three ways to get stuck |
| `StringChunks_freed` | the same table, `max_items` 5 | finding: rows are missing |
| `ChunkBuilder_jobs` | 2 workers, a table in the first stage and two in the second, 2 chunks each; limit 1, and limit 2 with `--use-defer`; signals | counters, tokens and the thread limit, nothing lost, deferred chunks last, who can be left waiting |
| `ConsistentSnapshot_modes` | 3 workers, all lock modes, `--trx-tables` or not, with LOCK TABLES or not, `--no-data` or not, 2 commits, 3 retries | consistency where no LOCK TABLES is sent, recorded position, sound comparison of positions, termination |
| `ConsistentSnapshot_tables` | 2 workers under a global lock, 2 commits | finding: LOCK TABLES ends the snapshots |
| `DumpPhases_jobs` | 2 workers, 2 databases, one table of each engine, a view; all three kinds of request; failing `mysql_select_db`; signals | complete lists, nothing behind a shutdown, each object once, termination |
| `DumpFiles_modes` | 2 workers, 2 close and 2 command threads; every packing of up to 4 rows and a second SELECT; all combinations of output; two workers with two piped files each, and three such jobs; each schema job with each outcome, each fault of a data job | complete and well formed output, row counts, sound streams, bounded children, termination |
| `Loader_restore` | 1 file type worker, 2 schema workers, 2 loaders, 1 index worker; a table with indexes and 2 files, a table without schema file, a sequence; 7 combinations of `--drop-table`, target database, existing tables and index mode; 1 failing DROP | exact counters, all rows before indexes, no lost request, skipped tables untouched, rows stay, the restore ends |
| `Loader_reparse` | 2 file type workers, one table | finding: the table is created twice and loses rows |
| `RestoreConnections_pool` | 2 workers, 2 connections, any 2 of: a file of INSERTs, a LOAD DATA file, a string; one fault of each of 6 kinds | clean pool, statements once, LOAD DATA after its file, termination |
| `LoaderInput_files` | 2 workers per stage; pairs of files with contents of up to three pieces (text, NUL, new lines, whole and half headers), buffers of 10..15 and 20 symbols, streams cut at every place, existing files, `--no-stream`; 23 backups with masked, odd and colliding names and either quote character, one of them streamed | files whole and in order, names restored, reading ends |

**Bounds.** The key width of `IntegerChunks` is small enough to reach both the
first and the largest key, with gaps longer than a step so that `SkipEmpty`
happens, and rows enough for three levels of splits. `Measured` contains 0: a
slow SELECT with few rows gives a step of 0, which must be clamped. In
`StringChunks` three first characters and two or three rows behind each let a
chunk split by characters and by length, and 3-bit part numbers, exact up to 2,
show the rounding and the overflow that 53 and 64 bits reach much later. In
`ChunkBuilder` two workers on a table with a limit of one reach every branch
of the walk; `MaxGuint` = 7 lets the counter wrap below zero and is larger than
any count of threads. In `ConsistentSnapshot` three retries (five in the code)
and two commits let each round fail differently, and three workers let one
take the answers of two others. In `Loader` one thread per table and two
loaders make a loader wait while a table is at its limit, three data files keep
both busy, and a retry count of one lets a DROP fail and be retried, and a
TRUNCATE fail again and end the process; the single file type worker of `Loader_restore` keeps out the double
parse that `Loader_reparse` shows; what several workers do otherwise is proved. In `DumpFiles` a statement holds 8
symbols and a file 9, so that rows of 1, 3 and 8 fill, overfill and just miss both;
two workers with LOAD DATA through pipes have four files open at once, which takes
all of the four tokens for children, and give them back twice.
In `RestoreConnections` one blank result (7 in the code) and two statements make
the worker wait for answers; a transaction of two queries ends before, at and
after the end of a file. In `StreamParser` a header has 8 symbols or more and
buffers start at 10, so that every header meets every place of the buffer;
`SizeBits` = 3 makes a size wrap. `CHECK_DEADLOCK FALSE` is set where a
signal or an error may stop the system for good, and where end states have no
successor.

**Fairness.** Builder, main thread and every worker are weakly fair: they are
operating system threads that run whenever they are not blocked on a queue or a
mutex held by another fair thread. Nothing is assumed of signals, of commits or
of how many chunks a table gives. In `IntegerChunks` one weak fairness
condition covers the workers together, the weaker assumption. In `Loader` every
thread is weakly fair; nothing is assumed of which file comes next or of a DROP
that times out. `DumpFiles` assumes less than fairness of every thread: some thread or
child that can go on does, and the metadata writer, which alone may turn for
ever, gets its turns. In `RestoreConnections` also the arrival of data files is
fair: the thread that receives them does not depend on the restore. The stream
reader and the stages behind it are fair as a whole.

**Ends that are excused.** A liveness property that excuses some ends names each of
them, so that it says that there is no other: `LeftWaiting` (ChunkBuilder) and
`AnswerLost` (DumpPhases) after a signal; `SignalMissed`, `LockCycle` and `Spins`
(StringChunks, where also a shutdown ends the claim); `RetryStranded` (Loader); in `DumpFiles` a crash of the stream thread over a
file that `--exec` has removed, `--exec` with `--no-delete`, whose commands
are never acknowledged, and a child that could not be forked; in `LoaderInput`
names and contents that do not survive, `--no-stream` without the file, and
`QuoteUnread`. `LeftWaiting` and `AnswerLost` are excused as soon as they have been
seen once: what happens after a signal that left them is not claimed.

**Definitions no run checks.** The `TypeOK`s of modules other than IntegerChunks
are the typing that the proofs start from. `GracefulShutdown` (ChunkBuilder) and
`RestoreEnds` (Loader) state what does not hold; see findings 4 and 6.

**Findings.** With a run each: (1) two file type workers can both parse a
table's schema file, and the second job to create the table drops rows already
restored. (2) With `--split-string-pk` a chunk's lower prefix is freed while it is
used, and rows can be missing from the dump. (3) With
`--no-trx-tables` and a non-transactional table, LOCK TABLES is sent on the
connections that hold the consistent snapshots and commits them
(`mydumper_working_thread.c:1089`); no other snapshot is opened, so the transactional
tables, read after the global lock has gone, need not be of one position.

Shown by the models, and excused by name in a property: (4) A signal can leave the
builder and all workers waiting for each other (`LeftWaiting`), or the main thread
waiting for an answer (`AnswerLost`), although the message is "Shutting down
gracefully". (5) In the GTID lock mode the position recorded in the metadata
file is older than the data when a commit falls between its reading and the
snapshots; `Consistent` shows that it is never later. (6) A purge that fails after
`SCHEMA_PROCESS_ENDED` has emptied `retry_queue` leaves its table uncreated, and
myloader never ends; `EndsUnlessRetryStranded` shows that this is the only way
in which the modelled restore hangs with two schema workers. (7) With
`--use-defer` the thread limit of a table does not hold; `CounterHonest` claims it
without. (8) A builder that waits for a string chunk can miss its only signal,
or deadlock with it after a spurious wake-up; with `--max-items-per-string-chunk=0`
a chunk of one key is "split" for ever. (9) A tablespace file, and a schema file
whose query fails, is never closed: it stays in a pipe's child, and a stream
does not carry it. (10) A row that follows a lost connection or a deadlock inside of a
transaction is restored while the rows before it are not (`silent`). (11) The COMMIT
at the end of a file is executed at CLOSE and its result is dropped
(`myloader_restore.c:604`), so a file can be reported as restored without its last
rows (`silent` too). (12) Part numbers are added in a double
(`mydumper_string_chunks.c:165`, `mydumper_integer_chunks.c:225`): the numbers of chunks
split more than 53 times in a row are rounded, and near the 65th chunk of a
chain the sum overflows, which is undefined, and may give the number of an earlier
chunk. `PartsDistinct` claims the first `PartBits` chunks only, `FilesDistinct` only
numbers that are exact. (13) The metadata is the first name in myloader's queue, so
that it is processed "at the begining" (`myloader_directory.c:74`), but with several
file type workers one can parse a schema file while another is still reading
the metadata. If the backup was made with double quotes as the quote character, myloader then
does not find the default one and ends with `g_error`
(`myloader_process.c:264`; `QuoteUnread`). (14) After a signal `metadata.partial`
becomes `metadata` although objects are missing; `BackupComplete` is about dumps
without a signal.

Names and contents that do not survive the way (`Survives`, `Overlong`, `Ambiguous`,
`Spaced`): `-schema` inside the name of a database or table; `-T` with masked names,
and `-T` in directory mode drops the schema-create files; a compressed tablespace
file; a masked database dumped with `--no-schemas`; blanks in a streamed name; in
a stream, data whose line starts like a header when the file is skipped, is
4 GiB and larger, or when the line is as long as the buffer; bytes behind a
NUL that follow the beginning of a header at the end of the buffer, which are
replaced (the length stays); the last file of a stream that breaks off.

Smaller disagreements: the help of `--no-trx-tables` and the message "Non-InnoDB
dump complete, releasing global locks" no longer describe when the lock is
released; the help of `--max-items-per-string-chunk` gives 0 as its default,
which is 5.

## 4. Proofs

`IntegerChunksProofs` proves, for every width, set of rows, step setting and
number of workers that satisfy the `ASSUME`s of `IntegerChunks`:
`TypeCorrect`, `CursorStaysInside`, `NoDuplicates`, `Complete`, `DistinctFiles`
and `Refinement`, all of them on top of one inductive invariant, `IndInv`
(`Invariance`). `AtMostOnce` is far from inductive by itself: that a row is not
written twice depends on which rows each chunk may still write.

* `Pending(i)` is the set of rows chunk i will still write: from `min` (or from
  above `cursor` once the SELECT is done) to `max`, and the NULL keys while
  `include_null` is set and the first SELECT has not run. The invariant says that
  pending sets are disjoint, that a pending row has not been written, that a
  written row was written once, and that every row is pending or written unless
  a shutdown cut a SELECT short.
* `ChunkOK(i)` keeps each chunk's numbers in order for its place in the loop:
  `RangeOK` (min, cursor and max, including the state after the wrap), `SkippedOK`
  (the odd state after a skipped gap), `StepOK` (the step is positive wherever it
  is used) and `StatusOK` (status against place; a chunk out of the hands of a
  worker cannot be split).
* `NullOK` and `CancelledOK` say who may still write the NULL keys and that
  jobs are cancelled only after a shutdown.
* `HandedOut` says that no chunk is without a job once the builder is through
  (`NoneForgotten`): "finished" only means that nothing runs and nothing will,
  so `Complete` and `Refinement` rest on it.

* `NumbersOK` and `StepsOK` are for `DistinctFiles`. With adapted steps, and while all
  part numbers are exact (`PartsExact`), the numbers that a chunk and its
  descendants may use, `part + n * 2^deep`, are a residue class; a split halves
  it (`HalvedNumbers`), so that all classes stay disjoint. With fixed steps the number is that of the step: every chunk starts on
  a multiple of the step, what is `Ahead` of two chunks is disjoint, and no file
  begins there. The run has adapted steps; TLC also checked both parts with fixed
  steps of 1 and 2 before they were proved.

One lemma per action shows that it preserves the invariant; the arithmetic of
the split point (`lo < SplitPoint <= max`) is a lemma of its own, as is the
monotonicity of `RowsBetween`. The refinement proof maps `outcome` from the
shutdown flag and the builder's state, `WriteRows` to `Export`, and the last
step of builder or worker to `Complete`.

`ConsistentSnapshotProofs` proves, for every finite set of workers, every lock
mode, with LOCK TABLES or without, and any number of retries and commits, `SnapshotTypeCorrect`,
`PositionsComparedAtRest` (`ComparedAtRest`) and `BackupConsistent`
(`Consistent`). `ComparedAtRest` says where threads are when the main thread
reads what they wrote without a lock, and nothing but the lengths of queues keeps
them there, so its inductive invariant counts:

* `TokensOK` and `QueuedOK`: a queue never holds more tokens than there are workers
  past the point where one is pushed; for the comparison of positions, reports and
  answers together are at most the workers that wait for an answer. So N tokens
  mean that all N workers are there, and no worker can take an answer of an older
  round.
* `PhasesOK`: how far workers and main thread can be apart.
* `ServerOK` and `SnapshotsOK`: which locks are held in which phase and mode, hence
  which commits are impossible, hence where each worker's snapshot is.
* `AgreementOK` and `ReadsOK`: once the main thread has accepted the positions, all
  snapshots that are still open are of one position, and what is read in them comes
  from there. `Consistent` promises one position only when no LOCK TABLES is sent; with
  it, what remains is that no row is older than the metadata's position, and that
  non-transactional rows, read under LOCK TABLES, are exactly of it.

`ChunkBuilderProofs` proves, for every finite set of workers and of tables, every
number of chunks, every limit and with or without `--use-defer`,
`CountersHonest`, `CounterWrapsUnseen`, `RequestsAnswered`,
`ChunksDumpedOnce` and `DeferredChunksLast`. `CounterWrapsUnseen` says where the
unsigned `current_threads_running` may wrap below zero: only for tables dumped in one
piece, which never raised it, and for deferred chunks, which lower it twice, and
(but for deferred ones after a signal) only once the builder no longer finds the table on
its list and decides by that number. None of the four properties is
inductive: the counter is taken by the builder and given back by a worker after
the job has gone through one or two queues, so the invariant follows jobs:

* `QueuesOK`, `HandsOK` and `PlacesOK`: which jobs can be in which queue or hand, and
  which loop of `process_queue` a worker is in for the stage it works on.
* `OrderOK`: once a JOB_SHUTDOWN is in a queue, nothing but JOB_SHUTDOWN follows, and a
  worker in the second loop has nothing else left in front of the first one. This
  is what `DeferredChunksLast` rests on.
* `AnswersOK`: tokens, jobs on their way and the builder's hand add up to the
  workers that wait, stage by stage; after the end of a stage the JOB_SHUTDOWNs add up
  to the workers that have not left it.
* `ListsOK`: a table is once on its list or off it for good, and the walk's place is
  that of a table on the list.
* `DefiningOK`, `CountersOK` and `ChunksOK`: for each table, and each chunk, the jobs
  of a kind in the builder's hand, the queues and the hands of the workers
  (`Carried`, `Left`) are as many as state, `current_threads_running` and the chunks
  handed out say.

`DumpPhasesProofs` and `DumpPhasesBackupProofs` prove, for every finite set of
workers, databases and tables, every placement of tables, kind of table and kind
of request, with failing `mysql_select_db` and with signals: `TypesCorrect`,
`QueuesCorrect` (`QueuesSound`), `ListsReady` (`ListsComplete`) and `BackupWhole`
(`BackupComplete`). The first two follow from `QInv` (`Inductive`), which knows
only jobs and places of workers:

* `CounterOK`: without a signal `database_counter` is the number of listing jobs in
  `initial_queue` and in the hands of workers; with one it is at least that number,
  since dropped jobs are never counted down. A worker that holds a listing job
  therefore finds it positive, and the `db_ready` token and the main thread's going on
  happen once, at zero.
* `StatusOK` and `BarriersOK`: who has pushed and who has popped the other tokens. N
  tokens of `initial_completed` mean that all workers have left `initial_queue`.
* `OrderOK`: JOB_SHUTDOWNs are last in each queue, and come only after the phase of
  the main thread that pushes them. What keeps others from pushing behind them is
  that a worker with a job that pushes is still in its initial phase.

The other two need to know where each object is. `BackupInv` (`BackupInductive`) adds
to `QInv`:

* `TableDue(t)` counts the places from which the jobs of table t are still to come: a
  listing job in the queue that will give t, a worker that has t among its rows to
  list, or the JOB_TABLE itself. `DatabaseDue`, `CreationDue` and `NameDue` do the same for a
  database, for its CREATE DATABASE job, and for a name on the list of tables.
  `Made(j)` counts schema or post-data job j in queues, in hands and done.
* `AtMostOnce`: made and due together are at most one, also after a signal, when jobs
  are dropped. For CREATE DATABASE the bound is membership in `database_hash`.
* `NoneLost`: without a signal they are exactly what the table's kind, the request and
  the readability of its database say, and the two lists hold exactly the tables
  that are due no more.
* `ClosedOK`: a worker is past a queue only when JOB_SHUTDOWNs alone are left in it;
  `LockOK` and `FinishOK` tie the LOCK TABLES statement and the metadata file to the
  main thread's and the workers' places.

Each action is described once by what it does to one worker's record and to the
queues (the Effect lemmas), then by what is due less (`DuesLess`) and made more
(`MadeMore`); the invariant is shown on those sets. At the end nobody is in
the initial phase and the queues are empty of work, so nothing is due and what is
made is done.

`RestoreConnectionsProofs` proves, for every set of workers, jobs and scripts, every
finite set of connections, any number of faults and any number of blank results,
`RestoreTypeCorrect`, `LoadsAfterTheirFiles` (`LoadAfterArrival`) and
`PairsStayClean` (`PairsClean`, the part of `PoolClean` that is about queues).

* `QueuesOnce` and `ConnectionsOnce`: a pair of queues and an idle connection are in
  one place only, the pool or one worker's hand.
* `FlightOK`: what is on the way to a connection, in the hands of one (`Busy`) or
  answered on a pair of queues is what its holder still expects (`Due`), and
  nothing on a free pair. Several connections serve one pair, so neither queue
  alone has a bound that a worker knows.
* `ClosesOK`: a CLOSE is in flight alone. It follows from `FlightOK`, since a CLOSE is
  sent only when nothing is due.
* `StatementsOK` and `ArrivalsOK`: a LOAD DATA statement is in a queue or at a
  connection only when its file has arrived, and `sync` says "ready" only of such
  files; so whatever a query, a retry or a COMMIT makes effective is covered
  (`Follows`).

The other part of `PoolClean`, and `RestoredOnce`, do not hold for every script: a
schema file that ends in a DELETE without COMMIT, or two statements the server
refuses, would leave effects that nobody commits. TLC checks them for the scripts
that myloader restores.

`LoaderProofs` proves, for every dump, every combination of options, any finite
sets of file type, schema, loader and index workers and any number of retries and
failing DROPs: `CountersExact` (`TableCounters`) and `RequestsNeverLost`
(`RequestsKept`). `RowsNeverLost` (`RowsStay`), `IndexesLast`
(`IndexesAfterAllData`) and `RestoreComplete` (`RestoredTables`) are proved with a
condition on the run, `Spec /\ [][ReadOnce]_vars => ...`: a file type worker that takes
the step `parse_create_table_from_file` still finds its table unparsed. This is what the
unlocked test of `schema_state` is meant to ensure, and nothing in the code
ensures it for the four file type workers it starts from: `Loader_reparse` is a run
that breaks it and loses rows. Stated on steps, the condition leaves out only the runs in which
two workers do read one schema file, not those in which there are several workers.
`OneReaderReadsOnce` proves that it always holds with one file type worker, or with
a target database (then no data file makes its worker read a schema file). All
rest on four invariants, each on the ones before it:

* `CountInv` (`LoaderCounts`) holds in every run. `TypeInv` types queues
  and records and says what each thread may hold; `CountersOK` follows jobs:
  `remaining_jobs` of a table are its jobs that are listed, queued or with a loader, and
  `current_threads` those that have left the list. That alone is not inductive, since a
  job is put on a list (a set) when its file is read: `HandsOK` adds that no data
  file is in two places, unread, in a worker's hand or listed. `ReadyOK` counts the
  places of a table in `ready_table_queue`, and `RequestsOK` matches waiting loaders
  with requests, jobs and `threads_waiting`.
* `StateInv` (`TablesMadeOnce`) is inductive under steps that keep `ReadOnce`: a table
  has exactly one schema job while it is NOT_CREATED, one schema
  worker while it is CREATING, and none later; the job may be in `schema_job_queue`, wait
  for its database, or be in `retry_queue`. So nothing drops a table that has rows.
  `EndedOK` says what a joined thread has left behind.
* `DataInv` (`DataComplete`, from here on with `ReadOnce` too): every data file of a table that is not skipped is unread,
  in the hands of a worker, on the list, in a queue, with a loader, or its rows are
  in the table. A table at INDEX_ENQUEUED or ALL_DONE has none left outside, so all
  of its rows are there.
* `EndInv` (`EndComplete`): what main may conclude when it has joined the schema
  workers, the loaders and the index workers, one after the other. In
  `index_queue` a table never stands behind the last SHUTDOWN, so the index workers
  leave none. `RestoreComplete` assumes that there is an index worker.

Two definitions of `Loader` put several things into a queue at once: the tables of a
set in the order of the table list (`InOrder`), and the jobs that wait for any of a
set of databases (`WaitingJobs`). That this adds each of them exactly once is
proved from the well-foundedness of finite sets under strict inclusion.

The assumptions are those of the modules. `FilesAssumption` of `Loader` says that a
table of the dump has a schema file, is a sequence or has data files: otherwise no
thread would ever hear of it.

The lemmas of `Counting` say what one change of a function or sequence does to
the number of its places with a property (`Many`, `Items`); every step of these
proofs that moves a thread or a job reduces to them. They are stated with
`Cardinality`, so they need no induction over a length; where a definition repeats
one change until it is done, `SetInduction` and `Iteration` take a minimal
counterexample, a set of numbers, by `WFMin`.

Only model-checked: every liveness property and `EndsUnlessStuck` (the prover does
not do fairness); `PartsDistinct` of StringChunks, where a part number grows by a power
of 2 and the provers know nothing of exponentiation, and its refinement of `TableExport`;
`OutputComplete`, `StreamSound` and `ChildrenBounded` of DumpFiles; `PushedIntact` of
StreamParser and `NamesRestored` of LoaderInput; `RestoredOnce` of RestoreConnections and the
rest of its `PoolClean`, which need to know which scripts a dump can hold.
`RowWriter`, `StreamParser` and `LoaderInput` are about what folds and recursive
functions compute for every input, which this prover cannot do by induction.

## 5. Not modelled, and the plan

Left out of what is modelled: signed and multicolumn keys, failing MIN/MAX
queries, pause and resume, savepoints, the replica section of the metadata,
filters of mydumper, streams of mysqldump, `--ignore-errors`, the text of every
statement and value.

Not modelled at all: daemon mode (a timer around `start_dump`), masquerading (a
pure transformation of values), the disk space monitor and pause mutexes,
the post workers of myloader (independent strings between two barriers),
option parsing, monitoring, logging, regular expressions and connection setup,
which have no protocol of their own.

In this order:

1. Proofs: the refinement of `TableExport` by StringChunks, `ChildrenBounded` of
   DumpFiles.
2. Signals and `--resume` of myloader, and a run of `Loader` with one schema worker.
3. Signed and multicolumn integer keys; post workers.
