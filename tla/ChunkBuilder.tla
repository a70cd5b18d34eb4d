---------------------------- MODULE ChunkBuilder ----------------------------
(***************************************************************************)
(* How the data of all tables is handed to the workers                     *)
(* (mydumper_chunks.c and mydumper_working_thread.c).  A worker asks for   *)
(* work by pushing a token on q->request_chunk and blocks on q->queue; the *)
(* chunk builder answers one token with one job.  It walks q->table_list   *)
(* level by level, a table with fewer running threads first, has each      *)
(* table's chunks determined by a worker, hands chunks out until the table *)
(* has no more, and ends with one JOB_SHUTDOWN per worker.  With           *)
(* --use-defer an integer chunk goes to q->defer, which a worker reads     *)
(* after q->queue, and a JOB_DEFER takes its place.  All of it happens     *)
(* first for the non-transactional tables, then for the transactional.     *)
(*                                                                         *)
(* How a chunk is cut is left out (IntegerChunks models it): get_next      *)
(* gives at least one chunk, then more or NULL as it likes.                *)
(***************************************************************************)
EXTENDS Integers, Sequences, FiniteSets

CONSTANTS
    Workers,             \* the num_threads working threads
    NonTransactional,    \* the tables of conf->non_transactional
    Transactional,       \* the tables of conf->transactional
    Options,             \* the settings of --max-threads-per-table and --use-defer
    MaxChunks,           \* bound: how often get_next gives a chunk of a table
    MaxGuint,            \* the largest guint, for current_threads_running
    NoTable

Tables == NonTransactional \cup Transactional
Stages == 1 .. 2
NumThreads == Cardinality(Workers)

ASSUME ThreadsAssumption ==
    /\ IsFiniteSet(Workers) /\ Workers # {}
    /\ \A o \in Options : /\ o.max_threads_per_table \in Nat \ {0}
                          /\ o.max_threads_per_table < MaxGuint
                          /\ o.use_defer \in BOOLEAN
                          /\ o.use_defer => NumThreads >= 2
    /\ MaxGuint \in Nat /\ MaxGuint > NumThreads
    /\ MaxChunks \in Nat \ {0}
ASSUME TablesAssumption ==
    /\ IsFiniteSet(Tables)
    /\ NonTransactional \cap Transactional = {}
    /\ NoTable \notin Tables

VARIABLES
    options,     \* chosen at the start
    table_list,  \* q->table_list of each stage
    status,      \* dbt->status
    kind,        \* the chunk_type set_chunk_strategy_for_dbt chose
    running,     \* dbt->current_threads_running
    given,       \* how many chunks of a table were handed out
    dumped,      \* how often each chunk was dumped
    request,     \* tokens on q->request_chunk
    queue,       \* q->queue
    defer,       \* q->defer
    builder,     \* the chunk builder thread
    worker,      \* the working threads
    shutdown_triggered

vars == <<options, table_list, status, kind, running, given, dumped, request, queue, defer,
          builder, worker, shutdown_triggered>>

MaxThreadsPerTable == options.max_threads_per_table
UseDefer == options.use_defer

Kinds == {"INTEGER", "PARTITION", "NONE"}   \* STRING is handled as PARTITION
Job == [type : {"DETERMINE_CHUNK_TYPE", "DUMP", "DEFER", "SHUTDOWN"},
        dbt : Tables \cup {NoTable}, chunk : Nat]
NoJob == [type |-> "SHUTDOWN", dbt |-> NoTable, chunk |-> 0]

Orderings(S) == {q \in [1 .. Cardinality(S) -> S] : \A t \in S : \E n \in DOMAIN q : q[n] = t}

\* guint arithmetic
Inc(x) == IF x = MaxGuint THEN 0 ELSE x + 1

Dec(x) == IF x = 0 THEN MaxGuint ELSE x - 1

\* g_list_remove: a list holds a table once.
Without(q, t) ==
    LET at == CHOOSE n \in DOMAIN q : q[n] = t
    IN IF \E n \in DOMAIN q : q[n] = t
       THEN [n \in 1 .. Len(q) - 1 |-> IF n < at THEN q[n] ELSE q[n + 1]]
       ELSE q

-----------------------------------------------------------------------------
(* The chunk builder: table_job_enqueue *)

Requested == request[builder.stage] > 0

\* table_job_enqueue pops a token and get_next_dbt_and_chunk_step_item starts.
TakeRequest ==
    /\ builder.pc = "wait"
    /\ Requested
    /\ ~shutdown_triggered
    /\ request' = [request EXCEPT ![builder.stage] = @ - 1]
    /\ builder' = [builder EXCEPT !.pc = "walk", !.level = 0,
                                  !.iter = table_list[builder.stage],
                                  !.are_there_jobs_defining = FALSE,
                                  !.max_threads_per_table_reached = FALSE]
    /\ UNCHANGED <<options, table_list, status, kind, running, given, dumped, queue, defer, worker,
                   shutdown_triggered>>

\* After a shutdown the next token ends the loop.
StopEnqueuing ==
    /\ builder.pc = "wait"
    /\ Requested
    /\ shutdown_triggered
    /\ request' = [request EXCEPT ![builder.stage] = @ - 1]
    /\ builder' = [builder EXCEPT !.pc = "finish"]
    /\ UNCHANGED <<options, table_list, status, kind, running, given, dumped, queue, defer, worker,
                   shutdown_triggered>>

\* The walk is at table t and holds its chunks_mutex.
At(t) == builder.pc = "walk" /\ builder.iter # <<>> /\ t = Head(builder.iter)

Found(type, t, chunk) ==
    [builder EXCEPT !.pc = "push", !.job = [type |-> type, dbt |-> t, chunk |-> chunk]]

VisitUndefined(t) ==
    /\ At(t)
    /\ status[t] = "UNDEFINED"
    /\ status' = [status EXCEPT ![t] = "DEFINING"]
    /\ builder' = Found("DETERMINE_CHUNK_TYPE", t, 0)
    /\ UNCHANGED <<options, table_list, kind, running, given, dumped, request, queue, defer, worker,
                   shutdown_triggered>>

VisitDefining(t) ==
    /\ At(t)
    /\ status[t] = "DEFINING"
    /\ builder' = [builder EXCEPT !.iter = Tail(builder.iter),
                                  !.are_there_jobs_defining = TRUE]
    /\ UNCHANGED <<options, table_list, status, kind, running, given, dumped, request, queue, defer,
                   worker, shutdown_triggered>>

\* A full table scan leaves the list at once, without counting a thread.
VisitNone(t) ==
    /\ At(t)
    /\ status[t] = "READY" /\ kind[t] = "NONE"
    /\ table_list' = [table_list EXCEPT ![builder.stage] = Without(@, t)]
    /\ given' = [given EXCEPT ![t] = 1]
    /\ builder' = Found("DUMP", t, 1)
    /\ UNCHANGED <<options, status, kind, running, dumped, request, queue, defer, worker,
                   shutdown_triggered>>

\* The table's own limit, and the level of the walk.
LimitReached(t) == \/ MaxThreadsPerTable <= running[t]
                   \/ running[t] > builder.level

VisitBusy(t) ==
    /\ At(t)
    /\ status[t] = "READY" /\ kind[t] # "NONE"
    /\ LimitReached(t)
    /\ builder' = [builder EXCEPT !.iter = Tail(builder.iter),
                                  !.max_threads_per_table_reached = TRUE]
    /\ UNCHANGED <<options, table_list, status, kind, running, given, dumped, request, queue, defer,
                   worker, shutdown_triggered>>

AsksNext(t) == /\ At(t)
               /\ status[t] = "READY" /\ kind[t] # "NONE"
               /\ ~LimitReached(t)

\* chunk_functions.get_next gives a chunk.
VisitGivesChunk(t) ==
    /\ AsksNext(t)
    /\ given[t] < MaxChunks
    /\ given' = [given EXCEPT ![t] = @ + 1]
    /\ running' = [running EXCEPT ![t] = Inc(@)]
    /\ builder' = Found("DUMP", t, given[t] + 1)
    /\ UNCHANGED <<options, table_list, status, kind, dumped, request, queue, defer, worker,
                   shutdown_triggered>>

\* get_next gives NULL: the table leaves the list, the walk goes on.
VisitGivesNull(t) ==
    /\ AsksNext(t)
    /\ given[t] > 0
    /\ table_list' = [table_list EXCEPT ![builder.stage] = Without(@, t)]
    /\ builder' = [builder EXCEPT !.iter = Tail(builder.iter)]
    /\ UNCHANGED <<options, status, kind, running, given, dumped, request, queue, defer, worker,
                   shutdown_triggered>>

\* The switch of table_job_enqueue: which job goes on which queue.
Deferred(job) == UseDefer /\ job.type = "DUMP" /\ kind[job.dbt] = "INTEGER"

PushJob ==
    /\ builder.pc = "push"
    /\ LET s == builder.stage
           job == builder.job
       IN IF Deferred(job)
          THEN /\ defer' = [defer EXCEPT ![s] = Append(@, job)]
               /\ queue' = [queue EXCEPT ![s] = Append(@, [job EXCEPT !.type = "DEFER"])]
          ELSE /\ queue' = [queue EXCEPT ![s] = Append(@, job)]
               /\ UNCHANGED defer
    /\ builder' = [builder EXCEPT !.pc = "wait", !.iter = <<>>, !.job = NoJob]
    /\ UNCHANGED <<options, table_list, status, kind, running, given, dumped, request, worker,
                   shutdown_triggered>>

EndOfList == builder.pc = "walk" /\ builder.iter = <<>>

NextLevel ==
    /\ EndOfList
    /\ builder.level + 1 < MaxThreadsPerTable
    /\ builder' = [builder EXCEPT !.level = @ + 1, !.iter = table_list[builder.stage]]
    /\ UNCHANGED <<options, table_list, status, kind, running, given, dumped, request, queue, defer,
                   worker, shutdown_triggered>>

LastLevelDone == EndOfList /\ builder.level + 1 >= MaxThreadsPerTable

\* Mutant: tables that are still being defined are forgotten.
WorkLeftNoDefining == builder.max_threads_per_table_reached

WorkLeft == builder.are_there_jobs_defining \/ builder.max_threads_per_table_reached

\* Mutant: the token is lost.
TryAgainTokenLost ==
    /\ LastLevelDone
    /\ WorkLeft
    /\ builder' = [builder EXCEPT !.pc = "wait", !.iter = <<>>]
    /\ UNCHANGED <<options, table_list, status, kind, running, given, dumped, request, queue, defer,
                   worker, shutdown_triggered>>

\* The token goes back; the walk is tried again after a usleep.
TryAgainLater ==
    /\ LastLevelDone
    /\ WorkLeft
    /\ request' = [request EXCEPT ![builder.stage] = @ + 1]
    /\ builder' = [builder EXCEPT !.pc = "wait", !.iter = <<>>]
    /\ UNCHANGED <<options, table_list, status, kind, running, given, dumped, queue, defer, worker,
                   shutdown_triggered>>

NoJobDefined ==
    /\ LastLevelDone
    /\ ~WorkLeft
    /\ builder' = [builder EXCEPT !.pc = "finish"]
    /\ UNCHANGED <<options, table_list, status, kind, running, given, dumped, request, queue, defer,
                   worker, shutdown_triggered>>

enqueue_shutdown_jobs(q) == q \o [n \in 1 .. NumThreads |-> NoJob]

\* enqueue_shutdown, and on to the next call of table_job_enqueue.
EnqueueShutdown ==
    /\ builder.pc = "finish"
    /\ LET s == builder.stage
       IN /\ queue' = [queue EXCEPT ![s] = enqueue_shutdown_jobs(@)]
          /\ defer' = [defer EXCEPT ![s] = enqueue_shutdown_jobs(@)]
          /\ builder' = IF s = 1 THEN [builder EXCEPT !.pc = "wait", !.stage = 2]
                                 ELSE [builder EXCEPT !.pc = "done"]
    /\ UNCHANGED <<options, table_list, status, kind, running, given, dumped, request, worker,
                   shutdown_triggered>>

-----------------------------------------------------------------------------
(* A working thread: process_queue on q->queue, then on q->defer, for each  *)
(* of the two stages.                                                      *)

LoopTop(w) == [worker[w] EXCEPT !.pc = IF worker[w].loop = "queue" THEN "request" ELSE "pop",
                                !.job = NoJob]

LoopEnd(w) ==
    IF worker[w].loop = "queue"
    THEN [worker[w] EXCEPT !.pc = "pop", !.loop = "defer"]
    ELSE IF worker[w].stage = 1
    THEN [worker[w] EXCEPT !.pc = "request", !.loop = "queue", !.stage = 2]
    ELSE [worker[w] EXCEPT !.pc = "end"]

RequestChunk(w) ==
    /\ worker[w].pc = "request"
    /\ request' = [request EXCEPT ![worker[w].stage] = @ + 1]
    /\ worker' = [worker EXCEPT ![w].pc = "pop"]
    /\ UNCHANGED <<options, table_list, status, kind, running, given, dumped, queue, defer, builder,
                   shutdown_triggered>>

\* The queue that the worker's loop reads.
Source(w) == IF worker[w].loop = "queue" THEN queue[worker[w].stage]
                                         ELSE defer[worker[w].stage]

\* g_async_queue_pop: blocks while the queue is empty.
Pop(w) ==
    /\ worker[w].pc = "pop"
    /\ Source(w) # <<>>
    /\ IF worker[w].loop = "queue"
       THEN queue' = [queue EXCEPT ![worker[w].stage] = Tail(@)] /\ UNCHANGED defer
       ELSE defer' = [defer EXCEPT ![worker[w].stage] = Tail(@)] /\ UNCHANGED queue

\* Mutant: a JOB_DEFER ends the loop too.
LeavesAtDefer(job) == job.type \in {"SHUTDOWN", "DEFER"} \/ shutdown_triggered

\* A shutdown makes a worker drop any job it gets.
Leaves(job) == job.type = "SHUTDOWN" \/ shutdown_triggered

LeaveLoop(w) ==
    /\ Pop(w)
    /\ Leaves(Head(Source(w)))
    /\ worker' = [worker EXCEPT ![w] = LoopEnd(w)]
    /\ UNCHANGED <<options, table_list, status, kind, running, given, dumped, request, builder,
                   shutdown_triggered>>

TakeJob(w) ==
    /\ Pop(w)
    /\ ~Leaves(Head(Source(w)))
    /\ worker' = [worker EXCEPT ![w].pc = "run", ![w].job = Head(Source(w))]
    /\ UNCHANGED <<options, table_list, status, kind, running, given, dumped, request, builder,
                   shutdown_triggered>>

Runs(w, type) == worker[w].pc = "run" /\ worker[w].job.type = type

\* set_chunk_strategy_for_dbt, which holds chunks_mutex throughout.
DetermineChunkType(w) ==
    /\ Runs(w, "DETERMINE_CHUNK_TYPE")
    /\ \E k \in Kinds : kind' = [kind EXCEPT ![worker[w].job.dbt] = k]
    /\ status' = [status EXCEPT ![worker[w].job.dbt] = "READY"]
    /\ worker' = [worker EXCEPT ![w] = LoopTop(w)]
    /\ UNCHANGED <<options, table_list, running, given, dumped, request, queue, defer, builder,
                   shutdown_triggered>>

\* chunk_functions.process; a shutdown stops it before the end of the chunk.
ProcessChunk(w) ==
    /\ Runs(w, "DUMP")
    /\ \/ dumped' = [dumped EXCEPT ![worker[w].job.dbt][worker[w].job.chunk] = @ + 1]
       \/ shutdown_triggered /\ UNCHANGED dumped
    /\ worker' = [worker EXCEPT ![w].pc = "release"]
    /\ UNCHANGED <<options, table_list, status, kind, running, given, request, queue, defer, builder,
                   shutdown_triggered>>

\* Mutant: the thread slot of the table is not given back.
ReleaseForgotten(w) ==
    /\ worker[w].pc = "release"
    /\ worker' = [worker EXCEPT ![w] = LoopTop(w)]
    /\ UNCHANGED <<options, table_list, status, kind, running, given, dumped, request, queue, defer,
                   builder, shutdown_triggered>>

\* The end of thd_JOB_DUMP.
ReleaseTable(w) ==
    /\ worker[w].pc = "release"
    /\ running' = [running EXCEPT ![worker[w].job.dbt] = Dec(@)]
    /\ worker' = [worker EXCEPT ![w] = LoopTop(w)]
    /\ UNCHANGED <<options, table_list, status, kind, given, dumped, request, queue, defer, builder,
                   shutdown_triggered>>

\* Mutant: JOB_DEFER does not balance the builder's increment.
DeferUnbalanced(w) ==
    /\ Runs(w, "DEFER")
    /\ worker' = [worker EXCEPT ![w] = LoopTop(w)]
    /\ UNCHANGED <<options, table_list, status, kind, running, given, dumped, request, queue, defer,
                   builder, shutdown_triggered>>

\* case JOB_DEFER of process_job
ProcessDefer(w) ==
    /\ Runs(w, "DEFER")
    /\ running' = [running EXCEPT ![worker[w].job.dbt] = Dec(@)]
    /\ worker' = [worker EXCEPT ![w] = LoopTop(w)]
    /\ UNCHANGED <<options, table_list, status, kind, given, dumped, request, queue, defer, builder,
                   shutdown_triggered>>

\* sig_triggered
Shutdown ==
    /\ ~shutdown_triggered
    /\ shutdown_triggered' = TRUE
    /\ UNCHANGED <<options, table_list, status, kind, running, given, dumped, request, queue, defer,
                   builder, worker>>

-----------------------------------------------------------------------------
Init ==
    /\ options \in Options
    /\ table_list \in {[s \in Stages |-> IF s = 1 THEN a ELSE b] :
                         a \in Orderings(NonTransactional), b \in Orderings(Transactional)}
    /\ status = [t \in Tables |-> "UNDEFINED"]
    /\ kind = [t \in Tables |-> "NONE"]
    /\ running = [t \in Tables |-> 0]
    /\ given = [t \in Tables |-> 0]
    /\ dumped = [t \in Tables |-> [n \in 1 .. MaxChunks |-> 0]]
    /\ request = [s \in Stages |-> 0]
    /\ queue = [s \in Stages |-> <<>>]
    /\ defer = [s \in Stages |-> <<>>]
    /\ builder = [pc |-> "wait", stage |-> 1, level |-> 0, iter |-> <<>>, job |-> NoJob,
                  are_there_jobs_defining |-> FALSE, max_threads_per_table_reached |-> FALSE]
    /\ worker = [w \in Workers |-> [pc |-> "request", stage |-> 1, loop |-> "queue",
                                    job |-> NoJob]]
    /\ shutdown_triggered = FALSE

Builder == \/ TakeRequest \/ StopEnqueuing \/ PushJob \/ NextLevel \/ TryAgainLater
           \/ NoJobDefined \/ EnqueueShutdown
           \/ \E t \in Tables : \/ VisitUndefined(t) \/ VisitDefining(t) \/ VisitNone(t)
                                \/ VisitBusy(t) \/ VisitGivesChunk(t) \/ VisitGivesNull(t)

Worker(w) == \/ RequestChunk(w) \/ LeaveLoop(w) \/ TakeJob(w) \/ DetermineChunkType(w)
             \/ ProcessChunk(w) \/ ReleaseTable(w) \/ ProcessDefer(w)

AllEnded == builder.pc = "done" /\ \A w \in Workers : worker[w].pc = "end"

\* The threads are joined: nothing more happens.
Joined == AllEnded /\ UNCHANGED vars

Next == Builder \/ Shutdown \/ Joined \/ \E w \in Workers : Worker(w)

Spec == Init /\ [][Next]_vars

\* The threads are scheduled fairly; a signal need not come.
Fairness == WF_vars(Builder) /\ \A w \in Workers : WF_vars(Worker(w))
FairSpec == Spec /\ Fairness

-----------------------------------------------------------------------------
(* Properties *)

\* Every variable keeps its type; current_threads_running stays a guint.
TypeOK ==
    /\ options \in Options
    /\ table_list \in [Stages -> Seq(Tables)]
    /\ status \in [Tables -> {"UNDEFINED", "DEFINING", "READY"}]
    /\ kind \in [Tables -> Kinds]
    /\ running \in [Tables -> 0 .. MaxGuint]
    /\ given \in [Tables -> 0 .. MaxChunks]
    /\ dumped \in [Tables -> [1 .. MaxChunks -> Nat]]
    /\ request \in [Stages -> Nat]
    /\ queue \in [Stages -> Seq(Job)] /\ defer \in [Stages -> Seq(Job)]
    /\ builder \in [pc : {"wait", "walk", "push", "finish", "done"}, stage : Stages,
                    level : 0 .. MaxThreadsPerTable - 1, iter : Seq(Tables), job : Job,
                    are_there_jobs_defining : BOOLEAN,
                    max_threads_per_table_reached : BOOLEAN]
    /\ worker \in [Workers -> [pc : {"request", "pop", "run", "release", "end"},
                              stage : Stages, loop : {"queue", "defer"}, job : Job]]
    /\ shutdown_triggered \in BOOLEAN

Jobs(q, type, t) == Cardinality({n \in DOMAIN q : q[n].type = type /\ q[n].dbt = t})
Holders(type, t) == {w \in Workers : /\ worker[w].pc \in {"run", "release"}
                                     /\ worker[w].job.type = type /\ worker[w].job.dbt = t}
InHand(type, t) == IF builder.pc = "push" /\ builder.job.type = type /\ builder.job.dbt = t
                   THEN 1 ELSE 0

\* The jobs for which the counter of table t was raised and not lowered yet.
Outstanding(t) ==
    InHand("DUMP", t)
      + (IF UseDefer /\ kind[t] = "INTEGER"
         THEN Jobs(queue[1], "DEFER", t) + Jobs(queue[2], "DEFER", t)
              + Cardinality(Holders("DEFER", t))
         ELSE Jobs(queue[1], "DUMP", t) + Jobs(queue[2], "DUMP", t)
              + Cardinality(Holders("DUMP", t)))

Listed(t) == \E s \in Stages : \E n \in DOMAIN table_list[s] : table_list[s][n] = t

\* What the builder decides on is right: while a table is on its list,
\* current_threads_running is the number of threads its chunks keep busy, within the
\* limit (once the table has left the list the counter may run below zero), and
\* DEFINING says that one JOB_DETERMINE_CHUNK_TYPE is on its way.  So at most
\* --max-threads-per-table threads work on a table; not with --use-defer, where every
\* worker takes deferred chunks of any table.
CounterHonest ==
    /\ ~shutdown_triggered => \A t \in Tables :
         /\ Listed(t) => running[t] = Outstanding(t) /\ running[t] <= MaxThreadsPerTable
         /\ (IF status[t] = "DEFINING" THEN 1 ELSE 0)
              = InHand("DETERMINE_CHUNK_TYPE", t)
                + Jobs(queue[1], "DETERMINE_CHUNK_TYPE", t)
                + Jobs(queue[2], "DETERMINE_CHUNK_TYPE", t)
                + Cardinality(Holders("DETERMINE_CHUNK_TYPE", t))
    /\ ~UseDefer => \A t \in Tables : Cardinality(Holders("DUMP", t)) <= MaxThreadsPerTable

\* The workers in the first loop of a stage.
Waiting(s) == {w \in Workers : worker[w].stage = s /\ worker[w].loop = "queue"}

\* Every worker that waits for a job has exactly one token or job on its way, so the
\* builder never waits for a request while all workers wait for the builder; after
\* the last job there is one JOB_SHUTDOWN for each worker still in the loop.
OneAnswerPerRequest ==
    ~shutdown_triggered => \A s \in Stages :
        IF builder.stage = s /\ builder.pc # "done"
        THEN request[s] + Len(queue[s]) + (IF builder.pc = "wait" THEN 0 ELSE 1)
               = Cardinality({w \in Waiting(s) : worker[w].pc = "pop"})
        ELSE builder.stage < s
             \/ Jobs(queue[s], "SHUTDOWN", NoTable) = Cardinality(Waiting(s))
                  + (IF s = 2 THEN Cardinality({w \in Workers : worker[w].stage = 1}) ELSE 0)

\* No chunk is dumped twice, and when the threads are joined every table has left the
\* list and each chunk that was handed out was dumped, whichever queue it took.
EveryChunkDumped ==
    /\ \A t \in Tables : \A n \in 1 .. MaxChunks : dumped[t][n] <= 1
    /\ AllEnded /\ ~shutdown_triggered =>
         \A t \in Tables : /\ ~Listed(t) /\ given[t] > 0
                           /\ \A n \in 1 .. given[t] : dumped[t][n] = 1

\* Deferred chunks are dumped only when the jobs of all other tables were taken.
DeferredLast ==
    \A w \in Workers :
        worker[w].loop = "defer" /\ worker[w].pc \in {"run", "release"}
            /\ ~shutdown_triggered
          => \A n \in DOMAIN queue[worker[w].stage] :
               queue[worker[w].stage][n].type = "SHUTDOWN"

\* What a signal can do: a worker drops its job and leaves without a new request, and
\* once all have left q->queue like this the builder waits for a request (in
\* mydumper_chunks.c) and the workers for the JOB_SHUTDOWN jobs it would send.
LeftWaiting ==
    /\ shutdown_triggered
    /\ builder.pc = "wait" /\ request[builder.stage] = 0
    /\ \A w \in Workers : worker[w].pc \in {"pop", "end"}

\* The builder and the workers come to an end, whatever the tables and their chunks:
\* the builder's retries do not go on for ever.  After a signal ("Shutting down
\* gracefully") they end too, but for one way to wait for each other.
Termination == <>(AllEnded \/ LeftWaiting)

\* A shutdown always ends the dump.  This is not so, see LeftWaiting.
GracefulShutdown == shutdown_triggered ~> AllEnded
=============================================================================
