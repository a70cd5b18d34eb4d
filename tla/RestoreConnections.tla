------------------------- MODULE RestoreConnections -------------------------
(***************************************************************************)
(* How myloader executes the statements of a file or of a string           *)
(* (src/myloader/myloader_restore.c).  A worker reads statements and hands *)
(* them over to connections, each served by a restore thread of its own:   *)
(* it takes a connection from connection_pool and a pair of queues from    *)
(* restore_queues, and keeps up to eight statements in flight by putting   *)
(* seven blank ones on the result queue first.  More than one connection   *)
(* may serve the same pair of queues.  Connections batch their INSERTs in  *)
(* transactions of commit_count queries and retry a failed query once.  A  *)
(* LOAD DATA statement waits until its data file has arrived.              *)
(*                                                                         *)
(* The server is external: a session's open transaction, and what a lost   *)
(* connection, a deadlock or a failed COMMIT rolls back.  The hand-over of *)
(* a pair of queues through cd->ready is one step.  Left out: a file that  *)
(* cannot be opened or read, --ignore-errors, mysqldump files, FIFOs.      *)
(***************************************************************************)
EXTENDS Integers, FiniteSets, SequencesExt

CONSTANTS
    Threads,      \* the workers that restore files and strings
    Conns,        \* the restore threads and their connections: num_threads
    Jobs,         \* the files and strings to restore
    ScriptOf,     \* the statements of each job, by kind
    FromFile,     \* the jobs that are files; the others are strings
    Pieces,       \* the queries --rows makes of one INSERT
    SchemaJobs,   \* the jobs called with is_schema
    MaxThreads,   \* dbt->max_threads: connections for one file
    Prefill,      \* the blank results of a file, 7 in the code
    CommitCount,  \* --queries-per-transaction
    Faults,       \* what can happen to a query or a COMMIT, see Queried
    MaxFaults,    \* bound: how often something does
    MaxJobs,      \* bound: how many of the jobs there are at once
    None

ASSUME SizesAssumption ==
    /\ Prefill \in Nat /\ MaxFaults \in Nat /\ MaxJobs \in Nat
    /\ CommitCount \in Nat \ {0} /\ MaxThreads \in Nat \ {0} /\ Pieces \in Nat \ {0}
    /\ IsFiniteSet(Conns) /\ Conns # {}
ASSUME JobsAssumption ==
    /\ ScriptOf \in [Jobs -> Seq({"SET", "DDL", "DELETE", "COMMIT", "INSERT", "LOAD"})]
    /\ FromFile \subseteq Jobs /\ SchemaJobs \subseteq Jobs
    /\ \A j \in Jobs : ScriptOf[j] # <<>>
    /\ \A j \in Jobs \ FromFile :
         \A i \in DOMAIN ScriptOf[j] : ScriptOf[j][i] \notin {"INSERT", "LOAD"}
    /\ Faults \subseteq {"timeout", "refused", "deadlock", "lost", "answer lost", "commit"}

VARIABLES
    todo,             \* jobs no worker has taken
    td,               \* each worker's place in its job
    connection_pool,  \* queue of idle connections
    restore_queues,   \* queue of free io_restore_results
    free_results,     \* length of free_results_queue: free statements
    restore, result,  \* the two queues of each io_restore_result
    cd,               \* the connections and their restore threads
    sync,             \* load_data_list: per LOAD DATA "absent", "waiting", "ready"
    arrived,          \* the data files that are complete on disk
    committed,        \* how often each statement has taken effect for good
    silent,           \* history: effects that a fault undid or repeated unseen
    reported,         \* the result each finished job returned, -1 before
    faults_left,
    always_fatal,     \* g_critical ends the process
    exited            \* g_error, g_critical or m_critical ended the process

vars == <<todo, td, connection_pool, restore_queues, free_results, restore, result, cd,
          sync, arrived, committed, silent, reported, faults_left, always_fatal, exited>>

Queues == 1 .. Cardinality(Conns)     \* one io_restore_result per thread

\* The statements, by job and position, and the effects they have to have.
Places == UNION {{<<j, i>> : i \in DOMAIN ScriptOf[j]} : j \in Jobs}
KindAt(p) == ScriptOf[p[1]][p[2]]
Loads == {p \in Places : KindAt(p) = "LOAD"}
QueriesOf(p) == IF KindAt(p) = "INSERT" THEN Pieces ELSE 1
Effects == UNION {{<<p[1], p[2], n>> : n \in 1 .. QueriesOf(p)} :
                  p \in {q \in Places : KindAt(q) \notin {"SET", "COMMIT"}}}

\* struct statement
Statement == [kind : {"INSERT", "OTHER", "CLOSE", "BLANK"},
              place : Places \cup {None}, result : 0 .. 2]
Close == [kind |-> "CLOSE", place |-> None, result |-> 0]
Blank == [kind |-> "BLANK", place |-> None, result |-> 0]

Idle == [at |-> "free", job |-> None, i |-> 1, conn |-> None, queue |-> 0,
         granted |-> 0, results_added |-> FALSE, left |-> 0, r |-> 0]

\* struct connection_data, the restore thread's query_counter and, external,
\* the session: is a transaction open, and what has it done so far?
NewConnection == [at |-> "pool", queue |-> 0, transaction |-> FALSE, query_counter |-> 0,
                  ir |-> Blank, piece |-> 0, in_transaction |-> FALSE, pending |-> {}]

serverVars == <<committed, silent, faults_left, always_fatal, exited>>

-----------------------------------------------------------------------------
(* The worker: restore_data_from_mydumper_file for files, and              *)
(* restore_data_in_gstring_extended for strings.                           *)

\* A worker gets here when a connection is idle: wait_for_available_restore_thread.
TakeJob(t, j) ==
    /\ td[t].at = "free"
    /\ j \in todo
    /\ connection_pool # <<>>
    /\ todo' = todo \ {j}
    /\ td' = [td EXCEPT ![t] = [Idle EXCEPT !.at = "queue", !.job = j, !.conn = Head(connection_pool)]]
    /\ connection_pool' = Tail(connection_pool)
    /\ always_fatal' = (always_fatal \/ j \in FromFile)
    /\ UNCHANGED <<restore_queues, free_results, restore, result, cd, sync, arrived,
                   reported, committed, silent, faults_left, exited>>

\* The session s with its transaction ended; `ok' is the server's answer.
Committed(s, ok) ==
    IF ok THEN [s EXCEPT !.committed = [e \in Effects |-> @[e] + IF e \in s.pending THEN 1 ELSE 0],
                         !.pending = {}, !.in_transaction = FALSE]
          ELSE [s EXCEPT !.silent = @ \cup s.pending,
                         !.pending = {}, !.in_transaction = FALSE]

Session(c) == [pending |-> cd[c].pending, in_transaction |-> cd[c].in_transaction,
               query_counter |-> cd[c].query_counter, committed |-> committed,
               silent |-> silent, result |-> 0]

\* setup_connection: unless every query is its own transaction, START
\* TRANSACTION, which ends the transaction the session may still have open.
Setup(c, q, j) ==
    LET transaction == j \notin SchemaJobs /\ CommitCount > 1
        s == IF transaction THEN Committed(Session(c), TRUE) ELSE Session(c)
    IN /\ cd' = [cd EXCEPT ![c].at = "serving", ![c].queue = q, ![c].transaction = transaction,
                           ![c].in_transaction = @ \/ transaction, ![c].pending = s.pending]
       /\ committed' = s.committed

\* A pair of queues, and a statement to read the file with.
PopQueue(t) ==
    /\ td[t].at = "queue"
    /\ restore_queues # <<>> /\ free_results > 0
    /\ Setup(td[t].conn, Head(restore_queues), td[t].job)
    /\ td' = [td EXCEPT ![t].at = "read", ![t].queue = Head(restore_queues), ![t].granted = 1]
    /\ restore_queues' = Tail(restore_queues)
    /\ free_results' = free_results - 1
    /\ UNCHANGED <<todo, connection_pool, restore, result, sync, arrived, reported, silent,
                   faults_left, always_fatal, exited>>

Place(t) == <<td[t].job, td[t].i>>
Reads(t, kinds) == td[t].at = "read" /\ Place(t) \in Places /\ KindAt(Place(t)) \in kinds

\* assign_statement
Current(t, kind) == [kind |-> kind, place |-> Place(t), result |-> 0]

Push(t, st) == restore' = [restore EXCEPT ![td[t].queue] = Append(@, st)]

\* A statement that is neither INSERT nor LOAD DATA.
ReadOther(t) ==
    /\ Reads(t, {"SET", "DDL", "DELETE", "COMMIT"})
    /\ Push(t, Current(t, "OTHER"))
    /\ td' = [td EXCEPT ![t].at = "result"]
    /\ UNCHANGED <<todo, connection_pool, restore_queues, free_results, result, cd, sync,
                   arrived, reported, serverVars>>

\* INSERT: request_another_connection gives the file one more connection when
\* the table has no other file left and one is idle.  Before the first INSERT
\* the blank results are made available, in one step: a worker that holds a
\* pair of queues finds its statements free.
ReadInsert(t) ==
    LET q == td[t].queue
        blanks == IF td[t].results_added THEN 0 ELSE Prefill
    IN /\ Reads(t, {"INSERT"})
       /\ free_results >= blanks
       /\ free_results' = free_results - blanks
       /\ result' = [result EXCEPT ![q] = @ \o [n \in 1 .. blanks |-> Blank]]
       /\ Push(t, Current(t, "INSERT"))
       /\ \/ /\ td' = [td EXCEPT ![t].at = "result", ![t].results_added = TRUE]
             /\ UNCHANGED <<connection_pool, cd, committed>>
          \/ /\ connection_pool # <<>> /\ td[t].granted < MaxThreads
             /\ Setup(Head(connection_pool), q, td[t].job)
             /\ connection_pool' = Tail(connection_pool)
             /\ td' = [td EXCEPT ![t].at = "result", ![t].results_added = TRUE,
                                 ![t].granted = @ + 1]
       /\ UNCHANGED <<todo, restore_queues, sync, arrived, reported, silent, faults_left,
                      always_fatal, exited>>

\* Mutant: a data file nobody has announced is taken to be there.
LocatedReady(l) == IF sync[l] = "absent" THEN "ready" ELSE sync[l]

Located(l) == IF sync[l] = "absent" THEN "waiting" ELSE sync[l]

\* LOAD DATA: load_data_mutex_locate, with the connection held.
Locate(t) ==
    /\ Reads(t, {"LOAD"})
    /\ sync' = [sync EXCEPT ![Place(t)] = Located(Place(t))]
    /\ td' = [td EXCEPT ![t].at = "load"]
    /\ UNCHANGED <<todo, connection_pool, restore_queues, free_results, restore, result,
                   cd, arrived, reported, serverVars>>

\* The wait for sync->ready is over.
PushLoadData(t) ==
    /\ td[t].at = "load"
    /\ sync[Place(t)] = "ready"
    /\ Push(t, Current(t, "OTHER"))
    /\ td' = [td EXCEPT ![t].at = "result"]
    /\ UNCHANGED <<todo, connection_pool, restore_queues, free_results, result, cd, sync,
                   arrived, reported, serverVars>>

\* Mutant: only somebody who waits already is told.
ReleasedWaiter(l) == IF sync[l] = "waiting" THEN "ready" ELSE sync[l]

\* A data file that nobody waits for yet is remembered.
Released(l) == "ready"

\* release_load_data_as_it_is_close, by the worker that registers the file.
Arrive(l) ==
    /\ l \in Loads \ arrived
    /\ arrived' = arrived \cup {l}
    /\ sync' = [sync EXCEPT ![l] = Released(l)]
    /\ UNCHANGED <<todo, td, connection_pool, restore_queues, free_results, restore,
                   result, cd, reported, serverVars>>

\* The results that are still due when the last statement was answered.
InFlight(t) == IF td[t].results_added THEN Prefill ELSE 0

\* Some earlier statement's result; for a file m_critical ends the process.
\* After the last one the statement that is left is free.
PopResult(t) ==
    LET q == td[t].queue
        last == td[t].i = Len(ScriptOf[td[t].job])
        failed == Head(result[q]).result > 0
    IN /\ td[t].at = "result"
       /\ result[q] # <<>>
       /\ result' = [result EXCEPT ![q] = Tail(@)]
       /\ td' = [td EXCEPT ![t].at = IF last THEN "drain" ELSE "read", ![t].i = @ + 1,
                           ![t].left = IF last THEN InFlight(t) ELSE 0,
                           ![t].r = @ + Head(result[q]).result]
       /\ free_results' = free_results + (IF last THEN 1 ELSE 0)
       /\ exited' = (failed /\ td[t].job \in FromFile)
       /\ UNCHANGED <<todo, connection_pool, restore_queues, restore, cd, sync, arrived,
                      reported, committed, silent, faults_left, always_fatal>>

\* Results of a failed statement end the process here too, but are not added
\* to what the function returns.
Drain(t) ==
    LET q == td[t].queue
    IN /\ td[t].at = "drain"
       /\ td[t].left > 0
       /\ result[q] # <<>>
       /\ result' = [result EXCEPT ![q] = Tail(@)]
       /\ free_results' = free_results + 1
       /\ td' = [td EXCEPT ![t].left = @ - 1]
       /\ exited' = (Head(result[q]).result > 0)
       /\ UNCHANGED <<todo, connection_pool, restore_queues, restore, cd, sync, arrived,
                      reported, committed, silent, faults_left, always_fatal>>

\* One CLOSE for each connection granted, the next only after the answer.
PushClose(t) ==
    /\ td[t].at = "drain"
    /\ td[t].left = 0
    /\ td[t].granted > 0
    /\ Push(t, Close)
    /\ td' = [td EXCEPT ![t].at = "close"]
    /\ UNCHANGED <<todo, connection_pool, restore_queues, free_results, result, cd, sync,
                   arrived, reported, serverVars>>

PopClose(t) ==
    LET q == td[t].queue
    IN /\ td[t].at = "close"
       /\ result[q] # <<>>
       /\ result' = [result EXCEPT ![q] = Tail(@)]
       /\ td' = [td EXCEPT ![t].at = "drain", ![t].granted = @ - 1]
       /\ UNCHANGED <<todo, connection_pool, restore_queues, free_results, restore, cd,
                      sync, arrived, reported, serverVars>>

FinishJob(t) ==
    /\ td[t].at = "drain"
    /\ td[t].left = 0
    /\ td[t].granted = 0
    /\ restore_queues' = Append(restore_queues, td[t].queue)
    /\ reported' = [reported EXCEPT ![td[t].job] = td[t].r]
    /\ td' = [td EXCEPT ![t] = Idle]
    /\ UNCHANGED <<todo, connection_pool, free_results, restore, result, cd, sync,
                   arrived, serverVars>>

-----------------------------------------------------------------------------
(* The connection: restore_thread.                                         *)

ServerUnchanged == UNCHANGED <<todo, td, restore_queues, free_results, sync, arrived, reported>>

\* The effect of a query on the session, external: DDL ends the transaction.
Ran(s, e) ==
    CASE KindAt(e) = "SET" -> s
      [] KindAt(e) = "COMMIT" -> Committed(s, TRUE)
      [] KindAt(e) = "DDL" -> [Committed(s, TRUE) EXCEPT !.committed[e] = @ + 1]
      [] KindAt(e) \in {"DELETE", "INSERT", "LOAD"} ->
           IF s.in_transaction THEN [s EXCEPT !.pending = @ \cup {e}]
                               ELSE [s EXCEPT !.committed[e] = @ + 1]

\* The session after the server ended it, or its transaction.
RolledBack(s) == [s EXCEPT !.pending = {}, !.in_transaction = FALSE]

\* Mutant: a query that failed twice is taken for done.
FailedIgnored(s) == s

Failed(s) == [s EXCEPT !.result = 1]

\* A new connection has forgotten the transaction, so there is no retry.
LosesTransaction(is_schema) == ~is_schema /\ CommitCount > 1

Counted(s) == [s EXCEPT !.query_counter = @ + 1]

\* restore_data_in_gstring_by_statement.  "timeout": the first attempt fails,
\* the second succeeds; "refused": both fail; "deadlock": the transaction is
\* rolled back and the second attempt is outside of it; "lost", "answer
\* lost": the connection is lost before or after the query is executed.
Queried(s, e, is_schema, fault) ==
    CASE fault \in {"none", "timeout", "commit"} -> Counted(Ran(s, e))
      [] fault = "refused" -> Failed(s)
      [] fault = "deadlock" -> Counted(Ran([RolledBack(s) EXCEPT !.silent = @ \cup s.pending], e))
      [] fault \in {"lost", "answer lost"} ->
           LET executed == IF fault = "lost" THEN s ELSE Ran(s, e)
               repeated == {x \in {e} \cap Effects : executed.committed[x] > s.committed[x]}
               session == RolledBack(executed)
           IN IF LosesTransaction(is_schema) THEN [session EXCEPT !.result = 2]
              ELSE Counted(Ran([session EXCEPT !.silent = @ \cup s.pending \cup repeated], e))

\* m_commit_and_start_transaction
CommittedAndStarted(s, ok) ==
    IF ok THEN [Committed(s, TRUE) EXCEPT !.query_counter = 0, !.in_transaction = TRUE]
          ELSE Committed(s, FALSE)

\* One query of restore_insert: a transaction that grows past
\* max_transaction_size is committed first, whatever the answer, and one of
\* commit_count queries afterwards.
Inserted(c, e, fault, oversize) ==
    LET failing == fault = "commit"
        before == IF oversize THEN CommittedAndStarted(Session(c), ~failing) ELSE Session(c)
        s == Queried(before, e, FALSE, fault)
    IN IF ~cd[c].transaction \/ s.query_counter # CommitCount THEN s
       ELSE LET after == CommittedAndStarted(s, oversize \/ ~failing)
            IN [after EXCEPT !.result = IF failing /\ ~oversize THEN 2 ELSE @]

\* The next query of the statement a connection works on, or the first one of
\* the next statement.
Query(c, fault, oversize) ==
    LET q == cd[c].queue
        first == cd[c].piece = 0
        ir == IF first THEN Head(restore[q]) ELSE cd[c].ir
        e == <<ir.place[1], ir.place[2], cd[c].piece + 1>>
        insert == ir.kind = "INSERT"
        is_schema == ir.place[1] \in SchemaJobs /\ KindAt(e) # "LOAD"
        s == IF insert THEN Inserted(c, e, fault, oversize)
                       ELSE Queried(Session(c), e, is_schema, fault)
        last == e[3] = QueriesOf(ir.place)
    IN /\ cd[c].at = "serving"
       /\ first => restore[q] # <<>> /\ Head(restore[q]) # Close
       /\ restore' = IF first THEN [restore EXCEPT ![q] = Tail(@)] ELSE restore
       /\ oversize => insert /\ cd[c].transaction
       /\ fault = "commit" => insert /\ cd[c].transaction
       /\ fault = "deadlock" => cd[c].in_transaction
       /\ fault # "none" => faults_left > 0
       /\ faults_left' = faults_left - (IF fault = "none" THEN 0 ELSE 1)
       /\ cd' = [cd EXCEPT ![c] = [@ EXCEPT
                     !.piece = IF last THEN 0 ELSE e[3], !.ir = IF last THEN Blank ELSE ir,
                     !.query_counter = s.query_counter,
                     !.pending = s.pending, !.in_transaction = s.in_transaction]]
       /\ committed' = s.committed
       /\ silent' = s.silent
       /\ exited' = (s.result > 0 /\ (insert \/ always_fatal))
       /\ result' = IF last THEN [result EXCEPT ![q] = Append(@, [ir EXCEPT !.result = s.result])]
                            ELSE result
       /\ UNCHANGED <<connection_pool, always_fatal>>
       /\ ServerUnchanged

\* Mutant: the last queries of a file are not committed.
CommitsAtCloseFull(c) == cd[c].transaction /\ cd[c].query_counter >= CommitCount

CommitsAtClose(c) == cd[c].transaction /\ cd[c].query_counter > 0

\* CLOSE: the COMMIT's answer is not looked at and query_counter is kept.  The
\* connection goes back to the pool.
ServeClose(c, fault) ==
    LET q == cd[c].queue
        s == IF CommitsAtClose(c) THEN Committed(Session(c), fault = "none") ELSE Session(c)
    IN /\ cd[c].at = "serving" /\ cd[c].piece = 0
       /\ restore[q] # <<>>
       /\ Head(restore[q]) = Close
       /\ fault # "none" => CommitsAtClose(c) /\ faults_left > 0
       /\ faults_left' = faults_left - (IF fault = "none" THEN 0 ELSE 1)
       /\ restore' = [restore EXCEPT ![q] = Tail(@)]
       /\ result' = [result EXCEPT ![q] = Append(@, Close)]
       /\ connection_pool' = Append(connection_pool, c)
       /\ cd' = [cd EXCEPT ![c].at = "pool", ![c].queue = 0, ![c].pending = s.pending,
                           ![c].in_transaction = s.in_transaction]
       /\ committed' = s.committed
       /\ silent' = s.silent
       /\ UNCHANGED <<always_fatal, exited>>
       /\ ServerUnchanged

-----------------------------------------------------------------------------
(* The data dispatcher and the main thread.                                *)

\* The session is closed; setup_connection opens a new one.
release_idle_connection_if_possible ==
    /\ connection_pool # <<>>
    /\ LET c == Head(connection_pool)
       IN /\ cd' = [cd EXCEPT ![c].pending = {}, ![c].in_transaction = FALSE]
          /\ connection_pool' = Append(Tail(connection_pool), c)
    /\ UNCHANGED <<restore, result, serverVars>>
    /\ ServerUnchanged

\* main gets here when every worker has ended.
wait_restore_threads_to_close ==
    /\ todo = {}
    /\ \A t \in Threads : td[t].at = "free"
    /\ connection_pool # <<>>
    /\ cd' = [cd EXCEPT ![Head(connection_pool)].at = "ended"]
    /\ connection_pool' = Tail(connection_pool)
    /\ UNCHANGED <<restore, result, serverVars>>
    /\ ServerUnchanged

-----------------------------------------------------------------------------
\* initialize_connection_pool, and the restore threads have connected.
Init ==
    /\ todo \in {jobs \in SUBSET Jobs : Cardinality(jobs) = MaxJobs}
    /\ td = [t \in Threads |-> Idle]
    /\ connection_pool = SetToSeq(Conns)   \* they are alike: in any order
    /\ restore_queues = [n \in Queues |-> n]
    /\ free_results = (Prefill + 1) * Cardinality(Conns)
    /\ restore = [q \in Queues |-> <<>>]
    /\ result = [q \in Queues |-> <<>>]
    /\ cd = [c \in Conns |-> NewConnection]
    /\ sync = [l \in Loads |-> "absent"]
    /\ arrived = {}
    /\ committed = [e \in Effects |-> 0]
    /\ silent = {}
    /\ reported = [j \in Jobs |-> -1]
    /\ faults_left = MaxFaults
    /\ always_fatal = FALSE
    /\ exited = FALSE

WorkerStep(t) ==
    \/ \E j \in Jobs : TakeJob(t, j)
    \/ PopQueue(t) \/ ReadOther(t) \/ ReadInsert(t)
    \/ Locate(t) \/ PushLoadData(t) \/ PopResult(t)
    \/ Drain(t) \/ PushClose(t) \/ PopClose(t) \/ FinishJob(t)

ConnectionStep(c) ==
    \/ \E fault \in Faults \cup {"none"}, oversize \in BOOLEAN : Query(c, fault, oversize)
    \/ \E fault \in (Faults \cap {"commit"}) \cup {"none"} : ServeClose(c, fault)

Next ==
    /\ ~exited
    /\ \/ \E t \in Threads : WorkerStep(t)
       \/ \E c \in Conns : ConnectionStep(c)
       \/ \E l \in Loads : Arrive(l)
       \/ release_idle_connection_if_possible
       \/ wait_restore_threads_to_close

Spec == Init /\ [][Next]_vars

\* Every thread goes on while it can, and every data file is delivered.
FairSpec ==
    /\ Spec
    /\ \A t \in Threads : WF_vars(~exited /\ WorkerStep(t))
    /\ \A c \in Conns : WF_vars(~exited /\ ConnectionStep(c))
    /\ \A l \in Loads : WF_vars(~exited /\ Arrive(l))
    /\ WF_vars(~exited /\ wait_restore_threads_to_close)

-----------------------------------------------------------------------------
(* Properties.                                                             *)

Worker == [at : {"free", "queue", "read", "load", "result", "drain", "close"},
           job : Jobs \cup {None}, i : Nat, conn : Conns \cup {None},
           queue : Queues \cup {0}, granted : Nat, results_added : BOOLEAN,
           left : Nat, r : Nat]

Connection == [at : {"pool", "serving", "ended"}, queue : Queues \cup {0},
               transaction : BOOLEAN, query_counter : Nat, ir : Statement, piece : Nat,
               in_transaction : BOOLEAN, pending : SUBSET Effects]

TypeOK ==
    /\ todo \subseteq Jobs
    /\ td \in [Threads -> Worker]
    /\ connection_pool \in Seq(Conns)
    /\ restore_queues \in Seq(Queues)
    /\ free_results \in Nat
    /\ restore \in [Queues -> Seq(Statement)]
    /\ result \in [Queues -> Seq(Statement)]
    /\ cd \in [Conns -> Connection]
    /\ sync \in [Loads -> {"absent", "waiting", "ready"}]
    /\ arrived \subseteq Loads
    /\ committed \in [Effects -> Nat]
    /\ silent \subseteq Effects
    /\ reported \in [Jobs -> Int]
    /\ faults_left \in 0 .. MaxFaults
    /\ always_fatal \in BOOLEAN /\ exited \in BOOLEAN

\* The assertions of restore_data_from_mydumper_file and
\* restore_data_in_gstring_extended hold: a pair of queues is empty whenever it is
\* free, what is drained is never a CLOSE, and what answers a CLOSE always is one,
\* although several connections answer on the same queue.
PairsClean ==
    /\ \A n \in DOMAIN restore_queues :
          restore[restore_queues[n]] = <<>> /\ result[restore_queues[n]] = <<>>
    /\ \A t \in Threads : LET answers == result[td[t].queue]
                          IN /\ td[t].at = "drain" /\ answers # <<>> => Head(answers) # Close
                             /\ td[t].at = "close" /\ answers # <<>> => Head(answers) = Close

\* What is given back is clean: the pairs of queues, and the connections.  A
\* connection in the pool holds no effects that are not committed: whoever gets
\* it next would lose them or decide about them.  No statement is given back twice.
PoolClean ==
    /\ PairsClean
    /\ free_results <= (Prefill + 1) * Cardinality(Conns)
    /\ \A n \in DOMAIN connection_pool : cd[connection_pool[n]].pending = {}

\* "return 0 means everything was ok": a job that returned 0 has had every one
\* of its effects exactly once, but for what a deadlock, a failed COMMIT or a
\* lost answer undid or repeated without myloader noticing.
RestoredOnce ==
    \A j \in Jobs : reported[j] = 0 =>
        \A e \in Effects \ silent : e[1] = j => committed[e] = 1

\* LOAD DATA is executed only when its data file is complete.
LoadAfterArrival ==
    \A e \in Effects : /\ KindAt(e) = "LOAD"
                       /\ committed[e] > 0 \/ \E c \in Conns : e \in cd[c].pending
                       => <<e[1], e[2]>> \in arrived

\* The restore ends and every connection is closed, whatever the order in which
\* files arrive, connections are granted and statements wait.
Termination == <>(exited \/ \A c \in Conns : cd[c].at = "ended")
=============================================================================
