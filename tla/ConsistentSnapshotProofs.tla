---------------------- MODULE ConsistentSnapshotProofs ----------------------
(***************************************************************************)
(* Proofs about ConsistentSnapshot for any number of workers, retries and  *)
(* commits and in every mode.  Each barrier of start_dump waits for N      *)
(* tokens; the inductive invariant bounds the tokens of a queue by the     *)
(* number of workers that are past the point where one is pushed, so that  *)
(* N tokens mean that all of them are, and says what every worker has seen *)
(* of the server by then.                                                  *)
(***************************************************************************)
EXTENDS ConsistentSnapshot, Counting

(* The program points of a worker from a push to the end of the thread.    *)
Reported == {"checking"}
Opened  == ThreadPhases \ {"none", "start", "checking"}
Listed  == Opened \ {"initial"}
Passed  == Listed \ {"schema"}
Frozen  == Passed \ {"waiting"}

(* The program points of start_dump up to a barrier.                       *)
Opening  == {"lock", "position", "sync", "ready"}
Listing  == Opening \cup {"status", "trx_unlock", "initial"}
Exporting == {"unlock_tables", "post_data", "join", "done"}

Number(t, P) == Many(Workers, t, P)

(* How many tokens a queue holds, by the workers that have pushed one.     *)
TokensOK ==
    /\ queue["gtid_pos_checked"] + Len(are_all_threads_in_same_pos)
            <= Number(thread, Reported)
    /\ main \in Opening => queue["ready"] <= Number(thread, Opened)
    /\ main \notin Opening \cup {"failed"} =>
            queue["ready"] <= Number(thread, Passed)
    /\ queue["ready"] <= N
    /\ queue["initial_completed"] <= Number(thread, Listed)
    /\ queue["unlock_tables"] <= Number(thread, Frozen)

(* What is queued once, and where the main thread is when it is.           *)
QueuedOK ==
    /\ queue["source_and_replica_status"] <= 1
    /\ status_job => queue["source_and_replica_status"] = 0
    /\ \A q \in {"initial", "schema", "ready_non_transactional", "post_data"} :
            queue[q] <= N
    /\ main \in Listing => queue["initial"] = 0
    /\ main \notin Exporting =>
            queue["schema"] = 0 /\ queue["ready_non_transactional"] = 0
    /\ main \notin {"join", "done"} => queue["post_data"] = 0

(* How far the workers can be while the main thread is where it is.        *)
PhasesOK ==
    /\ main = "lock" =>
            /\ ~status_job /\ ~global_lock /\ source_info = None
            /\ queue["source_and_replica_status"] = 0
    /\ main \in {"lock", "position"} =>
            /\ round = 0 /\ initial_source = None
            /\ \A w \in Workers :
                    thread[w] = "none" /\ snapshot[w] = None /\ retry[w] = 0
    /\ main = "position" => status_job
    /\ main = "sync" => round < MaxRetries /\ mode = "GTID"
    /\ main = "unlock_tables" => Locking /\ ~trx_tables
    /\ main \in {"post_data", "join", "done"} /\ Locking /\ ~trx_tables =>
            \A w \in Workers : thread[w] \in Frozen
    /\ \A w \in Workers :
         /\ thread[w] = "none" => main \in {"lock", "position"}
         /\ thread[w] = "start" => retry[w] < MaxRetries
         /\ thread[w] = "checking" => mode = "GTID"
         /\ thread[w] \in Listed => ~status_job /\ main \notin Listing
         /\ thread[w] \in Passed => main \in Exporting \cup {"failed"}
         /\ main \notin Opening \cup {"failed"} => thread[w] \in Opened

(* What the workers see of the server, by mode.                            *)
ServerOK ==
    /\ mode \in {"SAFE_NO_LOCK", "NO_LOCK"} => trx_tables
    /\ lock_tables_statement => ~trx_tables
    /\ initial_source # None => initial_source <= pos
    /\ global_lock => mode = "LOCK"
    /\ mode = "LOCK" /\ main \notin {"lock", "failed"} =>
         /\ main \in (Listing \ {"initial"}) \cup {"unlock_tables"} => global_lock
         /\ main \in {"initial", "completed"} => global_lock \/ trx_tables
         /\ global_lock /\ initial_source # None => pos = initial_source
    /\ main \notin {"lock", "position"} => initial_source \in Nat
    /\ main # "lock" /\ ~status_job => source_info = initial_source

(* A worker holds its snapshot until it sends LOCK TABLES.                 *)
Holds(w) ==
    \/ thread[w] = "checking"
    \/ thread[w] \in Opened /\ (KeepsSnapshots \/ thread[w] \notin Frozen)

SnapshotsOK ==
    \A w \in Workers :
         /\ snapshot[w] # None =>
                /\ initial_source \in Nat
                /\ initial_source <= snapshot[w] /\ snapshot[w] <= pos
         /\ Holds(w) /\ mode # "NO_LOCK" => snapshot[w] # None
         /\ mode = "LOCK" /\ snapshot[w] # None => snapshot[w] = initial_source
         /\ mode = "SAFE_NO_LOCK" /\ main \notin Opening \cup {"status", "failed"} =>
                snapshot[w] = initial_source
         /\ mode = "LOCK" /\ table_locks[w] # None =>
                table_locks[w] = initial_source
         /\ thread[w] = "non_transactional" =>
                /\ ~trx_tables
                /\ lock_tables_statement => table_locks[w] # None

(* In the GTID mode: an accepted worker, or an answer that accepts, means  *)
(* that all workers hold snapshots of one position, for as long as LOCK    *)
(* TABLES leaves them, and none will open another.                         *)
Agreed ==
    /\ main \notin {"lock", "position", "sync"}
    /\ \A w \in Workers : thread[w] \notin {"none", "start"}
    /\ KeepsSnapshots => \A v, w \in Workers : snapshot[v] = snapshot[w]
    /\ \A i \in DOMAIN are_all_threads_in_same_pos :
            are_all_threads_in_same_pos[i] = 1

AgreementOK ==
    mode = "GTID" =>
        /\ \A w \in Workers : thread[w] \in Opened => Agreed
        /\ \A i \in DOMAIN are_all_threads_in_same_pos :
                are_all_threads_in_same_pos[i] = 1 => Agreed

(* What has been exported.                                                 *)
ReadsOK ==
    /\ transactional_read \cup non_transactional_read # {} =>
            main # "lock" /\ ~status_job
    /\ mode # "NO_LOCK" => \A p \in transactional_read :
            initial_source \in Nat /\ initial_source <= p
    /\ mode \in {"LOCK", "SAFE_NO_LOCK"} /\ KeepsSnapshots =>
            transactional_read \subseteq {initial_source}
    /\ mode = "GTID" /\ KeepsSnapshots => \A p \in transactional_read :
            \A w \in Workers : thread[w] \in Opened /\ snapshot[w] = p
    /\ mode = "LOCK" => non_transactional_read \subseteq {initial_source}

IInv ==
    /\ TypeOK /\ TokensOK /\ QueuedOK /\ PhasesOK /\ ServerOK /\ SnapshotsOK
    /\ AgreementOK /\ ReadsOK

-----------------------------------------------------------------------------
(* Counting workers. *)

LEMMA NType == N \in Nat /\ N >= 1
<1>1. N \in Nat
  BY ConstantsAssumption, FS_CardinalityType DEF N
<1>2. N # 0
  BY ConstantsAssumption, FS_EmptySet DEF N
<1> QED
  BY <1>1, <1>2

(* N workers past a point are all the workers. *)
LEMMA NumberBound ==
    ASSUME NEW t, NEW P
    PROVE  /\ Number(t, P) \in Nat
           /\ Number(t, P) <= N
           /\ Number(t, P) >= N => \A v \in Workers : t[v] \in P
  BY ConstantsAssumption, ManyBound DEF Number, N

LEMMA NumberSame ==
    ASSUME NEW t, NEW u, NEW P, \A v \in Workers : t[v] \in P <=> u[v] \in P
    PROVE  Number(t, P) = Number(u, P)
  BY ManySame DEF Number

LEMMA NumberMove ==
    ASSUME NEW t, NEW u, NEW w, NEW a, NEW b, Moved(Workers, t, u, w, a, b)
    PROVE  \A P : Number(u, P) = IF (a \in P <=> b \in P) THEN Number(t, P)
                                 ELSE IF b \in P THEN Number(t, P) + 1
                                 ELSE Number(t, P) - 1
  BY ConstantsAssumption, ManyMoved DEF Number

-----------------------------------------------------------------------------
(* Every part of the invariant is preserved by every step. *)

LEMMA InitOK == Init => IInv
<1> SUFFICES ASSUME Init PROVE IInv
  OBVIOUS
<1>1. TypeOK
  <2>1. /\ mode \in SyncModes /\ {trx_tables, no_data} \subseteq BOOLEAN
        /\ lock_tables_statement \in BOOLEAN
    BY DEF Init
  <2>2. queue \in [Tokens -> 0 .. 2 * N]
    BY NType DEF Init
  <2>3. /\ {initial_source, source_info} \subseteq Nat \cup {None}
        /\ thread \in [Workers -> ThreadPhases]
        /\ snapshot \in [Workers -> Nat \cup {None}]
        /\ retry \in [Workers -> 0 .. MaxRetries]
        /\ table_locks \in [Workers -> Nat \cup {None}]
    BY ConstantsAssumption DEF Init, ThreadPhases
  <2> QED
    <3>1. pos \in 0 .. MaxPos /\ round \in 0 .. MaxRetries /\ main \in MainPhases
      BY ConstantsAssumption DEF Init, MainPhases
    <3>2. are_all_threads_in_same_pos \in Seq({1, 2})
      BY DEF Init
    <3> QED
      BY <2>1, <2>2, <2>3, <3>1, <3>2, Zenon DEF Init, TypeOK
<1>2. TokensOK
  BY NType, NumberBound DEF Init, TokensOK, Opening, Tokens
<1>3. QueuedOK
  BY NType DEF Init, QueuedOK, Tokens
<1>4. PhasesOK /\ SnapshotsOK /\ ServerOK
  BY ConstantsAssumption
  DEF Init, PhasesOK, SnapshotsOK, ServerOK, Locking, Opening, Listing, Exporting,
      Opened, Listed, Passed, Frozen, Tokens, Holds
<1>5. AgreementOK /\ ReadsOK
  BY DEF Init, AgreementOK, ReadsOK, Opened
<1> QED
  BY <1>1, <1>2, <1>3, <1>4, <1>5 DEF IInv

LEMMA TokenNames ==
    /\ "gtid_pos_checked" \in Tokens /\ "ready" \in Tokens
    /\ "source_and_replica_status" \in Tokens /\ "initial" \in Tokens
    /\ "initial_completed" \in Tokens /\ "schema" \in Tokens
    /\ "ready_non_transactional" \in Tokens /\ "unlock_tables" \in Tokens
    /\ "post_data" \in Tokens
  BY DEF Tokens

(* N reports mean that every worker waits and that no answer is left. *)
LEMMA AtRest == IInv => ComparedAtRest
<1> SUFFICES ASSUME IInv, main = "sync", queue["gtid_pos_checked"] >= N
             PROVE  /\ \A w \in Workers : thread[w] = "checking"
                    /\ are_all_threads_in_same_pos = <<>>
  BY DEF ComparedAtRest
<1>1. queue["gtid_pos_checked"] \in Nat /\ are_all_threads_in_same_pos \in Seq({1, 2})
  BY TokenNames, NType DEF IInv, TypeOK
<1>2. queue["gtid_pos_checked"] + Len(are_all_threads_in_same_pos)
        <= Number(thread, Reported)
  BY DEF IInv, TokensOK
<1>3. Number(thread, Reported) \in Nat /\ Number(thread, Reported) <= N
  BY NumberBound
<1>4. Number(thread, Reported) >= N /\ Len(are_all_threads_in_same_pos) = 0
  BY <1>1, <1>2, <1>3, NType
<1>5. \A w \in Workers : thread[w] \in Reported
  BY <1>4, NumberBound
<1> QED
  BY <1>1, <1>4, <1>5 DEF Reported

LEMMA TypeStep == IInv /\ [Next]_vars => TypeOK'
<1> SUFFICES ASSUME IInv, [Next]_vars PROVE TypeOK'
  OBVIOUS
<1> USE ConstantsAssumption, NType
<1>0. TypeOK
  BY DEF IInv
<1>q. queue \in [Tokens -> 0 .. 2 * N]
  BY <1>0 DEF TypeOK
<1>1. CASE Commit
  <2>1. pos' \in 0 .. MaxPos
    BY <1>0, <1>1 DEF TypeOK, Commit
  <2> QED
    BY <1>0, <1>1, <2>1, Zenon
    DEF TypeOK, Commit, config, server, sync, files, source
<1>2. CASE AcquireLocks
  <2>1. /\ main' \in MainPhases
        /\ global_lock' \in BOOLEAN
        /\ status_job' \in BOOLEAN
    BY <1>0, <1>2 DEF TypeOK, AcquireLocks, MainPhases
  <2> QED
    BY <1>0, <1>2, <2>1, Zenon
    DEF TypeOK, AcquireLocks, config, server, sync, files, source
<1>3. CASE StartWorkers
  <2>1. /\ main' \in MainPhases
        /\ thread' \in [Workers -> ThreadPhases]
    BY <1>0, <1>3 DEF TypeOK, StartWorkers, MainPhases, ThreadPhases
  <2>2. {initial_source', source_info'} \subseteq Nat \cup {None}
    BY <1>0, <1>3 DEF TypeOK, StartWorkers, source
  <2> QED
    BY <1>0, <1>3, <2>1, <2>2, Zenon
    DEF TypeOK, StartWorkers, config, server, sync, files, source
<1>4. CASE ComparePositions
  <2>1. /\ round' \in 0 .. MaxRetries
        /\ main' \in MainPhases
    BY <1>0, <1>4 DEF TypeOK, ComparePositions, MainPhases, IInv, PhasesOK
  <2>2. are_all_threads_in_same_pos' \in Seq({1, 2})
    BY <1>0, <1>4 DEF TypeOK, ComparePositions
  <2>3. queue' \in [Tokens -> 0 .. 2 * N]
    BY <1>q, <1>4, TokenNames DEF ComparePositions, Popped
  <2> QED
    BY <1>0, <1>4, <2>1, <2>2, <2>3, Zenon
    DEF TypeOK, ComparePositions, config, server, sync, files, source
<1>5. CASE AwaitReady
  <2>1. main' \in MainPhases
    BY <1>0, <1>5 DEF TypeOK, AwaitReady, MainPhases
  <2>2. queue' \in [Tokens -> 0 .. 2 * N]
    BY <1>q, <1>5, TokenNames DEF AwaitReady, Popped
  <2> QED
    BY <1>0, <1>5, <2>1, <2>2, Zenon
    DEF TypeOK, AwaitReady, config, server, sync, files, source
<1>6. CASE RecheckPosition
  <2>1. main' \in MainPhases
    BY <1>0, <1>6 DEF TypeOK, RecheckPosition, MainPhases
  <2>2. queue' \in [Tokens -> 0 .. 2 * N]
    BY <1>q, <1>6, TokenNames DEF RecheckPosition, Popped
  <2> QED
    BY <1>0, <1>6, <2>1, <2>2, Zenon
    DEF TypeOK, RecheckPosition, config, server, sync, files, source
<1>7. CASE ReleaseEarly
  <2>1. /\ main' \in MainPhases
        /\ global_lock' \in BOOLEAN
    BY <1>0, <1>7 DEF TypeOK, ReleaseEarly, MainPhases
  <2> QED
    BY <1>0, <1>7, <2>1, Zenon
    DEF TypeOK, ReleaseEarly, config, server, sync, files, source
<1>8. CASE ShutdownInitial
  <2>1. main' \in MainPhases
    BY <1>0, <1>8 DEF TypeOK, ShutdownInitial, MainPhases
  <2>2. queue' \in [Tokens -> 0 .. 2 * N]
    BY <1>q, <1>8, TokenNames DEF ShutdownInitial, Pushed, IInv, QueuedOK, Listing
  <2> QED
    BY <1>0, <1>8, <2>1, <2>2, Zenon
    DEF TypeOK, ShutdownInitial, config, server, sync, files, source
<1>9. CASE StartData
  <2>1. main' \in MainPhases
    BY <1>0, <1>9 DEF TypeOK, StartData, MainPhases
  <2>2. queue' \in [Tokens -> 0 .. 2 * N]
    BY <1>q, <1>9, TokenNames DEF StartData, IInv, QueuedOK, Exporting
  <2> QED
    BY <1>0, <1>9, <2>1, <2>2, Zenon
    DEF TypeOK, StartData, config, server, sync, files, source
<1>10. CASE ReleaseLate
  <2>1. /\ main' \in MainPhases
        /\ global_lock' \in BOOLEAN
    BY <1>0, <1>10 DEF TypeOK, ReleaseLate, MainPhases
  <2>2. queue' \in [Tokens -> 0 .. 2 * N]
    BY <1>q, <1>10, TokenNames DEF ReleaseLate, Popped
  <2> QED
    BY <1>0, <1>10, <2>1, <2>2, Zenon
    DEF TypeOK, ReleaseLate, config, server, sync, files, source
<1>11. CASE ShutdownPostData
  <2>1. main' \in MainPhases
    BY <1>0, <1>11 DEF TypeOK, ShutdownPostData, MainPhases
  <2>2. queue' \in [Tokens -> 0 .. 2 * N]
    BY <1>q, <1>11, TokenNames DEF ShutdownPostData, Pushed, IInv, QueuedOK
  <2> QED
    BY <1>0, <1>11, <2>1, <2>2, Zenon
    DEF TypeOK, ShutdownPostData, config, server, sync, files, source
<1>12. CASE JoinWorkers
  <2>1. main' \in MainPhases
    BY <1>0, <1>12 DEF TypeOK, JoinWorkers, MainPhases
  <2> QED
    BY <1>0, <1>12, <2>1, Zenon
    DEF TypeOK, JoinWorkers, config, server, sync, files, source
<1>13. CASE \E w \in Workers : Worker(w)
  <2> PICK w \in Workers : Worker(w)
    BY <1>13
  <2>0. /\ Number(thread, Reported) <= N /\ Number(thread, Reported) \in Nat
        /\ Number(thread, Listed) <= N /\ Number(thread, Listed) \in Nat
        /\ Number(thread, Frozen) <= N /\ Number(thread, Frozen) \in Nat
    BY NumberBound
  <2>a. /\ queue["gtid_pos_checked"] <= N /\ queue["ready"] <= N
        /\ queue["initial_completed"] <= N /\ queue["unlock_tables"] <= N
    <3>1. TokensOK /\ Len(are_all_threads_in_same_pos) \in Nat
      BY <1>0 DEF IInv, TypeOK
    <3>2. \A q \in Tokens : queue[q] \in Nat
      BY <1>0 DEF TypeOK
    <3> QED
      BY <2>0, <3>1, <3>2, TokenNames DEF TokensOK
  <2>1. CASE TrySnapshot(w)
    <3>1. thread' \in [Workers -> ThreadPhases]
      BY <1>0, <2>1 DEF TypeOK, TrySnapshot, Goes, ThreadPhases
    <3>2. /\ snapshot' \in [Workers -> Nat \cup {None}]
          /\ retry' \in [Workers -> 0 .. MaxRetries]
      BY <1>0, <2>1 DEF TypeOK, TrySnapshot, IInv, PhasesOK
    <3>3. queue' \in [Tokens -> 0 .. 2 * N]
      BY <1>q, <2>1, <2>a, TokenNames DEF TrySnapshot, Pushed
    <3> QED
      BY <1>0, <2>1, <3>1, <3>2, <3>3, Zenon
      DEF TypeOK, TrySnapshot, config, server, sync, files, source
  <2>2. CASE SnapshotAccepted(w)
    <3>1. thread' \in [Workers -> ThreadPhases]
      BY <1>0, <2>2 DEF TypeOK, SnapshotAccepted, Goes, ThreadPhases
    <3>2. are_all_threads_in_same_pos' \in Seq({1, 2})
      BY <1>0, <2>2 DEF TypeOK, SnapshotAccepted
    <3>3. queue' \in [Tokens -> 0 .. 2 * N]
      BY <1>q, <2>2, <2>a, TokenNames DEF SnapshotAccepted, Pushed
    <3> QED
      BY <1>0, <2>2, <3>1, <3>2, <3>3, Zenon
      DEF TypeOK, SnapshotAccepted, config, server, sync, files, source
  <2>3. CASE SnapshotRejected(w)
    <3>1. /\ thread' \in [Workers -> ThreadPhases]
          /\ main' \in MainPhases
      BY <1>0, <2>3 DEF TypeOK, SnapshotRejected, Goes, ThreadPhases, MainPhases
    <3>2. are_all_threads_in_same_pos' \in Seq({1, 2})
      BY <1>0, <2>3 DEF TypeOK, SnapshotRejected
    <3> QED
      BY <1>0, <2>3, <3>1, <3>2, Zenon
      DEF TypeOK, SnapshotRejected, config, server, sync, files, source
  <2>4. CASE OpenSnapshot(w)
    <3>1. thread' \in [Workers -> ThreadPhases]
      BY <1>0, <2>4 DEF TypeOK, OpenSnapshot, Goes, ThreadPhases
    <3>2. snapshot' \in [Workers -> Nat \cup {None}]
      BY <1>0, <2>4 DEF TypeOK, OpenSnapshot
    <3>3. queue' \in [Tokens -> 0 .. 2 * N]
      BY <1>q, <2>4, <2>a, TokenNames DEF OpenSnapshot, Pushed
    <3> QED
      BY <1>0, <2>4, <3>1, <3>2, <3>3, Zenon
      DEF TypeOK, OpenSnapshot, config, server, sync, files, source
  <2>5. CASE WriteSourceInfo(w)
    <3>1. /\ {initial_source', source_info'} \subseteq Nat \cup {None}
          /\ status_job' \in BOOLEAN
      BY <1>0, <2>5 DEF TypeOK, WriteSourceInfo
    <3>2. queue' \in [Tokens -> 0 .. 2 * N]
      BY <1>q, <2>5, TokenNames DEF WriteSourceInfo, Pushed, IInv, QueuedOK
    <3> QED
      BY <1>0, <2>5, <3>1, <3>2, Zenon
      DEF TypeOK, WriteSourceInfo, config, server, sync, files, source
  <2>6. CASE EndInitial(w)
    <3>1. thread' \in [Workers -> ThreadPhases]
      BY <1>0, <2>6 DEF TypeOK, EndInitial, Goes, ThreadPhases
    <3>2. queue' \in [Tokens -> 0 .. 2 * N]
      BY <1>q, <2>6, <2>a, TokenNames DEF EndInitial
    <3> QED
      BY <1>0, <2>6, <3>1, <3>2, Zenon
      DEF TypeOK, EndInitial, config, server, sync, files, source
  <2>7. CASE EndSchema(w)
    <3>1. thread' \in [Workers -> ThreadPhases]
      BY <1>0, <2>7 DEF TypeOK, EndSchema, Goes, ThreadPhases
    <3>2. queue' \in [Tokens -> 0 .. 2 * N]
      BY <1>q, <2>7, <2>a, TokenNames DEF EndSchema
    <3> QED
      BY <1>0, <2>7, <3>1, <3>2, Zenon
      DEF TypeOK, EndSchema, config, server, sync, files, source
  <2>8. CASE LockTables(w)
    <3>1. thread' \in [Workers -> ThreadPhases]
      BY <1>0, <2>8 DEF TypeOK, LockTables, Goes, ThreadPhases
    <3>2. /\ table_locks' \in [Workers -> Nat \cup {None}]
          /\ snapshot' \in [Workers -> Nat \cup {None}]
      <4>1. /\ table_locks' \in {table_locks, [table_locks EXCEPT ![w] = pos]}
            /\ snapshot' \in {snapshot, [snapshot EXCEPT ![w] = None]}
        BY <2>8, Zenon DEF LockTables
      <4>2. /\ pos \in Nat
            /\ table_locks \in [Workers -> Nat \cup {None}]
            /\ snapshot \in [Workers -> Nat \cup {None}]
        BY <1>0 DEF TypeOK
      <4> QED
        BY <4>1, <4>2
    <3>3. queue' \in [Tokens -> 0 .. 2 * N]
      BY <1>q, <2>8, <2>a, TokenNames DEF LockTables
    <3>4. UNCHANGED <<config, server, sync, files, source, main>>
      BY <2>8 DEF LockTables
    <3> QED
      BY <1>0, <3>1, <3>2, <3>3, <3>4, Zenon
      DEF TypeOK, config, server, sync, files, source
  <2>9. CASE DumpNonTransactional(w)
    <3>1. NonTransactionalView(w) \in Nat
      BY <1>0 DEF TypeOK, NonTransactionalView
    <3>2. non_transactional_read' \subseteq Nat
      BY <1>0, <2>9, <3>1 DEF TypeOK, DumpNonTransactional
    <3> QED
      BY <1>0, <2>9, <3>2, Zenon
      DEF TypeOK, DumpNonTransactional, config, server, sync, files, source
  <2>10. CASE UnlockTables(w)
    <3>1. thread' \in [Workers -> ThreadPhases]
      BY <1>0, <2>10 DEF TypeOK, UnlockTables, Goes, ThreadPhases
    <3>2. table_locks' \in [Workers -> Nat \cup {None}]
      BY <1>0, <2>10 DEF TypeOK, UnlockTables
    <3> QED
      BY <1>0, <2>10, <3>1, <3>2, Zenon
      DEF TypeOK, UnlockTables, config, server, sync, files, source
  <2>11. CASE DumpTransactional(w)
    <3>1. TransactionalView(w) \in Nat
      BY <1>0 DEF TypeOK, TransactionalView
    <3>2. transactional_read' \subseteq Nat
      BY <1>0, <2>11, <3>1 DEF TypeOK, DumpTransactional
    <3> QED
      BY <1>0, <2>11, <3>2, Zenon
      DEF TypeOK, DumpTransactional, config, server, sync, files, source
  <2>12. CASE EndTransactional(w)
    <3>1. thread' \in [Workers -> ThreadPhases]
      BY <1>0, <2>12 DEF TypeOK, EndTransactional, Goes, ThreadPhases
    <3> QED
      BY <1>0, <2>12, <3>1, Zenon
      DEF TypeOK, EndTransactional, config, server, sync, files, source
  <2>13. CASE ChecksumTable(w)
    <3>1. NonTransactionalView(w) \in Nat
      BY <1>0 DEF TypeOK, NonTransactionalView
    <3>2. checksums' \subseteq Nat
      BY <1>0, <2>13, <3>1 DEF TypeOK, ChecksumTable
    <3> QED
      BY <1>0, <2>13, <3>2, Zenon
      DEF TypeOK, ChecksumTable, config, server, sync, files, source
  <2>14. CASE EndPostData(w)
    <3>1. thread' \in [Workers -> ThreadPhases]
      BY <1>0, <2>14 DEF TypeOK, EndPostData, Goes, ThreadPhases
    <3>2. queue' \in [Tokens -> 0 .. 2 * N]
      BY <1>q, <2>14, TokenNames DEF EndPostData, Popped
    <3> QED
      BY <1>0, <2>14, <3>1, <3>2, Zenon
      DEF TypeOK, EndPostData, config, server, sync, files, source
  <2> QED
    BY <2>1, <2>2, <2>3, <2>4, <2>5, <2>6, <2>7, <2>8, <2>9, <2>10, <2>11,
       <2>12, <2>13, <2>14 DEF Worker
<1>14. CASE UNCHANGED vars
  BY <1>0, <1>14, Zenon DEF TypeOK, vars, config, server, sync, files, source
<1> QED
  BY <1>1, <1>2, <1>3, <1>4, <1>5, <1>6, <1>7, <1>8, <1>9, <1>10, <1>11, <1>12,
     <1>13, <1>14 DEF Next, Main, Ended

LEMMA TokensStep == IInv /\ [Next]_vars => TokensOK'
<1> SUFFICES ASSUME IInv, [Next]_vars PROVE TokensOK'
  OBVIOUS
<1>0. TokensOK /\ TypeOK
  BY DEF IInv
<1>q. queue \in [Tokens -> 0 .. 2 * N]
  BY <1>0 DEF TypeOK
<1>n. /\ queue["gtid_pos_checked"] \in Nat /\ queue["ready"] \in Nat
      /\ queue["initial_completed"] \in Nat /\ queue["unlock_tables"] \in Nat
  BY <1>q, TokenNames, NType
<1>t. thread \in [Workers -> ThreadPhases]
  BY <1>0 DEF TypeOK
<1>a. Len(are_all_threads_in_same_pos) \in Nat
  BY <1>0 DEF TypeOK
<1>c. /\ Number(thread, Reported) \in Nat /\ Number(thread, Reported) <= N
      /\ Number(thread, Opened) \in Nat /\ Number(thread, Opened) <= N
      /\ Number(thread, Listed) \in Nat /\ Number(thread, Listed) <= N
      /\ Number(thread, Passed) \in Nat /\ Number(thread, Passed) <= N
      /\ Number(thread, Frozen) \in Nat /\ Number(thread, Frozen) <= N
  BY NumberBound
<1>g. queue["gtid_pos_checked"] + Len(are_all_threads_in_same_pos)
        <= Number(thread, Reported)
  BY <1>0 DEF TokensOK
<1>1. CASE Commit
  BY <1>0, <1>1 DEF TokensOK, Commit, config, server, sync, files, source, Opening
<1>2. CASE AcquireLocks
  BY <1>0, <1>2 DEF TokensOK, AcquireLocks, config, server, sync, files, source, Opening
<1>3. CASE StartWorkers
  <2>1. \A P \in {Reported, Opened, Listed, Passed, Frozen} :
            Number(thread', P) = Number(thread, P)
    <3>1. \A w \in Workers : thread[w] = "none" /\ thread'[w] = "start"
      BY <1>3 DEF IInv, PhasesOK, StartWorkers
    <3> QED
      BY <3>1, NumberSame DEF Reported, Opened, Listed, Passed, Frozen
  <2>2. queue' = queue /\ are_all_threads_in_same_pos' = are_all_threads_in_same_pos
    BY <1>3 DEF StartWorkers, sync
  <2> QED
    BY <1>0, <1>3, <2>1, <2>2 DEF TokensOK, StartWorkers, Opening
<1>4. CASE ComparePositions
  <2>1. /\ queue'["gtid_pos_checked"] = queue["gtid_pos_checked"] - N
        /\ queue'["ready"] = queue["ready"]
        /\ queue'["initial_completed"] = queue["initial_completed"]
        /\ queue'["unlock_tables"] = queue["unlock_tables"]
    BY <1>q, <1>4, NType, TokenNames DEF ComparePositions, Popped
  <2>2. Len(are_all_threads_in_same_pos') = Len(are_all_threads_in_same_pos) + N
    BY <1>0, <1>4, NType DEF ComparePositions, TypeOK
  <2>3. thread' = thread
    BY <1>4 DEF ComparePositions
  <2> QED
    BY <1>0, <1>n, <1>c, <1>a, <1>4, <2>1, <2>2, <2>3, NType, SMTT(30)
    DEF TokensOK, ComparePositions, Opening
<1>5. CASE AwaitReady
  <2>1. /\ queue'["gtid_pos_checked"] = queue["gtid_pos_checked"]
        /\ queue'["ready"] = queue["ready"] - N
        /\ queue'["initial_completed"] = queue["initial_completed"]
        /\ queue'["unlock_tables"] = queue["unlock_tables"]
    BY <1>q, <1>5, NType, TokenNames DEF AwaitReady, Popped
  <2>2. thread' = thread /\ are_all_threads_in_same_pos' = are_all_threads_in_same_pos
    BY <1>5 DEF AwaitReady, sync
  <2> QED
    BY <1>0, <1>n, <1>c, <1>a, <1>5, <2>1, <2>2, NType, SMTT(30)
    DEF TokensOK, AwaitReady, Opening
<1>6. CASE RecheckPosition
  <2>1. /\ queue'["gtid_pos_checked"] = queue["gtid_pos_checked"]
        /\ queue'["ready"] = queue["ready"]
        /\ queue'["initial_completed"] = queue["initial_completed"]
        /\ queue'["unlock_tables"] = queue["unlock_tables"]
    BY <1>q, <1>6, NType, TokenNames DEF RecheckPosition, Popped
  <2>2. thread' = thread /\ are_all_threads_in_same_pos' = are_all_threads_in_same_pos
    BY <1>6 DEF RecheckPosition, sync
  <2> QED
    BY <1>0, <1>n, <1>c, <1>a, <1>6, <2>1, <2>2, NType
    DEF TokensOK, RecheckPosition, Opening
<1>7. CASE ReleaseEarly
  BY <1>0, <1>7 DEF TokensOK, ReleaseEarly, config, server, sync, files, source, Opening
<1>8. CASE ShutdownInitial
  <2>1. /\ queue'["gtid_pos_checked"] = queue["gtid_pos_checked"]
        /\ queue'["ready"] = queue["ready"]
        /\ queue'["initial_completed"] = queue["initial_completed"]
        /\ queue'["unlock_tables"] = queue["unlock_tables"]
    BY <1>q, <1>8, NType, TokenNames DEF ShutdownInitial, Pushed
  <2>2. thread' = thread /\ are_all_threads_in_same_pos' = are_all_threads_in_same_pos
    BY <1>8 DEF ShutdownInitial, sync
  <2> QED
    BY <1>0, <1>n, <1>c, <1>a, <1>8, <2>1, <2>2, NType
    DEF TokensOK, ShutdownInitial, Opening
<1>9. CASE StartData
  <2>1. /\ queue'["gtid_pos_checked"] = queue["gtid_pos_checked"]
        /\ queue'["ready"] = queue["ready"]
        /\ queue'["initial_completed"] = queue["initial_completed"] - N
        /\ queue'["unlock_tables"] = queue["unlock_tables"]
    BY <1>q, <1>9, NType, TokenNames DEF StartData
  <2>2. thread' = thread /\ are_all_threads_in_same_pos' = are_all_threads_in_same_pos
    BY <1>9 DEF StartData, sync
  <2> QED
    BY <1>0, <1>n, <1>c, <1>a, <1>9, <2>1, <2>2, NType
    DEF TokensOK, StartData, Opening
<1>10. CASE ReleaseLate
  <2>1. /\ queue'["gtid_pos_checked"] = queue["gtid_pos_checked"]
        /\ queue'["ready"] = queue["ready"]
        /\ queue'["initial_completed"] = queue["initial_completed"]
        /\ queue'["unlock_tables"] = queue["unlock_tables"] - N
    BY <1>q, <1>10, NType, TokenNames DEF ReleaseLate, Popped
  <2>2. thread' = thread /\ are_all_threads_in_same_pos' = are_all_threads_in_same_pos
    BY <1>10 DEF ReleaseLate, sync
  <2> QED
    BY <1>0, <1>n, <1>c, <1>a, <1>10, <2>1, <2>2, NType, SMTT(30)
    DEF TokensOK, ReleaseLate, Opening
<1>11. CASE ShutdownPostData
  <2>1. /\ queue'["gtid_pos_checked"] = queue["gtid_pos_checked"]
        /\ queue'["ready"] = queue["ready"]
        /\ queue'["initial_completed"] = queue["initial_completed"]
        /\ queue'["unlock_tables"] = queue["unlock_tables"]
    BY <1>q, <1>11, NType, TokenNames DEF ShutdownPostData, Pushed
  <2>2. thread' = thread /\ are_all_threads_in_same_pos' = are_all_threads_in_same_pos
    BY <1>11 DEF ShutdownPostData, sync
  <2> QED
    BY <1>0, <1>n, <1>c, <1>a, <1>11, <2>1, <2>2, NType
    DEF TokensOK, ShutdownPostData, Opening
<1>12. CASE JoinWorkers
  BY <1>0, <1>12 DEF TokensOK, JoinWorkers, config, server, sync, files, source, Opening
<1>13. CASE \E w \in Workers : Worker(w)
  <2> PICK w \in Workers : Worker(w)
    BY <1>13
  <2>1. CASE TrySnapshot(w)
    <3>1. /\ Number(thread', Reported) = Number(thread, Reported) + 1
          /\ Number(thread', Opened) = Number(thread, Opened)
          /\ Number(thread', Listed) = Number(thread, Listed)
          /\ Number(thread', Passed) = Number(thread, Passed)
          /\ Number(thread', Frozen) = Number(thread, Frozen)
      <4>1. Moved(Workers, thread, thread', w, "start", "checking")
        BY <1>t, <2>1 DEF TrySnapshot, Goes, Moved
      <4> QED
        BY <4>1, NumberMove DEF Reported, Opened, Listed, Passed, Frozen, ThreadPhases
    <3>2. /\ queue'["gtid_pos_checked"] = queue["gtid_pos_checked"] + 1
          /\ queue'["ready"] = queue["ready"]
          /\ queue'["initial_completed"] = queue["initial_completed"]
          /\ queue'["unlock_tables"] = queue["unlock_tables"]
      BY <1>q, <2>1, TokenNames DEF TrySnapshot, Pushed
    <3>3. are_all_threads_in_same_pos' = are_all_threads_in_same_pos
      BY <2>1 DEF TrySnapshot, sync
    <3>4. main' = main
      BY <2>1 DEF TrySnapshot
    <3> QED
      BY <1>0, <1>n, <1>c, <1>a, <3>1, <3>2, <3>3, <3>4, NType
      DEF TokensOK
  <2>2. CASE SnapshotAccepted(w)
    <3>1. /\ Number(thread', Reported) = Number(thread, Reported) - 1
          /\ Number(thread', Opened) = Number(thread, Opened) + 1
          /\ Number(thread', Listed) = Number(thread, Listed)
          /\ Number(thread', Passed) = Number(thread, Passed)
          /\ Number(thread', Frozen) = Number(thread, Frozen)
      <4>1. Moved(Workers, thread, thread', w, "checking", "initial")
        BY <1>t, <2>2 DEF SnapshotAccepted, Goes, Moved
      <4> QED
        BY <4>1, NumberMove DEF Reported, Opened, Listed, Passed, Frozen, ThreadPhases
    <3>2. /\ queue'["gtid_pos_checked"] = queue["gtid_pos_checked"]
          /\ queue'["ready"] = queue["ready"] + 1
          /\ queue'["initial_completed"] = queue["initial_completed"]
          /\ queue'["unlock_tables"] = queue["unlock_tables"]
      BY <1>q, <2>2, TokenNames DEF SnapshotAccepted, Pushed
    <3>3. Len(are_all_threads_in_same_pos') = Len(are_all_threads_in_same_pos) - 1
      BY <1>0, <2>2 DEF SnapshotAccepted, TypeOK
    <3>4. main' = main /\ main \in Opening
      BY <2>2 DEF SnapshotAccepted, Worker, IInv, PhasesOK, Opened, Opening, source
    <3>5. Number(thread', Opened) <= N /\ Number(thread', Reported) \in Nat
      BY NumberBound
    <3>6. queue'["gtid_pos_checked"] + Len(are_all_threads_in_same_pos')
              <= Number(thread', Reported)
      BY <1>g, <1>n, <1>c, <1>a, <3>1, <3>2, <3>3, SMTT(30)
    <3> QED
      BY <1>0, <1>n, <1>c, <3>1, <3>2, <3>4, <3>5, <3>6, NType, SMTT(30)
      DEF TokensOK
  <2>3. CASE SnapshotRejected(w)
    <3>1. /\ Number(thread', Reported) >= Number(thread, Reported) - 1
          /\ retry[w] >= MaxRetries =>
                Number(thread', Reported) = Number(thread, Reported)
          /\ Number(thread', Opened) = Number(thread, Opened)
          /\ Number(thread', Listed) = Number(thread, Listed)
          /\ Number(thread', Passed) = Number(thread, Passed)
          /\ Number(thread', Frozen) = Number(thread, Frozen)
      <4>1. \/ retry[w] < MaxRetries /\ Moved(Workers, thread, thread', w, "checking", "start")
            \/ retry[w] >= MaxRetries /\ thread' = thread
        BY <1>t, <1>0, <2>3, ConstantsAssumption DEF SnapshotRejected, Goes, Moved, TypeOK
      <4> QED
        BY <1>0, <1>c, <4>1, NumberMove, ConstantsAssumption
        DEF TypeOK, Reported, Opened, Listed, Passed, Frozen, ThreadPhases
    <3>2. queue' = queue
      BY <2>3 DEF SnapshotRejected
    <3>3. Len(are_all_threads_in_same_pos') = Len(are_all_threads_in_same_pos) - 1
      BY <1>0, <2>3 DEF SnapshotRejected, TypeOK
    <3>4. Number(thread', Reported) \in Nat
      BY NumberBound
    <3> QED
      BY <1>0, <1>n, <1>c, <1>a, <2>3, <3>1, <3>2, <3>3, <3>4, SMTT(30)
      DEF TokensOK, SnapshotRejected, Opening
  <2>4. CASE OpenSnapshot(w)
    <3>1. /\ Number(thread', Reported) = Number(thread, Reported)
          /\ Number(thread', Opened) = Number(thread, Opened) + 1
          /\ Number(thread', Listed) = Number(thread, Listed)
          /\ Number(thread', Passed) = Number(thread, Passed)
          /\ Number(thread', Frozen) = Number(thread, Frozen)
      <4>1. Moved(Workers, thread, thread', w, "start", "initial")
        BY <1>t, <2>4 DEF OpenSnapshot, Goes, Moved
      <4> QED
        BY <4>1, NumberMove DEF Reported, Opened, Listed, Passed, Frozen, ThreadPhases
    <3>2. /\ queue'["gtid_pos_checked"] = queue["gtid_pos_checked"]
          /\ queue'["ready"] = queue["ready"] + 1
          /\ queue'["initial_completed"] = queue["initial_completed"]
          /\ queue'["unlock_tables"] = queue["unlock_tables"]
      BY <1>q, <2>4, TokenNames DEF OpenSnapshot, Pushed
    <3>3. are_all_threads_in_same_pos' = are_all_threads_in_same_pos
      BY <2>4 DEF OpenSnapshot, sync
    <3>4. main' = main /\ main \in Opening
      BY <2>4 DEF OpenSnapshot, Worker, IInv, PhasesOK, Opened, Opening, source
    <3>5. Number(thread', Opened) <= N /\ Number(thread', Reported) \in Nat
      BY NumberBound
    <3> QED
      BY <1>0, <1>n, <1>c, <1>a, <3>1, <3>2, <3>3, <3>4, <3>5, NType
      DEF TokensOK
  <2>5. CASE WriteSourceInfo(w)
    <3>1. /\ queue'["gtid_pos_checked"] = queue["gtid_pos_checked"]
          /\ queue'["ready"] = queue["ready"]
          /\ queue'["initial_completed"] = queue["initial_completed"]
          /\ queue'["unlock_tables"] = queue["unlock_tables"]
      BY <1>q, <2>5, TokenNames DEF WriteSourceInfo, Pushed
    <3> QED
      BY <1>0, <2>5, <3>1 DEF TokensOK, WriteSourceInfo, sync
  <2>6. CASE EndInitial(w)
    <3>1. /\ Number(thread', Reported) = Number(thread, Reported)
          /\ Number(thread', Opened) = Number(thread, Opened)
          /\ Number(thread', Listed) = Number(thread, Listed) + 1
          /\ Number(thread', Passed) = Number(thread, Passed)
          /\ Number(thread', Frozen) = Number(thread, Frozen)
      <4>1. Moved(Workers, thread, thread', w, "initial", "schema")
        BY <1>t, <2>6 DEF EndInitial, Goes, Moved
      <4> QED
        BY <4>1, NumberMove DEF Reported, Opened, Listed, Passed, Frozen, ThreadPhases
    <3>2. /\ queue'["gtid_pos_checked"] = queue["gtid_pos_checked"]
          /\ queue'["ready"] = queue["ready"]
          /\ queue'["initial_completed"] = queue["initial_completed"] + 1
          /\ queue'["unlock_tables"] = queue["unlock_tables"]
      BY <1>q, <2>6, TokenNames DEF EndInitial
    <3>3. are_all_threads_in_same_pos' = are_all_threads_in_same_pos
      BY <2>6 DEF EndInitial, sync
    <3>4. main' = main
      BY <2>6 DEF EndInitial
    <3> QED
      BY <1>0, <1>n, <1>c, <1>a, <3>1, <3>2, <3>3, <3>4, NType
      DEF TokensOK
  <2>7. CASE EndSchema(w)
    <3>1. /\ Number(thread', Reported) = Number(thread, Reported)
          /\ Number(thread', Opened) = Number(thread, Opened)
          /\ Number(thread', Listed) = Number(thread, Listed)
          /\ Number(thread', Passed) = Number(thread, Passed) + 1
          /\ Number(thread', Frozen) = Number(thread, Frozen) + IF no_data THEN 1 ELSE 0
      <4>1. Moved(Workers, thread, thread', w, "schema", IF no_data THEN "post_data" ELSE "waiting")
        BY <1>t, <2>7 DEF EndSchema, Goes, Moved
      <4> QED
        BY <1>c, <4>1, NumberMove DEF Reported, Opened, Listed, Passed, Frozen, ThreadPhases
    <3>2. /\ queue'["gtid_pos_checked"] = queue["gtid_pos_checked"]
          /\ queue'["initial_completed"] = queue["initial_completed"]
          /\ queue'["ready"] = queue["ready"] + IF no_data THEN 0 ELSE 1
          /\ queue'["unlock_tables"] = queue["unlock_tables"] + IF no_data THEN 1 ELSE 0
      BY <1>q, <2>7, TokenNames DEF EndSchema
    <3>3. are_all_threads_in_same_pos' = are_all_threads_in_same_pos
      BY <2>7 DEF EndSchema, sync
    <3>4. main' = main /\ main \notin Opening \cup {"failed"}
      BY <1>q, <2>7, TokenNames
      DEF EndSchema, Worker, IInv, PhasesOK, Opening, Listing, Listed, Opened, ThreadPhases
    <3>5. Number(thread', Passed) <= N
      BY NumberBound
    <3> QED
      BY <1>0, <1>n, <1>c, <1>a, <3>1, <3>2, <3>3, <3>4, <3>5, NType, SMTT(30)
      DEF TokensOK
  <2>8. CASE LockTables(w)
    <3>1. /\ Number(thread', Reported) = Number(thread, Reported)
          /\ Number(thread', Opened) = Number(thread, Opened)
          /\ Number(thread', Listed) = Number(thread, Listed)
          /\ Number(thread', Passed) = Number(thread, Passed)
          /\ Number(thread', Frozen) = Number(thread, Frozen) + 1
      <4>1. Moved(Workers, thread, thread', w, "waiting",
                  IF trx_tables THEN "transactional" ELSE "non_transactional")
        BY <1>t, <2>8 DEF LockTables, Goes, Moved
      <4> QED
        BY <1>c, <4>1, NumberMove DEF Reported, Opened, Listed, Passed, Frozen, ThreadPhases
    <3>2. /\ queue'["gtid_pos_checked"] = queue["gtid_pos_checked"]
          /\ queue'["ready"] = queue["ready"]
          /\ queue'["initial_completed"] = queue["initial_completed"]
          /\ queue'["unlock_tables"] = queue["unlock_tables"] + 1
      BY <1>q, <2>8, TokenNames DEF LockTables
    <3> QED
      BY <1>0, <1>n, <1>c, <1>a, <2>8, <3>1, <3>2, SMTT(30)
      DEF TokensOK, LockTables, sync
  <2>9. CASE DumpNonTransactional(w)
    BY <1>0, <2>9 DEF TokensOK, DumpNonTransactional, sync
  <2>10. CASE UnlockTables(w)
    <3>1. \A P \in {Reported, Opened, Listed, Passed, Frozen} :
              Number(thread', P) = Number(thread, P)
      <4>1. Moved(Workers, thread, thread', w, "non_transactional", "transactional")
        BY <1>t, <2>10 DEF UnlockTables, Goes, Moved
      <4> QED
        BY <4>1, NumberMove DEF Reported, Opened, Listed, Passed, Frozen, ThreadPhases
    <3> QED
      BY <1>0, <2>10, <3>1 DEF TokensOK, UnlockTables, sync
  <2>11. CASE DumpTransactional(w)
    BY <1>0, <2>11 DEF TokensOK, DumpTransactional, sync
  <2>12. CASE EndTransactional(w)
    <3>1. \A P \in {Reported, Opened, Listed, Passed, Frozen} :
              Number(thread', P) = Number(thread, P)
      <4>1. Moved(Workers, thread, thread', w, "transactional", "post_data")
        BY <1>t, <2>12 DEF EndTransactional, Goes, Moved
      <4> QED
        BY <4>1, NumberMove DEF Reported, Opened, Listed, Passed, Frozen, ThreadPhases
    <3> QED
      BY <1>0, <2>12, <3>1 DEF TokensOK, EndTransactional, sync
  <2>13. CASE ChecksumTable(w)
    BY <1>0, <2>13 DEF TokensOK, ChecksumTable, sync
  <2>14. CASE EndPostData(w)
    <3>1. \A P \in {Reported, Opened, Listed, Passed, Frozen} :
              Number(thread', P) = Number(thread, P)
      <4>1. Moved(Workers, thread, thread', w, "post_data", "end")
        BY <1>t, <2>14 DEF EndPostData, Goes, Moved
      <4> QED
        BY <4>1, NumberMove DEF Reported, Opened, Listed, Passed, Frozen, ThreadPhases
    <3>2. /\ queue'["gtid_pos_checked"] = queue["gtid_pos_checked"]
          /\ queue'["ready"] = queue["ready"]
          /\ queue'["initial_completed"] = queue["initial_completed"]
          /\ queue'["unlock_tables"] = queue["unlock_tables"]
      BY <1>q, <2>14, TokenNames DEF EndPostData, Popped
    <3> QED
      BY <1>0, <2>14, <3>1, <3>2 DEF TokensOK, EndPostData, sync
  <2> QED
    BY <2>1, <2>2, <2>3, <2>4, <2>5, <2>6, <2>7, <2>8, <2>9, <2>10, <2>11,
       <2>12, <2>13, <2>14 DEF Worker
<1>14. CASE UNCHANGED vars
  BY <1>0, <1>14 DEF TokensOK, vars, sync
<1> QED
  BY <1>1, <1>2, <1>3, <1>4, <1>5, <1>6, <1>7, <1>8, <1>9, <1>10, <1>11, <1>12,
     <1>13, <1>14 DEF Next, Main, Ended

LEMMA QueuedStep == IInv /\ [Next]_vars => QueuedOK'
<1> SUFFICES ASSUME IInv, [Next]_vars PROVE QueuedOK'
  OBVIOUS
<1>0. QueuedOK
  BY DEF IInv
<1>q. queue \in [Tokens -> 0 .. 2 * N]
  BY DEF IInv, TypeOK
<1>n. /\ queue["source_and_replica_status"] \in Nat /\ queue["initial"] \in Nat
      /\ queue["schema"] \in Nat /\ queue["ready_non_transactional"] \in Nat
      /\ queue["post_data"] \in Nat
  BY <1>q, TokenNames, NType
<1>1. CASE Commit
  BY <1>0, <1>1 DEF QueuedOK, Commit, source, Listing, Opening, Exporting
<1>2. CASE AcquireLocks
  BY <1>0, <1>2
  DEF QueuedOK, AcquireLocks, Listing, Opening, Exporting, IInv, PhasesOK
<1>3. CASE StartWorkers
  BY <1>0, <1>3 DEF QueuedOK, StartWorkers, source, Listing, Opening, Exporting
<1>4. CASE ComparePositions
  <2>1. /\ queue'["source_and_replica_status"] = queue["source_and_replica_status"]
        /\ queue'["initial"] = queue["initial"]
        /\ queue'["schema"] = queue["schema"]
        /\ queue'["ready_non_transactional"] = queue["ready_non_transactional"]
        /\ queue'["post_data"] = queue["post_data"]
    BY <1>q, <1>4, NType, TokenNames DEF ComparePositions, Popped
  <2> QED
    BY <1>0, <1>n, <1>4, <2>1, NType
    DEF QueuedOK, ComparePositions, source, Listing, Opening, Exporting
<1>5. CASE AwaitReady
  <2>1. /\ queue'["source_and_replica_status"] = queue["source_and_replica_status"]
        /\ queue'["initial"] = queue["initial"]
        /\ queue'["schema"] = queue["schema"]
        /\ queue'["ready_non_transactional"] = queue["ready_non_transactional"]
        /\ queue'["post_data"] = queue["post_data"]
    BY <1>q, <1>5, NType, TokenNames DEF AwaitReady, Popped
  <2> QED
    BY <1>0, <1>n, <1>5, <2>1, NType
    DEF QueuedOK, AwaitReady, source, Listing, Opening, Exporting
<1>6. CASE RecheckPosition
  <2>1. /\ queue'["source_and_replica_status"] = queue["source_and_replica_status"] - 1
        /\ queue'["initial"] = queue["initial"]
        /\ queue'["schema"] = queue["schema"]
        /\ queue'["ready_non_transactional"] = queue["ready_non_transactional"]
        /\ queue'["post_data"] = queue["post_data"]
    BY <1>q, <1>6, NType, TokenNames DEF RecheckPosition, Popped
  <2> QED
    BY <1>0, <1>n, <1>6, <2>1, NType
    DEF QueuedOK, RecheckPosition, source, Listing, Opening, Exporting
<1>7. CASE ReleaseEarly
  BY <1>0, <1>7 DEF QueuedOK, ReleaseEarly, source, Listing, Opening, Exporting
<1>8. CASE ShutdownInitial
  <2>1. /\ queue'["source_and_replica_status"] = queue["source_and_replica_status"]
        /\ queue'["initial"] = queue["initial"] + N
        /\ queue'["schema"] = queue["schema"]
        /\ queue'["ready_non_transactional"] = queue["ready_non_transactional"]
        /\ queue'["post_data"] = queue["post_data"]
    BY <1>q, <1>8, NType, TokenNames DEF ShutdownInitial, Pushed
  <2> QED
    BY <1>0, <1>n, <1>8, <2>1, NType
    DEF QueuedOK, ShutdownInitial, source, Listing, Opening, Exporting
<1>9. CASE StartData
  <2>1. /\ queue'["source_and_replica_status"] = queue["source_and_replica_status"]
        /\ queue'["initial"] = queue["initial"]
        /\ queue'["schema"] = queue["schema"] + N
        /\ queue'["ready_non_transactional"] = queue["ready_non_transactional"] + N
        /\ queue'["post_data"] = queue["post_data"]
    BY <1>q, <1>9, NType, TokenNames DEF StartData
  <2> QED
    BY <1>0, <1>n, <1>9, <2>1, NType
    DEF QueuedOK, StartData, source, Listing, Opening, Exporting
<1>10. CASE ReleaseLate
  <2>1. /\ queue'["source_and_replica_status"] = queue["source_and_replica_status"]
        /\ queue'["initial"] = queue["initial"]
        /\ queue'["schema"] = queue["schema"]
        /\ queue'["ready_non_transactional"] = queue["ready_non_transactional"]
        /\ queue'["post_data"] = queue["post_data"]
    BY <1>q, <1>10, NType, TokenNames DEF ReleaseLate, Popped
  <2> QED
    BY <1>0, <1>n, <1>10, <2>1, NType
    DEF QueuedOK, ReleaseLate, source, Listing, Opening, Exporting
<1>11. CASE ShutdownPostData
  <2>1. /\ queue'["source_and_replica_status"] = queue["source_and_replica_status"]
        /\ queue'["initial"] = queue["initial"]
        /\ queue'["schema"] = queue["schema"]
        /\ queue'["ready_non_transactional"] = queue["ready_non_transactional"]
        /\ queue'["post_data"] = queue["post_data"] + N
    BY <1>q, <1>11, NType, TokenNames DEF ShutdownPostData, Pushed
  <2> QED
    BY <1>0, <1>n, <1>11, <2>1, NType
    DEF QueuedOK, ShutdownPostData, source, Listing, Opening, Exporting
<1>12. CASE JoinWorkers
  BY <1>0, <1>12 DEF QueuedOK, JoinWorkers, source, Listing, Opening, Exporting
<1>13. CASE \E w \in Workers : Worker(w)
  <2> PICK w \in Workers : Worker(w)
    BY <1>13
  <2>1. CASE TrySnapshot(w)
    <3>1. /\ queue'["source_and_replica_status"] = queue["source_and_replica_status"]
          /\ queue'["initial"] = queue["initial"]
          /\ queue'["schema"] = queue["schema"]
          /\ queue'["ready_non_transactional"] = queue["ready_non_transactional"]
          /\ queue'["post_data"] = queue["post_data"]
      BY <1>q, <2>1, NType, TokenNames DEF TrySnapshot, Pushed
    <3> QED
      BY <1>0, <1>n, <2>1, <3>1, NType
      DEF QueuedOK, TrySnapshot, source, Listing, Opening, Exporting
  <2>2. CASE SnapshotAccepted(w)
    <3>1. /\ queue'["source_and_replica_status"] = queue["source_and_replica_status"]
          /\ queue'["initial"] = queue["initial"]
          /\ queue'["schema"] = queue["schema"]
          /\ queue'["ready_non_transactional"] = queue["ready_non_transactional"]
          /\ queue'["post_data"] = queue["post_data"]
      BY <1>q, <2>2, NType, TokenNames DEF SnapshotAccepted, Pushed
    <3> QED
      BY <1>0, <1>n, <2>2, <3>1, NType
      DEF QueuedOK, SnapshotAccepted, source, Listing, Opening, Exporting
  <2>3. CASE SnapshotRejected(w)
    <3>1. main \in Opening
      BY <2>3 DEF SnapshotRejected, Worker, IInv, PhasesOK, Opened, Opening
    <3> QED
      BY <1>0, <2>3, <3>1
      DEF QueuedOK, SnapshotRejected, source, Listing, Opening, Exporting
  <2>4. CASE OpenSnapshot(w)
    <3>1. /\ queue'["source_and_replica_status"] = queue["source_and_replica_status"]
          /\ queue'["initial"] = queue["initial"]
          /\ queue'["schema"] = queue["schema"]
          /\ queue'["ready_non_transactional"] = queue["ready_non_transactional"]
          /\ queue'["post_data"] = queue["post_data"]
      BY <1>q, <2>4, NType, TokenNames DEF OpenSnapshot, Pushed
    <3> QED
      BY <1>0, <1>n, <2>4, <3>1, NType
      DEF QueuedOK, OpenSnapshot, source, Listing, Opening, Exporting
  <2>5. CASE WriteSourceInfo(w)
    <3>1. /\ queue'["source_and_replica_status"] = queue["source_and_replica_status"] + 1
          /\ queue'["initial"] = queue["initial"]
          /\ queue'["schema"] = queue["schema"]
          /\ queue'["ready_non_transactional"] = queue["ready_non_transactional"]
          /\ queue'["post_data"] = queue["post_data"]
      BY <1>q, <2>5, NType, TokenNames DEF WriteSourceInfo, Pushed
    <3> QED
      BY <1>0, <1>n, <2>5, <3>1, NType
      DEF QueuedOK, WriteSourceInfo, source, Listing, Opening, Exporting
  <2>6. CASE EndInitial(w)
    <3>1. /\ queue'["source_and_replica_status"] = queue["source_and_replica_status"]
          /\ queue'["initial"] = queue["initial"] - 1
          /\ queue'["schema"] = queue["schema"]
          /\ queue'["ready_non_transactional"] = queue["ready_non_transactional"]
          /\ queue'["post_data"] = queue["post_data"]
      BY <1>q, <2>6, NType, TokenNames DEF EndInitial
    <3> QED
      BY <1>0, <1>n, <2>6, <3>1, NType
      DEF QueuedOK, EndInitial, source, Listing, Opening, Exporting
  <2>7. CASE EndSchema(w)
    <3>1. /\ queue'["source_and_replica_status"] = queue["source_and_replica_status"]
          /\ queue'["initial"] = queue["initial"]
          /\ queue'["schema"] = queue["schema"] - 1
          /\ queue'["ready_non_transactional"] = queue["ready_non_transactional"]
          /\ queue'["post_data"] = queue["post_data"]
      BY <1>q, <2>7, NType, TokenNames DEF EndSchema
    <3> QED
      BY <1>0, <1>n, <2>7, <3>1, NType
      DEF QueuedOK, EndSchema, source, Listing, Opening, Exporting
  <2>8. CASE LockTables(w)
    <3>1. /\ queue'["source_and_replica_status"] = queue["source_and_replica_status"]
          /\ queue'["initial"] = queue["initial"]
          /\ queue'["schema"] = queue["schema"]
          /\ queue'["ready_non_transactional"] = queue["ready_non_transactional"] - 1
          /\ queue'["post_data"] = queue["post_data"]
      BY <1>q, <2>8, NType, TokenNames DEF LockTables
    <3> QED
      BY <1>0, <1>n, <2>8, <3>1, NType
      DEF QueuedOK, LockTables, source, Listing, Opening, Exporting
  <2>9. CASE DumpNonTransactional(w)
    BY <1>0, <2>9
    DEF QueuedOK, DumpNonTransactional, source, Listing, Opening, Exporting
  <2>10. CASE UnlockTables(w)
    BY <1>0, <2>10 DEF QueuedOK, UnlockTables, source, Listing, Opening, Exporting
  <2>11. CASE DumpTransactional(w)
    BY <1>0, <2>11
    DEF QueuedOK, DumpTransactional, source, Listing, Opening, Exporting
  <2>12. CASE EndTransactional(w)
    BY <1>0, <2>12
    DEF QueuedOK, EndTransactional, source, Listing, Opening, Exporting
  <2>13. CASE ChecksumTable(w)
    BY <1>0, <2>13 DEF QueuedOK, ChecksumTable, source, Listing, Opening, Exporting
  <2>14. CASE EndPostData(w)
    <3>1. /\ queue'["source_and_replica_status"] = queue["source_and_replica_status"]
          /\ queue'["initial"] = queue["initial"]
          /\ queue'["schema"] = queue["schema"]
          /\ queue'["ready_non_transactional"] = queue["ready_non_transactional"]
          /\ queue'["post_data"] = queue["post_data"] - 1
      BY <1>q, <2>14, NType, TokenNames DEF EndPostData, Popped
    <3> QED
      BY <1>0, <1>n, <2>14, <3>1, NType
      DEF QueuedOK, EndPostData, source, Listing, Opening, Exporting
  <2> QED
    BY <2>1, <2>2, <2>3, <2>4, <2>5, <2>6, <2>7, <2>8, <2>9, <2>10, <2>11,
       <2>12, <2>13, <2>14 DEF Worker
<1>14. CASE UNCHANGED vars
  BY <1>0, <1>14 DEF QueuedOK, vars, source
<1> QED
  BY <1>1, <1>2, <1>3, <1>4, <1>5, <1>6, <1>7, <1>8, <1>9, <1>10, <1>11, <1>12,
     <1>13, <1>14 DEF Next, Main, Ended

LEMMA PhasesStep == IInv /\ [Next]_vars => PhasesOK'
<1> SUFFICES ASSUME IInv, [Next]_vars PROVE PhasesOK'
  OBVIOUS
<1>0. PhasesOK
  BY DEF IInv
<1>t. thread \in [Workers -> ThreadPhases]
  BY DEF IInv, TypeOK
<1>q. queue \in [Tokens -> 0 .. 2 * N]
  BY DEF IInv, TypeOK
<1>1. CASE Commit
  BY <1>0, <1>t, <1>1
  DEF PhasesOK, Opened, Listed, Passed, Frozen, Opening, Listing, Exporting, Commit,
      config, server, sync, source, ThreadPhases, Locking
<1>2. CASE AcquireLocks
  BY <1>0, <1>t, <1>2
  DEF PhasesOK, Opened, Listed, Passed, Frozen, Opening, Listing, Exporting,
      AcquireLocks, config, server, sync, source, ThreadPhases, Locking
<1>3. CASE StartWorkers
  BY <1>0, <1>t, <1>3, ConstantsAssumption
  DEF PhasesOK, Opened, Listed, Passed, Frozen, Opening, Listing, Exporting, config,
      server, sync, source, ThreadPhases, Locking, StartWorkers
<1>4. CASE ComparePositions
  <2>1. round \in 0 .. MaxRetries
    BY DEF IInv, TypeOK
  <2> QED
    BY <1>0, <1>4, <2>1, ConstantsAssumption
    DEF PhasesOK, Opened, Listed, Passed, Frozen, Opening, Listing, Exporting,
        ComparePositions, config, server, source, Locking, Popped
<1>5. CASE AwaitReady
  <2>1. \A w \in Workers : thread[w] \in Opened
    <3>1. queue["ready"] <= Number(thread, Opened) /\ queue["ready"] \in Nat
      BY <1>q, <1>5, TokenNames, NType DEF AwaitReady, IInv, TokensOK, Opening
    <3> QED
      BY <1>5, <3>1, NumberBound, NType DEF AwaitReady
  <2> QED
    BY <1>0, <1>5, <2>1
    DEF PhasesOK, Opened, Listed, Passed, Frozen, Opening, Listing, Exporting,
        config, server, sync, source, ThreadPhases, Locking, AwaitReady, Popped
<1>6. CASE RecheckPosition
  BY <1>0, <1>t, <1>6
  DEF PhasesOK, Opened, Listed, Passed, Frozen, Opening, Listing, Exporting,
      RecheckPosition, config, server, sync, source, ThreadPhases, Locking, Popped
<1>7. CASE ReleaseEarly
  BY <1>0, <1>t, <1>7
  DEF PhasesOK, Opened, Listed, Passed, Frozen, Opening, Listing, Exporting,
      ReleaseEarly, config, server, sync, source, ThreadPhases, Locking
<1>8. CASE ShutdownInitial
  BY <1>0, <1>t, <1>8
  DEF PhasesOK, Opened, Listed, Passed, Frozen, Opening, Listing, Exporting,
      ShutdownInitial, config, server, sync, source, ThreadPhases, Locking, Pushed
<1>9. CASE StartData
  BY <1>0, <1>t, <1>9
  DEF PhasesOK, Opened, Listed, Passed, Frozen, Opening, Listing, Exporting,
      StartData, config, server, sync, source, ThreadPhases, Locking
<1>10. CASE ReleaseLate
  <2>1. \A w \in Workers : thread[w] \in Frozen
    <3>1. queue["unlock_tables"] <= Number(thread, Frozen) /\ queue["unlock_tables"] \in Nat
      BY <1>q, <1>10, TokenNames, NType DEF ReleaseLate, IInv, TokensOK
    <3> QED
      BY <1>10, <3>1, NumberBound, NType DEF ReleaseLate
  <2> QED
    BY <1>0, <1>10, <2>1
    DEF PhasesOK, Opened, Listed, Passed, Frozen, Opening, Listing, Exporting,
        config, server, sync, source, ThreadPhases, Locking, ReleaseLate, Popped
<1>11. CASE ShutdownPostData
  BY <1>0, <1>t, <1>11
  DEF PhasesOK, Opened, Listed, Passed, Frozen, Opening, Listing, Exporting,
      ShutdownPostData, config, server, sync, source, ThreadPhases, Locking, Pushed
<1>12. CASE JoinWorkers
  BY <1>0, <1>t, <1>12
  DEF PhasesOK, Opened, Listed, Passed, Frozen, Opening, Listing, Exporting,
      JoinWorkers, config, server, sync, source, ThreadPhases, Locking
<1>13. CASE \E w \in Workers : Worker(w)
  <2> PICK w \in Workers : Worker(w)
    BY <1>13
  <2>1. CASE TrySnapshot(w)
    BY <1>0, <1>t, <2>1
    DEF PhasesOK, Opened, Listed, Passed, Frozen, Opening, Listing, Exporting,
        TrySnapshot, config, server, sync, source, ThreadPhases, Locking, Goes,
        Worker, Pushed
  <2>2. CASE SnapshotAccepted(w)
    BY <1>0, <1>t, <2>2
    DEF PhasesOK, Opened, Listed, Passed, Frozen, Opening, Listing, Exporting,
        SnapshotAccepted, config, server, sync, source, ThreadPhases, Locking, Goes,
        Worker, Pushed
  <2>3. CASE SnapshotRejected(w)
    BY <1>0, <1>t, <2>3
    DEF PhasesOK, Opened, Listed, Passed, Frozen, Opening, Listing, Exporting,
        SnapshotRejected, config, server, sync, source, ThreadPhases, Locking, Goes,
        Worker
  <2>4. CASE OpenSnapshot(w)
    BY <1>0, <1>t, <2>4
    DEF PhasesOK, Opened, Listed, Passed, Frozen, Opening, Listing, Exporting,
        OpenSnapshot, config, server, sync, source, ThreadPhases, Locking, Goes,
        Worker, Pushed
  <2>5. CASE WriteSourceInfo(w)
    BY <1>0, <1>t, <2>5
    DEF PhasesOK, Opened, Listed, Passed, Frozen, Opening, Listing, Exporting,
        WriteSourceInfo, config, server, sync, source, ThreadPhases, Locking, Goes,
        Worker, Pushed
  <2>6. CASE EndInitial(w)
    <3>1. main \notin Listing
      BY <2>6 DEF EndInitial, IInv, QueuedOK
    <3> QED
      BY <1>0, <1>t, <2>6, <3>1
      DEF PhasesOK, Opened, Listed, Passed, Frozen, Opening, Listing, Exporting,
          config, server, sync, source, ThreadPhases, Locking, EndInitial, Goes
  <2>7. CASE EndSchema(w)
    <3>1. main \in Exporting
      BY <2>7 DEF EndSchema, IInv, QueuedOK
    <3> QED
      BY <1>0, <1>t, <2>7, <3>1
      DEF PhasesOK, Opened, Listed, Passed, Frozen, Opening, Listing, Exporting,
          config, server, sync, source, ThreadPhases, Locking, EndSchema, Goes
  <2>8. CASE LockTables(w)
    BY <1>0, <1>t, <2>8
    DEF PhasesOK, Opened, Listed, Passed, Frozen, Opening, Listing, Exporting,
        LockTables, config, server, sync, source, ThreadPhases, Locking, Goes,
        Worker
  <2>9. CASE DumpNonTransactional(w)
    BY <1>0, <1>t, <2>9
    DEF PhasesOK, Opened, Listed, Passed, Frozen, Opening, Listing, Exporting,
        DumpNonTransactional, config, server, sync, source, ThreadPhases, Locking,
        Goes, Worker
  <2>10. CASE UnlockTables(w)
    BY <1>0, <1>t, <2>10
    DEF PhasesOK, Opened, Listed, Passed, Frozen, Opening, Listing, Exporting,
        UnlockTables, config, server, sync, source, ThreadPhases, Locking, Goes,
        Worker
  <2>11. CASE DumpTransactional(w)
    BY <1>0, <1>t, <2>11
    DEF PhasesOK, Opened, Listed, Passed, Frozen, Opening, Listing, Exporting,
        DumpTransactional, config, server, sync, source, ThreadPhases, Locking,
        Goes, Worker
  <2>12. CASE EndTransactional(w)
    BY <1>0, <1>t, <2>12
    DEF PhasesOK, Opened, Listed, Passed, Frozen, Opening, Listing, Exporting,
        EndTransactional, config, server, sync, source, ThreadPhases, Locking, Goes,
        Worker
  <2>13. CASE ChecksumTable(w)
    BY <1>0, <1>t, <2>13
    DEF PhasesOK, Opened, Listed, Passed, Frozen, Opening, Listing, Exporting,
        ChecksumTable, config, server, sync, source, ThreadPhases, Locking, Goes,
        Worker
  <2>14. CASE EndPostData(w)
    BY <1>0, <1>t, <2>14
    DEF PhasesOK, Opened, Listed, Passed, Frozen, Opening, Listing, Exporting,
        EndPostData, config, server, sync, source, ThreadPhases, Locking, Goes,
        Worker, Popped
  <2> QED
    BY <2>1, <2>2, <2>3, <2>4, <2>5, <2>6, <2>7, <2>8, <2>9, <2>10, <2>11,
       <2>12, <2>13, <2>14 DEF Worker
<1>14. CASE UNCHANGED vars
  BY <1>0, <1>14 DEF PhasesOK, vars, config, server, sync, source, Locking
<1> QED
  BY <1>1, <1>2, <1>3, <1>4, <1>5, <1>6, <1>7, <1>8, <1>9, <1>10, <1>11, <1>12,
     <1>13, <1>14 DEF Next, Main, Ended

LEMMA ServerStep == IInv /\ [Next]_vars => ServerOK'
<1> SUFFICES ASSUME IInv, [Next]_vars PROVE ServerOK'
  OBVIOUS
<1>0. ServerOK /\ PhasesOK
  BY DEF IInv
<1>p. pos \in Nat /\ initial_source \in Nat \cup {None}
  BY ConstantsAssumption DEF IInv, TypeOK
<1>1. CASE Commit
  BY <1>0, <1>p, <1>1, ConstantsAssumption
  DEF ServerOK, Opened, Opening, Listing, config, server, sync, source, Commit,
      PhasesOK
<1>2. CASE AcquireLocks
  BY <1>0, <1>p, <1>2, ConstantsAssumption
  DEF ServerOK, Opened, Opening, Listing, config, server, sync, source,
      AcquireLocks, PhasesOK
<1>3. CASE StartWorkers
  BY <1>0, <1>p, <1>3, ConstantsAssumption
  DEF ServerOK, Opened, Opening, Listing, config, server, sync, source,
      StartWorkers, PhasesOK
<1>4. CASE ComparePositions
  BY <1>0, <1>4
  DEF ServerOK, Opened, Opening, Listing, config, server, sync, source,
      ComparePositions, PhasesOK, Locking
<1>5. CASE AwaitReady
  BY <1>0, <1>5
  DEF ServerOK, Opened, Opening, Listing, config, server, sync, source, AwaitReady,
      PhasesOK, Locking
<1>6. CASE RecheckPosition
  BY <1>0, <1>6
  DEF ServerOK, Opened, Opening, Listing, config, server, sync, source,
      RecheckPosition, PhasesOK, Locking
<1>7. CASE ReleaseEarly
  BY <1>0, <1>7
  DEF ServerOK, Opened, Opening, Listing, config, server, sync, source,
      ReleaseEarly, PhasesOK, Locking
<1>8. CASE ShutdownInitial
  BY <1>0, <1>8
  DEF ServerOK, Opened, Opening, Listing, config, server, sync, source,
      ShutdownInitial, PhasesOK, Locking
<1>9. CASE StartData
  BY <1>0, <1>9
  DEF ServerOK, Opened, Opening, Listing, config, server, sync, source, StartData,
      PhasesOK, Locking
<1>10. CASE ReleaseLate
  BY <1>0, <1>10
  DEF ServerOK, Opened, Opening, Listing, config, server, sync, source, ReleaseLate,
      PhasesOK, Locking
<1>11. CASE ShutdownPostData
  BY <1>0, <1>11
  DEF ServerOK, Opened, Opening, Listing, config, server, sync, source,
      ShutdownPostData, PhasesOK, Locking
<1>12. CASE JoinWorkers
  BY <1>0, <1>12
  DEF ServerOK, Opened, Opening, Listing, config, server, sync, source, JoinWorkers,
      PhasesOK, Locking
<1>13. CASE \E w \in Workers : Worker(w)
  <2> PICK w \in Workers : Worker(w)
    BY <1>13
  <2>1. CASE TrySnapshot(w)
    BY <1>0, <2>1 DEF ServerOK, TrySnapshot, config, server, source
  <2>2. CASE SnapshotAccepted(w)
    BY <1>0, <2>2 DEF ServerOK, SnapshotAccepted, config, server, source
  <2>3. CASE SnapshotRejected(w)
    BY <1>0, <1>p, <2>3, ConstantsAssumption
    DEF ServerOK, Opened, Opening, Listing, config, server, sync, source,
        SnapshotRejected, PhasesOK, Goes, Worker
  <2>4. CASE OpenSnapshot(w)
    BY <1>0, <2>4 DEF ServerOK, OpenSnapshot, config, server, source
  <2>5. CASE WriteSourceInfo(w)
    BY <1>0, <1>p, <2>5, ConstantsAssumption
    DEF ServerOK, Opened, Opening, Listing, config, server, sync, source,
        WriteSourceInfo, PhasesOK, Goes, Worker
  <2>6. CASE EndInitial(w)
    BY <1>0, <2>6 DEF ServerOK, EndInitial, config, server, source
  <2>7. CASE EndSchema(w)
    BY <1>0, <2>7 DEF ServerOK, EndSchema, config, server, source
  <2>8. CASE LockTables(w)
    BY <1>0, <2>8 DEF ServerOK, LockTables, config, server, source
  <2>9. CASE DumpNonTransactional(w)
    BY <1>0, <2>9 DEF ServerOK, DumpNonTransactional, config, server, source
  <2>10. CASE UnlockTables(w)
    BY <1>0, <2>10 DEF ServerOK, UnlockTables, config, server, source
  <2>11. CASE DumpTransactional(w)
    BY <1>0, <2>11 DEF ServerOK, DumpTransactional, config, server, source
  <2>12. CASE EndTransactional(w)
    BY <1>0, <2>12 DEF ServerOK, EndTransactional, config, server, source
  <2>13. CASE ChecksumTable(w)
    BY <1>0, <2>13 DEF ServerOK, ChecksumTable, config, server, source
  <2>14. CASE EndPostData(w)
    BY <1>0, <2>14 DEF ServerOK, EndPostData, config, server, source
  <2> QED
    BY <2>1, <2>2, <2>3, <2>4, <2>5, <2>6, <2>7, <2>8, <2>9, <2>10, <2>11,
       <2>12, <2>13, <2>14 DEF Worker
<1>14. CASE UNCHANGED vars
  BY <1>0, <1>14 DEF ServerOK, vars, config, server, source
<1> QED
  BY <1>1, <1>2, <1>3, <1>4, <1>5, <1>6, <1>7, <1>8, <1>9, <1>10, <1>11, <1>12,
     <1>13, <1>14 DEF Next, Main, Ended

LEMMA SnapshotsStep == IInv /\ [Next]_vars => SnapshotsOK'
<1> SUFFICES ASSUME IInv, [Next]_vars PROVE SnapshotsOK'
  OBVIOUS
<1> USE DEF Holds, KeepsSnapshots, Listed, Passed, Frozen
<1>0. SnapshotsOK /\ ServerOK /\ PhasesOK
  BY DEF IInv
<1>t. thread \in [Workers -> ThreadPhases]
  BY DEF IInv, TypeOK
<1>s. /\ snapshot \in [Workers -> Nat \cup {None}]
      /\ table_locks \in [Workers -> Nat \cup {None}]
  BY DEF IInv, TypeOK
<1>p. pos \in Nat /\ initial_source \in Nat \cup {None}
  BY ConstantsAssumption DEF IInv, TypeOK
<1>1. CASE Commit
  BY <1>0, <1>s, <1>p, <1>1, ConstantsAssumption
  DEF SnapshotsOK, Opened, Opening, config, server, source, Commit, PhasesOK,
      ServerOK
<1>2. CASE AcquireLocks
  BY <1>0, <1>s, <1>p, <1>2, ConstantsAssumption
  DEF SnapshotsOK, Opened, Opening, config, server, source, AcquireLocks, PhasesOK,
      ServerOK
<1>3. CASE StartWorkers
  BY <1>0, <1>s, <1>p, <1>3, ConstantsAssumption
  DEF SnapshotsOK, Opened, Opening, config, server, source, StartWorkers, PhasesOK,
      ServerOK
<1>4. CASE ComparePositions
  BY <1>0, <1>s, <1>p, <1>4, ConstantsAssumption
  DEF SnapshotsOK, Opened, Opening, config, server, source, ComparePositions,
      PhasesOK, ServerOK
<1>5. CASE AwaitReady
  BY <1>0, <1>s, <1>p, <1>5, ConstantsAssumption
  DEF SnapshotsOK, Opened, Opening, config, server, source, AwaitReady, PhasesOK,
      ServerOK
<1>6. CASE RecheckPosition
  BY <1>0, <1>s, <1>p, <1>6, ConstantsAssumption
  DEF SnapshotsOK, Opened, Opening, config, server, source, RecheckPosition,
      PhasesOK, ServerOK
<1>7. CASE ReleaseEarly
  BY <1>0, <1>s, <1>p, <1>7, ConstantsAssumption
  DEF SnapshotsOK, Opened, Opening, config, server, source, ReleaseEarly, PhasesOK,
      ServerOK
<1>8. CASE ShutdownInitial
  BY <1>0, <1>s, <1>p, <1>8, ConstantsAssumption
  DEF SnapshotsOK, Opened, Opening, config, server, source, ShutdownInitial,
      PhasesOK, ServerOK
<1>9. CASE StartData
  BY <1>0, <1>s, <1>p, <1>9, ConstantsAssumption
  DEF SnapshotsOK, Opened, Opening, config, server, source, StartData, PhasesOK,
      ServerOK
<1>10. CASE ReleaseLate
  BY <1>0, <1>s, <1>p, <1>10, ConstantsAssumption
  DEF SnapshotsOK, Opened, Opening, config, server, source, ReleaseLate, PhasesOK,
      ServerOK
<1>11. CASE ShutdownPostData
  BY <1>0, <1>s, <1>p, <1>11, ConstantsAssumption
  DEF SnapshotsOK, Opened, Opening, config, server, source, ShutdownPostData,
      PhasesOK, ServerOK
<1>12. CASE JoinWorkers
  BY <1>0, <1>s, <1>p, <1>12, ConstantsAssumption
  DEF SnapshotsOK, Opened, Opening, config, server, source, JoinWorkers, PhasesOK,
      ServerOK
<1>13. CASE \E w \in Workers : Worker(w)
  <2> PICK w \in Workers : Worker(w)
    BY <1>13
  <2>1. CASE TrySnapshot(w)
    BY <1>0, <1>t, <1>s, <1>p, <2>1, ConstantsAssumption
    DEF SnapshotsOK, Opened, Opening, config, server, source, TrySnapshot, PhasesOK,
        ServerOK, Goes, Worker, ThreadPhases
  <2>2. CASE SnapshotAccepted(w)
    BY <1>0, <1>t, <1>s, <1>p, <2>2, ConstantsAssumption
    DEF SnapshotsOK, Opened, Opening, config, server, source, SnapshotAccepted,
        PhasesOK, ServerOK, Goes, Worker, ThreadPhases
  <2>3. CASE SnapshotRejected(w)
    BY <1>0, <1>t, <1>s, <1>p, <2>3, ConstantsAssumption
    DEF SnapshotsOK, Opened, Opening, config, server, source, SnapshotRejected,
        PhasesOK, ServerOK, Goes, Worker, ThreadPhases
  <2>4. CASE OpenSnapshot(w)
    <3>1. /\ main \in {"sync", "ready"} /\ initial_source \in Nat
          /\ initial_source <= pos /\ (mode = "LOCK" => pos = initial_source)
      BY <1>0, <1>p, <2>4, ConstantsAssumption
      DEF OpenSnapshot, Worker, PhasesOK, ServerOK, Opened, Opening, Listing
    <3>2. /\ snapshot' = IF mode = "NO_LOCK" THEN snapshot ELSE [snapshot EXCEPT ![w] = pos]
          /\ thread' = [thread EXCEPT ![w] = "initial"]
          /\ table_locks' = table_locks /\ mode' = mode /\ main' = main /\ pos' = pos
          /\ initial_source' = initial_source /\ trx_tables' = trx_tables
          /\ lock_tables_statement' = lock_tables_statement
      BY <2>4 DEF OpenSnapshot, Goes, config, server, source
    <3> QED
      BY <1>0, <1>t, <1>s, <1>p, <3>1, <3>2, ConstantsAssumption
      DEF SnapshotsOK, Opened, Opening
  <2>5. CASE WriteSourceInfo(w)
    BY <1>0, <1>t, <1>s, <1>p, <2>5, ConstantsAssumption
    DEF SnapshotsOK, Opened, Opening, config, server, source, WriteSourceInfo,
        PhasesOK, ServerOK, Goes, Worker, ThreadPhases
  <2>6. CASE EndInitial(w)
    BY <1>0, <1>t, <1>s, <1>p, <2>6, ConstantsAssumption
    DEF SnapshotsOK, Opened, Opening, config, server, source, EndInitial, PhasesOK,
        ServerOK, Goes, Worker, ThreadPhases
  <2>7. CASE EndSchema(w)
    BY <1>0, <1>t, <1>s, <1>p, <2>7, ConstantsAssumption
    DEF SnapshotsOK, Opened, Opening, config, server, source, EndSchema, PhasesOK,
        ServerOK, Goes, Worker, ThreadPhases
  <2>8. CASE LockTables(w)
    <3>1. mode = "LOCK" /\ ~trx_tables => pos = initial_source
      BY <1>0, <1>p, <2>8, ConstantsAssumption
      DEF LockTables, Worker, PhasesOK, ServerOK, Passed, Listed, Opened, Frozen, Opening, Listing,
          Exporting, Locking, ThreadPhases
    <3>2. /\ IF lock_tables_statement
               THEN /\ table_locks' = [table_locks EXCEPT ![w] = pos]
                    /\ snapshot' = [snapshot EXCEPT ![w] = None]
               ELSE table_locks' = table_locks /\ snapshot' = snapshot
          /\ thread' = [thread EXCEPT ![w] = IF trx_tables THEN "transactional" ELSE "non_transactional"]
          /\ thread[w] = "waiting"
          /\ mode' = mode /\ main' = main /\ pos' = pos
          /\ initial_source' = initial_source /\ trx_tables' = trx_tables
          /\ lock_tables_statement' = lock_tables_statement
      BY <2>8 DEF LockTables, Goes, config, server, source
    <3>l. table_locks \in [Workers -> Nat \cup {None}]
      BY DEF IInv, TypeOK
    <3>3. CASE lock_tables_statement
      <4>1. mode # "SAFE_NO_LOCK" /\ ~trx_tables
        BY <1>0, <3>3 DEF ServerOK
      <4> QED
        BY <1>0, <1>t, <1>s, <1>p, <3>l, <3>1, <3>2, <3>3, <4>1, ConstantsAssumption
        DEF SnapshotsOK, Opened, Opening, ThreadPhases
    <3>4. CASE ~lock_tables_statement
      BY <1>0, <1>t, <1>s, <1>p, <3>2, <3>4, ConstantsAssumption
      DEF SnapshotsOK, Opened, Opening, ThreadPhases
    <3> QED
      BY <3>3, <3>4
  <2>9. CASE DumpNonTransactional(w)
    BY <1>0, <1>t, <1>s, <1>p, <2>9, ConstantsAssumption
    DEF SnapshotsOK, Opened, Opening, config, server, source, DumpNonTransactional,
        PhasesOK, ServerOK, Goes, Worker, ThreadPhases
  <2>10. CASE UnlockTables(w)
    BY <1>0, <1>t, <1>s, <1>p, <2>10, ConstantsAssumption
    DEF SnapshotsOK, Opened, Opening, config, server, source, UnlockTables,
        PhasesOK, ServerOK, Goes, Worker, ThreadPhases
  <2>11. CASE DumpTransactional(w)
    BY <1>0, <1>t, <1>s, <1>p, <2>11, ConstantsAssumption
    DEF SnapshotsOK, Opened, Opening, config, server, source, DumpTransactional,
        PhasesOK, ServerOK, Goes, Worker, ThreadPhases
  <2>12. CASE EndTransactional(w)
    BY <1>0, <1>t, <1>s, <1>p, <2>12, ConstantsAssumption
    DEF SnapshotsOK, Opened, Opening, config, server, source, EndTransactional,
        PhasesOK, ServerOK, Goes, Worker, ThreadPhases
  <2>13. CASE ChecksumTable(w)
    BY <1>0, <1>t, <1>s, <1>p, <2>13, ConstantsAssumption
    DEF SnapshotsOK, Opened, Opening, config, server, source, ChecksumTable,
        PhasesOK, ServerOK, Goes, Worker, ThreadPhases
  <2>14. CASE EndPostData(w)
    BY <1>0, <1>t, <1>s, <1>p, <2>14, ConstantsAssumption
    DEF SnapshotsOK, Opened, Opening, config, server, source, EndPostData, PhasesOK,
        ServerOK, Goes, Worker, ThreadPhases
  <2> QED
    BY <2>1, <2>2, <2>3, <2>4, <2>5, <2>6, <2>7, <2>8, <2>9, <2>10, <2>11,
       <2>12, <2>13, <2>14 DEF Worker
<1>14. CASE UNCHANGED vars
  BY <1>0, <1>14 DEF SnapshotsOK, Opened, vars, config, server, source
<1> QED
  BY <1>1, <1>2, <1>3, <1>4, <1>5, <1>6, <1>7, <1>8, <1>9, <1>10, <1>11, <1>12,
     <1>13, <1>14 DEF Next, Main, Ended

LEMMA AgreementStep == IInv /\ [Next]_vars => AgreementOK'
<1> SUFFICES ASSUME IInv, [Next]_vars PROVE AgreementOK'
  OBVIOUS
<1> USE DEF KeepsSnapshots
<1>0. AgreementOK /\ PhasesOK
  BY DEF IInv
<1>t. thread \in [Workers -> ThreadPhases]
  BY DEF IInv, TypeOK
<1>s. snapshot \in [Workers -> Nat \cup {None}]
  BY DEF IInv, TypeOK
<1>a. are_all_threads_in_same_pos \in Seq({1, 2})
  BY DEF IInv, TypeOK
<1>1. CASE Commit
  BY <1>0, <1>1 DEF AgreementOK, Agreed, Commit, config, sync
<1>2. CASE AcquireLocks
  BY <1>0, <1>2 DEF AgreementOK, Agreed, AcquireLocks, config, sync
<1>3. CASE StartWorkers
  BY <1>0, <1>3 DEF AgreementOK, Agreed, Opened, StartWorkers, config, sync
<1>4. CASE ComparePositions
  <2>1. /\ \A w \in Workers : thread[w] = "checking"
        /\ are_all_threads_in_same_pos = <<>>
    BY <1>4, AtRest DEF ComparePositions, IInv, ComparedAtRest
  <2>2. CASE \A v, w \in Workers : snapshot[v] = snapshot[w]
    BY <1>4, <2>1, <2>2, NType DEF AgreementOK, Agreed, Opened, ComparePositions
  <2>3. CASE ~ \A v, w \in Workers : snapshot[v] = snapshot[w]
    BY <1>4, <2>1, <2>3, NType DEF AgreementOK, Agreed, Opened, ComparePositions
  <2> QED
    BY <2>2, <2>3
<1>5. CASE AwaitReady
  BY <1>0, <1>5 DEF AgreementOK, Agreed, AwaitReady, config, sync
<1>6. CASE RecheckPosition
  BY <1>0, <1>6 DEF AgreementOK, Agreed, RecheckPosition, config, sync
<1>7. CASE ReleaseEarly
  BY <1>0, <1>7 DEF AgreementOK, Agreed, ReleaseEarly, config, sync
<1>8. CASE ShutdownInitial
  BY <1>0, <1>8 DEF AgreementOK, Agreed, ShutdownInitial, config, sync
<1>9. CASE StartData
  BY <1>0, <1>9 DEF AgreementOK, Agreed, StartData, config, sync
<1>10. CASE ReleaseLate
  BY <1>0, <1>10 DEF AgreementOK, Agreed, ReleaseLate, config, sync
<1>11. CASE ShutdownPostData
  BY <1>0, <1>11 DEF AgreementOK, Agreed, ShutdownPostData, config, sync
<1>12. CASE JoinWorkers
  BY <1>0, <1>12 DEF AgreementOK, Agreed, JoinWorkers, config, sync
<1>13. CASE \E w \in Workers : Worker(w)
  <2> PICK w \in Workers : Worker(w)
    BY <1>13
  <2>1. CASE TrySnapshot(w)
    BY <1>0, <1>t, <2>1
    DEF AgreementOK, Agreed, Opened, TrySnapshot, config, sync, Goes, ThreadPhases
  <2>2. CASE SnapshotAccepted(w)
    <3>1. mode = "GTID" /\ Agreed
      BY <1>0, <1>a, <2>2 DEF AgreementOK, PhasesOK, SnapshotAccepted
    <3>2. \A i \in DOMAIN are_all_threads_in_same_pos' : are_all_threads_in_same_pos'[i] = 1
      BY <1>a, <3>1, <2>2 DEF Agreed, SnapshotAccepted
    <3>3. Agreed'
      BY <1>t, <3>1, <3>2, <2>2 DEF Agreed, SnapshotAccepted, Goes, config
    <3> QED
      BY <3>3 DEF AgreementOK
  <2>3. CASE SnapshotRejected(w)
    BY <1>0, <1>t, <2>3
    DEF AgreementOK, Agreed, Opened, SnapshotRejected, config, sync, Goes,
        ThreadPhases
  <2>4. CASE OpenSnapshot(w)
    BY <1>0, <1>t, <2>4
    DEF AgreementOK, Agreed, Opened, OpenSnapshot, config, sync, Goes, ThreadPhases
  <2>5. CASE WriteSourceInfo(w)
    BY <1>0, <1>t, <2>5
    DEF AgreementOK, Agreed, Opened, WriteSourceInfo, config, sync, Goes,
        ThreadPhases
  <2>6. CASE EndInitial(w)
    BY <1>0, <1>t, <2>6
    DEF AgreementOK, Agreed, Opened, EndInitial, config, sync, Goes, ThreadPhases
  <2>7. CASE EndSchema(w)
    BY <1>0, <1>t, <2>7
    DEF AgreementOK, Agreed, Opened, EndSchema, config, sync, Goes, ThreadPhases
  <2>8. CASE LockTables(w)
    BY <1>0, <1>t, <2>8
    DEF AgreementOK, Agreed, Opened, LockTables, config, sync, Goes, ThreadPhases
  <2>9. CASE DumpNonTransactional(w)
    BY <1>0, <1>t, <2>9
    DEF AgreementOK, Agreed, Opened, DumpNonTransactional, config, sync, Goes,
        ThreadPhases
  <2>10. CASE UnlockTables(w)
    BY <1>0, <1>t, <2>10
    DEF AgreementOK, Agreed, Opened, UnlockTables, config, sync, Goes, ThreadPhases
  <2>11. CASE DumpTransactional(w)
    BY <1>0, <1>t, <2>11
    DEF AgreementOK, Agreed, Opened, DumpTransactional, config, sync, Goes,
        ThreadPhases
  <2>12. CASE EndTransactional(w)
    BY <1>0, <1>t, <2>12
    DEF AgreementOK, Agreed, Opened, EndTransactional, config, sync, Goes,
        ThreadPhases
  <2>13. CASE ChecksumTable(w)
    BY <1>0, <1>t, <2>13
    DEF AgreementOK, Agreed, Opened, ChecksumTable, config, sync, Goes, ThreadPhases
  <2>14. CASE EndPostData(w)
    BY <1>0, <1>t, <2>14
    DEF AgreementOK, Agreed, Opened, EndPostData, config, sync, Goes, ThreadPhases
  <2> QED
    BY <2>1, <2>2, <2>3, <2>4, <2>5, <2>6, <2>7, <2>8, <2>9, <2>10, <2>11,
       <2>12, <2>13, <2>14 DEF Worker
<1>14. CASE UNCHANGED vars
  BY <1>0, <1>14 DEF AgreementOK, Agreed, vars, config, sync
<1> QED
  BY <1>1, <1>2, <1>3, <1>4, <1>5, <1>6, <1>7, <1>8, <1>9, <1>10, <1>11, <1>12,
     <1>13, <1>14 DEF Next, Main, Ended

LEMMA ReadsStep == IInv /\ [Next]_vars => ReadsOK'
<1> SUFFICES ASSUME IInv, [Next]_vars PROVE ReadsOK'
  OBVIOUS
<1> USE DEF KeepsSnapshots
<1>0. ReadsOK /\ PhasesOK /\ SnapshotsOK /\ ServerOK
  BY DEF IInv
<1>t. thread \in [Workers -> ThreadPhases]
  BY DEF IInv, TypeOK
<1>r. transactional_read \subseteq Nat /\ non_transactional_read \subseteq Nat
  BY DEF IInv, TypeOK
<1>1. CASE Commit
  BY <1>0, <1>1 DEF ReadsOK, Opened, Commit, config, files, source
<1>2. CASE AcquireLocks
  BY <1>0, <1>2 DEF ReadsOK, Opened, AcquireLocks, config, files, source
<1>3. CASE StartWorkers
  <2>1. \A w \in Workers : thread[w] \notin Opened
    BY <1>0, <1>3 DEF PhasesOK, StartWorkers, Opened
  <2>2. mode # "NO_LOCK" => transactional_read = {}
    BY <1>0, <1>3, ConstantsAssumption DEF ReadsOK, PhasesOK, StartWorkers
  <2>3. mode = "LOCK" => non_transactional_read = {}
    BY <1>0, <1>r, <1>3, ConstantsAssumption DEF ReadsOK, PhasesOK, StartWorkers
  <2> QED
    BY <1>0, <1>3, <2>2, <2>3 DEF ReadsOK, StartWorkers, config, files, source
<1>4. CASE ComparePositions
  BY <1>0, <1>4 DEF ReadsOK, Opened, ComparePositions, config, files, source
<1>5. CASE AwaitReady
  BY <1>0, <1>5 DEF ReadsOK, Opened, AwaitReady, config, files, source
<1>6. CASE RecheckPosition
  BY <1>0, <1>6 DEF ReadsOK, Opened, RecheckPosition, config, files, source
<1>7. CASE ReleaseEarly
  BY <1>0, <1>7 DEF ReadsOK, Opened, ReleaseEarly, config, files, source
<1>8. CASE ShutdownInitial
  BY <1>0, <1>8 DEF ReadsOK, Opened, ShutdownInitial, config, files, source
<1>9. CASE StartData
  BY <1>0, <1>9 DEF ReadsOK, Opened, StartData, config, files, source
<1>10. CASE ReleaseLate
  BY <1>0, <1>10 DEF ReadsOK, Opened, ReleaseLate, config, files, source
<1>11. CASE ShutdownPostData
  BY <1>0, <1>11 DEF ReadsOK, Opened, ShutdownPostData, config, files, source
<1>12. CASE JoinWorkers
  BY <1>0, <1>12 DEF ReadsOK, Opened, JoinWorkers, config, files, source
<1>13. CASE \E w \in Workers : Worker(w)
  <2> PICK w \in Workers : Worker(w)
    BY <1>13
  <2>1. CASE TrySnapshot(w)
    BY <1>0, <1>t, <2>1
    DEF ReadsOK, Opened, TrySnapshot, config, files, source, Goes, ThreadPhases
  <2>2. CASE SnapshotAccepted(w)
    BY <1>0, <1>t, <2>2
    DEF ReadsOK, Opened, SnapshotAccepted, config, files, source, Goes, ThreadPhases
  <2>3. CASE SnapshotRejected(w)
    BY <1>0, <1>t, <2>3
    DEF ReadsOK, Opened, SnapshotRejected, config, files, source, Goes, ThreadPhases
  <2>4. CASE OpenSnapshot(w)
    BY <1>0, <1>t, <2>4
    DEF ReadsOK, Opened, OpenSnapshot, config, files, source, Goes, ThreadPhases
  <2>5. CASE WriteSourceInfo(w)
    BY <1>0, <1>t, <2>5
    DEF ReadsOK, Opened, WriteSourceInfo, config, files, source, Goes, ThreadPhases
  <2>6. CASE EndInitial(w)
    BY <1>0, <1>t, <2>6
    DEF ReadsOK, Opened, EndInitial, config, files, source, Goes, ThreadPhases
  <2>7. CASE EndSchema(w)
    BY <1>0, <1>t, <2>7
    DEF ReadsOK, Opened, EndSchema, config, files, source, Goes, ThreadPhases
  <2>8. CASE LockTables(w)
    BY <1>0, <1>t, <2>8
    DEF ReadsOK, Opened, LockTables, config, files, source, Goes, ThreadPhases
  <2>9. CASE DumpNonTransactional(w)
    <3>1. main # "lock" /\ ~status_job
      BY <1>0, <2>9
      DEF DumpNonTransactional, PhasesOK, Listed, Opened, ThreadPhases, Listing,
          Opening
    <3>2. mode = "LOCK" => NonTransactionalView(w) = initial_source
      BY <1>0, <2>9 DEF DumpNonTransactional, SnapshotsOK, NonTransactionalView
    <3> QED
      BY <1>0, <2>9, <3>1, <3>2
      DEF ReadsOK, DumpNonTransactional, config, source
  <2>10. CASE UnlockTables(w)
    BY <1>0, <1>t, <2>10
    DEF ReadsOK, Opened, UnlockTables, config, files, source, Goes, ThreadPhases
  <2>11. CASE DumpTransactional(w)
    <3>1. main # "lock" /\ ~status_job /\ main \in Exporting /\ thread[w] \in Opened
      BY <1>0, <2>11
      DEF DumpTransactional, Worker, PhasesOK, Passed, Listed, Opened, ThreadPhases, Listing, Opening
    <3>2. mode # "NO_LOCK" /\ KeepsSnapshots => TransactionalView(w) = snapshot[w]
      BY <1>0, <3>1 DEF SnapshotsOK, Holds, TransactionalView
    <3>3. mode \in {"LOCK", "SAFE_NO_LOCK"} /\ KeepsSnapshots =>
            snapshot[w] = initial_source
      BY <1>0, <3>1 DEF SnapshotsOK, Holds, Exporting, Opening
    <3>4. mode = "GTID" /\ KeepsSnapshots =>
            \A v \in Workers : thread[v] \in Opened /\ snapshot[v] = snapshot[w]
      <4>1. \A v \in Workers : thread[v] \in Opened
        BY <1>0, <3>1 DEF PhasesOK, Exporting, Opening
      <4> QED
        BY <3>1, <4>1 DEF IInv, AgreementOK, Agreed
    <3>5. initial_source \in Nat /\ initial_source <= TransactionalView(w)
      BY <1>0, <3>1, ConstantsAssumption
      DEF TransactionalView, SnapshotsOK, ServerOK, Exporting
    <3> QED
      BY <1>0, <2>11, <3>1, <3>2, <3>3, <3>4, <3>5
      DEF ReadsOK, DumpTransactional, config, source
  <2>12. CASE EndTransactional(w)
    BY <1>0, <1>t, <2>12
    DEF ReadsOK, Opened, EndTransactional, config, files, source, Goes, ThreadPhases
  <2>13. CASE ChecksumTable(w)
    BY <1>0, <1>t, <2>13
    DEF ReadsOK, Opened, ChecksumTable, config, files, source, Goes, ThreadPhases
  <2>14. CASE EndPostData(w)
    BY <1>0, <1>t, <2>14
    DEF ReadsOK, Opened, EndPostData, config, files, source, Goes, ThreadPhases
  <2> QED
    BY <2>1, <2>2, <2>3, <2>4, <2>5, <2>6, <2>7, <2>8, <2>9, <2>10, <2>11,
       <2>12, <2>13, <2>14 DEF Worker
<1>14. CASE UNCHANGED vars
  BY <1>0, <1>14 DEF ReadsOK, vars, config, files, source
<1> QED
  BY <1>1, <1>2, <1>3, <1>4, <1>5, <1>6, <1>7, <1>8, <1>9, <1>10, <1>11, <1>12,
     <1>13, <1>14 DEF Next, Main, Ended

LEMMA Inductive == IInv /\ [Next]_vars => IInv'
  BY TypeStep, TokensStep, QueuedStep, PhasesStep, ServerStep, SnapshotsStep,
     AgreementStep, ReadsStep DEF IInv

LEMMA Invariance == Spec => []IInv
  BY InitOK, Inductive, PTL DEF Spec

-----------------------------------------------------------------------------
(* No queue is ever popped below zero, no worker retries more often than   *)
(* MAX_START_TRANSACTION_RETRIES allows and the main thread compares the   *)
(* positions no more often than that.                                      *)
THEOREM SnapshotTypeCorrect == Spec => []TypeOK
<1>1. IInv => TypeOK
  BY DEF IInv
<1> QED
  BY <1>1, Invariance, PTL

(* When start_working_thread reads the positions of all workers, without a *)
(* lock, every worker waits for an answer and none is left in the queue.   *)
THEOREM PositionsComparedAtRest == Spec => []ComparedAtRest
  BY AtRest, Invariance, PTL

LEMMA AtMostOneOf ==
    ASSUME NEW S, NEW x, S \subseteq {x}
    PROVE  Cardinality(S) <= 1
<1>1. IsFiniteSet({x}) /\ Cardinality({x}) = 1
  BY FS_Singleton
<1> QED
  BY <1>1, FS_Subset

(* As long as no LOCK TABLES statement is built, the transactional rows a  *)
(* backup holds are of one position in every mode but NO_LOCK, and of the  *)
(* one the metadata file names where a lock or a second look at it keeps   *)
(* it; with or without LOCK TABLES they are of no earlier position, and    *)
(* under the global lock the non-transactional rows are of that one; for   *)
(* any number of threads, retries and commits.                             *)
THEOREM BackupConsistent == Spec => []Consistent
<1>1. IInv => Consistent
  <2> SUFFICES ASSUME IInv PROVE Consistent
    OBVIOUS
  <2> DEFINE read == transactional_read \cup non_transactional_read
  <2>1. ReadsOK /\ ServerOK
    BY DEF IInv
  <2>2. read # {} => source_info = initial_source
    BY <2>1 DEF ReadsOK, ServerOK
  <2>3. mode \in {"LOCK", "SAFE_NO_LOCK"} /\ KeepsSnapshots =>
          transactional_read \subseteq {source_info}
    BY <2>1, <2>2 DEF ReadsOK
  <2>4. mode # "NO_LOCK" => \A p \in transactional_read : source_info <= p
    BY <2>1, <2>2 DEF ReadsOK
  <2>5. mode = "LOCK" => non_transactional_read \subseteq {source_info}
    BY <2>1, <2>2 DEF ReadsOK
  <2>6. mode # "NO_LOCK" /\ KeepsSnapshots =>
          \E x : transactional_read \subseteq {x}
    <3>1. PICK w \in Workers : TRUE
      BY ConstantsAssumption
    <3>2. mode = "GTID" /\ KeepsSnapshots => transactional_read \subseteq {snapshot[w]}
      BY <2>1, <3>1 DEF ReadsOK
    <3>3. mode \in Modes
      BY ConstantsAssumption DEF IInv, TypeOK
    <3> QED
      BY <2>3, <3>2, <3>3 DEF Modes
  <2>7. mode # "NO_LOCK" /\ KeepsSnapshots => Cardinality(transactional_read) <= 1
    BY <2>6, AtMostOneOf
  <2> QED
    BY <2>3, <2>4, <2>5, <2>7 DEF Consistent
<1> QED
  BY <1>1, Invariance, PTL

=============================================================================
