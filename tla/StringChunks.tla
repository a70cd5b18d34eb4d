---------------------------- MODULE StringChunks ----------------------------
(***************************************************************************)
(* The export of one table by string chunks, --split-string-pk             *)
(* (src/mydumper/mydumper_string_chunks.c).  A chunk is a range of key     *)
(* prefixes; it is dumped with one SELECT.  Unlike an integer chunk it is  *)
(* its own worker that splits it, just before the SELECT, and puts the     *)
(* rest on chunks_queue.  The builder must therefore not conclude that the *)
(* table is finished while a chunk it handed out may still be split: it    *)
(* waits on the chunk's condition variable, with dbt->chunks_mutex held.   *)
(*                                                                         *)
(* Keys are sequences of characters, characters are numbers; a LIKE        *)
(* pattern is a prefix without wildcards in it.  An EXPLAIN estimate is a  *)
(* free choice.  Left out: multicolumn keys (csi->next), and set_next_min  *)
(* and the step adaptation, which no caller can reach (check_min is always *)
(* FALSE and is_last always TRUE here).                                    *)
(***************************************************************************)
EXTENDS Integers, Sequences, FiniteSets

CONSTANTS
    Rows,             \* the keys of the table's rows
    MaxKeyLength,     \* the length of the longest key
    MaxItemsOptions,  \* the values of --max-items-per-string-chunk
    MaxThreads,       \* dbt->max_threads_per_table
    PartBits,         \* the width of csi->part, 64 in the code
    MantissaBits      \* the significant bits of a double, 53 in the code

NullKey == <<>>       \* stands for the rows whose key IS NULL
AllRows == Rows \cup {NullKey}

\* A key is not empty, and no key is the beginning of another one (keys of
\* one width): LIKE 'a%' would also select what was given away as 'ab'.
ASSUME KeysAssumption ==
    /\ Rows # {}
    /\ \A k \in Rows : k \in Seq(Nat) /\ Len(k) \in 1 .. MaxKeyLength
    /\ \A j, k \in Rows : j # k => SubSeq(k, 1, Len(j)) # j
ASSUME OptionsAssumption ==
    /\ MaxItemsOptions \subseteq Nat /\ MaxItemsOptions # {}
    /\ MaxThreads \in Nat \ {0}
    /\ MantissaBits \in Nat \ {0}
    /\ PartBits \in Nat /\ PartBits > MantissaBits

VARIABLES
    max_items,     \* max_items_per_string_chunk
    csi,           \* the chunk_step_items, in the order they were created
    tj,            \* where the worker that owns each chunk is
    chunks_queue,  \* dbt->chunks_queue
    builder,       \* get_next_string_chunk: its state and the chunk it waits for
    written,       \* how often each row was written
    files,         \* the data files written: part number and chunk
    shutdown_triggered

vars == <<max_items, csi, tj, chunks_queue, builder, written, files, shutdown_triggered>>

chunks == DOMAIN csi

(***************************************************************************)
(* "none": no JOB_DUMP yet; "job": the job is queued; "split": the worker  *)
(* holds csi->mutex and decides what to dump; "signal": it is about to     *)
(* signal the condition, csi->mutex still held; "write": the SELECT;       *)
(* "update_min": after it; "complete": the step returned; then the end.    *)
(***************************************************************************)
PC == {"none", "job", "split", "signal", "write", "update_min", "complete",
       "done", "cancelled"}

-----------------------------------------------------------------------------
(* Keys and patterns, as the server compares them *)

Shorter(m, n) == IF m < n THEN m ELSE n

Left(k, n) == SubSeq(k, 1, Shorter(n, Len(k)))

\* key LIKE 'p%'
Like(k, p) == Left(k, Len(p)) = p

Below(j, k) ==
    /\ j # k
    /\ \/ Like(k, j)
       \/ \E i \in 1 .. Shorter(Len(j), Len(k)) :
            j[i] < k[i] /\ Left(j, i - 1) = Left(k, i - 1)

Least(S) == CHOOSE k \in S : \A j \in S : j = k \/ Below(k, j)
Greatest(S) == CHOOSE k \in S : \A j \in S : j = k \/ Below(j, k)

\* The rows of update_where_on_string_step's WHERE clause.
InRange(k, min, cur) ==
    IF min = cur THEN Like(k, min)
    ELSE Like(k, cur) \/ (~Below(k, min) /\ ~Below(cur, k))

Selected(c) == {k \in Rows : InRange(k, c.min, c.cur)}
                 \cup (IF c.include_null THEN {NullKey} ELSE {})

\* set_next_cur: the prefixes between cur and max that the query can give,
\* the first one only; empty when there is none (str_cur becomes NULL).
NextCur(c, cur) ==
    LET after == {k \in Rows : Below(cur, k) /\ ~Like(k, cur) /\ Below(k, c.max)}
    IN IF after = {} THEN {} ELSE {Left(Least(after), c.left_length)}

-----------------------------------------------------------------------------
(* The chunk builder *)

\* initialize_chunk_step_item: the first characters of MIN(key) and MAX(key);
\* `fits' is step > rows_in_explain, which decides how a chunk is treated
\* when max_items_per_string_chunk is 0.
FirstChunk(fits) ==
    [min |-> Left(Least(Rows), 1), cur |-> Left(Greatest(Rows), 1),
     max |-> Left(Greatest(Rows), 1), left_length |-> 1, fits |-> fits,
     include_null |-> TRUE, status |-> "UNASSIGNED", part |-> 0, deep |-> 0,
     reused |-> FALSE]   \* history: str_min was freed and its block used again

\* csi->mutex is held by the worker from the start of its step to the signal.
MutexFree(i) == tj[i] \notin {"split", "signal"}

Running == {i \in chunks : tj[i] \notin {"none", "done", "cancelled"}}

GetNextCall ==
    /\ builder.at = "idle"
    /\ ~shutdown_triggered
    /\ Cardinality(Running) < MaxThreads
    /\ builder' = [builder EXCEPT !.at = "calling"]
    /\ UNCHANGED <<max_items, csi, tj, chunks_queue, written, files, shutdown_triggered>>

\* One round of get_next_string_chunk's loop with csi->mutex taken.
Popped(i) == /\ builder.at = "calling"
             /\ chunks_queue # <<>>
             /\ i = Head(chunks_queue)
             /\ MutexFree(i)

AssignChunk(i) ==
    /\ Popped(i)
    /\ csi[i].status = "UNASSIGNED"
    /\ csi' = [csi EXCEPT ![i].status = "ASSIGNED"]
    /\ tj' = [tj EXCEPT ![i] = "job"]
    /\ chunks_queue' = Append(Tail(chunks_queue), i)
    /\ builder' = [builder EXCEPT !.at = "idle"]
    /\ UNCHANGED <<max_items, written, files, shutdown_triggered>>

\* Mutant: only a chunk in the middle of its SELECT is dropped.
SplitAlreadyDumping(c) == c.status = "DUMPING_CHUNK"

\* Mutant: a chunk that was handed out is not waited for.
SplitAlreadyAny(c) == c.status \in {"DUMPING_CHUNK", "COMPLETED", "ASSIGNED"}

\* A chunk whose SELECT has begun has put its rest on the queue.
SplitAlready(c) == c.status \in {"DUMPING_CHUNK", "COMPLETED"}

DropChunk(i) ==
    /\ Popped(i)
    /\ SplitAlready(csi[i])
    /\ chunks_queue' = Tail(chunks_queue)
    /\ UNCHANGED <<max_items, csi, tj, builder, written, files, shutdown_triggered>>

\* g_cond_wait: cond_mutex and csi->mutex are released together.
WaitCond(i) ==
    /\ Popped(i)
    /\ csi[i].status = "ASSIGNED"
    /\ chunks_queue' = Tail(chunks_queue)
    /\ builder' = [at |-> "waiting", on |-> i]
    /\ UNCHANGED <<max_items, csi, tj, written, files, shutdown_triggered>>

\* g_cond_wait may return without a signal; the builder then holds cond_mutex.
SpuriousWakeup ==
    /\ builder.at = "waiting"
    /\ builder' = [builder EXCEPT !.at = "woken"]
    /\ UNCHANGED <<max_items, csi, tj, chunks_queue, written, files, shutdown_triggered>>

\* With cond_mutex held the builder takes csi->mutex and tests the status.
Recheck(i) ==
    /\ builder = [at |-> "woken", on |-> i]
    /\ MutexFree(i)
    /\ builder' = IF csi[i].status = "ASSIGNED" THEN [at |-> "waiting", on |-> i]
                                                ELSE [at |-> "calling", on |-> 0]
    /\ UNCHANGED <<max_items, csi, tj, chunks_queue, written, files, shutdown_triggered>>

\* An empty queue: the builder takes the table off its list for good.
GetNextNull ==
    /\ builder.at = "calling"
    /\ chunks_queue = <<>>
    /\ builder' = [builder EXCEPT !.at = "removed"]
    /\ UNCHANGED <<max_items, csi, tj, chunks_queue, written, files, shutdown_triggered>>

-----------------------------------------------------------------------------
(* The worker: process_string_chunk *)

\* Stage 1, up to retry_split_chunk.
BeginStep(i) ==
    /\ tj[i] = "job"
    /\ ~shutdown_triggered
    /\ tj' = [tj EXCEPT ![i] = "split"]
    /\ csi' = [csi EXCEPT ![i].status = "ASSIGNED"]
    /\ UNCHANGED <<max_items, chunks_queue, builder, written, files, shutdown_triggered>>

\* A shutdown cancels the job before it starts; the chunk stays ASSIGNED.
CancelJob(i) ==
    /\ tj[i] = "job"
    /\ shutdown_triggered
    /\ tj' = [tj EXCEPT ![i] = "cancelled"]
    /\ UNCHANGED <<max_items, csi, chunks_queue, builder, written, files, shutdown_triggered>>

\* execute_string_chunk: the chunk covers min .. cur from now on.
Executing(c, cur) == [c EXCEPT !.cur = cur, !.status = "DUMPING_CHUNK"]

Execute(i, c) ==
    /\ csi' = [csi EXCEPT ![i] = c]
    /\ tj' = [tj EXCEPT ![i] = "signal"]
    /\ UNCHANGED chunks_queue

\* Mutant: the new chunk's number is not far enough from the old one's.
NewPartsNear(c) == {c.part + c.deep}

\* The double next to n, the one with the even mantissa if two are.
Rounded(n) ==
    IF n < 2 ^ MantissaBits THEN n
    ELSE LET unit == 2 ^ (CHOOSE e \in 1 .. n : n < 2 ^ (MantissaBits + e))
             mantissa == n \div unit
             rest == n % unit
         IN unit * (IF 2 * rest > unit \/ (2 * rest = unit /\ mantissa % 2 = 1)
                    THEN mantissa + 1 ELSE mantissa)

\* part += pow(2, deep) is computed in a double; a result that does not fit
\* is undefined when it is converted back (x86 gives 0, arm64 the maximum).
NewParts(c) ==
    LET sum == Rounded(Rounded(c.part) + 2 ^ c.deep)
    IN IF sum < 2 ^ PartBits THEN {sum} ELSE {0, 2 ^ PartBits - 1}

\* split_string_chunk_step: the part given away starts at cur, ...
UpperPart(c, cur, fits, part) ==
    [c EXCEPT !.min = cur, !.cur = c.max, !.fits = fits, !.include_null = FALSE,
              !.status = "UNASSIGNED", !.reused = FALSE,
              !.part = part, !.deep = c.deep + 1]

\* ... and what is kept ends at prev_cur.
LowerPart(c, prev) ==
    [Executing(c, prev) EXCEPT !.max = prev, !.deep = c.deep + 1]

\* The worker pushes the part it gives away before it signals.
SplitChunk(i, c, prev, cur) ==
    \E fits \in (IF max_items = 0 THEN BOOLEAN ELSE {FALSE}), part \in NewParts(c) :
      /\ csi' = Append([csi EXCEPT ![i] = LowerPart(c, prev)],
                       UpperPart(c, cur, fits, part))
      /\ tj' = Append([tj EXCEPT ![i] = "signal"], "none")
      /\ chunks_queue' = Append(chunks_queue, Len(csi) + 1)

(***************************************************************************)
(* The values str_cur takes in n calls of set_next_cur, min first.  The    *)
(* loop stops after a call that finds nothing.                             *)
(***************************************************************************)
Walk(c, n) ==
    LET walk[m \in 0 .. n] ==
          IF m = 0 THEN <<c.min>>
          ELSE walk[m - 1] \o
                 (LET found == IF Len(walk[m - 1]) = m
                               THEN NextCur(c, walk[m - 1][m]) ELSE {}
                  IN IF found = {} THEN <<>> ELSE <<CHOOSE k \in found : TRUE>>)
    IN walk[n]

\* str_cur starts as the very pointer str_min (line 627), and the second call
\* of set_next_cur frees it as str_prev_cur.  From then on str_min reads what
\* the block holds: the old bytes, or any string put there since, the copy of
\* str_max made after the last call included.
MinsAfter(c, walk, calls, ended) ==
    IF calls < 2 THEN {c.min}
    ELSE {walk[j] : j \in {1} \cup 3 .. Len(walk)} \cup (IF ended THEN {c.max} ELSE {})

\* max_items_per_string_chunk > 0: after max_items prefixes the rest is given
\* away.  With the limit at 1 it is given away even when max is all that is
\* left of it.
ChunkByItems(i) ==
    LET c == csi[i]
        walk == Walk(c, max_items)
        calls == Shorter(max_items, Len(walk))
        ended == Len(walk) <= max_items
    IN /\ tj[i] = "split"
       /\ max_items > 0
       /\ \/ /\ c.min = c.max
             /\ Execute(i, Executing(c, c.min))
          \/ /\ c.min # c.max
             /\ \E min \in MinsAfter(c, walk, calls, ended) :
                  LET kept == [c EXCEPT !.min = min, !.reused = min # c.min]
                  IN IF ended /\ max_items # 1
                     THEN Execute(i, Executing(kept, c.max))
                     ELSE SplitChunk(i, kept,
                            IF ended THEN walk[Len(walk)] ELSE walk[Len(walk) - 1],
                            IF ended THEN c.max ELSE walk[Len(walk)])
       /\ UNCHANGED <<max_items, builder, written, files, shutdown_triggered>>

\* max_items_per_string_chunk = 0, and the estimate says it is small enough.
ChunkFits(i) ==
    /\ tj[i] = "split"
    /\ max_items = 0
    /\ csi[i].fits
    /\ Execute(i, Executing(csi[i], csi[i].max))
    /\ UNCHANGED <<max_items, builder, written, files, shutdown_triggered>>

\* One prefix only: renew_min_and_max looks at one more character.  Past the
\* length of every key the round changes nothing any more, for ever (the
\* length itself, which keeps growing, is capped here).
Deepen(i) ==
    LET c == csi[i]
        here == {k \in Rows : Like(k, c.min)}
        n == Shorter(c.left_length + 1, MaxKeyLength + 1)
    IN /\ tj[i] = "split"
       /\ max_items = 0
       /\ ~c.fits
       /\ c.min = c.max
       /\ csi' = [csi EXCEPT ![i] = [c EXCEPT !.left_length = n,
                                              !.min = Left(Least(here), n),
                                              !.max = Left(Greatest(here), n)]]
       /\ UNCHANGED <<max_items, tj, chunks_queue, builder, written, files, shutdown_triggered>>

\* A range of prefixes: the first one is kept, the others are given away.
SplitByEstimate(i) ==
    LET c == csi[i]
        next == NextCur(c, c.min)
    IN /\ tj[i] = "split"
       /\ max_items = 0
       /\ ~c.fits
       /\ c.min # c.max
       /\ SplitChunk(i, c, c.min, IF next = {} THEN c.max ELSE CHOOSE k \in next : TRUE)
       /\ UNCHANGED <<max_items, builder, written, files, shutdown_triggered>>

Woken(i) == IF builder = [at |-> "waiting", on |-> i]
            THEN [builder EXCEPT !.at = "woken"] ELSE builder

\* g_cond_signal needs cond_mutex; then csi->mutex is released.
Signal(i) ==
    /\ tj[i] = "signal"
    /\ builder # [at |-> "woken", on |-> i]
    /\ builder' = Woken(i)
    /\ tj' = [tj EXCEPT ![i] = "write"]
    /\ UNCHANGED <<max_items, csi, chunks_queue, written, files, shutdown_triggered>>

\* write_table_job_into_file; a shutdown stops it after some of the rows.
WriteRows(i) ==
    /\ tj[i] = "write"
    /\ \E S \in (IF shutdown_triggered THEN SUBSET Selected(csi[i])
                                       ELSE {Selected(csi[i])}) :
         written' = [k \in AllRows |-> IF k \in S THEN written[k] + 1 ELSE written[k]]
    /\ files' = files \cup {[part |-> csi[i].part, chunk |-> i]}
    /\ tj' = [tj EXCEPT ![i] = "update_min"]
    /\ UNCHANGED <<max_items, csi, chunks_queue, builder, shutdown_triggered>>

\* Step 5 makes the chunk ASSIGNED once more ...
UpdateMin(i) ==
    /\ tj[i] = "update_min"
    /\ csi' = [csi EXCEPT ![i].status = "ASSIGNED"]
    /\ tj' = [tj EXCEPT ![i] = "complete"]
    /\ UNCHANGED <<max_items, chunks_queue, builder, written, files, shutdown_triggered>>

\* ... until process_string_chunk completes it, without a signal.
Complete(i) ==
    /\ tj[i] = "complete"
    /\ csi' = [csi EXCEPT ![i].status = "COMPLETED", ![i].include_null = FALSE]
    /\ tj' = [tj EXCEPT ![i] = "done"]
    /\ UNCHANGED <<max_items, chunks_queue, builder, written, files, shutdown_triggered>>

\* sig_triggered
Shutdown ==
    /\ ~shutdown_triggered
    /\ shutdown_triggered' = TRUE
    /\ UNCHANGED <<max_items, csi, tj, chunks_queue, builder, written, files>>

-----------------------------------------------------------------------------
\* set_chunk_strategy_for_dbt has just made the table READY.
Init ==
    /\ max_items \in MaxItemsOptions
    /\ \E fits \in (IF max_items = 0 THEN BOOLEAN ELSE {FALSE}) : csi = <<FirstChunk(fits)>>
    /\ tj = <<"none">>
    /\ chunks_queue = <<1>>
    /\ builder = [at |-> "idle", on |-> 0]
    /\ written = [k \in AllRows |-> 0]
    /\ files = {}
    /\ shutdown_triggered = FALSE

Worker(i) == \/ BeginStep(i) \/ CancelJob(i)
             \/ ChunkByItems(i) \/ ChunkFits(i) \/ Deepen(i) \/ SplitByEstimate(i)
             \/ Signal(i) \/ WriteRows(i) \/ UpdateMin(i) \/ Complete(i)

Builder == \/ GetNextCall \/ GetNextNull
           \/ \E i \in chunks : \/ AssignChunk(i) \/ DropChunk(i)
                                \/ WaitCond(i) \/ Recheck(i)

Next == \/ Builder \/ SpuriousWakeup \/ Shutdown
        \/ \E i \in chunks : Worker(i)

Spec == Init /\ [][Next]_vars

\* Every thread runs on; the builder is called whenever a worker is free.
Fairness == WF_vars(Builder) /\ WF_vars(\E i \in chunks : Worker(i))
FairSpec == Spec /\ Fairness

-----------------------------------------------------------------------------
(* Properties *)

Prefixes == {Left(k, n) : k \in Rows, n \in 1 .. MaxKeyLength}

Chunk == [min : Prefixes, cur : Prefixes, max : Prefixes,
          left_length : 1 .. MaxKeyLength + 1, fits : BOOLEAN, include_null : BOOLEAN,
          status : {"UNASSIGNED", "ASSIGNED", "DUMPING_CHUNK", "COMPLETED"},
          part : Nat, deep : Nat, reused : BOOLEAN]

\* Ranges are made of prefixes of keys of the table; no str_cur is left NULL.
TypeOK ==
    /\ max_items \in MaxItemsOptions
    /\ csi \in Seq(Chunk)
    /\ tj \in [chunks -> PC]
    /\ chunks_queue \in Seq(chunks)
    /\ builder \in [at : {"idle", "calling", "waiting", "woken", "removed"},
                    on : {0} \cup chunks]
    /\ written \in [AllRows -> Nat]
    /\ files \subseteq [part : Nat, chunk : chunks]
    /\ shutdown_triggered \in BOOLEAN

\* No job is under way and the builder asks for none; a chunk that nobody
\* was given would be forgotten.
Finished == builder.at = "removed" /\ Running = {}

\* When the builder has dropped the table and every job has ended, every row
\* is in a file: what process_string_chunk_step gives away is always found.
NothingMissing ==
    Finished /\ ~shutdown_triggered => \A k \in AllRows : written[k] = 1

\* The first PartBits chunks of a table have part numbers, that is, data
\* files, of their own, whichever chunk is split how often and although the
\* numbers are rounded once they outgrow a double's mantissa; the chunk after
\* them may take the number, and overwrite the file, of an earlier one.
PartsDistinct ==
    \A f, g \in files :
        f.part = g.part /\ f.chunk < g.chunk => g.chunk > PartBits

(***************************************************************************)
(* The three ways in which the export of the table can come to a stop:     *)
(* the builder waits for a chunk that has signalled already (it was seen   *)
(* ASSIGNED only after its SELECT, or the signal was seen too late); it    *)
(* woke up by itself and holds cond_mutex while the worker that needs it   *)
(* holds csi->mutex; a single key is not "split" any further, for ever.    *)
(***************************************************************************)
SignalMissed == builder.at = "waiting" /\ tj[builder.on] \in {"complete", "done"}
LockCycle == builder.at = "woken" /\ tj[builder.on] = "signal"
Spins == \E i \in chunks : /\ tj[i] = "split" /\ max_items = 0 /\ ~csi[i].fits
                           /\ csi[i].min = csi[i].max /\ csi[i].left_length > MaxKeyLength

\* Apart from these three the export of a table ends: builder and workers do
\* not wait for each other in any other way.
EndsUnlessStuck ==
    <>(Finished \/ shutdown_triggered \/ SignalMissed \/ LockCycle \/ Spins)

\* The export implements the abstract one; a chunk whose str_min was used
\* again forfeits completeness.
Abstract == INSTANCE TableExport WITH
    AllRows <- AllRows,
    written <- written,
    outcome <- IF shutdown_triggered \/ (\E i \in chunks : csi[i].reused)
               THEN "cancelled"
               ELSE IF Finished THEN "complete" ELSE "running"
ImplementsTableExport == Abstract!Spec
=============================================================================
