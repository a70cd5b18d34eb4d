--------------------------- MODULE IntegerChunks ---------------------------
(***************************************************************************)
(* The export of one table by integer chunks                               *)
(* (src/mydumper/mydumper_integer_chunks.c): the table starts as one chunk *)
(* that covers MIN(key)..MAX(key).  A worker dumps its chunk in steps of   *)
(* `step' keys, and whenever another worker is free the chunk builder      *)
(* splits a chunk, be it waiting or being dumped at that very moment, and  *)
(* gives the upper part away.  The worker releases the chunk's mutex while *)
(* its SELECT runs, so a split may happen between any two of its locked    *)
(* sections; what it may touch then is only `max', and only above          *)
(* `cursor'.                                                               *)
(*                                                                         *)
(* Modelled: an unsigned, single column key (integer_step.is_unsigned, no  *)
(* multicolumn), queries that succeed, a table whose rows do not change    *)
(* while it is exported (the snapshot or the table lock).  Keys are        *)
(* guint64: arithmetic that can wrap is written with Inc and USub.         *)
(***************************************************************************)
EXTENDS Integers, Sequences, FiniteSets

CONSTANTS
    MaxU,         \* the largest guint64, 2^w - 1 for some width w
    Rows,         \* the key values of the table's rows
    FirstKey,     \* MIN(key), as initialize_chunk_step_item reads it
    LastKey,      \* MAX(key)
    FixedLength,  \* integer_step.is_step_fixed_length
    MinStep,      \* integer_step.min_chunk_step_size
    MaxStep,      \* integer_step.max_chunk_step_size, 0 for no limit
    StartStep,    \* the step of the first chunk, _starting_chunk_step_size
    Measured,     \* the steps rows * max_time_per_select / elapsed can give
    MaxThreads,   \* dbt->max_threads_per_table
    ExactParts    \* up to here a double holds every integer, 2^53

NullKey == -1               \* stands for the rows whose key IS NULL
AllRows == Rows \cup {NullKey}

U == 0 .. MaxU

\* gint64_abs applied to a guint64 difference: it is read as a signed number.
Gint64Abs(d) == IF d <= MaxU \div 2 THEN d ELSE MaxU + 1 - d

ASSUME WidthAssumption == MaxU \in Nat \ {0}
ASSUME RowsAssumption ==
    /\ Rows \subseteq U
    /\ FirstKey \in Rows /\ LastKey \in Rows
    /\ \A k \in Rows : FirstKey <= k /\ k <= LastKey
\* mydumper_table.c never leaves min_chunk_step_size at zero, a fixed length
\* step is that size, and a smaller gap gives a NONE chunk instead.
ASSUME StepAssumption ==
    /\ FixedLength \in BOOLEAN
    /\ MinStep \in U \ {0} /\ MaxStep \in U
    /\ StartStep \in U /\ StartStep >= MinStep
    /\ FixedLength => StartStep = MinStep
    /\ Gint64Abs(LastKey - FirstKey) > MinStep
    /\ Measured \subseteq U
    /\ MaxThreads \in Nat \ {0}
    /\ ExactParts \in Nat \ {0}

VARIABLES
    nchunks,       \* how many chunk_step_items dbt->chunks holds
    csi,           \* the chunk_step_items, in the order they were created
    tj,            \* where the worker that owns each chunk is in its loop
    chunks_queue,  \* dbt->chunks_queue: the chunks that may still be split
    builder,       \* get_next_integer_chunk: not called, running, gave NULL
    written,       \* how often each row was written
    files,         \* the data files written: part number, chunk and first key
    shutdown_triggered

vars == <<nchunks, csi, tj, chunks_queue, builder, written, files, shutdown_triggered>>

Status == {"UNASSIGNED", "ASSIGNED", "DUMPING_CHUNK", "UNSPLITTABLE", "COMPLETED"}

Chunk == [min : U, cursor : U, max : U, step : U,
          check_min : BOOLEAN, check_max : BOOLEAN, include_null : BOOLEAN,
          status : Status, part : Nat,
          stride : Nat]     \* pow(2, csi->deep)

(***************************************************************************)
(* "none": no JOB_DUMP exists yet; "step": process_integer_chunk_step is   *)
(* about to run; "write": cursor is set and the mutex released; "resize",  *)
(* "resize_empty": the SELECT gave some rows, none; "advance": about to    *)
(* move min; "test": the step returned; "done", "cancelled": job ended.    *)
(***************************************************************************)
PC == {"none", "step", "write", "resize", "resize_empty", "advance", "test",
       "done", "cancelled"}

chunks == 1 .. nchunks

-----------------------------------------------------------------------------
(* guint64 arithmetic *)

\* Mutant: the integer does not wrap.
IncNoWrap(x) == x + 1

Inc(x) == IF x = MaxU THEN 0 ELSE x + 1
USub(x, y) == IF x >= y THEN x - y ELSE x - y + MaxU + 1
Lesser(x, y) == IF x < y THEN x ELSE y

\* max - min + 1, which is 0 once min has passed max.
Remaining(c) == Inc(USub(c.max, c.min))

RowsBetween(lo, hi) == {k \in Rows : lo <= k /\ k <= hi}

-----------------------------------------------------------------------------
(* The chunk builder's side *)

\* new_integer_step_item for the first chunk; a fixed length chunk starts at
\* a multiple of its step, but its cursor was set before the rounding.
FirstChunk ==
    [min |-> IF FixedLength THEN (FirstKey \div StartStep) * StartStep ELSE FirstKey,
     cursor |-> FirstKey, max |-> LastKey, step |-> StartStep,
     check_min |-> FALSE, check_max |-> FALSE, include_null |-> TRUE,
     status |-> "UNASSIGNED", part |-> 0, stride |-> 1]

is_last_step(c) == c.status = "DUMPING_CHUNK" /\ c.max = c.cursor

is_splitable(c) ==
    IF FixedLength
    THEN c.max \div c.step > (c.min \div c.step) + 1
    ELSE /\ c.cursor < c.max
         /\ \/ c.status = "DUMPING_CHUNK" /\ USub(c.max, c.cursor) >= c.step
            \/ c.status = "ASSIGNED" /\ USub(c.max, c.min) >= c.step

\* Mutant: the split forgets that the chunk is being dumped.
LowerBoundMin(c) == c.min

\* A chunk being dumped gives away keys above its cursor only.
LowerBound(c) == IF c.status = "DUMPING_CHUNK" THEN c.cursor ELSE c.min

\* split_chunk_step: the first key of the part that is given away.
SplitPoint(c) ==
    LET lo == LowerBound(c)
    IN IF FixedLength
       THEN c.step * ((lo \div c.step)
                        + (((c.max \div c.step) - (lo \div c.step)) \div 2) + 1)
       ELSE LET mid == lo + (c.max \div 2) - (lo \div 2)
            IN IF mid = lo THEN mid + 1 ELSE mid

\* part += pow(2, deep) is computed in a double, whose unit here is Ulp: what
\* does not fit its mantissa is rounded, half to even.  As part <= stride the
\* sum reaches the width of part only with the last bit of the key's range.
Ulp(c) == IF 2 * c.stride <= ExactParts THEN 1 ELSE (2 * c.stride) \div ExactParts

AddedPart(c) ==
    LET mantissa == (c.part + c.stride) \div Ulp(c)
        rest == 2 * ((c.part + c.stride) % Ulp(c))
    IN Ulp(c) * (IF rest > Ulp(c) \/ (rest = Ulp(c) /\ mantissa % 2 = 1)
                 THEN mantissa + 1 ELSE mantissa)

\* Mutant: the part given away starts one key late.
UpperPartLate(c) ==
    [c EXCEPT !.min = SplitPoint(c) + 1, !.cursor = SplitPoint(c) + 1,
              !.check_min = TRUE, !.check_max = TRUE, !.include_null = FALSE,
              !.status = "ASSIGNED", !.stride = 2 * c.stride,
              !.part = IF FixedLength THEN (SplitPoint(c) \div c.step) + 1
                                      ELSE AddedPart(c)]

\* The new chunk: cursor starts at min, both ends are to be verified.
UpperPart(c) ==
    [c EXCEPT !.min = SplitPoint(c), !.cursor = SplitPoint(c),
              !.check_min = TRUE, !.check_max = TRUE, !.include_null = FALSE,
              !.status = "ASSIGNED", !.stride = 2 * c.stride,
              !.part = IF FixedLength THEN (SplitPoint(c) \div c.step) + 1
                                      ELSE AddedPart(c)]

\* Mutants: the chunk keeps the first key it gave away; its deep is not raised.
LowerPartOverlap(c) == [c EXCEPT !.max = SplitPoint(c), !.check_max = TRUE,
                                 !.stride = 2 * c.stride]
LowerPartSameDeep(c) == [c EXCEPT !.max = SplitPoint(c) - 1, !.check_max = TRUE]

LowerPart(c) == [c EXCEPT !.max = SplitPoint(c) - 1, !.check_max = TRUE,
                          !.stride = 2 * c.stride]

Running == {i \in chunks : tj[i] \notin {"none", "done", "cancelled"}}

\* The builder looks at this table for a free worker.
GetNextCall ==
    /\ builder = "idle"
    /\ ~shutdown_triggered
    /\ Cardinality(Running) < MaxThreads
    /\ builder' = "calling"
    /\ UNCHANGED <<nchunks, csi, tj, chunks_queue, written, files, shutdown_triggered>>

\* One round of the loop of get_next_integer_chunk, under csi->mutex.  i is
\* the chunk that g_async_queue_try_pop returned.
Popped(i) == /\ builder = "calling"
             /\ chunks_queue # <<>>
             /\ i = Head(chunks_queue)

\* The first chunk is handed out as it is.
AssignChunk(i) ==
    /\ Popped(i)
    /\ csi[i].status = "UNASSIGNED"
    /\ csi' = [csi EXCEPT ![i].status = "ASSIGNED"]
    /\ tj' = [tj EXCEPT ![i] = "step"]
    /\ chunks_queue' = Append(Tail(chunks_queue), i)
    /\ builder' = "idle"
    /\ UNCHANGED <<nchunks, written, files, shutdown_triggered>>

Splittable(c) == /\ c.status \in {"ASSIGNED", "DUMPING_CHUNK"}
                 /\ ~is_last_step(c)
                 /\ is_splitable(c)

\* split_chunk_step refuses a fixed length split that stays in the step it
\* started from; the popped chunk is then not queued again.
SplitRefused(c) ==
    FixedLength /\ SplitPoint(c) \div c.step = LowerBound(c) \div c.step

\* A chunk nobody can help with any more leaves the queue for good.
DropChunk(i) ==
    /\ Popped(i)
    /\ \/ csi[i].status \in {"UNSPLITTABLE", "COMPLETED"}
       \/ Splittable(csi[i]) /\ SplitRefused(csi[i])
    /\ chunks_queue' = Tail(chunks_queue)
    /\ UNCHANGED <<nchunks, csi, tj, builder, written, files, shutdown_triggered>>

MarkUnsplittable(i) ==
    /\ Popped(i)
    /\ csi[i].status \in {"ASSIGNED", "DUMPING_CHUNK"}
    /\ ~Splittable(csi[i])
    /\ csi' = [csi EXCEPT ![i].status = "UNSPLITTABLE"]
    /\ chunks_queue' = Tail(chunks_queue)
    /\ UNCHANGED <<nchunks, tj, builder, written, files, shutdown_triggered>>

SplitChunk(i) ==
    /\ Popped(i)
    /\ Splittable(csi[i])
    /\ ~SplitRefused(csi[i])
    /\ nchunks' = nchunks + 1
    /\ csi' = [j \in 1 .. nchunks + 1 |->
                 CASE j = i           -> LowerPart(csi[i])
                   [] j = nchunks + 1 -> UpperPart(csi[i])
                   [] OTHER           -> csi[j]]
    /\ tj' = [j \in 1 .. nchunks + 1 |-> IF j = nchunks + 1 THEN "step" ELSE tj[j]]
    /\ chunks_queue' = Tail(chunks_queue) \o <<i, nchunks + 1>>
    /\ builder' = "idle"
    /\ UNCHANGED <<written, files, shutdown_triggered>>

\* An empty queue: NULL, and the table leaves the builder's list.
GetNextNull ==
    /\ builder = "calling"
    /\ chunks_queue = <<>>
    /\ builder' = "removed"
    /\ UNCHANGED <<nchunks, csi, tj, chunks_queue, written, files, shutdown_triggered>>

-----------------------------------------------------------------------------
(* The worker's side: process_integer_chunk and its steps, one action per  *)
(* section between two mutex operations.                                   *)

\* update_integer_max: the greatest key found in min..max, or, without rows,
\* min itself.  (The set holds one value.)
NewMax(c) ==
    LET found == RowsBetween(c.min, c.max)
    IN IF ~c.check_max THEN {c.max}
       ELSE IF found = {} THEN {c.min}
       ELSE {m \in found : \A k \in found : k <= m}

\* update_integer_min, run with the new max: without rows min is kept.
NewMin(c, max) ==
    LET found == RowsBetween(c.min, max)
    IN IF ~c.check_min \/ found = {} THEN {c.min}
       ELSE {m \in found : \A k \in found : m <= k}

\* Stage 1 when neither query finds a row: the rest of the chunk is skipped.
NothingLeft(c) == /\ c.check_max /\ c.check_min
                  /\ RowsBetween(c.min, c.max) = {}

\* Stage 3: where the next SELECT ends.
NextCursor(min, max, step) ==
    IF step > Inc(USub(max, min)) THEN max ELSE min + step - 1

\* The chunk once stages 1 and 3 have set its ends and its cursor.
Prepared(c, min, max) ==
    [c EXCEPT !.status = "DUMPING_CHUNK", !.min = min, !.max = max,
              !.check_min = FixedLength /\ c.check_min,
              !.check_max = FixedLength /\ c.check_max,
              !.cursor = NextCursor(min, max, c.step)]

\* Stages 1 to 3 under csi->mutex, when rows may be left.
BeginStep(i) ==
    /\ tj[i] = "step"
    /\ ~shutdown_triggered
    /\ FixedLength \/ ~NothingLeft(csi[i])
    /\ \E max \in (IF FixedLength THEN {csi[i].max} ELSE NewMax(csi[i])) :
       \E min \in (IF FixedLength THEN {csi[i].min} ELSE NewMin(csi[i], max)) :
         csi' = [csi EXCEPT ![i] = Prepared(csi[i], min, max)]
    /\ tj' = [tj EXCEPT ![i] = "write"]
    /\ UNCHANGED <<nchunks, chunks_queue, builder, written, files, shutdown_triggered>>

\* Stage 1 finds nothing: min = max + 1 with max = min, the status stays
\* DUMPING_CHUNK, the cursor keeps its old value.
Skipped(c) == [c EXCEPT !.status = "DUMPING_CHUNK", !.max = c.min, !.min = Inc(c.min),
                        !.check_min = FALSE, !.check_max = FALSE]

SkipEmpty(i) ==
    /\ tj[i] = "step"
    /\ ~shutdown_triggered
    /\ ~FixedLength /\ NothingLeft(csi[i])
    /\ csi' = [csi EXCEPT ![i] = Skipped(csi[i])]
    /\ tj' = [tj EXCEPT ![i] = "test"]
    /\ UNCHANGED <<nchunks, chunks_queue, builder, written, files, shutdown_triggered>>

\* The result set of update_where_on_integer_step's WHERE clause.
Selected(c) == RowsBetween(c.min, c.cursor)
                 \cup (IF c.include_null THEN {NullKey} ELSE {})

\* tj->part, from the job or, for a fixed length, from the step.
FilePart(c) == IF FixedLength THEN (c.min \div c.step) + 1 ELSE c.part

\* Step 4 without the mutex: is_last, then the SELECT and its rows.  A
\* shutdown stops write_result_into_file after some of the rows.
WriteRows(i) ==
    /\ tj[i] = "write"
    /\ \E S \in (IF shutdown_triggered THEN SUBSET Selected(csi[i])
                                       ELSE {Selected(csi[i])}) :
         /\ written' = [k \in AllRows |-> IF k \in S THEN written[k] + 1 ELSE written[k]]
         /\ tj' = [tj EXCEPT ![i] =
                     IF FixedLength \/ csi[i].cursor = csi[i].max THEN "advance"
                     ELSE IF S = {} THEN "resize_empty" ELSE "resize"]
    /\ files' = files \cup {[part |-> FilePart(csi[i]), chunk |-> i, from |-> csi[i].min]}
    /\ UNCHANGED <<nchunks, csi, chunks_queue, builder, shutdown_triggered>>

\* Mutant: no lower limit.
ClampStepNoMin(s) == IF MaxStep # 0 /\ s > MaxStep THEN MaxStep ELSE s

ClampStep(s) ==
    LET capped == IF MaxStep # 0 /\ s > MaxStep THEN MaxStep ELSE s
    IN IF capped < MinStep THEN MinStep ELSE capped

Resized(c, step, check) == [c EXCEPT !.step = ClampStep(step), !.check_min = check]

\* Step 4.1: rows and a measurable time set the step, else it doubles and the
\* next step looks for the next existing key.
UpdateStep(i) ==
    /\ tj[i] \in {"resize", "resize_empty"}
    /\ \/ /\ tj[i] = "resize"
          /\ \E s \in Measured :
               csi' = [csi EXCEPT ![i] = Resized(csi[i], s, csi[i].check_min)]
       \/ csi' = [csi EXCEPT ![i] =
                    Resized(csi[i], (2 * csi[i].step) % (MaxU + 1), TRUE)]
    /\ tj' = [tj EXCEPT ![i] = "advance"]
    /\ UNCHANGED <<nchunks, chunks_queue, builder, written, files, shutdown_triggered>>

\* Mutant: step 5 without its overflow case.
AdvancedWraps(c) == [c EXCEPT !.min = Inc(c.cursor), !.status = "ASSIGNED"]

\* Step 5, with its overflow case: the last key is the largest integer.
Advanced(c) ==
    IF Inc(c.cursor) < c.min
    THEN [c EXCEPT !.min = c.max, !.max = USub(c.max, 1), !.status = "ASSIGNED"]
    ELSE [c EXCEPT !.min = Inc(c.cursor), !.status = "ASSIGNED"]

\* Step 6: a step is never longer than what remains.
Trimmed(c) == IF FixedLength THEN c
              ELSE [c EXCEPT !.step = Lesser(c.step, Remaining(c))]

\* Steps 5 and 6, under one lock.
UpdateMin(i) ==
    /\ tj[i] = "advance"
    /\ csi' = [csi EXCEPT ![i] = Trimmed(Advanced(csi[i]))]
    /\ tj' = [tj EXCEPT ![i] = "test"]
    /\ UNCHANGED <<nchunks, chunks_queue, builder, written, files, shutdown_triggered>>

\* The loop of process_integer_chunk takes the mutex again and goes on while
\* min <= max; thd_JOB_DUMP then gives the table's thread slot back.
Returned(c) ==
    [c EXCEPT !.include_null = FALSE,
              !.status = IF c.min <= c.max THEN c.status ELSE "COMPLETED"]

LoopTest(i) ==
    /\ tj[i] = "test"
    /\ csi' = [csi EXCEPT ![i] = Returned(csi[i])]
    /\ tj' = [tj EXCEPT ![i] = IF csi[i].min <= csi[i].max THEN "step" ELSE "done"]
    /\ UNCHANGED <<nchunks, chunks_queue, builder, written, files, shutdown_triggered>>

\* A shutdown cancels the job between two steps.
CancelJob(i) ==
    /\ tj[i] = "step"
    /\ shutdown_triggered
    /\ tj' = [tj EXCEPT ![i] = "cancelled"]
    /\ UNCHANGED <<nchunks, csi, chunks_queue, builder, written, files, shutdown_triggered>>

\* sig_triggered
Shutdown ==
    /\ ~shutdown_triggered
    /\ shutdown_triggered' = TRUE
    /\ UNCHANGED <<nchunks, csi, tj, chunks_queue, builder, written, files>>

-----------------------------------------------------------------------------
\* set_chunk_strategy_for_dbt has just made the table READY.
Init ==
    /\ nchunks = 1
    /\ csi = [i \in 1 .. 1 |-> FirstChunk]
    /\ tj = [i \in 1 .. 1 |-> "none"]
    /\ chunks_queue = <<1>>
    /\ builder = "idle"
    /\ written = [k \in AllRows |-> 0]
    /\ files = {}
    /\ shutdown_triggered = FALSE

Worker(i) == \/ BeginStep(i) \/ SkipEmpty(i) \/ WriteRows(i) \/ UpdateStep(i)
             \/ UpdateMin(i) \/ LoopTest(i) \/ CancelJob(i)

Builder == \/ GetNextCall \/ GetNextNull
           \/ \E i \in chunks : \/ AssignChunk(i) \/ DropChunk(i)
                                \/ MarkUnsplittable(i) \/ SplitChunk(i)

Next == Builder \/ Shutdown \/ \E i \in chunks : Worker(i)

Spec == Init /\ [][Next]_vars

\* Every worker runs on; the builder is called again whenever a worker is free.
Fairness == WF_vars(Builder) /\ WF_vars(\E i \in chunks : Worker(i))
FairSpec == Spec /\ Fairness

-----------------------------------------------------------------------------
(* Properties *)

\* Keys, cursors and steps stay within guint64, whatever is split or wraps.
TypeOK ==
    /\ nchunks \in Nat \ {0}
    /\ csi \in [1 .. nchunks -> Chunk]
    /\ tj \in [1 .. nchunks -> PC]
    /\ chunks_queue \in Seq(1 .. nchunks)
    /\ builder \in {"idle", "calling", "removed"}
    /\ written \in [AllRows -> Nat]
    /\ files \subseteq [part : Nat, chunk : Nat, from : U]
    /\ shutdown_triggered \in BOOLEAN

\* While a SELECT over min..cursor is being prepared, runs, or has its result
\* accounted for, no split moves max below cursor, and the step was never zero
\* (process_integer_chunk_step would stop the program with g_error).
CursorInside ==
    \A i \in chunks :
        tj[i] \in {"write", "resize", "resize_empty", "advance"}
            => csi[i].min <= csi[i].cursor /\ csi[i].cursor <= csi[i].max

\* No row is written twice, however splits, skipped gaps and the wrap around
\* the largest key interleave.
AtMostOnce == \A k \in AllRows : written[k] <= 1

\* No job is under way and the builder asks for none; a chunk that nobody
\* was given would be forgotten.
Finished == builder = "removed" /\ Running = {}

\* When the builder has dropped the table and every JOB_DUMP has ended, every
\* row, the NULL keys included, is in a file.
NothingMissing ==
    Finished /\ ~shutdown_triggered => \A k \in AllRows : written[k] = 1

\* No chunk was split so often that a double had to round its part number.
PartsExact == \A i \in chunks : csi[i].stride <= ExactParts

\* Two jobs never write the same data file: part numbers grown by 2^deep (or
\* taken from the step for a fixed length) do not collide, as long as no chunk
\* is split deeper than the 53 bits of a double.
FilesDistinct ==
    FixedLength \/ PartsExact =>
        \A f, g \in files :
            f.part = g.part => f.chunk = g.chunk /\ (FixedLength => f.from = g.from)

\* The export of a table comes to an end: without a shutdown it finishes, and
\* with one every job that was handed out stops running.
Termination == /\ <>(Finished \/ shutdown_triggered)
               /\ <>[](Running = {})

\* The chunked export implements the abstract one.
outcome == IF shutdown_triggered THEN "cancelled"
           ELSE IF Finished THEN "complete" ELSE "running"
Abstract == INSTANCE TableExport WITH
    AllRows <- AllRows, written <- written, outcome <- outcome
ImplementsTableExport == Abstract!Spec
=============================================================================
