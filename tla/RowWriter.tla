----------------------------- MODULE RowWriter -----------------------------
(***************************************************************************)
(* How the rows of a JOB_DUMP become data files: write_result_into_file    *)
(* and its helpers (src/mydumper/mydumper_write.c).  The result of each    *)
(* SELECT of a table job is packed into statements of at most              *)
(* --statement-size bytes; a data file that grows over --chunk-filesize is *)
(* closed and the next one has a higher sub_part.                          *)
(*                                                                         *)
(* All of it happens in one thread and nobody else looks at a data file    *)
(* that is open, so this module has no state: a job is taken to the files  *)
(* it leaves by operators, and DumpFiles opens and closes those files.     *)
(* Text is its length: a row is [id, len].                                 *)
(***************************************************************************)
EXTENDS Integers, Sequences, SequencesExt

CONSTANTS
    StatementSize,   \* statement_size
    ChunkFilesize,   \* --chunk-filesize; 0 is no limit
    HeaderSize,      \* the length of the SET statements a file starts with
    InsertSize,      \* the length of dbt->insert_statement
    TerminatorSize,  \* the length of ";\n"
    RowBatch         \* ROW_BATCH_FLUSH_THRESHOLD

ASSUME SizesAssumption ==
    /\ {StatementSize, ChunkFilesize, HeaderSize, InsertSize, TerminatorSize} \subseteq Nat
    /\ RowBatch \in Nat \ {0}

Formats == {"SQL_INSERT", "LOAD_DATA", "CLICKHOUSE"}

\* LOAD_DATA stands for CSV too: raw lines, and a .sql file beside them.
Inserts(format) == format # "LOAD_DATA"

\* td->thread_data_buffers.statement: the rows in it, and whether it starts
\* with the SET statements and with INSERT INTO.
Text(format, header) ==
    [rows |-> <<>>, header |-> header, insert |-> Inserts(format),
     len |-> (IF header THEN HeaderSize ELSE 0) + (IF Inserts(format) THEN InsertSize ELSE 0)]

WithRow(text, format, row) ==
    [text EXCEPT !.rows = Append(@, row.id),
                 !.len = @ + row.len + (IF text.rows # <<>> /\ Inserts(format) THEN 1 ELSE 0)]

-----------------------------------------------------------------------------
(***************************************************************************)
(* A table job: the files it has produced (the last one is open when       *)
(* `open'), what struct table_job counts, the rows it has added to         *)
(* dbt->rows, and the buffers of its thread (rows still in local_rows when *)
(* the job is left early are added by the thread's next job).              *)
(***************************************************************************)
NewTableJob(format, fixed) ==
    [format |-> format, chunk_filesize |-> IF fixed THEN 0 ELSE ChunkFilesize, files |-> <<>>, open |-> FALSE, part |-> 0, sub_part |-> 0,
     filesize |-> 0, st_in_file |-> 0, text |-> Text(format, FALSE), num_rows |-> 0,
     local_rows |-> 0, rows |-> 0, errors |-> 0, fault |-> "none", returned |-> FALSE]

\* `loads' is the number of statements in the .sql file that reads this one.
NewFile(tj, loads) ==
    [part |-> tj.part, sub_part |-> tj.sub_part, statements |-> <<>>, loads |-> loads,
     size |-> 0]

\* update_files_on_table_job, and the .sql file's statement when it has just
\* been created (CLICKHOUSE writes it by itself when no file was rotated).
OpenFiles(tj, loads) ==
    IF tj.open THEN tj
    ELSE [tj EXCEPT !.files = Append(@, NewFile(tj, loads)), !.open = TRUE]

\* close_table_job_files; free_table_job closes them in the same order.
CloseFiles(tj) ==
    IF tj.open
    THEN [tj EXCEPT !.files[Len(tj.files)].size = tj.filesize, !.open = FALSE,
                    !.filesize = 0, !.st_in_file = 0]
    ELSE [tj EXCEPT !.filesize = 0, !.st_in_file = 0]

\* update_dbt_rows_batched
CountRows(tj) ==
    LET n == tj.local_rows + tj.num_rows
    IN IF n >= RowBatch THEN [tj EXCEPT !.rows = @ + n, !.local_rows = 0, !.num_rows = 0]
                        ELSE [tj EXCEPT !.local_rows = n, !.num_rows = 0]

\* flush_dbt_rows
FlushRows(tj) == [tj EXCEPT !.rows = @ + tj.local_rows, !.local_rows = 0]

\* write_statement: a write that fails is counted, and the job's caller returns.
WriteStatement(tj, terminated) ==
    LET text == [tj.text EXCEPT !.len = @ + (IF terminated THEN TerminatorSize ELSE 0)]
        n == Len(tj.files)
    IN IF tj.fault = "write"
       THEN [tj EXCEPT !.errors = @ + 1, !.returned = TRUE]
       ELSE [tj EXCEPT !.files[n].statements = Append(@, text),
                       !.filesize = @ + text.len, !.st_in_file = @ + 1]

TooLong(tj, row) == tj.text.len + row.len + 1 > StatementSize

\* The statement does not take the row any more: it is written, with the row
\* in it only if it has no other.
Flush(tj, row) ==
    LET full == IF tj.text.rows = <<>>
                THEN [tj EXCEPT !.text = WithRow(@, tj.format, row)] ELSE tj
        out == WriteStatement(full, Inserts(tj.format))
    IN IF out.returned THEN out
       ELSE [CountRows(out) EXCEPT !.text = Text(tj.format, FALSE),
                                   !.returned = tj.fault = "shutdown"]

\* Mutant: the file is rotated after the row went into the buffer.
TooBigLate(tj) ==
    tj.chunk_filesize > 0 /\ tj.filesize + tj.text.len > tj.chunk_filesize

TooBig(tj) == tj.chunk_filesize > 0 /\ tj.filesize > tj.chunk_filesize

\* reopen_files, and a new statement buffer when it is one of INSERTs.
Rotate(tj) ==
    IF ~TooBig(tj) THEN tj
    ELSE LET next == [CloseFiles(tj) EXCEPT !.sub_part = @ + 1]
         IN [OpenFiles(next, 1) EXCEPT
               !.text = IF tj.format = "SQL_INSERT" THEN Text(tj.format, TRUE) ELSE @]

\* One turn of the loop over mysql_fetch_row.
WriteRow(tj, row) ==
    LET fetched == [tj EXCEPT !.num_rows = @ + 1]
        alone == TooLong(tj, row) /\ tj.text.rows = <<>>
        out == IF TooLong(tj, row) THEN Flush(fetched, row) ELSE fetched
    IN IF tj.returned \/ out.returned THEN out
       ELSE LET rotated == Rotate(out)
            IN IF alone THEN rotated
               ELSE [rotated EXCEPT !.text = WithRow(@, tj.format, row)]

\* The start of write_result_into_file: open files and a statement to fill.
BeginResult(tj) ==
    LET opened == OpenFiles(tj, IF tj.format = "LOAD_DATA" THEN 1 ELSE 0)
        first == tj.st_in_file = 0
        n == Len(opened.files)
    IN [opened EXCEPT !.text = Text(tj.format, first /\ Inserts(tj.format)),
                      !.num_rows = 0,
                      !.files[n].loads = IF tj.format = "CLICKHOUSE" /\ first
                                         THEN @ + 1 ELSE @]

\* Its end: what is left in the buffer, unless there is no row in it.
EndResult(tj) ==
    IF tj.returned THEN tj
    ELSE LET counted == FlushRows(CountRows(tj))
         IN IF tj.text.rows = <<>> THEN counted
            ELSE WriteStatement(counted, Inserts(tj.format))

WriteResult(tj, rows) == EndResult(FoldLeft(WriteRow, BeginResult(tj), rows))

(***************************************************************************)
(* write_table_job_into_file.  fault: "select" is a query that fails (for  *)
(* good, that is at the second try when the backup is not a consistent     *)
(* one): no message, no file.  "read" is a connection lost after the first *)
(* row.                                                                    *)
(***************************************************************************)
WriteTableJob(tj, rows, fault) ==
    LET begun == [tj EXCEPT !.fault = fault, !.returned = FALSE]
    IN CASE fault = "select" -> tj
         [] fault = "read" ->
              LET read == WriteResult(begun, SubSeq(rows, 1, 1))
              IN [read EXCEPT !.errors = @ + 1]
         [] OTHER -> WriteResult(begun, rows)

Faults == {"none", "select", "read", "write", "shutdown"}

(***************************************************************************)
(* A JOB_DUMP: one write_table_job_into_file per step of its chunk.  With  *)
(* a fixed length every step has files of its own.  The fault hits the     *)
(* first step.  free_table_job closes what is open.                        *)
(***************************************************************************)
TableJob(format, steps, fixed, fault) ==
    LET Step(tj, i) ==
          LET fresh == IF fixed THEN [CloseFiles(tj) EXCEPT !.part = i] ELSE tj
          IN WriteTableJob(fresh, steps[i], IF i = 1 THEN fault ELSE "none")
    IN CloseFiles(FoldLeftDomain(Step, NewTableJob(format, fixed), steps))
=============================================================================
