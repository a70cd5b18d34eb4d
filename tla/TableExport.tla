---------------------------- MODULE TableExport ----------------------------
(***************************************************************************)
(* What the data export of one table promises, whatever the way the table  *)
(* is cut into chunks: every row class of the table is written to the dump *)
(* files at most once, and a table whose export ends normally has had every*)
(* one of them written exactly once.  The rows written in one step are the *)
(* result set of one SELECT of write_table_job_into_file.                  *)
(***************************************************************************)
EXTENDS Integers

CONSTANT AllRows    \* the rows of the table (one of them stands for NULL keys)

VARIABLES written,  \* written[k]: how many times row k went into a file
          outcome   \* "running", "complete", or "cancelled" by a signal

exportVars == <<written, outcome>>

Init == /\ written = [k \in AllRows |-> 0]
        /\ outcome = "running"

\* One SELECT's rows, none of which any file holds yet, are written.
Export(S) == /\ \A k \in S : written[k] = 0
             /\ written' = [k \in AllRows |-> IF k \in S THEN 1 ELSE written[k]]
             /\ UNCHANGED outcome

\* The export may end as complete only when nothing is missing.
Complete == /\ outcome = "running"
            /\ \A k \in AllRows : written[k] = 1
            /\ outcome' = "complete"
            /\ UNCHANGED written

\* A shutdown signal may arrive at any time; it forfeits completeness.
Cancel == /\ outcome' = "cancelled"
          /\ UNCHANGED written

Next == \/ \E S \in SUBSET AllRows : Export(S)
        \/ Complete
        \/ Cancel

Spec == Init /\ [][Next]_exportVars
=============================================================================
