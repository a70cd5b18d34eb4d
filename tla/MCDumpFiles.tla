---------------------------- MODULE MCDumpFiles ----------------------------
(* Scenarios for DumpFiles. *)
EXTENDS DumpFiles

Plain == [pipe |-> FALSE, stream |-> FALSE, no_sync |-> FALSE, exec |-> FALSE,
          no_delete |-> FALSE, build_empty_files |-> FALSE, fork_fails |-> FALSE,
          format |-> "SQL_INSERT", outcomes |-> {"ok"}, faults |-> {"none"},
          schema_jobs |-> <<>>, data_jobs |-> <<>>]

Sized(lens, first) == [i \in DOMAIN lens |-> [id |-> first + i, len |-> lens[i]]]

Schema(name, table) == [name |-> name, table |-> table, part |-> 0]
Data(table, chunk, steps, fixed) ==
    [table |-> table, chunk |-> chunk, steps |-> steps, fixed |-> fixed]

(***************************************************************************)
(* Every way to pack up to four short, middle and long rows, in one SELECT *)
(* or in two, with the files of a table kept or closed between them.       *)
(***************************************************************************)
Lens == UNION {[1 .. n -> {1, 3, 8}] : n \in 0 .. 4}
Packing ==
    {[Plain EXCEPT !.format = format,
                   !.data_jobs = <<Data("t1", 1, <<Sized(lens, 0), Sized(more, 10)>>, fixed)>>] :
       format \in {"SQL_INSERT", "LOAD_DATA"}, lens \in Lens,
       more \in {<<>>, <<3>>, <<3, 3, 3>>}, fixed \in BOOLEAN}

(***************************************************************************)
(* Two workers, schemas and two chunks with a rotation, in every mode.     *)
(***************************************************************************)
Rotated == Data("t1", 1, <<Sized(<<3, 3, 3, 1>>, 0)>>, FALSE)
Short == Data("t2", 1, <<Sized(<<1>>, 0), <<>>>>, FALSE)
Busy == [Plain EXCEPT !.schema_jobs = <<Schema("table", "t1"), Schema("view_dummy", "t2")>>,
                      !.data_jobs = <<Rotated, Short>>]
Brief == [Plain EXCEPT !.data_jobs = <<Rotated, Short>>]
Modes ==
    {Busy,
     [Busy EXCEPT !.stream = TRUE, !.schema_jobs = <<Schema("table", "t1")>>],
     [Brief EXCEPT !.stream = TRUE, !.no_sync = TRUE, !.no_delete = TRUE],
     [Busy EXCEPT !.pipe = TRUE],
     [Brief EXCEPT !.exec = TRUE],
     [Plain EXCEPT !.pipe = TRUE, !.stream = TRUE, !.schema_jobs = <<Schema("table", "t1")>>,
                   !.data_jobs = <<Short>>],
     [Plain EXCEPT !.pipe = TRUE, !.stream = TRUE, !.no_sync = TRUE, !.format = "LOAD_DATA",
                   !.data_jobs = <<Short>>]}
    \cup {[Plain EXCEPT !.pipe = TRUE, !.build_empty_files = kept,
                        !.data_jobs = <<Data("t1", 1, <<<<>>>>, FALSE), Short>>] :
             kept \in BOOLEAN}

(***************************************************************************)
(* Two workers with two files each: as many children as there are tokens,  *)
(* which come back twice while a third job waits for a worker.             *)
(***************************************************************************)
Crowded ==
    {[Plain EXCEPT !.pipe = TRUE, !.format = "LOAD_DATA", !.data_jobs = data] :
       data \in {<<Rotated, Short>>,
                 [i \in 1 .. 3 |-> Data("t" \o ToString(i), 1, <<Sized(<<3>>, 0)>>, FALSE)]}}

(***************************************************************************)
(* Each schema job with each outcome, each fault of a data job, ...        *)
(***************************************************************************)
Failing ==
    {[Plain EXCEPT !.schema_jobs = <<Schema(kind, "t1")>>, !.outcomes = Outcomes, !.pipe = pipes] :
       kind \in Kinds, pipes \in BOOLEAN}
    \cup {[Plain EXCEPT !.data_jobs = <<Rotated, Short>>, !.faults = Faults, !.format = format,
                        !.build_empty_files = TRUE] : format \in Formats}
    \cup {[Brief EXCEPT !.exec = TRUE, !.no_delete = TRUE],
          [Brief EXCEPT !.pipe = TRUE, !.fork_fails = TRUE]}

MCScenarios == Packing \cup Modes \cup Crowded \cup Failing
=============================================================================
