----------------------------- MODULE SchemaJobs -----------------------------
(***************************************************************************)
(* The files that the schema jobs of mydumper write, by what goes wrong    *)
(* (src/mydumper/mydumper_jobs.c).  A job is the sequence of m_open and    *)
(* m_close calls it makes; the text it writes between them is part of the  *)
(* open.  A file that is opened and not closed on some path is the point   *)
(* of this module: with a pipe its child is left behind, and a stream      *)
(* never carries it.                                                       *)
(*                                                                         *)
(* The outcomes of a job: every call succeeds; the first, or the second,   *)
(* query fails with an error of --ignore-errors (any other error ends the  *)
(* process, see m_critical); the first, second or third write_data fails.  *)
(***************************************************************************)
EXTENDS Integers, Sequences

Outcomes == {"ok", "query", "query2", "write", "write2", "write3"}

Kinds == {"tablespace", "database", "table", "triggers", "view_dummy", "view_as_table",
          "sequence", "post"}

Open(file, data) == [op |-> "open", file |-> file, data |-> data]
Close(file, size, dbt) == [op |-> "close", file |-> file, size |-> size, dbt |-> dbt]

NoTable == "none"   \* m_close(..., NULL)

\* The statements of a file up to the write that fails.
Written(statements, outcome) ==
    CASE outcome = "write" -> <<>>
      [] outcome = "write2" -> SubSeq(statements, 1, 1)
      [] outcome = "write3" -> IF Len(statements) > 2 THEN SubSeq(statements, 1, 2)
                                 ELSE statements
      [] OTHER -> statements

\* write_tablespace_definition_into_file never closes its file.
WriteTablespace(job, outcome) ==
    <<Open(job, IF outcome = "query" THEN <<>> ELSE Written(<<"create">>, outcome))>>

\* write_schema_definition_into_file: a failed write is closed all the same.
WriteSchema(job, outcome) ==
    IF outcome = "query" THEN <<Open(job, <<>>)>>
    ELSE <<Open(job, Written(<<"create">>, outcome)), Close(job, 1, NoTable)>>

\* write_table_definition_into_file
WriteTable(job, outcome) ==
    CASE outcome = "query" -> <<Open(job, <<"header">>)>>
      [] outcome = "write" -> <<Open(job, <<>>)>>
      [] OTHER -> <<Open(job, Written(<<"header", "create">>, outcome)),
                    Close(job, 1, job.table)>>

\* write_triggers_definition_into_file, one trigger: a SHOW CREATE TRIGGER
\* that gives nothing leaves its charset without the trigger.
TriggerStatements(outcome) ==
    CASE outcome = "query2" -> <<"header", "charset">>
      [] OTHER -> Written(<<"header", "charset", "create">>, outcome)

\* write_triggers_definition_into_file_from_dbt and _from_database
WriteTriggers(job, outcome) ==
    IF outcome = "query" THEN <<Open(job, <<>>)>>
    ELSE <<Open(job, TriggerStatements(outcome)), Close(job, 1, job.table)>>

\* write_view_definition_into_file: a table in the view's place first, then
\* the view in a file of its own (not with --views-as-tables).
WriteView(job, as_table, outcome) ==
    LET view == [job EXCEPT !.name = "view"]
        dummy == <<Open(job, Written(<<"header", "create">>, outcome)),
                   Close(job, 1, job.table)>>
        own == CASE outcome = "query2" -> <<>>
                 [] outcome = "write3" -> <<Open(view, <<>>)>>
                 [] OTHER -> <<Open(view, <<"drop", "create">>), Close(view, 1, job.table)>>
    IN CASE outcome = "query" -> <<Open(job, <<"header">>)>>
         [] outcome = "write" -> <<Open(job, <<>>)>>
         [] OTHER -> IF as_table THEN dummy ELSE dummy \o own

\* write_sequence_definition_into_file closes its file only when the second
\* query gives the position.
WriteSequence(job, outcome) ==
    CASE outcome = "query" -> <<Open(job, <<"header">>)>>
      [] outcome = "query2" -> <<Open(job, <<"header", "create">>)>>
      [] outcome = "write" -> <<Open(job, <<>>)>>
      [] outcome = "write2" -> <<Open(job, <<"header", "setval">>), Close(job, 1, job.table)>>
      [] outcome = "write3" -> <<Open(job, <<"header", "create">>), Close(job, 1, job.table)>>
      [] OTHER -> <<Open(job, <<"header", "create", "setval">>), Close(job, 1, job.table)>>

\* write_routines_definition_into_file and write_events_definition_into_file:
\* a failed query ends the part it is in, not the job.
PostStatements(outcome) ==
    CASE outcome \in {"query", "write2"} -> <<"header", "event">>
      [] outcome = "query2" -> <<"header", "routine">>
      [] OTHER -> Written(<<"header", "routine", "event">>, outcome)

\* write_post_into_file
WritePost(job, outcome) ==
    IF outcome = "write" THEN <<Open(job, <<>>)>>
    ELSE <<Open(job, PostStatements(outcome)), Close(job, 1, NoTable)>>

\* The do_JOB_* functions.
SchemaJob(job, outcome) ==
    CASE job.name = "tablespace" -> WriteTablespace(job, outcome)
      [] job.name = "database" -> WriteSchema(job, outcome)
      [] job.name = "table" -> WriteTable(job, outcome)
      [] job.name = "triggers" -> WriteTriggers(job, outcome)
      [] job.name = "view_as_table" -> WriteView(job, TRUE, outcome)
      [] job.name = "view_dummy" -> WriteView(job, FALSE, outcome)
      [] job.name = "sequence" -> WriteSequence(job, outcome)
      [] job.name = "post" -> WritePost(job, outcome)
=============================================================================
