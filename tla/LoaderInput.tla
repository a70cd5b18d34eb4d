----------------------------- MODULE LoaderInput -----------------------------
(***************************************************************************)
(* From the names mydumper gives to the objects of a backup to what        *)
(* myloader takes each file for.  mydumper (src/mydumper/mydumper_common.c)*)
(* turns names of databases and tables into parts of file names.  The      *)
(* files come to myloader through the stream (StreamParser), out of the    *)
(* directory or out of a resume file; process_filename_worker threads find *)
(* the type of each name, a queue sorted by type passes them on, and       *)
(* process_file_type_worker threads split the names again and register     *)
(* databases and tables.  Masked names ("mydumper_0") get their real ones  *)
(* from the metadata and from the schema files, whichever comes first.     *)
(*                                                                         *)
(* Loader starts where this module ends: with files whose type and table   *)
(* are known.  --source-db, --database, --regex and --skip are left out;   *)
(* --tables-list is the only filter.                                       *)
(***************************************************************************)
EXTENDS StreamParser, FiniteSetsExt

CONSTANTS
    process_filename_num_threads,
    process_file_type_num_threads

ASSUME ThreadsAssumption == {process_filename_num_threads, process_file_type_num_threads}
                              \subseteq Nat \ {0}

VARIABLES
    listing,      \* the names process_directory has still to read
    taken,        \* how many names of pushed the readers have popped
    reader,       \* the process_filename_worker threads: the names they hold (by
                  \* their place in pushed), and how many threads there are left
    types,        \* process_file_type_queue
    worker,       \* the process_file_type_worker threads: the files they hold, and
                  \* how many threads there are left
    registry,     \* database_hash, and the names in its databases and tables
    first_metadata_processed, partial_metadata_queue,
    restored      \* what each file was taken for

inputVars == <<listing, taken, reader, types, worker, registry, first_metadata_processed,
               partial_metadata_queue, restored>>

NoName == <<>>

-----------------------------------------------------------------------------
(* mydumper: the names of files *)

\* determine_filename: the pattern ends before a new line at the end.
CheckFilenameRegex(name) ==
    /\ Range(name) \cap {"#", "nul"} = {}
    /\ \A i \in DOMAIN name : name[i] = NL => i = Len(name) /\ i > 1
newline_protect(name) == [i \in DOMAIN name |-> IF name[i] = NL THEN "U+1000" ELSE name[i]]
newline_unprotect(name) == [i \in DOMAIN name |-> IF name[i] = "U+1000" THEN NL ELSE name[i]]
determine_filename(name, number, masquerade) ==
    IF ~masquerade /\ CheckFilenameRegex(name) /\ "." \notin Range(name) /\ name[1] # "mydumper_"
    THEN newline_protect(name)
    ELSE <<"mydumper_", Digits[number + 1]>>

\* get_ref_table for a sequence of databases and tables; table_number counts
\* the names that were masked.
get_ref_table(names, masquerade) ==
    FoldLeft(LAMBDA acc, name :
               IF name \in DOMAIN acc.ref THEN acc
               ELSE LET val == determine_filename(name, acc.table_number, masquerade)
                    IN [ref |-> (name :> val) @@ acc.ref,
                        table_number |-> acc.table_number
                                           + IF val[1] = "mydumper_" THEN 1 ELSE 0],
             [ref |-> <<>>, table_number |-> 0], names).ref

Sql == <<".", "sql">>
Dat == <<".", "dat">>
SchemaSuffix == ("SCHEMA_CREATE" :> "-create") @@ ("SCHEMA_VIEW" :> "-view")
             @@ ("SCHEMA_SEQUENCE" :> "-sequence") @@ ("SCHEMA_TRIGGER" :> "-triggers")
             @@ ("SCHEMA_POST" :> "-post")
Parts == <<"00000", "00001", "00002">>
Tablespace == <<"all", "-schema", "-create", "-tablespace", ".", "sql">>

\* build_filename, build_schema_filename, build_schema_table_filename and
\* build_tablespace_filename; m_open adds the extension of the compression.
BuildFilename(ref, o) ==
    LET qualified == ref[o.database] \o (IF o.table = NoName THEN <<>>
                                         ELSE <<".">> \o ref[o.table])
        part == <<".", Parts[o.part + 1]>>
                \o (IF o.sub_part = 0 THEN <<>> ELSE <<".", Parts[o.sub_part + 1]>>)
    IN (CASE o.type = "DATA" -> qualified \o part \o Sql
          [] o.type = "LOAD_DATA" -> qualified \o part \o Dat
          [] o.type = "SCHEMA_TABLESPACE" -> Tablespace
          [] o.type = "SCHEMA_TABLE" -> qualified \o <<"-schema">> \o Sql
          [] OTHER -> qualified \o <<"-schema", SchemaSuffix[o.type]>> \o Sql)
       \o o.extension

-----------------------------------------------------------------------------
(* myloader: splitting names *)

HasSuffix(name, suffix) ==
    Len(name) >= Len(suffix) /\ SubSeq(name, Len(name) - Len(suffix) + 1, Len(name)) = suffix
Extensions == {<<".", "gz">>, <<".", "zst">>}
m_filename_has_suffix(name, suffix) ==
    LET ext == {e \in Extensions : HasSuffix(name, e)}
    IN IF ext = {} THEN HasSuffix(name, suffix)
       ELSE \E e \in ext : Len(name) > Len(e) + Len(suffix) /\ HasSuffix(name, suffix \o e)

\* g_strsplit: what is in front of the first delimiter, and the pieces
\* between dots.
Before(name, delimiter) ==
    LET places == {i \in 1 .. Len(name) - Len(delimiter) + 1 :
                     SubSeq(name, i, i + Len(delimiter) - 1) = delimiter}
    IN IF places = {} THEN name ELSE SubSeq(name, 1, Min(places) - 1)
Split(name) ==
    LET limits == {0, Len(name) + 1} \cup {i \in DOMAIN name : name[i] = "."}
        Limit(k) == CHOOSE i \in limits : Cardinality({j \in limits : j < i}) = k
    IN [k \in 1 .. Cardinality(limits) - 1 |-> SubSeq(name, Limit(k - 1) + 1, Limit(k) - 1)]
Number(piece) ==
    IF piece # <<>> /\ piece[1] \in Range(Parts)
    THEN (CHOOSE i \in DOMAIN Parts : Parts[i] = piece[1]) - 1 ELSE 0

Pair(database, table) == [database |-> database, table |-> table, part |-> 0, sub_part |-> 0]
Unknown == Pair(NoName, NoName)

get_database_name_from_filename(name) ==
    Pair(Before(name, <<"-schema", "-create", ".", "sql">>), NoName)
get_database_table_name_from_filename(name) ==
    LET split == Split(Before(name, <<"-schema", ".", "sql">>))
    IN IF Len(split) = 2 THEN Pair(split[1], split[2]) ELSE Unknown
get_database_table_from_file(name, suffix) ==
    LET split == Split(Before(name, suffix))
    IN IF Len(split) > 2 THEN Unknown
       ELSE Pair(split[1], IF Len(split) = 2 THEN split[2] ELSE NoName)

\* Mutant: the part is read behind the sub part.
PartsOfSwapped(name) ==
    LET split == Split(name)
    IN IF Len(split) < 2 THEN Unknown
       ELSE [database |-> split[1], table |-> split[2],
             part |-> IF Len(split) >= 4 THEN Number(split[4]) ELSE 0,
             sub_part |-> IF Len(split) >= 3 THEN Number(split[3]) ELSE 0]

get_database_table_part_name_from_filename(name) ==
    LET split == Split(name)
    IN IF Len(split) < 2 THEN Unknown
       ELSE [database |-> split[1], table |-> split[2],
             part |-> IF Len(split) >= 3 THEN Number(split[3]) ELSE 0,
             sub_part |-> IF Len(split) > 3 THEN Number(split[4]) ELSE 0]

-----------------------------------------------------------------------------
(* myloader: the type of a file *)

\* enum file_type, the order of the queue.
FileTypes == <<"METADATA_GLOBAL", "METADATA_PARTIAL", "RESUME", "SCHEMA_TABLESPACE",
               "SCHEMA_SEQUENCE", "SCHEMA_CREATE", "SCHEMA_TABLE", "DATA", "LOAD_DATA",
               "SCHEMA_VIEW", "SCHEMA_TRIGGER", "SCHEMA_POST", "IGNORED", "FILENAME_ENDED">>
Rank == [type \in Range(FileTypes) |-> CHOOSE i \in DOMAIN FileTypes : FileTypes[i] = type]

\* The suffixes get_file_type looks for, in its order.
SuffixTypes == << <<"SCHEMA_TABLE", <<"-schema">> \o Sql>>,
                  <<"SCHEMA_VIEW", <<"-schema", "-view">> \o Sql>>,
                  <<"SCHEMA_SEQUENCE", <<"-schema", "-sequence">> \o Sql>>,
                  <<"SCHEMA_TRIGGER", <<"-schema", "-triggers">> \o Sql>>,
                  <<"SCHEMA_POST", <<"-schema", "-post">> \o Sql>>,
                  <<"SCHEMA_CREATE", <<"-schema", "-create">> \o Sql>>,
                  <<"DATA", Sql>>, <<"LOAD_DATA", Dat>> >>

get_file_type(name) ==
    LET matches == {i \in DOMAIN SuffixTypes : m_filename_has_suffix(name, SuffixTypes[i][2])}
    IN CASE name = <<"metadata.header">> -> "METADATA_GLOBAL"
         [] name = <<"metadata">> ->
              IF sent.from = "stream" THEN "METADATA_PARTIAL" ELSE "METADATA_GLOBAL"
         [] name[1] = "metadata.partial" -> "METADATA_PARTIAL"
         [] name = Tablespace -> "SCHEMA_TABLESPACE"
         [] name = <<"resume">> -> "RESUME"
         [] OTHER -> IF matches = {} THEN "IGNORED" ELSE SuffixTypes[Min(matches)][1]

\* The names that end the process.
Refused(name) == name = <<"resume.partial">> \/ (name = <<"resume">> /\ sent.from # "resume")

-----------------------------------------------------------------------------
(* myloader: filters *)

eval_table(database, table) == sent.tables = {} \/ <<database, table>> \in sent.tables

get_database_table_from_filename_for_filter(name) ==
    LET order == <<2, 3, 4, 5, 1>>   \* into SuffixTypes
        matches == {i \in DOMAIN order : m_filename_has_suffix(name, SuffixTypes[order[i]][2])}
        suffix == SuffixTypes[order[Min(matches)]][2]
    IN CASE matches # {} ->
              get_database_table_from_file(name, SubSeq(suffix, 1, Len(suffix) - 2))
         [] matches = {} /\ (m_filename_has_suffix(name, Sql) \/ m_filename_has_suffix(name, Dat)) ->
              get_database_table_part_name_from_filename(name)
         [] OTHER -> Unknown

should_queue_filename(name) ==
    LET found == get_database_table_from_filename_for_filter(name)
    IN /\ name # <<"metadata">>
       /\ \/ name = Tablespace \/ sent.tables = {}
          \/ found.table = NoName
          \/ eval_table(found.database, found.table)

-----------------------------------------------------------------------------
(* process_directory and process_filename_worker *)

Running == at # "crashed"

\* The metadata first, then the directory, or the names in the resume file.
ReadDirectory ==
    /\ at = "directory"
    /\ listing # {}
    /\ \E name \in listing :
         /\ <<"metadata">> \in listing => name = <<"metadata">>
         /\ pushed' = IF \/ name = <<"metadata">> \/ sent.from = "resume"
                         \/ should_queue_filename(name)
                      THEN Append(pushed, name) ELSE pushed
         /\ listing' = listing \ {name}
    /\ UNCHANGED <<sent, stdin, buffer, buffer_len, diff, pos, filename, file, total_size,
                   file_size_from_stream, written, at, taken, reader, types, worker, registry,
                   first_metadata_processed, partial_metadata_queue, restored>>

\* The directory is read: process_filename_queue_end sends END to the readers.
DirectoryEnds ==
    /\ at = "directory"
    /\ listing = {}
    /\ at' = "ended"
    /\ UNCHANGED <<sent, stdin, buffer, buffer_len, diff, pos, filename, file, total_size,
                   file_size_from_stream, written, pushed, inputVars>>

Item(i, type) == [name |-> IF i = 0 THEN NoName ELSE pushed[i], type |-> type, place |-> i]
EndItem == Item(0, "FILENAME_ENDED")
Waits(pool) == Cardinality(pool.holds) < pool.threads

\* g_async_queue_push_sorted: behind the files of the same type.
file_type_push(item) ==
    LET before == {i \in DOMAIN types : Rank[types[i].type] <= Rank[item.type]}
    IN types' = InsertAt(types, Cardinality(before) + 1, item)

\* process_filename_worker pops a name, and pushes it with its type.
PopFilename ==
    /\ Running
    /\ Waits(reader)
    /\ taken < Len(pushed)
    /\ reader' = [reader EXCEPT !.holds = @ \cup {taken + 1}]
    /\ taken' = taken + 1
    /\ UNCHANGED <<vars, listing, types, worker, registry, first_metadata_processed,
                   partial_metadata_queue, restored>>

PushType ==
    /\ Running
    /\ \E i \in reader.holds : \E item \in {Item(i, get_file_type(pushed[i]))} :
         /\ IF Refused(pushed[i]) THEN at' = "crashed" /\ UNCHANGED types
            ELSE file_type_push(item) /\ UNCHANGED at
         /\ reader' = [reader EXCEPT !.holds = @ \ {i}]
    /\ UNCHANGED <<sent, stdin, buffer, buffer_len, diff, pos, filename, file, total_size,
                   file_size_from_stream, written, pushed, listing, taken, worker, registry,
                   first_metadata_processed, partial_metadata_queue, restored>>

\* END: when the last reader has gone process_filename_queue_end sends
\* FILENAME_ENDED.
ReaderEnds ==
    /\ at = "ended" /\ taken = Len(pushed)
    /\ Waits(reader)
    /\ reader' = [reader EXCEPT !.threads = @ - 1]
    /\ IF reader.threads = 1 THEN file_type_push(EndItem) ELSE UNCHANGED types
    /\ UNCHANGED <<vars, listing, taken, worker, registry, first_metadata_processed,
                   partial_metadata_queue, restored>>

-----------------------------------------------------------------------------
(* The databases and tables of myloader.  A database has two keys when its *)
(* name in files is a masked one.                                          *)

\* get_database(k, v); it compares pointers, which differ for masked names.
get_database(reg, k, v) ==
    IF k \in DOMAIN reg.database_hash
    THEN IF k = v THEN reg
         ELSE [reg EXCEPT !.source_database[reg.database_hash[k]] = v]
    ELSE [reg EXCEPT !.database_hash = (v :> k) @@ (k :> k) @@ @,
                     !.source_database = (k :> v) @@ @]
SourceDatabase(reg, k) == reg.source_database[reg.database_hash[k]]

\* append_new_db_table: source_table_name is set once.
Key(reg, k, table) == <<reg.database_hash[k], table>>
append_new_db_table(reg, k, table, source) ==
    LET key == Key(reg, k, table)
    IN IF key \notin DOMAIN reg.source_table_name
       THEN [reg EXCEPT !.source_table_name = (key :> source) @@ @]
       ELSE IF reg.source_table_name[key] = NoName
            THEN [reg EXCEPT !.source_table_name[key] = source] ELSE reg

\* parse_create_table_from_file: the name in the CREATE TABLE statement.
CreateTableName(reg, k, table, created) ==
    LET key == Key(reg, k, table)
    IN IF table[1] = "mydumper_" \/ reg.source_table_name[key] = NoName
       THEN [reg EXCEPT !.source_table_name[key] = created] ELSE reg

-----------------------------------------------------------------------------
(* process_file_type_worker *)

TakeFile ==
    /\ Running
    /\ Waits(worker)
    /\ types # <<>>
    /\ worker' = [worker EXCEPT !.holds = @ \cup {Head(types)}]
    /\ types' = Tail(types)
    /\ UNCHANGED <<vars, listing, taken, reader, registry, first_metadata_processed,
                   partial_metadata_queue, restored>>


\* FILENAME_ENDED goes back into the queue for the other workers.
PassOn(rest) == Append(rest, EndItem)

WorkerEnds ==
    /\ Running
    /\ EndItem \in worker.holds
    /\ worker' = [holds |-> worker.holds \ {EndItem}, threads |-> worker.threads - 1]
    /\ types' = PassOn(types)
    /\ UNCHANGED <<vars, listing, taken, reader, registry, first_metadata_processed,
                   partial_metadata_queue, restored>>

Handling(item, handled) ==
    /\ Running
    /\ item.type \in handled
    /\ worker' = [worker EXCEPT !.holds = @ \ {item}]
    /\ UNCHANGED <<sent, stdin, buffer, buffer_len, diff, pos, filename, file, total_size,
                   file_size_from_stream, written, pushed, listing, taken, reader, types>>

\* The groups of metadata files: a database, or a table with its real name,
\* each as in get_database and append_new_db_table.
WithMetadata(reg, names) ==
    LET groups == UNION {sent.metadata[n] : n \in names}
        new == {g.database : g \in groups} \ DOMAIN reg.database_hash
        known == [reg EXCEPT !.database_hash = @ @@ [k \in new |-> k],
                             !.source_database = @ @@ [k \in new |-> k]]
        tables == {g \in groups : g.table # NoName
                                  /\ eval_table(SourceDatabase(known, g.database), g.real)}
        named == {key \in DOMAIN reg.source_table_name : reg.source_table_name[key] # NoName}
    IN [known EXCEPT !.source_table_name =
          [key \in named |-> @[key]]
            @@ [key \in {Key(known, g.database, g.table) : g \in tables} |->
                  (CHOOSE g \in tables : Key(known, g.database, g.table) = key).real] @@ @]

\* process_metadata_global_filename: partial files wait for the global one,
\* which then takes them all, one from within the other.
process_metadata(item) ==
    LET name == item.name
        is_global == item.type = "METADATA_GLOBAL"
    IN /\ Handling(item, {"METADATA_GLOBAL", "METADATA_PARTIAL"})
       /\ IF is_global \/ first_metadata_processed
          THEN /\ registry' = [WithMetadata(registry, {item.name} \cup Range(partial_metadata_queue))
                                 EXCEPT !.quote = IF is_global THEN sent.quote ELSE @]
               /\ partial_metadata_queue' = <<>>
          ELSE /\ partial_metadata_queue' = Append(partial_metadata_queue, name)
               /\ UNCHANGED registry
       /\ first_metadata_processed' = (first_metadata_processed \/ is_global)
       /\ UNCHANGED <<at, restored>>

\* A file is taken for an object, filtered out, or ends the process.
Registered(item, reg, split) ==
    /\ registry' = reg
    /\ restored' = restored \cup
         {[name |-> item.name, type |-> item.type,
           database |-> reg.database_hash[split.database], table |-> split.table,
           part |-> split.part, sub_part |-> split.sub_part]}
    /\ UNCHANGED <<at, first_metadata_processed, partial_metadata_queue>>
FilteredOut(reg) ==
    /\ registry' = reg
    /\ UNCHANGED <<at, restored, first_metadata_processed, partial_metadata_queue>>
Crash ==
    /\ at' = "crashed"
    /\ UNCHANGED <<registry, restored, first_metadata_processed, partial_metadata_queue>>

\* The name of a masked database is read from the statement in the file.
process_database_filename(item) ==
    /\ Handling(item, {"SCHEMA_CREATE"})
    /\ \E split \in {get_database_name_from_filename(item.name)} :
       \E v \in {IF split.database # <<>> /\ split.database[1] = "mydumper_"
                 THEN sent.objects[item.name].database ELSE split.database} :
       \E found \in {get_database(registry, split.database, v)} :
         Registered(item, found, split)

\* A schema file is parsed for the name of its table, by itself or with the
\* first data file of a table not seen before, if it is there by then.
SchemaFile(database, table) == database \o <<".">> \o table \o <<"-schema">> \o Sql
OnDisk(name) == name \in IF sent.from = "stream" THEN DOMAIN written \cup sent.present
                         ELSE DOMAIN sent.objects
Parses(item, split, found, added) ==
    \/ item.type = "SCHEMA_TABLE"
    \/ /\ item.type = "DATA" /\ added # found
       /\ LET target == newline_unprotect(SourceDatabase(found, split.database))
          IN OnDisk(SchemaFile(target, split.table))

\* The files of tables: find the database, apply the filter, add the table.
TableFile(item, split) ==
    \E found \in {get_database(registry, split.database, split.database)} :
    \E added \in {append_new_db_table(found, split.database, split.table, NoName)} :
      LET schema_filename == IF item.type = "SCHEMA_TABLE" THEN item.name
                             ELSE SchemaFile(split.database, split.table)
      IN IF ~eval_table(SourceDatabase(found, split.database), split.table)
         THEN FilteredOut(found)
         ELSE IF ~Parses(item, split, found, added) THEN Registered(item, added, split)
         ELSE IF registry.quote # sent.quote THEN Crash
         ELSE \E named \in {CreateTableName(added, split.database, split.table,
                                            sent.objects[schema_filename].table)} :
                Registered(item, named, split)

process_table_filename(item) ==
    /\ Handling(item, {"SCHEMA_TABLE"})
    /\ \E split \in {get_database_table_name_from_filename(item.name)} :
         IF split = Unknown THEN Crash ELSE TableFile(item, split)

process_data_filename(item) ==
    /\ Handling(item, {"DATA"})
    /\ \E split \in {get_database_table_part_name_from_filename(item.name)} :
         IF split = Unknown THEN Crash ELSE TableFile(item, split)

\* Sequences and views need a table; triggers and the post file of a
\* database have none.
process_schema_object(item) ==
    /\ Handling(item, {"SCHEMA_SEQUENCE", "SCHEMA_VIEW", "SCHEMA_TRIGGER", "SCHEMA_POST"})
    /\ \E split \in {get_database_table_from_file(item.name,
                       IF item.type = "SCHEMA_SEQUENCE" THEN <<"-schema", "-sequence">>
                       ELSE <<"-schema">>)} :
         IF split = Unknown
            \/ (split.table = NoName /\ item.type \in {"SCHEMA_SEQUENCE", "SCHEMA_VIEW"})
         THEN Crash
         ELSE IF split.table = NoName
              THEN \E found \in {get_database(registry, split.database, split.database)} :
                     Registered(item, found, split)
         ELSE TableFile(item, split)

\* Data files of LOAD DATA are only waited for (RestoreConnections).
IgnoreFile(item) ==
    /\ Handling(item, {"RESUME", "SCHEMA_TABLESPACE", "LOAD_DATA", "IGNORED"})
    /\ UNCHANGED <<at, registry, restored, first_metadata_processed, partial_metadata_queue>>

-----------------------------------------------------------------------------
InputInit ==
    /\ Init
    /\ listing = DOMAIN sent.objects
    /\ taken = 0
    /\ reader = [holds |-> {}, threads |-> IF sent.from = "stream" THEN 1
                                           ELSE process_filename_num_threads]
    /\ types = <<>>
    /\ worker = [holds |-> {}, threads |-> process_file_type_num_threads]
    /\ registry = [database_hash |-> <<>>, source_database |-> <<>>,
                   source_table_name |-> <<>>, quote |-> "BACKTICK"]
    /\ first_metadata_processed = FALSE
    /\ partial_metadata_queue = <<>>
    /\ restored = {}

Parse == Next /\ UNCHANGED inputVars

InputNext ==
    \/ Parse \/ DirectoryEnds \/ PopFilename \/ TakeFile \/ WorkerEnds \/ ReaderEnds
    \/ ReadDirectory \/ PushType
    \/ \E item \in worker.holds :
         \/ process_metadata(item) \/ process_database_filename(item)
         \/ process_table_filename(item) \/ process_data_filename(item) \/ process_schema_object(item)
         \/ IgnoreFile(item)

InputSpec == InputInit /\ [][InputNext]_<<vars, inputVars>>
                       /\ WF_<<vars, inputVars>>(InputNext)

-----------------------------------------------------------------------------
(* Properties *)

AllRead == worker.threads = 0

\* Names that do not survive the way, see the README: "-schema" inside of a
\* name, a filter with a masked name, a compressed tablespace file, and a
\* masked database without its schema file (mydumper --no-schemas).
Masked(name) == name \in DOMAIN sent.ref /\ sent.ref[name][1] = "mydumper_"
Survives(o) ==
    /\ o.type \in Range(FileTypes) \ {"METADATA_GLOBAL", "METADATA_PARTIAL", "IGNORED"}
    /\ "-schema" \notin Range(o.database) \cup Range(o.table)
    /\ sent.tables # {} => ~Masked(o.database) /\ ~Masked(o.table)
    /\ o.type = "SCHEMA_TABLESPACE" => o.extension = <<>>
    /\ Masked(o.database) => \E c \in Range(sent.objects) :
                               c.type = "SCHEMA_CREATE" /\ c.database = o.database
Wanted(o) == o.table = NoName \/ eval_table(o.database, o.table)

\* The object that a file was taken for.
Same(r, o) ==
    /\ r.type = o.type
    /\ newline_unprotect(registry.source_database[r.database]) = o.database
    /\ r.part = o.part /\ r.sub_part = o.sub_part
    /\ IF o.table = NoName THEN r.table = NoName
       ELSE LET key == <<r.database, r.table>>
            IN IF key \in DOMAIN registry.source_table_name
                  /\ registry.source_table_name[key] # NoName
               THEN registry.source_table_name[key] = o.table
               ELSE newline_unprotect(r.table) = o.table

\* When all files are read, each of them was taken for the object that
\* mydumper wrote into it - its type, its database and table by their real
\* names, its part - if the filter wants that object, and for nothing else.
\* The names may be masked, end in a new line or look like each other, the
\* files come in any order, and the metadata before or after them.
NamesRestored ==
    AllRead /\ sent.cut = 0 /\ ~(sent.from = "stream" /\ (Overlong \/ Ambiguous \/ Spaced)) =>
      \A name \in DOMAIN sent.objects :
        LET o == sent.objects[name]
            taken_for == {r \in restored : r.name = name}
        IN Survives(o) =>
             IF Wanted(o) /\ o.type \notin {"SCHEMA_TABLESPACE", "LOAD_DATA"}
             THEN \/ Cardinality(taken_for) = 1 /\ \A r \in taken_for : Same(r, o)
                  \/ o.type = "SCHEMA_CREATE" /\ sent.tables # {} /\ taken_for = {}
             ELSE taken_for = {}

\* The quote character is not known yet: the metadata is the first name in
\* the queue (myloader_directory.c:74), but one worker may still read it when
\* another one parses a CREATE TABLE, and g_error ends the process
\* (myloader_process.c:264).
QuoteUnread == ~first_metadata_processed /\ registry.quote # sent.quote

\* myloader reads the stream to its end and pushes each file once, in the
\* order sent, except those that were there before.  --no-stream ends the
\* process when a file is not there.
Delivered ==
    <>(IF at \notin {"ended", "crashed"} THEN sent.from # "stream"
       ELSE \/ sent.from # "stream" \/ Overlong \/ Ambiguous \/ Spaced
            \/ no_stream /\ at = "crashed" /\ ~(Range(Names) \subseteq sent.present)
            \/ at = "crashed" /\ QuoteUnread
            \/ /\ at = "ended"
               /\ stdin = <<>>
               /\ sent.cut = 0 =>
                    SelectSeq(pushed, LAMBDA n : n \notin sent.present \/ no_stream)
                      = SelectSeq(Names, LAMBDA n : n \notin sent.present \/ no_stream))

=============================================================================
