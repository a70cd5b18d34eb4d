---------------------------- MODULE MCLoaderInput ----------------------------
(* Streams and backups for LoaderInput. *)
EXTENDS LoaderInput

File(name, data) == [name |-> name, data |-> data]
Nothing == <<>>
Sending(files) ==
    [files |-> files, present |-> {}, no_stream |-> FALSE, cut |-> 0, from |-> "stream",
     objects |-> Nothing, metadata |-> Nothing, tables |-> {}, quote |-> "BACKTICK",
     ref |-> Nothing]

\* Contents of up to three pieces: text, binary, new lines, whole tags and
\* halves of them.
Pieces == {<<"x">>, <<NUL>>, <<NL>>, Tag, <<NL, "-">>, <<"-", " ">>}
Contents == {<<>>} \cup Pieces \cup {p \o q : p, q \in Pieces}
            \cup {p \o q \o r : p, q, r \in Pieces}

A == <<"a">>
B == <<"b">>
Pairs == {Sending(<<File(A, data), File(B, next)>>) :
            data \in Contents, next \in {<<>>, <<NL, "x">>}}

Sample == Sending(<<File(A, <<"x", NL>> \o Tag \o <<"x">>), File(B, <<NL, "x", NL>>)>>)
Broken == {[Sample EXCEPT !.cut = n] : n \in 0 .. Len(Text(Sample))}
Present == {[Sending(<<File(A, data), File(B, <<"x">>)>>) EXCEPT !.present = there] :
              data \in {<<NL, "x">>, <<"x">> \o Tag}, there \in {{A}, {B}, {A, B}}}
Long == <<"l", "o", "n", "g">>
NamesOnly == {[Sending(<<File(A, <<>>), File(Long, <<>>), File(B, <<>>)>>)
                 EXCEPT !.no_stream = TRUE, !.present = there] :
                there \in {{A, Long, B}, {A, B}}}

-----------------------------------------------------------------------------
Object(type, database, table) ==
    [type |-> type, database |-> database, table |-> table, part |-> 0, sub_part |-> 0,
     extension |-> <<>>]
Chunk(database, table, part, sub_part) ==
    [Object("DATA", database, table) EXCEPT !.part = part, !.sub_part = sub_part]

\* A backup of objects: their files, and a metadata file with their tables
\* (in a stream: metadata.header, the rest in metadata.partial.0).
Backup(objects, from, masquerade, extension) ==
    LET names == [i \in 1 .. 2 * Len(objects) |->
                    IF i % 2 = 1 THEN objects[(i + 1) \div 2].database
                    ELSE objects[i \div 2].table]
        ref == get_ref_table(SelectSeq(names, LAMBDA n : n # NoName), masquerade)
        Extended(o) == [o EXCEPT !.extension = extension]
        named == [i \in DOMAIN objects |-> BuildFilename(ref, Extended(objects[i]))]
        groups == {[database |-> ref[o.database],
                    table |-> IF o.table = NoName THEN NoName ELSE ref[o.table],
                    real |-> o.table] : o \in Range(objects)}
        header == IF from = "stream" THEN <<"metadata.header">> ELSE <<"metadata">>
        partial == <<"metadata.partial", ".", "0">>
        Meta(type) == Object(type, <<"none">>, NoName)
    IN [Sending(<<File(header, <<>>)>>
                \o [i \in DOMAIN named |-> File(named[i], <<>>)]
                \o (IF from = "stream" THEN <<File(partial, <<>>)>> ELSE <<>>))
          EXCEPT !.from = from, !.ref = ref,
                 !.objects = (header :> Meta("METADATA_GLOBAL"))
                   @@ (IF from = "stream" THEN partial :> Meta("METADATA_PARTIAL") ELSE Nothing)
                   @@ [n \in Range(named) |->
                         Extended(objects[CHOOSE i \in DOMAIN named : named[i] = n])],
                 !.metadata = IF from = "stream" THEN (header :> {}) @@ (partial :> groups)
                              ELSE header :> groups]

D == <<"d">>
T == <<"t">>
Odd == <<"d", ".", "x">>       \* masked: it has a dot
Mine == <<"mydumper_", "0">>   \* masked: it looks masked
Line == <<"t", NL>>
Dash == <<"d", "-schema">>

\* A table with its schema and parts; the other objects of a database.
TableOf(d, t) == <<Object("SCHEMA_CREATE", d, NoName), Object("SCHEMA_TABLE", d, t),
                   Chunk(d, t, 1, 2)>>
Rest(d, t) == <<Object("SCHEMA_VIEW", d, t), Object("SCHEMA_TRIGGER", d, t),
                Object("SCHEMA_POST", d, NoName)>>
Sequence(d, t) == <<Object("SCHEMA_SEQUENCE", d, t), Object("SCHEMA_CREATE", d, NoName)>>
Loads(d, t) == <<Chunk(d, t, 0, 0), Object("LOAD_DATA", d, t),
                 Object("SCHEMA_TABLESPACE", d, NoName)>>

Gz == <<".", "gz">>
Zst == <<".", "zst">>
Listed ==
    {Backup(TableOf(D, T), "directory", FALSE, Gz), Backup(TableOf(Odd, Mine), "directory", FALSE, <<>>),
     Backup(TableOf(Odd, Line), "directory", FALSE, Zst), Backup(TableOf(D, Line), "directory", TRUE, <<>>),
     Backup(TableOf(Dash, T), "directory", FALSE, <<>>), Backup(TableOf(D, T), "resume", FALSE, <<>>),
     Backup(Rest(D, T), "directory", FALSE, Zst), Backup(Rest(Odd, Line), "directory", FALSE, <<>>),
     Backup(Rest(Odd, T) \o <<Object("SCHEMA_CREATE", Odd, NoName)>>, "directory", FALSE, <<>>),
     Backup(Rest(Dash, T), "directory", FALSE, <<>>), Backup(Sequence(D, Mine), "directory", FALSE, Gz),
     Backup(Loads(D, T), "directory", FALSE, <<>>), Backup(Loads(D, T), "directory", FALSE, Gz),
     [Backup(TableOf(D, T), "directory", FALSE, <<>>) EXCEPT !.quote = "DOUBLE_QUOTE"],
     [Backup(<<Object("SCHEMA_CREATE", D, NoName), Chunk(D, T, 1, 2), Chunk(D, D, 0, 0)>>,
             "directory", FALSE, <<>>) EXCEPT !.tables = {<<D, T>>}]}
Streamed ==
    {Backup(o, "stream", FALSE, <<>>) :
       o \in {TableOf(D, T), TableOf(Odd, Mine), Rest(D, Line), Sequence(Odd, T),
              <<Chunk(D, <<"t", " ", "u">>, 0, 0)>>}}
    \cup {[Backup(TableOf(D, T) \o <<Chunk(D, D, 0, 0)>>, "stream", FALSE, <<>>)
             EXCEPT !.tables = {<<D, T>>}],
          [Backup(<<Object("SCHEMA_TABLE", D, T)>>, "stream", FALSE, <<>>)
             EXCEPT !.quote = "DOUBLE_QUOTE"]}
Stray == {[Backup(TableOf(D, T), "directory", FALSE, <<>>)
             EXCEPT !.objects = (<<"resume.partial">> :> Object("IGNORED", <<"none">>, NoName)) @@ @]}

MCStreams == Pairs \cup Broken \cup Present \cup NamesOnly \cup Listed \cup Streamed \cup Stray
=============================================================================
