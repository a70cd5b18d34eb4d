------------------------------ MODULE MCLoader ------------------------------
(***************************************************************************)
(* A dump for TLC: one database; t1 has a schema file, indexes and two     *)
(* data files, only the data of t2 was dumped, s1 is a sequence.           *)
(***************************************************************************)
EXTENDS Loader

CONSTANTS t1, t2, s1

MCDbOf == [t \in Tables |-> "d"]
MCParts == [t \in Tables |-> IF t = t1 THEN 2 ELSE IF t = t2 THEN 1 ELSE 0]
Mode(purge, target, all, tables, existing) ==
    [purge_mode |-> purge, target_db |-> target, all_tables |-> all,
     tables |-> tables, existing |-> existing]
MCModes == {Mode("DROP", TRUE, FALSE, {t1, t2}, {t1, t2}), Mode("DROP", FALSE, TRUE, {t1, t2}, {t2}),
            Mode("SKIP", TRUE, FALSE, {t1, t2}, {t1, t2}), Mode("TRUNCATE", FALSE, FALSE, {t1, s1}, {t1}),
            Mode("TRUNCATE", TRUE, FALSE, {t1}, {}), Mode("FAIL", TRUE, FALSE, {t1}, {t1}),
            Mode("NONE", TRUE, FALSE, {t2}, {})}
\* --drop-table=TRUNCATE of a table the server does not have.
TruncateMode == {Mode("TRUNCATE", TRUE, FALSE, {t1}, {})}
\* --drop-table into databases that are created first.
DropMode == {Mode("DROP", FALSE, FALSE, {t1}, {})}
MCOrder == SelectSeq(<<t1, s1, t2>>, LAMBDA t : t \in Tables)
=============================================================================
