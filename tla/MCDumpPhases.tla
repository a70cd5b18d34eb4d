---------------------------- MODULE MCDumpPhases ----------------------------
(* An instance of DumpPhases: one database with a table of each engine and *)
(* one with a view.                                                        *)
EXTENDS DumpPhases

CONSTANTS d1, d2, t1, t2, v1

MCDatabaseOf == (t1 :> d1) @@ (t2 :> d1) @@ (v1 :> d2)
MCKindOf == (t1 :> "innodb") @@ (t2 :> "myisam") @@ (v1 :> "view")
=============================================================================
