------------------------ MODULE MCRestoreConnections ------------------------
(* Small instances of RestoreConnections: one file of INSERTs, one with a LOAD
   DATA statement, and one string. *)
EXTENDS RestoreConnections, TLC

CONSTANTS Data, Load, Schema

Scripts == (Data :> <<"INSERT", "INSERT">>) @@ (Load :> <<"LOAD">>)
           @@ (Schema :> <<"DELETE", "COMMIT">>)
=============================================================================
