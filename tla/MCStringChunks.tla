--------------------------- MODULE MCStringChunks ---------------------------
(* A table of six two-character keys for StringChunks.  There are three    *)
(* first characters, and the last of them is split further: four chunks,   *)
(* one more than part numbers of three bits can tell apart.                *)
EXTENDS StringChunks

MCRows == {<<1, 1>>, <<1, 2>>, <<1, 3>>, <<2, 2>>, <<3, 1>>, <<3, 3>>}
=============================================================================
