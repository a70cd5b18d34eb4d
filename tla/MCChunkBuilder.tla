--------------------------- MODULE MCChunkBuilder ---------------------------
(***************************************************************************)
(* ChunkBuilder with and without --use-defer, and with limits below and at *)
(* the number of workers.                                                  *)
(***************************************************************************)
EXTENDS ChunkBuilder

MCOptions == {[max_threads_per_table |-> 1, use_defer |-> FALSE],
              [max_threads_per_table |-> 2, use_defer |-> TRUE]}
=============================================================================
