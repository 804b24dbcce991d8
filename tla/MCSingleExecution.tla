------------------------- MODULE MCSingleExecution -------------------------
(* Up to three attempts on two calls, the second of which needs approval. *)
EXTENDS SingleExecution
=============================================================================
