-------------------------- MODULE MCCodexAppServer --------------------------
(* One run used in every way, with noise; or two runs, one after the other. *)
EXTENDS CodexAppServer

AllClients ==
  {[runs |-> 1, streamed |-> {1}, cancelled |-> {1}, noise |-> 1],
   [runs |-> 2, streamed |-> {}, cancelled |-> {}, noise |-> 0]}
=============================================================================
