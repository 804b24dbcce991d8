-------------------------- MODULE MCHermesGateway --------------------------
(* One run, named either way; or two runs that share the connection. *)
EXTENDS HermesGateway

AllClients ==
  {[runs |-> {1}, native |-> {}, streamed |-> {1}, cancelled |-> {1},
    disconnects |-> FALSE, noise |-> 1],
   [runs |-> {1}, native |-> {1}, streamed |-> {1}, cancelled |-> {},
    disconnects |-> TRUE, noise |-> 0],
   [runs |-> {1, 2}, native |-> {}, streamed |-> {}, cancelled |-> {},
    disconnects |-> FALSE, noise |-> 0]}
=============================================================================
