---------------------------- MODULE MCCodexExec ----------------------------
(* One run that writes at most two events and has one descendant. *)
EXTENDS CodexExec
=============================================================================
