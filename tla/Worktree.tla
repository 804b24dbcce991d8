------------------------------ MODULE Worktree ------------------------------
(***************************************************************************)
(* The life of one agent worktree (orchestrator/workspace.py), as          *)
(* operators on its state.  Removing a worktree tries every removal,       *)
(* checks what is left and raises if anything is; it may be tried again.   *)
(***************************************************************************)

\* "stuck": removal raised and the directory is still there; "removed": it
\* raised after the directory was gone (the branch deletion failed).
TreeStates == {"none", "active", "stuck", "removed", "cleaned"}

Gone == {"removed", "cleaned"}

\* Mutation: an active worktree is taken to be in use.
CleanSkipsActive(state) == {state}

\* What clean, rollback or cleanup may make of a worktree; anything but
\* "cleaned" is an exception.
CleanResults(state) ==
  CASE state = "none"    -> {"none"}
    [] state = "cleaned" -> {"cleaned"}
    [] state = "removed" -> {"removed", "cleaned"}
    [] OTHER             -> {"stuck", "removed", "cleaned"}
=============================================================================
