----------------------------- MODULE TaskRecord -----------------------------
(***************************************************************************)
(* TaskRecord (orchestrator/state_machine.py): the lifecycle of one task,  *)
(* as operators on the status held in memory and the status last stored in *)
(* the database.  transition moves the first before it awaits the write of *)
(* the second, so a failed write leaves the two apart.                     *)
(***************************************************************************)

TaskStatus == {"received", "profiled", "routed", "running", "evaluating",
               "completed", "failed", "retrying", "abandoned"}

Transitions ==
  [s \in TaskStatus |->
     CASE s = "received"   -> {"profiled", "abandoned"}
       [] s = "profiled"   -> {"routed", "abandoned"}
       [] s = "routed"     -> {"running", "abandoned", "failed"}
       [] s = "running"    -> {"evaluating", "failed"}
       [] s = "evaluating" -> {"completed", "failed"}
       [] s = "failed"     -> {"retrying", "abandoned"}
       [] s = "retrying"   -> {"routed", "abandoned", "failed"}
       [] OTHER            -> {}]

Records == [status : TaskStatus, stored : TaskStatus]

Legal(record, to) == to \in Transitions[record.status]

\* The write raised: the status in memory has already moved.
HalfTransitioned(record, to) == [status |-> to, stored |-> record.stored]

\* The write succeeded.
Transitioned(record, to) == [status |-> to, stored |-> to]

=============================================================================
