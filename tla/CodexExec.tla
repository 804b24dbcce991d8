----------------------------- MODULE CodexExec -----------------------------
(***************************************************************************)
(* One run of CodexExecAdapter (adapters/codex/exec.py): a process tree in *)
(* a Windows job object, the supervisor task that reads its output and     *)
(* records the result, and the coroutines that call events, wait, cancel   *)
(* and quiesce beside it.  Runs share nothing but the version check.       *)
(*                                                                         *)
(* A step ends at an await.  The processes are external: they write, spawn *)
(* and exit as they like, and die once the job is terminated - unless the  *)
(* system refuses or is too slow, which each kill may find.                *)
(***************************************************************************)
EXTENDS Naturals, Sequences

CONSTANTS Natives,       \* kinds of native events a run writes
          MaxEvents      \* bound: native events one run writes

AllNatives == {"message", "native_error", "reroute", "turn.completed", "turn.failed", "garbage"}

ASSUME ExecAssumption == Natives \subseteq AllNatives /\ MaxEvents \in Nat

VARIABLES
  submitting,   \* await submit is suspended in, or its outcome
  supervisor,   \* await of _supervise, or how the task ended
  status,       \* status _supervise has chosen
  raising,      \* is an exception leaving _supervise's handler?
  result,       \* state.result
  cancelled,    \* state.cancel_requested
  observed,     \* state.terminal_event_observed
  rerouted,     \* state.rerouted
  events,       \* state.events, the log
  stream,       \* consumer of events: where it is and how far it has read
  waiter,       \* a call of wait
  canceller,    \* a call of cancel
  quiescer,     \* a call of quiesce
  cleanupFailed,\* state.cleanup_error or job_cleanup_error is set
  alive,        \* processes of the job that run
  exitCode,     \* exit code of the root process
  reaped,       \* has process.wait() returned?
  dying,        \* was the job terminated?
  closed,       \* is the job handle closed?
  stdout,       \* native events written and not read
  eof           \* is the output closed by the tree?

callers == <<stream, waiter, canceller, quiescer>>
record == <<result, cancelled, observed, rerouted, events>>
job == <<alive, exitCode, dying, closed>>
pipe == <<stdout, eof>>
task == <<supervisor, status, raising>>
vars == <<submitting, task, record, callers, cleanupFailed, job, reaped, pipe>>

Statuses == {"completed", "failed", "cancelled", "timeout"}
Logged == {"progress", "error", "completed"}
TerminalEvents == {"completed", "error"}

Init ==
  /\ submitting = "preflight" /\ supervisor = "none"
  /\ status = "failed" /\ raising = FALSE
  /\ result = "none" /\ cancelled = FALSE /\ observed = "none" /\ rerouted = FALSE
  /\ events = <<>>
  /\ stream = [at |-> "idle", index |-> 0]
  /\ waiter = "idle" /\ canceller = "idle" /\ quiescer = "idle"
  /\ cleanupFailed = FALSE
  /\ alive = {} /\ exitCode = "none" /\ reaped = FALSE
  /\ dying = FALSE /\ closed = FALSE
  /\ stdout = <<>> /\ eof = FALSE

-----------------------------------------------------------------------------
(* JobProcess. *)

\* Mutation: the root's exit is taken for the end of the job.
QuiescentByRoot == "root" \notin alive

\* active_processes() = 0.
Quiescent == alive = {}

\* terminate_job(): the system may refuse, which the kill then reports.
TerminateJob == dying' = TRUE \/ UNCHANGED dying

\* close(): the last handle, so the system ends what is left (KILL_ON_JOB_CLOSE),
\* in its own time.
CloseJob == closed' = TRUE /\ UNCHANGED <<alive, exitCode>>

-----------------------------------------------------------------------------
(* submit. *)

Begun == UNCHANGED <<task, record, callers, cleanupFailed, reaped, pipe>>

\* The installed Codex is asked for its version, in a job of its own.
Preflight ==
  /\ submitting = "preflight"
  /\ submitting' \in {"creating", "refused"}
  /\ Begun /\ UNCHANGED job

\* create_process_in_job, to CreateProcessW: the root is born suspended in a
\* job that cannot be left and that ends with its last handle.
CreateSuspended ==
  /\ submitting = "creating"
  /\ submitting' = "suspended"
  /\ alive' = {"root"}
  /\ Begun /\ UNCHANGED <<exitCode, dying, closed>>

\* Its membership is proven, and only then does it run.
Resume ==
  /\ submitting = "suspended"
  /\ submitting' = "resumed"
  /\ Begun /\ UNCHANGED job

\* The handles and streams are owned by a JobProcess.
Own ==
  /\ submitting = "resumed"
  /\ submitting' = "writing"
  /\ Begun /\ UNCHANGED job

\* Any call of the creation fails: what was created is terminated and closed, and
\* not waited for.
CreationFails ==
  /\ submitting \in {"creating", "suspended", "resumed"}
  /\ submitting' = "refused"
  /\ TerminateJob
  /\ CloseJob
  /\ Begun

PromptWritten ==
  /\ submitting = "writing"
  /\ submitting' = "handed"
  /\ supervisor' = "reading"
  /\ UNCHANGED <<status, raising, record, callers, cleanupFailed, job, reaped, pipe>>

\* The prompt cannot be written in time: the tree is terminated.
PromptFails ==
  /\ submitting = "writing"
  /\ submitting' = "reaping"
  /\ TerminateJob
  /\ UNCHANGED <<task, record, callers, cleanupFailed, alive, exitCode, closed, reaped, pipe>>

\* The job is closed and the run forgotten, whether or not its trace is removed.
FailedRunReaped ==
  /\ submitting = "reaping"
  /\ Quiescent
  /\ submitting' = "refused"
  /\ reaped' = TRUE
  /\ CloseJob
  /\ cleanupFailed' \in BOOLEAN
  /\ UNCHANGED <<task, record, callers, dying, pipe>>

\* The kill itself raises: nothing is closed and the entry of the run stays.
FailedRunSurvives ==
  /\ submitting = "reaping"
  /\ submitting' = "abandoned"
  /\ UNCHANGED <<task, record, callers, cleanupFailed, job, reaped, pipe>>

Submit ==
  \/ Preflight \/ CreateSuspended \/ Resume \/ Own \/ CreationFails
  \/ PromptWritten \/ PromptFails \/ FailedRunReaped \/ FailedRunSurvives

-----------------------------------------------------------------------------
(* _supervise. *)

\* _emit: the event is logged and a consumer waiting for one is woken.
Emit(event) ==
  /\ events' = Append(events, event)
  /\ stream' = IF stream.at = "asleep" THEN [at |-> "reading", index |-> stream.index] ELSE stream

\* The exception handlers choose a status and terminate the tree.
Catch(otherwise) ==
  /\ status' = IF cancelled THEN "cancelled" ELSE otherwise
  /\ supervisor' = "killing"
  /\ TerminateJob
  /\ UNCHANGED <<raising, record, callers, submitting, cleanupFailed, alive, exitCode, closed>>

\* The finally clause, entered with or without an exception.
Finally(exception, reapedByNow) ==
  /\ raising' = exception
  /\ IF ~reapedByNow \/ ~Quiescent
       THEN supervisor' = "final_kill" /\ TerminateJob
       ELSE supervisor' = "stderr" /\ UNCHANGED dying

Kept == <<submitting, waiter, canceller, quiescer, cleanupFailed>>

\* _consume_stdout and _map_event: one event of the tree.
ReadEvent ==
  /\ supervisor = "reading"
  /\ stdout # <<>>
  /\ Head(stdout) # "garbage"
  /\ stdout' = Tail(stdout)
  /\ LET kind == Head(stdout) IN
       /\ rerouted' = (rerouted \/ kind = "reroute")
       /\ observed' = IF kind \in {"turn.completed", "turn.failed"} THEN kind ELSE observed
       /\ Emit(IF kind \in {"message", "turn.completed"} THEN "progress" ELSE "error")
  /\ UNCHANGED <<Kept, task, result, cancelled, job, reaped, eof>>

\* A line that is no event of the protocol.
ReadGarbage ==
  /\ supervisor = "reading"
  /\ stdout # <<>>
  /\ Head(stdout) = "garbage"
  /\ stdout' = Tail(stdout)
  /\ Catch("failed")
  /\ UNCHANGED <<reaped, eof>>

ReadEnd ==
  /\ supervisor = "reading"
  /\ stdout = <<>>
  /\ eof \/ Quiescent
  /\ supervisor' = "exiting"
  /\ UNCHANGED <<Kept, status, raising, record, stream, job, reaped, pipe>>

RootExited ==
  /\ supervisor = "exiting"
  /\ "root" \notin alive
  /\ reaped' = TRUE
  /\ supervisor' = "draining"
  /\ UNCHANGED <<Kept, status, raising, record, stream, job, pipe>>

\* One of the three deadlines of the try block.
DeadlineExpires ==
  /\ supervisor \in {"reading", "exiting", "draining"}
  /\ Catch("timeout")
  /\ UNCHANGED <<reaped, pipe>>

Verdict ==
  IF cancelled THEN "cancelled"
  ELSE IF ~rerouted /\ observed = "turn.completed" /\ exitCode = "zero" THEN "completed"
  ELSE "failed"

\* _wait_for_owned_tree returns: the whole tree is gone, not only its root.
TreeDrained ==
  /\ supervisor = "draining"
  /\ Quiescent
  /\ status' = Verdict
  /\ Finally(FALSE, reaped)
  /\ UNCHANGED <<Kept, record, stream, alive, exitCode, closed, reaped, pipe>>

KillConfirmed ==
  /\ supervisor = "killing"
  /\ Quiescent
  /\ reaped' = TRUE
  /\ Finally(FALSE, TRUE)
  /\ UNCHANGED <<Kept, status, record, stream, alive, exitCode, closed, pipe>>

\* The job is refused or outlives the grace period.
KillFails ==
  /\ supervisor = "killing"
  /\ Finally(TRUE, reaped)
  /\ UNCHANGED <<Kept, status, record, stream, alive, exitCode, closed, reaped, pipe>>

FinalKillConfirmed ==
  /\ supervisor = "final_kill"
  /\ Quiescent
  /\ reaped' = TRUE
  /\ supervisor' = "stderr"
  /\ UNCHANGED <<Kept, status, raising, record, stream, job, pipe>>

FinalKillFails ==
  /\ supervisor = "final_kill"
  /\ supervisor' = "dead"
  /\ UNCHANGED <<Kept, status, raising, record, stream, job, reaped, pipe>>

\* The exception in flight, or processes that still run, leave no result.
EndsWithoutResult ==
  /\ supervisor = "stderr"
  /\ raising \/ ~Quiescent
  /\ supervisor' = "dead"
  /\ UNCHANGED <<Kept, status, raising, record, stream, job, reaped, pipe>>

\* Mutation: the result is stored, and no last event is emitted.
RecordQuietly ==
  /\ supervisor = "stderr"
  /\ ~raising /\ Quiescent
  /\ supervisor' = "done"
  /\ result' = status
  /\ UNCHANGED <<Kept, status, raising, cancelled, observed, rerouted, events, stream,
                 job, reaped, pipe>>

\* The result, and its last event: no await between the two.
RecordResult ==
  /\ supervisor = "stderr"
  /\ ~raising /\ Quiescent
  /\ supervisor' = "done"
  /\ result' = status
  /\ Emit(IF status = "completed" THEN "completed" ELSE "error")
  /\ UNCHANGED <<Kept, status, raising, cancelled, observed, rerouted, job, reaped, pipe>>

Supervise ==
  \/ ReadEvent \/ ReadGarbage \/ ReadEnd \/ RootExited \/ DeadlineExpires \/ TreeDrained
  \/ KillConfirmed \/ KillFails \/ FinalKillConfirmed \/ FinalKillFails
  \/ EndsWithoutResult \/ RecordResult

-----------------------------------------------------------------------------
(* events. *)

StreamAt(place, index) == stream' = [at |-> place, index |-> index]

StreamStarts ==
  /\ submitting = "handed"
  /\ stream.at = "idle"
  /\ StreamAt("reading", 0)

\* The next event is yielded; at the end of the log the consumer leaves if
\* there is a result, and else sleeps until the next _emit.
StreamReads ==
  /\ stream.at = "reading"
  /\ IF stream.index < Len(events) THEN StreamAt("yielded", stream.index + 1)
     ELSE StreamAt(IF result # "none" THEN "ended" ELSE "asleep", stream.index)

\* The consumer asks for more.  An error event ends the stream only if the
\* run has its result by now.
StreamResumes ==
  /\ stream.at = "yielded"
  /\ StreamAt(IF events[stream.index] \in TerminalEvents /\ result # "none"
                THEN "ended" ELSE "reading",
              stream.index)

Stream ==
  /\ StreamStarts \/ StreamReads \/ StreamResumes
  /\ UNCHANGED <<submitting, task, record, waiter, canceller, quiescer, cleanupFailed,
                 job, reaped, pipe>>

-----------------------------------------------------------------------------
(* wait, cancel and quiesce. *)

Joined == supervisor \in {"done", "dead"}
Outcome == IF supervisor = "done" THEN "returned" ELSE "raised"

\* await state.supervisor
Wait ==
  /\ submitting = "handed"
  /\ \/ waiter = "idle" /\ waiter' = "joining"
     \/ waiter = "joining" /\ Joined /\ waiter' = Outcome
  /\ UNCHANGED <<submitting, task, record, stream, canceller, quiescer, cleanupFailed,
                 job, reaped, pipe>>

CallKept == <<submitting, task, stream, waiter, quiescer, cleanupFailed, pipe>>

CancelStarts ==
  /\ submitting = "handed"
  /\ canceller = "idle"
  /\ IF result # "none"
       THEN canceller' = "returned" /\ UNCHANGED <<cancelled, dying>>
       ELSE canceller' = "killing" /\ cancelled' = TRUE /\ TerminateJob
  /\ UNCHANGED <<CallKept, result, observed, rerouted, events, alive, exitCode, closed, reaped>>

\* Mutation: cancel records the result itself.
CancelRecords ==
  /\ canceller = "killing"
  /\ Quiescent /\ ~closed
  /\ reaped' = TRUE
  /\ canceller' = "joining"
  /\ result' = "cancelled"
  /\ UNCHANGED <<CallKept, cancelled, observed, rerouted, events, job>>

CancelConfirmed ==
  /\ canceller = "killing"
  /\ Quiescent /\ ~closed
  /\ reaped' = TRUE
  /\ canceller' = "joining"
  /\ UNCHANGED <<CallKept, record, job>>

\* The system refuses, the grace period ends, or quiesce has closed the job.
CancelKillFails ==
  /\ canceller = "killing"
  /\ canceller' = "raised"
  /\ UNCHANGED <<CallKept, record, job, reaped>>

CancelJoins ==
  /\ canceller = "joining"
  /\ Joined
  /\ canceller' = Outcome
  /\ UNCHANGED <<CallKept, record, job, reaped>>

Cancel == CancelStarts \/ CancelConfirmed \/ CancelKillFails \/ CancelJoins

\* Called once: a second call answers as the first one did.
QuiesceStarts ==
  /\ submitting = "handed"
  /\ quiescer = "idle"
  /\ quiescer' = "joining"
  /\ UNCHANGED <<cleanupFailed, job>>

\* No result, or a job that still runs: the run is not quiesced.
QuiesceRefused ==
  /\ quiescer = "joining"
  /\ Joined
  /\ supervisor = "dead" \/ ~Quiescent
  /\ quiescer' = "refused"
  /\ UNCHANGED <<cleanupFailed, job>>

\* The trace is removed and the job closed; either may fail and is remembered.
Quiesces ==
  /\ quiescer = "joining"
  /\ supervisor = "done" /\ Quiescent
  /\ CloseJob /\ UNCHANGED dying
  /\ \/ quiescer' = "returned" /\ cleanupFailed' = FALSE
     \/ quiescer' = "raised" /\ cleanupFailed' = TRUE

Quiesce ==
  /\ QuiesceStarts \/ QuiesceRefused \/ Quiesces
  /\ UNCHANGED <<submitting, task, record, stream, waiter, canceller, reaped, pipe>>

-----------------------------------------------------------------------------
(* The processes of the job (external). *)

ProcessWrites ==
  /\ alive # {} /\ ~eof
  /\ Len(events) + Len(stdout) < MaxEvents
  /\ \E kind \in Natives : stdout' = Append(stdout, kind)
  /\ UNCHANGED <<alive, exitCode, eof>>

ProcessCloses ==
  /\ alive # {} /\ ~eof
  /\ eof' = TRUE
  /\ UNCHANGED <<alive, exitCode, stdout>>

ProcessSpawns ==
  /\ "root" \in alive
  /\ alive' = alive \cup {"child"}
  /\ UNCHANGED <<exitCode, pipe>>

ProcessExits ==
  \E p \in alive :
    /\ alive' = alive \ {p}
    /\ IF p = "root" THEN exitCode' \in (IF dying \/ closed THEN {"nonzero"} ELSE {"zero", "nonzero"})
       ELSE UNCHANGED exitCode
    /\ UNCHANGED pipe

\* Once the job is closed they only end; before the root is resumed, nothing runs.
Process ==
  /\ submitting \notin {"preflight", "creating", "suspended"}
  /\ \/ ~closed /\ (ProcessWrites \/ ProcessCloses \/ ProcessSpawns)
     \/ ProcessExits
  /\ UNCHANGED <<submitting, task, record, callers, cleanupFailed, dying, closed, reaped>>

-----------------------------------------------------------------------------

\* What the event loop owes: coroutines that can go on, and deadlines.
Loop == Submit \/ Supervise \/ Stream \/ Wait \/ Cancel \/ Quiesce

Next == Loop \/ Process

Spec == Init /\ [][Next]_vars

\* The event loop goes on as long as it has something to do; each coroutine has
\* few steps to take, so none is starved.  The processes owe nothing.
FairSpec == Spec /\ WF_vars(Loop)

-----------------------------------------------------------------------------
(* Properties. *)

FlagsOK ==
  /\ raising \in BOOLEAN /\ cancelled \in BOOLEAN /\ rerouted \in BOOLEAN
  /\ cleanupFailed \in BOOLEAN
  /\ reaped \in BOOLEAN /\ dying \in BOOLEAN /\ closed \in BOOLEAN /\ eof \in BOOLEAN

PlacesOK ==
  /\ submitting \in {"preflight", "creating", "suspended", "resumed", "writing",
                     "reaping", "handed", "refused", "abandoned"}
  /\ supervisor \in {"none", "reading", "exiting", "draining", "killing", "final_kill",
                     "stderr", "done", "dead"}
  /\ status \in Statuses
  /\ result \in Statuses \cup {"none"}
  /\ observed \in {"none", "turn.completed", "turn.failed"}
  /\ events \in Seq(Logged)
  /\ stream \in [at : {"idle", "reading", "asleep", "yielded", "ended"}, index : Nat]
  /\ waiter \in {"idle", "joining", "returned", "raised"}
  /\ canceller \in {"idle", "killing", "joining", "returned", "raised"}
  /\ quiescer \in {"idle", "joining", "returned", "raised", "refused"}
  /\ alive \subseteq {"root", "child"} /\ exitCode \in {"none", "zero", "nonzero"}
  /\ stdout \in Seq(Natives)

\* Every variable has its type.
ExecTypeOK == FlagsOK /\ PlacesOK

\* Nothing of the run's tree is alive once the adapter has reported it over,
\* in whichever way: a recorded result, a wait or cancel that returned, a
\* quiesce that closed the job, or a submit that raised after its kill was
\* confirmed.  The engine removes the worktree on each of these reports.  A submit
\* that raised because the process could not be created has waited for nothing, but
\* what it leaves is in a job that is closed, and so only ends.
QuietWhenReported ==
  /\ (\/ result # "none"
      \/ waiter = "returned" \/ canceller = "returned"
      \/ quiescer \in {"returned", "raised"}
      \/ submitting = "refused" /\ reaped) => alive = {}
  /\ submitting = "refused" => alive = {} \/ closed

\* The consumer of events neither misses a wake-up nor leaves early: it sleeps
\* only with the whole log read and a result still to come, whose last event
\* will wake it, and it leaves only once there is a result.  (The check of the
\* log and the sleep are one step of the event loop; so are the record of the
\* result and its last event.)
NoLostWakeup ==
  /\ stream.at = "asleep" => stream.index = Len(events) /\ result = "none"
  /\ stream.at = "ended" => result # "none"

Suspended ==
  \/ waiter = "joining"
  \/ canceller \in {"killing", "joining"}
  \/ quiescer = "joining"
  \/ stream.at \notin {"idle", "ended"} /\ supervisor # "dead"

\* Whoever asks for the end of a run gets an answer or an exception: wait,
\* cancel and quiesce in any case, the consumer of events unless the supervisor
\* died without a result, which wakes nobody.  (Each is called once, so it has
\* ended when nobody is suspended.)
EverybodyWakes == []<>~Suspended

\* The adapter implements the run of the protocol.
Abstract == INSTANCE AgentRun WITH
  Results <- Statuses, NoResult <- "none",
  handed <- submitting = "handed",
  answers <- IF waiter = "returned" THEN {result} ELSE {},
  released <- quiescer = "returned" \/ (quiescer = "raised" /\ closed)

\* The handle is handed out once, the supervisor alone records one result,
\* wait answers with it, and quiesce succeeds only after it.
ImplementsAgentRun == Abstract!Spec

=============================================================================
