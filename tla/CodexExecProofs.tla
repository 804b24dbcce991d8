--------------------------- MODULE CodexExecProofs ---------------------------
(***************************************************************************)
(* Theorems about CodexExec, for every set of native events and every      *)
(* number of them.  Step ties the end of the supervisor to the end of the  *)
(* process tree, and every report of the adapter to the supervisor.        *)
(***************************************************************************)
EXTENDS CodexExec, TLAPS

\* The run is out only once its supervisor exists.
HandedWithSupervisor ==
  /\ supervisor # "none" <=> submitting = "handed"
  /\ submitting # "handed" => /\ waiter = "idle" /\ canceller = "idle"
                              /\ quiescer = "idle" /\ stream.at = "idle"

\* The tree is gone before it was created, when submit has reaped it, and when
\* the supervisor has its result; and once it is gone, nothing revives it.  What
\* submit has not reaped when it gives up is in a job that is closed.
GoneWithSupervisor ==
  /\ submitting \in {"preflight", "creating"} => alive = {}
  /\ submitting \notin {"handed", "refused"} => reaped = FALSE
  /\ submitting = "refused" => alive = {} \/ (closed = TRUE /\ reaped = FALSE)
  /\ supervisor = "done" => alive = {}
  /\ result # "none" <=> supervisor = "done"

\* Whoever reports the end has joined a supervisor that recorded its result.
JoinedSupervisor ==
  /\ waiter = "returned" => supervisor = "done"
  /\ canceller = "returned" => supervisor = "done"
  /\ quiescer \in {"returned", "raised"} => supervisor = "done"

Step == PlacesOK /\ HandedWithSupervisor /\ GoneWithSupervisor /\ JoinedSupervisor

\* The state before submit satisfies the invariant.
LEMMA StepInit == Init => Step
<1> SUFFICES ASSUME Init PROVE Step
  OBVIOUS
<1>1. PlacesOK
  BY DEF Init, PlacesOK, Statuses
<1>2. HandedWithSupervisor /\ GoneWithSupervisor /\ JoinedSupervisor
  BY DEF Init, HandedWithSupervisor, GoneWithSupervisor, JoinedSupervisor
<1> QED
  BY <1>1, <1>2 DEF Step

\* submit: the version check, the creation of the job and the prompt.
LEMMA SubmitKeeps == Step /\ Submit => Step'
<1> SUFFICES ASSUME Step, Submit PROVE Step'
  OBVIOUS
<1> USE DEF Step, PlacesOK, HandedWithSupervisor, GoneWithSupervisor,
            JoinedSupervisor, Begun, callers, record, job, pipe, task
<1>1. CASE Preflight
  BY <1>1 DEF Preflight
<1>2. CASE CreateSuspended
  BY <1>2 DEF CreateSuspended
<1>3. CASE Resume
  BY <1>3 DEF Resume
<1>4. CASE Own
  BY <1>4 DEF Own
<1>5. CASE CreationFails
  BY <1>5 DEF CreationFails, CloseJob, TerminateJob
<1>6. CASE PromptWritten
  BY <1>6 DEF PromptWritten
<1>7. CASE PromptFails
  BY <1>7 DEF PromptFails, TerminateJob
<1>8. CASE FailedRunReaped
  BY <1>8 DEF FailedRunReaped, CloseJob, Quiescent
<1>9. CASE FailedRunSurvives
  BY <1>9 DEF FailedRunSurvives
<1> QED
  BY <1>1, <1>2, <1>3, <1>4, <1>5, <1>6, <1>7, <1>8, <1>9 DEF Submit

\* The supervisor task.
LEMMA SuperviseKeeps == Step /\ Supervise => Step'
<1> SUFFICES ASSUME Step, Supervise PROVE Step'
  OBVIOUS
<1> USE DEF Step, PlacesOK, HandedWithSupervisor, GoneWithSupervisor,
            JoinedSupervisor, Kept, callers, record, job, pipe, task, Statuses, Logged
<1>1. CASE ReadEvent
  BY <1>1 DEF ReadEvent, Emit
<1>2. CASE ReadGarbage
  BY <1>2 DEF ReadGarbage, Catch, TerminateJob
<1>3. CASE ReadEnd
  BY <1>3 DEF ReadEnd
<1>4. CASE RootExited
  BY <1>4 DEF RootExited
<1>5. CASE DeadlineExpires
  BY <1>5 DEF DeadlineExpires, Catch, TerminateJob
<1>6. CASE TreeDrained
  BY <1>6 DEF TreeDrained, Finally, TerminateJob, Verdict
<1>7. CASE KillConfirmed
  BY <1>7 DEF KillConfirmed, Finally, TerminateJob
<1>8. CASE KillFails
  BY <1>8 DEF KillFails, Finally, TerminateJob
<1>9. CASE FinalKillConfirmed
  BY <1>9 DEF FinalKillConfirmed
<1>10. CASE FinalKillFails
  BY <1>10 DEF FinalKillFails
<1>11. CASE EndsWithoutResult
  BY <1>11 DEF EndsWithoutResult
<1>12. CASE RecordResult
  BY <1>12 DEF RecordResult, Emit, Quiescent
<1> QED
  BY <1>1, <1>2, <1>3, <1>4, <1>5, <1>6, <1>7, <1>8, <1>9, <1>10, <1>11, <1>12 DEF Supervise

\* The coroutines beside the supervisor.
LEMMA CallersKeep == Step /\ (Stream \/ Wait \/ Cancel \/ Quiesce) => Step'
<1> SUFFICES ASSUME Step, Stream \/ Wait \/ Cancel \/ Quiesce PROVE Step'
  OBVIOUS
<1> USE DEF Step, PlacesOK, HandedWithSupervisor, GoneWithSupervisor,
            JoinedSupervisor, CallKept, callers, record, job, pipe, task,
            Joined, Outcome
<1>1. CASE Stream
  BY <1>1 DEF Stream, StreamStarts, StreamReads, StreamResumes, StreamAt
<1>2. CASE Wait
  BY <1>2 DEF Wait
<1>3. CASE Cancel
  <2>1. CASE CancelStarts
    BY <2>1 DEF CancelStarts, TerminateJob
  <2>2. CASE CancelConfirmed
    BY <2>2 DEF CancelConfirmed
  <2>3. CASE CancelKillFails
    BY <2>3 DEF CancelKillFails
  <2>4. CASE CancelJoins
    BY <2>4 DEF CancelJoins
  <2> QED
    BY <1>3, <2>1, <2>2, <2>3, <2>4 DEF Cancel
<1>4. CASE Quiesce
  <2>1. CASE QuiesceStarts
    BY <1>4, <2>1 DEF Quiesce, QuiesceStarts
  <2>2. CASE QuiesceRefused
    BY <1>4, <2>2 DEF Quiesce, QuiesceRefused
  <2>3. CASE Quiesces
    BY <1>4, <2>3 DEF Quiesce, Quiesces, CloseJob
  <2> QED
    BY <1>4, <2>1, <2>2, <2>3 DEF Quiesce
<1> QED
  BY <1>1, <1>2, <1>3, <1>4

\* The processes: a tree that is gone stays gone.
LEMMA ProcessKeeps == Step /\ Process => Step'
<1> SUFFICES ASSUME Step, Process PROVE Step'
  OBVIOUS
<1> USE DEF Step, PlacesOK, HandedWithSupervisor, GoneWithSupervisor,
            JoinedSupervisor, Process, callers, record, job, pipe, task
<1>1. CASE ProcessWrites
  BY <1>1 DEF ProcessWrites
<1>2. CASE ProcessCloses
  BY <1>2 DEF ProcessCloses
<1>3. CASE ProcessSpawns
  BY <1>3 DEF ProcessSpawns
<1>4. CASE ProcessExits
  BY <1>4 DEF ProcessExits
<1> QED
  BY <1>1, <1>2, <1>3, <1>4

\* Step is an invariant.
THEOREM StepInvariant == Spec => []Step
<1>1. Step /\ [Next]_vars => Step'
  <2> SUFFICES ASSUME Step, [Next]_vars PROVE Step'
    OBVIOUS
  <2>1. CASE Next
    BY <2>1, SubmitKeeps, SuperviseKeeps, CallersKeep, ProcessKeeps DEF Next, Loop
  <2>2. CASE UNCHANGED vars
    BY <2>2 DEF vars, callers, record, job, pipe, task, Step, PlacesOK,
           HandedWithSupervisor, GoneWithSupervisor, JoinedSupervisor
  <2> QED
    BY <2>1, <2>2
<1> QED
  BY StepInit, <1>1, PTL DEF Spec

\* No step leaves a flag without a truth value.
LEMMA FlagsKept == FlagsOK /\ [Next]_vars => FlagsOK'
<1> SUFFICES ASSUME FlagsOK, [Next]_vars PROVE FlagsOK'
  OBVIOUS
<1> USE DEF FlagsOK, callers, record, job, pipe, task
<1>1. CASE Submit
  <2> USE DEF Begun, TerminateJob, CloseJob
  <2>1. CASE Preflight \/ CreateSuspended \/ Resume \/ Own \/ CreationFails
    BY <2>1, Zenon DEF Preflight, CreateSuspended, Resume, Own, CreationFails
  <2>2. CASE PromptWritten \/ PromptFails
    BY <2>2, Zenon DEF PromptWritten, PromptFails
  <2>3. CASE FailedRunReaped \/ FailedRunSurvives
    BY <2>3, Zenon DEF FailedRunReaped, FailedRunSurvives
  <2> QED
    BY <1>1, <2>1, <2>2, <2>3 DEF Submit
<1>2. CASE Supervise
  <2> USE DEF Kept, Catch, Finally, TerminateJob, Emit
  <2>1. CASE ReadEvent \/ ReadGarbage \/ ReadEnd
    BY <2>1, Zenon DEF ReadEvent, ReadGarbage, ReadEnd
  <2>2. CASE RootExited \/ DeadlineExpires
    BY <2>2, Zenon DEF RootExited, DeadlineExpires
  <2>3. CASE TreeDrained \/ KillConfirmed \/ KillFails
    BY <2>3, Zenon DEF TreeDrained, KillConfirmed, KillFails
  <2>4. CASE FinalKillConfirmed \/ FinalKillFails \/ EndsWithoutResult \/ RecordResult
    BY <2>4, Zenon DEF FinalKillConfirmed, FinalKillFails, EndsWithoutResult, RecordResult
  <2> QED
    BY <1>2, <2>1, <2>2, <2>3, <2>4 DEF Supervise
<1>3. CASE Stream \/ Wait
  BY <1>3, Zenon DEF Stream, Wait
<1>4. CASE Cancel
  BY <1>4, Zenon DEF Cancel, CancelStarts, CancelConfirmed, CancelKillFails, CancelJoins,
                     CallKept, TerminateJob
<1>5. CASE Quiesce
  BY <1>5, Zenon DEF Quiesce, QuiesceStarts, QuiesceRefused, Quiesces, CloseJob
<1>6. CASE Process
  BY <1>6, Zenon DEF Process, ProcessWrites, ProcessCloses, ProcessSpawns, ProcessExits
<1>7. CASE UNCHANGED vars
  BY <1>7, Zenon DEF vars
<1> QED
  BY <1>1, <1>2, <1>3, <1>4, <1>5, <1>6, <1>7 DEF Next, Loop

\* Every variable keeps its type.
THEOREM ExecTypeCorrect == Spec => []ExecTypeOK
<1>1. Init => FlagsOK
  BY Zenon DEF Init, FlagsOK
<1>2. FlagsOK /\ PlacesOK => ExecTypeOK
  BY DEF ExecTypeOK
<1> QED
  BY <1>1, <1>2, FlagsKept, StepInvariant, PTL DEF Spec, Step

\* No process of the run is alive once a result is recorded, a wait or cancel
\* has returned, the job was closed by quiesce, or submit has raised after a
\* confirmed kill: whatever the tree wrote, spawned and refused.
THEOREM AlwaysQuietWhenReported == Spec => []QuietWhenReported
<1>1. Step => QuietWhenReported
  BY DEF Step, HandedWithSupervisor, GoneWithSupervisor, JoinedSupervisor,
         QuietWhenReported
<1> QED
  BY <1>1, StepInvariant, PTL

-----------------------------------------------------------------------------
(* The consumer of events.                                                 *)

\* The consumer has read a prefix of the log; asleep, it has read all of it and
\* there is no result, and it leaves only with one.
Consumer == /\ events \in Seq(Logged)
            /\ stream.at \in {"idle", "reading", "asleep", "yielded", "ended"}
            /\ stream.index \in 0..Len(events)
            /\ NoLostWakeup

\* An event that is logged makes the log longer and wakes the sleeper.
LEMMA EmitWakes ==
  ASSUME NEW event \in Logged, events \in Seq(Logged), stream.index \in 0..Len(events),
         stream.at \in {"idle", "reading", "asleep", "yielded", "ended"}, Emit(event)
  PROVE  /\ events' \in Seq(Logged)
         /\ stream.index \in 0..Len(events') /\ stream'.index = stream.index
         /\ stream'.at \in {"idle", "reading", "yielded", "ended"}
         /\ stream'.at = "ended" => stream.at = "ended"
<1>1. events' \in Seq(Logged) /\ Len(events') = Len(events) + 1
  BY DEF Emit
<1>2. stream'.index = stream.index /\ stream'.at = IF stream.at = "asleep" THEN "reading" ELSE stream.at
  BY DEF Emit
<1>3. Len(events) \in Nat
  OBVIOUS
<1> QED
  BY <1>1, <1>2, <1>3

\* A step that touches neither the log nor the result nor the consumer keeps it.
LEMMA ConsumerFrame ==
  ASSUME Consumer, UNCHANGED <<events, stream, result>> PROVE Consumer'
BY DEF Consumer, NoLostWakeup

\* The supervisor logs events and, once, the result with its last event.
LEMMA SuperviseServes == ASSUME Consumer, Step, Supervise PROVE Consumer'
<1>1. CASE ReadEvent
  <2>1. PICK e \in Logged : Emit(e)
    BY <1>1 DEF ReadEvent, Logged
  <2>2. UNCHANGED result
    BY <1>1 DEF ReadEvent
  <2> QED
    BY <2>1, <2>2, EmitWakes DEF Consumer, NoLostWakeup
<1>2. CASE RecordResult
  <2>1. PICK e \in Logged : Emit(e)
    BY <1>2 DEF RecordResult, Logged
  <2>2. result' # "none"
    BY <1>2 DEF RecordResult, Step, PlacesOK, Statuses
  <2> QED
    BY <2>1, <2>2, EmitWakes DEF Consumer, NoLostWakeup
<1>3. CASE ~ReadEvent /\ ~RecordResult
  <2>1. UNCHANGED <<events, stream, result>>
    BY <1>3, Supervise DEF Supervise, ReadGarbage, ReadEnd, RootExited, DeadlineExpires,
       TreeDrained, KillConfirmed, KillFails, FinalKillConfirmed, FinalKillFails,
       EndsWithoutResult, Catch, record, callers
  <2> QED
    BY <2>1, ConsumerFrame
<1> QED
  BY <1>1, <1>2, <1>3

\* The consumer's own steps: the log is checked and the sleep begun in one step.
LEMMA StreamServes == ASSUME Consumer, Stream PROVE Consumer'
<1> SUFFICES ASSUME StreamStarts \/ StreamReads \/ StreamResumes,
                    UNCHANGED <<events, result>>
             PROVE  Consumer'
  BY DEF Stream, record
<1>1. Len(events) \in Nat
  BY DEF Consumer
<1>2. CASE StreamStarts
  BY <1>1, <1>2 DEF StreamStarts, StreamAt, Consumer, NoLostWakeup
<1>3. CASE StreamReads
  BY <1>1, <1>3 DEF StreamReads, StreamAt, Consumer, NoLostWakeup
<1>4. CASE StreamResumes
  BY <1>1, <1>4 DEF StreamResumes, StreamAt, Consumer, NoLostWakeup
<1> QED
  BY <1>2, <1>3, <1>4

\* No wake-up of the consumer is lost and it leaves only with a result, however
\* the log, the result and its own steps interleave.
THEOREM NeverALostWakeup == Spec => []NoLostWakeup
<1>1. Init => Consumer
  BY DEF Init, Consumer, NoLostWakeup
<1>2. Step /\ Consumer /\ [Next]_vars => Consumer'
  <2> SUFFICES ASSUME Step, Consumer, [Next]_vars PROVE Consumer'
    OBVIOUS
  <2>1. CASE Submit
    <3>1. UNCHANGED <<events, stream, result>>
      BY <2>1 DEF Submit, Preflight, CreateSuspended, Resume, Own, CreationFails,
         PromptWritten, PromptFails, FailedRunReaped, FailedRunSurvives, Begun, record, callers
    <3> QED
      BY <3>1, ConsumerFrame
  <2>2. CASE Supervise
    BY <2>2, SuperviseServes
  <2>3. CASE Stream
    BY <2>3, StreamServes
  <2>4. CASE Wait \/ Cancel \/ Quiesce \/ Process \/ UNCHANGED vars
    <3>1. UNCHANGED <<events, stream, result>>
      BY <2>4 DEF Wait, Cancel, CancelStarts, CancelConfirmed, CancelKillFails, CancelJoins,
         CallKept, Quiesce, Process, vars, record, callers
    <3> QED
      BY <3>1, ConsumerFrame
  <2> QED
    BY <2>1, <2>2, <2>3, <2>4 DEF Next, Loop
<1>3. Consumer => NoLostWakeup
  BY DEF Consumer
<1> QED
  BY <1>1, <1>2, <1>3, StepInvariant, PTL DEF Spec

-----------------------------------------------------------------------------
(* The adapter implements AgentRun.                                        *)

\* A step that neither records nor reports is a stutter of the abstract run.
LEMMA Stutters ==
  ASSUME UNCHANGED <<submitting, result, waiter, quiescer, closed>>
  PROVE  UNCHANGED Abstract!run
BY DEF Abstract!run

\* The initial states of the adapter are initial states of the abstract run.
LEMMA AbstractInit == Init => Abstract!Init
BY DEF Init, Abstract!Init

\* Every step of the adapter is a step of the abstract run, or a stutter.
LEMMA AbstractStep == Step /\ FlagsOK /\ [Next]_vars => [Abstract!Next]_(Abstract!run)
<1> SUFFICES ASSUME Step, FlagsOK, [Next]_vars
             PROVE  [Abstract!Next]_(Abstract!run)
  OBVIOUS
<1> USE DEF callers, record, job, pipe, task
<1>1. CASE Submit
  <2>1. CASE PromptWritten
    <3>1. Abstract!HandOut
      BY <2>1 DEF PromptWritten, Abstract!HandOut, Abstract!Keep, Step, HandedWithSupervisor
    <3> QED
      BY <3>1 DEF Abstract!Next
  <2>2. CASE ~PromptWritten
    BY <1>1, <2>2 DEF Submit, Preflight, CreateSuspended, Resume, Own, CreationFails,
       PromptFails, FailedRunReaped, FailedRunSurvives, Begun, CloseJob, TerminateJob,
       Step, HandedWithSupervisor, Abstract!run
  <2> QED
    BY <2>1, <2>2
<1>2. CASE Supervise
  <2>1. CASE RecordResult
    <3>1. Abstract!Finish
      BY <2>1 DEF RecordResult, Kept, Abstract!Finish, Abstract!Record, Step, PlacesOK,
         HandedWithSupervisor, GoneWithSupervisor, JoinedSupervisor
    <3> QED
      BY <3>1 DEF Abstract!Next
  <2>2. CASE ~RecordResult
    <3>1. UNCHANGED <<submitting, result, waiter, quiescer, closed>>
      BY <1>2, <2>2 DEF Supervise, Kept, ReadEvent, ReadGarbage, ReadEnd, RootExited,
         DeadlineExpires, TreeDrained, KillConfirmed, KillFails, FinalKillConfirmed,
         FinalKillFails, EndsWithoutResult, Catch, Finally, Emit
    <3> QED
      BY <3>1, Stutters
  <2> QED
    BY <2>1, <2>2
<1>3. CASE Stream
  BY <1>3, Stutters DEF Stream
<1>4. CASE Wait
  <2>1. CASE waiter = "idle"
    BY <1>4, <2>1 DEF Wait, Abstract!run
  <2>2. CASE supervisor = "dead"
    BY <1>4, <2>2 DEF Wait, Outcome, Abstract!run
  <2>3. CASE waiter = "joining" /\ supervisor = "done"
    <3>1. Abstract!Answer
      BY <1>4, <2>3 DEF Wait, Outcome, Joined, Abstract!Answer, Abstract!Keep, Step, PlacesOK,
         HandedWithSupervisor, GoneWithSupervisor
    <3> QED
      BY <3>1 DEF Abstract!Next
  <2> QED
    BY <1>4, <2>1, <2>2, <2>3 DEF Wait, Joined
<1>5. CASE Cancel
  BY <1>5, Stutters DEF Cancel, CancelStarts, CancelConfirmed, CancelKillFails, CancelJoins,
                        CallKept
<1>6. CASE Quiesce
  <2>1. CASE Quiesces
    <3>1. Abstract!Release
      BY <1>6, <2>1 DEF Quiesce, Quiesces, CloseJob, Abstract!Release, Step, PlacesOK,
         HandedWithSupervisor, GoneWithSupervisor
    <3> QED
      BY <3>1 DEF Abstract!Next
  <2>2. CASE QuiesceStarts \/ QuiesceRefused
    BY <1>6, <2>2 DEF Quiesce, QuiesceStarts, QuiesceRefused, Abstract!run
  <2> QED
    BY <1>6, <2>1, <2>2 DEF Quiesce
<1>7. CASE Process
  BY <1>7, Stutters DEF Process
<1>8. CASE UNCHANGED vars
  BY <1>8, Stutters DEF vars
<1> QED
  BY <1>1, <1>2, <1>3, <1>4, <1>5, <1>6, <1>7, <1>8 DEF Next, Loop

\* The exec adapter implements the run of the AgentRuntime protocol: one handle,
\* one result that never changes, and no release without it.
THEOREM AgentRunImplemented == Spec => ImplementsAgentRun
<1>1. Init => FlagsOK
  BY Zenon DEF Init, FlagsOK
<1> QED
  BY <1>1, AbstractInit, AbstractStep, FlagsKept, StepInvariant, PTL
  DEF Spec, ImplementsAgentRun, Abstract!Spec
=============================================================================
