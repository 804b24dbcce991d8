----------------------- MODULE SingleExecutionProofs -----------------------
(***************************************************************************)
(* Theorems about SingleExecution, for every budget, every number of       *)
(* retries and both kinds of fault.  Step, the inductive invariant, ties   *)
(* each stage to what must have happened before it.                        *)
(***************************************************************************)
EXTENDS SingleExecution, FiniteSetTheorems, TLAPS

\* No submission of this attempt has been answered yet.
Unsubmitted == {"received", "preflight", "submit"}

\* Every run of the task has ended.
Quiet == Unsubmitted \cup {"judging", "accepting", "retrying", "completing",
                           "failing", "abandoning"}

\* No attempt has passed its evaluation yet.
Unjudged == Awaits \cup {"received", "preflight", "retaining", "retrying"}

\* Retries and attempts are counted in step; a retry is entered only while the
\* budget allows it, with the workspace of the attempt cleaned.
RetriesInStep ==
  /\ stage \notin {"handling", "raised"} => budget.retries = attempt - 1
  /\ stage = "retrying" =>
       budget.retries < MaxRetries /\ workspace[attempt] = "cleaned"

\* Only this attempt's run may be alive, and only in the stages that expect it.
RunsInStep ==
  /\ accepted \subseteq 1..attempt
  /\ stage \in Unsubmitted => attempt \notin accepted
  /\ stage \in Quiet => unconfirmed = {}
  /\ stage \in Unjudged => unconfirmed \subseteq {attempt}

\* An evaluation counts, and the branch moves, in the last attempt only.
VerdictInStep ==
  /\ stage \in {"accepting", "completing"} => attempt \in passed
  /\ stage \in Unjudged => passed = {}
  /\ stage \in Unjudged \cup {"accepting"} => root = "base"

\* The earlier workspaces are cleaned whenever another attempt may follow.
WorkspacesInStep ==
  /\ stage \in Unjudged => \A a \in 1..(attempt - 1) : workspace[a] = "cleaned"
  /\ stage \in Awaits => workspace[attempt] = "active"

Basic ==
  /\ SingleTypeOK /\ CallsCounted /\ MovedOnlyForVerified
  /\ RetriesInStep /\ RunsInStep /\ VerdictInStep /\ WorkspacesInStep

\* Removing a worktree leaves it in one of the known states (CleanResults).
LEMMA CleanResultsKnown ==
  \A state \in TreeStates : CleanResults(state) \subseteq TreeStates
BY DEF CleanResults, TreeStates

\* Attempts are finitely many and start with 1.
LEMMA AttemptsFacts ==
  /\ 1 \in Attempts
  /\ IsFiniteSet(Attempts)
  /\ Attempts \subseteq Nat
  /\ MaxRetries \in Nat /\ MaxTotalCalls \in Nat
<1>1. MaxRetries \in Nat /\ MaxTotalCalls \in Nat
  BY BudgetAssumption
<1>2. IsFiniteSet(Attempts)
  BY <1>1, FS_Interval DEF Attempts
<1> QED
  BY <1>1, <1>2 DEF Attempts

\* The states run starts in satisfy the invariant.
LEMMA BasicInit == Init => Basic
<1> SUFFICES ASSUME Init PROVE Basic
  OBVIOUS
<1> USE AttemptsFacts
<1>1. Cardinality({}) = 0
  BY FS_EmptySet
<1>2. SingleTypeOK
  BY DEF Init, SingleTypeOK, Records, TaskStatus, Budgets, FreshBudget, TreeStates
<1>3. CallsCounted /\ MovedOnlyForVerified
  BY <1>1 DEF Init, CallsCounted, MovedOnlyForVerified, FreshBudget
<1>4. RetriesInStep /\ RunsInStep /\ VerdictInStep /\ WorkspacesInStep
  BY DEF Init, RetriesInStep, RunsInStep, VerdictInStep, WorkspacesInStep,
         FreshBudget, Quiet, Unsubmitted, Unjudged, Awaits
<1> QED
  BY <1>2, <1>3, <1>4 DEF Basic

\* The steps from creation to submission (run, _execute, _execute_single).
LEMMA BeforeSubmissionKeeps == Basic /\ BeforeSubmission => Basic'
<1> SUFFICES ASSUME Basic, BeforeSubmission PROVE Basic'
  OBVIOUS
<1> USE AttemptsFacts, CleanResultsKnown
    DEF Basic, SingleTypeOK, CallsCounted, MovedOnlyForVerified, RetriesInStep,
        RunsInStep, VerdictInStep, WorkspacesInStep, Quiet, Unsubmitted,
        Unjudged, Awaits, Goto, WorkspaceBecomes, runVars,
        Records, TaskStatus
<1>1. CASE ProfileAndRoute
  BY <1>1 DEF ProfileAndRoute, Transitioned
<1>2. CASE ProfileOrRouteRaises
  BY <1>2 DEF ProfileOrRouteRaises, WriteRaises, Transitioned, HalfTransitioned
<1>3. CASE Declined
  BY <1>3 DEF Declined
<1>4. CASE CannotExecute
  BY <1>4 DEF CannotExecute
<1>5. CASE CreateRaises
  BY <1>5 DEF CreateRaises, TreeStates, CleanResults
<1>6. CASE SubmissionDenied
  BY <1>6 DEF SubmissionDenied, TreeStates, CleanResults
<1>7. CASE SubmissionAuthorized
  BY <1>7 DEF SubmissionAuthorized, TreeStates, Reserved, Budgets, CanSubmitCalls
<1> QED
  BY <1>1, <1>2, <1>3, <1>4, <1>5, <1>6, <1>7 DEF BeforeSubmission

\* The steps from submit's answer to the end of the run.
LEMMA RunLivesKeeps == Basic /\ RunLives => Basic'
<1> SUFFICES ASSUME Basic, RunLives PROVE Basic'
  OBVIOUS
<1> USE AttemptsFacts, CleanResultsKnown
    DEF Basic, SingleTypeOK, CallsCounted, MovedOnlyForVerified, RetriesInStep,
        RunsInStep, VerdictInStep, WorkspacesInStep, Quiet, Unsubmitted,
        Unjudged, Awaits, Goto, WorkspaceBecomes, runVars, Records, TaskStatus
<1>1. CASE SubmitReturns
  <2>1. attempt \notin accepted /\ IsFiniteSet(accepted)
    BY <1>1, FS_Subset DEF SubmitReturns
  <2>2. Cardinality(accepted \cup {attempt}) = Cardinality(accepted) + 1
    BY <2>1, FS_AddElement
  <2> QED
    BY <1>1, <2>2 DEF SubmitReturns, CommitReserved, Budgets
<1>2. CASE SubmitRaises
  BY <1>2 DEF SubmitRaises, ReleaseReserved, Budgets, RollbackAndRaise
<1>3. CASE MarkRunning
  BY <1>3 DEF MarkRunning, Transitioned
<1>4. CASE MarkRunningRaises
  BY <1>4 DEF MarkRunningRaises, WriteRaises, Transitioned, HalfTransitioned
<1>5. CASE StreamEnds
  BY <1>5 DEF StreamEnds
<1>6. CASE ApprovalRequested
  BY <1>6 DEF ApprovalRequested
<1>7. CASE WaitReturns
  BY <1>7 DEF WaitReturns
<1>8. CASE StreamOrWaitRaises
  BY <1>8 DEF StreamOrWaitRaises
<1>9. CASE QuiesceCompleted
  BY <1>9 DEF QuiesceCompleted, Confirm
<1>10. CASE QuiesceUnsuccessful
  BY <1>10 DEF QuiesceUnsuccessful, Confirm, RollbackTwiceThen
<1>11. CASE QuiesceRaises
  BY <1>11 DEF QuiesceRaises
<1>12. CASE RetentionRecorded
  BY <1>12 DEF RetentionRecorded, Transitioned
<1>13. CASE RetentionWriteRaises
  BY <1>13 DEF RetentionWriteRaises, WriteRaises, Transitioned, HalfTransitioned, RollbackAndRaise
<1>14. CASE StartCancelConfirmed
  BY <1>14 DEF StartCancelConfirmed, Confirm, RollbackAndRaise
<1>15. CASE ApprovalCancelConfirmed
  BY <1>15 DEF ApprovalCancelConfirmed, Confirm, RollbackTwiceThen
<1>16. CASE ErrorCancelConfirmed
  BY <1>16 DEF ErrorCancelConfirmed, Confirm, RollbackAndRaise
<1>17. CASE ApprovalCancelRaises
  BY <1>17 DEF ApprovalCancelRaises
<1>18. CASE CancelRaises
  BY <1>18 DEF CancelRaises
<1> QED
  BY <1>1, <1>2, <1>3, <1>4, <1>5, <1>6, <1>7, <1>8, <1>9, <1>10, <1>11, <1>12, <1>13, <1>14, <1>15, <1>16, <1>17, <1>18 DEF RunLives

\* The evaluation, the delivery and the retry.
LEMMA AfterRunKeeps == Basic /\ AfterRun => Basic'
<1> SUFFICES ASSUME Basic, AfterRun PROVE Basic'
  OBVIOUS
<1> USE AttemptsFacts, CleanResultsKnown
    DEF Basic, SingleTypeOK, CallsCounted, MovedOnlyForVerified, RetriesInStep,
        RunsInStep, VerdictInStep, WorkspacesInStep, Quiet, Unsubmitted,
        Unjudged, Awaits, Goto, WorkspaceBecomes, runVars, Records, TaskStatus
<1>1. CASE EvaluationPasses
  BY <1>1 DEF EvaluationPasses, Transitioned
<1>2. CASE EvaluationFails
  BY <1>2 DEF EvaluationFails, Transitioned, RollbackThen, AfterFailedEval, CheckRetries
<1>3. CASE EvaluationRaises
  BY <1>3 DEF EvaluationRaises, Transitioned, HalfTransitioned, WriteRaises, RollbackAndRaise
<1>4. CASE ReadOnlyMutated
  BY <1>4 DEF ReadOnlyMutated
<1>5. CASE BaselineRaises
  BY <1>5 DEF BaselineRaises
<1>6. CASE Integrate
  BY <1>6 DEF Integrate, TreeStates
<1>7. CASE IntegrateRaises
  BY <1>7 DEF IntegrateRaises
<1>8. CASE Retry
  BY <1>8 DEF Retry, Transitioned, RetryUsed, Budgets, Attempts
<1>9. CASE RetryRaises
  BY <1>9 DEF RetryRaises, Transitioned, HalfTransitioned, WriteRaises, RetryUsed, Budgets
<1> QED
  BY <1>1, <1>2, <1>3, <1>4, <1>5, <1>6, <1>7, <1>8, <1>9 DEF AfterRun

\* The last status write, in the body or in run's handler.
LEMMA WaysOutKeep == Basic /\ WaysOut => Basic'
<1> SUFFICES ASSUME Basic, WaysOut PROVE Basic'
  OBVIOUS
<1> USE AttemptsFacts, CleanResultsKnown
    DEF Basic, SingleTypeOK, CallsCounted, MovedOnlyForVerified, RetriesInStep,
        RunsInStep, VerdictInStep, WorkspacesInStep, Quiet, Unsubmitted,
        Unjudged, Awaits, Goto, WorkspaceBecomes, runVars, Records, TaskStatus
<1>1. CASE MarkCompleted
  BY <1>1 DEF MarkCompleted, Transitioned
<1>2. CASE MarkCompletedRaises
  BY <1>2 DEF MarkCompletedRaises, HalfTransitioned
<1>3. CASE MarkFailed
  BY <1>3 DEF MarkFailed, Transitioned
<1>4. CASE MarkAbandoned
  BY <1>4 DEF MarkAbandoned, Transitioned
<1>5. CASE MarkRaises
  BY <1>5 DEF MarkRaises, WriteRaises, Transitioned, HalfTransitioned
<1>6. CASE HandlerRecords
  BY <1>6 DEF HandlerRecords, WriteRaises, Transitioned, HalfTransitioned
<1>7. CASE HandlerCannotRecord
  BY <1>7 DEF HandlerCannotRecord
<1> QED
  BY <1>1, <1>2, <1>3, <1>4, <1>5, <1>6, <1>7 DEF WaysOut

\* Every step keeps it.
LEMMA BasicStep == Basic /\ [Next]_vars => Basic'
<1> SUFFICES ASSUME Basic, [Next]_vars PROVE Basic'
  OBVIOUS
<1>1. CASE Next
  BY <1>1, BeforeSubmissionKeeps, RunLivesKeeps, AfterRunKeeps, WaysOutKeep DEF Next
<1>2. CASE UNCHANGED vars
  BY <1>2 DEF vars, runVars, Basic, SingleTypeOK, CallsCounted, MovedOnlyForVerified,
     RetriesInStep, RunsInStep, VerdictInStep, WorkspacesInStep
<1> QED
  BY <1>1, <1>2

\* Basic is an invariant.
THEOREM BasicInvariant == Spec => []Basic
  BY BasicInit, BasicStep, PTL DEF Spec

\* Every variable keeps its type: no more attempts start than the retry budget
\* allows, and calls_reserved is never negative.
THEOREM SingleTypeCorrect == Spec => []SingleTypeOK
BY BasicInvariant, PTL DEF Basic

\* calls_used is the number of runs the runtime accepted, calls_reserved that
\* of the submissions out, and both stay within max_total_calls.
THEOREM CallsAlwaysCounted == Spec => []CallsCounted
BY BasicInvariant, PTL DEF Basic

\* The user's branch moves only for a write task whose last evaluation passed
\* and whose runs have all ended.
THEOREM MovedAlwaysForVerified == Spec => []MovedOnlyForVerified
BY BasicInvariant, PTL DEF Basic

\* Each attempt starts after the earlier runs have ended and their workspaces
\* are removed, and keeps its own while its run may live.
THEOREM WorkspaceAlwaysFresh == Spec => []FreshWorkspace
<1>1. Basic => FreshWorkspace
  BY AttemptsFacts DEF Basic, SingleTypeOK, RunsInStep, VerdictInStep,
     WorkspacesInStep, FreshWorkspace, Unjudged, Awaits, Attempts
<1> QED
  BY <1>1, BasicInvariant, PTL

-----------------------------------------------------------------------------
(* What run leaves behind, on every way out.                               *)

\* A run was accepted and nothing has shown that it ended.
Living == {"start", "stream", "wait", "quiesce", "retaining",
           "cancel_start", "cancel_approval", "cancel_error"}

\* The task is over but for its record.
Left == {"handling", "returned", "raised"}

\* The status in memory and in the database, as far as the handler depends on
\* it: it cannot record a failure of a task that is not routed or is completed.
StatusInStep ==
  /\ stage # "received" => task.status # "received"
  /\ stage \notin Left => task.status # "completed"
  /\ stage # "returned" => task.stored # "completed"
  /\ OutcomeStored

\* And as far as the marks depend on it.
MarksInStep ==
  /\ stage = "received" => task.status = "received"
  /\ stage \in {"preflight", "submit", "start", "abandoning"} => task.status = "routed"
  /\ stage \in {"stream", "wait", "quiesce", "cancel_approval", "retaining", "judging"} =>
       task.status = "running"
  /\ stage \in {"accepting", "retrying", "completing"} => task.status = "evaluating"
  /\ stage = "failing" => task.status \in {"routed", "running", "evaluating"}

\* Where each workspace is while the task goes on, and what it may be left for.
TreesInStep ==
  /\ stage \in Living => attempt \in unconfirmed
  /\ \A a \in Attempts :
       /\ a > attempt => workspace[a] = "none"
       /\ a = attempt /\ stage \in {"received", "preflight"} => workspace[a] = "none"
       /\ a \in 1..(attempt - 1) /\ stage = "accepting" => workspace[a] = "cleaned"
       /\ stage \in {"retrying", "completing", "failing", "abandoning"} =>
            workspace[a] # "active"
       /\ stage \in Left /\ workspace[a] = "active" =>
            a \in unconfirmed \/ (stage # "returned" /\ readOnly /\ a \in passed)

\* A task about to be marked completed is delivered, and nothing is left of it.
DeliveryInStep ==
  stage = "completing" =>
    /\ root = IF readOnly THEN "base" ELSE "delivered"
    /\ \A a \in 1..attempt : workspace[a] = "cleaned"

Ending ==
  RemovedBesideRunOnlyIfLost /\ StatusInStep /\ TreesInStep /\ DeliveryInStep

Outcome == Basic /\ Ending

\* An attempt is earlier than another, later, or the same.
LEMMA AttemptsOrdered ==
  \A b \in Attempts :
    /\ \A a \in Attempts : a \in 1..(b - 1) \/ a = b \/ a > b
    /\ \A a \in 1..b : a \in Attempts /\ (a \in 1..(b - 1) \/ a = b)
BY AttemptsFacts DEF Attempts

\* Removing a worktree never leaves it active, and leaves none where there is none.
LEMMA CleanResultsFacts ==
  \A state \in TreeStates :
    /\ CleanResults(state) \subseteq TreeStates
    /\ "active" \notin CleanResults(state)
    /\ CleanResults("none") = {"none"}
BY DEF CleanResults, TreeStates

\* Before the submission nothing lives in a workspace.
LEMMA BeforeSubmissionEnds == Outcome /\ BeforeSubmission => Ending'
<1> SUFFICES ASSUME Outcome, BeforeSubmission PROVE Ending'
  OBVIOUS
<1> USE AttemptsFacts, AttemptsOrdered, CleanResultsFacts
    DEF Outcome, Ending, Basic, SingleTypeOK, RunsInStep, VerdictInStep, WorkspacesInStep,
        RemovedBesideRunOnlyIfLost, StatusInStep, OutcomeStored, TreesInStep,
        DeliveryInStep, Living, Left, Unjudged, Quiet, Unsubmitted, Awaits, Goto,
        WorkspaceBecomes, runVars, Gone, Transitioned, HalfTransitioned, WriteRaises, Records
<1>1. CASE ProfileAndRoute
  BY <1>1 DEF ProfileAndRoute
<1>2. CASE ProfileOrRouteRaises
  BY <1>2 DEF ProfileOrRouteRaises
<1>3. CASE Declined
  BY <1>3 DEF Declined
<1>4. CASE CannotExecute
  BY <1>4 DEF CannotExecute
<1>5. CASE CreateRaises
  BY <1>5 DEF CreateRaises, TreeStates
<1>6. CASE SubmissionDenied
  BY <1>6 DEF SubmissionDenied, TreeStates
<1>7. CASE SubmissionAuthorized
  BY <1>7 DEF SubmissionAuthorized
<1> QED
  BY <1>1, <1>2, <1>3, <1>4, <1>5, <1>6, <1>7 DEF BeforeSubmission

\* While the run lives its workspace is kept, unless the submission or the record of
\* its retention raises.
LEMMA RunLivesEnds == Outcome /\ RunLives => Ending'
<1> SUFFICES ASSUME Outcome, RunLives PROVE Ending'
  OBVIOUS
<1> USE AttemptsFacts, AttemptsOrdered, CleanResultsFacts
    DEF Outcome, Ending, Basic, SingleTypeOK, RunsInStep, VerdictInStep, WorkspacesInStep,
        RemovedBesideRunOnlyIfLost, StatusInStep, OutcomeStored, TreesInStep,
        DeliveryInStep, Living, Left, Unjudged, Quiet, Unsubmitted, Awaits, Goto,
        WorkspaceBecomes, runVars, Gone, Transitioned, HalfTransitioned, WriteRaises, Records
<1>1. CASE SubmitReturns
  BY <1>1 DEF SubmitReturns
<1>2. CASE SubmitRaises
  BY <1>2 DEF SubmitRaises, RollbackAndRaise
<1>3. CASE MarkRunning
  BY <1>3 DEF MarkRunning
<1>4. CASE MarkRunningRaises
  BY <1>4 DEF MarkRunningRaises
<1>5. CASE StreamEnds
  BY <1>5 DEF StreamEnds
<1>6. CASE ApprovalRequested
  BY <1>6 DEF ApprovalRequested
<1>7. CASE WaitReturns
  BY <1>7 DEF WaitReturns
<1>8. CASE StreamOrWaitRaises
  BY <1>8 DEF StreamOrWaitRaises
<1>9. CASE QuiesceCompleted
  BY <1>9 DEF QuiesceCompleted, Confirm
<1>10. CASE QuiesceUnsuccessful
  BY <1>10 DEF QuiesceUnsuccessful, Confirm, RollbackTwiceThen
<1>11. CASE QuiesceRaises
  BY <1>11 DEF QuiesceRaises
<1>12. CASE RetentionRecorded
  BY <1>12 DEF RetentionRecorded
<1>13. CASE RetentionWriteRaises
  BY <1>13 DEF RetentionWriteRaises, RollbackAndRaise
<1>14. CASE StartCancelConfirmed
  BY <1>14 DEF StartCancelConfirmed, Confirm, RollbackAndRaise
<1>15. CASE ApprovalCancelConfirmed
  BY <1>15 DEF ApprovalCancelConfirmed, Confirm, RollbackTwiceThen
<1>16. CASE ErrorCancelConfirmed
  BY <1>16 DEF ErrorCancelConfirmed, Confirm, RollbackAndRaise
<1>17. CASE ApprovalCancelRaises
  BY <1>17 DEF ApprovalCancelRaises
<1>18. CASE CancelRaises
  BY <1>18 DEF CancelRaises
<1> QED
  BY <1>1, <1>2, <1>3, <1>4, <1>5, <1>6, <1>7, <1>8, <1>9, <1>10, <1>11, <1>12, <1>13, <1>14, <1>15, <1>16, <1>17, <1>18 DEF RunLives

\* Once it has ended, its workspace is delivered or removed, but for a baseline that
\* cannot be compared.
LEMMA AfterRunEnds == Outcome /\ AfterRun => Ending'
<1> SUFFICES ASSUME Outcome, AfterRun PROVE Ending'
  OBVIOUS
<1> USE AttemptsFacts, AttemptsOrdered, CleanResultsFacts
    DEF Outcome, Ending, Basic, SingleTypeOK, RunsInStep, VerdictInStep, WorkspacesInStep,
        RemovedBesideRunOnlyIfLost, StatusInStep, OutcomeStored, TreesInStep,
        DeliveryInStep, Living, Left, Unjudged, Quiet, Unsubmitted, Awaits, Goto,
        WorkspaceBecomes, runVars, Gone, Transitioned, HalfTransitioned, WriteRaises, Records
<1>1. CASE EvaluationPasses
  BY <1>1 DEF EvaluationPasses
<1>2. CASE EvaluationFails
  BY <1>2 DEF EvaluationFails, RollbackThen, AfterFailedEval
<1>3. CASE EvaluationRaises
  BY <1>3 DEF EvaluationRaises, RollbackAndRaise
<1>4. CASE ReadOnlyMutated
  BY <1>4 DEF ReadOnlyMutated
<1>5. CASE BaselineRaises
  BY <1>5 DEF BaselineRaises
<1>6. CASE Integrate
  BY <1>6 DEF Integrate
<1>7. CASE IntegrateRaises
  BY <1>7 DEF IntegrateRaises
<1>8. CASE Retry
  BY <1>8 DEF Retry, RetriesInStep
<1>9. CASE RetryRaises
  BY <1>9 DEF RetryRaises, RetriesInStep
<1> QED
  BY <1>1, <1>2, <1>3, <1>4, <1>5, <1>6, <1>7, <1>8, <1>9 DEF AfterRun

\* The last status write decides what the database shows.
LEMMA WaysOutEnd == Outcome /\ WaysOut => Ending'
<1> SUFFICES ASSUME Outcome, WaysOut PROVE Ending'
  OBVIOUS
<1> USE AttemptsFacts, AttemptsOrdered, CleanResultsFacts
    DEF Outcome, Ending, Basic, SingleTypeOK, RunsInStep, VerdictInStep, WorkspacesInStep,
        RemovedBesideRunOnlyIfLost, StatusInStep, OutcomeStored, TreesInStep,
        DeliveryInStep, Living, Left, Unjudged, Quiet, Unsubmitted, Awaits, Goto,
        WorkspaceBecomes, runVars, Gone, Transitioned, HalfTransitioned, WriteRaises, Records
<1>1. CASE MarkCompleted
  BY <1>1 DEF MarkCompleted
<1>2. CASE MarkCompletedRaises
  BY <1>2 DEF MarkCompletedRaises
<1>3. CASE MarkFailed
  BY <1>3 DEF MarkFailed
<1>4. CASE MarkAbandoned
  BY <1>4 DEF MarkAbandoned
<1>5. CASE MarkRaises
  BY <1>5 DEF MarkRaises
<1>6. CASE HandlerRecords
  BY <1>6 DEF HandlerRecords
<1>7. CASE HandlerCannotRecord
  <2>1. task.status \in {"received", "profiled", "completed", "failed", "abandoned"}
    <3>1. task.status \in TaskStatus /\ "failed" \notin Transitions[task.status]
      BY <1>7 DEF HandlerCannotRecord, Legal
    <3> QED
      BY <3>1 DEF Transitions, TaskStatus
  <2> QED
    BY <1>7, <2>1 DEF HandlerCannotRecord
<1> QED
  BY <1>1, <1>2, <1>3, <1>4, <1>5, <1>6, <1>7 DEF WaysOut

\* Every step leaves the task in a status that allows the next mark.
LEMMA MarksKept == MarksInStep /\ [Next]_vars => MarksInStep'
<1> SUFFICES ASSUME MarksInStep, [Next]_vars PROVE MarksInStep'
  OBVIOUS
<1> USE DEF MarksInStep, Goto, Transitioned
<1>1. CASE BeforeSubmission
  BY <1>1 DEF BeforeSubmission, ProfileAndRoute, ProfileOrRouteRaises, Declined, CannotExecute,
              CreateRaises, SubmissionDenied, SubmissionAuthorized
<1>2. CASE RunLives
  BY <1>2 DEF RunLives, SubmitReturns, SubmitRaises, MarkRunning, MarkRunningRaises, StreamEnds,
              ApprovalRequested, WaitReturns, StreamOrWaitRaises, QuiesceCompleted,
              QuiesceUnsuccessful, QuiesceRaises, RetentionRecorded, RetentionWriteRaises,
              StartCancelConfirmed, ApprovalCancelConfirmed, ErrorCancelConfirmed,
              ApprovalCancelRaises, CancelRaises, RollbackThen, RollbackTwiceThen, RollbackAndRaise
<1>3. CASE AfterRun
  BY <1>3 DEF AfterRun, EvaluationPasses, EvaluationFails, EvaluationRaises, ReadOnlyMutated,
              BaselineRaises, Integrate, IntegrateRaises, Retry, RetryRaises, RollbackThen,
              RollbackAndRaise, AfterFailedEval
<1>4. CASE WaysOut
  BY <1>4 DEF WaysOut, MarkCompleted, MarkCompletedRaises, MarkFailed, MarkAbandoned, MarkRaises,
              HandlerRecords, HandlerCannotRecord
<1>5. CASE UNCHANGED vars
  BY <1>5 DEF vars
<1> QED
  BY <1>1, <1>2, <1>3, <1>4, <1>5 DEF Next

\* Every step keeps what run leaves behind in order.
LEMMA OutcomeInvariant == Spec => []Outcome
<1>1. Init => Outcome
  <2> SUFFICES ASSUME Init PROVE Outcome
    OBVIOUS
  <2>1. Basic
    BY BasicInit
  <2>2. Ending
    BY DEF Init, Ending, RemovedBesideRunOnlyIfLost, StatusInStep, OutcomeStored,
       TreesInStep, DeliveryInStep, Living, Left, Gone
  <2> QED
    BY <2>1, <2>2 DEF Outcome
<1>2. Outcome /\ [Next]_vars => Outcome'
  <2> SUFFICES ASSUME Outcome, [Next]_vars PROVE Outcome'
    OBVIOUS
  <2>1. CASE Next
    BY <2>1, BeforeSubmissionKeeps, RunLivesKeeps, AfterRunKeeps, WaysOutKeep,
       BeforeSubmissionEnds, RunLivesEnds, AfterRunEnds, WaysOutEnd DEF Next, Outcome
  <2>2. CASE UNCHANGED vars
    <3>1. Basic'
      BY <2>2, BasicStep DEF Outcome
    <3>2. Ending'
      BY <2>2 DEF vars, runVars, Outcome, Ending, RemovedBesideRunOnlyIfLost, StatusInStep,
         OutcomeStored, TreesInStep, DeliveryInStep
    <3> QED
      BY <3>1, <3>2 DEF Outcome
  <2> QED
    BY <2>1, <2>2
<1> QED
  BY <1>1, <1>2, PTL DEF Spec

\* A workspace is deleted beside a run not known quiescent only if submit
\* raised although the run was accepted, or the write that records the
\* retention raised; and then run raises, never returning a summary.
THEOREM RemovedBesideRunAlwaysLost == Spec => []RemovedBesideRunOnlyIfLost
  BY OutcomeInvariant, PTL DEF Outcome, Ending

\* The summary is what the database holds; a completed task passed, is
\* delivered and leaves no workspace; a task whose run raised shows as failed,
\* unless its last write was lost or it was not routed yet.
THEOREM OutcomeAlwaysStored == Spec => []OutcomeStored
<1>1. Outcome => OutcomeStored
  BY DEF Outcome, Ending, StatusInStep
<1> QED
  BY <1>1, OutcomeInvariant, PTL

\* No mark in the body of run is an illegal transition, whatever raised before
\* and however often the task was retried.
THEOREM MarksAlwaysLegal == Spec => []MarksLegal
<1>1. Init => MarksInStep
  BY DEF Init, MarksInStep
<1>2. MarksInStep => MarksLegal
  <2> SUFFICES ASSUME MarksInStep, NEW s \in DOMAIN Mark, stage = s PROVE Legal(task, Mark[s])
    BY DEF MarksLegal
  <2>1. /\ {"profiled", "abandoned"} \subseteq Transitions["received"]
        /\ {"running", "abandoned", "failed"} \subseteq Transitions["routed"]
        /\ {"evaluating", "failed"} \subseteq Transitions["running"]
        /\ {"completed", "failed"} \subseteq Transitions["evaluating"]
    BY DEF Transitions, TaskStatus
  <2>2. /\ s = "received" /\ Mark[s] = "profiled" /\ task.status = "received"
     \/ /\ s = "start" /\ Mark[s] = "running" /\ task.status = "routed"
     \/ /\ s = "judging" /\ Mark[s] = "evaluating" /\ task.status = "running"
     \/ /\ s \in {"retaining", "retrying", "failing"} /\ Mark[s] = "failed"
        /\ task.status \in {"routed", "running", "evaluating"}
     \/ /\ s = "completing" /\ Mark[s] = "completed" /\ task.status = "evaluating"
     \/ /\ s = "abandoning" /\ Mark[s] = "abandoned" /\ task.status = "routed"
    BY DEF Mark, MarksInStep
  <2> QED
    BY <2>1, <2>2 DEF Legal
<1> QED
  BY <1>1, <1>2, MarksKept, PTL DEF Spec

\* What run tells its caller is stored, and no mark out of turn has failed the task.
THEOREM OutcomeAlwaysTold == Spec => []OutcomeTold
<1> QED
  BY OutcomeAlwaysStored, MarksAlwaysLegal, PTL DEF OutcomeTold

\* A workspace nothing was done about belongs to a run that may be alive, but
\* for a baseline that could not be compared.
THEOREM NothingEverForgotten == Spec => []NothingForgotten
<1>1. Outcome => NothingForgotten
  BY DEF Outcome, Ending, TreesInStep, Left, NothingForgotten
<1> QED
  BY <1>1, OutcomeInvariant, PTL
=============================================================================
