-------------------------- MODULE SingleExecution --------------------------
(***************************************************************************)
(* Orchestrator.run, _execute and _execute_single (orchestrator/engine.py) *)
(* for a task on the single route: one workspace, one runtime call, one    *)
(* evaluation, and as many further attempts as the retry budget allows.    *)
(*                                                                         *)
(* One coroutine, so a step ends at the next await whose outcome decides   *)
(* where it goes; git calls are synchronous.  Every call may raise, and so *)
(* may each write to the database, which leaves the status in memory ahead *)
(* of the stored one.                                                      *)
(***************************************************************************)
EXTENDS CallBudget, TaskRecord, Worktree, FiniteSets

CONSTANTS SubmitMayStrand,    \* may submit raise although the run was accepted?
          DatabaseMayFail     \* may a write to the database raise?

ASSUME SingleFaultAssumption ==
  /\ SubmitMayStrand \in BOOLEAN
  /\ DatabaseMayFail \in BOOLEAN

VARIABLES
  stage,        \* await run is suspended in
  task,         \* TaskRecord: status in memory and in the database
  budget,       \* BudgetState, one for all attempts
  attempt,      \* retry_count + 1
  readOnly,     \* does the task type need no write delivery?
  workspace,    \* ExecutionWorkspace of each attempt
  accepted,     \* attempts for which submit returned a run handle
  unconfirmed,  \* attempts whose run is not known quiescent
  passed,       \* attempts whose evaluation passed
  root          \* user's repository: as found, half delivered, or delivered

runVars == <<accepted, unconfirmed>>
vars == <<stage, task, budget, attempt, readOnly, workspace, runVars, passed, root>>

Attempts == 1..(MaxRetries + 1)

Awaits == {"submit", "start", "stream", "wait", "quiesce", "judging",
           "cancel_start", "cancel_approval", "cancel_error"}

Init ==
  /\ stage = "received"
  /\ task = [status |-> "received", stored |-> "received"]
  /\ budget = FreshBudget
  /\ attempt = 1
  /\ readOnly \in BOOLEAN
  /\ workspace = [a \in Attempts |-> "none"]
  /\ accepted = {} /\ unconfirmed = {} /\ passed = {}
  /\ root = "base"

-----------------------------------------------------------------------------
(* Steps shared by several handlers. *)

Goto(next) == stage' = next

WorkspaceBecomes(state) == workspace' = [workspace EXCEPT ![attempt] = state]

\* workspace.rollback() of the attempt, then next; run's handler if it raises.
RollbackThen(next) ==
  \E state \in CleanResults(workspace[attempt]) :
    /\ WorkspaceBecomes(state)
    /\ Goto(IF state = "cleaned" THEN next ELSE "handling")

\* workspace.rollback() in a try whose handler, if it raises, tries once more
\* before run's handler gets the exception.
RollbackTwiceThen(next) ==
  \E state \in CleanResults(workspace[attempt]) :
    /\ WorkspaceBecomes(state)
    /\ \/ state = "cleaned" /\ Goto(next)
       \/ Goto("handling")

\* workspace.rollback() in an exception handler that raises in any case.
RollbackAndRaise ==
  /\ \E state \in CleanResults(workspace[attempt]) : WorkspaceBecomes(state)
  /\ Goto("handling")

Confirm == unconfirmed' = unconfirmed \ {attempt}

\* The status write of a transition raises, or a later write beside it does.
WriteRaises(to) ==
  /\ DatabaseMayFail
  /\ task' \in {HalfTransitioned(task, to), Transitioned(task, to)}

-----------------------------------------------------------------------------
(* Before the submission: run, _execute and the first part of              *)
(* _execute_single.                                                        *)

ProfileAndRoute ==
  /\ stage = "received"
  /\ task' = Transitioned(Transitioned(task, "profiled"), "routed")
  /\ Goto("preflight")
  /\ UNCHANGED <<budget, attempt, readOnly, workspace, runVars, passed, root>>

ProfileOrRouteRaises ==
  /\ stage = "received"
  /\ \/ WriteRaises("profiled")
     \/ /\ DatabaseMayFail
        /\ LET profiled == Transitioned(task, "profiled")
           IN  task' \in {HalfTransitioned(profiled, "routed"),
                          Transitioned(profiled, "routed")}
  /\ Goto("handling")
  /\ UNCHANGED <<budget, attempt, readOnly, workspace, runVars, passed, root>>

\* check_calls finds no call left, or the user declines the risk.
Declined ==
  /\ stage = "preflight"
  /\ Goto("abandoning")
  /\ UNCHANGED <<task, budget, attempt, readOnly, workspace, runVars, passed, root>>

\* Planning fails, or there is no repository to work in.
CannotExecute ==
  /\ stage = "preflight"
  /\ CanSubmitCalls(budget, 1)
  /\ Goto("failing")
  /\ UNCHANGED <<task, budget, attempt, readOnly, workspace, runVars, passed, root>>

\* The root is dirty or git refuses the worktree: what was made is removed.
CreateRaises ==
  /\ stage = "preflight"
  /\ CanSubmitCalls(budget, 1)
  /\ \E state \in {"none"} \cup CleanResults("active") : WorkspaceBecomes(state)
  /\ Goto("handling")
  /\ UNCHANGED <<task, budget, attempt, readOnly, runVars, passed, root>>

\* Does the policy let the call through, asking the user where it must?
MayBeAuthorized(approval) ==
  \/ AuthorizeSubmission(budget.used, "missing")
  \/ AuthorizeSubmission(budget.used, approval)

\* The workspace made before the question is rolled back.
SubmissionDenied ==
  /\ stage = "preflight"
  /\ CanSubmitCalls(budget, 1)
  /\ ~MayBeAuthorized("denied")
  /\ \E state \in CleanResults("active") :
       /\ WorkspaceBecomes(state)
       /\ Goto(IF state = "cleaned" THEN "abandoning" ELSE "handling")
  /\ UNCHANGED <<task, budget, attempt, readOnly, runVars, passed, root>>

\* The reservation cannot be refused: check_calls has just allowed it, and no
\* other coroutine shares this budget.
SubmissionAuthorized ==
  /\ stage = "preflight"
  /\ CanSubmitCalls(budget, 1)
  /\ MayBeAuthorized("granted")
  /\ WorkspaceBecomes("active")
  /\ budget' = Reserved(budget)
  /\ Goto("submit")
  /\ UNCHANGED <<task, attempt, readOnly, runVars, passed, root>>

SubmitReturns ==
  /\ stage = "submit"
  /\ accepted' = accepted \cup {attempt}
  /\ unconfirmed' = unconfirmed \cup {attempt}
  /\ budget' = CommitReserved(budget)
  /\ Goto("start")
  /\ UNCHANGED <<task, attempt, readOnly, workspace, passed, root>>

\* A baseline or a plan check before it raised, or submit itself did.
SubmitRaises ==
  /\ stage = "submit"
  /\ unconfirmed' \in {unconfirmed} \cup
       (IF SubmitMayStrand THEN {unconfirmed \cup {attempt}} ELSE {})
  /\ budget' = ReleaseReserved(budget)
  /\ RollbackAndRaise
  /\ UNCHANGED <<task, attempt, readOnly, accepted, passed, root>>

-----------------------------------------------------------------------------
(* While the run lives. *)

MarkRunning ==
  /\ stage = "start"
  /\ task' = Transitioned(task, "running")
  /\ Goto("stream")
  /\ UNCHANGED <<budget, attempt, readOnly, workspace, runVars, passed, root>>

MarkRunningRaises ==
  /\ stage = "start"
  /\ WriteRaises("running")
  /\ Goto("cancel_start")
  /\ UNCHANGED <<budget, attempt, readOnly, workspace, runVars, passed, root>>

\* The stream ends, or wait is reached through a completed or error event.
StreamEnds ==
  /\ stage = "stream"
  /\ Goto("wait")
  /\ UNCHANGED <<task, budget, attempt, readOnly, workspace, runVars, passed, root>>

ApprovalRequested ==
  /\ stage = "stream"
  /\ Goto("cancel_approval")
  /\ UNCHANGED <<task, budget, attempt, readOnly, workspace, runVars, passed, root>>

WaitReturns ==
  /\ stage = "wait"
  /\ Goto("quiesce")
  /\ UNCHANGED <<task, budget, attempt, readOnly, workspace, runVars, passed, root>>

\* The stream, the record of an event or wait raised, or wait returned a status
\* that is not terminal.
StreamOrWaitRaises ==
  /\ stage \in {"stream", "wait"}
  /\ Goto("cancel_error")
  /\ UNCHANGED <<task, budget, attempt, readOnly, workspace, runVars, passed, root>>

QuiesceCompleted ==
  /\ stage = "quiesce"
  /\ Confirm
  /\ Goto("judging")
  /\ UNCHANGED <<task, budget, attempt, readOnly, workspace, accepted, passed, root>>

\* The agent failed, timed out or was cancelled.
QuiesceUnsuccessful ==
  /\ stage = "quiesce"
  /\ Confirm
  /\ RollbackTwiceThen("failing")
  /\ UNCHANGED <<task, budget, attempt, readOnly, accepted, passed, root>>

\* Mutation: the error is logged and the answer used.
QuiesceErrorIgnored ==
  /\ stage = "quiesce"
  /\ Goto("judging")
  /\ UNCHANGED <<task, budget, attempt, readOnly, workspace, runVars, passed, root>>

\* The workspace is to be retained.
QuiesceRaises ==
  /\ stage = "quiesce"
  /\ Goto("retaining")
  /\ UNCHANGED <<task, budget, attempt, readOnly, workspace, runVars, passed, root>>

RetentionRecorded ==
  /\ stage = "retaining"
  /\ task' = Transitioned(task, "failed")
  /\ Goto("returned")
  /\ UNCHANGED <<budget, attempt, readOnly, workspace, runVars, passed, root>>

\* mark_failed raises inside the try whose handler rolls back: terminal_confirmed
\* was set before quiesce was tried.
RetentionWriteRaises ==
  /\ stage = "retaining"
  /\ WriteRaises("failed")
  /\ RollbackAndRaise
  /\ UNCHANGED <<budget, attempt, readOnly, runVars, passed, root>>

\* _cancel_and_confirm_terminal returned.
StartCancelConfirmed ==
  /\ stage = "cancel_start"
  /\ Confirm
  /\ RollbackAndRaise
  /\ UNCHANGED <<task, budget, attempt, readOnly, accepted, passed, root>>

ApprovalCancelConfirmed ==
  /\ stage = "cancel_approval"
  /\ Confirm
  /\ RollbackTwiceThen("failing")
  /\ UNCHANGED <<task, budget, attempt, readOnly, accepted, passed, root>>

ErrorCancelConfirmed ==
  /\ stage = "cancel_error"
  /\ Confirm
  /\ RollbackAndRaise
  /\ UNCHANGED <<task, budget, attempt, readOnly, accepted, passed, root>>

\* Mutation: the loop goes on to the next event.
ApprovalCancelSuppressed ==
  /\ stage = "cancel_approval"
  /\ Goto("stream")
  /\ UNCHANGED <<task, budget, attempt, readOnly, workspace, runVars, passed, root>>

\* The handler tries to cancel once more.
ApprovalCancelRaises ==
  /\ stage = "cancel_approval"
  /\ Goto("cancel_error")
  /\ UNCHANGED <<task, budget, attempt, readOnly, workspace, runVars, passed, root>>

\* Mutation: the workspace is rolled back all the same.
CancelErrorRollsBack ==
  /\ stage \in {"cancel_start", "cancel_error"}
  /\ RollbackAndRaise
  /\ UNCHANGED <<task, budget, attempt, readOnly, runVars, passed, root>>

\* Termination cannot be established: the workspace stays as it is.
CancelRaises ==
  /\ stage \in {"cancel_start", "cancel_error"}
  /\ Goto("handling")
  /\ UNCHANGED <<task, budget, attempt, readOnly, workspace, runVars, passed, root>>

-----------------------------------------------------------------------------
(* Evaluation, delivery and retry.  The usage, mark_evaluating, the gate    *)
(* and the record of its verdict are one await.                             *)

EvaluationPasses ==
  /\ stage = "judging"
  /\ ~IsOverBudget(budget)
  /\ task' = Transitioned(task, "evaluating")
  /\ passed' = passed \cup {attempt}
  /\ Goto("accepting")
  /\ UNCHANGED <<budget, attempt, readOnly, workspace, runVars, root>>

\* check_retries, asked once the workspace is rolled back.
AfterFailedEval == IF CheckRetries(budget) THEN "retrying" ELSE "failing"

\* Mutation: an error of the rollback is suppressed.
EvaluationFailsAnyway ==
  /\ stage = "judging"
  /\ task' = Transitioned(task, "evaluating")
  /\ \E state \in CleanResults(workspace[attempt]) : WorkspaceBecomes(state)
  /\ Goto(AfterFailedEval)
  /\ UNCHANGED <<budget, attempt, readOnly, runVars, passed, root>>

EvaluationFails ==
  /\ stage = "judging"
  /\ task' = Transitioned(task, "evaluating")
  /\ RollbackThen(AfterFailedEval)
  /\ UNCHANGED <<budget, attempt, readOnly, runVars, passed, root>>

\* usage, a write or the gate itself raised.
EvaluationRaises ==
  /\ stage = "judging"
  /\ \/ task' \in {task, Transitioned(task, "evaluating")}
     \/ WriteRaises("evaluating")
  /\ RollbackAndRaise
  /\ UNCHANGED <<budget, attempt, readOnly, runVars, passed, root>>

\* Repository or workspace differ from their baselines.
ReadOnlyMutated ==
  /\ stage = "accepting"
  /\ readOnly
  /\ \E state \in CleanResults(workspace[attempt]) : WorkspaceBecomes(state)
  /\ Goto("failing")
  /\ UNCHANGED <<task, budget, attempt, readOnly, runVars, passed, root>>

\* Comparing a baseline raises, outside every try of _execute_single.
BaselineRaises ==
  /\ stage = "accepting"
  /\ readOnly
  /\ Goto("handling")
  /\ UNCHANGED <<task, budget, attempt, readOnly, workspace, runVars, passed, root>>

\* integrate, or cleanup of a read-only task.
Integrate ==
  /\ stage = "accepting"
  /\ WorkspaceBecomes("cleaned")
  /\ root' = IF readOnly THEN root ELSE "delivered"
  /\ Goto("completing")
  /\ UNCHANGED <<task, budget, attempt, readOnly, runVars, passed>>

\* The path check, integrate or cleanup raised, before or after the user's
\* branch moved; the workspace is rolled back, which may raise too, as may the
\* check of the repository when the workspace is gone already.
IntegrateRaises ==
  /\ stage = "accepting"
  /\ root' \in IF readOnly THEN {root} ELSE {root, "partial", "delivered"}
  /\ \E state \in CleanResults(workspace[attempt]) :
       /\ WorkspaceBecomes(state)
       /\ \/ state = "cleaned" /\ Goto("failing")
          \/ Goto("handling")
  /\ UNCHANGED <<task, budget, attempt, readOnly, runVars, passed>>

\* Mutation: the record is not routed again.
RetryUnrouted ==
  /\ stage = "retrying"
  /\ task' = Transitioned(task, "retrying")
  /\ budget' = RetryUsed(budget)
  /\ attempt' = attempt + 1
  /\ Goto("preflight")
  /\ UNCHANGED <<readOnly, workspace, runVars, passed, root>>

\* mark_failed, mark_retry and mark_routed; _execute is entered again, with the
\* record and the budget of the first attempt and a workspace of its own.
Retry ==
  /\ stage = "retrying"
  /\ task' = Transitioned(task, "routed")
  /\ budget' = RetryUsed(budget)
  /\ attempt' = attempt + 1
  /\ Goto("preflight")
  /\ UNCHANGED <<readOnly, workspace, runVars, passed, root>>

RetryRaises ==
  /\ stage = "retrying"
  /\ LET failed   == Transitioned(task, "failed")
         retrying == Transitioned(task, "retrying")
     IN  \/ WriteRaises("failed") /\ UNCHANGED budget
         \/ /\ DatabaseMayFail
            /\ task' \in {HalfTransitioned(failed, "retrying"), retrying}
            /\ UNCHANGED budget
         \/ /\ DatabaseMayFail
            /\ task' \in {HalfTransitioned(retrying, "routed"),
                          Transitioned(retrying, "routed")}
            /\ budget' = RetryUsed(budget)
  /\ Goto("handling")
  /\ UNCHANGED <<attempt, readOnly, workspace, runVars, passed, root>>

-----------------------------------------------------------------------------
(* Ways out. *)

MarkCompleted ==
  /\ stage = "completing"
  /\ task' = Transitioned(task, "completed")
  /\ Goto("returned")
  /\ UNCHANGED <<budget, attempt, readOnly, workspace, runVars, passed, root>>

\* The handler's own mark_failed is then illegal.
MarkCompletedRaises ==
  /\ stage = "completing"
  /\ DatabaseMayFail
  /\ task' = HalfTransitioned(task, "completed")
  /\ Goto("handling")
  /\ UNCHANGED <<budget, attempt, readOnly, workspace, runVars, passed, root>>

MarkFailed ==
  /\ stage = "failing"
  /\ task' = Transitioned(task, "failed")
  /\ Goto("returned")
  /\ UNCHANGED <<budget, attempt, readOnly, workspace, runVars, passed, root>>

MarkAbandoned ==
  /\ stage = "abandoning"
  /\ task' = Transitioned(task, "abandoned")
  /\ Goto("returned")
  /\ UNCHANGED <<budget, attempt, readOnly, workspace, runVars, passed, root>>

MarkRaises ==
  /\ \/ stage = "failing" /\ WriteRaises("failed")
     \/ stage = "abandoning" /\ WriteRaises("abandoned")
  /\ Goto("handling")
  /\ UNCHANGED <<budget, attempt, readOnly, workspace, runVars, passed, root>>

\* run's handler: mark_failed, then the exception goes on to the caller.
HandlerRecords ==
  /\ stage = "handling"
  /\ Legal(task, "failed")
  /\ \/ task' = Transitioned(task, "failed")
     \/ WriteRaises("failed")
  /\ Goto("raised")
  /\ UNCHANGED <<budget, attempt, readOnly, workspace, runVars, passed, root>>

\* An illegal transition raises before anything is written.
HandlerCannotRecord ==
  /\ stage = "handling"
  /\ ~Legal(task, "failed")
  /\ Goto("raised")
  /\ UNCHANGED <<task, budget, attempt, readOnly, workspace, runVars, passed, root>>

BeforeSubmission ==
  \/ ProfileAndRoute \/ ProfileOrRouteRaises \/ Declined \/ CannotExecute
  \/ CreateRaises \/ SubmissionDenied \/ SubmissionAuthorized

RunLives ==
  \/ SubmitReturns \/ SubmitRaises \/ MarkRunning \/ MarkRunningRaises
  \/ StreamEnds \/ ApprovalRequested \/ WaitReturns \/ StreamOrWaitRaises
  \/ QuiesceCompleted \/ QuiesceUnsuccessful \/ QuiesceRaises
  \/ RetentionRecorded \/ RetentionWriteRaises
  \/ StartCancelConfirmed \/ ApprovalCancelConfirmed \/ ErrorCancelConfirmed
  \/ ApprovalCancelRaises \/ CancelRaises

AfterRun ==
  \/ EvaluationPasses \/ EvaluationFails \/ EvaluationRaises
  \/ ReadOnlyMutated \/ BaselineRaises \/ Integrate \/ IntegrateRaises
  \/ Retry \/ RetryRaises

WaysOut ==
  \/ MarkCompleted \/ MarkCompletedRaises \/ MarkFailed \/ MarkAbandoned
  \/ MarkRaises \/ HandlerRecords \/ HandlerCannotRecord

Next == BeforeSubmission \/ RunLives \/ AfterRun \/ WaysOut

Spec == Init /\ [][Next]_vars

\* run takes its own steps: the database, git and the gate's checks, which have
\* deadlines, come back.  Nothing is assumed of what the runtime is asked for:
\* events of the app-server has no deadline.
FairSpec == Spec /\ WF_vars(stage \notin Awaits /\ Next)

-----------------------------------------------------------------------------
(* Properties. *)

SingleTypeOK ==
  /\ stage \in Awaits \cup {"received", "preflight", "retaining", "accepting",
                            "retrying", "completing", "failing", "abandoning",
                            "handling", "returned", "raised"}
  /\ task \in Records
  /\ budget \in Budgets
  /\ attempt \in Attempts
  /\ readOnly \in BOOLEAN
  /\ workspace \in [Attempts -> TreeStates]
  /\ accepted \subseteq Attempts
  /\ unconfirmed \subseteq Attempts
  /\ passed \subseteq Attempts
  /\ root \in {"base", "partial", "delivered"}

\* Over all attempts, the calls counted are the runs the runtime accepted; one
\* is reserved exactly while a submission is out; and the limit holds.
CallsCounted ==
  /\ budget.used = Cardinality(accepted)
  /\ budget.reserved = (IF stage = "submit" THEN 1 ELSE 0)
  /\ budget.used + budget.reserved <= MaxTotalCalls

\* The user's branch moves only for a write task, in the attempt whose
\* evaluation passed, and when every run of the task is known to have ended.
MovedOnlyForVerified ==
  root # "base" => ~readOnly /\ attempt \in passed /\ unconfirmed = {}

\* A further attempt starts from a clean slate: the earlier runs have ended and
\* their workspaces are gone without an error; and while a run of this attempt
\* may live, its own workspace is in place.
FreshWorkspace ==
  stage \in Awaits \cup {"preflight"} =>
    /\ \A a \in 1..(attempt - 1) :
         workspace[a] = "cleaned" /\ a \notin unconfirmed /\ a \notin passed
    /\ stage \in Awaits => workspace[attempt] = "active"

\* README, lines 132-134: a workspace is rolled back and deleted only after the
\* runtime is confirmed to have terminated; otherwise it stays, quarantined.
RemovedOnlyQuiescent ==
  \A a \in Attempts : workspace[a] \in Gone => a \notin unconfirmed

\* What the code does keep of it: never when run returns a summary, and only if
\* the submission raised although the run was accepted, or the write that
\* records the retention raised, with the task already failed in memory.
RemovedBesideRunOnlyIfLost ==
  \A a \in Attempts :
    workspace[a] \in Gone /\ a \in unconfirmed =>
      /\ stage \in {"handling", "raised"}
      /\ a \in accepted => task.status = "failed"

\* A summary says what the database holds; a completed task passed its
\* evaluation, is delivered, and leaves no workspace.  When run raises instead,
\* the database shows the task failed, unless its last status write was lost or
\* the task was not routed yet.
OutcomeStored ==
  /\ stage = "returned" =>
       /\ task.stored = task.status
       /\ task.status \in {"completed", "failed", "abandoned"}
       /\ task.status = "completed" =>
            /\ attempt \in passed
            /\ root = IF readOnly THEN "base" ELSE "delivered"
            /\ \A a \in 1..attempt : workspace[a] = "cleaned"
  /\ stage = "raised" =>
       \/ task.stored \in {"failed", "abandoned"}
       \/ task.status # task.stored
       \/ task.status = "profiled"

\* The mark each stage is about to make; "retrying" goes on from failed to
\* retrying and routed, which the table always allows.
Mark == [received |-> "profiled", start |-> "running", judging |-> "evaluating",
         retaining |-> "failed", retrying |-> "failed", failing |-> "failed",
         completing |-> "completed", abandoning |-> "abandoned"]

\* transition never raises IllegalTransitionError in the body of run, whatever
\* raised before and however often the task was retried: only run's handler may
\* find the task in a status that cannot fail.
MarksLegal == \A s \in DOMAIN Mark : stage = s => Legal(task, Mark[s])

\* What run tells its caller is what happened: it is stored, and what failed the
\* task was the runtime, git or the database, never a mark made out of turn.
OutcomeTold == OutcomeStored /\ MarksLegal

\* On every way out, a workspace that nothing was done about belongs to a run
\* that may be alive, but for a baseline that could not be compared.
NothingForgotten ==
  stage \in {"returned", "raised"} =>
    \A a \in Attempts :
      workspace[a] = "active" =>
        a \in unconfirmed \/ (stage = "raised" /\ readOnly /\ a \in passed)

\* run returns a summary or raises unless some await of the runtime is never
\* answered, however often it is retried, and whatever fails.
SingleEndsIfAnswered ==
  (\A await \in Awaits : []<>(stage # await)) => <>(stage \in {"returned", "raised"})
=============================================================================
