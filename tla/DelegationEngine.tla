-------------------------- MODULE DelegationEngine --------------------------
(***************************************************************************)
(* Orchestrator._execute_delegation (orchestrator/engine.py) around the    *)
(* executor it calls: the batch approval, one worktree per child, the      *)
(* executor, the evaluation and delivery of the combined result, and the   *)
(* cleaning of the worktrees on every way out, with the status record of   *)
(* the task.  Git calls are synchronous, so what the engine does between   *)
(* two awaits is one step; each call may raise, and so may each write to   *)
(* the database.                                                           *)
(***************************************************************************)
EXTENDS DelegationExecutor, TaskRecord, Worktree

\* The calls considered include those the user's approval makes of them.
ASSUME GrantAssumption ==
  \A i \in Invocations :
    i.policed => [i EXCEPT !.approval = "granted"] \in Invocations

VARIABLES
  stage,        \* await the engine is suspended in
  task,         \* TaskRecord: status in memory and in the database
  readOnly,     \* does the task type need no write delivery?
  tree,         \* worktree of each child
  quarantined,  \* quarantined_ids
  root,         \* user's repository: as found, half delivered, or delivered
  staged        \* is a staging worktree of the combined result left?

engineVars == <<stage, task, readOnly, tree, quarantined, root, staged>>
executorVars == vars
allVars == <<executorVars, engineVars>>

Outcomes == {"completed", "failed", "abandoned"}

EngineInit ==
  /\ Init
  /\ args.policed /\ args.approval = "missing"
  /\ stage = "gate"
  /\ task = [status |-> "routed", stored |-> "routed"]
  /\ readOnly \in BOOLEAN
  /\ tree = [c \in Child |-> "none"]
  /\ quarantined = {}
  /\ root = "base"
  /\ staged = FALSE

-----------------------------------------------------------------------------
(* Worktrees. *)

\* Best effort over some children: an error is collected and the loop goes on.
CleanEach(children) ==
  tree' \in {t \in [Child -> TreeStates] :
               \A c \in Child :
                 t[c] \in IF c \in children THEN CleanResults(tree[c])
                                            ELSE {tree[c]}}

\* Every worktree cleaned, none raising.
CleanAllSucceeds == tree' = [c \in Child |-> "cleaned"]

\* One raises; the handler then cleans every worktree once more, best effort.
CleanAllRaises == CleanEach(Child)

-----------------------------------------------------------------------------
(* Before the executor. *)

\* No git repository was found when the engine was built.
WorkspaceUnavailable ==
  /\ stage = "gate"
  /\ stage' = "failing"
  /\ UNCHANGED <<executorVars, task, readOnly, tree, quarantined, root, staged>>

BatchAllowed(approval) ==
  \A offset \in 0..(Cardinality(Child) - 1) : AuthorizeSubmission(offset, approval)

\* The threshold needs an approval the user refuses or that cannot suffice.
BatchDenied ==
  /\ stage = "gate"
  /\ ~BatchAllowed("missing")
  /\ stage' = "abandoning"
  /\ UNCHANGED <<executorVars, task, readOnly, tree, quarantined, root, staged>>

BatchAuthorized ==
  \/ BatchAllowed("missing") /\ UNCHANGED args
  \/ /\ ~BatchAllowed("missing")
     /\ BatchAllowed("granted")
     /\ args' = [args EXCEPT !.approval = "granted"]

AllocateWorktrees ==
  /\ stage = "gate"
  /\ BatchAuthorized
  /\ tree' = [c \in Child |-> "active"]
  /\ stage' = "starting"
  /\ UNCHANGED <<phase, wave, decided, waveOf, budget, childVars,
                 task, readOnly, quarantined, root, staged>>

\* The root is dirty, or the allocation of some child raised: the worktrees
\* made before it are cleaned.
AllocationRaises ==
  /\ stage = "gate"
  /\ BatchAuthorized
  /\ \E made \in SUBSET Child :
       /\ made # Child
       /\ tree' \in {t \in [Child -> TreeStates] :
                       \A c \in Child :
                         t[c] \in IF c \in made THEN CleanResults("active")
                                                ELSE {"none"}}
  /\ stage' = "failing"
  /\ UNCHANGED <<phase, wave, decided, waveOf, budget, childVars,
                 task, readOnly, quarantined, root, staged>>

StartRunning ==
  /\ stage = "starting"
  /\ task' = Transitioned(task, "running")
  /\ stage' = "executing"
  /\ UNCHANGED <<executorVars, readOnly, tree, quarantined, root, staged>>

\* split_for_delegation, a baseline or the status write raised.
StartRaises ==
  /\ stage = "starting"
  /\ task' \in {task} \cup
       (IF DatabaseMayFail THEN {HalfTransitioned(task, "running")} ELSE {})
  /\ CleanEach(Child)
  /\ stage' = "failing"
  /\ UNCHANGED <<executorVars, readOnly, quarantined, root, staged>>

-----------------------------------------------------------------------------
(* After the executor. *)

ExecutorRuns ==
  /\ stage = "executing"
  /\ Next
  /\ UNCHANGED engineVars

\* Mutation: only an unconfirmed cancellation quarantines.
TimedOut == {c \in Child : execution[c].status = "timeout"}

\* Mutation: a retry is taken to have settled what its child left behind.
UnsafeAtFirst == {c \in Child : ~execution[c].safe /\ execution[c].attempt = 1}

UnsafeToCleanUp == {c \in Child : ~execution[c].safe}

ExecutorReturned ==
  /\ stage = "executing"
  /\ phase = "returned"
  /\ quarantined' = UnsafeToCleanUp
  /\ stage' = "persisting"
  /\ UNCHANGED <<executorVars, task, readOnly, tree, root, staged>>

\* execute raised: quarantined_ids was never assigned.
ExecutorRaised ==
  /\ stage = "executing"
  /\ phase = "raised"
  /\ CleanEach(Child \ quarantined)
  /\ stage' = "failing"
  /\ UNCHANGED <<executorVars, task, readOnly, quarantined, root, staged>>

UsagePersisted ==
  /\ stage = "persisting"
  /\ stage' = "judging"
  /\ UNCHANGED <<executorVars, task, readOnly, tree, quarantined, root, staged>>

UsageRaises ==
  /\ stage = "persisting"
  /\ DatabaseMayFail
  /\ CleanEach(Child \ quarantined)
  /\ stage' = "failing"
  /\ UNCHANGED <<executorVars, task, readOnly, quarantined, root, staged>>

\* Mutation: the child's own evaluation is not consulted.
AllCompleted == \A c \in Child : execution[c].status = "completed"

AllSucceeded == \A c \in Child : Succeeded(execution[c])

\* Mutation: a partial failure is recorded, and then once more as a failure.
EvaluationFailsTwice ==
  /\ stage = "judging"
  /\ IF AllSucceeded
     THEN /\ task' = Transitioned(task, "evaluating")
          /\ stage' = IF readOnly THEN "verifying" ELSE "staging"
          /\ UNCHANGED tree
     ELSE /\ task' = Transitioned(task, "failed")
          /\ CleanEach(Child \ quarantined)
          /\ stage' = "failing"
  /\ UNCHANGED <<executorVars, readOnly, quarantined, root, staged>>

\* mark_evaluating, then delegation_outcome is recorded.
EvaluationStarts ==
  /\ stage = "judging"
  /\ task' = Transitioned(task, "evaluating")
  /\ IF AllSucceeded
     THEN /\ stage' = IF readOnly THEN "verifying" ELSE "staging"
          /\ UNCHANGED tree
     ELSE /\ CleanEach(Child \ quarantined)
          /\ stage' = "failing"
  /\ UNCHANGED <<executorVars, readOnly, quarantined, root, staged>>

EvaluationStartRaises ==
  /\ stage = "judging"
  /\ DatabaseMayFail
  /\ task' \in {HalfTransitioned(task, "evaluating"),
                Transitioned(task, "evaluating")}
  /\ CleanEach(Child \ quarantined)
  /\ stage' = "failing"
  /\ UNCHANGED <<executorVars, readOnly, quarantined, root, staged>>

\* Read-only: the integrated gate and the baselines pass.
ReadOnlyAccepted ==
  /\ stage = "verifying"
  /\ CleanAllSucceeds
  /\ stage' = "completing"
  /\ UNCHANGED <<executorVars, task, readOnly, quarantined, root, staged>>

\* The gate or a baseline rejects the result, or cleaning raised.
ReadOnlyRejected ==
  /\ stage = "verifying"
  /\ CleanEach(Child)
  /\ stage' = "failing"
  /\ UNCHANGED <<executorVars, task, readOnly, quarantined, root, staged>>

\* commit_changes of every child and stage_batch, up to the await of the gate.
StageBatch ==
  /\ stage = "staging"
  /\ staged' = TRUE
  /\ stage' = "delivering"
  /\ UNCHANGED <<executorVars, task, readOnly, tree, quarantined, root>>

\* stage_batch tries to remove what it made before it raises.
StageRaises ==
  /\ stage = "staging"
  /\ staged' \in BOOLEAN
  /\ CleanEach(Child)
  /\ stage' = "failing"
  /\ UNCHANGED <<executorVars, task, readOnly, quarantined, root>>

\* The integrated gate failed or raised: discard_batch, then every worktree.
IntegratedEvalFails ==
  /\ stage = "delivering"
  /\ staged' \in BOOLEAN
  /\ CleanEach(Child)
  /\ stage' = "failing"
  /\ UNCHANGED <<executorVars, task, readOnly, quarantined, root>>

\* deliver_batch raised, before or after it moved the user's branch.
DeliverRaises ==
  /\ stage = "delivering"
  /\ staged' \in BOOLEAN
  /\ root' \in {"base", "partial"}
  /\ root' = "partial" => ~staged'
  /\ CleanEach(Child)
  /\ stage' = "failing"
  /\ UNCHANGED <<executorVars, task, readOnly, quarantined>>

DeliverBatch ==
  /\ stage = "delivering"
  /\ staged' = FALSE
  /\ root' = "delivered"
  /\ \/ CleanAllSucceeds /\ stage' = "completing"
     \/ CleanAllRaises   /\ stage' = "failing"
  /\ UNCHANGED <<executorVars, task, readOnly, quarantined>>

-----------------------------------------------------------------------------
(* Ways out: the last status write, in the engine or in run's handler. *)

MarkCompleted ==
  /\ stage = "completing"
  /\ task' = Transitioned(task, "completed")
  /\ stage' = "returned"
  /\ UNCHANGED <<executorVars, readOnly, tree, quarantined, root, staged>>

\* The handler cleans again (nothing is left) and marks the task failed.
MarkCompletedRaises ==
  /\ stage = "completing"
  /\ DatabaseMayFail
  /\ task' = HalfTransitioned(task, "completed")
  /\ stage' = "failing"
  /\ UNCHANGED <<executorVars, readOnly, tree, quarantined, root, staged>>

MarkFailed ==
  /\ stage = "failing"
  /\ Legal(task, "failed")
  /\ task' = Transitioned(task, "failed")
  /\ stage' = "returned"
  /\ UNCHANGED <<executorVars, readOnly, tree, quarantined, root, staged>>

MarkAbandoned ==
  /\ stage = "abandoning"
  /\ task' = Transitioned(task, "abandoned")
  /\ stage' = "returned"
  /\ UNCHANGED <<executorVars, readOnly, tree, quarantined, root, staged>>

\* The write raised.  run's handler then calls mark_failed, from a status that
\* does not allow it, so run raises.
MarkWriteRaises ==
  /\ DatabaseMayFail
  /\ \/ /\ stage = "failing"
        /\ Legal(task, "failed")
        /\ task' = HalfTransitioned(task, "failed")
     \/ /\ stage = "abandoning"
        /\ task' = HalfTransitioned(task, "abandoned")
  /\ stage' = "raised"
  /\ UNCHANGED <<executorVars, readOnly, tree, quarantined, root, staged>>

\* mark_failed of a task already completed in memory is an illegal transition,
\* and so is the one in run's handler.
MarkIllegal ==
  /\ stage = "failing"
  /\ ~Legal(task, "failed")
  /\ stage' = "raised"
  /\ UNCHANGED <<executorVars, task, readOnly, tree, quarantined, root, staged>>

Engine ==
  \/ WorkspaceUnavailable \/ BatchDenied \/ AllocateWorktrees
  \/ AllocationRaises \/ StartRunning \/ StartRaises
  \/ ExecutorReturned \/ ExecutorRaised
  \/ UsagePersisted \/ UsageRaises
  \/ EvaluationStarts \/ EvaluationStartRaises
  \/ ReadOnlyAccepted \/ ReadOnlyRejected
  \/ StageBatch \/ StageRaises
  \/ IntegratedEvalFails \/ DeliverRaises \/ DeliverBatch
  \/ MarkCompleted \/ MarkCompletedRaises \/ MarkFailed \/ MarkAbandoned
  \/ MarkWriteRaises \/ MarkIllegal

EngineNext == Engine \/ ExecutorRuns

EngineSpec == EngineInit /\ [][EngineNext]_allVars

\* As for the executor: the program's own steps are taken, and nothing is assumed
\* of what a child awaits.
EngineFairness ==
  /\ WF_allVars(Engine)
  /\ WF_allVars(stage = "executing" /\ Execute /\ UNCHANGED engineVars)
  /\ \A c \in Child :
       WF_allVars(stage = "executing" /\ Starts(c) /\ UNCHANGED engineVars)

FairEngineSpec == EngineSpec /\ EngineFairness

-----------------------------------------------------------------------------
(* Properties. *)

\* Every variable of the engine and of the executor has its type.
EngineTypeOK ==
  /\ TypeOK
  /\ stage \in {"gate", "starting", "executing", "persisting", "judging",
                "verifying", "staging", "delivering", "completing",
                "failing", "abandoning", "returned", "raised"}
  /\ task \in Records
  /\ readOnly \in BOOLEAN
  /\ tree \in [Child -> TreeStates]
  /\ quarantined \subseteq Child
  /\ root \in {"base", "partial", "delivered"}
  /\ staged \in BOOLEAN

\* README, lines 132-134: a worktree is rolled back and deleted only after the
\* runtime is confirmed to have terminated; otherwise it stays, quarantined.
CleanedOnlyQuiescent ==
  \A c \in Child : tree[c] \in Gone => unconfirmed[c] = {}

\* What the code does keep of it: a worktree is deleted beside a run that is
\* not known quiescent only if submit had raised for every such run, so that no
\* record ever said so; or execute raised and its records were lost with it; or
\* the run is the first attempt's alone, and the record that said so was replaced
\* by that of a second attempt, which left nothing behind.
QuarantineLostOnlyWithRecord ==
  \A c \in Child :
    LET lost == unconfirmed[c] \cap accepted[c]
    IN  tree[c] \in Gone
          => \/ lost = {}
             \/ phase = "raised"
             \/ execution[c].attempt = 2 /\ lost = {1}

\* The user's branch moves only for a write task all of whose children passed,
\* within the calls the approval allows: no partial success is delivered.
DeliveredOnlyVerified ==
  root # "base" =>
    /\ ~readOnly
    /\ \A c \in Child : Succeeded(execution[c])
    /\ budget.used + budget.reserved <= CallLimit

\* When run returns a summary, the database holds the outcome it reports, and
\* a completed task is delivered with no worktree or staging left behind.
SummaryIsStored ==
  stage = "returned" =>
    /\ task.stored = task.status
    /\ task.status \in Outcomes
    /\ task.status = "completed" =>
         /\ root = IF readOnly THEN "base" ELSE "delivered"
         /\ \A c \in Child : tree[c] = "cleaned"
         /\ ~staged

\* run raises only if a write to the database was lost, and then the database
\* lags behind: no failure of the runtime, of git or of an evaluation leads to an
\* illegal transition or is recorded twice.
RaisedOnlyIfWriteLost ==
  stage = "raised" => DatabaseMayFail /\ task.status # task.stored

\* Whichever way run ends, the outcome it tells its caller is stored: a summary is
\* what the database holds, and an exception means that a write was lost.
OutcomeStored == SummaryIsStored /\ RaisedOnlyIfWriteLost

\* On every way out, each allocated worktree was handed to clean unless it is
\* quarantined: none is forgotten.
NoWorktreeForgotten ==
  stage \in {"returned", "raised"} =>
    \A c \in Child : tree[c] = "active" => c \in quarantined

\* A worktree is in place, and stays, while its child may be working in it.
WorktreeOutlivesChild ==
  [][\A c \in Child :
       pc[c] \in Awaits => tree[c] = "active" /\ tree'[c] = "active"]_allVars

\* run returns a summary or raises unless some await of a child is never answered,
\* whatever the runtime answers otherwise, and whatever git and the database do.
EngineEndsIfAnswered ==
  (\A c \in Child, await \in Awaits : []<>(pc[c] # await))
    => <>(stage \in {"returned", "raised"})
=============================================================================
