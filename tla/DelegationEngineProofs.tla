----------------------- MODULE DelegationEngineProofs -----------------------
(***************************************************************************)
(* Theorems about DelegationEngine: the engine around the executor, for    *)
(* every finite set of children, every plan, budget and approval.  The     *)
(* executor's invariants are its own (DelegationExecutorProofs); here the  *)
(* engine is shown to leave them alone, and its stage is tied to the       *)
(* worktrees, the delivery and the record.                                 *)
(***************************************************************************)
EXTENDS DelegationEngine, DelegationExecutorProofs

\* The executor moves only while the engine awaits it.
Paused ==
  /\ stage # "executing" => phase \in {"starting", "returned", "raised"}
  /\ stage = "gate" => args.policed

Reached == {"verifying", "staging", "delivering", "completing"}
Undelivered == {"gate", "abandoning", "starting", "executing", "persisting", "judging",
                "verifying", "staging", "delivering"}

TreesInStep ==
  /\ stage \in {"gate", "abandoning"} => \A c \in Child : tree[c] = "none"
  /\ stage \in {"starting", "executing", "persisting", "judging"} =>
       \A c \in Child : tree[c] = "active"
  /\ stage = "completing" => \A c \in Child : tree[c] = "cleaned"
  /\ stage \in {"failing", "returned", "raised"} =>
       \A c \in Child : tree[c] = "active" => c \in quarantined

\* What was delivered is what had passed, and only at the end.
DeliveryInStep ==
  /\ stage \in Reached => AllSucceeded
  /\ stage \in {"staging", "delivering"} => ~readOnly
  /\ stage = "verifying" => readOnly
  /\ stage \in Undelivered => root = "base"
  /\ stage \in Undelivered \ {"delivering"} => ~staged
  /\ stage = "completing" => ~staged /\ root = IF readOnly THEN "base" ELSE "delivered"
  /\ root # "base" => ~readOnly /\ AllSucceeded

\* The record goes with the stage; ahead of the database it is only after a write
\* that raised, and only a completion that was not written cannot fail any more.
Open == {"routed", "running", "evaluating"}
RecordInStep ==
  /\ stage \in {"gate", "abandoning", "starting"} => task.status = "routed" /\ task.stored = "routed"
  /\ stage \in {"executing", "persisting", "judging"} =>
       task.status = "running" /\ task.stored = "running"
  /\ stage \in Reached => task.status = "evaluating" /\ task.stored = "evaluating"
  /\ stage = "failing" =>
       /\ task.stored \in Open
       /\ task.status \in Open \/ (task.status = "completed" /\ DatabaseMayFail)

\* EngineTypeOK without the executor's types, which are in Basic.
EngineTypes ==
  /\ stage \in {"gate", "starting", "executing", "persisting", "judging",
                "verifying", "staging", "delivering", "completing",
                "failing", "abandoning", "returned", "raised"}
  /\ task \in Records
  /\ readOnly \in BOOLEAN
  /\ tree \in [Child -> TreeStates]
  /\ quarantined \subseteq Child
  /\ root \in {"base", "partial", "delivered"}
  /\ staged \in BOOLEAN

EngineBasic ==
  /\ Basic /\ CallsWithinLimit
  /\ EngineTypes
  /\ Paused /\ TreesInStep /\ DeliveryInStep /\ SummaryIsStored
  /\ RecordInStep /\ RaisedOnlyIfWriteLost

-----------------------------------------------------------------------------
(* The worktrees. *)

\* Removing a worktree never leaves it active, and removing some leaves the
\* others alone.
LEMMA CleanEachResult ==
  ASSUME NEW children, CleanEach(children), tree \in [Child -> TreeStates]
  PROVE  /\ tree' \in [Child -> TreeStates]
         /\ \A c \in children \cap Child : tree'[c] # "active"
         /\ \A c \in Child \ children : tree'[c] = tree[c]
<1>1. \A state \in TreeStates : "active" \notin CleanResults(state)
  BY DEF TreeStates, CleanResults
<1> QED
  BY <1>1 DEF CleanEach

\* Allocation that raises leaves no worktree active.
LEMMA AllocationResult ==
  ASSUME AllocationRaises
  PROVE  tree' \in [Child -> TreeStates] /\ \A c \in Child : tree'[c] # "active"
<1>1. "active" \notin CleanResults("active")
  BY DEF CleanResults
<1>2. PICK made \in SUBSET Child :
        tree' \in {t \in [Child -> TreeStates] :
                     \A c \in Child : t[c] \in IF c \in made THEN CleanResults("active")
                                                             ELSE {"none"}}
  BY DEF AllocationRaises
<1> QED
  BY <1>1, <1>2

-----------------------------------------------------------------------------
(* The executor, seen from the engine. *)

\* The batch approval changes the arguments only, and only raises the limit.
LEMMA ApprovalKeepsExecutor ==
  ASSUME Basic, CallsWithinLimit, args.policed, BatchAuthorized,
         UNCHANGED <<phase, wave, decided, waveOf, budget, childVars>>
  PROVE  Basic' /\ CallsWithinLimit'
<1>1. CASE UNCHANGED args
  <2>1. UNCHANGED vars
    BY <1>1 DEF vars
  <2> QED
    BY <2>1, BasicStep, LimitStep
<1>2. CASE args' = [args EXCEPT !.approval = "granted"]
  <2>1. args \in Invocations
    BY DEF Basic, TypeOK
  <2>2. args' \in Invocations
    BY <1>2, <2>1, GrantAssumption
  <2>3. Basic'
    BY <2>2 DEF Basic, TypeOK, StatusKnown, WaveShape, ReservationsMatch, Submitting, childVars
  <2>4. args \in [plan : Plans, policed : BOOLEAN, approval : Approvals]
    BY <2>1, InvocationAssumption
  <2>5. args'.approval = "granted"
    BY <1>2, <2>4
  <2>6. CallLimit' = MaxTotalCalls /\ CallLimit <= MaxTotalCalls
    BY <2>5, BudgetAssumption DEF CallLimit
  <2>7. CallsWithinLimit'
    BY <2>6, CallLimitType, BudgetAssumption DEF CallsWithinLimit, Basic, TypeOK, Budgets
  <2> QED
    BY <2>3, <2>7
<1> QED
  BY <1>1, <1>2 DEF BatchAuthorized

\* No step of the engine disturbs the executor's invariants.
LEMMA ExecutorKept ==
  ASSUME Basic, CallsWithinLimit, Paused, [EngineNext]_allVars
  PROVE  Basic' /\ CallsWithinLimit'
<1>1. CASE AllocateWorktrees \/ AllocationRaises
  BY <1>1, ApprovalKeepsExecutor DEF AllocateWorktrees, AllocationRaises, Paused
<1>2. CASE ExecutorRuns
  BY <1>2, BasicStep, LimitStep DEF ExecutorRuns
<1>3. CASE UNCHANGED vars
  BY <1>3, BasicStep, LimitStep
<1>4. [EngineNext]_allVars =>
        AllocateWorktrees \/ AllocationRaises \/ ExecutorRuns \/ UNCHANGED vars
  BY DEF EngineNext, Engine, allVars, executorVars, WorkspaceUnavailable, BatchDenied,
         StartRunning, StartRaises, ExecutorReturned, ExecutorRaised, UsagePersisted,
         UsageRaises, EvaluationStarts, EvaluationStartRaises, ReadOnlyAccepted,
         ReadOnlyRejected, StageBatch, StageRaises, IntegratedEvalFails, DeliverRaises,
         DeliverBatch, MarkCompleted, MarkCompletedRaises, MarkFailed, MarkAbandoned,
         MarkWriteRaises, MarkIllegal
<1> QED
  BY <1>1, <1>2, <1>3, <1>4

-----------------------------------------------------------------------------
(* The engine's own state. *)

\* A status written, or written in memory only, is a status.
LEMMA RecordTypes ==
  ASSUME task \in Records, NEW to \in TaskStatus
  PROVE  Transitioned(task, to) \in Records /\ HalfTransitioned(task, to) \in Records
  BY DEF Records, Transitioned, HalfTransitioned

\* The task's record keeps its type.
LEMMA TaskTypes == EngineTypes /\ Engine => task' \in Records
<1> SUFFICES ASSUME EngineTypes, Engine PROVE task' \in Records
  OBVIOUS
<1>1. /\ task \in Records
      /\ \A to \in {"running", "evaluating", "completed", "failed", "abandoned"} :
           Transitioned(task, to) \in Records /\ HalfTransitioned(task, to) \in Records
  BY RecordTypes DEF EngineTypes, TaskStatus
<1> QED
  BY <1>1
     DEF Engine, WorkspaceUnavailable, BatchDenied, AllocateWorktrees, AllocationRaises,
          StartRunning, StartRaises, ExecutorReturned, ExecutorRaised, UsagePersisted,
          UsageRaises, EvaluationStarts, EvaluationStartRaises, ReadOnlyAccepted,
          ReadOnlyRejected, StageBatch, StageRaises, IntegratedEvalFails, DeliverRaises,
          DeliverBatch, MarkCompleted, MarkCompletedRaises, MarkFailed, MarkAbandoned,
          MarkWriteRaises, MarkIllegal

\* The worktrees keep their types and follow the stage, on every way out.
LEMMA TreesFollow ==
  EngineTypes /\ TreesInStep /\ Engine => tree' \in [Child -> TreeStates] /\ TreesInStep'
<1> SUFFICES ASSUME EngineTypes, TreesInStep, Engine
             PROVE  tree' \in [Child -> TreeStates] /\ TreesInStep'
  OBVIOUS
<1> USE DEF EngineTypes, TreesInStep
<1>1. CASE AllocateWorktrees
  BY <1>1 DEF AllocateWorktrees, TreeStates
<1>2. CASE AllocationRaises
  <2>1. tree' \in [Child -> TreeStates] /\ \A c \in Child : tree'[c] # "active"
    BY <1>2, AllocationResult
  <2> QED
    BY <1>2, <2>1 DEF AllocationRaises
<1>3. CASE CleanEach(Child) /\ stage' = "failing"
  BY <1>3, CleanEachResult
<1>4. CASE CleanEach(Child \ quarantined) /\ stage' = "failing" /\ quarantined' = quarantined
  BY <1>4, CleanEachResult
<1>5. CASE CleanAllSucceeds /\ stage' = "completing"
  BY <1>5 DEF CleanAllSucceeds, TreeStates
<1>6. CASE /\ tree' = tree
           /\ ~ AllocateWorktrees /\ ~ AllocationRaises
           /\ ~ (CleanEach(Child) /\ stage' = "failing")
           /\ ~ (CleanEach(Child \ quarantined) /\ stage' = "failing"
                                                  /\ quarantined' = quarantined)
           /\ ~ (CleanAllSucceeds /\ stage' = "completing")
  BY <1>6
     DEF Engine, CleanAllRaises, WorkspaceUnavailable, BatchDenied, AllocateWorktrees, AllocationRaises,
          StartRunning, StartRaises, ExecutorReturned, ExecutorRaised, UsagePersisted,
          UsageRaises, EvaluationStarts, EvaluationStartRaises, ReadOnlyAccepted,
          ReadOnlyRejected, StageBatch, StageRaises, IntegratedEvalFails, DeliverRaises,
          DeliverBatch, MarkCompleted, MarkCompletedRaises, MarkFailed, MarkAbandoned,
          MarkWriteRaises, MarkIllegal
<1>7. \/ AllocateWorktrees \/ AllocationRaises
      \/ CleanEach(Child) /\ stage' = "failing"
      \/ CleanEach(Child \ quarantined) /\ stage' = "failing" /\ quarantined' = quarantined
      \/ CleanAllSucceeds /\ stage' = "completing"
      \/ tree' = tree
  BY DEF Engine, CleanAllRaises, WorkspaceUnavailable, BatchDenied, AllocateWorktrees, AllocationRaises,
          StartRunning, StartRaises, ExecutorReturned, ExecutorRaised, UsagePersisted,
          UsageRaises, EvaluationStarts, EvaluationStartRaises, ReadOnlyAccepted,
          ReadOnlyRejected, StageBatch, StageRaises, IntegratedEvalFails, DeliverRaises,
          DeliverBatch, MarkCompleted, MarkCompletedRaises, MarkFailed, MarkAbandoned,
          MarkWriteRaises, MarkIllegal
<1> QED
  BY <1>1, <1>2, <1>3, <1>4, <1>5, <1>6, <1>7

\* The engine leaves the records of the children alone.
LEMMA EngineLeavesRecords ==
  ASSUME Engine
  PROVE  /\ UNCHANGED <<phase, budget, childVars>>
         /\ stage' \in Reached =>
              \/ stage \in Reached
              \/ stage = "judging" /\ AllSucceeded
  BY DEF Engine, Reached, executorVars, vars, childVars, WorkspaceUnavailable, BatchDenied, AllocateWorktrees, AllocationRaises,
          StartRunning, StartRaises, ExecutorReturned, ExecutorRaised, UsagePersisted,
          UsageRaises, EvaluationStarts, EvaluationStartRaises, ReadOnlyAccepted,
          ReadOnlyRejected, StageBatch, StageRaises, IntegratedEvalFails, DeliverRaises,
          DeliverBatch, MarkCompleted, MarkCompletedRaises, MarkFailed, MarkAbandoned,
          MarkWriteRaises, MarkIllegal

\* The delivery follows the stage.
LEMMA DeliveryFollows == EngineTypes /\ DeliveryInStep /\ Engine => DeliveryInStep'
<1> SUFFICES ASSUME EngineTypes, DeliveryInStep, Engine PROVE DeliveryInStep'
  OBVIOUS
<1>1. AllSucceeded' = AllSucceeded
  BY EngineLeavesRecords DEF AllSucceeded, childVars
<1>2. stage' \in Reached => AllSucceeded'
  BY <1>1, EngineLeavesRecords DEF DeliveryInStep
<1>3. root' # "base" => ~readOnly' /\ AllSucceeded'
  BY <1>1
     DEF DeliveryInStep, Reached, Engine, WorkspaceUnavailable, BatchDenied, AllocateWorktrees, AllocationRaises,
          StartRunning, StartRaises, ExecutorReturned, ExecutorRaised, UsagePersisted,
          UsageRaises, EvaluationStarts, EvaluationStartRaises, ReadOnlyAccepted,
          ReadOnlyRejected, StageBatch, StageRaises, IntegratedEvalFails, DeliverRaises,
          DeliverBatch, MarkCompleted, MarkCompletedRaises, MarkFailed, MarkAbandoned,
          MarkWriteRaises, MarkIllegal
<1>4. /\ stage' \in {"staging", "delivering"} => ~readOnly'
      /\ stage' = "verifying" => readOnly'
  BY DEF DeliveryInStep, EngineTypes, Engine, WorkspaceUnavailable, BatchDenied, AllocateWorktrees, AllocationRaises,
          StartRunning, StartRaises, ExecutorReturned, ExecutorRaised, UsagePersisted,
          UsageRaises, EvaluationStarts, EvaluationStartRaises, ReadOnlyAccepted,
          ReadOnlyRejected, StageBatch, StageRaises, IntegratedEvalFails, DeliverRaises,
          DeliverBatch, MarkCompleted, MarkCompletedRaises, MarkFailed, MarkAbandoned,
          MarkWriteRaises, MarkIllegal
<1>5. /\ stage' \in Undelivered => root' = "base"
      /\ stage' \in Undelivered \ {"delivering"} => ~staged'
  BY DEF DeliveryInStep, Undelivered, EngineTypes, Engine, WorkspaceUnavailable, BatchDenied, AllocateWorktrees, AllocationRaises,
          StartRunning, StartRaises, ExecutorReturned, ExecutorRaised, UsagePersisted,
          UsageRaises, EvaluationStarts, EvaluationStartRaises, ReadOnlyAccepted,
          ReadOnlyRejected, StageBatch, StageRaises, IntegratedEvalFails, DeliverRaises,
          DeliverBatch, MarkCompleted, MarkCompletedRaises, MarkFailed, MarkAbandoned,
          MarkWriteRaises, MarkIllegal
<1>6. stage' = "completing" => ~staged' /\ root' = IF readOnly' THEN "base" ELSE "delivered"
  BY DEF DeliveryInStep, Undelivered, EngineTypes, Engine, WorkspaceUnavailable, BatchDenied, AllocateWorktrees, AllocationRaises,
          StartRunning, StartRaises, ExecutorReturned, ExecutorRaised, UsagePersisted,
          UsageRaises, EvaluationStarts, EvaluationStartRaises, ReadOnlyAccepted,
          ReadOnlyRejected, StageBatch, StageRaises, IntegratedEvalFails, DeliverRaises,
          DeliverBatch, MarkCompleted, MarkCompletedRaises, MarkFailed, MarkAbandoned,
          MarkWriteRaises, MarkIllegal
<1> QED
  BY <1>2, <1>3, <1>4, <1>5, <1>6 DEF DeliveryInStep

\* A summary is returned by the write that stores its outcome, and a task is
\* completed only with everything delivered and removed.
LEMMA SummaryFollows ==
  EngineTypes /\ TreesInStep /\ DeliveryInStep /\ SummaryIsStored /\ Engine => SummaryIsStored'
<1> SUFFICES ASSUME EngineTypes, TreesInStep, DeliveryInStep, Engine, stage' = "returned"
             PROVE  SummaryIsStored'
  BY DEF SummaryIsStored
<1>1. CASE MarkCompleted
  BY <1>1 DEF MarkCompleted, SummaryIsStored, Outcomes, Transitioned, TreesInStep,
              DeliveryInStep
<1>2. CASE MarkFailed
  BY <1>2 DEF MarkFailed, SummaryIsStored, Outcomes, Transitioned
<1>3. CASE MarkAbandoned
  BY <1>3 DEF MarkAbandoned, SummaryIsStored, Outcomes, Transitioned
<1>4. MarkCompleted \/ MarkFailed \/ MarkAbandoned
  BY DEF Engine, WorkspaceUnavailable, BatchDenied, AllocateWorktrees, AllocationRaises,
          StartRunning, StartRaises, ExecutorReturned, ExecutorRaised, UsagePersisted,
          UsageRaises, EvaluationStarts, EvaluationStartRaises, ReadOnlyAccepted,
          ReadOnlyRejected, StageBatch, StageRaises, IntegratedEvalFails, DeliverRaises,
          DeliverBatch, MarkCompleted, MarkCompletedRaises, MarkFailed, MarkAbandoned,
          MarkWriteRaises, MarkIllegal
<1> QED
  BY <1>1, <1>2, <1>3, <1>4

\* A task that is not over can fail.
LEMMA OpenMayFail ==
  \A record \in Records : record.status \in Open => Legal(record, "failed")
BY DEF Legal, Open, Records, Transitions, TaskStatus

\* The record follows the stage, and run raises only behind a write that did.
LEMMA RecordFollows ==
  EngineTypes /\ RecordInStep /\ RaisedOnlyIfWriteLost /\ Engine =>
    RecordInStep' /\ RaisedOnlyIfWriteLost'
<1> SUFFICES ASSUME EngineTypes, RecordInStep, RaisedOnlyIfWriteLost, Engine
             PROVE  RecordInStep' /\ RaisedOnlyIfWriteLost'
  OBVIOUS
<1> USE DEF RecordInStep, RaisedOnlyIfWriteLost, Reached, Open, Transitioned, HalfTransitioned
<1>1. CASE \/ WorkspaceUnavailable \/ BatchDenied \/ AllocateWorktrees \/ AllocationRaises
           \/ StartRunning \/ StartRaises
  BY <1>1 DEF WorkspaceUnavailable, BatchDenied, AllocateWorktrees, AllocationRaises,
              StartRunning, StartRaises
<1>2. CASE \/ ExecutorReturned \/ ExecutorRaised \/ UsagePersisted \/ UsageRaises
           \/ EvaluationStarts \/ EvaluationStartRaises
  BY <1>2 DEF ExecutorReturned, ExecutorRaised, UsagePersisted, UsageRaises, EvaluationStarts,
              EvaluationStartRaises
<1>3. CASE \/ ReadOnlyAccepted \/ ReadOnlyRejected \/ StageBatch \/ StageRaises
           \/ IntegratedEvalFails \/ DeliverRaises \/ DeliverBatch
  BY <1>3 DEF ReadOnlyAccepted, ReadOnlyRejected, StageBatch, StageRaises, IntegratedEvalFails,
              DeliverRaises, DeliverBatch
<1>4. CASE MarkCompleted \/ MarkCompletedRaises \/ MarkFailed \/ MarkAbandoned \/ MarkWriteRaises
  BY <1>4 DEF MarkCompleted, MarkCompletedRaises, MarkFailed, MarkAbandoned, MarkWriteRaises
<1>5. CASE MarkIllegal
  <2>1. task.status \notin Open
    BY <1>5, OpenMayFail DEF MarkIllegal, EngineTypes
  <2> QED
    BY <1>5, <2>1 DEF MarkIllegal
<1> QED
  BY <1>1, <1>2, <1>3, <1>4, <1>5 DEF Engine

\* The other variables keep their types, and the executor is left paused.
LEMMA EngineFollows ==
  EngineTypes /\ TreesInStep /\ Paused /\ Engine => EngineTypes' /\ Paused'
<1> SUFFICES ASSUME EngineTypes, TreesInStep, Paused, Engine PROVE EngineTypes' /\ Paused'
  OBVIOUS
<1>1. task' \in Records /\ tree' \in [Child -> TreeStates]
  BY TaskTypes, TreesFollow
<1>2. /\ stage' \in {"gate", "starting", "executing", "persisting", "judging",
                     "verifying", "staging", "delivering", "completing",
                     "failing", "abandoning", "returned", "raised"}
      /\ readOnly' \in BOOLEAN /\ quarantined' \subseteq Child
      /\ root' \in {"base", "partial", "delivered"}
  BY DEF EngineTypes, UnsafeToCleanUp, Engine, WorkspaceUnavailable, BatchDenied, AllocateWorktrees, AllocationRaises,
          StartRunning, StartRaises, ExecutorReturned, ExecutorRaised, UsagePersisted,
          UsageRaises, EvaluationStarts, EvaluationStartRaises, ReadOnlyAccepted,
          ReadOnlyRejected, StageBatch, StageRaises, IntegratedEvalFails, DeliverRaises,
          DeliverBatch, MarkCompleted, MarkCompletedRaises, MarkFailed, MarkAbandoned,
          MarkWriteRaises, MarkIllegal
<1>3. staged' \in BOOLEAN
  BY DEF EngineTypes, Engine, WorkspaceUnavailable, BatchDenied, AllocateWorktrees, AllocationRaises,
          StartRunning, StartRaises, ExecutorReturned, ExecutorRaised, UsagePersisted,
          UsageRaises, EvaluationStarts, EvaluationStartRaises, ReadOnlyAccepted,
          ReadOnlyRejected, StageBatch, StageRaises, IntegratedEvalFails, DeliverRaises,
          DeliverBatch, MarkCompleted, MarkCompletedRaises, MarkFailed, MarkAbandoned,
          MarkWriteRaises, MarkIllegal
<1>4. Paused'
  BY DEF Paused, EngineTypes, executorVars, vars, Engine, WorkspaceUnavailable, BatchDenied, AllocateWorktrees, AllocationRaises,
          StartRunning, StartRaises, ExecutorReturned, ExecutorRaised, UsagePersisted,
          UsageRaises, EvaluationStarts, EvaluationStartRaises, ReadOnlyAccepted,
          ReadOnlyRejected, StageBatch, StageRaises, IntegratedEvalFails, DeliverRaises,
          DeliverBatch, MarkCompleted, MarkCompletedRaises, MarkFailed, MarkAbandoned,
          MarkWriteRaises, MarkIllegal
<1> QED
  BY <1>1, <1>2, <1>3, <1>4 DEF EngineTypes

-----------------------------------------------------------------------------
(* The theorems. *)

\* The first state of a delegation.
LEMMA EngineBasicInit == EngineInit => EngineBasic
<1> SUFFICES ASSUME EngineInit PROVE EngineBasic
  OBVIOUS
<1>1. Basic /\ CallsWithinLimit
  BY BasicInit, CallLimitType DEF EngineInit, Init, FreshBudget, CallsWithinLimit
<1>2. EngineTypes
  BY DEF EngineInit, EngineTypes, Records, TaskStatus, TreeStates
<1>3. Paused /\ TreesInStep /\ DeliveryInStep /\ SummaryIsStored
  BY DEF EngineInit, Init, Paused, TreesInStep, DeliveryInStep, SummaryIsStored, Reached,
         Undelivered
<1>4. RecordInStep /\ RaisedOnlyIfWriteLost
  BY DEF EngineInit, RecordInStep, RaisedOnlyIfWriteLost, Reached
<1> QED
  BY <1>1, <1>2, <1>3, <1>4 DEF EngineBasic

\* Every step keeps the invariant.
LEMMA EngineBasicStep == EngineBasic /\ [EngineNext]_allVars => EngineBasic'
<1> SUFFICES ASSUME EngineBasic, [EngineNext]_allVars PROVE EngineBasic'
  OBVIOUS
<1>1. Basic' /\ CallsWithinLimit'
  BY ExecutorKept DEF EngineBasic
<1>2. CASE Engine
  BY <1>1, <1>2, EngineFollows, TreesFollow, DeliveryFollows, SummaryFollows, RecordFollows
  DEF EngineBasic
<1>3. CASE ExecutorRuns
  <2>1. stage = "executing" /\ UNCHANGED engineVars
    BY <1>3 DEF ExecutorRuns
  <2> QED
    BY <1>1, <2>1
       DEF EngineBasic, EngineTypes, Paused, TreesInStep, DeliveryInStep, SummaryIsStored,
           RecordInStep, RaisedOnlyIfWriteLost, engineVars, Reached, Undelivered
<1>4. CASE UNCHANGED allVars
  BY <1>1, <1>4
     DEF EngineBasic, EngineTypes, Paused, TreesInStep, DeliveryInStep, SummaryIsStored,
         RecordInStep, RaisedOnlyIfWriteLost, allVars, engineVars, executorVars, vars, childVars, AllSucceeded, Succeeded
<1> QED
  BY <1>2, <1>3, <1>4 DEF EngineNext

\* Executor and engine, together.
THEOREM EngineInvariant == EngineSpec => []EngineBasic
  BY EngineBasicInit, EngineBasicStep, PTL DEF EngineSpec

\* Every variable of the engine and of the executor it runs keeps its type.
THEOREM EngineTypeCorrect == EngineSpec => []EngineTypeOK
<1>1. EngineBasic => EngineTypeOK
  BY DEF EngineBasic, EngineTypes, EngineTypeOK, Basic
<1> QED
  BY <1>1, EngineInvariant, PTL

\* The user's branch moves only for a write task all of whose children passed,
\* within the calls the approval allows.
THEOREM DeliveredAlwaysVerified == EngineSpec => []DeliveredOnlyVerified
<1>1. EngineBasic => DeliveredOnlyVerified
  BY DEF EngineBasic, DeliveryInStep, DeliveredOnlyVerified, AllSucceeded, CallsWithinLimit
<1> QED
  BY <1>1, EngineInvariant, PTL

\* The summary run returns is what the database holds, and a completed task is
\* delivered with nothing left behind.
THEOREM SummaryAlwaysStored == EngineSpec => []SummaryIsStored
<1>1. EngineBasic => SummaryIsStored
  BY DEF EngineBasic
<1> QED
  BY <1>1, EngineInvariant, PTL

\* run raises only behind a write to the database that was lost, whatever the
\* runtime, git and the evaluation did.
THEOREM RaisedAlwaysWriteLost == EngineSpec => []RaisedOnlyIfWriteLost
<1>1. EngineBasic => RaisedOnlyIfWriteLost
  BY DEF EngineBasic
<1> QED
  BY <1>1, EngineInvariant, PTL

\* Whichever way run ends, the outcome it tells its caller is in the database,
\* unless the exception stands for the write that was lost.
THEOREM OutcomeAlwaysStored == EngineSpec => []OutcomeStored
<1> QED
  BY SummaryAlwaysStored, RaisedAlwaysWriteLost, PTL DEF OutcomeStored

\* On every way out each worktree was handed to clean unless it is quarantined.
THEOREM NoWorktreeEverForgotten == EngineSpec => []NoWorktreeForgotten
<1>1. EngineBasic => NoWorktreeForgotten
  BY DEF EngineBasic, TreesInStep, NoWorktreeForgotten
<1> QED
  BY <1>1, EngineInvariant, PTL

\* A worktree is in place, and stays, while its child may be working in it.
THEOREM WorktreeAlwaysOutlivesChild == EngineSpec => WorktreeOutlivesChild
<1> DEFINE Outlives ==
      \A c \in Child : pc[c] \in Awaits => tree[c] = "active" /\ tree'[c] = "active"
<1>1. EngineBasic /\ [EngineNext]_allVars => [Outlives]_allVars
  <2> SUFFICES ASSUME EngineBasic, EngineNext, NEW c \in Child, pc[c] \in Awaits
               PROVE  tree[c] = "active" /\ tree'[c] = "active"
    OBVIOUS
  <2>1. phase \in {"running", "retrying"}
    BY DEF EngineBasic, Basic, WaveShape, Awaits
  <2>2. stage = "executing" /\ tree[c] = "active"
    BY <2>1 DEF EngineBasic, Paused, TreesInStep
  <2>3. tree' = tree
    <3>1. CASE ExecutorRuns
      BY <3>1 DEF ExecutorRuns, engineVars
    <3>2. CASE Engine
      BY <2>1, <2>2, <3>2 DEF Engine, WorkspaceUnavailable, BatchDenied, AllocateWorktrees, AllocationRaises,
          StartRunning, StartRaises, ExecutorReturned, ExecutorRaised, UsagePersisted,
          UsageRaises, EvaluationStarts, EvaluationStartRaises, ReadOnlyAccepted,
          ReadOnlyRejected, StageBatch, StageRaises, IntegratedEvalFails, DeliverRaises,
          DeliverBatch, MarkCompleted, MarkCompletedRaises, MarkFailed, MarkAbandoned,
          MarkWriteRaises, MarkIllegal
    <3> QED
      BY <3>1, <3>2 DEF EngineNext
  <2> QED
    BY <2>2, <2>3
<1> QED
  BY <1>1, EngineInvariant, PTL DEF EngineSpec, WorktreeOutlivesChild

-----------------------------------------------------------------------------
(* The quarantine.                                                         *)

\* Once execute returned, the quarantine is what its records make of it, and no
\* worktree under it goes.  No child has run before the executor is called.
QuarantineInStep ==
  /\ stage \in {"gate", "abandoning", "starting"} => phase = "starting"
  /\ phase = "returned" /\ stage # "executing" => quarantined = UnsafeToCleanUp
  /\ phase = "returned" => \A c \in Child : tree[c] \in Gone => c \notin quarantined

\* The engine's invariant with the executor's records.
EngineRecorded == EngineBasic /\ Attributed /\ QuarantineInStep

\* The batch approval concerns no record.
LEMMA ApprovalKeepsRecords ==
  ASSUME EngineRecorded, stage = "gate", BatchAuthorized,
         UNCHANGED <<phase, wave, decided, waveOf, budget, childVars>>
  PROVE  Attributed'
<1>1. Basic'
  BY ApprovalKeepsExecutor DEF EngineRecorded, EngineBasic, Paused
<1>2. args'.plan = args.plan
  <2>1. args \in [plan : Plans, policed : BOOLEAN, approval : Approvals]
    BY InvocationAssumption DEF EngineRecorded, EngineBasic, Basic, TypeOK
  <2> QED
    BY <2>1 DEF BatchAuthorized
<1>3. Recorded /\ RecordsFit /\ NoneBegun
  BY DEF EngineRecorded, Attributed
<1>4. SuccessIsDone' /\ RunsInStep' /\ LastAttemptQuarantined'
  BY <1>3 DEF Recorded, childVars, SuccessIsDone, RunsInStep, Attempt, LastAttemptQuarantined,
     Succeeded
<1>5. RetriesInStep' /\ CallsAreRuns'
  <2>1. UNCHANGED <<phase, wave, decided, waveOf, budget, pc, execution, accepted>>
    BY DEF childVars
  <2>2. SecondAttempts' = SecondAttempts
    BY <2>1 DEF SecondAttempts, Underway
  <2>3. RetriesAccounted'
    BY <1>3, <2>1, <2>2, SameSecondAttempts DEF Recorded, RetriesInStep
  <2> QED
    BY <1>3, <2>1, <2>3 DEF Recorded, RetriesInStep, WavesInStep, CallsAreRuns
<1>6. SkippedOnlyBelowFailure'
  BY <1>2, <1>3 DEF Recorded, childVars, SkippedOnlyBelowFailure, Succeeded
<1>7. RecordsFit' /\ NoneBegun'
  BY <1>3 DEF RecordsFit, NoneBegun, childVars
<1> QED
  BY <1>1, <1>4, <1>5, <1>6, <1>7 DEF Attributed, Recorded

\* No step of the engine disturbs the records.
LEMMA RecordsKeptByEngine ==
  ASSUME EngineRecorded, [EngineNext]_allVars
  PROVE  Attributed'
<1>1. CASE AllocateWorktrees \/ AllocationRaises
  BY <1>1, ApprovalKeepsRecords DEF AllocateWorktrees, AllocationRaises
<1>2. CASE [Next]_vars
  BY <1>2, AttributedStep DEF EngineRecorded
<1>3. AllocateWorktrees \/ AllocationRaises \/ [Next]_vars
  BY DEF EngineNext, ExecutorRuns, allVars, Engine, executorVars, WorkspaceUnavailable, BatchDenied, AllocateWorktrees,
     AllocationRaises, StartRunning, StartRaises, ExecutorReturned, ExecutorRaised,
     UsagePersisted, UsageRaises, EvaluationStarts, EvaluationStartRaises,
     ReadOnlyAccepted, ReadOnlyRejected, StageBatch, StageRaises, IntegratedEvalFails,
     DeliverRaises, DeliverBatch, MarkCompleted, MarkCompletedRaises, MarkFailed,
     MarkAbandoned, MarkWriteRaises, MarkIllegal
<1> QED
  BY <1>1, <1>2, <1>3

\* With every child passed, nothing is quarantined.
LEMMA NothingQuarantined ==
  ASSUME EngineRecorded, phase = "returned", stage \in Reached
  PROVE  quarantined = {}
<1>1. \A c \in Child : execution[c].safe
  BY DEF EngineRecorded, EngineBasic, DeliveryInStep, AllSucceeded, Succeeded, Attributed,
     RecordsFit
<1> QED
  BY <1>1 DEF EngineRecorded, QuarantineInStep, UnsafeToCleanUp, Reached

\* The quarantine holds on every way out.
LEMMA QuarantineFollows ==
  ASSUME EngineRecorded, Engine
  PROVE  QuarantineInStep'
<1> USE DEF EngineRecorded
<1>1. /\ phase' = phase /\ execution' = execution
      /\ UnsafeToCleanUp' = UnsafeToCleanUp
  BY EngineLeavesRecords DEF childVars, UnsafeToCleanUp
<1>2. stage' \in {"gate", "abandoning", "starting"} => phase' = "starting"
  BY <1>1 DEF QuarantineInStep, Engine, executorVars, WorkspaceUnavailable, BatchDenied, AllocateWorktrees,
     AllocationRaises, StartRunning, StartRaises, ExecutorReturned, ExecutorRaised,
     UsagePersisted, UsageRaises, EvaluationStarts, EvaluationStartRaises,
     ReadOnlyAccepted, ReadOnlyRejected, StageBatch, StageRaises, IntegratedEvalFails,
     DeliverRaises, DeliverBatch, MarkCompleted, MarkCompletedRaises, MarkFailed,
     MarkAbandoned, MarkWriteRaises, MarkIllegal
<1>3. stage' # "executing" /\ phase' = "returned" => quarantined' = UnsafeToCleanUp'
  BY <1>1 DEF QuarantineInStep, Engine, executorVars, WorkspaceUnavailable, BatchDenied, AllocateWorktrees,
     AllocationRaises, StartRunning, StartRaises, ExecutorReturned, ExecutorRaised,
     UsagePersisted, UsageRaises, EvaluationStarts, EvaluationStartRaises,
     ReadOnlyAccepted, ReadOnlyRejected, StageBatch, StageRaises, IntegratedEvalFails,
     DeliverRaises, DeliverBatch, MarkCompleted, MarkCompletedRaises, MarkFailed,
     MarkAbandoned, MarkWriteRaises, MarkIllegal
<1>4. ASSUME phase = "returned", NEW c \in Child, tree'[c] \in Gone
      PROVE  c \notin quarantined'
  <2>1. stage \notin {"gate", "abandoning", "starting"}
    BY <1>4 DEF QuarantineInStep
  <2>2. tree \in [Child -> TreeStates]
    BY DEF EngineBasic, EngineTypes
  <2>3. CASE stage \in Reached
    <3>1. quarantined = {}
      BY <1>4, <2>3, NothingQuarantined
    <3>2. quarantined' = quarantined
      BY <2>3 DEF Reached, Engine, executorVars, WorkspaceUnavailable, BatchDenied, AllocateWorktrees,
     AllocationRaises, StartRunning, StartRaises, ExecutorReturned, ExecutorRaised,
     UsagePersisted, UsageRaises, EvaluationStarts, EvaluationStartRaises,
     ReadOnlyAccepted, ReadOnlyRejected, StageBatch, StageRaises, IntegratedEvalFails,
     DeliverRaises, DeliverBatch, MarkCompleted, MarkCompletedRaises, MarkFailed,
     MarkAbandoned, MarkWriteRaises, MarkIllegal
    <3> QED
      BY <3>1, <3>2
  <2>4. CASE stage \in {"executing", "persisting", "judging"}
    <3>1. tree[c] = "active"
      BY <2>4 DEF EngineBasic, TreesInStep
    <3>2. tree' = tree \/ (CleanEach(Child \ quarantined) /\ quarantined' = quarantined)
      BY <1>4, <2>4 DEF Engine, executorVars, WorkspaceUnavailable, BatchDenied, AllocateWorktrees,
     AllocationRaises, StartRunning, StartRaises, ExecutorReturned, ExecutorRaised,
     UsagePersisted, UsageRaises, EvaluationStarts, EvaluationStartRaises,
     ReadOnlyAccepted, ReadOnlyRejected, StageBatch, StageRaises, IntegratedEvalFails,
     DeliverRaises, DeliverBatch, MarkCompleted, MarkCompletedRaises, MarkFailed,
     MarkAbandoned, MarkWriteRaises, MarkIllegal
    <3>3. tree'[c] # tree[c]
      BY <1>4, <3>1 DEF Gone
    <3> QED
      BY <2>2, <3>2, <3>3, CleanEachResult
  <2>5. CASE stage \in {"failing", "returned", "raised"}
    <3>1. UNCHANGED <<tree, quarantined>>
      BY <2>5 DEF Engine, executorVars, WorkspaceUnavailable, BatchDenied, AllocateWorktrees,
     AllocationRaises, StartRunning, StartRaises, ExecutorReturned, ExecutorRaised,
     UsagePersisted, UsageRaises, EvaluationStarts, EvaluationStartRaises,
     ReadOnlyAccepted, ReadOnlyRejected, StageBatch, StageRaises, IntegratedEvalFails,
     DeliverRaises, DeliverBatch, MarkCompleted, MarkCompletedRaises, MarkFailed,
     MarkAbandoned, MarkWriteRaises, MarkIllegal
    <3> QED
      BY <1>4, <3>1 DEF QuarantineInStep
  <2> QED
    BY <2>1, <2>3, <2>4, <2>5 DEF EngineBasic, EngineTypes, Reached
<1> QED
  BY <1>1, <1>2, <1>3, <1>4 DEF QuarantineInStep

\* Engine, executor and records, together.
LEMMA EngineRecordedInvariant == EngineSpec => []EngineRecorded
<1>1. EngineInit => EngineRecorded
  BY EngineBasicInit, AttributedInit DEF EngineInit, Init, EngineRecorded, QuarantineInStep
<1>2. EngineRecorded /\ [EngineNext]_allVars => EngineRecorded'
  <2> SUFFICES ASSUME EngineRecorded, [EngineNext]_allVars PROVE EngineRecorded'
    OBVIOUS
  <2>1. EngineBasic' /\ Attributed'
    BY EngineBasicStep, RecordsKeptByEngine DEF EngineRecorded
  <2>2. CASE Engine
    BY <2>1, <2>2, QuarantineFollows DEF EngineRecorded
  <2>3. CASE ExecutorRuns
    <3>1. stage = "executing" /\ stage' = stage /\ tree' = tree
      BY <2>3 DEF ExecutorRuns, engineVars
    <3>2. \A c \in Child : tree'[c] \notin Gone
      BY <3>1 DEF EngineRecorded, EngineBasic, TreesInStep, Gone
    <3> QED
      BY <2>1, <3>1, <3>2 DEF EngineRecorded, QuarantineInStep
  <2>4. CASE UNCHANGED allVars
    BY <2>1, <2>4
       DEF EngineRecorded, QuarantineInStep, UnsafeToCleanUp, allVars, engineVars,
           executorVars, vars, childVars
  <2> QED
    BY <2>2, <2>3, <2>4 DEF EngineNext
<1> QED
  BY <1>1, <1>2, PTL DEF EngineSpec

\* The worktree of a child is deleted beside a run not known quiescent only if
\* submit had raised for every such run, or execute raised and its records were
\* lost with it, or the run is the first attempt's and a second one, which left
\* nothing behind, replaced the record that said so.
THEOREM QuarantineAlwaysLostWithRecord == EngineSpec => []QuarantineLostOnlyWithRecord
<1>1. EngineRecorded => QuarantineLostOnlyWithRecord
  <2> DEFINE lost(c) == unconfirmed[c] \cap accepted[c]
  <2> SUFFICES ASSUME EngineRecorded, NEW c \in Child, tree[c] \in Gone,
                      lost(c) # {}, phase # "raised"
               PROVE  execution[c].attempt = 2 /\ lost(c) = {1}
    BY DEF QuarantineLostOnlyWithRecord
  <2> USE DEF EngineRecorded
  <2>1. stage # "executing" /\ phase \in {"starting", "returned"}
    BY DEF EngineBasic, Paused, TreesInStep, Gone
  <2>2. TypeOK /\ WaveShape /\ RunsInStep /\ LastAttemptQuarantined
    BY DEF Attributed, Recorded, Basic
  <2>3. lost(c) \subseteq {1, 2} /\ execution[c].attempt \in {1, 2}
    BY <2>2 DEF TypeOK, Attempts, Executions
  <2>4. pc[c] = "done"
    <3>1. pc[c] \in {"idle", "done"}
      BY <2>1, <2>2 DEF WaveShape
    <3>2. pc[c] # "idle"
      BY <2>2, <2>3 DEF RunsInStep
    <3> QED
      BY <3>1, <3>2
  <2>5. phase = "returned"
    BY <2>1, <2>4 DEF Attributed, NoneBegun
  <2>6. execution[c].safe
    BY <2>1, <2>5 DEF QuarantineInStep, UnsafeToCleanUp
  <2>7. execution[c].attempt \notin lost(c)
    BY <2>2, <2>4, <2>6 DEF LastAttemptQuarantined
  <2>8. CASE execution[c].attempt = 1
    <3>1. accepted[c] \subseteq {1}
      BY <2>4, <2>8 DEF Attributed, RecordsFit
    <3> QED
      BY <2>7, <2>8, <3>1
  <2>9. CASE execution[c].attempt = 2
    BY <2>3, <2>7, <2>9
  <2> QED
    BY <2>3, <2>8, <2>9
<1> QED
  BY <1>1, EngineRecordedInvariant, PTL
=============================================================================
