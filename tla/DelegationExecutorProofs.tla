---------------------- MODULE DelegationExecutorProofs ----------------------
(***************************************************************************)
(* Theorems about DelegationExecutor for every finite set of children,     *)
(* every dependency plan, every budget and every approval.                 *)
(*                                                                         *)
(* Types and reservations stand or fall together: calls_reserved stays a   *)
(* natural number only because it counts the children suspended in submit. *)
(* So one inductive invariant, Basic, carries both, together with what the *)
(* shape of a wave says about every coroutine.                             *)
(***************************************************************************)
EXTENDS DelegationExecutor, FiniteSetTheorems, TLAPS

-----------------------------------------------------------------------------
(* What one step of a child does to everything but the budget.             *)

\* _run_child writes a record of the right type and leaves the wave alone.
LEMMA ReturnType ==
  ASSUME TypeOK, NEW c \in Child, NEW status \in TerminalStatus,
         NEW passed \in BOOLEAN, NEW safe \in BOOLEAN,
         Return(c, status, passed, safe)
  PROVE  /\ pc' = [pc EXCEPT ![c] = "done"]
         /\ agentStatus' \in [Child -> TerminalStatus \cup {"none"}]
         /\ execution' \in [Child -> Executions]
         /\ \A d \in Child \ {c} : /\ execution'[d] = execution[d]
                                   /\ agentStatus'[d] = agentStatus[d]
         /\ UNCHANGED <<args, phase, wave, decided, waveOf, accepted>>
<1> DEFINE current == [status |-> status, passed |-> passed, safe |-> safe,
                       attempt |-> Attempt, runs |-> accepted[c] \cap {Attempt}]
<1>1. current \in Executions
  BY DEF TypeOK, Attempt, Attempts, Executions
<1>2. MergeRetryAttempts(execution[c], current) \in Executions
  BY <1>1 DEF TypeOK, MergeRetryAttempts, Executions
<1>3. /\ execution' \in [Child -> Executions]
      /\ \A d \in Child \ {c} : execution'[d] = execution[d]
  BY <1>1, <1>2 DEF Return, TypeOK
<1> QED
  BY <1>3 DEF Return, TypeOK

\* A child that awaits quiesce still holds the status its wait returned, which
\* its record will carry.
StatusKnown == \A c \in Child : pc[c] = "quiesce" => agentStatus[c] # "none"

\* The parts of a state that the steps of child c can and cannot touch.
ChildFrame(c) ==
  /\ pc[c] \notin {"idle", "done"}
  /\ pc' \in [Child -> {"start", "idle", "done"} \cup Awaits]
  /\ pc'[c] # "idle"
  /\ \A d \in Child \ {c} : /\ pc'[d] = pc[d]
                            /\ execution'[d] = execution[d]
                            /\ agentStatus'[d] = agentStatus[d]
  /\ pc'[c] = "done" \/ execution' = execution
  /\ pc'[c] = "quiesce" => agentStatus'[c] # "none"
  /\ agentStatus' \in [Child -> TerminalStatus \cup {"none"}]
  /\ execution' \in [Child -> Executions]
  /\ accepted' \in [Child -> SUBSET Attempts]
  /\ unconfirmed' \in [Child -> SUBSET Attempts]
  /\ UNCHANGED <<args, phase, wave, decided, waveOf>>

\* What a child's step does to the shared budget: nothing, or one of the three
\* calls of BudgetState, each with the matching move into or out of submit.
BudgetKept ==
  /\ UNCHANGED budget
  /\ Submitting' = Submitting

Reserves(c) ==
  /\ c \notin Submitting
  /\ Authorized
  /\ CanSubmitCalls(budget, 1)
  /\ budget' = Reserved(budget)
  /\ Submitting' = Submitting \cup {c}

Commits(c) ==
  /\ c \in Submitting
  /\ budget' = CommitReserved(budget)
  /\ Submitting' = Submitting \ {c}

Releases(c) ==
  /\ c \in Submitting
  /\ budget' = ReleaseReserved(budget)
  /\ Submitting' = Submitting \ {c}

BudgetEffect(c) == BudgetKept \/ Reserves(c) \/ Commits(c) \/ Releases(c)

\* Every return of _run_child has the frame, and gives up nobody's reservation
\* unless the child was suspended in submit.
LEMMA ReturnFrame ==
  ASSUME TypeOK, NEW c \in Child, NEW status \in TerminalStatus,
         NEW passed \in BOOLEAN, NEW safe \in BOOLEAN,
         pc[c] \notin {"idle", "done"},
         unconfirmed' \in [Child -> SUBSET Attempts],
         Return(c, status, passed, safe)
  PROVE  /\ ChildFrame(c)
         /\ Submitting' = Submitting \ {c}
<1>1. /\ pc' = [pc EXCEPT ![c] = "done"]
      /\ agentStatus' \in [Child -> TerminalStatus \cup {"none"}]
      /\ execution' \in [Child -> Executions]
      /\ \A d \in Child \ {c} : /\ execution'[d] = execution[d]
                                /\ agentStatus'[d] = agentStatus[d]
      /\ UNCHANGED <<args, phase, wave, decided, waveOf, accepted>>
  BY ReturnType
<1>2. ChildFrame(c)
  BY <1>1 DEF ChildFrame, TypeOK
<1>3. Submitting' = Submitting \ {c}
  BY <1>1 DEF Submitting, TypeOK
<1> QED
  BY <1>2, <1>3

\* A step that only suspends child c in another await.
LEMMA MoveFrame ==
  ASSUME TypeOK, NEW c \in Child, NEW from \in Awaits \ {"submit"},
         NEW to \in Awaits \ {"submit", "quiesce"}, Move(c, from, to)
  PROVE  ChildFrame(c) /\ BudgetKept
<1>1. ChildFrame(c)
  BY DEF Move, Suspend, ChildFrame, TypeOK, Awaits
<1>2. BudgetKept
  BY DEF Move, Suspend, BudgetKept, Submitting, TypeOK, Awaits
<1> QED
  BY <1>1, <1>2

\* Recording or confirming a run keeps the type of unconfirmed.
LEMMA ConfirmType ==
  ASSUME TypeOK, NEW c \in Child, Confirm(c)
  PROVE  unconfirmed' \in [Child -> SUBSET Attempts]
BY DEF Confirm, TypeOK

\* Every step of _run_child has the frame and one of the budget's effects.
LEMMA RunChildEffect ==
  ASSUME TypeOK, StatusKnown, NEW c \in Child, RunChild(c)
  PROVE  ChildFrame(c) /\ BudgetEffect(c)
<1> USE DEF TerminalStatus
<1>1. CASE SubmissionDenied(c)
  <2>1. /\ ChildFrame(c)
        /\ Submitting' = Submitting \ {c}
    BY <1>1, ReturnFrame DEF SubmissionDenied, TypeOK
  <2>2. c \notin Submitting
    BY <1>1 DEF SubmissionDenied, Submitting
  <2> QED
    BY <1>1, <2>1, <2>2 DEF SubmissionDenied, BudgetEffect, BudgetKept
<1>2. CASE ReservationRefused(c)
  <2>1. /\ ChildFrame(c)
        /\ Submitting' = Submitting \ {c}
    BY <1>2, ReturnFrame DEF ReservationRefused, TypeOK
  <2>2. c \notin Submitting
    BY <1>2 DEF ReservationRefused, Submitting
  <2> QED
    BY <1>2, <2>1, <2>2 DEF ReservationRefused, BudgetEffect, BudgetKept
<1>3. CASE ReserveCall(c)
  <2>1. ChildFrame(c)
    BY <1>3 DEF ReserveCall, Suspend, ChildFrame, TypeOK, Awaits
  <2>2. Reserves(c)
    BY <1>3 DEF ReserveCall, Suspend, Reserves, Submitting, TypeOK
  <2> QED
    BY <2>1, <2>2 DEF BudgetEffect
<1>4. CASE SubmitReturns(c)
  <2>1. accepted' \in [Child -> SUBSET Attempts]
    BY <1>4 DEF SubmitReturns, TypeOK, Attempt, Attempts
  <2>2. unconfirmed' \in [Child -> SUBSET Attempts]
    BY <1>4 DEF SubmitReturns, TypeOK, Attempt, Attempts
  <2>3. ChildFrame(c)
    BY <1>4, <2>1, <2>2 DEF SubmitReturns, Suspend, ChildFrame, TypeOK, Awaits
  <2>4. Commits(c)
    BY <1>4 DEF SubmitReturns, Suspend, Commits, Submitting, TypeOK
  <2> QED
    BY <2>3, <2>4 DEF BudgetEffect
<1>5. CASE SubmitRaises(c)
  <2>1. unconfirmed' \in [Child -> SUBSET Attempts]
    BY <1>5 DEF SubmitRaises, TypeOK, Attempt, Attempts
  <2>2. /\ ChildFrame(c)
        /\ Submitting' = Submitting \ {c}
    BY <1>5, <2>1, ReturnFrame DEF SubmitRaises
  <2>3. Releases(c)
    BY <1>5, <2>2 DEF SubmitRaises, Releases, Submitting
  <2> QED
    BY <2>2, <2>3 DEF BudgetEffect
<1>6. CASE StreamEnds(c)
  BY <1>6, MoveFrame DEF StreamEnds, BudgetEffect, Awaits
<1>7. CASE StreamRaises(c)
  BY <1>7, MoveFrame DEF StreamRaises, BudgetEffect, Awaits
<1>8. CASE ApprovalRequested(c)
  BY <1>8, MoveFrame DEF ApprovalRequested, BudgetEffect, Awaits
<1>9. CASE WaitReturns(c)
  <2>1. agentStatus' \in [Child -> TerminalStatus \cup {"none"}]
    BY <1>9 DEF WaitReturns, TypeOK
  <2>2. ChildFrame(c)
    BY <1>9, <2>1 DEF WaitReturns, Suspend, ChildFrame, TypeOK, Awaits
  <2>3. BudgetKept
    BY <1>9 DEF WaitReturns, Suspend, BudgetKept, Submitting, TypeOK
  <2> QED
    BY <2>2, <2>3 DEF BudgetEffect
<1>10. CASE WaitRaises(c)
  BY <1>10, MoveFrame DEF WaitRaises, BudgetEffect, Awaits
<1>11. CASE QuiesceReturns(c)
  <2>1. unconfirmed' \in [Child -> SUBSET Attempts]
    BY <1>11, ConfirmType DEF QuiesceReturns
  <2>2. c \notin Submitting /\ UNCHANGED budget
    BY <1>11 DEF QuiesceReturns, Submitting
  <2>3. CASE agentStatus[c] = "completed"
    <3>1. ChildFrame(c)
      BY <1>11, <2>1, <2>3
      DEF QuiesceReturns, Suspend, ChildFrame, TypeOK, Awaits
    <3>2. Submitting' = Submitting
      BY <1>11, <2>3 DEF QuiesceReturns, Suspend, Submitting, TypeOK
    <3> QED
      BY <2>2, <3>1, <3>2 DEF BudgetEffect, BudgetKept
  <2>4. CASE agentStatus[c] # "completed"
    <3>1. Return(c, agentStatus[c], FALSE, TRUE)
      BY <1>11, <2>4 DEF QuiesceReturns
    <3>2. agentStatus[c] \in TerminalStatus
      BY <1>11 DEF QuiesceReturns, StatusKnown, TypeOK
    <3> QED
      BY <1>11, <2>1, <2>2, <3>1, <3>2, ReturnFrame
      DEF QuiesceReturns, BudgetEffect, BudgetKept
  <2> QED
    BY <2>3, <2>4
<1>12. CASE QuiesceRaises(c)
  <2>1. agentStatus[c] \in TerminalStatus
    BY <1>12 DEF QuiesceRaises, StatusKnown, TypeOK
  <2>2. /\ ChildFrame(c)
        /\ Submitting' = Submitting \ {c}
    BY <1>12, <2>1, ReturnFrame DEF QuiesceRaises, TypeOK
  <2> QED
    BY <1>12, <2>2 DEF QuiesceRaises, BudgetEffect, BudgetKept, Submitting
<1>13. CASE EvaluationPasses(c)
  <2>1. /\ ChildFrame(c)
        /\ Submitting' = Submitting \ {c}
    BY <1>13, ReturnFrame DEF EvaluationPasses, TypeOK
  <2> QED
    BY <1>13, <2>1 DEF EvaluationPasses, BudgetEffect, BudgetKept, Submitting
<1>14. CASE EvaluationFails(c)
  <2>1. /\ ChildFrame(c)
        /\ Submitting' = Submitting \ {c}
    BY <1>14, ReturnFrame DEF EvaluationFails, TypeOK
  <2> QED
    BY <1>14, <2>1 DEF EvaluationFails, BudgetEffect, BudgetKept, Submitting
<1>15. CASE CancelConfirmed(c)
  <2>1. unconfirmed' \in [Child -> SUBSET Attempts]
    BY <1>15, ConfirmType DEF CancelConfirmed
  <2>2. /\ ChildFrame(c)
        /\ Submitting' = Submitting \ {c}
    BY <1>15, <2>1, ReturnFrame DEF CancelConfirmed
  <2> QED
    BY <1>15, <2>2 DEF CancelConfirmed, BudgetEffect, BudgetKept, Submitting
<1>16. CASE ApprovalCancelRaises(c)
  BY <1>16, MoveFrame DEF ApprovalCancelRaises, BudgetEffect, Awaits
<1>17. CASE ErrorCancelRaises(c)
  <2>1. /\ ChildFrame(c)
        /\ Submitting' = Submitting \ {c}
    BY <1>17, ReturnFrame DEF ErrorCancelRaises, TypeOK
  <2> QED
    BY <1>17, <2>1 DEF ErrorCancelRaises, BudgetEffect, BudgetKept, Submitting
<1> QED
  BY <1>1, <1>2, <1>3, <1>4, <1>5, <1>6, <1>7, <1>8, <1>9, <1>10, <1>11,
     <1>12, <1>13, <1>14, <1>15, <1>16, <1>17 DEF RunChild

-----------------------------------------------------------------------------
(* The shape of a wave.                                                    *)

\* Only the children of the current wave have a coroutine that can still move:
\* those decided have returned or never started, those pending are untouched.
WaveShape ==
  /\ phase \in {"running", "retrying"} \/ wave = {}
  /\ wave \cap decided = {}
  /\ \A c \in wave : pc[c] # "idle"
  /\ \A c \in decided : pc[c] \in {"idle", "done"}
  /\ \A c \in Child : pc[c] # "idle" => c \in wave \cup decided

Basic == TypeOK /\ StatusKnown /\ WaveShape /\ ReservationsMatch

\* A step of execute itself reserves nothing and gives nothing back.
LEMMA ExecuteEffect ==
  ASSUME TypeOK, WaveShape, Execute
  PROVE  /\ Submitting' = Submitting
         /\ budget' \in {budget, RetryUsed(budget)}
         /\ UNCHANGED <<args, agentStatus, accepted, unconfirmed>>
<1>1. CASE DispatchWave
  <2>1. \A c \in Ready : pc[c] = "idle"
    BY DEF Ready, Pending, WaveShape
  <2>2. Submitting' = Submitting
    BY <1>1, <2>1 DEF DispatchWave, Submitting, TypeOK
  <2> QED
    BY <1>1, <2>2 DEF DispatchWave
<1>2. CASE RetryFailed
  <2>1. \A c \in FailedInWave : pc[c] = "done"
    BY <1>2 DEF RetryFailed, WaveDone, FailedInWave
  <2>2. Submitting' = Submitting
    BY <1>2, <2>1 DEF RetryFailed, Submitting, TypeOK
  <2> QED
    BY <1>2, <2>2 DEF RetryFailed
<1>3. CASE DelegationStarted \/ FailUnready \/ CollectWave
           \/ DelegationCompleted \/ TelemetryRaises
  BY <1>3 DEF DelegationStarted, FailUnready, CollectWave,
     DelegationCompleted, TelemetryRaises, childVars, Submitting
<1> QED
  BY <1>1, <1>2, <1>3 DEF Execute

\* The children suspended in submit are finitely many.
LEMMA SubmittingFinite ==
  /\ IsFiniteSet(Submitting)
  /\ Cardinality(Submitting) \in Nat
  /\ \A c \in Submitting : Cardinality(Submitting) >= 1
<1>1. Submitting \in SUBSET Child
  BY DEF Submitting
<1>2. IsFiniteSet(Submitting)
  BY <1>1, ChildAssumption, FS_Subset
<1>3. Cardinality(Submitting) \in Nat
  BY <1>2, FS_CardinalityType
<1>4. Cardinality(Submitting) = 0 <=> Submitting = {}
  BY <1>2, FS_EmptySet
<1> QED
  BY <1>2, <1>3, <1>4

\* Each effect on the budget keeps its types and the count of reservations.
LEMMA BudgetEffectKeeps ==
  ASSUME budget \in Budgets, ReservationsMatch, NEW c \in Child, BudgetEffect(c)
  PROVE  budget' \in Budgets /\ ReservationsMatch'
<1>1. CASE BudgetKept
  BY <1>1 DEF BudgetKept, ReservationsMatch
<1>2. CASE Reserves(c)
  <2>1. Cardinality(Submitting') = Cardinality(Submitting) + 1
    BY <1>2, SubmittingFinite, FS_AddElement DEF Reserves
  <2> QED
    BY <1>2, <2>1 DEF Reserves, Reserved, Budgets, ReservationsMatch
<1>3. CASE Commits(c) \/ Releases(c)
  <2>1. Cardinality(Submitting') = Cardinality(Submitting) - 1
    BY <1>3, SubmittingFinite, FS_RemoveElement DEF Commits, Releases
  <2>2. Cardinality(Submitting) >= 1
    BY <1>3, SubmittingFinite DEF Commits, Releases
  <2>3. budget.reserved - 1 \in Nat
    BY <2>2, SubmittingFinite DEF ReservationsMatch
  <2> QED
    BY <1>3, <2>1, <2>3 DEF Commits, Releases, CommitReserved,
       ReleaseReserved, Budgets, ReservationsMatch
<1> QED
  BY <1>1, <1>2, <1>3 DEF BudgetEffect

\* The executor begins within its invariant.
LEMMA BasicInit == Init => Basic
<1> SUFFICES ASSUME Init PROVE Basic
  OBVIOUS
<1>1. TypeOK
  BY InvocationAssumption
  DEF Init, TypeOK, FreshBudget, Budgets, NotRun, Executions, TerminalStatus,
      Attempts
<1>2. StatusKnown /\ WaveShape
  BY DEF Init, StatusKnown, WaveShape
<1>3. ReservationsMatch
  <2>1. Submitting = {}
    BY DEF Init, Submitting
  <2> QED
    BY <2>1, FS_EmptySet DEF Init, FreshBudget, ReservationsMatch
<1> QED
  BY <1>1, <1>2, <1>3 DEF Basic

\* A step of a child keeps the types, the reservations and the wave's shape.
LEMMA BasicRunChild ==
  ASSUME Basic, NEW c \in Child, RunChild(c)
  PROVE  Basic'
<1>1. ChildFrame(c) /\ BudgetEffect(c)
  BY RunChildEffect DEF Basic
<1>2. budget' \in Budgets /\ ReservationsMatch'
  BY <1>1, BudgetEffectKeeps DEF Basic, TypeOK
<1>3. TypeOK'
  BY <1>1, <1>2 DEF Basic, TypeOK, ChildFrame
<1>4. StatusKnown'
  BY <1>1 DEF Basic, StatusKnown, ChildFrame
<1>5. c \in wave /\ c \notin decided
  BY <1>1 DEF Basic, WaveShape, ChildFrame
<1>6. WaveShape'
  BY <1>1, <1>5 DEF Basic, WaveShape, ChildFrame, TypeOK
<1> QED
  BY <1>2, <1>3, <1>4, <1>6 DEF Basic

\* So does a step of execute.
LEMMA BasicExecute ==
  ASSUME Basic, Execute
  PROVE  Basic'
<1> USE DEF Basic
<1>1. /\ Submitting' = Submitting
      /\ budget' \in {budget, RetryUsed(budget)}
      /\ UNCHANGED <<args, agentStatus, accepted, unconfirmed>>
  BY ExecuteEffect
<1>2. budget' \in Budgets /\ ReservationsMatch'
  BY <1>1 DEF TypeOK, Budgets, RetryUsed, ReservationsMatch
<1>3. NotRun \in Executions
  BY DEF NotRun, Executions, TerminalStatus, Attempts
<1>4. CASE DelegationStarted \/ DelegationCompleted \/ TelemetryRaises
  BY <1>1, <1>2, <1>4 DEF DelegationStarted, DelegationCompleted,
     TelemetryRaises, childVars, TypeOK, StatusKnown, WaveShape
<1>5. CASE DispatchWave
  <2>1. Ready \subseteq Pending /\ Blocked \subseteq Pending
    BY DEF Ready, Blocked
  <2>2. \A c \in Pending : c \in Child /\ c \notin decided /\ pc[c] = "idle"
    BY DEF Pending, WaveShape
  <2>3. Ready \cap Blocked = {}
    BY DEF Ready
  <2>4. TypeOK'
    BY <1>1, <1>2, <1>3, <1>5, <2>1, <2>2 DEF DispatchWave, TypeOK
  <2>5. StatusKnown'
    BY <1>5 DEF DispatchWave, TypeOK, StatusKnown
  <2>6. WaveShape'
    BY <1>5, <2>1, <2>2, <2>3 DEF DispatchWave, TypeOK, WaveShape
  <2> QED
    BY <1>2, <2>4, <2>5, <2>6
<1>6. CASE FailUnready
  <2>1. wave = {}
    BY <1>6 DEF FailUnready, WaveShape
  <2>2. TypeOK'
    BY <1>1, <1>2, <1>3, <1>6 DEF FailUnready, TypeOK
  <2>3. StatusKnown'
    BY <1>6 DEF FailUnready, StatusKnown
  <2>4. WaveShape'
    BY <1>6, <2>1 DEF FailUnready, TypeOK, WaveShape
  <2> QED
    BY <1>2, <2>2, <2>3, <2>4
<1>7. CASE RetryFailed
  <2>1. FailedInWave \subseteq wave
    BY DEF FailedInWave
  <2>2. TypeOK'
    BY <1>1, <1>2, <1>7 DEF RetryFailed, TypeOK
  <2>3. StatusKnown'
    BY <1>7 DEF RetryFailed, TypeOK, StatusKnown
  <2>4. WaveShape'
    BY <1>7, <2>1 DEF RetryFailed, TypeOK, WaveShape
  <2> QED
    BY <1>2, <2>2, <2>3, <2>4
<1>8. CASE CollectWave
  <2>1. TypeOK'
    BY <1>1, <1>2, <1>8 DEF CollectWave, TypeOK, childVars
  <2>2. StatusKnown'
    BY <1>8 DEF CollectWave, StatusKnown, childVars
  <2>3. WaveShape'
    BY <1>8 DEF CollectWave, WaveShape, WaveDone, childVars
  <2> QED
    BY <1>2, <2>1, <2>2, <2>3
<1> QED
  BY <1>4, <1>5, <1>6, <1>7, <1>8 DEF Execute

\* A step of the executor keeps types, reservations and the shape of its wave.
LEMMA BasicStep == Basic /\ [Next]_vars => Basic'
<1> SUFFICES ASSUME Basic, [Next]_vars PROVE Basic'
  OBVIOUS
<1>1. CASE Execute
  BY <1>1, BasicExecute
<1>2. ASSUME NEW c \in Child, RunChild(c) PROVE Basic'
  BY <1>2, BasicRunChild
<1>3. CASE UNCHANGED vars
  BY <1>3 DEF vars, childVars, Basic, TypeOK, StatusKnown, WaveShape,
     ReservationsMatch, Submitting
<1> QED
  BY <1>1, <1>2, <1>3 DEF Next

\* So every state has them.
THEOREM BasicInvariant == Spec => []Basic
  BY BasicInit, BasicStep, PTL DEF Spec

\* Every variable has its type; in particular calls_reserved never goes below
\* zero, whichever submissions answer, raise or are denied, in any order.
THEOREM TypeCorrect == Spec => []TypeOK
<1>1. Basic => TypeOK
  BY DEF Basic
<1> QED
  BY BasicInvariant, <1>1, PTL

\* calls_reserved always counts exactly the children suspended in submit:
\* _run_child leaks no reservation and gives none back twice.
THEOREM ReservationsAlwaysMatch == Spec => []ReservationsMatch
<1>1. Basic => ReservationsMatch
  BY DEF Basic
<1> QED
  BY BasicInvariant, <1>1, PTL

-----------------------------------------------------------------------------
(* The call limit, and the ledger it implements.                           *)

\* The call limit is a number.
LEMMA CallLimitType == CallLimit \in Nat
BY BudgetAssumption DEF CallLimit

\* A child reserves only below the limit of the approval in force: the gate
\* and the reservation are one step, so no other child comes between them.
LEMMA ReserveWithinLimit ==
  ASSUME TypeOK, Authorized, CanSubmitCalls(budget, 1)
  PROVE  budget.used + budget.reserved + 1 <= CallLimit
BY BudgetAssumption
DEF TypeOK, Budgets, Authorized, AuthorizeSubmission, CanSubmitCalls, CallLimit

\* A step of the executor keeps calls made and in flight within the limit.
LEMMA LimitStep == Basic /\ CallsWithinLimit /\ [Next]_vars => CallsWithinLimit'
<1> SUFFICES ASSUME Basic, CallsWithinLimit, [Next]_vars
             PROVE  CallsWithinLimit'
  OBVIOUS
<1> USE DEF Basic
<1>1. budget \in Budgets
  BY DEF TypeOK
<1>2. CASE Execute
  <2>1. budget' \in {budget, RetryUsed(budget)} /\ UNCHANGED args
    BY <1>2, ExecuteEffect
  <2> QED
    BY <1>1, <2>1 DEF RetryUsed, Budgets, CallsWithinLimit, CallLimit
<1>3. ASSUME NEW c \in Child, RunChild(c) PROVE CallsWithinLimit'
  <2>1. BudgetEffect(c) /\ UNCHANGED args
    BY <1>3, RunChildEffect DEF ChildFrame
  <2>2. CallLimit' = CallLimit
    BY <2>1 DEF CallLimit
  <2>3. CASE BudgetKept
    BY <2>2, <2>3 DEF BudgetKept, CallsWithinLimit
  <2>4. CASE Reserves(c)
    <3>1. budget.used + budget.reserved + 1 <= CallLimit
      BY <2>4, ReserveWithinLimit DEF Reserves
    <3> QED
      BY <1>1, <2>2, <2>4, <3>1, CallLimitType
      DEF Reserves, Reserved, Budgets, CallsWithinLimit
  <2>5. CASE Commits(c) \/ Releases(c)
    BY <1>1, <2>2, <2>5, CallLimitType
    DEF Commits, Releases, CommitReserved, ReleaseReserved, Budgets,
        CallsWithinLimit
  <2> QED
    BY <2>1, <2>3, <2>4, <2>5 DEF BudgetEffect
<1>4. CASE UNCHANGED vars
  BY <1>4 DEF vars, CallsWithinLimit, CallLimit
<1> QED
  BY <1>2, <1>3, <1>4 DEF Next

\* Calls made and in flight stay within the limit, however the children of a
\* wave interleave and however many waves and retries the execution has.
THEOREM CallsAlwaysWithinLimit == Spec => []CallsWithinLimit
<1>1. Init => CallsWithinLimit
  BY CallLimitType DEF Init, FreshBudget, CallsWithinLimit
<1> QED
  BY <1>1, LimitStep, BasicInvariant, PTL DEF Spec

\* The ledger counts its holders with the same Cardinality.
LEMMA LedgerCardinality == \A S : Ledger!Cardinality(S) = Cardinality(S)
BY DEF Ledger!Cardinality, Cardinality

\* A child's step is a step of the abstract ledger of permits, or stutters:
\* a reservation is Take, an accepted submission Spend, a failed one HandBack.
LEMMA LedgerStep ==
  ASSUME Basic, NEW c \in Child, RunChild(c)
  PROVE  [Ledger!Next]_(Ledger!ledger)
<1>1. BudgetEffect(c) /\ UNCHANGED args
  BY RunChildEffect DEF Basic, ChildFrame
<1>2. CallLimit' = CallLimit
  BY <1>1 DEF CallLimit
<1>3. budget \in Budgets
  BY DEF Basic, TypeOK
<1>4. CASE BudgetKept
  BY <1>2, <1>4 DEF BudgetKept, Ledger!ledger
<1>5. CASE Reserves(c)
  <2>1. budget.used + budget.reserved + 1 <= CallLimit
    BY <1>5, ReserveWithinLimit DEF Basic, Reserves
  <2>2. budget.used + Cardinality(Submitting) < CallLimit
    BY <1>3, <2>1, CallLimitType DEF Basic, ReservationsMatch, Budgets
  <2>3. Ledger!Take(c)
    BY <1>2, <1>3, <1>5, <2>2, LedgerCardinality
    DEF Reserves, Reserved, Ledger!Take
  <2> QED
    BY <2>3 DEF Ledger!Next
<1>6. CASE Commits(c)
  <2>1. Ledger!Spend(c)
    BY <1>2, <1>3, <1>6 DEF Commits, CommitReserved, Ledger!Spend
  <2> QED
    BY <2>1 DEF Ledger!Next
<1>7. CASE Releases(c)
  <2>1. Ledger!HandBack(c)
    BY <1>2, <1>3, <1>7 DEF Releases, ReleaseReserved, Ledger!HandBack
  <2> QED
    BY <2>1 DEF Ledger!Next
<1> QED
  BY <1>1, <1>4, <1>5, <1>6, <1>7 DEF BudgetEffect

\* The concurrent children implement the ledger of permits: BudgetState's two
\* counters are as good as handing out permits one by one.
THEOREM LedgerImplemented == Spec => ImplementsLedger
<1>1. Init => Ledger!Init
  <2> SUFFICES ASSUME Init PROVE Ledger!Init
    OBVIOUS
  <2>1. Submitting = {}
    BY DEF Init, Submitting
  <2> QED
    BY <2>1, CallLimitType DEF Init, FreshBudget, Ledger!Init
<1>2. Basic /\ [Next]_vars => [Ledger!Next]_(Ledger!ledger)
  <2> SUFFICES ASSUME Basic, [Next]_vars
               PROVE  [Ledger!Next]_(Ledger!ledger)
    OBVIOUS
  <2>1. CASE Execute
    <3>1. /\ Submitting' = Submitting
          /\ budget' \in {budget, RetryUsed(budget)}
          /\ UNCHANGED args
      BY <2>1, ExecuteEffect DEF Basic
    <3> QED
      BY <3>1 DEF RetryUsed, CallLimit, Ledger!ledger
  <2>2. ASSUME NEW c \in Child, RunChild(c)
        PROVE  [Ledger!Next]_(Ledger!ledger)
    BY <2>2, LedgerStep
  <2>3. CASE UNCHANGED vars
    BY <2>3 DEF vars, childVars, Submitting, CallLimit, Ledger!ledger
  <2> QED
    BY <2>1, <2>2, <2>3 DEF Next
<1> QED
  BY <1>1, <1>2, BasicInvariant, PTL DEF Spec, ImplementsLedger, Ledger!Spec

-----------------------------------------------------------------------------
(* Records and dependencies.                                               *)

\* Only a coroutine that has returned leaves a successful record: no child is
\* started, or started again, over a success.
SuccessIsDone == \A c \in Child : Succeeded(execution[c]) => pc[c] = "done"

RecordsKept ==
  \A c \in Child :
    Succeeded(execution[c]) \/ c \in decided => execution'[c] = execution[c]

\* A step keeps every successful record and every final one, and nothing that
\* was decided is reopened.
LEMMA StepKeepsRecords ==
  ASSUME Basic, SuccessIsDone, [Next]_vars
  PROVE  RecordsKept /\ SuccessIsDone' /\ decided \subseteq decided'
<1> USE DEF Basic
<1>1. CASE DispatchWave
  <2>1. /\ Ready \subseteq Pending /\ Blocked \subseteq Pending
        /\ Ready \cap Blocked = {}
    BY DEF Ready, Blocked
  <2>2. \A c \in Pending : /\ c \in Child /\ c \notin decided
                           /\ pc[c] = "idle"
                           /\ ~Succeeded(execution[c])
    BY DEF Pending, WaveShape, SuccessIsDone
  <2>3. RecordsKept
    BY <1>1, <2>1, <2>2 DEF DispatchWave, RecordsKept
  <2>4. SuccessIsDone'
    BY <1>1, <2>1, <2>2
    DEF DispatchWave, SuccessIsDone, Succeeded, NotRun, TypeOK
  <2> QED
    BY <1>1, <2>3, <2>4 DEF DispatchWave
<1>2. CASE FailUnready
  <2>1. \A c \in Pending : /\ c \in Child /\ c \notin decided
                           /\ ~Succeeded(execution[c])
    BY DEF Pending, WaveShape, SuccessIsDone
  <2>2. RecordsKept
    BY <1>2, <2>1 DEF FailUnready, RecordsKept
  <2>3. SuccessIsDone'
    BY <1>2, <2>1 DEF FailUnready, SuccessIsDone, Succeeded, NotRun
  <2> QED
    BY <1>2, <2>2, <2>3 DEF FailUnready, TypeOK
<1>3. CASE RetryFailed
  <2>1. \A c \in FailedInWave : ~Succeeded(execution[c])
    BY DEF FailedInWave, Succeeded
  <2> QED
    BY <1>3, <2>1 DEF RetryFailed, RecordsKept, SuccessIsDone, TypeOK
<1>4. CASE DelegationStarted \/ CollectWave
           \/ DelegationCompleted \/ TelemetryRaises \/ UNCHANGED vars
  BY <1>4 DEF DelegationStarted, CollectWave, DelegationCompleted,
     TelemetryRaises, vars, childVars, RecordsKept, SuccessIsDone
<1>5. ASSUME NEW c \in Child, RunChild(c)
      PROVE  RecordsKept /\ SuccessIsDone' /\ decided \subseteq decided'
  <2>1. ChildFrame(c)
    BY <1>5, RunChildEffect
  <2>2. ~Succeeded(execution[c]) /\ c \notin decided
    BY <2>1 DEF ChildFrame, SuccessIsDone, WaveShape
  <2>3. RecordsKept
    BY <2>1, <2>2 DEF ChildFrame, RecordsKept
  <2>4. SuccessIsDone'
    BY <2>1, <2>2 DEF ChildFrame, SuccessIsDone
  <2> QED
    BY <2>1, <2>3, <2>4 DEF ChildFrame
<1> QED
  BY <1>1, <1>2, <1>3, <1>4, <1>5 DEF Next, Execute

\* A child that succeeded is done, in every reachable state.
LEMMA SuccessIsDoneInvariant == Spec => []SuccessIsDone
<1>1. Init => SuccessIsDone
  BY DEF Init, SuccessIsDone, Succeeded, NotRun
<1>2. Basic /\ SuccessIsDone /\ [Next]_vars => SuccessIsDone'
  BY StepKeepsRecords
<1> QED
  BY <1>1, <1>2, BasicInvariant, PTL DEF Spec

\* A successful record is never replaced, by the retry of its siblings or by a
\* later wave, and a record that is an outcome never changes again.
THEOREM ResultsAlwaysKept == Spec => ResultsKept
<1>1. Basic /\ SuccessIsDone /\ [Next]_vars => [RecordsKept]_vars
  BY StepKeepsRecords
<1>2. Spec => [][RecordsKept]_vars
  BY <1>1, BasicInvariant, SuccessIsDoneInvariant, PTL DEF Spec
<1> QED
  BY <1>2 DEF ResultsKept, RecordsKept

\* _execute_dag starts no child before all its dependencies have a final,
\* successful outcome, whatever the waves, the failures and the retries.
THEOREM DependenciesAlwaysFirst == Spec => []DependenciesFirst
<1>1. Init => DependenciesFirst
  BY DEF Init, DependenciesFirst
<1>2. Basic /\ SuccessIsDone /\ DependenciesFirst /\ [Next]_vars
        => DependenciesFirst'
  <2> SUFFICES ASSUME Basic, SuccessIsDone, DependenciesFirst, [Next]_vars,
                      NEW c \in Child, (pc[c] # "idle")',
                      NEW d \in args'.plan[c]
               PROVE  d \in decided' /\ Succeeded(execution'[d])
    BY DEF DependenciesFirst
  <2> USE DEF Basic
  <2>1. UNCHANGED args /\ RecordsKept /\ decided \subseteq decided'
    <3>1. RecordsKept /\ decided \subseteq decided'
      BY StepKeepsRecords
    <3>2. CASE Execute
      BY <3>1, <3>2, ExecuteEffect
    <3>3. ASSUME NEW e \in Child, RunChild(e) PROVE UNCHANGED args
      BY <3>3, RunChildEffect DEF ChildFrame
    <3> QED
      BY <3>1, <3>2, <3>3 DEF Next, vars
  <2>2. CASE pc[c] # "idle"
    <3>1. d \in decided /\ Succeeded(execution[d])
      BY <2>1, <2>2 DEF DependenciesFirst
    <3>2. execution'[d] = execution[d]
      BY <2>1, <3>1 DEF RecordsKept, TypeOK
    <3> QED
      BY <2>1, <3>1, <3>2
  <2>3. CASE pc[c] = "idle"
    <3>1. DispatchWave /\ c \in Ready
      <4>1. CASE Execute
        BY <2>3, <4>1 DEF Execute, DelegationStarted, DispatchWave,
           FailUnready, RetryFailed, WaveDone, FailedInWave, CollectWave,
           DelegationCompleted, TelemetryRaises, childVars, TypeOK, WaveShape
      <4>2. ASSUME NEW e \in Child, RunChild(e) PROVE FALSE
        <5>1. ChildFrame(e)
          BY <4>2, RunChildEffect
        <5> QED
          BY <2>3, <5>1 DEF ChildFrame
      <4>3. CASE UNCHANGED vars
        BY <2>3, <4>3 DEF vars, childVars
      <4> QED
        BY <4>1, <4>2, <4>3 DEF Next
    <3>2. d \in decided /\ Succeeded(execution[d])
      BY <2>1, <3>1 DEF Ready
    <3>3. execution'[d] = execution[d]
      BY <2>1, <3>2 DEF RecordsKept, TypeOK
    <3> QED
      BY <2>1, <3>2, <3>3
  <2> QED
    BY <2>2, <2>3
<1> QED
  BY <1>1, <1>2, BasicInvariant, SuccessIsDoneInvariant, PTL DEF Spec

-----------------------------------------------------------------------------
(* Runs, and the records that name them.                                   *)

\* What is known of the runs accepted for a child, await by await.  A record of
\* the first attempt keeps its run ids while the second one is under way.
RunsInStep ==
  \A c \in Child :
    /\ pc[c] = "idle" => accepted[c] = {} /\ (c \in decided => execution[c].runs = {})
    /\ pc[c] \in {"start", "submit"} => Attempt \notin accepted[c]
    /\ phase = "running" /\ c \in wave => accepted[c] \subseteq {1}
    /\ pc[c] = "done" => execution[c].runs = accepted[c]
    /\ phase = "retrying" /\ pc[c] \notin {"idle", "done"} =>
         execution[c].runs = accepted[c] \ {2}
    /\ pc[c] = "evaluate" => Attempt \notin unconfirmed[c]

\* A wave is named by what was decided before it, so no earlier one has its name:
\* its own children were decided later.  A second attempt is never one of a wave
\* that is still at its first.
WavesInStep ==
  /\ \A c \in wave : waveOf[c] = decided
  /\ \A c \in Child : pc[c] # "idle" => c \notin waveOf[c]
  /\ \A c \in Child :
       execution[c].attempt = 2 => pc[c] # "idle" /\ (phase = "running" => c \notin wave)

RetriedWaves == {waveOf[c] : c \in SecondAttempts}

RetriesInStep == RetriesAccounted /\ WavesInStep

Recorded ==
  Basic /\ SuccessIsDone /\ RunsInStep /\ LastAttemptQuarantined
    /\ RetriesInStep /\ CallsAreRuns /\ SkippedOnlyBelowFailure

\* The runs accepted so far, as CallsAreRuns counts them.
AcceptedRuns == {ca \in Child \X Attempts : ca[2] \in accepted[ca[1]]}

\* Three things a child's step does to its runs.  It returns, and its record
\* describes the attempt that ends:
Describes(c) ==
  /\ pc'[c] = "done" /\ accepted' = accepted
  /\ execution'[c].attempt = Attempt
  /\ execution'[c].runs =
       (IF phase = "retrying" THEN execution[c].runs ELSE {}) \cup (accepted[c] \cap {Attempt})
  /\ execution'[c].safe => Attempt \notin accepted[c] \cap unconfirmed'[c]

\* its run is accepted:
Accepts(c) ==
  /\ pc[c] = "submit" /\ pc'[c] = "stream"
  /\ accepted' = [accepted EXCEPT ![c] = @ \cup {Attempt}]
  /\ Commits(c)

\* or it goes on to another await.
GoesOn(c) ==
  /\ pc'[c] \notin {"idle", "start", "done"} /\ accepted' = accepted
  /\ pc'[c] = "submit" => pc[c] = "start"
  /\ pc'[c] = "evaluate" => Attempt \notin unconfirmed'[c]

RunsEffect(c) ==
  /\ \A d \in Child \ {c} : accepted'[d] = accepted[d] /\ unconfirmed'[d] = unconfirmed[d]
  /\ Describes(c) \/ Accepts(c) \/ GoesOn(c)
  /\ Describes(c) \/ GoesOn(c) => budget'.used = budget.used
  /\ budget'.retries = budget.retries

\* A return describes the attempt, if its record is no safer than its run.
LEMMA ReturnDescribes ==
  ASSUME TypeOK, NEW c \in Child, NEW status, NEW passed, NEW safe,
         Return(c, status, passed, safe),
         safe => Attempt \notin accepted[c] \cap unconfirmed'[c]
  PROVE  Describes(c)
<1> DEFINE current == [status |-> status, passed |-> passed, safe |-> safe,
                       attempt |-> Attempt, runs |-> accepted[c] \cap {Attempt}]
<1>1. pc'[c] = "done" /\ accepted' = accepted
  BY DEF Return, TypeOK
<1>2. execution'[c] = IF phase = "retrying" THEN MergeRetryAttempts(execution[c], current)
                                            ELSE current
  BY DEF Return, TypeOK
<1>3. CASE phase = "retrying"
  <2>1. execution'[c] = MergeRetryAttempts(execution[c], current)
    BY <1>2, <1>3
  <2> QED
    BY <1>1, <1>3, <2>1 DEF MergeRetryAttempts, Describes
<1>4. CASE phase # "retrying"
  <2>1. execution'[c] = current
    BY <1>2, <1>4
  <2> QED
    BY <1>1, <1>4, <2>1 DEF Describes
<1> QED
  BY <1>3, <1>4

\* A confirmed run is no longer among those not known to have ended.
LEMMA ConfirmEnds ==
  ASSUME TypeOK, NEW c \in Child, Confirm(c)
  PROVE  /\ Attempt \notin unconfirmed'[c]
         /\ \A d \in Child \ {c} : unconfirmed'[d] = unconfirmed[d]
BY DEF Confirm, TypeOK

\* Every step of a child does one of the three to its runs, and nothing to
\* those of the others.
LEMMA RunChildRuns ==
  ASSUME TypeOK, StatusKnown, RunsInStep, NEW c \in Child, RunChild(c)
  PROVE  RunsEffect(c)
<1> USE DEF RunsEffect
<1>1. CASE SubmissionDenied(c) \/ ReservationRefused(c)
  <2>1. Attempt \notin accepted[c] /\ UNCHANGED <<budget, unconfirmed>>
    BY <1>1 DEF SubmissionDenied, ReservationRefused, RunsInStep
  <2>2. Describes(c)
    BY <1>1, <2>1, ReturnDescribes DEF SubmissionDenied, ReservationRefused
  <2> QED
    BY <2>1, <2>2 DEF Describes
<1>2. CASE ReserveCall(c)
  <2>1. GoesOn(c)
    BY <1>2 DEF ReserveCall, Suspend, TypeOK, GoesOn
  <2> QED
    BY <1>2, <2>1 DEF ReserveCall, Reserved
<1>3. CASE SubmitReturns(c)
  <2>1. Accepts(c)
    BY <1>3 DEF SubmitReturns, Suspend, TypeOK, Accepts, Commits, Submitting
  <2>2. ~Describes(c) /\ ~GoesOn(c)
    <3>1. Attempt \notin accepted[c]
      BY <1>3 DEF SubmitReturns, RunsInStep
    <3>2. Attempt \in accepted'[c]
      BY <1>3 DEF SubmitReturns, TypeOK
    <3> QED
      BY <3>1, <3>2 DEF Describes, GoesOn
  <2> QED
    BY <1>3, <2>1, <2>2 DEF SubmitReturns, CommitReserved, TypeOK
<1>4. CASE SubmitRaises(c)
  <2>1. Attempt \notin accepted[c]
    BY <1>4 DEF SubmitRaises, RunsInStep
  <2>2. Describes(c)
    BY <1>4, <2>1, ReturnDescribes DEF SubmitRaises
  <2>3. \A d \in Child \ {c} : unconfirmed'[d] = unconfirmed[d]
    BY <1>4 DEF SubmitRaises, TypeOK
  <2> QED
    BY <1>4, <2>2, <2>3 DEF SubmitRaises, ReleaseReserved, Describes
<1>5. CASE StreamEnds(c) \/ StreamRaises(c) \/ ApprovalRequested(c)
           \/ WaitRaises(c) \/ ApprovalCancelRaises(c)
  BY <1>5 DEF StreamEnds, StreamRaises, ApprovalRequested, WaitRaises,
     ApprovalCancelRaises, Move, Suspend, TypeOK, GoesOn
<1>6. CASE WaitReturns(c)
  BY <1>6 DEF WaitReturns, Suspend, TypeOK, GoesOn
<1>7. CASE QuiesceReturns(c)
  <2>1. /\ Attempt \notin unconfirmed'[c] /\ UNCHANGED budget
        /\ \A d \in Child \ {c} : unconfirmed'[d] = unconfirmed[d]
    BY <1>7, ConfirmEnds DEF QuiesceReturns
  <2>2. CASE agentStatus[c] = "completed"
    BY <1>7, <2>1, <2>2 DEF QuiesceReturns, Suspend, TypeOK, GoesOn
  <2>3. CASE agentStatus[c] # "completed"
    <3>1. Describes(c)
      BY <1>7, <2>1, <2>3, ReturnDescribes DEF QuiesceReturns
    <3> QED
      BY <2>1, <3>1 DEF Describes
  <2> QED
    BY <2>2, <2>3
<1>8. CASE QuiesceRaises(c) \/ ErrorCancelRaises(c)
  <2>1. Describes(c) /\ UNCHANGED <<budget, unconfirmed>>
    BY <1>8, ReturnDescribes DEF QuiesceRaises, ErrorCancelRaises
  <2> QED
    BY <2>1 DEF Describes
<1>9. CASE EvaluationPasses(c) \/ EvaluationFails(c)
  <2>1. Attempt \notin unconfirmed[c] /\ UNCHANGED <<budget, unconfirmed>>
    BY <1>9 DEF EvaluationPasses, EvaluationFails, RunsInStep
  <2>2. Describes(c)
    BY <1>9, <2>1, ReturnDescribes DEF EvaluationPasses, EvaluationFails
  <2> QED
    BY <2>1, <2>2 DEF Describes
<1>10. CASE CancelConfirmed(c)
  <2>1. /\ Attempt \notin unconfirmed'[c] /\ UNCHANGED budget
        /\ \A d \in Child \ {c} : unconfirmed'[d] = unconfirmed[d]
    BY <1>10, ConfirmEnds DEF CancelConfirmed
  <2>2. Describes(c)
    BY <1>10, <2>1, ReturnDescribes DEF CancelConfirmed
  <2> QED
    BY <2>1, <2>2 DEF Describes
<1> QED
  BY <1>1, <1>2, <1>3, <1>4, <1>5, <1>6, <1>7, <1>8, <1>9, <1>10 DEF RunChild

\* The runs accepted are finitely many, and a child's next one is new.
LEMMA AcceptedFinite ==
  IsFiniteSet(AcceptedRuns) /\ Cardinality(AcceptedRuns) \in Nat
<1>1. IsFiniteSet(Attempts)
  <2>1. IsFiniteSet({1})
    BY FS_Singleton
  <2>2. IsFiniteSet({1} \cup {2})
    BY <2>1, FS_AddElement, Zenon
  <2>3. Attempts = {1} \cup {2}
    BY DEF Attempts
  <2> QED
    BY <2>2, <2>3
<1>2. IsFiniteSet(Child \X Attempts)
  BY <1>1, ChildAssumption, FS_Product
<1>3. AcceptedRuns \subseteq Child \X Attempts
  BY DEF AcceptedRuns
<1> QED
  BY <1>2, <1>3, FS_Subset, FS_CardinalityType

\* Finitely many waves are retried.
LEMMA RetriedWavesFinite ==
  ASSUME TypeOK
  PROVE  IsFiniteSet(RetriedWaves) /\ Cardinality(RetriedWaves) \in Nat
<1>1. RetriedWaves \subseteq SUBSET Child
  BY DEF RetriedWaves, SecondAttempts, TypeOK
<1>2. IsFiniteSet(SUBSET Child)
  BY ChildAssumption, FS_SUBSET
<1> QED
  BY <1>1, <1>2, FS_Subset, FS_CardinalityType

\* As long as the same children are at or past their second attempt, and those that
\* have no record of it keep the one they have, the retries stay accounted for.
LEMMA SameSecondAttempts ==
  ASSUME RetriesAccounted, SecondAttempts' = SecondAttempts, budget'.retries = budget.retries,
         \A c \in SecondAttempts :
           /\ waveOf'[c] = waveOf[c]
           /\ execution'[c].attempt = 1 => execution'[c] = execution[c]
  PROVE  RetriesAccounted'
<1>1. {waveOf'[c] : c \in SecondAttempts'} = {waveOf[c] : c \in SecondAttempts}
  OBVIOUS
<1>2. \A c \in SecondAttempts' :
        execution'[c].attempt = 1 => execution'[c].status = "failed"
  BY DEF RetriesAccounted
<1> QED
  BY <1>1, <1>2 DEF RetriesAccounted

\* A step of a child accounts for no retry and starts none.
LEMMA RetriesKeptByChild ==
  ASSUME TypeOK, TypeOK', WaveShape, RetriesInStep, NEW c \in Child, ChildFrame(c), RunsEffect(c)
  PROVE  RetriesInStep'
<1>1. c \in wave /\ phase \in {"running", "retrying"}
  BY DEF WaveShape, ChildFrame
<1>2. /\ UNCHANGED <<phase, wave, decided, waveOf>>
      /\ budget'.retries = budget.retries
      /\ pc[c] \notin {"idle", "done"} /\ pc'[c] # "idle"
      /\ \A d \in Child \ {c} : pc'[d] = pc[d] /\ execution'[d] = execution[d]
  BY DEF ChildFrame, RunsEffect
<1>3. CASE pc'[c] = "done"
  <2>1. execution'[c].attempt = Attempt
    BY <1>3 DEF RunsEffect, Describes, Accepts, GoesOn
  <2>2. CASE phase = "running"
    <3>1. execution'[c].attempt = 1 /\ execution[c].attempt # 2
      BY <1>1, <2>1, <2>2 DEF Attempt, RetriesInStep, WavesInStep
    <3>2. SecondAttempts' = SecondAttempts /\ c \notin SecondAttempts
      BY <1>2, <2>2, <3>1 DEF SecondAttempts, Underway
    <3>3. RetriesAccounted'
      BY <1>2, <3>2, SameSecondAttempts DEF RetriesInStep, SecondAttempts
    <3>4. WavesInStep'
      BY <1>1, <1>2, <3>1 DEF RetriesInStep, WavesInStep
    <3> QED
      BY <3>3, <3>4 DEF RetriesInStep
  <2>3. CASE phase = "retrying"
    <3>1. execution'[c].attempt = 2
      BY <2>1, <2>3 DEF Attempt
    <3>2. SecondAttempts' = SecondAttempts
      BY <1>2, <2>3, <3>1 DEF SecondAttempts, Underway
    <3>3. RetriesAccounted'
      BY <1>2, <3>1, <3>2, SameSecondAttempts DEF RetriesInStep, SecondAttempts
    <3>4. WavesInStep'
      BY <1>1, <1>2, <2>3, <3>1 DEF RetriesInStep, WavesInStep
    <3> QED
      BY <3>3, <3>4 DEF RetriesInStep
  <2> QED
    BY <1>1, <2>2, <2>3
<1>4. CASE pc'[c] # "done"
  <2>1. execution' = execution
    BY <1>4 DEF ChildFrame
  <2>2. SecondAttempts' = SecondAttempts
    BY <1>2, <1>4, <2>1 DEF SecondAttempts, Underway
  <2>3. RetriesAccounted'
    BY <1>2, <2>1, <2>2, SameSecondAttempts DEF RetriesInStep
  <2>4. WavesInStep'
    BY <1>2, <2>1 DEF RetriesInStep, WavesInStep
  <2> QED
    BY <2>3, <2>4 DEF RetriesInStep
<1> QED
  BY <1>3, <1>4

\* A retry is one more wave, and every child of it that starts again has failed.
LEMMA RetryCounted ==
  ASSUME TypeOK, WaveShape, RetriesInStep, RetryFailed
  PROVE  RetriesInStep'
<1> USE DEF RetriesInStep
<1>1. \A c \in wave : c \in Child /\ pc[c] = "done" /\ waveOf[c] = decided
                      /\ execution[c].attempt # 2
  BY DEF RetryFailed, WaveDone, TypeOK, WavesInStep
<1>2. FailedInWave \subseteq wave /\ FailedInWave # {}
  BY DEF RetryFailed, RetryAllowed, FailedInWave
<1>3. /\ UNCHANGED <<wave, decided, waveOf, execution>>
      /\ phase = "running" /\ phase' = "retrying"
      /\ budget'.retries = budget.retries + 1
      /\ \A c \in Child : pc'[c] = IF c \in FailedInWave THEN "start" ELSE pc[c]
  BY DEF RetryFailed, RetryUsed
<1>4. Underway' = FailedInWave
  BY <1>1, <1>2, <1>3 DEF Underway, WaveShape
<1>5. SecondAttempts' = SecondAttempts \cup FailedInWave
  BY <1>1, <1>2, <1>3, <1>4 DEF SecondAttempts
<1>6. RetriedWaves' = RetriedWaves \cup {decided}
  <2>1. \A c \in FailedInWave : waveOf[c] = decided
    BY <1>1, <1>2
  <2> QED
    BY <1>2, <1>3, <1>5, <2>1 DEF RetriedWaves
<1>7. decided \notin RetriedWaves
  <2> SUFFICES ASSUME NEW c \in SecondAttempts, waveOf[c] = decided PROVE FALSE
    BY DEF RetriedWaves
  <2>1. c \in Child /\ execution[c].attempt = 2
    BY <1>3 DEF SecondAttempts
  <2>2. pc[c] # "idle" /\ c \notin wave /\ c \notin waveOf[c]
    BY <1>3, <2>1 DEF WavesInStep
  <2> QED
    BY <2>1, <2>2 DEF WaveShape
<1>8. Cardinality(RetriedWaves') = Cardinality(RetriedWaves) + 1
  BY <1>6, <1>7, RetriedWavesFinite, FS_AddElement
<1>9. \A c \in SecondAttempts' :
        execution'[c].attempt = 1 => execution'[c].status = "failed"
  BY <1>3, <1>5 DEF RetriesAccounted, FailedInWave
<1>10. RetriesAccounted'
  <2>1. budget.retries < MaxRetries
    BY DEF RetryFailed, RetryAllowed, CheckRetries
  <2>2. budget.retries \in Nat /\ MaxRetries \in Nat
    BY BudgetAssumption DEF TypeOK, Budgets
  <2>3. Cardinality(RetriedWaves') = budget'.retries
    BY <1>3, <1>8 DEF RetriesAccounted, RetriedWaves
  <2> QED
    BY <1>3, <1>9, <2>1, <2>2, <2>3 DEF RetriesAccounted, RetriedWaves
<1>11. WavesInStep'
  BY <1>1, <1>2, <1>3 DEF WavesInStep
<1> QED
  BY <1>10, <1>11

\* A step of a child keeps the records in step with its runs.
LEMMA RecordedRunChild ==
  ASSUME Recorded, NEW c \in Child, RunChild(c)
  PROVE  Recorded'
<1> USE DEF Recorded
<1>1. ChildFrame(c) /\ RunsEffect(c)
  BY RunChildEffect, RunChildRuns DEF Basic
<1>2. Basic' /\ SuccessIsDone' /\ RecordsKept
  <2>1. [Next]_vars
    BY DEF Next
  <2> QED
    BY <2>1, BasicStep, StepKeepsRecords
<1>3. TypeOK /\ TypeOK' /\ phase' = phase /\ wave' = wave /\ Attempt' = Attempt
  BY <1>1, <1>2 DEF Basic, ChildFrame, Attempt
<1>4. c \in wave /\ c \notin decided /\ phase \in {"running", "retrying"}
  BY <1>1 DEF Basic, WaveShape, ChildFrame
<1>5. RunsInStep'
  <2> SUFFICES ASSUME NEW d \in Child
               PROVE  /\ pc'[d] = "idle" =>
                           accepted'[d] = {} /\ (d \in decided => execution'[d].runs = {})
                      /\ pc'[d] \in {"start", "submit"} => Attempt \notin accepted'[d]
                      /\ phase = "running" /\ d \in wave => accepted'[d] \subseteq {1}
                      /\ pc'[d] = "done" => execution'[d].runs = accepted'[d]
                      /\ phase = "retrying" /\ pc'[d] \notin {"idle", "done"} =>
                           execution'[d].runs = accepted'[d] \ {2}
                      /\ pc'[d] = "evaluate" => Attempt \notin unconfirmed'[d]
    BY <1>1, <1>3 DEF RunsInStep, ChildFrame
  <2>1. CASE d # c
    BY <1>1, <2>1 DEF RunsInStep, ChildFrame, RunsEffect
  <2>2. CASE d = c /\ Describes(c)
    BY <1>1, <1>3, <1>4, <2>2 DEF RunsInStep, ChildFrame, Describes, TypeOK, Attempt, Attempts
  <2>3. CASE d = c /\ Accepts(c)
    BY <1>1, <1>3, <1>4, <2>3 DEF RunsInStep, ChildFrame, Accepts, TypeOK, Attempt, Attempts
  <2>4. CASE d = c /\ GoesOn(c)
    BY <1>1, <1>3, <1>4, <2>4 DEF RunsInStep, ChildFrame, GoesOn, TypeOK, Attempt, Attempts
  <2> QED
    BY <1>1, <2>1, <2>2, <2>3, <2>4 DEF RunsEffect
<1>6. LastAttemptQuarantined'
  BY <1>1, <1>3 DEF LastAttemptQuarantined, ChildFrame, RunsEffect, Describes, Accepts, GoesOn
<1>7. RetriesInStep'
  BY <1>1, <1>3, RetriesKeptByChild DEF Basic
<1>8. CallsAreRuns'
  <2>1. CASE Accepts(c)
    <3>1. <<c, Attempt>> \notin AcceptedRuns
      BY <2>1 DEF Accepts, RunsInStep, AcceptedRuns
    <3>2. AcceptedRuns' = AcceptedRuns \cup {<<c, Attempt>>}
      BY <1>3, <2>1 DEF Accepts, AcceptedRuns, TypeOK, Attempt, Attempts
    <3>3. Cardinality(AcceptedRuns') = Cardinality(AcceptedRuns) + 1
      BY <3>1, <3>2, AcceptedFinite, FS_AddElement
    <3>4. budget'.used = budget.used + 1
      BY <2>1 DEF Accepts, Commits, CommitReserved
    <3> QED
      BY <3>3, <3>4 DEF CallsAreRuns, AcceptedRuns
  <2>2. CASE Describes(c) \/ GoesOn(c)
    BY <1>1, <2>2 DEF RunsEffect, Describes, GoesOn, CallsAreRuns
  <2> QED
    BY <1>1, <2>1, <2>2 DEF RunsEffect
<1>9. SkippedOnlyBelowFailure'
  <2>1. decided' = decided /\ args' = args
    BY <1>1 DEF ChildFrame
  <2>2. \A d \in Child : pc'[d] = "idle" => pc[d] = "idle"
    BY <1>1 DEF ChildFrame
  <2>3. \A d \in decided : execution'[d] = execution[d]
    BY <1>2, <1>3 DEF RecordsKept, TypeOK
  <2> QED
    BY <1>3, <2>1, <2>2, <2>3 DEF SkippedOnlyBelowFailure, Succeeded, TypeOK
<1> QED
  BY <1>2, <1>5, <1>6, <1>7, <1>8, <1>9

\* So does a step of execute: it starts children only afresh, or a second time.
LEMMA RecordedExecute ==
  ASSUME Recorded, Execute
  PROVE  Recorded'
<1> USE DEF Recorded
<1>1. Basic' /\ SuccessIsDone' /\ RecordsKept /\ decided \subseteq decided'
  <2>1. [Next]_vars
    BY DEF Next
  <2> QED
    BY <2>1, BasicStep, StepKeepsRecords
<1>2. TypeOK /\ WaveShape /\ TypeOK'
  BY <1>1 DEF Basic
<1>3. /\ budget' \in {budget, RetryUsed(budget)}
      /\ UNCHANGED <<args, agentStatus, accepted, unconfirmed>>
  BY <1>2, ExecuteEffect
<1>4. CallsAreRuns'
  BY <1>3 DEF CallsAreRuns, RetryUsed
<1>5. \A c \in decided : execution'[c] = execution[c]
  BY <1>1, <1>2 DEF RecordsKept, TypeOK
<1>6. \A c \in Pending : c \in Child /\ c \notin decided /\ pc[c] = "idle"
  BY <1>2 DEF Pending, WaveShape
<1>7. CASE DelegationStarted \/ DelegationCompleted \/ TelemetryRaises
  <2>1. /\ UNCHANGED <<wave, decided, waveOf, budget, childVars>>
        /\ phase \notin {"running", "retrying"} /\ phase' \notin {"running", "retrying"}
    BY <1>7 DEF DelegationStarted, DelegationCompleted, TelemetryRaises
  <2>2. SecondAttempts' = SecondAttempts
    BY <2>1 DEF SecondAttempts, childVars
  <2>3. RetriesAccounted'
    BY <2>1, <2>2, SameSecondAttempts DEF RetriesInStep, childVars
  <2>4. WavesInStep'
    BY <2>1 DEF RetriesInStep, WavesInStep, childVars
  <2> QED
    BY <1>1, <1>2, <1>4, <1>7, <2>3, <2>4 DEF DelegationStarted, DelegationCompleted,
       TelemetryRaises, childVars, WaveShape, RunsInStep, LastAttemptQuarantined,
       RetriesInStep, SkippedOnlyBelowFailure, Attempt
<1>8. CASE DispatchWave
  <2>1. /\ Ready \subseteq Pending /\ Blocked \subseteq Pending
        /\ Ready \cap Blocked = {} /\ wave = {}
    BY <1>2, <1>8 DEF Ready, Blocked, DispatchWave, WaveShape
  <2>2. RunsInStep'
    BY <1>2, <1>3, <1>6, <1>8, <2>1
    DEF DispatchWave, RunsInStep, WaveShape, TypeOK, Attempt, NotRun
  <2>3. LastAttemptQuarantined'
    BY <1>2, <1>3, <1>6, <1>8, <2>1 DEF DispatchWave, LastAttemptQuarantined, TypeOK
  <2>4. RetriesInStep'
    <3>1. \A c \in Child : execution[c].attempt = 2 => c \notin Ready \cup Blocked
      BY <1>6, <2>1 DEF RetriesInStep, WavesInStep
    <3>2. /\ phase = "planning" /\ phase' = "running" /\ budget' = budget
          /\ \A c \in Child : c \notin Blocked => execution'[c] = execution[c]
          /\ \A c \in Child : c \notin Ready => waveOf'[c] = waveOf[c]
          /\ \A c \in Blocked : c \in Child => execution'[c] = NotRun
      BY <1>8 DEF DispatchWave
    <3>3. SecondAttempts' = SecondAttempts
      BY <3>1, <3>2 DEF SecondAttempts, NotRun
    <3>4. RetriesAccounted'
      BY <3>1, <3>2, <3>3, SameSecondAttempts DEF RetriesInStep, SecondAttempts
    <3>5. wave' = Ready /\ \A c \in Ready : c \in Child /\ waveOf'[c] = decided'
      BY <1>6, <1>8, <2>1 DEF DispatchWave
    <3>6. decided' = decided \cup Blocked /\ \A c \in Ready : c \notin decided'
      BY <1>6, <1>8, <2>1 DEF DispatchWave
    <3>7. \A c \in Child : /\ c \notin Ready => pc'[c] = pc[c]
                           /\ c \in Ready => pc'[c] = "start"
      BY <1>8 DEF DispatchWave
    <3>8. \A c \in Child : pc'[c] # "idle" => c \notin waveOf'[c]
      BY <3>2, <3>5, <3>6, <3>7 DEF RetriesInStep, WavesInStep
    <3>9. \A c \in Child :
            execution'[c].attempt = 2 => pc'[c] # "idle" /\ c \notin Ready
      BY <3>1, <3>2, <3>7 DEF RetriesInStep, WavesInStep, NotRun
    <3> QED
      BY <3>4, <3>5, <3>8, <3>9 DEF RetriesInStep, WavesInStep
  <2>5. SkippedOnlyBelowFailure'
    <3> SUFFICES ASSUME NEW c \in decided', pc'[c] = "idle"
                 PROVE  \E d \in args.plan[c] : d \in decided' /\ ~Succeeded(execution'[d])
      BY <1>3 DEF SkippedOnlyBelowFailure
    <3>1. CASE c \in decided
      <4>1. c \in Child /\ pc[c] = "idle"
        BY <1>2, <1>8, <3>1 DEF DispatchWave, TypeOK
      <4> QED
        BY <1>1, <1>5, <3>1, <4>1 DEF SkippedOnlyBelowFailure
    <3>2. CASE c \in Blocked
      BY <1>1, <1>5, <3>2 DEF Blocked
    <3> QED
      BY <1>8, <3>1, <3>2 DEF DispatchWave
  <2> QED
    BY <1>1, <1>4, <2>2, <2>3, <2>4, <2>5
<1>9. CASE FailUnready
  <2>1. wave = {} /\ Ready = {}
    BY <1>2, <1>9 DEF FailUnready, NothingReady, WaveShape
  <2>2. RunsInStep'
    BY <1>2, <1>3, <1>6, <1>9, <2>1
    DEF FailUnready, RunsInStep, WaveShape, TypeOK, Pending, Attempt, NotRun
  <2>3. LastAttemptQuarantined'
    BY <1>2, <1>3, <1>6, <1>9 DEF FailUnready, LastAttemptQuarantined, TypeOK
  <2>4. RetriesInStep'
    <3>1. \A c \in Child : execution[c].attempt = 2 => c \notin Pending
      BY <1>6 DEF RetriesInStep, WavesInStep
    <3>2. /\ phase = "planning" /\ phase' = "aggregating"
          /\ UNCHANGED <<wave, waveOf, budget, pc>>
          /\ \A c \in Child : execution'[c] = IF c \in Pending THEN NotRun ELSE execution[c]
      BY <1>9 DEF FailUnready
    <3>3. SecondAttempts' = SecondAttempts
      BY <3>1, <3>2 DEF SecondAttempts, NotRun
    <3>4. RetriesAccounted'
      BY <3>1, <3>2, <3>3, SameSecondAttempts DEF RetriesInStep, SecondAttempts
    <3>5. WavesInStep'
      BY <2>1, <3>2 DEF RetriesInStep, WavesInStep, NotRun
    <3> QED
      BY <3>4, <3>5 DEF RetriesInStep
  <2>5. SkippedOnlyBelowFailure'
    <3> SUFFICES ASSUME NEW c \in Child, pc[c] = "idle"
                 PROVE  \E d \in args.plan[c] : d \in Child /\ ~Succeeded(execution'[d])
      BY <1>3, <1>9 DEF SkippedOnlyBelowFailure, FailUnready
    <3>1. CASE c \in decided
      BY <1>2, <1>5, <3>1 DEF SkippedOnlyBelowFailure, TypeOK
    <3>2. CASE c \in Pending
      <4>1. PICK d \in args.plan[c] : ~(d \in decided /\ Succeeded(execution[d]))
        <5>1. c \in Blocked \/ \E d \in args.plan[c] : ~(d \in decided /\ Succeeded(execution[d]))
          BY <2>1, <3>2 DEF Ready
        <5> QED
          BY <5>1 DEF Blocked
      <4>2. d \in Child
        BY <1>2, <4>1, InvocationAssumption DEF TypeOK, Plans
      <4>3. CASE d \in decided
        BY <1>5, <4>1, <4>2, <4>3
      <4>4. CASE d \notin decided
        <5>1. d \in Pending
          BY <2>1, <4>2, <4>4 DEF Pending
        <5>2. execution'[d] = NotRun
          BY <1>9, <4>2, <5>1 DEF FailUnready
        <5> QED
          BY <4>1, <4>2, <5>2 DEF NotRun, Succeeded
      <4> QED
        BY <4>3, <4>4
    <3> QED
      BY <2>1, <3>1, <3>2 DEF Pending
  <2> QED
    BY <1>1, <1>4, <2>2, <2>3, <2>4, <2>5
<1>10. CASE RetryFailed
  <2>1. \A c \in FailedInWave : c \in wave /\ pc[c] = "done"
    BY <1>10 DEF RetryFailed, WaveDone, FailedInWave
  <2>2. RunsInStep'
    BY <1>2, <1>3, <1>10, <2>1
    DEF RetryFailed, RunsInStep, WaveShape, WaveDone, TypeOK, Attempt
  <2>3. LastAttemptQuarantined'
    BY <1>2, <1>3, <1>10, <2>1 DEF RetryFailed, LastAttemptQuarantined, TypeOK
  <2>4. RetriesInStep'
    BY <1>2, <1>10, RetryCounted
  <2>5. SkippedOnlyBelowFailure'
    BY <1>2, <1>10, <2>1 DEF RetryFailed, SkippedOnlyBelowFailure, WaveShape, TypeOK
  <2> QED
    BY <1>1, <1>4, <2>2, <2>3, <2>4, <2>5
<1>11. CASE CollectWave
  <2>1. \A c \in wave : pc[c] = "done"
    BY <1>11 DEF CollectWave, WaveDone
  <2>2. RunsInStep'
    BY <1>2, <1>11, <2>1 DEF CollectWave, RunsInStep, WaveShape, TypeOK, childVars
  <2>3. LastAttemptQuarantined'
    BY <1>11 DEF CollectWave, LastAttemptQuarantined, childVars
  <2>4. RetriesInStep'
    <3>1. /\ phase' = "planning" /\ wave' = {} /\ UNCHANGED <<waveOf, budget, childVars>>
      BY <1>11 DEF CollectWave
    <3>2. Underway = {}
      BY <1>2, <2>1 DEF Underway, WaveShape
    <3>3. SecondAttempts' = SecondAttempts
      BY <3>1, <3>2 DEF SecondAttempts, childVars
    <3>4. RetriesAccounted'
      BY <3>1, <3>3, SameSecondAttempts DEF RetriesInStep, childVars
    <3>5. WavesInStep'
      BY <3>1 DEF RetriesInStep, WavesInStep, childVars
    <3> QED
      BY <3>4, <3>5 DEF RetriesInStep
  <2>5. SkippedOnlyBelowFailure'
    BY <1>11, <2>1 DEF CollectWave, SkippedOnlyBelowFailure, childVars
  <2> QED
    BY <1>1, <1>4, <2>2, <2>3, <2>4, <2>5
<1> QED
  BY <1>7, <1>8, <1>9, <1>10, <1>11 DEF Execute

\* A step of the executor keeps the records in step with the runs.
LEMMA RecordedStep == Recorded /\ [Next]_vars => Recorded'
<1> SUFFICES ASSUME Recorded, [Next]_vars PROVE Recorded'
  OBVIOUS
<1>1. CASE Execute
  BY <1>1, RecordedExecute
<1>2. ASSUME NEW c \in Child, RunChild(c) PROVE Recorded'
  BY <1>2, RecordedRunChild
<1>3. CASE UNCHANGED vars
  <2>1. Basic' /\ SuccessIsDone'
    BY <1>3, BasicStep, StepKeepsRecords DEF Recorded
  <2>2. SecondAttempts' = SecondAttempts
    BY <1>3 DEF vars, childVars, SecondAttempts, Underway
  <2>3. RetriesInStep'
    BY <1>3, <2>2, SameSecondAttempts
       DEF vars, childVars, Recorded, RetriesInStep, WavesInStep
  <2> QED
    BY <1>3, <2>1, <2>3 DEF vars, childVars, Recorded, RunsInStep, LastAttemptQuarantined,
       CallsAreRuns, SkippedOnlyBelowFailure, Attempt
<1> QED
  BY <1>1, <1>2, <1>3 DEF Next

\* The states execute is called in have no runs and no records.
LEMMA RecordedInit == Init => Recorded
<1> SUFFICES ASSUME Init PROVE Recorded
  OBVIOUS
<1>1. Basic /\ SuccessIsDone
  BY BasicInit DEF Init, SuccessIsDone, Succeeded, NotRun
<1>2. RunsInStep /\ LastAttemptQuarantined /\ SkippedOnlyBelowFailure
  BY DEF Init, RunsInStep, LastAttemptQuarantined, SkippedOnlyBelowFailure, NotRun
<1>3. RetriesInStep
  <2>1. SecondAttempts = {}
    BY DEF Init, SecondAttempts, NotRun
  <2>2. {waveOf[c] : c \in SecondAttempts} = {}
    BY <2>1
  <2>3. RetriesAccounted
    BY <2>1, <2>2, FS_EmptySet, BudgetAssumption DEF Init, RetriesAccounted, FreshBudget
  <2>4. WavesInStep
    BY DEF Init, WavesInStep, NotRun
  <2> QED
    BY <2>3, <2>4 DEF RetriesInStep
<1>4. CallsAreRuns
  <2>1. AcceptedRuns = {}
    BY DEF Init, AcceptedRuns
  <2> QED
    BY <2>1, FS_EmptySet DEF Init, FreshBudget, CallsAreRuns, AcceptedRuns
<1> QED
  BY <1>1, <1>2, <1>3, <1>4 DEF Recorded

\* So every state has them in step.
THEOREM RecordedInvariant == Spec => []Recorded
  BY RecordedInit, RecordedStep, PTL DEF Spec

\* calls_used counts exactly the runs the runtime accepted, over all children,
\* waves and retries, however they interleave.
THEOREM CallsAlwaysRuns == Spec => []CallsAreRuns
  BY RecordedInvariant, PTL DEF Recorded

\* No child is dropped by the blocked rule or by the fail-closed rule unless it
\* depends on one that did not succeed.
THEOREM SkippedAlwaysBelowFailure == Spec => []SkippedOnlyBelowFailure
  BY RecordedInvariant, PTL DEF Recorded

\* attempt_run_ids of a final record names every run accepted for the child,
\* whichever attempts got to submit.
THEOREM ProvenanceAlwaysComplete == Spec => []ProvenanceComplete
<1>1. Recorded => ProvenanceComplete
  BY DEF Recorded, Basic, TypeOK, WaveShape, RunsInStep, ProvenanceComplete
<1> QED
  BY <1>1, RecordedInvariant, PTL

\* A record never calls a worktree safe beside the run of its last attempt that
\* is not known to have ended.
THEOREM LastAttemptAlwaysQuarantined == Spec => []LastAttemptQuarantined
  BY RecordedInvariant, PTL DEF Recorded

\* A second attempt is made only of a child whose first one failed, and the waves
\* that have one are those counted, at most max_retries.
THEOREM RetriesAlwaysAccounted == Spec => []RetriesAccounted
<1>1. Recorded => RetriesAccounted
  BY DEF Recorded, RetriesInStep
<1> QED
  BY <1>1, RecordedInvariant, PTL

-----------------------------------------------------------------------------
(* What a final record says of the runs left in its worktree.              *)

\* The record of a first attempt is that of a child with no second one, and one
\* that passed the gate is safe.
RecordsFit ==
  \A c \in Child :
    /\ pc[c] = "done" /\ execution[c].attempt = 1 => accepted[c] \subseteq {1}
    /\ execution[c].passed => execution[c].safe

\* No child has begun before the first wave.
NoneBegun == phase = "starting" => \A c \in Child : pc[c] = "idle"

Attributed == Recorded /\ RecordsFit /\ NoneBegun

\* A return writes a record that is safe if it passed.
LEMMA ReturnFits ==
  ASSUME TypeOK, NEW c \in Child, NEW status, NEW passed \in BOOLEAN, NEW safe \in BOOLEAN,
         Return(c, status, passed, safe), passed => safe
  PROVE  execution'[c].passed => execution'[c].safe
<1> DEFINE current == [status |-> status, passed |-> passed, safe |-> safe,
                       attempt |-> Attempt, runs |-> accepted[c] \cap {Attempt}]
<1>1. execution'[c] = IF phase = "retrying" THEN MergeRetryAttempts(execution[c], current)
                                            ELSE current
  BY DEF Return, TypeOK
<1>2. /\ MergeRetryAttempts(execution[c], current).passed = passed
      /\ MergeRetryAttempts(execution[c], current).safe = safe
  BY DEF MergeRetryAttempts
<1> QED
  BY <1>1, <1>2

\* No step of a child writes a record that passed and is not safe.
LEMMA RunChildFits ==
  ASSUME TypeOK, NEW c \in Child, RunChild(c)
  PROVE  execution'[c] = execution[c] \/ (execution'[c].passed => execution'[c].safe)
<1>1. CASE \/ SubmissionDenied(c) \/ ReservationRefused(c) \/ QuiesceRaises(c)
           \/ EvaluationPasses(c) \/ EvaluationFails(c) \/ ErrorCancelRaises(c)
           \/ SubmitRaises(c) \/ CancelConfirmed(c)
  BY <1>1, ReturnFits DEF SubmissionDenied, ReservationRefused, QuiesceRaises,
     EvaluationPasses, EvaluationFails, ErrorCancelRaises, SubmitRaises, CancelConfirmed
<1>2. CASE \/ ReserveCall(c) \/ SubmitReturns(c) \/ StreamEnds(c) \/ StreamRaises(c)
           \/ ApprovalRequested(c) \/ WaitReturns(c) \/ WaitRaises(c)
           \/ ApprovalCancelRaises(c)
  BY <1>2 DEF ReserveCall, SubmitReturns, Suspend, StreamEnds, StreamRaises,
     ApprovalRequested, WaitReturns, WaitRaises, ApprovalCancelRaises, Move
<1>3. CASE QuiesceReturns(c)
  <2>1. CASE agentStatus[c] = "completed"
    BY <1>3, <2>1 DEF QuiesceReturns
  <2>2. CASE agentStatus[c] # "completed"
    BY <1>3, <2>2, ReturnFits DEF QuiesceReturns
  <2> QED
    BY <2>1, <2>2
<1> QED
  BY <1>1, <1>2, <1>3 DEF RunChild

\* Every step of the executor keeps its records so.
LEMMA AttributedStep == Attributed /\ [Next]_vars => Attributed'
<1> SUFFICES ASSUME Attributed, [Next]_vars PROVE Attributed'
  OBVIOUS
<1>1. Recorded /\ Recorded' /\ TypeOK /\ WaveShape
  BY RecordedStep DEF Attributed, Recorded, Basic
<1>2. ASSUME NEW c \in Child, RunChild(c) PROVE RecordsFit' /\ NoneBegun'
  <2>1. ChildFrame(c) /\ RunsEffect(c)
    BY <1>1, <1>2, RunChildEffect, RunChildRuns DEF Recorded, Basic
  <2>2. c \in wave /\ phase \in {"running", "retrying"}
    BY <1>1, <2>1 DEF WaveShape, ChildFrame
  <2>3. pc'[c] = "done" /\ execution'[c].attempt = 1 => accepted'[c] \subseteq {1}
    <3> SUFFICES ASSUME pc'[c] = "done", execution'[c].attempt = 1
                 PROVE  accepted'[c] \subseteq {1}
      OBVIOUS
    <3>1. Describes(c)
      BY <2>1 DEF RunsEffect, Accepts, GoesOn
    <3>2. phase = "running"
      BY <2>2, <3>1 DEF Describes, Attempt
    <3> QED
      BY <1>1, <2>2, <3>1, <3>2 DEF Describes, Recorded, RunsInStep
  <2>4. RecordsFit'
    <3>1. execution'[c].passed => execution'[c].safe
      BY <1>1, <1>2, RunChildFits DEF Attributed, RecordsFit
    <3>2. \A d \in Child \ {c} : /\ pc'[d] = pc[d] /\ execution'[d] = execution[d]
                                 /\ accepted'[d] = accepted[d]
      BY <2>1 DEF ChildFrame, RunsEffect
    <3> QED
      BY <2>3, <3>1, <3>2 DEF Attributed, RecordsFit
  <2>5. NoneBegun'
    BY <2>1, <2>2 DEF NoneBegun, ChildFrame
  <2> QED
    BY <2>4, <2>5
<1>3. CASE Execute
  <2>1. UNCHANGED <<accepted, unconfirmed>>
    BY <1>1, <1>3, ExecuteEffect
  <2>2. \A c \in Child : \/ execution'[c] = execution[c] /\ (pc'[c] = "done" => pc[c] = "done")
                         \/ execution'[c] = NotRun /\ pc'[c] # "done"
    BY <1>1, <1>3 DEF Execute, DelegationStarted, DispatchWave, FailUnready, RetryFailed,
       CollectWave, DelegationCompleted, TelemetryRaises, childVars, TypeOK, WaveShape,
       Pending, Blocked, Ready
  <2>3. ~NotRun.passed
    BY DEF NotRun
  <2>4. RecordsFit'
    BY <2>1, <2>2, <2>3 DEF Attributed, RecordsFit
  <2>5. NoneBegun'
    BY <1>3 DEF NoneBegun, Execute, DelegationStarted, DispatchWave, FailUnready, RetryFailed,
       CollectWave, DelegationCompleted, TelemetryRaises
  <2> QED
    BY <1>1, <2>4, <2>5 DEF Attributed
<1>4. CASE UNCHANGED vars
  BY <1>1, <1>4 DEF Attributed, RecordsFit, NoneBegun, vars, childVars
<1> QED
  BY <1>1, <1>2, <1>3, <1>4 DEF Next, Attributed

\* The records execute starts from fit.
LEMMA AttributedInit == Init => Attributed
  BY RecordedInit DEF Attributed, Init, RecordsFit, NoneBegun, NotRun

=============================================================================
