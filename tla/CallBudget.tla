----------------------------- MODULE CallBudget -----------------------------
(***************************************************************************)
(* The gate every runtime submission passes: BudgetState                   *)
(* (orchestrator/budget.py) and ExecutionPolicy.authorize_submission       *)
(* (orchestrator/execution_policy.py), as operators over the mutable       *)
(* budget of one task.  Each method runs between two awaits, so each       *)
(* operator is one indivisible update.                                     *)
(***************************************************************************)
EXTENDS Naturals

CONSTANTS MaxTotalCalls,                 \* budget.max_total_calls
          MaxRetries,                    \* budget.max_retries
          RequireApprovalAboveCalls      \* budget.require_approval_above_calls

ASSUME BudgetAssumption ==
  /\ MaxTotalCalls \in Nat
  /\ MaxRetries \in Nat
  /\ RequireApprovalAboveCalls \in Nat

\* True, False and None of an approval argument.
Approvals == {"granted", "denied", "missing"}

Budgets == [used : Nat, reserved : Nat, retries : Nat]

FreshBudget == [used |-> 0, reserved |-> 0, retries |-> 0]

\* Mutation: >= of the code's test becomes >.
CheckRetriesOffByOne(budget) == budget.retries <= MaxRetries

CheckRetries(budget) == budget.retries < MaxRetries

\* Mutation: calls in flight are forgotten.
CanSubmitBesideReserved(budget, count) == budget.used + count <= MaxTotalCalls

CanSubmitCalls(budget, count) ==
  budget.used + budget.reserved + count <= MaxTotalCalls

Reserved(budget) ==
  [used |-> budget.used, reserved |-> budget.reserved + 1,
   retries |-> budget.retries]

\* Mutation: not released at all.
NotReleased(budget) == budget

\* The code raises if nothing is reserved; ReservationsMatch of the executor
\* shows that neither method is ever called then.
ReleaseReserved(budget) ==
  [used |-> budget.used, reserved |-> budget.reserved - 1,
   retries |-> budget.retries]

CommitReserved(budget) ==
  [used |-> budget.used + 1, reserved |-> budget.reserved - 1,
   retries |-> budget.retries]

RetryUsed(budget) ==
  [used |-> budget.used, reserved |-> budget.reserved,
   retries |-> budget.retries + 1]

IsOverBudget(budget) == budget.used > MaxTotalCalls

\* No caller passes planned_actions, so only the call counts decide.
AuthorizeSubmission(callsUsed, approval) ==
  /\ callsUsed < MaxTotalCalls
  /\ callsUsed >= RequireApprovalAboveCalls => approval = "granted"

=============================================================================
