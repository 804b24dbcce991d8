------------------------- MODULE DelegationExecutor -------------------------
(***************************************************************************)
(* DelegationExecutor.execute (orchestrator/delegation_executor.py): the   *)
(* children of one delegated task run as coroutines of one event loop,     *)
(* wave after wave of their dependency graph, drawing on one call budget;  *)
(* a wave's failed children are retried once, together.                    *)
(*                                                                         *)
(* A step is the code between two awaits, so pc[c] names the await child c *)
(* is suspended in.  The runtime answers every await as it likes: a value, *)
(* or an exception.  Telemetry is written to the database at most of these *)
(* points, and an exception there takes the same path.  Awaits in a row    *)
(* with nothing shared read or written between them are one: recording a   *)
(* run's events, and the three of _cancel_and_confirm_terminal.            *)
(***************************************************************************)
EXTENDS CallBudget, FiniteSets

CONSTANTS Child,              \* child contracts, one worktree each
          Invocations,        \* the calls of execute to be considered
          SubmitMayStrand,    \* may submit raise although the run was accepted?
          DatabaseMayFail     \* may a write to the database raise?

Plans == [Child -> SUBSET Child]

\* A rank that strictly increases along dependencies: the graph has no cycle.
Acyclic(plan) ==
  \E rank \in [Child -> 1..Cardinality(Child)] :
    \A c \in Child : \A d \in plan[c] : rank[d] < rank[c]

ASSUME ChildAssumption == IsFiniteSet(Child)

ASSUME InvocationAssumption ==
  /\ Invocations \subseteq [plan : Plans, policed : BOOLEAN, approval : Approvals]
  /\ \A i \in Invocations : Acyclic(i.plan)

ASSUME FaultAssumption ==
  /\ SubmitMayStrand \in BOOLEAN
  /\ DatabaseMayFail \in BOOLEAN

VARIABLES
  args,         \* arguments of execute: dependencies, policy, batch approval
  phase,        \* where execute is
  wave,         \* children of the current asyncio.gather and its retry
  decided,      \* keys of outcomes
  waveOf,       \* history: the wave a child was dispatched in, named by what
                \* was decided before it (each wave decides some child)
  budget,       \* BudgetState, shared by all children
  pc,           \* await each child coroutine is suspended in
  agentStatus,  \* status of the AgentResult wait returned to a live coroutine
  execution,    \* ChildExecution of the last attempt (final once decided)
  accepted,     \* attempts for which submit returned a run handle
  unconfirmed   \* runs in the child's worktree not yet known quiescent

childVars == <<pc, agentStatus, execution, accepted, unconfirmed>>
vars == <<args, phase, wave, decided, waveOf, budget, childVars>>

TerminalStatus == {"completed", "failed", "cancelled", "timeout"}
Attempts == {1, 2}
Awaits == {"submit", "stream", "wait", "quiesce", "evaluate",
           "cancel_approval", "cancel_error"}

Executions == [status : TerminalStatus, passed : BOOLEAN, safe : BOOLEAN,
               attempt : Attempts, runs : SUBSET Attempts]

\* A child that ran nothing: status "failed", no run id, no evaluation.
NotRun == [status |-> "failed", passed |-> FALSE, safe |-> TRUE,
           attempt |-> 1, runs |-> {}]

Attempt == IF phase = "retrying" THEN 2 ELSE 1

Succeeded(e) == e.status = "completed" /\ e.passed

Pending == Child \ (decided \cup wave)

Init ==
  /\ args \in Invocations
  /\ phase = "starting"
  /\ wave = {}
  /\ decided = {}
  /\ waveOf = [c \in Child |-> {}]
  /\ budget = FreshBudget
  /\ pc = [c \in Child |-> "idle"]
  /\ agentStatus = [c \in Child |-> "none"]
  /\ execution = [c \in Child |-> NotRun]
  /\ accepted = [c \in Child |-> {}]
  /\ unconfirmed = [c \in Child |-> {}]

-----------------------------------------------------------------------------
(* One child: _run_child. *)

\* Mutations: run ids are lost; a worktree once safe stays safe.
ReplaceRecord(previous, current) == current
MergeSafety(previous, current) ==
  [current EXCEPT !.runs = previous.runs \cup current.runs,
                  !.safe = previous.safe \/ current.safe]

\* The retry's record replaces the first attempt's and keeps its run ids.
MergeRetryAttempts(previous, current) ==
  [status |-> current.status, passed |-> current.passed, safe |-> current.safe,
   attempt |-> current.attempt, runs |-> previous.runs \cup current.runs]

\* _run_child returns: gather (and the retry merge) stores the record.
Return(c, status, passed, safe) ==
  LET current == [status |-> status, passed |-> passed, safe |-> safe,
                  attempt |-> Attempt, runs |-> accepted[c] \cap {Attempt}]
  IN  /\ pc' = [pc EXCEPT ![c] = "done"]
      /\ execution' = [execution EXCEPT ![c] =
           IF phase = "retrying" THEN MergeRetryAttempts(@, current)
                                 ELSE current]
      /\ agentStatus' = [agentStatus EXCEPT ![c] = "none"]
      /\ UNCHANGED <<args, phase, wave, decided, waveOf, accepted>>

Suspend(c, await) == pc' = [pc EXCEPT ![c] = await]

Move(c, from, to) ==
  /\ pc[c] = from
  /\ Suspend(c, to)
  /\ UNCHANGED <<args, phase, wave, decided, waveOf, budget,
                 agentStatus, execution, accepted, unconfirmed>>

\* Mutation: calls in flight do not count towards the approval threshold.
AuthorizedBesideReserved ==
  args.policed => AuthorizeSubmission(budget.used, args.approval)

Authorized ==
  args.policed =>
    AuthorizeSubmission(budget.used + budget.reserved, args.approval)

SubmissionDenied(c) ==
  /\ pc[c] = "start"
  /\ ~Authorized
  /\ Return(c, "cancelled", FALSE, TRUE)
  /\ UNCHANGED <<budget, unconfirmed>>

ReservationRefused(c) ==
  /\ pc[c] = "start"
  /\ Authorized
  /\ ~CanSubmitCalls(budget, 1)
  /\ Return(c, "failed", FALSE, TRUE)
  /\ UNCHANGED <<budget, unconfirmed>>

ReserveCall(c) ==
  /\ pc[c] = "start"
  /\ Authorized
  /\ CanSubmitCalls(budget, 1)
  /\ budget' = Reserved(budget)
  /\ Suspend(c, "submit")
  /\ UNCHANGED <<args, phase, wave, decided, waveOf,
                 agentStatus, execution, accepted, unconfirmed>>

SubmitReturns(c) ==
  /\ pc[c] = "submit"
  /\ budget' = CommitReserved(budget)
  /\ Suspend(c, "stream")
  /\ accepted' = [accepted EXCEPT ![c] = @ \cup {Attempt}]
  /\ unconfirmed' = [unconfirmed EXCEPT ![c] = @ \cup {Attempt}]
  /\ UNCHANGED <<args, phase, wave, decided, waveOf, agentStatus, execution>>

\* No handle: nothing is cancelled, whether or not the runtime took the run.
SubmitRaises(c) ==
  /\ pc[c] = "submit"
  /\ budget' = ReleaseReserved(budget)
  /\ Return(c, "failed", FALSE, TRUE)
  /\ \E stranded \in {FALSE, SubmitMayStrand} :
       unconfirmed' = IF stranded
                      THEN [unconfirmed EXCEPT ![c] = @ \cup {Attempt}]
                      ELSE unconfirmed

\* A terminal event, or the end of the stream; other events change nothing.
StreamEnds(c) == Move(c, "stream", "wait")

StreamRaises(c) == Move(c, "stream", "cancel_error")

ApprovalRequested(c) == args.policed /\ Move(c, "stream", "cancel_approval")

WaitReturns(c) ==
  /\ pc[c] = "wait"
  /\ \E status \in TerminalStatus :
       agentStatus' = [agentStatus EXCEPT ![c] = status]
  /\ Suspend(c, "quiesce")
  /\ UNCHANGED <<args, phase, wave, decided, waveOf, budget,
                 execution, accepted, unconfirmed>>

\* wait raised, or returned a status that is not terminal.
WaitRaises(c) == Move(c, "wait", "cancel_error")

Confirm(c) == unconfirmed' = [unconfirmed EXCEPT ![c] = @ \ {Attempt}]

QuiesceReturns(c) ==
  /\ pc[c] = "quiesce"
  /\ Confirm(c)
  /\ IF agentStatus[c] = "completed"
     THEN /\ Suspend(c, "evaluate")
          /\ UNCHANGED <<args, phase, wave, decided, waveOf,
                         agentStatus, execution, accepted>>
     ELSE Return(c, agentStatus[c], FALSE, TRUE)
  /\ UNCHANGED budget

QuiesceRaises(c) ==
  /\ pc[c] = "quiesce"
  /\ Return(c, agentStatus[c], FALSE, FALSE)
  /\ UNCHANGED <<budget, unconfirmed>>

EvaluationPasses(c) ==
  /\ pc[c] = "evaluate"
  /\ ~IsOverBudget(budget)
  /\ Return(c, "completed", TRUE, TRUE)
  /\ UNCHANGED <<budget, unconfirmed>>

\* The gate failed the result, or usage or the gate raised.
EvaluationFails(c) ==
  /\ pc[c] = "evaluate"
  /\ Return(c, "failed", FALSE, TRUE)
  /\ UNCHANGED <<budget, unconfirmed>>

\* _cancel_and_confirm_terminal returned: wait was terminal, quiesce succeeded.
CancelConfirmed(c) ==
  /\ pc[c] \in {"cancel_approval", "cancel_error"}
  /\ Confirm(c)
  /\ Return(c, IF pc[c] = "cancel_approval" THEN "cancelled" ELSE "failed",
            FALSE, TRUE)
  /\ UNCHANGED budget

\* Mutation: a cancellation that fails is ignored and the stream goes on.
KeepsListening(c) == Move(c, "cancel_approval", "stream")

\* It raised.  For an approval request the handler cancels once more.
ApprovalCancelRaises(c) == Move(c, "cancel_approval", "cancel_error")

ErrorCancelRaises(c) ==
  /\ pc[c] = "cancel_error"
  /\ Return(c, "timeout", FALSE, FALSE)
  /\ UNCHANGED <<budget, unconfirmed>>

RunChild(c) ==
  \/ SubmissionDenied(c) \/ ReservationRefused(c) \/ ReserveCall(c)
  \/ SubmitReturns(c) \/ SubmitRaises(c)
  \/ StreamEnds(c) \/ StreamRaises(c) \/ ApprovalRequested(c)
  \/ WaitReturns(c) \/ WaitRaises(c)
  \/ QuiesceReturns(c) \/ QuiesceRaises(c)
  \/ EvaluationPasses(c) \/ EvaluationFails(c)
  \/ CancelConfirmed(c) \/ ApprovalCancelRaises(c) \/ ErrorCancelRaises(c)

-----------------------------------------------------------------------------
(* The waves: execute and _execute_dag.  Without dependencies every child  *)
(* is ready at once, which is execute's own single gather.                 *)

\* Mutation: a dependency without an outcome counts as failed.
BlockedByUndecided ==
  {c \in Pending :
     \E d \in args.plan[c] : ~(d \in decided /\ Succeeded(execution[d]))}

Blocked ==
  {c \in Pending :
     \E d \in args.plan[c] : d \in decided /\ ~Succeeded(execution[d])}

\* Mutation: dependencies are not awaited.
ReadyAtOnce == Pending \ Blocked

Ready ==
  {c \in Pending \ Blocked :
     \A d \in args.plan[c] : d \in decided /\ Succeeded(execution[d])}

NothingReady == Ready = {}

DelegationStarted ==
  /\ phase = "starting"
  /\ phase' = "planning"
  /\ UNCHANGED <<args, wave, decided, waveOf, budget, childVars>>

DispatchWave ==
  /\ phase = "planning"
  /\ ~NothingReady
  /\ decided' = decided \cup Blocked
  /\ execution' = [c \in Child |-> IF c \in Blocked THEN NotRun ELSE execution[c]]
  /\ wave' = Ready
  /\ waveOf' = [c \in Child |-> IF c \in Ready THEN decided' ELSE waveOf[c]]
  /\ pc' = [c \in Child |-> IF c \in Ready THEN "start" ELSE pc[c]]
  /\ phase' = "running"
  /\ UNCHANGED <<args, budget, agentStatus, accepted, unconfirmed>>

\* Nothing is ready: every child left depends, directly or not, on a failure.
FailUnready ==
  /\ phase = "planning"
  /\ NothingReady
  /\ decided' = Child
  /\ execution' = [c \in Child |-> IF c \in Pending THEN NotRun ELSE execution[c]]
  /\ phase' = "aggregating"
  /\ UNCHANGED <<args, wave, waveOf, budget, pc, agentStatus, accepted, unconfirmed>>

\* Mutation: the first child to return ends the wave.
WaveFirstDone == \E c \in wave : pc[c] = "done"

WaveDone == \A c \in wave : pc[c] = "done"

\* Mutation: a failure retries the whole wave.
WholeWave == wave

FailedInWave == {c \in wave : execution[c].status = "failed"}

RetryAllowed ==
  /\ FailedInWave # {}
  /\ CheckRetries(budget)
  /\ CanSubmitCalls(budget, 1)

RetryFailed ==
  /\ phase = "running"
  /\ WaveDone
  /\ RetryAllowed
  /\ budget' = RetryUsed(budget)
  /\ pc' = [c \in Child |-> IF c \in FailedInWave THEN "start" ELSE pc[c]]
  /\ phase' = "retrying"
  /\ UNCHANGED <<args, wave, decided, waveOf,
                 agentStatus, execution, accepted, unconfirmed>>

CollectWave ==
  /\ WaveDone
  /\ phase = "retrying" \/ (phase = "running" /\ ~RetryAllowed)
  /\ decided' = decided \cup wave
  /\ wave' = {}
  /\ phase' = "planning"
  /\ UNCHANGED <<args, waveOf, budget, childVars>>

DelegationCompleted ==
  /\ phase = "aggregating"
  /\ phase' = "returned"
  /\ UNCHANGED <<args, wave, decided, waveOf, budget, childVars>>

\* The database refused the delegation_started or delegation_completed event.
TelemetryRaises ==
  /\ DatabaseMayFail
  /\ phase \in {"starting", "aggregating"}
  /\ phase' = "raised"
  /\ UNCHANGED <<args, wave, decided, waveOf, budget, childVars>>

Execute ==
  \/ DelegationStarted \/ DispatchWave \/ FailUnready
  \/ RetryFailed \/ CollectWave
  \/ DelegationCompleted \/ TelemetryRaises

Finished == phase \in {"returned", "raised"}

Next == Execute \/ \E c \in Child : RunChild(c)

Spec == Init /\ [][Next]_vars

\* The steps a child takes before its first await.
Starts(c) == SubmissionDenied(c) \/ ReservationRefused(c) \/ ReserveCall(c)

\* The event loop runs every coroutine that is ready: execute between its gathers,
\* and a child it has just started.  Nothing is assumed of an await: what a child
\* awaits may never come (events of the app-server has no deadline).
Fairness == WF_vars(Execute) /\ \A c \in Child : WF_vars(Starts(c))

FairSpec == Spec /\ Fairness

-----------------------------------------------------------------------------
(* Properties. *)

TypeOK ==
  /\ args \in Invocations
  /\ phase \in {"starting", "planning", "running", "retrying",
                "aggregating", "returned", "raised"}
  /\ wave \subseteq Child
  /\ decided \subseteq Child
  /\ waveOf \in [Child -> SUBSET Child]
  /\ budget \in Budgets
  /\ pc \in [Child -> {"idle", "start", "done"} \cup Awaits]
  /\ agentStatus \in [Child -> TerminalStatus \cup {"none"}]
  /\ execution \in [Child -> Executions]
  /\ accepted \in [Child -> SUBSET Attempts]
  /\ unconfirmed \in [Child -> SUBSET Attempts]

\* The calls this execution may make: all of the budget with the batch
\* approval (or no policy), the approval threshold without it.
CallLimit ==
  IF /\ args.policed
     /\ args.approval # "granted"
     /\ RequireApprovalAboveCalls < MaxTotalCalls
  THEN RequireApprovalAboveCalls
  ELSE MaxTotalCalls

Submitting == {c \in Child : pc[c] = "submit"}

\* calls_reserved counts exactly the children suspended in submit: no
\* reservation is leaked by an exception or given back twice, in whatever
\* order the concurrent submissions answer.
ReservationsMatch == budget.reserved = Cardinality(Submitting)

\* Calls made and calls in flight never exceed the limit the approval in
\* force allows, although every child decides on its own, before its await.
CallsWithinLimit == budget.used + budget.reserved <= CallLimit

\* calls_used counts exactly the runs the runtime accepted, over all children,
\* waves and retries.
CallsAreRuns ==
  budget.used = Cardinality({ca \in Child \X Attempts : ca[2] \in accepted[ca[1]]})

\* No child is started before all its dependencies have a final, successful
\* record, and none of those is ever revised.
DependenciesFirst ==
  \A c \in Child : pc[c] # "idle" =>
    \A d \in args.plan[c] : d \in decided /\ Succeeded(execution[d])

\* A child is failed without being started only below a child that did not
\* succeed: neither the blocked rule nor the fail-closed rule drops a child
\* that could have run.
SkippedOnlyBelowFailure ==
  \A c \in decided : pc[c] = "idle" =>
    \E d \in args.plan[c] : d \in decided /\ ~Succeeded(execution[d])

\* attempt_run_ids of a final record names every run accepted for the child,
\* a run of the first attempt included when the retry never got to submit.
ProvenanceComplete ==
  \A c \in decided : execution[c].runs = accepted[c]

\* A record keeps its worktree out of cleanup while the run of the attempt it
\* describes (retry_count + 1) is not known quiescent.
LastAttemptQuarantined ==
  \A c \in Child :
    LET last == execution[c].attempt
    IN  pc[c] = "done" /\ last \in accepted[c] \cap unconfirmed[c]
          => ~execution[c].safe

\* The children whose second attempt is under way or over.
Underway == {c \in Child : pc[c] \notin {"idle", "done"}}
SecondAttempts ==
  {c \in Child : \/ execution[c].attempt = 2
                 \/ phase = "retrying" /\ c \in Underway}

\* A second attempt is made only of a child whose first one failed (its record
\* says so until the retry's replaces it), and the waves that have one are as
\* many as the retries counted, which are at most max_retries.
RetriesAccounted ==
  /\ \A c \in SecondAttempts :
       execution[c].attempt = 1 => execution[c].status = "failed"
  /\ Cardinality({waveOf[c] : c \in SecondAttempts}) = budget.retries
  /\ budget.retries <= MaxRetries

\* A successful record is never replaced, by a retry of its siblings or
\* anything else, and a final record never changes.
ResultsKept ==
  [][\A c \in Child :
       Succeeded(execution[c]) \/ c \in decided
         => execution'[c] = execution[c]]_vars

\* Concurrent children share the budget as a ledger of permits would: each
\* reservation is one child's, spent or handed back exactly once.
Ledger == INSTANCE CallLedger
            WITH Agent <- Child, limit <- CallLimit,
                 spent <- budget.used, holders <- Submitting

ImplementsLedger == Ledger!Spec

\* execute returns or raises unless some await of a child is never answered: no
\* order of answers, approval requests, failures and retries makes it go round for
\* ever, and no child is left that nothing would start or collect.
EndsIfAnswered ==
  (\A c \in Child, await \in Awaits : []<>(pc[c] # await)) => <>Finished
=============================================================================
