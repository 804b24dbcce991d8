# Adaptive Agent Orchestrator: TLA+ models, checks and proofs

AAO runs one task at a time through a Python asyncio engine: it profiles and
routes the task, checks its budget, isolates every agent in a git worktree,
submits the work to an agent runtime (Hermes or Codex), evaluates the answer and
only then moves the user's branch. This directory models that machinery in
TLA+. TLC checks the models on small instances; TLAPS proves the core
properties for every instance.

## 1. The system

| Part | State it keeps | Operations | Talks to |
|---|---|---|---|
| `orchestrator/engine.py` | stage of the task, quarantined children, worktree list | `run`, `_execute`, `_execute_single`, `_execute_delegation` | all others |
| `orchestrator/delegation_executor.py` | outcomes, current wave, one coroutine per child | `execute`, `_execute_dag`, `_run_child` | runtime, eval gate, budget, telemetry |
| `orchestrator/budget.py`, `execution_policy.py` | `calls_used`, `calls_reserved`, `retries_used` of one task, shared by its children | reserve, commit, release, `check_retries`, `authorize_submission` | read and written by coroutines |
| `orchestrator/state_machine.py` | task status in memory and in SQLite | `transition`, `mark_*` | database |
| `orchestrator/workspace.py` | worktree records, branches, staging worktree, the user's branch | allocate, clean, stage, deliver, integrate, rollback | git, beside a user who works in the same repository |
| `adapters/runtime.py` | none | the protocol: submit, events, wait, cancel, quiesce | implemented by the adapters |
| `adapters/hermes/gateway.py` | pending RPC futures, event queues, run states, connection generation | connect, submit, events, wait, cancel, quiesce, reconnect | WebSocket |
| `adapters/codex/app_server.py` | request futures, runs, notification backlog | the same protocol | a child process over JSON-RPC |
| `adapters/codex/exec.py`, `_win32_job.py` | one supervisor task per run, event log; a job object | the same protocol | a process tree |
| routing and planning (`router`, `profiler`, `candidate_filter`, `runtime_selector`, ...) | health and capabilities of the runtimes, as observed at build | profile, route, filter, select, compose | runtimes, once; the engine |
| eval gate, storage, telemetry, CLI | files, rows | I/O | - |

**What makes it hard.** The children of a delegated task are coroutines that
share one budget across the awaits of `submit`. Any await may raise: the runtime
loses its connection, git fails, SQLite refuses a telemetry row in the middle of
a run. A run whose end cannot be confirmed may still be writing to its worktree,
so the worktree must not be deleted (quarantine), and that fact has to survive
retries, merges of records and every exception handler. The task status moves in
memory before it is stored. The user works in the repository that is delivered
to. The adapters correlate answers that arrive before their request is
acknowledged, or after its deadline.

**What correctness means, part by part.**

* Budget: calls made and in flight never exceed what the approval in force
  allows; every reservation is used or given back exactly once; calls made are
  the runs the runtime accepted.
* Executor: dependencies first; nothing that could run is skipped; a success is
  never retried; records name every run; a child whose last run is not known to
  have ended is marked unsafe; `execute` ends unless the runtime never answers.
* Engine: nothing is delivered unless every child passed; each worktree is
  cleaned or quarantined on every way out, and never while its child runs; what
  `run` reports is what the database holds.
* Workspace: the user's branch moves by one guarded update or not at all.
* Adapters: one terminal result per run, which every waiter is answered with;
  an end that was announced is never lost; every waiter wakes; `quiesce` means
  quiet.
* Planning: a task goes to the best runtime that can do it, or is refused for
  want of one.

## 2. Modules

| Module | Models | Kind |
|---|---|---|
| `CallBudget` | `BudgetState`, `authorize_submission` | operators, constants, `BudgetAssumption` |
| `AgentRun` | what the runtime protocol promises about one run | abstract specification |
| `CodexExec` | `CodexExecAdapter` and the job object it owns, for one run; refines `AgentRun` | component |
| `CodexAppServer` | `CodexAppServerAdapter`, its reader and the process it talks to; refines `AgentRun` per run | component |
| `HermesGateway` | `HermesAdapter`, its receive loops, sockets and reconnects; refines `AgentRun` per run | component |
| `Planning` | probing at build, profiler, router, intake, candidate filter, selector, mode, plan, and the engine's dispatch | component |
| `CallLedger` | what a shared budget promises: permits taken, spent, handed back | abstract specification |
| `DelegationExecutor` | `execute`, `_execute_dag`, `_run_child`, `_cancel_and_confirm_terminal`, `_merge_retry_attempts`; refines `CallLedger` | component |
| `TaskRecord` | `state_machine.py`: transition table, status in memory and stored | operators |
| `Worktree` | states of one worktree and what removing it may leave | operators |
| `SingleExecution` | `run`, `_execute`, `_execute_single` and the eval retry, on `TaskRecord`, `CallBudget` and `Worktree` | component |
| `DelegationEngine` | `_execute_delegation` and `run`'s handler, `WorkspaceManager` as the engine sees it; extends the executor | composition |
| `RootDelivery` | the snapshot of `ExecutionWorkspace.create` and `_deliver_staged`, beside the user of the repository | component |
| `DelegationExecutorProofs`, `DelegationEngineProofs`, `SingleExecutionProofs`, `RootDeliveryProofs`, `CodexExecProofs`, `CodexAppServerProofs`, `HermesGatewayProofs`, `PlanningProofs` | theorems about the eight components | TLAPS |
| `MC...` | instances for TLC | model checking |

Definitions named as mutations in a comment are wrong versions of the
definition that follows them. The specification never uses them; they say what
bug each property would catch.

### DelegationExecutor

A step is the code between two awaits, since that is what asyncio makes
indivisible. `pc[c]` names the await in which child `c` is suspended: `submit`,
`stream` (the event iterator), `wait`, `quiesce`, `evaluate`, or one of the two
calls of `_cancel_and_confirm_terminal` (`cancel_approval` from the approval
branch, `cancel_error` from the exception handler). `phase` is where `execute`
is. Each await has an action for a value and one for an exception; an exception
of the telemetry write that follows a call takes the same handler, so it is the
same action. Usage and eval gate are one await, `evaluate`, and the gate's
verdict is free, except that it cannot pass over budget.

`execution[c]` keeps of a `ChildExecution` what control depends on: status,
whether the evaluation passed, `workspace_safe_to_cleanup`, the attempt
(`retry_count` + 1) and `attempt_run_ids` as the attempts that have one. Three
variables are history: `accepted[c]`, the attempts whose `submit` returned a
handle, `unconfirmed[c]`, the attempts whose run is not known to have ended, and
`waveOf[c]`, the wave of `c`, named by the children decided before it.
A `submit` that raises may have left a run behind (`SubmitMayStrand`): the Hermes
adapter's `prompt.submit` can time out after the gateway accepted it.

The flat path of `execute` (one `gather`, one retry) is the wave loop with no
dependencies: every child is ready at once, the retry rule is the same, and the
next round finds nothing pending. The model therefore has the wave loop only.

### DelegationEngine

`stage` is the await in which `_execute_delegation` is suspended. Git calls are
synchronous subprocesses, so all that happens between two awaits, git included,
is one step; each call may still raise. A worktree is `none`, `active`,
`stuck` (clean raised, the directory is there), `removed` (clean raised after
the directory was gone) or `cleaned`. `root` is the user's branch as found,
`partial` (moved by `update-ref` before a later check raised) or `delivered`.
The prompt for the batch approval is synchronous; a granted batch approval is
the `submission_approval` argument of the executor, so `BatchAuthorized` writes
`args`. The executor's steps are interleaved by `ExecutorRuns` while the engine
awaits `execute`.

### SingleExecution

One coroutine runs a task on the single route, so `stage` is the next await
whose outcome decides the way on; a few awaits in a row with the same exception
handler and nothing read between them are one stage (`judging`: usage,
`mark_evaluating`, the gate, the record of the verdict). `task` is the record
(status in memory and stored), `attempt` is `retry_count` + 1 and `workspace[a]`
the `ExecutionWorkspace` of attempt `a`, since every attempt has its own.
`accepted`, `unconfirmed` and `passed` are history: runs the runtime accepted,
runs not known to have ended, evaluations that passed. A `try` is modelled by
where its exceptions go: `handling` is `run`'s own handler, `cancel_start`,
`cancel_approval` and `cancel_error` are the three places that cancel and
confirm, `retaining` is the write of "workspace retained" inside the `try`
around the stream. `failing` and `abandoning` are the last `mark_failed` and
`mark_abandoned` of a path that returns a summary. The user's answers, the
router and the planning result are free choices. Policy and reservation use the
operators of `CallBudget`; the refusal of `reserve_calls` cannot happen after
`check_calls` when nobody else holds the budget, and has no action.

### RootDelivery

Between two git subprocesses the user may do anything, so here a step is one git
command: `pc` names the next. `Check(here, expected, next)` is a command that
only compares. A commit is the set of changes in its history and the set in its
tree; the two differ when the user commits between `update-ref` and `reset`,
with an index that still lacks the delivered change. `taken` is the snapshot
(`base_sha`, `symbolic_head`, `root_refs`), itself taken by three commands.
`Reset` is `git reset --merge` as git defines it: it moves the branch HEAD names
*now*, discards staged changes, ends a merge, keeps unstaged edits and refuses if
one is in the way of a delivered file. The agent's and the staging worktree are
off the user's root and are not in the model; an error of git other than the
refusals above is in the two engine models (`root = "partial"`).
The user (commit, switch, stage, edit, merge) is external; `actedAt` records
before which commands they acted.

### AgentRun and the adapters

`AgentRun` is one run seen through the protocol: has the handle been handed out,
which result is recorded, what has `wait` answered, has `quiesce` succeeded.
Each adapter module instantiates it with a refinement mapping (`Abstract`) and
checks it as a property. In all three a step ends at an await that can really
suspend (setting an event, putting on an unbounded queue and taking a free lock
do not), each coroutine of the protocol is one variable that names its await, and
each is called once per run. Processes, the gateway and the network are
external: they answer late or never, and what was written is read in order.

`CodexExec` is one run, since runs share only the version check. `submitting`
follows `submit` through `create_process_in_job` (created suspended, put into
the job, resumed) with the way out of each failure; `supervisor` follows
`_supervise` through its body, its handler and its `finally`. The job object is
`alive` (the processes in it: the root and a child it may spawn), `dying`
(terminated), `closed`. A kill may be refused or time out; each such wait has an
action for the confirmation and one for the deadline. Closing the job's last
handle makes the system end what is left, in its own time: a creation that fails
terminates and closes and waits for nothing, so a process of it may be there for
a moment beside what the engine does next. `events` is the log, and
`stream` a consumer with its index, asleep on the `event_ready` condition.

`CodexAppServer` keeps a request future per run and call, the backlog, the reader
task and the processes: `connect` makes a process and overwrites the last one,
`_stop_process` waits for the one it took. A turn may go on in a process that
nobody reads. Runs are submitted one after the other, as
`max_concurrent_runs = 1` has the adapter used. `Replayed` is the run as
`submit` has it after so much of the backlog, a recursive function.

`HermesGateway` has the sockets as lists of unread messages, the receive loops
that read them, pending calls, event queues by run and id, `_completed_results`,
the subscription locks and the reconnect task. `RecordedAll` drains a queue: the
first terminal event in it makes the result. A run goes by a provisional id
("tui", from the session) until the acknowledgement names it ("native"). A
receive loop that ends with an exception leaves its socket in `deaf`.

### Planning

`Probe` is one round of the loop of `Orchestrator.build`: it connects a runtime
that has `connect`, asks for its capabilities and records a health. `Received`,
`PlanningRaises`, `PlanRuntime` and `Unplanned` are `_execute` up to the plan,
`Delegate`, `RefuseMode`, `ExecuteSingle` its dispatch, `SubmitSingle` and
`SubmissionRefused` the check of health at submission. The pure functions are
operators of the same names; a loop over the order of preference that stops at
the first fit is the fit of least position (`FirstOf`). What the profiler finds
in the prose of a goal is free: a number of parallel signals, whether there is a
sequential one, whether the estimate reaches the token threshold.

## 3. Runs

Run TLC with `tlc -config X.cfg M`, e.g. `tlc -config MCDelegationExecutor.cfg
MCDelegationExecutor`.

| Run | Module, configuration | Bounds | Shows |
|---|---|---|---|
| `delegation_executor` | `MCDelegationExecutor` | 3 children; a flat, a chained and a joining plan; 4 calls, 1 retry, approval above 3; stranded submissions and database failures | 11 properties of the executor hold |
| `delegation_engine` | `MCDelegationEngine` | 2 children, flat or in a row; 3 calls, 1 retry, approval above 1 asked and given; read-only and write tasks; stranded submissions and database failures | 6 properties of the engine hold |
| `single_execution` | `MCSingleExecution` | 2 calls, 2 retries, approval above 1; read-only and write tasks; stranded submissions and database failures | 7 properties of the single path hold |
| `retention_lost` | `MCSingleExecution`, `MCRetentionLost.cfg` | no stranded submission | README.md:132-134 is violated by a failing write |
| `root_delivery` | `MCRootDelivery` | two branches, attached or detached HEAD, 3 user steps anywhere between 16 git commands | 4 properties of the delivery hold |
| `staged_lost` | `MCRootDelivery`, `MCStagedLost.cfg` | 1 user step | a change staged after the look at the files is discarded |
| `quarantine_lost` | `MCDelegationEngine`, `MCQuarantineLost.cfg` | as `delegation_engine`, calls enough for all, no stranded submission, no database failure | README.md:132-134 of the repository is violated |
| `codex_exec` | `MCCodexExec` | one run, 2 native events of 4 kinds, a root process and a child | 3 properties of the adapter hold |
| `codex_app_server` | `MCCodexAppServer` | one run used in every way, with one message of noise; or two runs, one after the other; 2 unread messages per process | 4 properties of the adapter hold |
| `hermes_gateway` | `MCHermesGateway` | one run of either name, or two runs; 2 sockets, 1 unread message each, 1 message of noise | 4 properties of the adapter hold |
| `hermes_quiesced` | `MCHermesGateway`, `MCHermesQuiesced.cfg` | the same | README.md:132-134 of the repository is violated |
| `planning` | `MCPlanning` | 3 runtimes, two sets of registered ones, every order of preference, 3 capability sets, every health, 8 tasks | a task goes to the best runtime |

**Why the bounds are enough.** Three children give a wave with two concurrent
submissions and a dependant of both; four calls for up to six attempts make the
budget run out in the middle of a wave and of a retry, and the threshold of
three makes the approval refuse a call that the budget would allow. One retry is
the default policy and makes a first and a second wave compete for it. In the
engine two children suffice: what differs between them is only who fails and
who is quarantined. The single path is checked with three attempts on two calls, so
that a first, a middle and a last attempt exist, the approval threshold is met
between them and the calls run out before the retries. In the executor `Attempts` is {1, 2} because the code retries a child at
most once. `MaxUserSteps` = 3 lets the user commit, switch and commit again around
one delivery; a race needs one or two.

In `codex_exec` two native events suffice for an event before the terminal one,
and the four kinds take every branch of the reader (an error, a reroute, a
terminal event, no JSON). In the other adapters one run is used in every way at
once, since its own coroutines race each other; two runs without the extra
callers show what they share: the process or the connection, the backlog, the
reconnect. Two sockets are one that drops and its replacement, or two callers
who connect at once. `MaxUnread` and `noise` bound what the far side has written
and the program not read. In `planning` two registered runtimes and a third name
in the order give every relation of the selected one to a better one.

`CHECK_DEADLOCK FALSE`: `execute`, `run` and the delivery return, and then
nothing more happens; so do the adapters once every caller has ended, and
planning. That they do end, `execute` and `run` if what they await is answered, is
checked as liveness.

**Fairness.** Of the executor, `WF` of `Execute` and of every `Starts(c)`: the event
loop runs `execute` between its gathers and starts each child of a wave. Nothing
is assumed of an await of a child. `submit`, `wait`, `cancel` and `quiesce` of the
adapters have deadlines, but `events` of the app-server has none (app_server.py,
318-322), and both the executor (385-405) and the engine (778) read it to the end
before they call `wait`: a silent server hangs the task, and no fairness would
be justified there. `EndsIfAnswered`, `EngineEndsIfAnswered` and
`SingleEndsIfAnswered` therefore say: the program ends unless some await of the
runtime is never answered. What is left for them to catch is a child that nobody
starts or collects, and a handler or a retry that goes round for ever however
often it is answered. The single path has `WF` of its steps outside these awaits:
the database, git and the user's prompt (120 s), which come back; the gate's
checks have deadlines of their own.
In the adapters the only fairness is `WF_vars(Loop)`: the event loop does not
stop while a coroutine can go on or a timer is due. It is weaker than fairness
for each coroutine; it suffices, as each is called once and takes few steps.
Processes, gateway and network owe no answer. "Every caller ends" is therefore
`[]<>` nobody is suspended. Two waits without a deadline are left out of the
adapters: the drain of a line written to the app-server (app_server.py, 410-417)
and `ws.send` (gateway.py, 334) are taken to return at once, as they do while the
far side reads its input.

**Properties.**
`ReservationsMatch`, `CallsWithinLimit`, `CallsAreRuns`: the budget under
interleaving. `DependenciesFirst`, `SkippedOnlyBelowFailure`: the wave loop.
`ProvenanceComplete`, `LastAttemptQuarantined`, `ResultsKept`: the retry.
`RetriesAccounted`: a second attempt is only of a child whose first failed, and
the waves that have one are as many as the retries counted. `ImplementsLedger`: refinement of `CallLedger`.
`EndsIfAnswered`, `EngineEndsIfAnswered`: liveness. `QuarantineLostOnlyWithRecord`,
`NoWorktreeForgotten`, `WorktreeOutlivesChild`: worktrees.
`DeliveredOnlyVerified`: delivery. `OutcomeStored`: the record, as `run` returns
(`SummaryIsStored`) and as it raises (`RaisedOnlyIfWriteLost`): whatever raises is
recorded by one more `mark_failed`, so a handler below that had recorded it would
turn every error into an illegal transition; no path does.
Single path: `CallsCounted`; `MovedOnlyForVerified` (the branch moves only for
a verified write task none of whose runs lives); `FreshWorkspace` (a retry
starts from a clean slate); `RemovedBesideRunOnlyIfLost`, `NothingForgotten`
(workspaces); `OutcomeTold`, which joins `OutcomeStored` (what `run` returns is what
the database holds, and what it raises is recorded unless that write failed) and
`MarksLegal` (the table of `state_machine.py` allows every transition the body asks
for, on each attempt: `IllegalTransitionError` comes from the handler of `run`
only); `SingleEndsIfAnswered`.

Delivery: `OnlyGuardedMove` and `CommitsKept` hold wherever the user acts, but in
one gap: from the last look at HEAD (`recheck_head`) until `reset --merge`, which
moves whatever branch HEAD names by then. `AllOrNothing` says
when a delivery that fails has moved nothing and one that succeeds is complete;
`StagedKeptIfSeen` when staged changes are safe.

Adapters: `ImplementsAgentRun` (one result, kept, answered by every wait, and
quiesced only after it), `CallersEnd` and `EverybodyWakes` (liveness).
`QuietWhenReported` and `QuietWhenQuiesced`: no process or turn runs once the
adapter says it has ended; of a creation that failed only that the job is closed.
`EndAsAnnounced` and `HeardIsKept`: an end that was read
becomes the result, whether it came before the registration or the
acknowledgement, beside a deadline or after a cancel (`ResultAsAnnounced`,
`HeardIsRecorded`; in the app-server the result is the status announced, an
interrupt counting as the cancel or timeout it was asked for, and another one only
if the deadline passed with nothing announced or the protocol failed), and it reaches the consumer of events: however many ends race
there is one terminal event (`TerminalEventOnce`), queued until it is taken,
whatever becomes of the connection and of the run's id (`HeardIsStreamed`).
`NoSilentRun`: a run that waits for an end hears the socket of its prompt, unless
that receive loop died of an exception. Planning: `DispatchedToBest`.

**Finding 1, `quarantine_lost`.** A child whose agent reports `failed` and whose `quiesce` raises
is recorded as failed and unsafe to clean up. It is retried in the same worktree,
and `_merge_retry_attempts` keeps from the first record only the run ids. If the
retry ends cleanly, its record is safe, the engine does not quarantine the
worktree and deletes it, though the first run was never confirmed to have ended.
`QuarantineLostOnlyWithRecord` states what does hold: an accepted run loses its
quarantine only in this way (it is the first attempt's, and the retry left nothing
behind; a retry whose own run is unconfirmed keeps the worktree), or when
`execute` itself raises (a telemetry failure after all children returned) and the
engine never sees the records. A run stranded by a `submit` that raised was in no
record to begin with.

**Finding 2, `retention_lost`.** In `_execute_single`, when `quiesce` raises,
`mark_failed("... workspace retained")` is awaited inside the `try` whose
handler rolls back any workspace once `terminal_confirmed` is true, and that was
set from the status `wait` returned. If the write raises, the workspace is
removed beside a run nobody confirmed quiescent. `RemovedBesideRunOnlyIfLost`
states that this write and a stranded submission are the only ways.

**Finding 3, `staged_lost`.** The second boundary check cannot look at the files
(they lag behind the branch by then) and passes `check_worktree=False`; a change
staged after the first one is discarded by `reset --merge`, although
`ensure_root_clean` promises to refuse when a root change could be overwritten.

**Finding 4, `hermes_quiesced`.** When the connection is lost, the Hermes adapter
makes every active run terminal with an error of its own, `wait` answers
`failed`, and `quiesce` does nothing. The engine takes that for a confirmed end
and rolls the workspace back, while the gateway goes on with the run. What does
hold is `QuietWhenReported` and `QuietWhenQuiesced`, of the other two adapters.

## 4. Proofs

`DelegationExecutorProofs` holds for every finite set of children, every
dependency plan, every budget and approval, and both fault constants. It assumes
only what the modules state: `BudgetAssumption` (the limits are natural
numbers), `ChildAssumption` (finitely many children), `InvocationAssumption`.

* The inductive invariant is `Basic`: types, `ReservationsMatch`, `WaveShape`
  and `StatusKnown`. Types alone are not inductive: `calls_reserved - 1` is a
  natural number only because the child giving back is itself counted.
  Reservations are not inductive without `WaveShape`: `DispatchWave` overwrites
  `pc` of the children it starts, which leaks a reservation unless none of them
  is suspended in `submit`. `StatusKnown` is needed because a record copies the
  status that `wait` returned two awaits earlier.
* Each step of a child is summarised once, in `RunChildEffect`: what it cannot
  touch (`ChildFrame`) and what it does to the budget (nothing, reserve, commit
  or release: `BudgetEffect`). The later proofs use these and not the actions.
* `TypeCorrect`, `ReservationsAlwaysMatch` follow from `Basic`;
  `CallsAlwaysWithinLimit` adds that gate and reservation are one step
  (`ReserveWithinLimit`); `LedgerImplemented` maps reserve, commit and release to
  `Take`, `Spend` and `HandBack` and every other step to a stutter.
* `ResultsAlwaysKept` and `DependenciesAlwaysFirst` rest on one more invariant,
  `SuccessIsDone`: only a coroutine that has returned leaves a successful record.
* What the records say is proved from `Recorded`, which adds `RunsInStep` to
  these: for each await, which attempts may have a run and what the record names
  meanwhile. `ProvenanceComplete` is not inductive alone, since a record on its
  second attempt has yet to take over the run ids of the first; nor is
  `CallsAreRuns` (each commit of the budget must add a pair that was not there:
  `Attempt` has no run while its `submit` is awaited), nor `RetriesAccounted`
  (a retry is counted in the step that begins the second attempts of one wave, and
  that wave is no earlier one: `WavesInStep`).
  A child's step does one of three things to its runs (`RunsEffect`): it goes on,
  a run is accepted, or it returns and its record `Describes` the attempt.

`SingleExecutionProofs` holds for every `max_total_calls`, `max_retries` and
approval threshold, from `BudgetAssumption` and `SingleFaultAssumption`. Its
`Basic` adds four conjuncts to types, counts and delivery, each tying the stage
to what must have happened before it. `RetriesInStep` (retries used = attempts
before this one) makes the next attempt's number legal. `RunsInStep` (this
attempt's run is not yet accepted before `submit` answers; no run lives from
evaluation on) makes the call count exact and the delivery safe.
`VerdictInStep` and `WorkspacesInStep` carry "no earlier attempt passed" and
"earlier workspaces are cleaned" around the retry. The four lemmas `...Keeps`
have one case per action; types, counts, delivery and the fresh workspace are
consequences of `Basic`.

How a task ends is proved from `Outcome`, `Basic` with four more conjuncts.
`StatusInStep`: whether the handler of `run` can record the failure depends on
the status in memory, which must not be `completed` while a failure is still
possible; `OutcomeStored` follows. `TreesInStep`: a task that goes on has its
workspace and no later one, and one that is left has an active workspace only
beside a run that may live, or after a read-only pass whose baseline could not
be compared (`NothingForgotten`). `DeliveryInStep`: a task about to be completed
is delivered and clean. `RemovedBesideRunOnlyIfLost` is inductive only beside
`StatusInStep` and `RunsInStep`, which tell a lost retention from a run that was
confirmed. `MarksLegal` follows from `MarksInStep`, the status in memory of each stage: the
retry passes through failed and retrying before it meets the stages again.

`CodexExecProofs` holds for every set of native events and every number of them,
from `ExecAssumption`. Its inductive invariant `Step` adds three conjuncts to the
types. `HandedWithSupervisor`: nobody but `submit` acts before the supervisor
exists. `GoneWithSupervisor`: a supervisor that is done has recorded a result and
seen no process alive, a tree that is gone spawns nothing, and what a refused
`submit` has not reaped is in a closed job.
`JoinedSupervisor`: whoever reports an end has joined such a supervisor. Without
the last two `QuietWhenReported` is not inductive: `wait` and `cancel` never look
at the processes themselves. The Boolean flags (`FlagsOK`) are proved apart, as
the SMT backend does not type them. `NeverALostWakeup` adds one invariant of its
own, that the consumer has read no more than the log holds, and separates the
steps that lengthen the log or record the result, which wake the consumer in the
same step, from its own, which look at both before they sleep. `AgentRunImplemented` maps the end of
`submit` to `HandOut`, `RecordResult` to `Finish`, a joined `wait` to `Answer`,
`Quiesces` to `Release` and every other step to a stutter.

`DelegationEngineProofs` is about engine and executor together, from the
executor's assumptions and `GrantAssumption` (an invocation the user approves is
an invocation). The executor's `Basic` and `CallsWithinLimit` survive because
the engine awaits it: outside `executing` its phase is a resting one (`Paused`),
and only the grant, before any call, changes `args` (`ApprovalKeepsExecutor`).
`TreesInStep` and `DeliveryInStep` then tie the stage to the worktrees and to
what was delivered; `CleanEachResult` says that cleaning leaves no worktree
active, whatever it raises. `DeliveredOnlyVerified` needs the executor's proofs:
the records that were judged do not change afterwards, and the limit holds still.
`RaisedAlwaysWriteLost` rests on `RecordInStep`, like `SummaryAlwaysStored`: where a
failure is to be recorded the status is one that can fail, or a completion whose
write was lost.

`QuarantineAlwaysLostWithRecord` is about three things at once: the worktrees of
the engine, the records of the executor and the runs behind them. Its invariant
`EngineRecorded` adds to these the executor's `Attributed` (`Recorded`; a record
of a first attempt is that of a child with no second one; what passed the gate is
safe; nothing has begun before the first wave), which no step of the engine
disturbs, and `QuarantineInStep`: once `execute` has returned, the quarantine is
what the records say, and nothing quarantined is gone. The last part is why what
passed must be safe: from staging on every child has passed, so nothing is
quarantined, and the engine may remove what it likes (`NothingQuarantined`).

`RootDeliveryProofs` holds for any branches and any `MaxUserSteps`, from
`DeliveryAssumption`. Three invariants carry what a command has seen forward
to the command that relies on it, for as long as the user does not act in
between. `LastLooks`: HEAD and refs are still as expected at the reset, so the
reset moves no branch; `CommitsKept` and `OnlyGuardedMove` follow. `HeldInStep`:
what is staged is in the index and not in HEAD until the look at the files finds
nothing staged; it needs `Numbered`, that a change in the index or in a tree has
the number of a step already taken. `Whole`: every check of the boundary holds
until the end, so a delivery that fails has failed before `update-ref`.

`CodexAppServerProofs` holds for every `MaxRuns`, bound on unread messages and
noise, and every choice of clients. A process is given up while
it may still run a turn, and an end may be announced before its run is registered.
The argument:

* Runs come one after the other (`Serial`), so at most one is under way
  (`ActiveAlone`); a process is created only when the last one may have no turn
  (`Evidence`); whoever stops a process has first taken it away from the adapter
  (`Stopping`). Hence a turn, or the request for one, is only
  in the process the adapter has or is stopping, and its run is not quiesced
  (`TurnPlace`); `QuietWhenQuiesced` follows. These are `PlaceInv`.
* `ResultAsAnnounced` compares what the server said *first* with what is
  recorded. Every result that is no failure `Agrees` with the announcement; a failure
  is `Faithful` to it unless the protocol has failed, which `connect` forgets, but only
  once the runs before it are quiesced. A result `timeout` needs `Deadline`: the
  grace period comes after the deadline. What the result was taken from does not
  change afterwards (`RequestsKept`). Before registration the announcement is in the backlog, of which
  nothing is taken while no run is open (`Backlog`); the replay must then find the
  first one of this run. `Replayed` is a recursive function, and induction takes
  an operator; so the lemmas about it are proved by least counterexample: the set
  of lengths at which one fails would have a least element
  (`WFMin`, on the natural numbers), and the step before it is not in the set.
* `Started` says that nothing is heard of a run before its `submit`, `Awaited` that
  the first announcement of a run still being submitted is in the backlog, with no
  other of this run before it.
* `TerminalEventOnce` is inductive with the types alone once each step is summarised
  by what it does to a run (`Grows`): it leaves result and queue alone but for
  events that are no end, or it records a result where there was none and appends
  one end last (`EndsWith`). `_finish` returns early where a result is recorded;
  the replay at the registration finishes at most once. The consumer takes from
  the head and stops at the end, so nothing follows it.
* `NobodyForgotten` joins places and futures: whoever empties the table (an exit, a
  failed protocol, a disconnect) turns pending into lost, and only the caller
  takes back what is settled, as it goes on.
* `EveryTurnImplementsAgentRun` maps, run by run, the registration to `HandOut`,
  the recording to `Finish`, the end of `wait` to `Answer`, that of `quiesce` to
  `Release` and all else, the steps of other runs included, to a stutter.

`HermesGatewayProofs` holds for every set of runs, number of sockets and choice
of clients. `NoSilentRun` needs `Rpc`: the acknowledgement that `submit` trusts is
the answer to its own prompt, read by the loop of the socket it left by, since
`submit` has at most one request or answer on the way (`OneAtATime`), though
requests of a run go over several sockets in turn. `HeardIsRecorded` needs
`HeardIsQueued`: an end heard before the acknowledgement is in a queue that the
acknowledgement adopts, whichever id it came under; `RecordedAll` then finds it.
`HeardIsStreamed` is about the queue itself: no step takes the end from a queue but
the consumer's, which ends with it, and the acknowledgement carries the
queue of the provisional id over to the final one. For `NobodyForgotten`,
`Phases` says that who holds a lock is subscribing, and each step of a caller that
suspends it in a call makes the call.
`Phases` says who may use a run before and after it is handed out, which the
refinement of `AgentRun` (`EveryRunImplementsAgentRun`) rests on too.

`PlanningProofs` holds for every set of runtimes, order of preference, health
and capabilities, from `PlanningAssumption`. `PlanInStep` says that while the
task waits to be dispatched the plan is still the one composed for the runtime
selected (`PlanStands`), as what was observed does not change after the build;
the rest is about operators: `FirstOf` has the least position of its set
(`WFMin` again), so no candidate is preferred to the one selected, and a
degraded runtime is selected only if none is healthy.

**Proved, and in no run:** `NoLostWakeup` (exec) and `NobodyForgotten` (of both RPC
adapters). They are the safety core of `EverybodyWakes` and `CallersEnd`, which the
runs check: the consumer sleeps only while an event is still to come that wakes
it; every caller suspended in a request has one that is answered, fails or
expires, and no lock outlives the call it was taken for. The theorems
(`NeverALostWakeup`, `NobodyEverForgotten`) say so for any number of events and runs,
where the liveness itself is out of the prover's reach.

**Only model-checked:** the liveness properties `EndsIfAnswered`,
`EngineEndsIfAnswered`, `SingleEndsIfAnswered`, `EverybodyWakes` and both `CallersEnd`, since liveness under
fairness is beyond the prover. Every invariant and action property and every
refinement of a passing run is a theorem.

## 5. Not modelled

Token usage, cost, metrics, prompt texts, summaries and the merged answer of
`_aggregate` are data that no control depends on. `asyncio.CancelledError` (the
process is being shut down) is outside the models. Of the adapters, the requests
that keep nothing are left out (`steer`, `status`, `usage`, thread settings, the
model inventory), the reduction of exec's trace files, the arguments of the
commands, the Windows bindings below the job's operations, and idle time-outs of
the WebSocket library, which show as drops. Of planning, the content of the HMC
requests (a recommendation names the planner and decides nothing), the reasons
recorded for an audit, and the regular expressions of the profiler.
Writes to the app-server's input and to the WebSocket are taken to return.
`WorkspaceManager.integrate`, which no path of the program calls, and the
interactive prompts are left out. The mock runtime, the CLI, the experiment
profile and the spike have no concurrent or persistent logic of their own;
PROJECT.json lists each with its reason.

Two things the models make visible and no property speaks of: a plan's kanban
and delegate modes are never reached, as the pipeline plans only tasks without
subtasks; and `policies/default.yaml:21` says that a low complexity prefers
`single` even if the token estimate is high, while the router looks at the
delegation signals first (`Route`).

## 6. Plan

1. `CallBudget`, `CallLedger`, `DelegationExecutor`, first proofs - done.
2. `TaskRecord`, `DelegationEngine` - done.
3. `SingleExecution`, with failing writes and failing quiesce, and its proofs -
   done.
4. `RootDelivery`: `_deliver_staged` beside a user who commits, switches
   branches or edits - done.
5. `AgentRun`, and `CodexExec`, `CodexAppServer`, `HermesGateway` shown to
   implement it; `CodexExecProofs` - done.
6. `Planning` - done.
7. `DelegationEngineProofs`, `RootDeliveryProofs` - done.
8. `HermesGatewayProofs`, `CodexAppServerProofs`, `PlanningProofs`; the records
   of the executor, the quarantine, the end of the single path - done.
9. The consumers of events and the requests of the adapters (`NoLostWakeup`,
   `HeardIsStreamed`, `TerminalEventOnce`, `NobodyForgotten`), the marks of the
   single path and what `run` raises, with their proofs - done.
10. Not begun: the composition of the engine with `AgentRun` in place of the free
   answers of its awaits.
