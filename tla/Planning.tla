------------------------------ MODULE Planning ------------------------------
(***************************************************************************)
(* From a task to the runtime it is submitted to: the runtimes are probed  *)
(* when the orchestrator is built (Orchestrator.build), the task is        *)
(* profiled, routed and planned (profiler, router, task_intake,            *)
(* candidate_filter, runtime_selector, execution_mode_policy,              *)
(* runtime_plan_composer, planning_pipeline), and the engine follows the   *)
(* plan or refuses it (_execute, _execute_single).                         *)
(*                                                                         *)
(* A runtime goes by its identity.  What a goal's prose says is the number *)
(* of parallel signals found in it and whether a sequential one was; the   *)
(* size of a task is whether it reaches the token threshold; of the paths  *)
(* allowed to it or to a subtask it matters whether there are any.         *)
(* Subtasks are the sets of subtasks they depend on.  Policy versions,     *)
(* reasons and decision codes are left out, and what HMC recommends: it    *)
(* names the planner only.                                                 *)
(***************************************************************************)
EXTENDS Naturals, Sequences, SequencesExt

CONSTANTS
  Identities,    \* runtime identities
  Configs,       \* what an orchestrator is built with: the registered runtimes,
                 \* which of them have a connect, the selection policy (priority,
                 \* degraded), planning_required and max_children
  Tasks,         \* the tasks that may arrive
  Offers         \* the capability sets a runtime may report

TaskTypes == {"code_fix", "multi_file_refactor", "parallel_research",
              "test_and_implement", "code_review", "general"}
Statuses == {"available", "degraded", "unavailable", "unknown"}
NoPlan == [executor |-> "none", mode |-> "none"]

ASSUME PlanningAssumption ==
  /\ "none" \notin Identities
  /\ \A c \in Configs :
       /\ c.registered \subseteq Identities /\ c.connects \subseteq c.registered
       /\ c.priority \in Seq(Identities) /\ IsInjective(c.priority)
       /\ c.priority # <<>> /\ Head(c.priority) \in c.registered
       /\ c.degraded \in BOOLEAN /\ c.required \in BOOLEAN /\ c.children \in Nat
  /\ \A t \in Tasks :
       /\ t.type \in TaskTypes /\ t.parallel \in Nat
       /\ t.sequential \in BOOLEAN /\ t.long \in BOOLEAN /\ t.paths \in BOOLEAN
       /\ \A i \in DOMAIN t.subtasks : t.subtasks[i] \subseteq 1..(i - 1)

VARIABLES
  config, task,
  unprobed,     \* registered runtimes the loop of build has not reached
  health,       \* _runtime_health_by_runtime
  offered,      \* _runtime_capabilities_by_runtime
  stage,        \* how far the task has come
  plan,         \* the RuntimePlan
  runtime       \* the runtime the task was submitted to

facts == <<config, unprobed, health, offered>>
vars == <<facts, task, stage, plan, runtime>>

Init ==
  /\ config \in Configs
  /\ task \in Tasks
  /\ unprobed = config.registered
  /\ health = [r \in Identities |-> "unknown"]
  /\ offered = [r \in Identities |-> {}]
  /\ stage = "building" /\ plan = NoPlan /\ runtime = "none"

-----------------------------------------------------------------------------
(* Profiler and router, with the thresholds of policies/default.yaml.      *)

DelegatedTypes == {"multi_file_refactor", "parallel_research", "test_and_implement"}
MinIndependentSubtasks == 2

\* The number of subtasks, estimated from the prose if there is no explicit plan.
IndependentCount(t) ==
  IF t.subtasks # <<>> THEN Len(t.subtasks)
  ELSE IF t.parallel = 0 THEN 1 ELSE t.parallel + 1

HasDependencies(t) == \E i \in DOMAIN t.subtasks : t.subtasks[i] # {}

HasSequentialDependency(t) ==
  IF t.subtasks # <<>> THEN HasDependencies(t) ELSE t.sequential

\* The complexity rule comes after the delegation signals: it changes the
\* reasons of a single route, never the route.
Route(t) ==
  IF \/ t.subtasks # <<>>
     \/ /\ ~HasSequentialDependency(t)
        /\ \/ t.type \in DelegatedTypes
           \/ IndependentCount(t) >= MinIndependentSubtasks
           \/ t.long
    THEN "delegation" ELSE "single"

-----------------------------------------------------------------------------
(* Intake: what the task requires, and its shape.                          *)

WriteTypes == {"code_fix", "multi_file_refactor", "test_and_implement"}
CodeTypes == WriteTypes \cup {"code_review"}

Requirements(t) ==
     (IF t.type \in WriteTypes THEN {"filesystem_write", "shell", "tests"} ELSE {})
  \cup (IF t.type \in CodeTypes \/ t.paths THEN {"filesystem_read"} ELSE {})
  \cup (IF t.type = "parallel_research" THEN {"web"} ELSE {})

ReadyFrontier(t) == {i \in DOMAIN t.subtasks : t.subtasks[i] = {}}
Parallelizable(t) == \E i, j \in ReadyFrontier(t) : i # j

\* execution_complexity = HIGH
Complex(t) == HasDependencies(t) \/ Len(t.subtasks) >= 3

-----------------------------------------------------------------------------
(* The planning pipeline.                                                  *)

Eligible(r) ==
  /\ Requirements(task) \subseteq offered[r]
  /\ health[r] \in {"available", "degraded"}

Healthy == {r \in config.registered : Eligible(r) /\ health[r] # "degraded"}
Degraded == {r \in config.registered : Eligible(r) /\ health[r] = "degraded"}

\* The loop over the order of the policy returns at the first runtime of S.
Positions(S) == {i \in DOMAIN config.priority : config.priority[i] \in S}
FirstOf(S) == config.priority[Min(Positions(S))]

\* Mutation: a degraded candidate high in the order goes before a healthy one.
SelectedByPriority ==
  LET candidates == IF config.degraded THEN Healthy \cup Degraded ELSE Healthy
  IN  IF Positions(candidates) = {} THEN "none" ELSE FirstOf(candidates)

\* select_runtime
Selected ==
  IF Positions(Healthy) # {} THEN FirstOf(Healthy)
  ELSE IF config.degraded /\ Positions(Degraded) # {} THEN FirstOf(Degraded)
  ELSE "none"

NativeRuntimes == {"codex", "claude_code"}

\* _kanban_reason: intake never says persistent or long running.
KanbanReason(t) == HasDependencies(t) \/ (Complex(t) /\ Parallelizable(t))

\* select_execution_mode, under the policy that allows every mode.
ModeOf(r) ==
  IF r \in NativeRuntimes THEN "native"
  ELSE IF r # "hermes" THEN "direct"
  ELSE IF KanbanReason(task) /\ "native_kanban" \in offered[r] THEN "kanban"
  ELSE IF Parallelizable(task) /\ "native_delegation" \in offered[r] THEN "delegate"
  ELSE "direct"

\* RuntimePlan: the arrangements of version 1.
KnownArrangement(p) ==
  CASE p.executor = "hermes" -> p.mode \in {"direct", "delegate", "kanban"}
    [] p.executor \in NativeRuntimes -> p.mode = "native"
    [] OTHER -> TRUE

\* compose_runtime_plan
Composed(r) == [executor |-> r, mode |-> ModeOf(r)]

-----------------------------------------------------------------------------
(* Orchestrator.build probes every registered runtime once.                *)

\* Connect where there is one, supplied health otherwise; then capabilities,
\* which make the runtime unavailable when they raise.
Probe(r) ==
  /\ stage = "building" /\ r \in unprobed
  /\ \/ /\ health' \in {[health EXCEPT ![r] = status] : status \in
                          IF r \in config.connects THEN {"available", "unavailable"} ELSE Statuses}
        /\ offered' \in {[offered EXCEPT ![r] = capabilities] : capabilities \in Offers}
     \/ /\ health' = [health EXCEPT ![r] = "unavailable"]
        /\ UNCHANGED offered
  /\ unprobed' = unprobed \ {r}
  /\ UNCHANGED <<config, task, stage, plan, runtime>>

\* The build ends, and the task comes in.
Received ==
  /\ stage = "building" /\ unprobed = {}
  /\ stage' = "received"
  /\ UNCHANGED <<facts, task, plan, runtime>>

-----------------------------------------------------------------------------
(* _execute, from the approval to the branch on the route.                 *)

Goto(next) == stage' = next /\ UNCHANGED <<facts, task, runtime>>

Planned == config.required /\ task.subtasks = <<>>
HealthObserved == \A r \in config.registered : health[r] # "unknown"

\* The planning raises: health was never observed, there are no models, HMC
\* refuses, or the plan contradicts itself.
PlanningRaises ==
  /\ stage = "received" /\ Planned
  /\ Goto("planning_raised")
  /\ UNCHANGED plan

\* The pipeline ends with a plan, or without one.
PlanRuntime ==
  /\ stage = "received" /\ Planned
  /\ HealthObserved
  /\ IF Selected = "none"
       THEN Goto("no_plan") /\ UNCHANGED plan
       ELSE /\ KnownArrangement(Composed(Selected))
            /\ plan' = Composed(Selected)
            /\ Goto("planned")

\* An explicit plan of subtasks is not executed where plans are required, nor
\* if it has more subtasks than the budget has children.
RefuseSubtasks ==
  /\ stage = "received" /\ task.subtasks # <<>>
  /\ config.required \/ IndependentCount(task) > config.children
  /\ Goto("subtasks_refused")
  /\ UNCHANGED plan

Unplanned ==
  /\ stage = "received" /\ ~config.required
  /\ task.subtasks = <<>> \/ IndependentCount(task) <= config.children
  /\ Goto("planned")
  /\ UNCHANGED plan

\* Without a plan the delegated path and the single one take the first runtime
\* of the policy, whatever its health.
Unchecked == Head(config.priority)

Delegate ==
  /\ stage = "planned" /\ Route(task) = "delegation" /\ plan = NoPlan
  /\ stage' = "submitted"
  /\ runtime' = Unchecked
  /\ UNCHANGED <<facts, task, plan>>

RefuseMode ==
  /\ stage = "planned" /\ Route(task) = "delegation"
  /\ plan # NoPlan /\ plan.mode # "direct"
  /\ Goto("mode_refused")
  /\ UNCHANGED plan

ExecuteSingle ==
  /\ stage = "planned"
  /\ Route(task) = "single" \/ plan.mode = "direct"
  /\ Goto("executing")
  /\ UNCHANGED plan

\* The plan's runtime has to be healthy, not just degraded.
SubmitSingle ==
  /\ stage = "executing"
  /\ config.required => health[plan.executor] = "available"
  /\ stage' = "submitted"
  /\ runtime' = IF plan = NoPlan THEN Unchecked ELSE plan.executor
  /\ UNCHANGED <<facts, task, plan>>

SubmissionRefused ==
  /\ stage = "executing"
  /\ config.required /\ health[plan.executor] # "available"
  /\ Goto("health_refused")
  /\ UNCHANGED plan

Next ==
  \/ \E r \in Identities : Probe(r)
  \/ Received
  \/ PlanningRaises \/ PlanRuntime \/ RefuseSubtasks \/ Unplanned
  \/ Delegate \/ RefuseMode \/ ExecuteSingle
  \/ SubmitSingle \/ SubmissionRefused

Spec == Init /\ [][Next]_vars

-----------------------------------------------------------------------------
(* Properties. *)

\* A runtime a planned task could be submitted to.
Submittable(r) ==
  /\ r \in config.registered /\ Contains(config.priority, r)
  /\ Requirements(task) \subseteq offered[r]
  /\ health[r] = "available"

Preferred(r, other) ==
  \E i, j \in DOMAIN config.priority :
    i < j /\ config.priority[i] = r /\ config.priority[j] = other

\* Where plans are required, a task goes to the submittable runtime the policy
\* prefers, never in a mode that fans out what AAO may fan out itself; and it
\* is refused for want of a plan or of health only if no runtime was submittable:
\* neither a degraded candidate nor an unregistered name in the order, nor a
\* runtime without the required capabilities, stands in the way of a healthy one.
DispatchedToBest ==
  /\ stage = "submitted" /\ config.required =>
       /\ Submittable(runtime)
       /\ \A r \in config.registered : Submittable(r) => ~Preferred(r, runtime)
       /\ plan.mode \in {"direct", "native"}
  /\ stage \in {"no_plan", "health_refused"} => \A r \in config.registered : ~Submittable(r)

=============================================================================
