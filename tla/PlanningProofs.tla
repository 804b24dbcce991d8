--------------------------- MODULE PlanningProofs ---------------------------
(***************************************************************************)
(* Theorems about Planning for every set of runtimes, every selection      *)
(* policy, every task and every answer of the probes.  What the plan was   *)
(* made from does not change while the task is executed, so the selection  *)
(* still describes the runtime the task is submitted to.                   *)
(***************************************************************************)
EXTENDS Planning, WellFoundedInduction, TLAPS

-----------------------------------------------------------------------------
(* The order of the policy.                                                *)

\* Where some number of S is natural, S has a least element.
LEMMA MinIsLeast ==
  ASSUME NEW S \in SUBSET Nat, S # {}
  PROVE  Min(S) \in S /\ \A n \in S : Min(S) <= n
<1>1. \E m \in S : \A n \in S : <<n, m>> \notin OpToRel(<, Nat)
  BY NatLessThanWellFounded, WFMin
<1>2. PICK m \in S : \A n \in S : <<n, m>> \notin OpToRel(<, Nat)
  BY <1>1
<1>3. ASSUME NEW n \in S PROVE m <= n
  <2>1. <<n, m>> \in Nat \X Nat
    OBVIOUS
  <2>2. ~(n < m)
    BY <1>2, <2>1 DEF OpToRel
  <2> QED
    BY <2>2
<1>4. \E k \in S : \A n \in S : k <= n
  BY <1>3
<1> QED
  BY <1>4 DEF Min

\* A policy orders runtimes without repeating one.
Priorities == {order \in Seq(Identities) : IsInjective(order)}

\* The loop over a policy returns a runtime of S that no other one of S precedes.
LEMMA FirstOfIsPreferred ==
  ASSUME config.priority \in Priorities, NEW S, Positions(S) # {}
  PROVE  /\ FirstOf(S) \in S /\ Contains(config.priority, FirstOf(S))
         /\ \A r \in S : ~Preferred(r, FirstOf(S))
<1> DEFINE order == config.priority
           first == Min(Positions(S))
<1>1. /\ DOMAIN order = 1..Len(order) /\ Len(order) \in Nat
      /\ \A i, j \in DOMAIN order : order[i] = order[j] => i = j
  BY DEF Priorities, IsInjective
<1>2. Positions(S) \in SUBSET Nat
  BY <1>1 DEF Positions
<1>3. first \in Positions(S) /\ \A i \in Positions(S) : first <= i
  BY <1>2, MinIsLeast
<1>4. first \in DOMAIN order /\ FirstOf(S) = order[first] /\ order[first] \in S
  BY <1>3 DEF Positions, FirstOf
<1>5. Contains(order, FirstOf(S))
  BY <1>1, <1>4 DEF Contains
<1>6. ASSUME NEW r \in S, Preferred(r, FirstOf(S)) PROVE FALSE
  <2>1. PICK i, j \in DOMAIN order : i < j /\ order[i] = r /\ order[j] = FirstOf(S)
    BY <1>6 DEF Preferred
  <2>2. j = first
    BY <1>1, <1>4, <2>1
  <2>3. first <= i
    BY <1>3, <2>1 DEF Positions
  <2> QED
    BY <1>1, <1>4, <2>1, <2>2, <2>3
<1> QED
  BY <1>4, <1>5, <1>6

\* The order lists a runtime of S exactly if the loop can stop at it.
LEMMA ListedHasPosition ==
  ASSUME config.priority \in Priorities, NEW S, NEW r \in S, Contains(config.priority, r)
  PROVE  Positions(S) # {}
<1>1. DOMAIN config.priority = 1..Len(config.priority)
  BY DEF Priorities
<1> QED
  BY <1>1 DEF Contains, Positions

-----------------------------------------------------------------------------
(* What the plan says.                                                     *)

\* select_runtime picked the plan's executor, for a task without subtasks.
PlanStands ==
  /\ task.subtasks = <<>>
  /\ plan = Composed(Selected) /\ Selected # "none"

\* The plan follows the stage: where one is required, the stages after planning
\* are reached only with a plan that stands.
PlanInStep ==
  /\ config \in Configs
  /\ stage \in {"planned", "executing"} /\ config.required => PlanStands
  /\ DispatchedToBest

\* A configuration is as PlanningAssumption has it.
LEMMA ConfigFacts ==
  ASSUME config \in Configs
  PROVE  /\ config.priority \in Priorities
         /\ config.registered \subseteq Identities
         /\ "none" \notin Identities
  BY PlanningAssumption DEF Priorities

\* A task without subtasks is never run in a mode that fans out.
LEMMA PlainMode ==
  ASSUME PlanStands
  PROVE  plan.executor = Selected /\ plan.mode \in {"direct", "native"}
<1>1. ~HasDependencies(task) /\ ~Parallelizable(task)
  BY DEF PlanStands, HasDependencies, Parallelizable, ReadyFrontier
<1>2. ~KanbanReason(task)
  BY <1>1 DEF KanbanReason
<1>3. ModeOf(Selected) \in {"direct", "native"}
  BY <1>1, <1>2 DEF ModeOf
<1> QED
  BY <1>3 DEF PlanStands, Composed

\* A submittable runtime is a healthy candidate the loop can stop at.
LEMMA SubmittableIsHealthy ==
  ASSUME config \in Configs, NEW r, Submittable(r)
  PROVE  r \in Healthy /\ Positions(Healthy) # {}
<1>1. r \in Healthy
  BY DEF Submittable, Healthy, Eligible
<1> QED
  BY <1>1, ConfigFacts, ListedHasPosition DEF Submittable

\* What was selected is a healthy candidate, or a degraded one for want of any
\* healthy candidate.
LEMMA SelectedStands ==
  ASSUME config \in Configs
  PROVE  /\ Positions(Healthy) # {} =>
              Selected = FirstOf(Healthy) /\ Selected \in Healthy /\ Selected # "none"
         /\ Positions(Healthy) = {} /\ Selected # "none" => Selected \in Degraded
<1>1. config.priority \in Priorities /\ Healthy \subseteq Identities /\ "none" \notin Identities
  BY ConfigFacts DEF Healthy
<1>2. CASE Positions(Healthy) # {}
  BY <1>1, <1>2, FirstOfIsPreferred DEF Selected
<1>3. CASE Positions(Healthy) = {}
  BY <1>1, <1>3, FirstOfIsPreferred DEF Selected
<1> QED
  BY <1>2, <1>3

-----------------------------------------------------------------------------
(* The steps.                                                              *)

\* What a plan was made from does not change once the task is in.
LEMMA FactsStand ==
  ASSUME UNCHANGED <<facts, task>>
  PROVE  /\ Healthy' = Healthy /\ Degraded' = Degraded /\ Selected' = Selected
         /\ Composed(Selected)' = Composed(Selected)
         /\ \A r : Submittable(r)' = Submittable(r)
         /\ \A r, other : Preferred(r, other)' = Preferred(r, other)
<1> USE DEF facts
<1>1. \A r : Eligible(r)' = Eligible(r)
  BY DEF Eligible
<1>2. Healthy' = Healthy /\ Degraded' = Degraded
  BY <1>1 DEF Healthy, Degraded
<1>3. \A S : Positions(S)' = Positions(S) /\ FirstOf(S)' = FirstOf(S)
  BY DEF Positions, FirstOf
<1>4. Selected' = Selected
  BY <1>2, <1>3 DEF Selected, Positions, FirstOf
<1>5. Composed(Selected)' = Composed(Selected)
  BY <1>4 DEF Composed, ModeOf
<1> QED
  BY <1>2, <1>4, <1>5 DEF Submittable, Preferred

\* A submission goes to the runtime the policy prefers.
LEMMA SubmissionIsBest ==
  ASSUME PlanInStep, SubmitSingle
  PROVE  DispatchedToBest'
<1> SUFFICES ASSUME config.required
             PROVE  /\ Submittable(runtime')
                    /\ \A r \in config.registered : Submittable(r) => ~Preferred(r, runtime')
                    /\ plan.mode \in {"direct", "native"}
  BY FactsStand DEF SubmitSingle, DispatchedToBest, facts
<1>1. PlanStands /\ config \in Configs /\ stage = "executing"
  BY DEF PlanInStep, SubmitSingle
<1>2. plan.executor = Selected /\ plan.mode \in {"direct", "native"} /\ Selected # "none"
  BY <1>1, PlainMode DEF PlanStands
<1>3. runtime' = Selected /\ health[Selected] = "available"
  <2>1. plan # NoPlan
    BY <1>2 DEF NoPlan
  <2> QED
    BY <1>2, <2>1 DEF SubmitSingle
<1>4. Selected \in Healthy /\ Selected = FirstOf(Healthy) /\ Positions(Healthy) # {}
  <2>1. Selected \notin Degraded
    BY <1>3 DEF Degraded
  <2> QED
    BY <1>1, <1>2, <2>1, SelectedStands
<1>5. /\ Contains(config.priority, Selected)
      /\ \A r \in Healthy : ~Preferred(r, Selected)
  BY <1>1, <1>4, ConfigFacts, FirstOfIsPreferred
<1>6. Submittable(Selected)
  BY <1>3, <1>4, <1>5 DEF Submittable, Healthy, Eligible
<1> QED
  BY <1>1, <1>2, <1>3, <1>5, <1>6, SubmittableIsHealthy

\* No plan, or no healthy executor, means that nothing was submittable.
LEMMA RefusalIsForced ==
  ASSUME PlanInStep, SubmissionRefused \/ (PlanRuntime /\ Selected = "none")
  PROVE  DispatchedToBest'
<1>1. config \in Configs
  BY DEF PlanInStep
<1>2. Positions(Healthy) = {}
  <2>1. CASE SubmissionRefused
    <3>1. PlanStands
      BY <2>1 DEF PlanInStep, SubmissionRefused
    <3>2. health[Selected] # "available"
      BY <2>1, <3>1, PlainMode DEF SubmissionRefused
    <3>3. Selected \notin Healthy
      BY <3>2 DEF Healthy, Eligible
    <3> QED
      BY <1>1, <3>3, SelectedStands
  <2>2. CASE Selected = "none"
    BY <1>1, <2>2, SelectedStands
  <2> QED
    BY <2>1, <2>2
<1>3. \A r : ~Submittable(r)
  BY <1>1, <1>2, SubmittableIsHealthy
<1>4. stage' \in {"health_refused", "no_plan"} /\ UNCHANGED <<facts, task>>
  BY DEF SubmissionRefused, PlanRuntime, Goto
<1> QED
  BY <1>3, <1>4, FactsStand DEF DispatchedToBest

\* Every step keeps the plan in step.
LEMMA PlanInStepKept == PlanInStep /\ [Next]_vars => PlanInStep'
<1> SUFFICES ASSUME PlanInStep, [Next]_vars PROVE PlanInStep'
  OBVIOUS
<1>1. CASE SubmitSingle
  BY <1>1, SubmissionIsBest DEF SubmitSingle, facts, PlanInStep
<1>2. CASE SubmissionRefused \/ (PlanRuntime /\ Selected = "none")
  <2>1. stage' \in {"health_refused", "no_plan"} /\ config' = config
    BY <1>2 DEF SubmissionRefused, PlanRuntime, Goto, facts
  <2> QED
    BY <1>2, <2>1, RefusalIsForced DEF PlanInStep
<1>3. CASE PlanRuntime /\ Selected # "none"
  <2>1. /\ stage' = "planned" /\ plan' = Composed(Selected) /\ task.subtasks = <<>>
        /\ UNCHANGED <<facts, task>>
    BY <1>3 DEF PlanRuntime, Planned, Goto
  <2> QED
    BY <1>3, <2>1, FactsStand DEF PlanInStep, PlanStands, DispatchedToBest, facts
<1>4. CASE ExecuteSingle
  <2>1. /\ stage = "planned" /\ stage' = "executing" /\ plan' = plan
        /\ UNCHANGED <<facts, task>>
    BY <1>4 DEF ExecuteSingle, Goto
  <2> QED
    BY <2>1, FactsStand DEF PlanInStep, PlanStands, DispatchedToBest, facts
<1>5. CASE Unplanned \/ Delegate
  <2>1. ~config.required
    <3>1. CASE Delegate
      <4>1. config.required => plan # NoPlan
        <5>1. config.required => plan.executor # "none"
          BY <3>1, PlainMode DEF Delegate, PlanInStep, PlanStands
        <5> QED
          BY <5>1 DEF NoPlan
      <4> QED
        BY <3>1, <4>1 DEF Delegate
    <3> QED
      BY <1>5, <3>1 DEF Unplanned
  <2> QED
    BY <1>5, <2>1 DEF Unplanned, Delegate, Goto, facts, PlanInStep, DispatchedToBest
<1>6. ASSUME NEW r \in Identities, Probe(r) PROVE PlanInStep'
  BY <1>6 DEF Probe, PlanInStep, DispatchedToBest
<1>7. CASE Received \/ PlanningRaises \/ RefuseSubtasks \/ RefuseMode
  BY <1>7 DEF Received, PlanningRaises, RefuseSubtasks, RefuseMode, Goto, facts,
     PlanInStep, DispatchedToBest
<1>8. CASE UNCHANGED vars
  <2>1. UNCHANGED <<facts, task>> /\ UNCHANGED <<stage, plan, runtime>>
    BY <1>8 DEF vars
  <2> QED
    BY <2>1, FactsStand DEF PlanInStep, PlanStands, DispatchedToBest, facts
<1> QED
  BY <1>1, <1>2, <1>3, <1>4, <1>5, <1>6, <1>7, <1>8 DEF Next

-----------------------------------------------------------------------------
(* The theorem.                                                            *)

\* Where plans are required, a task goes to the submittable runtime the policy
\* prefers, in a mode that fans nothing out, and is refused for want of a plan
\* or of health only if no runtime was submittable.
THEOREM AlwaysDispatchedToBest == Spec => []DispatchedToBest
<1>1. Init => PlanInStep
  BY DEF Init, PlanInStep, DispatchedToBest
<1>2. PlanInStep => DispatchedToBest
  BY DEF PlanInStep
<1> QED
  BY <1>1, <1>2, PlanInStepKept, PTL DEF Spec
=============================================================================
