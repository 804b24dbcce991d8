------------------------- MODULE RootDeliveryProofs -------------------------
(***************************************************************************)
(* Theorems about RootDelivery, for any branches and any number of steps   *)
(* of the user.                                                            *)
(***************************************************************************)
EXTENDS RootDelivery, TLAPS

-----------------------------------------------------------------------------
(* Types. *)

\* A ref that is pointed at a commit leaves refs to commits.
LEMMA PointAtTypes ==
  ASSUME NEW ref \in Branch \cup {"detached"}, NEW commit \in Commit,
         loose \in Commit, tip \in [Branch -> Commit], PointAt(ref, commit)
  PROVE  loose' \in Commit /\ tip' \in [Branch -> Commit]
  BY DEF PointAt

\* HEAD is at a commit.
LEMMA HeadCommitType == DeliveryTypeOK => HeadCommit \in Commit
  BY DEF DeliveryTypeOK, HeadCommit

\* So is the staged merge.
LEMMA StagedType == DeliveryTypeOK => Staged \in Commit
<1> SUFFICES ASSUME DeliveryTypeOK PROVE Staged \in Commit
  OBVIOUS
<1>1. taken.base \in Commit
  BY DEF DeliveryTypeOK
<1>2. /\ taken.base.history \cup {Agent} \in SUBSET Change
      /\ taken.base.tree \cup {Agent} \in SUBSET Change
  BY <1>1 DEF Commit, Change
<1> QED
  BY <1>2 DEF Staged, Commit

\* The commands of the program keep the types.
LEMMA DeliverTypes == DeliveryTypeOK /\ Deliver => DeliveryTypeOK'
<1> SUFFICES ASSUME DeliveryTypeOK, Deliver PROVE DeliveryTypeOK'
  OBVIOUS
<1> USE DEF Creating, Delivering, repoVars, userVars
<1>1. ASSUME NEW here, NEW expected, NEW next \in Delivering \cup {"base", "delivered"},
             Check(here, expected, next)
      PROVE DeliveryTypeOK'
  BY <1>1 DEF Check, DeliveryTypeOK
<1>2. CASE RequireClean \/ CheckMerge \/ CheckHead \/ CheckCommit \/ CheckTree \/ CheckRefs
  BY <1>1, <1>2 DEF RequireClean, CheckMerge, CheckHead, CheckCommit, CheckTree, CheckRefs
<1>3. CASE RecheckMerge \/ RecheckHead \/ RecheckRefs \/ VerifyHead \/ VerifyCommit
  BY <1>1, <1>3 DEF RecheckMerge, RecheckHead, RecheckRefs, VerifyHead, VerifyCommit
<1>4. CASE TakeBase
  BY <1>4, HeadCommitType DEF TakeBase, DeliveryTypeOK
<1>5. CASE TakeSymbolicHead
  BY <1>5 DEF TakeSymbolicHead, DeliveryTypeOK
<1>6. CASE TakeRefs
  BY <1>6 DEF TakeRefs, DeliveryTypeOK
<1>7. CASE UpdateRef
  <2>1. Target \in Branch \cup {"detached"}
    BY DEF Target, DeliveryTypeOK
  <2>2. loose' \in Commit /\ tip' \in [Branch -> Commit]
    BY <1>7, <2>1, PointAtTypes, StagedType DEF UpdateRef, DeliveryTypeOK
  <2> QED
    BY <1>7, <2>2 DEF UpdateRef, DeliveryTypeOK
<1>8. CASE Reset
  <2>1. loose' \in Commit /\ tip' \in [Branch -> Commit]
    BY <1>8, PointAtTypes, StagedType DEF Reset, DeliveryTypeOK
  <2>2. index' \subseteq Change /\ merging' \in BOOLEAN
    BY <1>8, StagedType DEF Reset, DeliveryTypeOK, Commit
  <2> QED
    BY <1>8, <2>1, <2>2 DEF Reset, DeliveryTypeOK
<1> QED
  BY <1>2, <1>3, <1>4, <1>5, <1>6, <1>7, <1>8 DEF Deliver

\* What every step of the user does to the bookkeeping.
LEMMA UserCounted ==
  DeliveryTypeOK /\ User => /\ UserActs
                            /\ steps' \in 1..MaxUserSteps /\ steps' = steps + 1
  BY DeliveryAssumption
     DEF User, UserCommits, UserStages, UserMerges, UserSwitches, UserEdits,
         UserActs, DeliveryTypeOK

\* The user keeps the types.
LEMMA UserTypes == DeliveryTypeOK /\ User => DeliveryTypeOK'
<1> SUFFICES ASSUME DeliveryTypeOK, User PROVE DeliveryTypeOK'
  OBVIOUS
<1>1. /\ steps' \in 0..MaxUserSteps /\ steps' \in Change
      /\ actedAt' \subseteq Creating \cup Delivering
      /\ UNCHANGED <<pc, taken>>
  BY UserCounted DEF UserActs, DeliveryTypeOK, Change
<1>2. CASE UserCommits
  <2>1. index' \subseteq Change
    BY <1>1, <1>2 DEF UserCommits, DeliveryTypeOK
  <2>2. HeadCommit.history \cup held \cup {steps'} \in SUBSET Change
    BY <1>1, HeadCommitType DEF Commit, DeliveryTypeOK
  <2>3. [history |-> HeadCommit.history \cup held \cup {steps'}, tree |-> index'] \in Commit
    BY <2>1, <2>2 DEF Commit
  <2>4. loose' \in Commit /\ tip' \in [Branch -> Commit]
    BY <1>2, <2>3, PointAtTypes DEF UserCommits, DeliveryTypeOK
  <2>5. committed' \in [Branch -> SUBSET Change]
    <3>1. CASE head = "detached"
      BY <1>2, <3>1 DEF UserCommits, DeliveryTypeOK
    <3>2. CASE head # "detached"
      <4>1. committed[head] \cup held \cup {steps'} \in SUBSET Change
        BY <1>1, <3>2 DEF DeliveryTypeOK
      <4> QED
        BY <1>2, <3>2, <4>1 DEF UserCommits, DeliveryTypeOK
    <3> QED
      BY <3>1, <3>2
  <2> QED
    BY <1>1, <1>2, <2>1, <2>4, <2>5 DEF UserCommits, DeliveryTypeOK
<1>3. CASE UserStages
  BY <1>1, <1>3 DEF UserStages, DeliveryTypeOK
<1>4. CASE UserMerges
  BY <1>1, <1>4 DEF UserMerges, DeliveryTypeOK
<1>5. ASSUME NEW b \in Branch, UserSwitches(b) PROVE DeliveryTypeOK'
  <2>1. index' \subseteq Change
    BY <1>5 DEF UserSwitches, DeliveryTypeOK, Commit
  <2> QED
    BY <1>1, <1>5, <2>1 DEF UserSwitches, DeliveryTypeOK
<1>6. ASSUME NEW place \in {"delivered", "elsewhere"}, UserEdits(place)
      PROVE DeliveryTypeOK'
  BY <1>1, <1>6 DEF UserEdits, DeliveryTypeOK
<1> QED
  BY <1>2, <1>3, <1>4, <1>5, <1>6 DEF User

\* The initial repository has the types.
LEMMA InitTypes == Init => DeliveryTypeOK
<1> SUFFICES ASSUME Init PROVE DeliveryTypeOK
  OBVIOUS
<1>1. Root \in Commit
  BY DEF Root, Commit
<1>2. taken \in [base : Commit, symbolic : Branch \cup {"detached"}, refs : [Branch -> Commit]]
  BY <1>1 DEF Init
<1>3. committed \in [Branch -> SUBSET Change] /\ tip \in [Branch -> Commit]
  BY <1>1 DEF Init
<1>4. merging \in BOOLEAN
  BY DEF Init
<1> QED
  BY <1>1, <1>2, <1>3, <1>4, DeliveryAssumption DEF Init, DeliveryTypeOK, Creating, Delivering

\* A step that changes nothing keeps the types.
LEMMA StutterTypes == DeliveryTypeOK /\ UNCHANGED vars => DeliveryTypeOK'
  BY DEF DeliveryTypeOK, vars, repoVars, userVars

\* Every variable keeps its type, for any branches and any steps of the user.
THEOREM DeliveryTypeCorrect == Spec => []DeliveryTypeOK
<1>1. DeliveryTypeOK /\ [Next]_vars => DeliveryTypeOK'
  BY DeliverTypes, UserTypes, StutterTypes DEF Next
<1> QED
  BY InitTypes, <1>1, PTL DEF Spec

\* The program leaves to the user what is the user's, and changes the repository
\* by two of its commands only.
LEMMA DeliverFrame ==
  ASSUME Deliver
  PROVE  /\ UNCHANGED <<head, edits, userVars>>
         /\ ~UpdateRef /\ ~Reset => UNCHANGED repoVars
         /\ UpdateRef => UNCHANGED <<index, merging>>
  BY DEF Deliver, Check, repoVars, userVars,
         RequireClean, TakeBase, TakeSymbolicHead, TakeRefs, CheckMerge, CheckHead,
         CheckCommit, CheckTree, CheckRefs, UpdateRef, RecheckMerge, RecheckHead,
         RecheckRefs, Reset, VerifyHead, VerifyCommit

-----------------------------------------------------------------------------
(* Commits, and the moves of the branch. *)

\* What the last looks at HEAD and at the refs have seen, as long as the user
\* does not act after them.
LastLooks ==
  ~LateUser =>
    /\ pc \in {"recheck_refs", "reset"} => head = taken.symbolic
    /\ pc = "reset" => tip = ExpectedRefs

Commits == DeliveryTypeOK /\ LastLooks /\ CommitsKept

\* A reset after these looks moves no branch: the one HEAD names is there.
LEMMA ResetMovesNothing ==
  DeliveryTypeOK /\ LastLooks /\ ~LateUser /\ Reset => tip' = tip
<1> SUFFICES ASSUME DeliveryTypeOK, LastLooks, ~LateUser, Reset PROVE tip' = tip
  OBVIOUS
<1>1. head = taken.symbolic /\ tip = ExpectedRefs
  BY DEF LastLooks, Reset
<1>2. CASE head = "detached"
  BY <1>2 DEF Reset, PointAt
<1>3. CASE head # "detached"
  <2>1. head \in Branch /\ taken.refs \in [Branch -> Commit]
    BY <1>3 DEF DeliveryTypeOK
  <2>2. tip[head] = Staged
    BY <1>1, <1>3, <2>1 DEF ExpectedRefs
  <2> QED
    BY <1>3, <2>1, <2>2 DEF Reset, PointAt, DeliveryTypeOK
<1> QED
  BY <1>2, <1>3

\* The commands of the program keep LastLooks.
LEMMA DeliverLooks == DeliveryTypeOK /\ LastLooks /\ Deliver => LastLooks'
  BY DEF Deliver, LastLooks, LateUser, Undisturbed, Check, repoVars, userVars,
         RequireClean, TakeBase, TakeSymbolicHead, TakeRefs, CheckMerge, CheckHead,
         CheckCommit, CheckTree, CheckRefs, UpdateRef, RecheckMerge, RecheckHead,
         RecheckRefs, Reset, VerifyHead, VerifyCommit, ExpectedRefs, Staged

\* So does the user, who is late when acting then.
LEMMA UserLooks == DeliveryTypeOK /\ LastLooks /\ User => LastLooks'
  BY UserCounted DEF UserActs, LastLooks, LateUser, Undisturbed

\* Commits are kept by the program.
LEMMA DeliverCommits == Commits /\ Deliver => CommitsKept'
<1> SUFFICES ASSUME Commits, Deliver, ~LateUser', NEW b \in Branch
             PROVE committed[b]' \subseteq tip[b]'.history
  BY DEF CommitsKept
<1>1. ~LateUser /\ committed' = committed /\ committed[b] \subseteq tip[b].history
  BY DeliverFrame DEF Commits, CommitsKept, LateUser, Undisturbed, userVars
<1>2. CASE UpdateRef
  <2>1. CASE tip' = tip
    BY <1>1, <2>1
  <2>2. CASE tip' # tip
    <3>1. /\ Target \in Branch /\ taken.base = tip[Target]
          /\ tip' = [tip EXCEPT ![Target] = Staged]
      BY <1>2, <2>2 DEF UpdateRef, PointAt, Target, Commits, DeliveryTypeOK
    <3>2. Staged.history = taken.base.history \cup {Agent}
      BY DEF Staged
    <3> QED
      BY <1>1, <3>1, <3>2 DEF Commits, DeliveryTypeOK
  <2> QED
    BY <2>1, <2>2
<1>3. CASE Reset
  BY <1>1, <1>3, ResetMovesNothing DEF Commits
<1>4. CASE ~UpdateRef /\ ~Reset
  <2>1. tip' = tip
    BY <1>4, DeliverFrame DEF repoVars
  <2> QED
    BY <1>1, <2>1
<1> QED
  BY <1>2, <1>3, <1>4

\* And by the user, whose commits go on top of the branch.
LEMMA UserCommitsKept == Commits /\ User => CommitsKept'
<1> SUFFICES ASSUME Commits, User, ~LateUser', NEW b \in Branch
             PROVE committed[b]' \subseteq tip[b]'.history
  BY DEF CommitsKept
<1>1. committed[b] \subseteq tip[b].history
  BY UserCounted DEF Commits, CommitsKept, UserActs, LateUser, Undisturbed
<1>2. CASE UserCommits
  <2>1. CASE head = "detached"
    BY <1>1, <1>2, <2>1 DEF UserCommits, PointAt
  <2>2. CASE head # "detached"
    <3> DEFINE top == [history |-> HeadCommit.history \cup held \cup {steps'},
                       tree    |-> index']
    <3>1. /\ head \in Branch
          /\ tip' = [tip EXCEPT ![head] = top]
          /\ committed' = [committed EXCEPT ![head] = @ \cup held \cup {steps'}]
      BY <1>2, <2>2 DEF UserCommits, PointAt, Commits, DeliveryTypeOK
    <3>2. top.history = tip[head].history \cup held \cup {steps'}
      BY <2>2 DEF HeadCommit
    <3> HIDE DEF top
    <3> QED
      BY <1>1, <3>1, <3>2 DEF Commits, DeliveryTypeOK
  <2> QED
    BY <2>1, <2>2
<1>3. CASE ~UserCommits
  BY <1>1, <1>3 DEF User, UserStages, UserMerges, UserSwitches, UserEdits
<1> QED
  BY <1>2, <1>3

\* Types, looks and commits, together.
THEOREM CommitsInvariant == Spec => []Commits
<1>1. Init => Commits
  BY InitTypes DEF Init, Commits, LastLooks, CommitsKept, LateUser, Undisturbed
<1>2. Commits /\ [Next]_vars => Commits'
  <2>1. CASE Deliver
    BY <2>1, DeliverTypes, DeliverLooks, DeliverCommits DEF Commits
  <2>2. CASE User
    BY <2>2, UserTypes, UserLooks, UserCommitsKept DEF Commits
  <2>3. CASE UNCHANGED vars
    BY <2>3, StutterTypes
       DEF Commits, LastLooks, CommitsKept, LateUser, Undisturbed, ExpectedRefs, Staged,
           vars, repoVars, userVars
  <2> QED
    BY <2>1, <2>2, <2>3 DEF Next
<1> QED
  BY <1>1, <1>2, PTL DEF Spec

\* No commit of the user is ever dropped from its branch, but in the one gap
\* between the last look at HEAD and git reset --merge.
THEOREM CommitsAlwaysKept == Spec => []CommitsKept
<1>1. Commits => CommitsKept
  BY DEF Commits
<1> QED
  BY <1>1, CommitsInvariant, PTL

\* The program moves a branch only by update-ref, from the commit the agent
\* started from to the staged one, but in the same gap.
THEOREM OnlyGuardedMoves == Spec => OnlyGuardedMove
<1> DEFINE Guards ==
      \A b \in Branch :
        tip'[b] # tip[b] /\ UNCHANGED steps /\ ~LateUser =>
          /\ tip[b] = taken.base /\ tip'[b] = Staged
          /\ taken.symbolic \in {b, "detached"}
<1>1. Commits /\ [Next]_vars => [Guards]_vars
  <2> SUFFICES ASSUME Commits, Next PROVE Guards
    OBVIOUS
  <2>1. CASE UpdateRef
    BY <2>1 DEF UpdateRef, PointAt, Target, Commits, DeliveryTypeOK
  <2>2. CASE Reset
    BY <2>2, ResetMovesNothing DEF Commits
  <2>3. CASE Deliver /\ ~UpdateRef /\ ~Reset
    BY <2>3, DeliverFrame DEF repoVars
  <2>4. CASE User
    <3>1. steps' # steps
      BY <2>4, UserCounted DEF Commits, DeliveryTypeOK
    <3> QED
      BY <3>1
  <2> QED
    BY <2>1, <2>2, <2>3, <2>4 DEF Next
<1> QED
  BY <1>1, CommitsInvariant, PTL DEF Spec, OnlyGuardedMove

-----------------------------------------------------------------------------
(* What the user has staged. *)

Unlooked == {"check_refs", "update_ref", "recheck_merge", "recheck_head",
             "recheck_refs", "reset"}

\* Changes get their numbers when they are made.
Numbered ==
  /\ index \subseteq 0..steps /\ loose.tree \subseteq 0..steps
  /\ \A b \in Branch : tip[b].tree \subseteq 0..steps

\* Until the files are looked at, what is staged is in the index and not in
\* HEAD; the look finds nothing staged; and the reset keeps that.
HeldInStep ==
  /\ pc \notin Unlooked \cup {"verify_head", "verify_commit", "delivered", "raised"} =>
       Numbered /\ held \subseteq index /\ held \cap HeadCommit.tree = {}
  /\ pc \in Unlooked /\ Undisturbed(Unlooked) => held = {}
  /\ Undisturbed(Unlooked) => held \subseteq index

\* The commands of the program keep it.
LEMMA DeliverHeld == DeliveryTypeOK /\ HeldInStep /\ Deliver => HeldInStep'
<1> SUFFICES ASSUME DeliveryTypeOK, HeldInStep, Deliver PROVE HeldInStep'
  OBVIOUS
<1>1. /\ held' = held /\ steps' = steps /\ head' = head
      /\ Undisturbed(Unlooked)' = Undisturbed(Unlooked)
  BY DeliverFrame DEF userVars, Undisturbed, Unlooked
<1>2. CASE Reset
  BY <1>1, <1>2 DEF Reset, HeldInStep, Unlooked
<1>3. CASE UpdateRef
  BY <1>1, <1>3 DEF UpdateRef, HeldInStep, Unlooked
<1>4. CASE CheckTree
  BY <1>1, <1>4 DEF CheckTree, Check, CleanTree, HeldInStep, Unlooked, repoVars
<1>5. CASE ~Reset /\ ~UpdateRef /\ ~CheckTree
  <2>1. UNCHANGED repoVars
    BY <1>5, DeliverFrame
  <2>2. HeadCommit' = HeadCommit /\ Numbered' = Numbered /\ index' = index
    BY <1>1, <2>1 DEF repoVars, HeadCommit, Numbered
  <2>3. /\ pc \notin Unlooked \cup {"verify_head", "verify_commit", "delivered", "raised"}
           \/ pc' \in Unlooked \cup {"verify_head", "verify_commit", "delivered", "raised"}
        /\ pc' \in Unlooked => pc \in Unlooked
    BY <1>5
       DEF Deliver, Check, Unlooked,
           RequireClean, TakeBase, TakeSymbolicHead, TakeRefs, CheckMerge, CheckHead,
           CheckCommit, CheckRefs, RecheckMerge, RecheckHead,
           RecheckRefs, VerifyHead, VerifyCommit
  <2> QED
    BY <1>1, <2>2, <2>3 DEF HeldInStep
<1> QED
  BY <1>2, <1>3, <1>4, <1>5

\* So does the user, whose next change is in no tree yet.
LEMMA UserHeld == DeliveryTypeOK /\ HeldInStep /\ User => HeldInStep'
<1> SUFFICES ASSUME DeliveryTypeOK, HeldInStep, User PROVE HeldInStep'
  OBVIOUS
<1> DEFINE Before == pc \notin Unlooked \cup {"verify_head", "verify_commit", "delivered", "raised"}
<1>1. /\ pc' = pc /\ steps' = steps + 1 /\ steps \in Nat
      /\ Undisturbed(Unlooked)' => pc \notin Unlooked /\ Undisturbed(Unlooked)
  BY UserCounted DEF UserActs, Undisturbed, Unlooked, DeliveryTypeOK
<1>2. held' \subseteq index' \/ ~(held \subseteq index)
  BY DEF User, UserCommits, UserStages, UserMerges, UserSwitches, UserEdits
<1>3. ASSUME Before PROVE Numbered' /\ held' \cap HeadCommit'.tree = {}
  <2>1. Numbered /\ held \subseteq index /\ held \cap HeadCommit.tree = {}
    BY <1>3 DEF HeldInStep
  <2>2. CASE UserCommits
    <3>1. held' = {} /\ index' \subseteq 0..steps'
      BY <1>1, <2>1, <2>2 DEF UserCommits, Numbered
    <3>2. /\ loose.tree \subseteq 0..steps'
          /\ \A b \in Branch : tip[b].tree \subseteq 0..steps'
      BY <1>1, <2>1 DEF Numbered
    <3>3. CASE head = "detached"
      <4>1. tip' = tip /\ loose'.tree = index'
        BY <2>2, <3>3 DEF UserCommits, PointAt
      <4> QED
        BY <3>1, <3>2, <4>1 DEF Numbered
    <3>4. CASE head # "detached"
      <4> DEFINE top == [history |-> HeadCommit.history \cup held \cup {steps'},
                         tree    |-> index']
      <4>1. head \in Branch /\ tip' = [tip EXCEPT ![head] = top] /\ loose' = loose
        BY <2>2, <3>4 DEF UserCommits, PointAt, DeliveryTypeOK
      <4>2. top.tree = index'
        OBVIOUS
      <4> HIDE DEF top
      <4>3. \A b \in Branch : tip'[b].tree \subseteq 0..steps'
        BY <3>1, <3>2, <4>1, <4>2 DEF DeliveryTypeOK
      <4> QED
        BY <3>1, <3>2, <4>1, <4>3 DEF Numbered
    <3> QED
      BY <3>3, <3>4
  <2>3. CASE UserStages
    <3>1. HeadCommit' = HeadCommit /\ HeadCommit.tree \subseteq 0..steps
      BY <2>1, <2>3 DEF UserStages, HeadCommit, Numbered, DeliveryTypeOK
    <3>2. steps' \notin HeadCommit.tree
      BY <1>1, <3>1
    <3> QED
      BY <1>1, <2>1, <2>3, <3>1, <3>2 DEF UserStages, Numbered
  <2>4. CASE ~UserCommits /\ ~UserStages
    <3>1. /\ loose' = loose /\ tip' = tip /\ held' = held
          /\ index' = index \/ \E b \in Branch : index' = tip[b].tree
          /\ head' = head \/ held = {}
      BY <2>4 DEF User, UserMerges, UserSwitches, UserEdits
    <3>2. Numbered'
      BY <1>1, <2>1, <3>1 DEF Numbered
    <3>3. held' \cap HeadCommit'.tree = {}
      BY <2>1, <3>1 DEF HeadCommit
    <3> QED
      BY <3>2, <3>3
  <2> QED
    BY <2>2, <2>3, <2>4
<1> QED
  BY <1>1, <1>2, <1>3 DEF HeldInStep

\* Types and what is staged, together.
THEOREM HeldInvariant == Spec => [](DeliveryTypeOK /\ HeldInStep)
<1>1. Init => HeldInStep
  BY DeliveryAssumption DEF Init, HeldInStep, Unlooked, Numbered, Root
<1>2. DeliveryTypeOK /\ HeldInStep /\ [Next]_vars => (DeliveryTypeOK /\ HeldInStep)'
  <2>1. HeldInStep /\ UNCHANGED vars => HeldInStep'
    BY DEF HeldInStep, Numbered, HeadCommit, Undisturbed, vars, repoVars, userVars
  <2> QED
    BY <2>1, DeliverTypes, DeliverHeld, UserTypes, UserHeld, StutterTypes DEF Next
<1> QED
  BY InitTypes, <1>1, <1>2, PTL DEF Spec

\* What the user has staged is discarded only if it was staged after the files
\* were looked at.
THEOREM StagedAlwaysKeptIfSeen == Spec => []StagedKeptIfSeen
<1>1. HeldInStep => StagedKeptIfSeen
  BY DEF HeldInStep, StagedKeptIfSeen, Unlooked
<1> QED
  BY <1>1, HeldInvariant, PTL

-----------------------------------------------------------------------------
(* All or nothing. *)

Guarded == Delivering \ {"check_merge"}
Rechecking == {"recheck_merge", "recheck_head", "recheck_refs", "reset"}
Verifying == {"verify_head", "verify_commit"}
Settled == {"delivered", "raised"}

\* No branch has the agent's change before update-ref.
AgentOutside ==
  /\ Agent \notin loose.history /\ Agent \notin held
  /\ \A b \in Branch : Agent \notin tip[b].history

\* What every check of the boundary has seen remains true until the end, as
\* long as the user does not act after the first one.
Looked ==
  Undisturbed(Guarded) =>
    /\ pc \in Guarded => ~merging
    /\ pc \in Guarded \ {"check_head"} => head = taken.symbolic
    /\ pc \in {"check_tree", "check_refs", "update_ref"} => HeadCommit = taken.base
    /\ pc \in {"check_refs", "update_ref"} \cup Rechecking => edits = {}
    /\ pc = "update_ref" => tip = taken.refs
    /\ pc \in Rechecking => tip = ExpectedRefs
    /\ pc \in Rechecking \cup Verifying => HeadCommit = Staged

\* So a delivery that fails has failed before update-ref.
FailsOutside ==
  /\ pc \notin Rechecking \cup Verifying \cup Settled => AgentOutside
  /\ pc = "raised" /\ Undisturbed(Guarded) => \A b \in Branch : Agent \notin tip[b].history

\* What the reset has done and the last two commands have seen.
Completed ==
  Undisturbed(AfterUpdate) =>
    /\ pc \in Verifying \cup {"delivered"} => index = Staged.tree
    /\ pc \in {"verify_commit", "delivered"} => head = taken.symbolic
    /\ pc = "delivered" => HeadCommit = Staged

Whole == DeliveryTypeOK /\ Looked /\ FailsOutside /\ Completed

\* A ref that is pointed at a commit is at that commit.
LEMMA HeadMoves ==
  ASSUME NEW commit, DeliveryTypeOK, PointAt(head, commit), head' = head
  PROVE  HeadCommit' = commit
  BY DEF PointAt, HeadCommit, DeliveryTypeOK

\* update-ref, undisturbed, finds what it compares and moves HEAD.
LEMMA UpdateMoves ==
  ASSUME Whole, UpdateRef, Undisturbed(Guarded)
  PROVE  /\ pc' = "recheck_merge" /\ tip' = ExpectedRefs /\ HeadCommit' = Staged
<1>1. /\ head = taken.symbolic /\ HeadCommit = taken.base /\ tip = taken.refs
      /\ head \in Branch \cup {"detached"} /\ head' = head
  BY DEF UpdateRef, Whole, Looked, Guarded, Delivering, DeliveryTypeOK
<1>2. Target = head
  BY <1>1 DEF Target
<1>3. pc' = "recheck_merge" /\ PointAt(head, Staged)
  BY <1>1, <1>2 DEF UpdateRef, HeadCommit
<1>4. HeadCommit' = Staged
  BY <1>1, <1>3, HeadMoves DEF Whole
<1>5. tip' = ExpectedRefs
  BY <1>1, <1>3 DEF PointAt, ExpectedRefs
<1> QED
  BY <1>3, <1>4, <1>5

\* The commands of the program keep Looked.
LEMMA DeliverLooked == Whole /\ Deliver => Looked'
<1> SUFFICES ASSUME Whole, Deliver, Undisturbed(Guarded) PROVE Looked'
  BY DeliverFrame DEF Looked, Undisturbed, userVars
<1> USE DEF Guarded, Delivering, Rechecking, Verifying
<1>1. CASE Reset
  <2>1. /\ head = taken.symbolic /\ edits = {} /\ ~merging /\ HeadCommit = Staged
    BY <1>1 DEF Reset, Whole, Looked
  <2>2. PointAt(head, Staged) /\ head' = head /\ pc' = "verify_head"
    BY <1>1, <2>1 DEF Reset
  <2>3. HeadCommit' = Staged
    BY <2>2, HeadMoves DEF Whole
  <2> QED
    BY <1>1, <2>1, <2>2, <2>3 DEF Reset, Looked, Staged
<1>2. CASE UpdateRef
  <2>1. pc' = "recheck_merge" /\ tip' = ExpectedRefs /\ HeadCommit' = Staged
    BY <1>2, UpdateMoves
  <2>2. head = taken.symbolic /\ ~merging /\ edits = {}
    BY <1>2 DEF UpdateRef, Whole, Looked
  <2> QED
    BY <1>2, <2>1, <2>2 DEF UpdateRef, Looked, Staged, ExpectedRefs
<1>3. CASE TakeBase \/ TakeSymbolicHead \/ TakeRefs \/ RequireClean
  BY <1>3 DEF TakeBase, TakeSymbolicHead, TakeRefs, RequireClean, Check, Looked
<1>4. CASE CheckMerge \/ CheckHead \/ CheckCommit \/ CheckTree \/ CheckRefs
  BY <1>4 DEF CheckMerge, CheckHead, CheckCommit, CheckTree, CheckRefs, Check, CleanTree,
              Whole, Looked, HeadCommit, repoVars
<1>5. CASE RecheckMerge \/ RecheckHead \/ RecheckRefs \/ VerifyHead \/ VerifyCommit
  BY <1>5 DEF RecheckMerge, RecheckHead, RecheckRefs, VerifyHead, VerifyCommit, Check,
              Whole, Looked, HeadCommit, Staged, ExpectedRefs, repoVars
<1> QED
  BY <1>1, <1>2, <1>3, <1>4, <1>5 DEF Deliver

\* And FailsOutside: undisturbed, no later command finds a difference.
LEMMA DeliverFails == Whole /\ Deliver => FailsOutside'
<1> SUFFICES ASSUME Whole, Deliver PROVE FailsOutside'
  OBVIOUS
<1> USE DEF Rechecking, Verifying, Settled
<1>1. held' = held /\ Undisturbed(Guarded)' = Undisturbed(Guarded)
  BY DeliverFrame DEF userVars, Undisturbed
<1>2. CASE UpdateRef
  <2>1. Undisturbed(Guarded) => pc' = "recheck_merge"
    BY <1>2, UpdateMoves
  <2> QED
    BY <1>1, <1>2, <2>1 DEF UpdateRef, FailsOutside
<1>3. CASE Reset
  <2>1. Undisturbed(Guarded) => edits = {}
    BY <1>3 DEF Reset, Whole, Looked
  <2> QED
    BY <1>1, <1>3, <2>1 DEF Reset, FailsOutside
<1>4. CASE RecheckMerge \/ RecheckHead \/ RecheckRefs \/ VerifyHead \/ VerifyCommit
  <2>1. Undisturbed(Guarded) => pc' # "raised"
    BY <1>4 DEF RecheckMerge, RecheckHead, RecheckRefs, VerifyHead, VerifyCommit, Check,
                Whole, Looked, Guarded, Delivering
  <2> QED
    BY <1>1, <1>4, <2>1 DEF RecheckMerge, RecheckHead, RecheckRefs, VerifyHead,
                            VerifyCommit, Check, FailsOutside
<1>5. CASE TakeBase \/ TakeSymbolicHead \/ TakeRefs \/ RequireClean
           \/ CheckMerge \/ CheckHead \/ CheckCommit \/ CheckTree \/ CheckRefs
  <2>1. pc \notin Rechecking \cup Verifying \cup Settled /\ UNCHANGED repoVars
    BY <1>5 DEF TakeBase, TakeSymbolicHead, TakeRefs, RequireClean, CheckMerge,
                CheckHead, CheckCommit, CheckTree, CheckRefs, Check
  <2> QED
    BY <1>1, <2>1 DEF Whole, FailsOutside, AgentOutside, repoVars
<1> QED
  BY <1>2, <1>3, <1>4, <1>5 DEF Deliver

\* And Completed.
LEMMA DeliverCompletes == Whole /\ Deliver => Completed'
<1> SUFFICES ASSUME Whole, Deliver, Undisturbed(AfterUpdate) PROVE Completed'
  BY DeliverFrame DEF Completed, Undisturbed, userVars
<1>1. CASE Reset
  BY <1>1 DEF Reset, Completed, Verifying, Staged
<1>2. CASE VerifyHead \/ VerifyCommit
  BY <1>2 DEF VerifyHead, VerifyCommit, Check, Whole, Completed, Verifying, Staged,
              HeadCommit, repoVars
<1>3. CASE ~Reset /\ ~VerifyHead /\ ~VerifyCommit
  <2>1. pc' \notin Verifying \cup {"delivered"}
    BY <1>3
       DEF Deliver, Check, Verifying, RequireClean, TakeBase, TakeSymbolicHead, TakeRefs,
           CheckMerge, CheckHead, CheckCommit, CheckTree, CheckRefs, UpdateRef,
           RecheckMerge, RecheckHead, RecheckRefs
  <2> QED
    BY <2>1 DEF Completed, Verifying
<1> QED
  BY <1>1, <1>2, <1>3

\* The user disturbs, or acts before there is anything to keep.
LEMMA UserWhole == Whole /\ User => Whole'
<1> SUFFICES ASSUME Whole, User PROVE Whole'
  OBVIOUS
<1> USE DEF Guarded, Delivering, Rechecking, Verifying, Settled, AfterUpdate
<1>1. /\ pc' = pc /\ pc \notin Settled /\ steps' # 0
      /\ Undisturbed(Guarded)' => pc \notin Guarded
      /\ Undisturbed(AfterUpdate)' => pc \notin AfterUpdate
  BY UserCounted DEF UserActs, Undisturbed, Whole
<1>2. DeliveryTypeOK'
  BY UserTypes DEF Whole
<1>3. Looked' /\ Completed'
  BY <1>1 DEF Looked, Completed
<1>4. FailsOutside'
  <2> SUFFICES ASSUME AgentOutside PROVE AgentOutside'
    BY <1>1 DEF Whole, FailsOutside
  <2>1. CASE UserCommits
    <3> DEFINE top == [history |-> HeadCommit.history \cup held \cup {steps'},
                       tree    |-> index']
    <3>1. Agent \notin HeadCommit.history
      BY DEF AgentOutside, HeadCommit, Whole, DeliveryTypeOK
    <3>2. Agent \notin top.history
      BY <1>1, <3>1 DEF AgentOutside, Agent
    <3>3. PointAt(head, top) /\ held' = {}
      BY <2>1 DEF UserCommits
    <3> HIDE DEF top
    <3>4. CASE head = "detached"
      BY <3>2, <3>3, <3>4 DEF PointAt, AgentOutside
    <3>5. CASE head # "detached"
      BY <3>2, <3>3, <3>5 DEF PointAt, AgentOutside, Whole, DeliveryTypeOK
    <3> QED
      BY <3>4, <3>5
  <2>2. CASE UserStages
    BY <1>1, <2>2 DEF UserStages, AgentOutside, Agent
  <2>3. CASE ~UserCommits /\ ~UserStages
    BY <2>3 DEF User, UserMerges, UserSwitches, UserEdits, AgentOutside
  <2> QED
    BY <2>1, <2>2, <2>3
<1> QED
  BY <1>2, <1>3, <1>4 DEF Whole

\* Types, looks, failure and completion, together.
THEOREM WholeInvariant == Spec => []Whole
<1>1. Init => Whole
  BY InitTypes
     DEF Init, Whole, Looked, FailsOutside, AgentOutside, Completed, Guarded, Delivering,
         Rechecking, Verifying, Settled, Root, Agent
<1>2. Whole /\ [Next]_vars => Whole'
  <2>1. Whole /\ UNCHANGED vars => Whole'
    <3> SUFFICES ASSUME Whole, UNCHANGED vars PROVE Whole'
      OBVIOUS
    <3>1. DeliveryTypeOK'
      BY StutterTypes DEF Whole
    <3>2. /\ HeadCommit' = HeadCommit /\ Staged' = Staged /\ ExpectedRefs' = ExpectedRefs
          /\ AgentOutside' = AgentOutside
      BY DEF HeadCommit, Staged, ExpectedRefs, AgentOutside, vars, repoVars, userVars
    <3> QED
      BY <3>1, <3>2
         DEF Whole, Looked, FailsOutside, Completed, Undisturbed, vars, repoVars, userVars
  <2>2. Whole /\ Deliver => Whole'
    BY DeliverTypes, DeliverLooked, DeliverFails, DeliverCompletes DEF Whole
  <2> QED
    BY <2>1, <2>2, UserWhole DEF Next
<1> QED
  BY <1>1, <1>2, PTL DEF Spec

\* A delivery that fails has moved no branch, unless the user acted after the
\* first look at the boundary; one that succeeds has the delivered files checked
\* out, unless the user acted after update-ref.
THEOREM AlwaysAllOrNothing == Spec => []AllOrNothing
<1>1. Whole => AllOrNothing
  BY DEF Whole, FailsOutside, Completed, AllOrNothing, Guarded, Verifying
<1> QED
  BY <1>1, WholeInvariant, PTL
=============================================================================
