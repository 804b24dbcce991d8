---------------------------- MODULE RootDelivery ----------------------------
(***************************************************************************)
(* The guarded delivery of a staged commit to the user's repository        *)
(* (orchestrator/workspace.py: the snapshot taken by                       *)
(* ExecutionWorkspace.create, then _deliver_staged), beside a user who     *)
(* goes on working in that repository.  Each git command is a process of   *)
(* its own, so the user may act between any two of them.                   *)
(*                                                                         *)
(* A commit is the set of changes in its history and the set of those in   *)
(* its tree; change 0 is the agent's, the others are the user's.           *)
(***************************************************************************)
EXTENDS Naturals

CONSTANTS Branch,         \* the user's branches
          MaxUserSteps    \* bound on what the user does

ASSUME DeliveryAssumption ==
  /\ Branch # {} /\ "detached" \notin Branch
  /\ MaxUserSteps \in Nat

VARIABLES
  pc,         \* next git command of create or _deliver_staged
  taken,      \* snapshot: base_sha, symbolic_head, root_refs
  head,       \* branch HEAD names, or "detached"
  loose,      \* commit of a detached HEAD
  tip,        \* commit of each branch
  index,      \* tree of the index; the working tree is this, plus edits
  edits,      \* where the user has unstaged edits
  merging,    \* is a merge of the user in progress?
  steps,      \* user steps taken
  actedAt,    \* git commands before which the user acted
  committed,  \* user changes committed to each branch
  held        \* user changes staged and not committed

userVars == <<steps, actedAt, committed, held>>
repoVars == <<head, loose, tip, index, edits, merging>>
vars == <<pc, taken, repoVars, userVars>>

Agent == 0
Change == {Agent} \cup 1..MaxUserSteps
Commit == [history : SUBSET Change, tree : SUBSET Change]

Root == [history |-> {}, tree |-> {}]

HeadCommit == IF head = "detached" THEN loose ELSE tip[head]

\* The merge of the agent's branch into base, made in the staging worktree.
Staged == [history |-> taken.base.history \cup {Agent},
           tree    |-> taken.base.tree \cup {Agent}]

Creating == {"status", "base", "symbolic", "refs"}
Delivering == {"check_merge", "check_head", "check_commit", "check_tree", "check_refs",
               "update_ref", "recheck_merge", "recheck_head", "recheck_refs",
               "reset", "verify_head", "verify_commit"}

Init ==
  /\ pc = "status"
  /\ taken = [base |-> Root, symbolic |-> "detached", refs |-> [b \in Branch |-> Root]]
  /\ head \in Branch \cup {"detached"}
  /\ loose = Root
  /\ tip = [b \in Branch |-> Root]
  /\ index = {} /\ edits = {} /\ merging = FALSE
  /\ steps = 0 /\ actedAt = {}
  /\ committed = [b \in Branch |-> {}]
  /\ held = {}

-----------------------------------------------------------------------------
(* The program. *)

\* git status --porcelain prints nothing.
CleanTree == index = HeadCommit.tree /\ edits = {}

\* One read-only git command: raise unless it finds what is expected.
Check(here, expected, next) ==
  /\ pc = here
  /\ pc' = IF expected THEN next ELSE "raised"
  /\ UNCHANGED <<taken, repoVars, userVars>>

\* create: merge state, status, then three commands that take the snapshot.
RequireClean == Check("status", ~merging /\ CleanTree, "base")

TakeBase ==
  /\ pc = "base"
  /\ taken' = [taken EXCEPT !.base = HeadCommit]
  /\ pc' = "symbolic"
  /\ UNCHANGED <<repoVars, userVars>>

TakeSymbolicHead ==
  /\ pc = "symbolic"
  /\ taken' = [taken EXCEPT !.symbolic = head]
  /\ pc' = "refs"
  /\ UNCHANGED <<repoVars, userVars>>

TakeRefs ==
  /\ pc = "refs"
  /\ taken' = [taken EXCEPT !.refs = tip]
  /\ pc' = "check_merge"
  /\ UNCHANGED <<repoVars, userVars>>

\* _assert_delivery_boundary, the first time.
CheckMerge == Check("check_merge", ~merging, "check_head")
CheckHead == Check("check_head", head = taken.symbolic, "check_commit")
CheckCommit == Check("check_commit", HeadCommit = taken.base, "check_tree")
\* Mutation: the working tree is not looked at.
CheckNoTree == Check("check_tree", TRUE, "check_refs")

CheckTree == Check("check_tree", CleanTree, "check_refs")
CheckRefs == Check("check_refs", tip = taken.refs, "update_ref")

\* The ref update-ref writes: the snapshot's branch, or what HEAD names now.
Target == IF taken.symbolic = "detached" THEN head ELSE taken.symbolic

\* HEAD, or a branch, becomes a commit.
PointAt(ref, commit) ==
  IF ref = "detached" THEN loose' = commit /\ UNCHANGED tip
                      ELSE tip' = [tip EXCEPT ![ref] = commit] /\ UNCHANGED loose

\* Mutation: without the old value that git compares.
UpdateRefUnguarded ==
  /\ pc = "update_ref"
  /\ PointAt(Target, Staged)
  /\ pc' = "recheck_merge"
  /\ UNCHANGED <<taken, head, index, edits, merging, userVars>>

UpdateRef ==
  /\ pc = "update_ref"
  /\ IF taken.base = (IF Target = "detached" THEN loose ELSE tip[Target])
     THEN PointAt(Target, Staged) /\ pc' = "recheck_merge"
     ELSE pc' = "raised" /\ UNCHANGED <<loose, tip>>
  /\ UNCHANGED <<taken, head, index, edits, merging, userVars>>

\* Mutation: the snapshot is compared without the update just made.
StaleRefs == taken.refs

ExpectedRefs ==
  IF taken.symbolic = "detached" THEN taken.refs
  ELSE [taken.refs EXCEPT ![taken.symbolic] = Staged]

\* _assert_delivery_boundary again, without HEAD's commit and working tree.
RecheckMerge == Check("recheck_merge", ~merging, "recheck_head")
RecheckHead == Check("recheck_head", head = taken.symbolic, "recheck_refs")

\* Mutation: the refs are not compared again.
RecheckNothing == Check("recheck_refs", TRUE, "reset")

RecheckRefs == Check("recheck_refs", tip = ExpectedRefs, "reset")

\* git reset --merge moves the branch HEAD names now, discards what is staged
\* and ends a merge; it refuses if an unstaged edit is in its way.
Reset ==
  /\ pc = "reset"
  /\ IF "delivered" \in edits /\ Agent \notin index
     THEN pc' = "raised" /\ UNCHANGED <<loose, tip, index, merging>>
     ELSE /\ PointAt(head, Staged)
          /\ index' = Staged.tree
          /\ merging' = FALSE
          /\ pc' = "verify_head"
  /\ UNCHANGED <<taken, head, edits, userVars>>

VerifyHead == Check("verify_head", head = taken.symbolic, "verify_commit")
VerifyCommit == Check("verify_commit", HeadCommit = Staged, "delivered")

Deliver ==
  \/ RequireClean \/ TakeBase \/ TakeSymbolicHead \/ TakeRefs
  \/ CheckMerge \/ CheckHead \/ CheckCommit \/ CheckTree \/ CheckRefs
  \/ UpdateRef \/ RecheckMerge \/ RecheckHead \/ RecheckRefs \/ Reset
  \/ VerifyHead \/ VerifyCommit

-----------------------------------------------------------------------------
(* The user. *)

UserActs ==
  /\ pc \notin {"delivered", "raised"}
  /\ steps < MaxUserSteps
  /\ steps' = steps + 1
  /\ actedAt' = actedAt \cup {pc}
  /\ UNCHANGED <<pc, taken>>

\* An edit, git commit -a: the tree committed is that of the index, which lags
\* behind HEAD between update-ref and reset.
UserCommits ==
  /\ UserActs
  /\ index' = index \cup {steps'}
  /\ PointAt(head, [history |-> HeadCommit.history \cup held \cup {steps'},
                    tree    |-> index'])
  /\ committed' = IF head = "detached" THEN committed
                  ELSE [committed EXCEPT ![head] = @ \cup held \cup {steps'}]
  /\ edits' = {} /\ merging' = FALSE /\ held' = {}
  /\ UNCHANGED head

\* git switch, with nothing in the way.
UserSwitches(b) ==
  /\ UserActs
  /\ b # head
  /\ edits = {} /\ held = {} /\ ~merging
  /\ index \in {HeadCommit.tree, tip[b].tree}
  /\ head' = b
  /\ index' = tip[b].tree
  /\ UNCHANGED <<loose, tip, edits, merging, committed, held>>

UserStages ==
  /\ UserActs
  /\ index' = index \cup {steps'}
  /\ held' = held \cup {steps'}
  /\ UNCHANGED <<head, loose, tip, edits, merging, committed>>

UserEdits(place) ==
  /\ UserActs
  /\ edits' = edits \cup {place}
  /\ UNCHANGED <<head, loose, tip, index, merging, committed, held>>

\* A merge that stops at a conflict.
UserMerges ==
  /\ UserActs
  /\ edits = {} /\ held = {} /\ ~merging
  /\ merging' = TRUE
  /\ UNCHANGED <<head, loose, tip, index, edits, committed, held>>

User ==
  \/ UserCommits \/ UserStages \/ UserMerges
  \/ \E b \in Branch : UserSwitches(b)
  \/ \E place \in {"delivered", "elsewhere"} : UserEdits(place)

Next == Deliver \/ User

Spec == Init /\ [][Next]_vars

-----------------------------------------------------------------------------
(* Properties. *)

DeliveryTypeOK ==
  /\ pc \in Creating \cup Delivering \cup {"delivered", "raised"}
  /\ taken \in [base : Commit, symbolic : Branch \cup {"detached"},
                refs : [Branch -> Commit]]
  /\ head \in Branch \cup {"detached"}
  /\ loose \in Commit
  /\ tip \in [Branch -> Commit]
  /\ index \subseteq Change
  /\ edits \subseteq {"delivered", "elsewhere"}
  /\ merging \in BOOLEAN
  /\ steps \in 0..MaxUserSteps
  /\ actedAt \subseteq Creating \cup Delivering
  /\ committed \in [Branch -> SUBSET Change]
  /\ held \subseteq Change

\* The user did not act at any command of the set.
Undisturbed(commands) == actedAt \cap commands = {}

\* Did the user act in the one gap nothing guards: after HEAD was looked at for
\* the last time and before git reset --merge moves whatever HEAD names?
LateUser == ~Undisturbed({"recheck_refs", "reset"})

\* No commit the user makes on a branch is ever dropped from it, wherever
\* between the commands it is made, but for that gap.
CommitsKept ==
  ~LateUser => \A b \in Branch : committed[b] \subseteq tip[b].history

\* The program moves a branch only from the commit the agent started from to
\* the staged one, and only the branch it was started on: whatever the user
\* does meanwhile, but for that gap (and a detached HEAD put on a branch).
OnlyGuardedMove ==
  [][\A b \in Branch :
       tip'[b] # tip[b] /\ UNCHANGED steps /\ ~LateUser =>
         /\ tip[b] = taken.base /\ tip'[b] = Staged
         /\ taken.symbolic \in {b, "detached"}]_vars

AfterUpdate == {"recheck_merge", "recheck_head", "recheck_refs", "reset",
                "verify_head", "verify_commit"}

\* Delivery is all or nothing.  One that fails leaves the user's branch advanced
\* only if the user acted after the check of the boundary began, whatever the
\* user did before; one that succeeds, if the user did not act after update-ref,
\* has the branch the agent started from checked out with the delivered files.
AllOrNothing ==
  /\ pc = "raised" /\ Undisturbed(Delivering \ {"check_merge"}) =>
       \A b \in Branch : Agent \notin tip[b].history
  /\ pc = "delivered" /\ Undisturbed(AfterUpdate) =>
       /\ head = taken.symbolic
       /\ HeadCommit = Staged
       /\ index = Staged.tree

\* What the user has staged is discarded only if it was staged after the files
\* were looked at: none of the later comparisons looks at them again.
StagedKeptIfSeen ==
  Undisturbed({"check_refs", "update_ref", "recheck_merge", "recheck_head",
               "recheck_refs", "reset"}) => held \subseteq index

\* workspace.py, line 582: delivery is refused when a root change could be
\* overwritten.  What the user has staged is never discarded.
StagedChangesKept == held \subseteq index
=============================================================================
