CONSTANTS
  SubmitMayStrand = TRUE
  DatabaseMayFail = TRUE
  MaxTotalCalls = 2
  MaxRetries = 2
  RequireApprovalAboveCalls = 1

SPECIFICATION FairSpec

INVARIANT CallsCounted
INVARIANT MovedOnlyForVerified
INVARIANT FreshWorkspace
INVARIANT RemovedBesideRunOnlyIfLost
INVARIANT OutcomeTold
INVARIANT NothingForgotten
PROPERTY SingleEndsIfAnswered

CHECK_DEADLOCK FALSE
