CONSTANTS
  SubmitMayStrand = FALSE
  DatabaseMayFail = TRUE
  MaxTotalCalls = 2
  MaxRetries = 1
  RequireApprovalAboveCalls = 2

SPECIFICATION Spec

INVARIANT RemovedOnlyQuiescent

CHECK_DEADLOCK FALSE
