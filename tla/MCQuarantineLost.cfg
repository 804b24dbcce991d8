CONSTANTS
  c1 = c1
  c2 = c2
  Child <- MCChild
  Invocations <- MCInvocations
  SubmitMayStrand = FALSE
  DatabaseMayFail = FALSE
  MaxTotalCalls = 8
  MaxRetries = 1
  RequireApprovalAboveCalls = 5

SPECIFICATION EngineSpec

INVARIANT CleanedOnlyQuiescent

CHECK_DEADLOCK FALSE
