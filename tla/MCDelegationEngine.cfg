CONSTANTS
  c1 = c1
  c2 = c2
  Child <- MCChild
  Invocations <- MCInvocations
  SubmitMayStrand = TRUE
  DatabaseMayFail = TRUE
  MaxTotalCalls = 3
  MaxRetries = 1
  RequireApprovalAboveCalls = 1

SPECIFICATION FairEngineSpec

INVARIANT QuarantineLostOnlyWithRecord
INVARIANT DeliveredOnlyVerified
INVARIANT OutcomeStored
INVARIANT NoWorktreeForgotten
PROPERTY WorktreeOutlivesChild
PROPERTY EngineEndsIfAnswered

CHECK_DEADLOCK FALSE
