CONSTANTS
  c1 = c1
  c2 = c2
  c3 = c3
  Child <- MCChild
  Invocations <- MCInvocations
  SubmitMayStrand = TRUE
  DatabaseMayFail = TRUE
  MaxTotalCalls = 4
  MaxRetries = 1
  RequireApprovalAboveCalls = 3

SPECIFICATION FairSpec

INVARIANT ReservationsMatch
INVARIANT CallsWithinLimit
INVARIANT CallsAreRuns
INVARIANT DependenciesFirst
INVARIANT SkippedOnlyBelowFailure
INVARIANT ProvenanceComplete
INVARIANT LastAttemptQuarantined
INVARIANT RetriesAccounted
PROPERTY ResultsKept
PROPERTY ImplementsLedger
PROPERTY EndsIfAnswered

CHECK_DEADLOCK FALSE
