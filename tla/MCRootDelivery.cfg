CONSTANTS
  Branch = {"main", "other"}
  MaxUserSteps = 3

SPECIFICATION Spec

INVARIANT CommitsKept
INVARIANT AllOrNothing
INVARIANT StagedKeptIfSeen
PROPERTY OnlyGuardedMove

CHECK_DEADLOCK FALSE
