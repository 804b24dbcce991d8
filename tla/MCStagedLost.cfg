CONSTANTS
  Branch = {"main", "other"}
  MaxUserSteps = 1

SPECIFICATION Spec

INVARIANT StagedChangesKept

CHECK_DEADLOCK FALSE
