CONSTANTS
  Identities = {"hermes", "codex", "local"}
  Configs <- MCConfigs
  Tasks <- MCTasks
  Offers <- MCOffers

SPECIFICATION Spec

INVARIANT DispatchedToBest

CHECK_DEADLOCK FALSE
