CONSTANTS
  Natives = {"native_error", "reroute", "turn.completed", "garbage"}
  MaxEvents = 2

SPECIFICATION FairSpec

INVARIANT QuietWhenReported
PROPERTY EverybodyWakes
PROPERTY ImplementsAgentRun

CHECK_DEADLOCK FALSE
