CONSTANTS
  Runs = {1, 2}
  MaxSockets = 2
  MaxUnread = 1
  Clients <- AllClients

SPECIFICATION FairSpec

INVARIANT NoSilentRun
INVARIANT HeardIsKept
PROPERTY CallersEnd
PROPERTY ImplementsAgentRun

CHECK_DEADLOCK FALSE
