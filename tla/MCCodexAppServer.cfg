CONSTANTS
  MaxRuns = 2
  MaxUnread = 2
  Clients <- AllClients

SPECIFICATION FairSpec

INVARIANT EndAsAnnounced
INVARIANT QuietWhenQuiesced
PROPERTY CallersEnd
PROPERTY ImplementsAgentRun

CHECK_DEADLOCK FALSE
