CONSTANTS
  Runs = {1, 2}
  MaxSockets = 2
  MaxUnread = 1
  Clients <- AllClients

SPECIFICATION Spec

INVARIANT QuiescedRunEnded

CHECK_DEADLOCK FALSE
