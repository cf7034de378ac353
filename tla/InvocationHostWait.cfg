\* No controller, and a guest that may wait for the host.
CONSTANTS
  Controllers = {}
  resident_ttl = 2
  timeout = 1
  HostWaits = TRUE
  Horizon = 6
  None = None
SPECIFICATION FairSpec
PROPERTY EveryInvocationEnds
CHECK_DEADLOCK FALSE
