\* One controller, a guest that only computes, and a clock that may stop.
CONSTANTS
  Controllers = {k1}
  resident_ttl = 1
  timeout = 1
  HostWaits = FALSE
  Horizon = 4
  None = None
SPECIFICATION FairSpec
PROPERTIES EveryInvocationEnds CancellationEnds
CHECK_DEADLOCK FALSE
