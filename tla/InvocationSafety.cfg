\* Two threads share the handle; a pause expires after 2, the guest after 1.
CONSTANTS
  Controllers = {k1, k2}
  resident_ttl = 2
  timeout = 1
  HostWaits = TRUE
  Horizon = 6
  None = None
SYMMETRY Symmetry
SPECIFICATION Spec
INVARIANTS NoLostWakeup PauseClock ReportsTheCause
CHECK_DEADLOCK FALSE
