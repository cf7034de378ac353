\* Three calls and three workers: concurrent instantiation against eviction.
CONSTANTS
  Requests = {r1, r2, r3}
  Workers = {w1, w2, w3}
  Paths = {"buffered"}
  max_in_flight = 2
  max_reuse = 2
  max_concurrent = 1
  max_output_bytes = 0
  MaxFrame = 1
SYMMETRY Symmetry
SPECIFICATION Spec
INVARIANTS InFlightBounded PreShared
CHECK_DEADLOCK FALSE
