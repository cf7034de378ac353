\* Two calls on both paths compete for one permit.
CONSTANTS
  Requests = {r1, r2}
  Workers = {w1, w2}
  Paths = {"buffered", "streaming"}
  max_in_flight = 1
  max_reuse = 2
  max_concurrent = 1
  max_output_bytes = 1
  MaxFrame = 2
SPECIFICATION FairSpec
INVARIANTS OutputBounded
PROPERTIES EveryRequestEnds
CHECK_DEADLOCK FALSE
