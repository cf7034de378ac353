\* Grants with opposed limits, both interfaces, bodies of two frames.
CONSTANTS
  Configurations <- MCConfigurations
  max_timeout = 1
  GuestRequests <- MCRequests
  Addresses <- MCAddresses
  Lengths <- MCLengths
  MaxFrameBytes = 3
  MaxFrames = 2
SPECIFICATION OutboundSpec
INVARIANTS WithinOneGrant PassesAPrefix TrueHints
CHECK_DEADLOCK FALSE
