\* Three runtimes in two processes, every kind of fault, configuration changes.
CONSTANTS
  Runtimes = {"r1", "r2", "r3"}
  Processes = {"p1", "p2"}
  ProcessOf <- ThreeRuntimes
  Pid <- DistinctPids
  Configs <- AllConfigs
  ArtifactLength <- Lengths
  Truncated = Truncated
  None = None
  MaxFaults = 2
  MaxSequence = 4
SPECIFICATION Spec
INVARIANTS LoadsOnlyOwnPublication FinalPairLoads
PROPERTIES ForeignEntryStays ImplementsDiskEntry
