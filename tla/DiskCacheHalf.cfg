\* A publication that fails after its first rename.
CONSTANTS
  Runtimes = {"r1"}
  Processes = {"p1", "p2"}
  ProcessOf <- OneRuntime
  Pid <- DistinctPids
  Configs <- OneConfig
  ArtifactLength <- Lengths
  Truncated = Truncated
  None = None
  MaxFaults = 1
  MaxSequence = 2
SPECIFICATION Spec
INVARIANT FailedPublicationIsAMiss
