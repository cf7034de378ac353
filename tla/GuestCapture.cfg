SPECIFICATION CaptureSpec
CONSTANTS
    m1 = m1
    m2 = m2
    k1 = k1
    k2 = k2
    b1 = b1
    b2 = b2
    v1 = v1
    v2 = v2
    w1 = w1
    w2 = w2
    Modules <- MCModules
    Keys <- MCKeys
    SourceKey = k1
    Builds <- MCBuilds
    SourceBuild = b1
    Versions <- MCVersions
    SourceVersion = v1
    Limits <- MCLimits
    MaxRecords = 5
    USIZE_MAX = 10
    Overhead = 3
    MAX_MANIFEST_BYTES = 48
    MAX_LIST_ENTRIES = 3
    MAX_TOKEN_BYTES = 7
    Documents <- MCDocuments
    Followed <- MCFollowed
    Writers <- MCWriters
    OutputLimit = 4
    Sizes <- MCSizes
    MaxBuffers = 2
    MaxCalls = 2
INVARIANTS AcceptedIsCoherent IdentityNamesOneEnvironment CaptureIsWhole ReplaysTheCapture WholeCheckpoint ScanDecides SealedOpens
CHECK_DEADLOCK FALSE
