CONSTANTS
    r1 = r1
    r2 = r2
    r3 = r3
    Requests <- MCRequests
    Threshold = 2
    OpenSeconds = 2
    MaxFailures = 3
    MaxOutage = 7
SPECIFICATION FairSpec
INVARIANTS
    OpenOnlyAtThreshold
    OutageBounded
PROPERTIES
    ToldOpenWhenOpen
    OpenCircuitRecovers
    HealthyUpstreamCloses
