SPECIFICATION ClusterFairSpec
CONSTANTS
    a = a
    b = b
    u = u
    f = f
    NoValue = NoValue
    Node <- TwoNodes
    Check = {}
    Filter = {f}
    MaxSeq = 1
    MaxFaults = 2
    MaxProduced = 3
    BatchSize = 1
    StaleJobs = FALSE
PROPERTIES Converges
CHECK_DEADLOCK FALSE
