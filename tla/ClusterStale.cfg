SPECIFICATION ClusterSpec
CONSTANTS
    a = a
    b = b
    u = u
    f = f
    NoValue = NoValue
    Node <- TwoNodes
    Check = {u}
    Filter = {}
    MaxSeq = 1
    MaxFaults = 1
    MaxProduced = 3
    BatchSize = 1
    StaleJobs = TRUE
SYMMETRY Symm
INVARIANT Queued
CHECK_DEADLOCK FALSE
