SPECIFICATION Spec
CONSTANTS
    u1 = u1
    n1 = n1
    n2 = n2
    Uuid = {u1}
    Name = {n1, n2}
    Seqs = {0, 1, 2, 3}
    Setter = {t1, t2}
    Deleter = {d1}
    Repl = {r1}
    Asks <- Rename
    Peer <- OnePeer
    MaxOps = 3
    Overlap = "any"
    HostNames = FALSE
    Fires = TRUE
    ModuleRefs = TRUE
    None = None
    node1 = node1
    node2 = node2
    check1 = check1
    NoValue = NoValue
    Node <- TwoNodes
    Check = {check1}
    Filter = {}
    MaxSeq = 2
    MaxFaults = 1
    MaxProduced = 2
    BatchSize = 1
    StaleJobs = FALSE
    m1 = m1
    k1 = k1
    s1 = s1
    s2 = s2
    d1 = d1
    NLanes = 2
    Metric <- OneMetric
    Key <- OneKey
    Keys <- SameKey
    Search <- TwoSearches
    LaneOf <- OnTwoLanes
    Bucket <- FirstAndLast
    Matches <- MatchSome
    WantAll <- NoLane
    Dist <- OneDist
    MaxInterest = 1
    CacheSize = 1
    MaxAdjust = 1
    MaxCheckGen = 1
SYMMETRY Symm
INVARIANTS
    RefsCover  IndexesAgree 
    Queued 
CHECK_DEADLOCK FALSE
