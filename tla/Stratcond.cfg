SPECIFICATION Spec
CONSTANTS
    Journal = {"f", "g"}
    Content <- MCContent
    max_allocated = 1
    max_in_pool = 1
    MaxFaults = 1
    Graphs <- MCGraphs
    MaxLines = 1
    MaxBreaks = 1
    nhosts = 3
    FqCheck = {"c"}
    FqMetric = {"m", "n"}
    RetryAfter = 2
    LastFqSecond = 2
    MaxMessages = 4
    SubmitThread = {"t1", "t2"}
    MAX_SLOTS = 2
    amqp_nhosts = 2
    heartbeat = 2
    LastAmqpSecond = 2
    MaxPublished = 2
    MaxArrived = 3
    Payloads <- MCPayloads
    Configs <- MCConfigs
    MaxFrames = 4
    Variants = {0, 1, 2, 3}
    FlagSets <- MCFlagSets
    InitialFrameMax = 64
    AskedFrameMax = 60
    OfferedFrameMax = {0, 40}
    BodySizes = {0, 31, 32, 33, 65}
    ReadSizes = {3, 99}
    MaxPublications = 2
    MaxExtras = 1
    NoitAddress = {"1", "2"}
    NoitCn = {"a"}
    NoAddress = ""
    NoCn = "none"
    Feed = {"storage"}
    NoitConfs <- MCNoitConfs
    MaxUpdaters = 2
    MaxNoits = 2
    MaxHooks = 1
    MaxRequests = 1
    Letters = {"a", "c", ",", ":", " ", "L", "]", "}", "|ST[", "|MT{"}
    Encoded <- MCEncoded
    Openings <- MCOpenings
    MAX_TAGS = 2
    MAX_TAG_REPLACEMENTS = 1
    MaxNameTokens = 4
    QueryTokens = {"and(", "hint(", "not(", ")", ",", ":", " ", "a", "*", "/", "\"", "[re]"}
    QueryOpenings <- MCQueryOpenings
    MaxQuery = 4
    MaxSearchTags = 3
    PatternChars = {"a", "b", ".", "*", "?", "{", "}", ","}
    SubjectChars = {"a", "b", "."}
    MaxPattern = 5
    MaxSubject = 3
    LoggedMetrics <- MCLogged
    StatsTimes = {0, 5}
    metrics_per_bundle = 2
    MaxLogged = 4
    MaxText = 5
    Width = 3
    RollupTimes <- MCRollupTimes
    MaxRolled = 3
INVARIANTS
    RowsReachDatabase
    
    NoitsFollowConfiguration
    
CHECK_DEADLOCK FALSE
