SPECIFICATION Spec
CONSTANTS
    Walker = {"w1", "w2"}
    RuleLists <- MCRuleLists
    Measured <- MCMeasured
    MAX_TAGS = 2
    LastInstant = 2
    GlobalPeriod = 90000
    Documents <- MCDocuments
    SetName = {"f"}
    ConfPath = {"p", "q"}
    RuleText = {1}
    SetSeq = {0, 1, 2}
    MaxNodes = 2
    HostName = {"h", "bad"}
    Unparsable = {"bad"}
    Ttls = {0, 2, 9}
    DEFAULT_FAILED_TTL = 1
    MAX_TTL = 3
    DEFAULT_PURGE_AGE = 2
    Soon = 1
    LastSecond = 3
    StoreNames = {"a", "b"}
    Ip4s <- MCIp4s
    Ip6s <- MCIp6s
    HostsFiles <- MCHostsFiles
    SBUFF = 3
    WriteInterval = 1
    LastStoreSecond = 2
    MaxLearned = 2
    MaxCrashes = 1
    Scheduled = {"c1", "c2"}
    Setups <- MCSetups
    MinuteSeconds = 4
    SLOTS_PER_SECOND = 2
    DeadZone = 1
    PriorityFloor = 1
    FirstTick = 17
    LastTick = 22
    MaxUnpaired = 1
    CausalId = {"c1", "c2", "c3"}
    CausalName <- MCCausalName
    OnChecks <- MCOnChecks
    MaxCausal = 4
    MetricName = {"x", "z"}
    Filtered = {"z"}
    Recorder = {"r1", "r2"}
    METRICS_PER_BUNDLE = 2
    Perpetual = {TRUE, FALSE}
    MaxValues = 3
    MaxRounds = 2
    SampleThread = {"r1", "r2"}
    cadence = 2
    CumulativeMetric = {TRUE, FALSE}
    LastHistoSecond = 6
    MaxSamples = 3
    MaxBeats = 2
    CheckId = {"c"}
    CheckPath = {"/", "/p"}
    Root = "/"
    CheckName = {"x", "y"}
    NoName = "none"
    AskSeqs <- MCAskSeqs
    ReplSeqs = {1, 2}
    MaxSeq = 3
    MaxCheckNodes = 2
    CheckDocs <- MCCheckDocs
    PutDocs <- MCPutDocs
    Stanzas <- MCStanzas
    Registered = {"ip_acl"}
    NotNames = {"a b"}
    DefaultMin = 2
    DefaultMax = 6
    AsynchCheckId = {"c", "d"}
    TestAborts = {"d"}
    MaxAsynchRuns = 2
    Posted = {"p", "q", "r"}
    Unresolvable = {"r"}
    Writer = {"w1", "w2", "w3"}
    CheckOf <- MCCheckOf
    RowTypes = {"A", "C"}
    RowTexts <- MCTexts
    RowSets <- MCRowSets
    InitialMap = 1
    MaxWrites = 4
    DirectorReader = {"r1", "r2"}
    Incoming <- MCIncoming
    DedupeWindow = 1
    DropBefore = 4
    RacingPrune = FALSE
    LastDedupeSecond = 3
    MaxTables = 3
    MaxIncoming = 3
    LiveCheck = {"c", "d"}
    LiveLogger = {"t1", "t2"}
    LiveRequests <- MCLiveRequests
    LiveLines <- MCLiveLines
    MaxFeedLines = 2
    Interest = {"c", "d"}
    LineUnits = {1, 3}
    MaxPages = 2
    MaxLive = 2
INVARIANTS
    
    RunsAsConfigured
    
    
PROPERTIES
    StepsKeepOrder
CHECK_DEADLOCK FALSE
