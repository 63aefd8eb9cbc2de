SPECIFICATION Spec
CONSTANTS
    Uuid = {"u1", "u2"}
    Name = {"n1", "n2", "n3"}
    Seqs = {0, 1, 2, 3}
    Setter = {"s1"}
    Deleter = {"d1"}
    Repl = {"r1"}
    Asks <- OwnNames
    Peer <- OwnPeer
    MaxOps = 5
    Overlap = "none"
    HostNames = TRUE
    Fires = FALSE
    ModuleRefs = TRUE
    None = None
    MapKey = {"a"}
    Numbers = {2}
    Stamps = {7}
    Asynch = {TRUE, FALSE}
    MaxOpen = 3
    MaxTokens = 10
    MaxItems = 2
    Queried = {1, 2}
    MaxDnsRuns = 2
    MaxContexts = 2
    MaxObjects = 2
    PacketCount = 2
    MaxPings = 2
    MaxGeneration = 1
    Theta <- MCTheta
    EpochShift = 3
    NtpWidth = 16
    NtpCount = 2
    FirstNtpSecond = 9
    LastNtpSecond = 13
    Fragments = 2
    MaxDuplicates = 2
    DhcpCheckId = {"c", "d"}
    DhcpData <- MCDhcpData
    AddressBytes = 2
    MaxOptions = 3
    MaxDhcpRuns = 3
    Getter = {"c1", "c2", "c3"}
    SessionOf <- MCSessionOf
    V3 = {"t:v3"}
    ObjectIds = {"o", "p"}
    MaxRequests = 2
    MaxGets = 2
    TrapChecks <- MCTrapChecks
    Traps <- MCTraps
    TrapPeriod = 2
    LastTrapSecond = 5
    MaxTraps = 3
    Command = {"c1", "c2"}
    ExitStatus = {0, 1}
    MaxInvocations = 3
    Connection = {"s", "t"}
    Streams <- MCStreams
    Framings = {"line", "pickle"}
    Trackings = {TRUE, FALSE}
    rows_per_cycle = 2
    HostChecks <- MCHostChecks
    ImmediateOf = {"d"}
    PacketKind = {"metadata", "number", "string", "unknown"}
    GangliaPeriod = 2
    LastBeat = 5
    MaxPackets = 3
    LuaChecks = {"c", "n"}
    NoInitiate = {"n"}
    MaxInfos = 4
    MaxWaits = 2
    HttpConfs <- MCHttpConfs
    HttpAnswers <- MCHttpAnswers
    HttpHosts = {"h", "g"}
    FileSegments = {"f.h"}
    DialogConfs <- MCDialogs
    DialogReplies <- MCReplies
    RedisConfs <- MCRedisConfs
    RedisFields = {"f", "g"}
    RedisValues = {"f", "v"}
    InfoLines <- MCInfoLines
    MaxReply = 4
    Dsnames = {"s"}
    DsValues = {"v", "null"}
    MaxCdObjects = 1
    MaxElements = 2
    MaxSubmits = 1
    PacketParts <- MCParts
    Receivers <- MCReceivers
    MaxParts = 3
    MaxDatagrams = 2
    StatsdCheck = {"own", "any", "prime"}
    TargetOf <- MCTarget
    primary = {"prime"}
    Sender = {"h", "i"}
    Lengths = {1, 3}
    RecvMode = {TRUE, FALSE}
    RECV_BUFFER_CAPACITY = 5
    recv_buffer_len = 2
    packets_per_cycle = 1
    MaxArrivals = 2
    MaxReports = 1
    PayloadTokens = {"k", ";", "=", ":", "1", "0", "|", "g", "ms", "@", "#", "\n"}
    PayloadOpenings <- MCPayloadOpenings
    MaxPayload = 4
    SeriesNames <- MCSeriesNames
    Boundaries = {1, 2}
    Instants = {1, 2}
    Counts = {3}
    _allowed_units = {"bytes"}
    BatchSize = 1
    MaxSeries = 3
    PointNames = {"x"}
    PointTimes = {0, 1, 2}
    PointValues = {5}
    PointUnits = {"Ki"}
    BucketLists <- MCBuckets
    Exponentials <- MCExponentials
    OtlpBatch = 1
    MaxPoints = 3
INVARIANTS
    MemoryMatchesDb
    
    
    
    RecordedAsReceived
PROPERTIES
    ArrivalsTakeEffect
CHECK_DEADLOCK FALSE
