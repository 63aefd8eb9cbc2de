SPECIFICATION Spec
CONSTANTS
    m1 = m1
    m2 = m2
    d1 = d1
    d2 = d2
    x1 = x1
    NoItem = NoItem
    LaneCount = 2
    Msg <- TwoMsgs
    DistThread <- TwoDists
    Flush <- OneFlush
    DropOver = 1
    FilterName = {"f", "g"}
    KeptNames = {}
    Asked = {"f"}
    FilterSeqs = {0, 1, 2}
    Applier = {"a1"}
    MaxJobs = 2
    WatchKey = {"k"}
    Stream = {"l", "w", "c"}
    StreamKind <- MCKind
    MaxCopies = 2
INVARIANTS
    NoUseAfterFree MessagesAccounted FlushesExact
    FilterTableAgrees CopiesHaveWatchers
PROPERTIES
    FlushCompletes UsedKept BegunEnds
CHECK_DEADLOCK FALSE
