SPECIFICATION SumSpec
CONSTANTS
    Size = 8
    Coherent = FALSE
    Atom = 2
    Download = TRUE
    Requests <- DownloadRequests
    MaxTick = 4
    MutexThreads = {"t1", "t2"}
    NoOwner = "none"
    Types = {"recursive", "normal"}
    MaxCount = 2
    MaxWakes = 1
    RwlockThreads = {"t1", "t2", "t3"}
    NoWriter = "none"
    MaxReads = 1
    AddressThreads = {"t1", "t2", "t3"}
    Entries = {1, 2, 3, 4}
    Words = {0, 1}
    WakeCounts = {1, 2}
    LastByte = 3
    Guests = {"g1", "g2"}
    WindowSize = 2
    MaxSnapshots = 1
    RegionPages = {1, 2, 3, 4}
    WriteWatchers = {"buffers", "image"}
    AccessWatchers = {"gpu"}
    LastPage = 3
    LastFrame = 2
    FlexSize = 2
    MaxFaults = 1
INVARIANTS
    TypesOK NoReuseInFlight AtomsIsolated
    HoldersOwn SignalsAnswered WritersCounted OnceThenDone
    WaitersAreFound LatestValueSeen DirtyPagesAgree ProtectionFollowsWatchers
    TablesInStep
PROPERTIES WritersGoFirst
CHECK_DEADLOCK FALSE
