SPECIFICATION MCSpec
CONSTANTS
    u1 = u1
    u2 = u2
    s1 = s1
    k1 = k1
    Users = {u1}
    Seeded <- MCSeeded
    BotCase = 2
    Titles <- MCTitles
    Strip <- MCStrip
    Fold <- MCFold
    Changes <- MCChanges
    Sessions = {s1}
    Interval = 1
    MaxCatchUp = 1
    PageSize = 1
    MaxCases = 3
    MaxVersion = 3
    MaxTime = 3
    LastMoment = 3
    MaxEpoch = 1
    Keys = {k1}
    NoKey = NoKey
    Queued = 0
    Duration = 1
    Ttl = 1
    RecordTtl = 2
    Full = 4
    MaxExports = 1
    Owners <- MCOwners
    Tabs = {1, 2, 3}
    OwnerOf <- MCOwnerOf
    Names <- MCNames
    NameStrip <- MCNameStrip
    NameFold <- MCNameFold
    Queries = {1}
    TagLists <- MCTagLists
    MaxHunts = 2
    MaxHuntVersion = 3
    Sensors = {1, 2}
    Lag <- MCLag
    Rows <- MCRows
    Delay <- MCDelay
    Epoch = 4
    DataStart = 0
    Hour = 4
    Retention = 4
    FirstImport = 16
    MaxSessions = 2
    Horizon = 4
    Files <- MCFiles
    ImportKeys = {k1}
    NoImportKey = NoKey
    KeyTtl = 2
    HourBefore = 2
    Percents = 4
    LastIndex = 17
    MaxImports = 3
    Readable = {1, 2}
    Limit = 2
    Buckets = {"download", "enrich"}
    Most <- MCMost
    Span <- MCSpan
    FixedRetry <- MCFixed
    Second = 2
    IdleAge = 3
    MaxTracked = 1
    Callers = {u1, u2}
    RoleOf <- MCRoles
    Addresses <- MCAddresses
    Normal <- MCNormal
    Accounts = {"ana"}
    MaxFailures = 2
    LoginSpan = 3
    Skew = 1
    Packets <- MCPackets
    Profiles <- MCProfiles
    DefaultTtl = 900
    LastTick = 6
    MaxCounter = 3
    Families = {u1}
    Clients = {u2}
    Anonymous = NoKey
    Shapes <- MCShapes
    Ring = 3
    Gap <- MCGap
    MaxSeq = 4
    MaxNow = 2
    MaxLive = 2
    Captured <- MCCaptured
    ScanChunk = 1
    PageLimit = 2
    Orders = {"-ts", "bytes"}
    MaxCalls = 3
    Fields <- MCFields
    Lower <- MCLower
    NumberOf <- MCNumbers
    Glob <- MCGlob
    Network <- MCNetwork
    TooWild = {}
    MaxParts = 3
    MaxValues = 2
    TableRows <- MCTable
    Chunks <- MCChunks
    MaxChunks = 4
    Seeds <- MCSeeds
    EpochHour = 12
    HourLen = 12
    StageHours <- MCStageHours
    StageGap <- MCStageGap
    ReadSpan = 5
    GapLen = 3
    ExfilCount = 3
    ConfidentAt = 4
    DedupeSpan = 7
    Traffic <- MCTraffic
    Base = 3
    Curve <- MCCurve
    Zone <- MCZone
    HoursADay = 4
    WorkDays = 1
    Weekend = 40
    ScanHours = {3}
    BackupHours = {3}
    ScanTargets = 2
    ScanPorts = 2
    Backups = 3
    Anchors <- MCAnchors
    Period = 5
    Watchful = {"v1"}
    Slack = 2
    Marks <- MCMarks
    SpecialSlot <- MCSlot
    Index <- MCIndex
    MinuteLen = 4
    IdMinutes = 64
    IdOrdinals = 16
    KeptHours = 11
    PcapSpan = 84
    Asked <- MCAsked
    Captures <- MCCaptures
    MaxPackets = 40
    Mss = 300
    SeqRange = 4096
    Micros = 50
    LongestStep = 20
    ByteSums <- MCSums
    FlowRows <- MCFlowRows
    Widths = {1, 4}
    MaxSamples = 26
    Many = 100
    Huge = 200
    Long = 20
    WeightDraws = {5, 7, 15}
    Bodies <- MCBodies
    MagicSize = 2
    HeaderSize = 5
    RecordSize = 3
    MaxRecord = 8
    MaxUpload = 30
    MaxMeta = 5
    MaxPiece = 11
    About <- MCAbout
    AboutImported <- MCAboutImported
    Outages <- MCOutages
    ChartQueries <- MCQueries
    SampleTarget = 2
    MaxBuckets = 7
    MaxWindow = 9
    NodeLimits = {2, 5}
    Hosts <- MCHosts
    HalfWidths = {2, 4}
    RelatedPage = 1
    ForeignCursors <- MCForeign
    MayNotRead = {2}
INVARIANTS ServicesTypeOK NoLostUpdate PagesMissNothing RowsArePrefix RelatedOnce ReplaysAreServed PromisedSensor
INVARIANTS WorldHolds WindowHolds
PROPERTIES VerdictsStick BotPaced EditsAreInformed
CHECK_DEADLOCK FALSE
