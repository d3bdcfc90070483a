SPECIFICATION MCSpec
CONSTANTS
    Sensors = {1, 2}
    Lag <- MCLag
    Rows <- MCRows
    Delay <- MCDelay
    Epoch = 4
    DataStart = 0
    Hour = 4
    Retention = 4
    FirstImport = 16
    MaxSessions = 2
    Horizon = 4
    MaxTime = 3
    c1 = c1
    c2 = c2
    Clients = {c1, c2}
    Families = {1}
    MaxTickets = 3
    Asked <- MCAsked
    Filters <- MCFilters
    Channels <- MCChannels
    TicketTtl = 1
    Heartbeat = 1
    PongDeadline = 1
    StatsInterval = 2
    SendQueueLimit = 2
    Burst = 1
    RestartAfter = 3
    MaxProgress = 2
    MaxFrames = 2
    IdLimit = 4
INVARIANTS LiveTypeOK DeadFamiliesClose EveryRowOnce AccountsBalance WatchedIsTold SilentPeerEnds
PROPERTIES OneSocketPerTicket
CHECK_DEADLOCK FALSE
