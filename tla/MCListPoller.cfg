\* The client asks for one detection at a time.
CONSTANTS
    Sensors = {1}
    Lag <- MCLag
    Rows <- MCRows
    Delay <- MCDelay
    Epoch = 4
    DataStart = 0
    Hour = 4
    Retention = 4
    FirstImport = 16
    MaxSessions = 2
    Horizon = 4
    MaxTime = 3
    Readable = {1}
    Limit = 1
SPECIFICATION PollerSpec
INVARIANTS PollerMissesNothing
CHECK_DEADLOCK FALSE
