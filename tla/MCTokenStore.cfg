\* One account (a logout already revokes one family and spares another), two
\* families between resets, three pairs; the access lifetime is 2 (1 under the
\* expiring profile), the refresh limits 1 (idle) and 2 (age), and time goes
\* far enough for a sweep (age > 2 + 1).
CONSTANTS
    ana = ana
    sse = sse
    Users <- MCUsers
    Watchers <- MCWatchers
    Ttls <- MCTtls
    RefreshIdle = 1
    RefreshMax = 2
    MaxFamilies = 2
    MaxTokens = 3
    MaxNow = 4
SPECIFICATION Spec
INVARIANTS StoreTypeOK OneChain WatchersAreTold
PROPERTIES StatusOnlyFalls SweepSparesUsable
CHECK_DEADLOCK FALSE
