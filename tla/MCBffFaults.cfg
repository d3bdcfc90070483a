\* Answers get lost, the server restarts, an administrator expires tokens: one
\* sign-in, two pairs, short lifetimes, so that each of these happens to each
\* pair.
CONSTANTS
    ana = ana
    r1 = r1
    r2 = r2
    Users <- MCUsers
    Watchers = {}
    Ttls <- MCShortTtls
    RefreshIdle = 9
    RefreshMax = 1
    MaxFamilies = 1
    MaxTokens = 2
    MaxNow = 2
    Requests <- MCRequests
    Margin = 1
    Grace = 1
    MaxCall = 1
    Lossy = TRUE
    AdminExpires = TRUE
SPECIFICATION BffSpec
INVARIANTS DestroyIsFinal
PROPERTIES RequestsEnd
CHECK_DEADLOCK FALSE
