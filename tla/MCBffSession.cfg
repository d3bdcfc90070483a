\* One browser, two overlapping requests, two sign-ins.  A request ends within
\* one tick (MaxCall); the grace and the lifetime beyond the margin (5 - 2) are
\* longer than two overlapping requests (the premise Unhurried of the theorems),
\* and the clock outlives a refreshed pair (minted at 3 or later, for 5).
CONSTANTS
    ana = ana
    r1 = r1
    r2 = r2
    Users <- MCUsers
    Watchers = {}
    Ttls <- MCTtls
    RefreshIdle = 9
    RefreshMax = 6
    MaxFamilies = 2
    MaxTokens = 3
    MaxNow = 8
    Requests <- MCRequests
    Margin = 2
    Grace = 3
    MaxCall = 1
    Lossy = FALSE
    AdminExpires = FALSE
SPECIFICATION BffSpec
SYMMETRY Symmetry
INVARIANTS BffTypeOK NoSelfReuse CookieNotStale TrustedIsFresh
CHECK_DEADLOCK FALSE
