\* The expiring-tokens profile, one tick standing for 2.5 s: access lifetime
\* 15 s, margin 10 s, grace 5 s; requests may take 2.5 s.  No fault happens.
CONSTANTS
    ana = ana
    r1 = r1
    r2 = r2
    Users <- MCUsers
    Watchers = {}
    Ttls <- MCExpiringTtls
    RefreshIdle = 9
    RefreshMax = 9
    MaxFamilies = 1
    MaxTokens = 4
    MaxNow = 8
    Requests <- MCRequests
    Margin = 4
    Grace = 2
    MaxCall = 1
    Lossy = FALSE
    AdminExpires = FALSE
SPECIFICATION BffSpec
SYMMETRY Symmetry
INVARIANT NoSelfReuse
CHECK_DEADLOCK FALSE
