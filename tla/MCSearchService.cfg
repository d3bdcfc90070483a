\* One session and key, two searches against two slots, two creations in one
\* window of the limiter; time goes one step past both lifetimes (2), and one
\* expired search is remembered, so that a second makes it forgotten.  A scan
\* is three rows in chunks of two: a whole chunk and a short one.
CONSTANTS
    ana = ana
    f1 = f1
    f2 = f2
    k1 = k1
    b1 = b1
    b2 = b2
    Families <- MCFamilies
    Owner <- MCOwner
    Keys <- MCKeys
    Bodies <- MCBodies
    Slots = 2
    IdleTtl = 2
    RecordTtl = 2
    RateLimit = 2
    RateWindow = 1
    MaxExpired = 1
    Total = 3
    Chunk = 2
    MaxJobs = 2
    MaxNow = 3
SPECIFICATION SearchSpec
INVARIANTS SearchTypeOK NoTwin ReplayIsFresh NoStrayScan
PROPERTIES AnswersOnlyAdvance SearchesEnd
CHECK_DEADLOCK FALSE
