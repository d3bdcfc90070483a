\* Two clients, and one family id that a reset hands out again, for the same
\* sentence.
CONSTANTS
    c1 = c1
    c2 = c2
    c3 = c3
    Streams <- MCTwoStreams
    Families = {1}
    Wanted <- MCTwoNone
    RingSize = 1
    QueueSize = 1
    MaxSeq = 0
SPECIFICATION DetectionSpec
PROPERTIES RevocationSparesNone
CHECK_DEADLOCK FALSE
