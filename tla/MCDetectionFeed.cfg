\* One client, reconnecting at will, over five detections: a ring of two, so
\* that a resume point may be too old, a backlog of two, so that it overflows,
\* and two sign-ins, so that it comes back after a reset.
CONSTANTS
    c1 = c1
    c2 = c2
    c3 = c3
    Streams <- MCOneStream
    Families = {1, 2}
    Wanted <- MCAllButOne
    RingSize = 2
    QueueSize = 2
    MaxSeq = 5
SPECIFICATION DetectionSpec
PROPERTIES FeedKept ClosedStreamsEnd
CHECK_DEADLOCK FALSE
