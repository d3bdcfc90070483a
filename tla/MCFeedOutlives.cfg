\* The same instance, for the sentence of the route about revoked families.
CONSTANTS
    c1 = c1
    c2 = c2
    c3 = c3
    Streams <- MCThreeStreams
    Families = {1, 2}
    Wanted <- MCNone
    RingSize = 1
    QueueSize = 1
    MaxSeq = 1
SPECIFICATION DetectionSpec
SYMMETRY Symmetry
INVARIANT NoStreamOutlives
CHECK_DEADLOCK FALSE
