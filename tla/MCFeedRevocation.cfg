\* Three clients share two families; what they receive does not matter here,
\* so nothing they want is released.
CONSTANTS
    c1 = c1
    c2 = c2
    c3 = c3
    Streams <- MCThreeStreams
    Families = {1, 2}
    Wanted <- MCNone
    RingSize = 1
    QueueSize = 1
    MaxSeq = 1
SPECIFICATION DetectionSpec
SYMMETRY Symmetry
INVARIANTS DetectionTypeOK
PROPERTIES RevocationCloses
CHECK_DEADLOCK FALSE
