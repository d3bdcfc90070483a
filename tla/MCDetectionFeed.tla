--------------------------- MODULE MCDetectionFeed ---------------------------
(* Small instances of DetectionFeed for TLC. *)
EXTENDS DetectionFeed, TLC

CONSTANTS c1, c2, c3

MCOneStream == {c1}
MCTwoStreams == {c1, c2}
MCThreeStreams == {c1, c2, c3}
Symmetry == Permutations(MCThreeStreams)
\* One detection is on a sensor the client may not read.
MCAllButOne == [s \in MCOneStream |-> 1 .. MaxSeq \ {3}]
MCNone == [s \in MCThreeStreams |-> {}]
MCTwoNone == [s \in MCTwoStreams |-> {}]
=============================================================================
