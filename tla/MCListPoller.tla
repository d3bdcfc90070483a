---------------------------- MODULE MCListPoller ----------------------------
(* Values for DetectionPoller: three detections of one sensor, two of them of
   the same row, which are all there when the client calls again. *)
EXTENDS DetectionPoller

MCLag == <<0>>
MCRows == {[id |-> 1, sensor |-> 1, start |-> 3, rules |-> {1}],
           [id |-> 2, sensor |-> 1, start |-> 5, rules |-> {1, 2}],
           [id |-> 3, sensor |-> 1, start |-> 6, rules |-> {1}]}
MCDelay == [p \in {1, 2, 3} \X {1, 2} |-> 1]
=============================================================================
