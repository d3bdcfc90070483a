--------------------------- MODULE DetectionPoller ---------------------------
(***************************************************************************)
(* GET /detections (api/detections.py, DetectionBus.backfill) and a client *)
(* that polls it as its description says, with after_seq=last_seq.  A      *)
(* detection's seq is its place in the ledger.                             *)
(***************************************************************************)
EXTENDS World

CONSTANTS
    Readable, \* the sensors the client may read
    Limit     \* the limit it asks for

VARIABLES
    after,    \* the client's after_seq, or -1 before its first call
    got       \* the seqs it has been given

pollerVars == <<after, got>>

-----------------------------------------------------------------------------
\* The seqs released so far that the caller may read, and the head.
ReleasedNow == ReleasedBy(Built(HourOf(Now)).all, Now)
ReadableSeqs == {i \in DOMAIN ReleasedNow : ReleasedNow[i].row.sensor \in Readable}
HeadSeq == Len(ReleasedNow)

\* backfill(): the newest Limit of them, or the first Limit after after_seq;
\* last_seq is the head in either case.
Smallest(S, n) == {x \in S : Cardinality({y \in S : y < x}) < n}
Largest(S, n) == {x \in S : Cardinality({y \in S : y > x}) < n}
Backfill ==
    IF after = -1 THEN Largest(ReadableSeqs, Limit)
    ELSE Smallest({i \in ReadableSeqs : i > after}, Limit)

PollerInit == WorldInit /\ after = -1 /\ got = {}

\* One call; the ledger is brought up to the hour by it.
PollOnce ==
    /\ got' = got \cup Backfill
    /\ after' = HeadSeq
    /\ ledger' = Built(HourOf(Now))
    /\ UNCHANGED <<clock, imports>>

PollerWait ==
    /\ clock < MaxTime
    /\ clock' = clock + 1
    /\ UNCHANGED <<imports, ledger, pollerVars>>

PollerNext == PollOnce \/ PollerWait
PollerSpec == PollerInit /\ [][PollerNext]_<<worldVars, pollerVars>>

-----------------------------------------------------------------------------
\* A client that polls with after_seq=last_seq is given every readable
\* detection from the first it was given on: none it has passed is missing.
PollerMissesNothing ==
    after # -1 => \A i \in ReadableSeqs : (\E j \in got : j < i) /\ i <= after => i \in got
=============================================================================
