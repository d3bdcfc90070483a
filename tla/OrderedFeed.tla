----------------------------- MODULE OrderedFeed -----------------------------
(***************************************************************************)
(* What the detection feed promises a reader, whatever connections come    *)
(* and go (the description of GET /stream/detections and the class         *)
(* DetectionStream): from the point where it began, a reader gets every    *)
(* detection it may read, once, in the order of their numbers.  The two    *)
(* exceptions are announced or bounded: a reset event starts the reader    *)
(* again from a later point, and a subscriber that stops reading loses     *)
(* what overflowed its backlog.                                            *)
(***************************************************************************)
EXTENDS Integers, Sequences

CONSTANTS Readers, Wanted, MaxSeq

VARIABLES
    seen, \* the number each reader has reached
    got,  \* the detections each reader received
    lost  \* those that overflowed its backlog

feedVars == <<seen, got, lost>>

FeedInit ==
    /\ seen = [r \in Readers |-> 0]
    /\ got = [r \in Readers |-> <<>>]
    /\ lost = [r \in Readers |-> {}]

\* The reader gets n: it wants it and misses nothing it could have had.
Deliver(r, n) ==
    /\ n > seen[r] /\ n \in Wanted[r]
    /\ \A m \in seen[r] + 1 .. n - 1 : m \in Wanted[r] => m \in lost[r]
    /\ seen'[r] = n /\ got'[r] = Append(got[r], n)

\* The reader begins, or is told to begin again, after n.
Rebase(r, n) == n > seen[r] /\ seen'[r] = n /\ got'[r] = got[r]

Stay(r) == seen'[r] = seen[r] /\ got'[r] = got[r]

\* Overflow takes detections the reader has not reached.
Lose(r) ==
    /\ lost[r] \subseteq lost'[r]
    /\ \A n \in lost'[r] \ lost[r] : n \in Wanted[r] /\ n > seen[r]

\* A release may fill the backlog of several readers at once.
FeedNext ==
    /\ seen' \in [Readers -> 0 .. MaxSeq]
    /\ got' \in [Readers -> Seq(1 .. MaxSeq)]
    /\ lost' \in [Readers -> SUBSET (1 .. MaxSeq)]
    /\ \A r \in Readers :
          /\ Lose(r)
          /\ Stay(r) \/ \E n \in 1 .. MaxSeq : Deliver(r, n) \/ Rebase(r, n)

FeedSpec == FeedInit /\ [][FeedNext]_feedVars

-----------------------------------------------------------------------------
\* No detection reaches a reader twice or after a later one, over all its
\* connections.
InOrderOnce ==
    \A r \in Readers : \A i, j \in DOMAIN got[r] : i < j => got[r][i] < got[r][j]
=============================================================================
