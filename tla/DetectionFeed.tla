---------------------------- MODULE DetectionFeed ----------------------------
(***************************************************************************)
(* The live detection feed of the capture API: capture_api/realtime/bus.py *)
(* (DetectionBus, Subscription) and realtime/sse.py (DetectionStream).     *)
(*                                                                         *)
(* The world releases detections numbered from 1.  The bus pulls them      *)
(* (refresh), keeps the last RingSize in a ring and pushes them to its     *)
(* subscribers' queues.  A stream subscribes, replays from the ring what   *)
(* its client missed, then follows its queue; at every yield and await     *)
(* something else may run.  Clients keep reconnecting with the number they *)
(* have reached.                                                           *)
(*                                                                         *)
(* The ring holds the last RingSize numbers up to the cursor at any time,  *)
(* so it is not a variable.  The token store appears as the set of live    *)
(* families and, in registered, those it holds the bus's callback for      *)
(* (TokenStore has the whole of it).  A reset hands the family ids out     *)
(* again, while streams of the logins before it are still under way.       *)
(***************************************************************************)
EXTENDS Integers, Sequences, FiniteSets, SequencesExt

CONSTANTS
    Streams,   \* clients, each with at most one connection at a time
    Families,  \* ids of token families, handed out one after another
    Wanted,    \* the detections each client's sensors let it read
    RingSize,  \* RING_SIZE
    QueueSize, \* QUEUE_SIZE
    MaxSeq     \* bound: detections ever released

ASSUME FeedAssumption ==
    /\ RingSize \in Nat \ {0} /\ QueueSize \in Nat \ {0} /\ MaxSeq \in Nat
    /\ Families \subseteq Nat
    /\ Wanted \in [Streams -> SUBSET (1 .. MaxSeq)]

VARIABLES
    released,   \* detections the world has released
    cursor,     \* DetectionBus._cursor
    primed,     \* _primed, and _active, which changes with it
    subs,       \* _subscriptions
    unsub,      \* the keys of _unsubscribe
    alive,      \* families neither revoked nor yet to come
    opened,     \* families opened since the last reset
    registered, \* families the token store holds _family_revoked for
    lapsed,     \* streams whose access token went in a reset
    haunted,    \* history: families whose id a stream of an earlier login had
                \* not given back when they were opened
    stream,     \* the DetectionStream and Subscription of each client
    seen,       \* client: the number it has reached
    got,        \* client: the detections it received
    lost        \* history: what overflowed a queue

busVars == <<cursor, primed, subs, unsub>>
tokenVars == <<alive, opened, registered, lapsed, haunted>>
clientVars == <<seen, got>>
detectionVars == <<released, busVars, tokenVars, stream, clientVars, lost>>

\* A connection: its place in events(), the family of its token, resume_from,
\* _last_seq, what _resume still has to yield, and the subscription's items
\* and closed.
Off == [pc |-> "off", family |-> 0, resume |-> 0, last |-> 0, head |-> 0,
        pending |-> <<>>, items |-> <<>>, closed |-> FALSE]

Fam(s) == stream[s].family
Subscribers(f) == {s \in subs : Fam(s) = f}

\* The streams of f from subscribe() to release(), closed or not.
Connected(f) == {s \in Streams : Fam(s) = f /\ stream[s].pc \notin {"off", "authorised"}}

\* The numbers of S in ascending order, and those beyond lo up to hi that the
\* client of s may read.
Ascending(S) ==
    [k \in 1 .. Cardinality(S) |-> CHOOSE n \in S : Cardinality({m \in S : m <= n}) = k]
WantedSeq(s, lo, hi) == Ascending({n \in Wanted[s] : lo < n /\ n <= hi})

-----------------------------------------------------------------------------
\* refresh(): what the bus pulls from the world is pushed to the queues of
\* the subscribers still open, which drop their oldest items when full.
Pushed(s) ==
    IF primed /\ s \in subs /\ ~ stream[s].closed
    THEN stream[s].items \o WantedSeq(s, cursor, released) ELSE stream[s].items
Overflow(s) == IF Len(Pushed(s)) > QueueSize THEN Len(Pushed(s)) - QueueSize ELSE 0
Items(s) == SubSeq(Pushed(s), Overflow(s) + 1, Len(Pushed(s)))

\* Its effect on the bus, on the history and on the streams, to be combined
\* with what the caller does to them.
RefreshBus ==
    /\ cursor' = released /\ primed' = TRUE
    /\ lost' = [s \in Streams |->
                  lost[s] \cup {n \in ToSet(SubSeq(Pushed(s), 1, Overflow(s))) : n > seen[s]}]
Refreshed == [s \in Streams |-> [stream[s] EXCEPT !.items = Items(s)]]

Oldest == IF released = 0 THEN 0 ELSE IF released > RingSize THEN released - RingSize + 1 ELSE 1

\* close_family() among the streams of dict.
Closed(dict, S) == [s \in Streams |-> IF s \in S THEN [dict[s] EXCEPT !.closed = TRUE] ELSE dict[s]]

\* Mutant of Leave: the callback goes with any stream of its family.
LeaveWithCallback(s) ==
    /\ subs' = subs \ {s}
    /\ unsub' = unsub \ {Fam(s)} /\ registered' = registered \ {Fam(s)}
    /\ stream' = [stream EXCEPT ![s] = Off] /\ lapsed' = lapsed \ {s}
    /\ UNCHANGED <<released, cursor, primed, alive, opened, haunted, clientVars, lost>>

\* release(): the stream leaves the bus, and the last one of its family
\* takes the callback along.
Leave(s) ==
    /\ subs' = subs \ {s}
    /\ IF Subscribers(Fam(s)) \subseteq {s}
       THEN unsub' = unsub \ {Fam(s)} /\ registered' = registered \ {Fam(s)}
       ELSE UNCHANGED <<unsub, registered>>
    /\ stream' = [stream EXCEPT ![s] = Off] /\ lapsed' = lapsed \ {s}
    /\ UNCHANGED <<released, cursor, primed, alive, opened, haunted, clientVars, lost>>

-----------------------------------------------------------------------------
DetectionInit ==
    /\ released = 0 /\ cursor = 0 /\ primed = FALSE
    /\ subs = {} /\ unsub = {} /\ alive = {} /\ opened = {} /\ registered = {} /\ lapsed = {} /\ haunted = {}
    /\ stream = [s \in Streams |-> Off]
    /\ seen = [s \in Streams |-> 0] /\ got = [s \in Streams |-> <<>>]
    /\ lost = [s \in Streams |-> {}]

\* The dependencies of the route run: the token is good.
Authorize(s, f) ==
    /\ stream[s].pc = "off" /\ f \in alive
    /\ stream' = [stream EXCEPT ![s] = [Off EXCEPT !.pc = "authorised", !.family = f,
                                                   !.resume = seen[s]]]
    /\ UNCHANGED <<released, busVars, tokenVars, clientVars, lost>>

\* events() up to its first yield: subscribe() adds the subscription, then
\* refreshes, then registers with the token store, which calls back at once
\* for a family that is no longer alive.  The client without a resume point
\* starts from the head announced by the comment.
Subscribe(s) ==
    /\ stream[s].pc = "authorised"
    /\ RefreshBus
    /\ LET f == Fam(s)
           calledBack == f \notin unsub /\ f \notin alive
           entered == [Refreshed EXCEPT ![s].pc = "open", ![s].head = released]
       IN  /\ subs' = IF calledBack THEN subs \ Subscribers(f) ELSE subs \cup {s}
           /\ stream' = IF calledBack THEN Closed(entered, Subscribers(f) \cup {s}) ELSE entered
           /\ unsub' = unsub \cup {f}
           /\ registered' = IF f \notin unsub /\ f \in alive THEN registered \cup {f} ELSE registered
           /\ seen' = IF stream[s].resume = 0 THEN [seen EXCEPT ![s] = released] ELSE seen
    /\ UNCHANGED <<released, alive, opened, lapsed, haunted, got>>

\* _resume(): nothing, a reset event, or the part of the ring to replay.
Resume(s) ==
    /\ stream[s].pc = "open"
    /\ IF stream[s].resume = 0
       THEN /\ stream' = [stream EXCEPT ![s].pc = "live", ![s].last = stream[s].head]
            /\ UNCHANGED <<cursor, primed, seen, lost>>
       ELSE /\ RefreshBus
            /\ IF Oldest # 0 /\ stream[s].resume < Oldest - 1
               THEN /\ stream' = [Refreshed EXCEPT ![s].pc = "live", ![s].last = stream[s].head]
                    /\ seen' = [seen EXCEPT ![s] = stream[s].head]
               ELSE LET missed == WantedSeq(s, stream[s].resume, released)
                    IN  /\ stream' = [Refreshed EXCEPT
                              ![s].pc = "replay", ![s].pending = missed,
                              ![s].last = IF missed = <<>> THEN stream[s].resume ELSE Last(missed)]
                        /\ UNCHANGED seen
    /\ UNCHANGED <<released, subs, unsub, tokenVars, got>>

\* An event reaches the client of s.
Receive(s, n) == /\ seen' = [seen EXCEPT ![s] = n]
                 /\ got' = [got EXCEPT ![s] = Append(@, n)]

\* events() yields what _resume returned, one event after another.
Replay(s) ==
    /\ stream[s].pc = "replay"
    /\ IF stream[s].pending = <<>>
       THEN stream' = [stream EXCEPT ![s].pc = "live"] /\ UNCHANGED clientVars
       ELSE /\ Receive(s, Head(stream[s].pending))
            /\ stream' = [stream EXCEPT ![s].pending = Tail(@)]
    /\ UNCHANGED <<released, busVars, tokenVars, lost>>

\* Mutant of Check: only deadlines end the loop.
CheckOnlyDeadlines(s) ==
    /\ stream[s].pc = "live"
    /\ stream' = [stream EXCEPT ![s].pc = "waiting"]
    /\ UNCHANGED <<released, busVars, tokenVars, clientVars, lost>>

\* The top of the loop of _live(): the subscription was closed, the token is
\* gone, or the stream goes on to wait for its queue.
Check(s) ==
    /\ stream[s].pc = "live"
    /\ IF stream[s].closed \/ s \in lapsed THEN Leave(s)
       ELSE /\ stream' = [stream EXCEPT ![s].pc = "waiting"]
            /\ UNCHANGED <<released, busVars, tokenVars, clientVars, lost>>

\* Mutant of Take: every item is yielded, replayed or not.
TakeEverything(s) ==
    /\ stream[s].pc = "waiting"
    /\ IF stream[s].items = <<>>
       THEN stream' = [stream EXCEPT ![s].pc = "live"] /\ UNCHANGED clientVars
       ELSE /\ stream' = [stream EXCEPT ![s].pc = "live", ![s].items = Tail(@),
                                        ![s].last = Head(stream[s].items)]
            /\ Receive(s, Head(stream[s].items))
    /\ UNCHANGED <<released, busVars, tokenVars, lost>>

\* Subscription.next() answers or times out; what the client has is skipped.
Take(s) ==
    /\ stream[s].pc = "waiting"
    /\ IF stream[s].items = <<>>
       THEN stream' = [stream EXCEPT ![s].pc = "live"] /\ UNCHANGED clientVars
       ELSE LET n == Head(stream[s].items)
                fresh == n > stream[s].last
            IN  /\ stream' = [stream EXCEPT
                                 ![s].pc = "live", ![s].items = Tail(@),
                                 ![s].last = IF fresh THEN n ELSE @]
                /\ IF fresh THEN Receive(s, n) ELSE UNCHANGED clientVars
    /\ UNCHANGED <<released, busVars, tokenVars, lost>>

\* The stream ends by itself (rotation, expired token) or its client leaves;
\* a generator that was never started has nothing to release.
End(s) == stream[s].pc \notin {"off", "authorised"} /\ Leave(s)
GiveUp(s) ==
    /\ stream[s].pc = "authorised"
    /\ stream' = [stream EXCEPT ![s] = Off] /\ lapsed' = lapsed \ {s}
    /\ UNCHANGED <<released, busVars, alive, opened, registered, haunted, clientVars, lost>>

\* Time: the world releases a detection.
Release == /\ released < MaxSeq /\ released' = released + 1
           /\ UNCHANGED <<busVars, tokenVars, stream, clientVars, lost>>

\* The pump, when active, and GET /detections, which activates it.
Pump ==
    /\ RefreshBus /\ stream' = Refreshed
    /\ UNCHANGED <<released, subs, unsub, tokenVars, clientVars>>

\* _next_family_id(): the counter names the family, and a reset sets it back.
Login(f) ==
    /\ f \notin opened /\ \A g \in Families : g < f => g \in opened
    /\ alive' = alive \cup {f} /\ opened' = opened \cup {f}
    /\ haunted' = IF Connected(f) = {} THEN haunted ELSE haunted \cup {f}
    /\ UNCHANGED <<released, busVars, registered, lapsed, stream, clientVars, lost>>

\* revoke_family(): the callback, if any, is taken out and run.
Revoke(f) ==
    /\ f \in alive /\ alive' = alive \ {f}
    /\ IF f \in registered
       THEN /\ stream' = Closed(stream, Subscribers(f))
            /\ subs' = subs \ Subscribers(f)
            /\ unsub' = unsub \ {f} /\ registered' = registered \ {f}
       ELSE UNCHANGED <<stream, subs, unsub, registered>>
    /\ UNCHANGED <<released, cursor, primed, opened, lapsed, haunted, clientVars, lost>>

\* Mutant of Reset: the callbacks are dropped without unsubscribing them.
ResetStaysRegistered ==
    /\ stream' = Closed(stream, subs)
    /\ subs' = {} /\ unsub' = {} /\ alive' = {} /\ opened' = {} /\ haunted' = {}
    /\ lapsed' = {s \in Streams : stream[s].pc # "off"}
    /\ cursor' = 0 /\ primed' = FALSE
    /\ UNCHANGED <<released, registered, clientVars, lost>>

\* The admin reset: the bus, then the token store.  A stream that is only
\* authorised is in neither, and comes to the bus all the same.
Reset ==
    /\ stream' = Closed(stream, subs)
    /\ subs' = {} /\ unsub' = {} /\ registered' = {}
    /\ alive' = {} /\ opened' = {} /\ haunted' = {}
    /\ lapsed' = {s \in Streams : stream[s].pc # "off"}
    /\ cursor' = 0 /\ primed' = FALSE
    /\ UNCHANGED <<released, clientVars, lost>>

Serve(s) == Subscribe(s) \/ Resume(s) \/ Replay(s) \/ Check(s) \/ Take(s)

DetectionNext ==
    \/ \E s \in Streams : Serve(s) \/ End(s) \/ GiveUp(s) \/ \E f \in Families : Authorize(s, f)
    \/ \E f \in Families : Login(f) \/ Revoke(f)
    \/ Release \/ Pump \/ Reset

\* The loop runs the streams and their clients read.
DetectionSpec ==
    /\ DetectionInit /\ [][DetectionNext]_detectionVars
    /\ \A s \in Streams : WF_detectionVars(Serve(s))

-----------------------------------------------------------------------------
DetectionTypeOK ==
    /\ released \in 0 .. MaxSeq /\ cursor \in 0 .. released /\ primed \in BOOLEAN
    /\ subs \subseteq Streams /\ unsub \subseteq Families
    /\ alive \subseteq opened /\ opened \subseteq Families /\ haunted \subseteq opened
    /\ registered \subseteq unsub \cap alive
    /\ \A s \in Streams :
          /\ stream[s].pc \in {"off", "authorised", "open", "replay", "live", "waiting"}
          /\ stream[s].pc # "off" => Fam(s) \in IF s \in lapsed THEN Families ELSE opened
          /\ Len(stream[s].items) <= QueueSize
          /\ s \in subs => stream[s].pc \notin {"off", "authorised"} /\ ~ stream[s].closed
          /\ seen[s] \in 0 .. released /\ lost[s] \subseteq 1 .. released

\* The feed keeps what OrderedFeed promises: whatever is interleaved with the
\* replay, with reconnections and with resets, a client gets what it wants
\* once, in order and without gaps.
Feed == INSTANCE OrderedFeed WITH Readers <- Streams
FeedKept == Feed!FeedSpec

\* A family that is revoked takes along its subscribed streams: they are
\* closed in that very step, whoever subscribed or left before, also if its id
\* was in use before a reset.  Not so if a stream of the login before the reset
\* was still connected when the id was handed out again: the entry that it
\* left in _unsubscribe then passes for that of the new login.
ClosedBy(f, S) == \A s \in S : Fam(s) = f => stream'[s].closed /\ s \notin subs'
RevocationCloses ==
    [][\A f \in alive \ (alive' \cup haunted') : ClosedBy(f, subs)]_detectionVars

\* "The stream ends ... silently when the token family is revoked": every
\* stream of that family does that was subscribed while it was alive, whatever
\* id the family has.
RevocationSparesNone == [][\A f \in alive \ alive' : ClosedBy(f, subs \ lapsed)]_detectionVars

\* A closed subscription's stream ends and its client is free to come back.
ClosedStreamsEnd == \A s \in Streams : stream[s].closed ~> ~ stream[s].closed

\* "The stream ends ... silently when the token family is revoked": none is
\* left following the feed with the token of a family that is not alive.
NoStreamOutlives == \A s \in subs \ lapsed : Fam(s) \in alive
=============================================================================
