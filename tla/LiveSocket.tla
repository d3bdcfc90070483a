------------------------------ MODULE LiveSocket ------------------------------
(***************************************************************************)
(* The live tap: realtime/ws.py (LiveService, LiveSocket, serve) and       *)
(* api/live.py.  A ticket, bought with a good token, opens one socket; the *)
(* socket runs three tasks over one queue: the producer ticks, the sender  *)
(* takes frames out, the receiver handles the client's frames.  Between    *)
(* two awaits each of them is one step.  The rows come from World, the     *)
(* live families stand for the token store (TokenStore has all of it), and *)
(* one search, with its progress, for the search service.                  *)
(***************************************************************************)
EXTENDS World

CONSTANTS
    Clients,    \* each with at most one socket at a time
    Families,   \* token families, opened one after another
    MaxTickets, \* bound: tickets ever issued
    Asked,      \* the sensor sets a ticket or a subscription may name
    Filters,    \* the row ids a subscription's filter may match, per filter
    Channels,   \* the channel sets a subscription may ask for
    TicketTtl, Heartbeat, PongDeadline, StatsInterval, SendQueueLimit,
    Burst,      \* chaos.live_burst: synthetic copies of each row
    RestartAfter, \* chaos.ws_restart_s, 0 for none
    MaxProgress, \* bound: how often the watched search advances
    MaxFrames,  \* bound: frames a client sends on one socket
    IdLimit     \* 1 << 63: above every row id

ASSUME LiveAssumption ==
    /\ Families \subseteq Nat \ {0}
    /\ Asked \subseteq SUBSET Sensors
    /\ {TicketTtl, Heartbeat, PongDeadline, StatsInterval, SendQueueLimit} \subseteq Nat \ {0}
    /\ {MaxTickets, Burst, RestartAfter, MaxFrames} \subseteq Nat /\ MaxProgress \in Nat \ {0}

\* Rows have whole times and ids of their own.
ASSUME RowsAssumption ==
    /\ IsFiniteSet(Rows) /\ IdLimit \in Nat
    /\ \A r \in Rows : r.start \in Nat /\ r.id \in Nat /\ r.id < IdLimit
    /\ \A r, q \in Rows : r.id = q.id => r = q

VARIABLES
    alive,   \* families neither revoked nor yet to come
    opened,  \* families opened so far
    tickets, \* _tickets: ticket -> [family, sensors, expires, used]
    issued,  \* tickets issued so far
    sock,    \* client -> its LiveSocket
    client,  \* client -> what its side of the socket has seen
    progress \* the watched search: its progress, 0 when it is gone

liveVars == <<alive, opened, tickets, issued, sock, client, progress>>
allLiveVars == <<worldVars, liveVars>>

NoSub == [gen |-> 0, sensors |-> {}, channels |-> {}, matches |-> {}, cursor |-> <<>>]
Off == [pc |-> "off", family |-> 0, ticket |-> 0, sensors |-> {}, queue |-> <<>>, out |-> <<>>,
        sub |-> NoSub, paused |-> FALSE, gen |-> 0, seq |-> 0, sent |-> 0, dropped |-> 0,
        watched |-> 0, close |-> 0, gone |-> FALSE, ping |-> 0, nonce |-> 0,
        pongBy |-> 0, opened |-> 0, nextPing |-> 0, nextStats |-> 0, ticked |-> FALSE]
\* What the client has: session frames, losses told, the last progress and
\* ping, the frames it sent; and, for the properties, when it was last heard,
\* where its subscription began, the rows and the matches it was due.
Fresh == [got |-> 0, told |-> 0, progress |-> 0, ping |-> 0, frames |-> 0,
          heard |-> 0, begin |-> <<>>, shown |-> {}, due |-> 0]

Registered(c) == sock[c].pc \in {"open", "stopping"}

-----------------------------------------------------------------------------
\* Frames, as far as anything depends on what is in them.
Frame(type) == [type |-> type, n |-> 0]
FrameOf(type, n) == [type |-> type, n |-> n]

\* _send() of a frame that is not droppable: it is queued however full the
\* queue is.  (Those of sessions are droppable: see SessionFrames.)
Send(k, frame) == [k EXCEPT !.queue = Append(@, frame), !.sent = @ + 1]

\* request_close(): the first code wins.
Close(k, code) == IF k.close = 0 THEN [k EXCEPT !.close = code] ELSE k

-----------------------------------------------------------------------------
\* _tick_sessions(): every sensor's rows past its cursor.  They are taken
\* oldest first; the frames of one round differ in nothing modelled here.
KeyOf(r) == <<r.start, r.id>>
KeyLess(a, b) == a[1] < b[1] \/ (a[1] = b[1] /\ a[2] < b[2])
Unseen(k, s) ==
    {r \in RowsIn(s, k.sub.cursor[s][1], Now + 1) : KeyLess(k.sub.cursor[s], KeyOf(r))}
Matching(k) ==
    IF k.sub = NoSub \/ k.paused THEN {}
    ELSE {r \in UNION {Unseen(k, s) : s \in k.sub.sensors} : r.id \in k.sub.matches}

\* _release() and _session_frame(): every matching row, and its copies, is
\* numbered; there is room for some of the frames, the others are dropped.
ToRelease(k) ==
    IF "sessions" \in k.sub.channels THEN (Burst + 1) * Cardinality(Matching(k)) ELSE 0
Room(k) == IF Len(k.queue) < SendQueueLimit THEN SendQueueLimit - Len(k.queue) ELSE 0
SessionFrames(k, n, taken) ==
    [k EXCEPT !.seq = @ + n, !.sent = @ + taken, !.dropped = @ + n - taken,
              !.queue = @ \o [i \in 1 .. taken |-> Frame("session")]]
Released(k, n) == SessionFrames(k, n, IF n < Room(k) THEN n ELSE Room(k))

Newest(k, s) ==
    IF Unseen(k, s) = {} THEN k.sub.cursor[s]
    ELSE KeyOf(CHOOSE r \in Unseen(k, s) :
                 \A q \in Unseen(k, s) : ~ KeyLess(KeyOf(r), KeyOf(q)))
TickSessions(k) ==
    IF k.sub = NoSub \/ k.paused THEN k
    ELSE [Released(k, ToRelease(k))
            EXCEPT !.sub.cursor = [s \in k.sub.sensors |-> Newest(k, s)]]

\* _tick_periodic(): statistics, the loss report, the watched search.
Stats(k) ==
    IF "stats" \notin k.sub.channels THEN k
    ELSE Send(k, Frame("stats"))
Lagging(k) ==
    IF k.dropped = 0 THEN k
    ELSE [Send(k, FrameOf("lagging", k.dropped)) EXCEPT !.dropped = 0, !.sent = 0]
\* Mutant of Watched: the progress frame may be dropped.
WatchedDroppable(k) ==
    IF k.watched = 0 \/ progress \in {0, k.watched} THEN k
    ELSE IF Len(k.queue) < SendQueueLimit
    THEN Send([k EXCEPT !.watched = progress], FrameOf("progress", progress))
    ELSE [k EXCEPT !.watched = progress, !.dropped = @ + 1]

Watched(k) ==
    IF k.watched = 0 \/ progress \in {0, k.watched} THEN k
    ELSE Send([k EXCEPT !.watched = progress], FrameOf("progress", progress))
TickPeriodic(k) ==
    IF clock < k.nextStats THEN k
    ELSE Watched(Lagging(Stats([k EXCEPT !.nextStats = clock + StatsInterval])))

\* _tick_ping(): one ping at a time, and a deadline for its pong.
Pinged(k) ==
    [k EXCEPT !.nonce = @ + 1, !.ping = k.nonce + 1, !.nextPing = clock + Heartbeat,
              !.pongBy = clock + PongDeadline]
TickPing(k) ==
    IF k.ping # 0 /\ clock >= k.pongBy THEN Close(k, 4408)
    ELSE IF clock < k.nextPing \/ k.ping # 0 THEN k
    ELSE Send(Pinged(k), FrameOf("ping", Pinged(k).ping))

\* _tick_restart(): the storm profile restarts old sockets.
TickRestart(k) ==
    IF RestartAfter # 0 /\ clock - k.opened >= RestartAfter THEN Close(k, 1013) ELSE k

Ticked(k) ==
    [TickRestart(TickPing(TickPeriodic(TickSessions(k)))) EXCEPT !.ticked = TRUE]

-----------------------------------------------------------------------------
LiveInit ==
    /\ WorldInit
    /\ alive = {} /\ opened = {}
    /\ tickets = [t \in {} |-> 0] /\ issued = 0
    /\ sock = [c \in Clients |-> Off]
    /\ client = [c \in Clients |-> Fresh]
    /\ progress = 1

\* issue(), behind the dependencies of POST /live/tickets: the sweep first.
Swept == {t \in DOMAIN tickets : ~ tickets[t].used /\ clock < tickets[t].expires}
Issue(f, S) ==
    /\ f \in alive /\ issued < MaxTickets
    /\ issued' = issued + 1
    /\ tickets' = [t \in Swept \cup {issued + 1} |->
                     IF t = issued + 1
                     THEN [family |-> f, sensors |-> S, expires |-> clock + TicketTtl, used |-> FALSE]
                     ELSE tickets[t]]
    /\ UNCHANGED <<worldVars, alive, opened, sock, client, progress>>

\* redeem(): why a ticket is refused, in the order of the code.
Refusal(t) ==
    CASE t \notin DOMAIN tickets -> "ticket_invalid"
      [] tickets[t].used -> "ticket_reuse"
      [] clock >= tickets[t].expires -> "ticket_expired"
      [] tickets[t].family \notin alive -> "session_revoked"
      [] OTHER -> "ok"

\* Mutant of Redeem: the ticket is marked once the socket runs.
RedeemUnmarked(c, t) ==
    /\ sock[c].pc = "off" /\ Refusal(t) = "ok"
    /\ sock' = [sock EXCEPT ![c] = [Off EXCEPT !.pc = "accepting", !.ticket = t,
                                    !.family = tickets[t].family, !.sensors = tickets[t].sensors]]
    /\ UNCHANGED <<worldVars, alive, opened, tickets, issued, client, progress>>

\* serve() up to its first await: a refused handshake is accepted and closed
\* at once (_refuse) and leaves nothing behind.
Redeem(c, t) ==
    /\ sock[c].pc = "off" /\ Refusal(t) = "ok"
    /\ tickets' = [tickets EXCEPT ![t].used = TRUE]
    /\ sock' = [sock EXCEPT ![c] = [Off EXCEPT !.pc = "accepting", !.ticket = t,
                                    !.family = tickets[t].family, !.sensors = tickets[t].sensors]]
    /\ UNCHANGED <<worldVars, alive, opened, issued, client, progress>>

\* Mutant of OnFamilyRevoked: only revocations still to come are told.
OnFamilyRevokedLater(f, k) == k

\* TokenStore.on_family_revoked calls back at once for a dead family.
OnFamilyRevoked(f, k) == IF f \in alive THEN k ELSE Close(k, 1000)

\* The handshake is accepted: LiveSocket.__init__ and run() to its loop.
Accept(c) ==
    /\ sock[c].pc = "accepting"
    /\ sock' = [sock EXCEPT ![c] =
                  Send(OnFamilyRevoked(sock[c].family,
                         [sock[c] EXCEPT !.pc = "open", !.opened = clock,
                            !.nextPing = clock + Heartbeat, !.nextStats = clock + StatsInterval]),
                       Frame("hello"))]
    /\ client' = [client EXCEPT ![c] = [Fresh EXCEPT !.heard = clock]]
    /\ UNCHANGED <<worldVars, alive, opened, tickets, issued, progress>>

Running(c) == sock[c].pc = "open"

\* One round of _produce_loop, with what the properties remember of it.
Tick(c) ==
    /\ Running(c) /\ sock[c].close = 0 /\ ~ sock[c].gone
    /\ sock[c] # Ticked(sock[c])
    /\ sock' = [sock EXCEPT ![c] = Ticked(sock[c])]
    /\ client' = [client EXCEPT ![c].shown = @ \cup {r.id : r \in Matching(sock[c])},
                               ![c].due = @ + Cardinality(Matching(sock[c]))]
    /\ UNCHANGED <<worldVars, alive, opened, tickets, issued, progress>>

\* _send_loop: a frame leaves the queue, then the client reads it or is gone.
Pop(c) ==
    /\ Running(c) /\ sock[c].out = <<>> /\ sock[c].queue # <<>> /\ ~ sock[c].gone
    /\ sock' = [sock EXCEPT ![c].out = <<Head(sock[c].queue)>>, ![c].queue = Tail(@)]
    /\ UNCHANGED <<worldVars, alive, opened, tickets, issued, client, progress>>

Receive(k, frame) ==
    CASE frame.type = "session" -> [k EXCEPT !.got = @ + 1]
      [] frame.type = "lagging" -> [k EXCEPT !.told = @ + frame.n]
      [] frame.type = "progress" -> [k EXCEPT !.progress = frame.n]
      [] frame.type = "ping" -> [k EXCEPT !.ping = frame.n]
      [] OTHER -> k
Deliver(c) ==
    /\ Running(c) /\ sock[c].out # <<>>
    /\ sock' = [sock EXCEPT ![c].out = <<>>]
    /\ client' = [client EXCEPT ![c] = Receive(client[c], sock[c].out[1])]
    /\ UNCHANGED <<worldVars, alive, opened, tickets, issued, progress>>

\* The connection is lost, as either task may notice; the producer's loop
\* will, and nothing queued is sent any more.
Disconnect(c) ==
    /\ Running(c) /\ ~ sock[c].gone
    /\ sock' = [sock EXCEPT ![c].gone = TRUE, ![c].queue = <<>>, ![c].out = <<>>]
    /\ UNCHANGED <<worldVars, alive, opened, tickets, issued, client, progress>>

-----------------------------------------------------------------------------
\* _receive_loop and _handle: a frame of the client, read and handled.
Handled(c, k, mine) ==
    /\ Running(c) /\ ~ sock[c].gone /\ client[c].frames < MaxFrames
    /\ sock' = [sock EXCEPT ![c] = [k EXCEPT !.ticked = FALSE]]
    /\ client' = [client EXCEPT ![c] = [mine EXCEPT !.frames = @ + 1]]
    /\ UNCHANGED <<worldVars, alive, opened, tickets, issued, progress>>

\* Mutant of StartCursor: from the capture clock.
StartCursorNow(s) == <<Now, IdLimit>>

\* _start_cursor(): past everything visible, even at this very instant.
StartCursor(s) == <<VisibleUntil(s), IdLimit>>

\* Mutant of Subscribed: a new subscription starts a new account.
SubscribedAnew(k, S, chans, matches) ==
    Send([k EXCEPT !.gen = @ + 1, !.paused = FALSE, !.dropped = 0, !.sent = 0,
                   !.sub = [gen |-> k.gen + 1, sensors |-> S, channels |-> chans,
                            matches |-> matches, cursor |-> [s \in S |-> StartCursor(s)]]],
         Frame("ack"))

\* A new Subscription: its cursors past what is visible, an ack first.
Subscribed(k, S, chans, matches) ==
    Send([k EXCEPT !.gen = @ + 1, !.paused = FALSE,
                   !.sub = [gen |-> k.gen + 1, sensors |-> S, channels |-> chans,
                            matches |-> matches, cursor |-> [s \in S |-> StartCursor(s)]]],
         Frame("ack"))

\* Mutant of Subscribe: any sensor will do.
SubscribeUnchecked(c, S, chans, matches) ==
    Handled(c, Subscribed(sock[c], S, chans, matches),
            [client[c] EXCEPT !.begin = [s \in S |-> VisibleUntil(s)], !.shown = {}, !.due = 0])

\* _on_subscribe(): a sensor beyond the ticket closes the socket.  (The role's
\* own check, can_read_sensor, was passed when the ticket was issued.)
Subscribe(c, S, chans, matches) ==
    IF S \subseteq sock[c].sensors
    THEN Handled(c, Subscribed(sock[c], S, chans, matches),
                 [client[c] EXCEPT !.begin = [s \in S |-> VisibleUntil(s)], !.shown = {},
                                   !.due = 0])
    ELSE Handled(c, Close(sock[c], 4403), client[c])

\* A malformed frame, a bad filter or a wrong nonce gets an error frame.
Complain(c) == Handled(c, Send(sock[c], Frame("error")), client[c])

Pause(c) == Handled(c, [sock[c] EXCEPT !.paused = TRUE], client[c])
Resume(c) == Handled(c, [sock[c] EXCEPT !.paused = FALSE], client[c])

\* Mutant of Pong: any pong will do.
PongAny(c, nonce) ==
    IF nonce = client[c].ping
    THEN Handled(c, [sock[c] EXCEPT !.ping = 0, !.pongBy = 0], [client[c] EXCEPT !.heard = clock])
    ELSE Handled(c, [sock[c] EXCEPT !.ping = 0, !.pongBy = 0], client[c])

\* _on_pong(): the nonce of the outstanding ping, or an error.
Pong(c, nonce) ==
    IF sock[c].ping # 0 /\ nonce = sock[c].ping
    THEN Handled(c, [sock[c] EXCEPT !.ping = 0, !.pongBy = 0], [client[c] EXCEPT !.heard = clock])
    ELSE Complain(c)

\* _on_watch(): the client learns the progress at once.
Watch(c) ==
    IF progress = 0 THEN Complain(c)
    ELSE Handled(c, Send([sock[c] EXCEPT !.watched = progress], FrameOf("progress", progress)),
                 client[c])
Unwatch(c) == Handled(c, [sock[c] EXCEPT !.watched = 0], client[c])

\* The frames a client may send: a pong repeats a nonce it was sent, or one it
\* was not.
ClientFrame(c) ==
    \/ \E S \in Asked, chans \in Channels, matches \in Filters : Subscribe(c, S, chans, matches)
    \/ Complain(c) \/ Pause(c) \/ Resume(c) \/ Watch(c) \/ Unwatch(c)
    \/ \E nonce \in 0 .. client[c].ping : Pong(c, nonce)

-----------------------------------------------------------------------------
\* The loop ends: the tasks are cancelled, what is queued is lost.
Stop(c) ==
    /\ Running(c) /\ (sock[c].close # 0 \/ sock[c].gone)
    /\ sock' = [sock EXCEPT ![c].pc = "stopping", ![c].queue = <<>>, ![c].out = <<>>]
    /\ UNCHANGED <<worldVars, alive, opened, tickets, issued, client, progress>>

\* _shutdown(): out of the token store and of the service, then closed.
Shutdown(c) ==
    /\ sock[c].pc = "stopping"
    /\ sock' = [sock EXCEPT ![c] = Off]
    /\ client' = [client EXCEPT ![c] = Fresh]
    /\ UNCHANGED <<worldVars, alive, opened, tickets, issued, progress>>

-----------------------------------------------------------------------------
\* A login opens a family; family ids repeat after a reset.
Login(f) ==
    /\ f \notin opened /\ \A g \in Families : g < f => g \in opened
    /\ alive' = alive \cup {f} /\ opened' = opened \cup {f}
    /\ UNCHANGED <<worldVars, tickets, issued, sock, client, progress>>

\* revoke_family(): the registered sockets of the family are told at once.
Revoke(f) ==
    /\ f \in alive /\ alive' = alive \ {f}
    /\ sock' = [c \in Clients |->
                  IF Registered(c) /\ sock[c].family = f THEN Close(sock[c], 1000) ELSE sock[c]]
    /\ UNCHANGED <<worldVars, opened, tickets, issued, client, progress>>

\* Mutant of ResetLive: the tickets outlive the sockets.
ResetKeepsTickets ==
    /\ opened # {}
    /\ sock' = [c \in Clients |-> IF Registered(c) THEN Close(sock[c], 1013) ELSE sock[c]]
    /\ alive' = {} /\ opened' = {}
    /\ UNCHANGED <<worldVars, tickets, issued, client, progress>>

\* The admin reset: LiveService.reset, then TokenStore.reset.
ResetLive ==
    /\ opened # {}
    /\ tickets' = [t \in {} |-> 0]
    /\ sock' = [c \in Clients |-> IF Registered(c) THEN Close(sock[c], 1013) ELSE sock[c]]
    /\ alive' = {} /\ opened' = {}
    /\ UNCHANGED <<worldVars, issued, client, progress>>

\* The search service, seen through peek(): the watched search advances or is
\* discarded.
SearchMoves ==
    /\ progress # 0 /\ progress' \in {0} \cup {p \in {progress + 1} : p <= MaxProgress}
    /\ UNCHANGED <<worldVars, alive, opened, tickets, issued, sock, client>>

\* Time passes once every producer had its round: its sleep is a twentieth of
\* the unit, and nothing blocks the event loop for long.
Advance ==
    /\ clock < MaxTime /\ \A c \in Clients : Running(c) => sock[c].ticked /\ sock[c].close = 0
    /\ clock' = clock + 1
    /\ sock' = [c \in Clients |-> [sock[c] EXCEPT !.ticked = FALSE]]
    /\ UNCHANGED <<imports, ledger, alive, opened, tickets, issued, client, progress>>

LiveNext ==
    \/ \E f \in Families : Login(f) \/ Revoke(f) \/ \E S \in Asked : Issue(f, S)
    \/ \E c \in Clients :
         \/ \E t \in DOMAIN tickets : Redeem(c, t)
         \/ Accept(c) \/ Tick(c) \/ Pop(c) \/ Deliver(c) \/ Disconnect(c)
         \/ ClientFrame(c) \/ Stop(c) \/ Shutdown(c)
    \/ ResetLive \/ SearchMoves \/ Advance

LiveSpec == LiveInit /\ [][LiveNext]_allLiveVars
-----------------------------------------------------------------------------
\* The values the variables of the live tap may take.
SockOK(k) ==
    /\ k.pc \in {"off", "accepting", "open", "stopping"}
    /\ k.pc # "off" => k.family \in Families /\ k.ticket \in 1 .. issued
    /\ k.close \in {0, 1000, 1013, 4403, 4408}
    /\ k.sub.sensors \subseteq k.sensors /\ k.sub.gen <= k.gen
    /\ Len(k.out) <= 1 /\ k.ping \in {0, k.nonce}
LiveTypeOK ==
    /\ alive \subseteq opened /\ opened \subseteq Families
    /\ DOMAIN tickets \subseteq 1 .. issued
    /\ \A t \in DOMAIN tickets : tickets[t].family \in Families /\ tickets[t].used \in BOOLEAN
    /\ progress \in 0 .. MaxProgress
    /\ \A c \in Clients : SockOK(sock[c])

\* No two sockets have the same ticket, and that of a socket being opened or
\* open would be refused, also when a later ticket has swept it out of the store.
NoSharedTicket ==
    \A c \in Clients : sock[c].pc # "off" =>
        /\ Refusal(sock[c].ticket) # "ok"
        /\ \A d \in Clients \ {c} : sock[d].ticket # sock[c].ticket

\* A ticket that was refused once is refused for ever, though the reason may
\* change: expired or used ones are swept and become unknown, and a reset
\* forgets those of revoked families before it hands the family ids out again.
RefusedForGood ==
    [][\A t \in 1 .. issued : Refusal(t) # "ok" => Refusal(t)' # "ok"]_allLiveVars

\* A ticket survives exactly one handshake (POST /live/tickets), at whatever
\* moment it is presented: no two sockets share one, none works after it was
\* refused, and that of a socket would be refused now.
OneSocketPerTicket == []NoSharedTicket /\ RefusedForGood

\* Revoking the family closes every socket it opened (POST /live/tickets),
\* also when it is revoked while the handshake is being accepted.
DeadFamiliesClose ==
    \A c \in Clients : Registered(c) /\ sock[c].family \notin alive =>
        sock[c].close # 0 \/ sock[c].gone

\* After a round that is not paused, the rows released since the subscription
\* are those that became visible since then, each of them once: nothing is
\* lost to a lagging sensor, to a pause or to equal timestamps.
EveryRowOnce ==
    \A c \in Clients :
        LET k == sock[c] IN
        Running(c) /\ k.ticked /\ k.sub # NoSub /\ ~ k.paused =>
            /\ client[c].shown = {r.id : r \in {q \in Rows :
                                    /\ q.sensor \in k.sub.sensors /\ q.id \in k.sub.matches
                                    /\ client[c].begin[q.sensor] < q.start
                                    /\ q.start <= VisibleUntil(q.sensor)}}
            /\ client[c].due = Cardinality(client[c].shown)

\* What a sequence of frames is worth in numbers of _session_frame: one for a
\* row, the loss it reports for a loss report.
Worth(frame) ==
    CASE frame.type = "session" -> 1 [] frame.type = "lagging" -> frame.n [] OTHER -> 0
WorthOf(frames) ==
    LET upTo[i \in 0 .. Len(frames)] == IF i = 0 THEN 0 ELSE upTo[i - 1] + Worth(frames[i])
    IN upTo[Len(frames)]

\* Every number _session_frame gave out is received, on its way, or reported
\* lost, now or by the next lagging frame.
AccountsBalance ==
    \A c \in Clients : Running(c) /\ ~ sock[c].gone =>
        sock[c].seq = client[c].got + client[c].told
                      + WorthOf(sock[c].out \o sock[c].queue) + sock[c].dropped

\* The progress a client will have been told last, once it has read frames.
LastTold(frames, told) ==
    LET reports == {i \in DOMAIN frames : frames[i].type = "progress"}
    IN IF reports = {} THEN told ELSE frames[Max(reports)].n

\* What the socket believes the client knows of the watched search is what
\* the client will have been told last.
WatchedIsTold ==
    \A c \in Clients : Running(c) /\ sock[c].watched # 0 /\ ~ sock[c].gone =>
        sock[c].watched = LastTold(sock[c].out \o sock[c].queue, client[c].progress)

\* A peer that answers no ping is closed within a heartbeat and its deadline,
\* whatever else it sends.
SilentPeerEnds ==
    \A c \in Clients : Running(c) /\ sock[c].ticked /\ sock[c].close = 0 =>
        clock < client[c].heard + Heartbeat + PongDeadline
=============================================================================
