--------------------------- MODULE LiveSocketProofs ---------------------------
(***************************************************************************)
(* The live tap, for any number of clients, families and tickets, any rows *)
(* and any times.  Tickets and revocation come first (LiveInv): whatever   *)
(* the three tasks do, a socket keeps its ticket, its family and, once it  *)
(* is to be closed, its code (Steady).  Then what a socket tells its       *)
(* client (TapInv): the account of its numbers, the progress of the        *)
(* watched search, the pings, and the rows of its subscription.            *)
(***************************************************************************)
EXTENDS LiveSocket, FiniteSetTheorems, SequenceTheorems, WellFoundedInduction, TLAPS

\* What a socket is known by.
Identity == {"pc", "ticket", "family", "close", "gone"}

\* m is the socket k a little later, without being opened or given up.
Steady(k, m) ==
    /\ Identity \subseteq DOMAIN m
    /\ m.pc = k.pc /\ m.ticket = k.ticket /\ m.family = k.family /\ m.gone = k.gone
    /\ k.close # 0 => m.close # 0

\* The invariant: a socket that is not off has a ticket of its own, which is
\* used up or forgotten; a registered socket of a dead family is to be closed.
SocketsKnown ==
    /\ DOMAIN sock = Clients
    /\ \A c \in Clients : Identity \subseteq DOMAIN sock[c] /\ (sock[c].pc = "off" => sock[c].ticket = 0)
TicketsUsed ==
    /\ issued \in Nat
    /\ \A t \in DOMAIN tickets : t \in 1 .. issued /\ "used" \in DOMAIN tickets[t]
    /\ \A c \in Clients : sock[c].pc # "off" =>
          /\ sock[c].ticket \in 1 .. issued
          /\ sock[c].ticket \in DOMAIN tickets => tickets[sock[c].ticket].used
          /\ \A d \in Clients \ {c} : sock[d].ticket # sock[c].ticket
LiveInv == SocketsKnown /\ TicketsUsed /\ DeadFamiliesClose

-----------------------------------------------------------------------------
\* What the pieces of a round do to a socket.
LEMMA SendSteady ==
    ASSUME NEW k, Identity \subseteq DOMAIN k, NEW frame
    PROVE  Steady(k, Send(k, frame))
    BY DEF Steady, Send, Identity

LEMMA CloseSteady ==
    ASSUME NEW k, Identity \subseteq DOMAIN k, NEW code \in Nat \ {0}
    PROVE  Steady(k, Close(k, code)) /\ Close(k, code).close # 0
    BY DEF Steady, Close, Identity

LEMMA SessionsSteady ==
    ASSUME NEW k, Identity \subseteq DOMAIN k
    PROVE  Steady(k, TickSessions(k))
<1>1. \A n, taken : Steady(k, SessionFrames(k, n, taken))
    BY DEF Steady, SessionFrames, Identity
<1> DEFINE m == Released(k, ToRelease(k))
<1>2. Steady(k, m)
    BY <1>1 DEF Released
<1> DEFINE cursor == [s \in k.sub.sensors |-> Newest(k, s)]
<1>3. Steady(k, [m EXCEPT !.sub.cursor = cursor])
    <2> HIDE DEF m, cursor
    <2> QED
        BY <1>2 DEF Steady, Identity
<1>4. Steady(k, k)
    BY DEF Steady
<1>5. TickSessions(k) = k \/ TickSessions(k) = [m EXCEPT !.sub.cursor = cursor]
    BY DEF TickSessions
<1> QED
    BY <1>3, <1>4, <1>5

LEMMA SteadyAgain ==
    ASSUME NEW k, NEW m, NEW n, Steady(k, m), Steady(m, n)
    PROVE  Steady(k, n)
    BY DEF Steady

LEMMA PeriodicSteady ==
    ASSUME NEW k, Identity \subseteq DOMAIN k
    PROVE  Steady(k, TickPeriodic(k))
<1>1. \A m : Identity \subseteq DOMAIN m => Steady(m, Stats(m))
    <2> SUFFICES ASSUME NEW m, Identity \subseteq DOMAIN m PROVE Steady(m, Stats(m))
        OBVIOUS
    <2>1. Steady(m, Send(m, Frame("stats"))) /\ Steady(m, m)
        BY SendSteady DEF Steady
    <2> QED
        BY <2>1 DEF Stats
<1>2. \A m : Identity \subseteq DOMAIN m => Steady(m, Lagging(m))
    <2> SUFFICES ASSUME NEW m, Identity \subseteq DOMAIN m PROVE Steady(m, Lagging(m))
        OBVIOUS
    <2>1. Steady(m, Send(m, FrameOf("lagging", m.dropped)))
        BY SendSteady
    <2>2. \A p : Steady(m, p) => Steady(m, [p EXCEPT !.dropped = 0, !.sent = 0])
        BY DEF Steady, Identity
    <2>3. Steady(m, m)
        BY DEF Steady
    <2> QED
        BY <2>1, <2>2, <2>3 DEF Lagging
<1>3. \A m : Identity \subseteq DOMAIN m => Steady(m, Watched(m))
    <2> SUFFICES ASSUME NEW m, Identity \subseteq DOMAIN m PROVE Steady(m, Watched(m))
        OBVIOUS
    <2>1. Steady(m, [m EXCEPT !.watched = progress])
        BY DEF Steady, Identity
    <2>2. Identity \subseteq DOMAIN [m EXCEPT !.watched = progress]
        BY <2>1 DEF Steady
    <2>3. Steady(m, Send([m EXCEPT !.watched = progress], FrameOf("progress", progress)))
        BY <2>1, <2>2, SendSteady, SteadyAgain
    <2>4. Steady(m, m)
        BY DEF Steady
    <2> QED
        BY <2>3, <2>4 DEF Watched
<1> DEFINE due == [k EXCEPT !.nextStats = clock + StatsInterval]
<1>4. Steady(k, due) /\ Steady(k, k)
    BY DEF Steady, Identity
<1>5. TickPeriodic(k) = k \/ TickPeriodic(k) = Watched(Lagging(Stats(due)))
    BY DEF TickPeriodic
<1> HIDE DEF due
<1>6. \A m : Steady(k, m) => Identity \subseteq DOMAIN m
    BY DEF Steady
<1>7. Steady(k, Stats(due))
    BY <1>1, <1>4, <1>6, SteadyAgain
<1>8. Steady(k, Lagging(Stats(due)))
    BY <1>2, <1>6, <1>7, SteadyAgain
<1>9. Steady(k, Watched(Lagging(Stats(due))))
    BY <1>3, <1>6, <1>8, SteadyAgain
<1> QED
    BY <1>4, <1>5, <1>9

LEMMA PingSteady ==
    ASSUME NEW k, Identity \subseteq DOMAIN k
    PROVE  Steady(k, TickPing(k))
<1>1. Steady(k, Pinged(k)) /\ Steady(k, k)
    BY DEF Steady, Identity, Pinged
<1>2. Steady(k, Send(Pinged(k), FrameOf("ping", Pinged(k).ping)))
    <2>1. Identity \subseteq DOMAIN Pinged(k)
        BY <1>1 DEF Steady
    <2> QED
        BY <1>1, <2>1, SendSteady, SteadyAgain
<1>3. Steady(k, Close(k, 4408))
    BY CloseSteady
<1>4. \/ TickPing(k) = Close(k, 4408)
      \/ TickPing(k) = k
      \/ TickPing(k) = Send(Pinged(k), FrameOf("ping", Pinged(k).ping))
    BY DEF TickPing
<1> QED
    BY <1>1, <1>2, <1>3, <1>4

\* A whole round.
LEMMA RoundSteady ==
    ASSUME NEW k, Identity \subseteq DOMAIN k
    PROVE  Steady(k, Ticked(k))
<1>1. \A m : Steady(k, m) => Identity \subseteq DOMAIN m
    BY DEF Steady
<1>2. Steady(k, TickPeriodic(TickSessions(k)))
    BY <1>1, SessionsSteady, PeriodicSteady, SteadyAgain
<1>3. Steady(k, TickPing(TickPeriodic(TickSessions(k))))
    BY <1>1, <1>2, PingSteady, SteadyAgain
<1> DEFINE last == TickRestart(TickPing(TickPeriodic(TickSessions(k))))
<1>4. Steady(k, last)
    <2>1. \A m : Identity \subseteq DOMAIN m => Steady(m, TickRestart(m))
        BY CloseSteady DEF TickRestart, Steady
    <2> QED
        BY <1>1, <1>3, <2>1, SteadyAgain
<1>5. Ticked(k) = [last EXCEPT !.ticked = TRUE]
    BY DEF Ticked
<1> HIDE DEF last
<1> QED
    BY <1>4, <1>5 DEF Steady, Identity

-----------------------------------------------------------------------------
\* Sockets that keep their tickets or are off keep the first two parts.
LEMMA TicketsKept ==
    ASSUME SocketsKnown, TicketsUsed, issued' = issued, DOMAIN sock' = Clients,
           \A t \in DOMAIN tickets' : t \in DOMAIN tickets /\ tickets'[t] = tickets[t],
           \A c \in Clients :
              \/ sock'[c] = sock[c] \/ sock'[c] = Off
              \/ /\ sock'[c].pc = "off" <=> sock[c].pc = "off"
                 /\ Identity \subseteq DOMAIN sock'[c] /\ sock'[c].ticket = sock[c].ticket
    PROVE  SocketsKnown' /\ TicketsUsed'
<1>1. Identity \subseteq DOMAIN Off /\ Off.pc = "off" /\ Off.ticket = 0
    BY DEF Identity, Off
<1>2. SocketsKnown'
    BY <1>1 DEF SocketsKnown
<1>3. \A c \in Clients : sock'[c].pc # "off" => sock[c].pc # "off" /\ sock'[c].ticket = sock[c].ticket
    BY <1>1
<1>4. \A d \in Clients : sock'[d].ticket = 0 \/ sock'[d].ticket = sock[d].ticket
    BY <1>1
<1>5. TicketsUsed'
    BY <1>3, <1>4 DEF TicketsUsed
<1> QED
    BY <1>2, <1>5

\* One socket moves on, and no ticket or family changes.
LEMMA OneMoves ==
    ASSUME LiveInv, NEW c \in Clients, sock[c].pc # "off", NEW m, Steady(sock[c], m),
           sock' = [sock EXCEPT ![c] = m], UNCHANGED <<alive, tickets, issued>>
    PROVE  LiveInv'
<1>1. DOMAIN sock' = Clients /\ sock'[c] = m /\ \A d \in Clients \ {c} : sock'[d] = sock[d]
    BY DEF LiveInv, SocketsKnown
<1>2. SocketsKnown' /\ TicketsUsed'
    BY <1>1, TicketsKept DEF LiveInv, Steady
<1>3. DeadFamiliesClose'
    BY <1>1 DEF LiveInv, DeadFamiliesClose, Registered, Steady
<1> QED
    BY <1>2, <1>3 DEF LiveInv

\* The client's frames, whatever they are.
LEMMA FrameKeeps ==
    ASSUME LiveInv, NEW c \in Clients, ClientFrame(c)
    PROVE  LiveInv'
<1>1. ASSUME NEW k, NEW mine, Steady(sock[c], k), Handled(c, k, mine)
      PROVE  LiveInv'
    <2>1. Steady(sock[c], [k EXCEPT !.ticked = FALSE])
        BY <1>1 DEF Steady, Identity
    <2>2. sock[c].pc # "off" /\ sock' = [sock EXCEPT ![c] = [k EXCEPT !.ticked = FALSE]]
          /\ UNCHANGED <<alive, tickets, issued>>
        BY <1>1 DEF Handled, Running
    <2> QED
        BY <2>1, <2>2, OneMoves
<1>2. Identity \subseteq DOMAIN sock[c] /\ Steady(sock[c], sock[c])
    BY DEF LiveInv, SocketsKnown, Steady
<1>3. Steady(sock[c], Send(sock[c], Frame("error")))
    BY <1>2, SendSteady
<1>4. ASSUME Complain(c) PROVE LiveInv'
    BY <1>1, <1>3, <1>4 DEF Complain
<1>5. ASSUME NEW S, NEW chans, NEW matches, Subscribe(c, S, chans, matches) PROVE LiveInv'
    <2> DEFINE sub == [gen |-> sock[c].gen + 1, sensors |-> S, channels |-> chans,
                       matches |-> matches, cursor |-> [s \in S |-> StartCursor(s)]]
               k == [sock[c] EXCEPT !.gen = @ + 1, !.paused = FALSE, !.sub = sub]
    <2>1. Steady(sock[c], k)
        <3> HIDE DEF sub
        <3> QED
            BY <1>2 DEF Steady, Identity
    <2>2. Steady(sock[c], Send(k, Frame("ack")))
        <3> HIDE DEF k
        <3> QED
            BY <2>1, SendSteady, SteadyAgain DEF Steady
    <2>3. Steady(sock[c], Subscribed(sock[c], S, chans, matches))
        BY <2>2 DEF Subscribed
    <2>4. Steady(sock[c], Close(sock[c], 4403))
        BY <1>2, CloseSteady
    <2> QED
        BY <1>1, <1>5, <2>3, <2>4 DEF Subscribe
<1>6. ASSUME Pause(c) \/ Resume(c) \/ Unwatch(c) PROVE LiveInv'
    <2>1. Steady(sock[c], [sock[c] EXCEPT !.paused = TRUE])
        BY <1>2 DEF Steady, Identity
    <2>2. Steady(sock[c], [sock[c] EXCEPT !.paused = FALSE])
        BY <1>2 DEF Steady, Identity
    <2>3. Steady(sock[c], [sock[c] EXCEPT !.watched = 0])
        BY <1>2 DEF Steady, Identity
    <2> QED
        BY <1>1, <1>6, <2>1, <2>2, <2>3 DEF Pause, Resume, Unwatch
<1>7. ASSUME Watch(c) PROVE LiveInv'
    <2> DEFINE k == [sock[c] EXCEPT !.watched = progress]
    <2>1. Steady(sock[c], k)
        BY <1>2 DEF Steady, Identity
    <2>2. Steady(sock[c], Send(k, FrameOf("progress", progress)))
        <3> HIDE DEF k
        <3> QED
            BY <2>1, SendSteady, SteadyAgain DEF Steady
    <2> QED
        BY <1>1, <1>4, <1>7, <2>2 DEF Watch
<1>8. ASSUME NEW nonce, Pong(c, nonce) PROVE LiveInv'
    <2>1. Steady(sock[c], [sock[c] EXCEPT !.ping = 0, !.pongBy = 0])
        BY <1>2 DEF Steady, Identity
    <2> QED
        BY <1>1, <1>4, <1>8, <2>1 DEF Pong
<1> QED
    BY <1>4, <1>5, <1>6, <1>7, <1>8 DEF ClientFrame

-----------------------------------------------------------------------------
\* A ticket is issued: what is swept, and the new one, are nobody's.
LEMMA IssueKeeps ==
    ASSUME LiveInv, NEW f, NEW S, Issue(f, S)
    PROVE  LiveInv'
<1> DEFINE new == [family |-> f, sensors |-> S, expires |-> clock + TicketTtl, used |-> FALSE]
<1>1. /\ issued' = issued + 1 /\ UNCHANGED <<alive, sock>>
      /\ tickets' = [t \in Swept \cup {issued + 1} |-> IF t = issued + 1 THEN new ELSE tickets[t]]
    BY DEF Issue
<1>2. "used" \in DOMAIN new
    OBVIOUS
<1> HIDE DEF new
<1>3. \A t \in Swept : t \in DOMAIN tickets /\ ~tickets[t].used /\ t \in 1 .. issued
    BY DEF Swept, LiveInv, TicketsUsed
<1>4. issued' \in Nat /\ \A t \in DOMAIN tickets' : t \in 1 .. issued' /\ "used" \in DOMAIN tickets'[t]
    BY <1>1, <1>2, <1>3 DEF LiveInv, TicketsUsed
<1>5. \A c \in Clients : sock[c].pc # "off" =>
         sock[c].ticket \in 1 .. issued' /\ sock[c].ticket \notin DOMAIN tickets'
    BY <1>1, <1>3 DEF LiveInv, TicketsUsed
<1>6. TicketsUsed'
    BY <1>1, <1>4, <1>5 DEF LiveInv, TicketsUsed
<1> QED
    BY <1>1, <1>6 DEF LiveInv, SocketsKnown, DeadFamiliesClose, Registered

\* A ticket is redeemed: unused as it is, no other socket has it.
LEMMA RedeemKeeps ==
    ASSUME LiveInv, NEW c \in Clients, NEW t \in DOMAIN tickets, Redeem(c, t)
    PROVE  LiveInv'
<1> DEFINE m == [Off EXCEPT !.pc = "accepting", !.ticket = t,
                            !.family = tickets[t].family, !.sensors = tickets[t].sensors]
<1>1. /\ sock[c].pc = "off" /\ ~tickets[t].used
      /\ tickets' = [tickets EXCEPT ![t].used = TRUE]
      /\ sock' = [sock EXCEPT ![c] = m] /\ UNCHANGED <<alive, issued>>
    BY DEF Redeem, Refusal
<1>2. Identity \subseteq DOMAIN m /\ m.pc = "accepting" /\ m.ticket = t
    BY DEF Identity, Off
<1> HIDE DEF m
<1>3. /\ DOMAIN sock' = Clients /\ sock'[c] = m
      /\ \A d \in Clients \ {c} : sock'[d] = sock[d] /\ sock[d].ticket # t
    <2>1. t \in 1 .. issued /\ Off.ticket = 0
        BY DEF LiveInv, TicketsUsed, Off
    <2> QED
        BY <1>1, <2>1 DEF LiveInv, SocketsKnown, TicketsUsed
<1>4. /\ DOMAIN tickets' = DOMAIN tickets
      /\ "used" \in DOMAIN tickets'[t] /\ tickets'[t].used
      /\ \A r \in DOMAIN tickets \ {t} : tickets'[r] = tickets[r]
    BY <1>1 DEF LiveInv, TicketsUsed
<1>5. SocketsKnown'
    BY <1>2, <1>3 DEF LiveInv, SocketsKnown
<1>6. TicketsUsed'
    BY <1>1, <1>2, <1>3, <1>4 DEF LiveInv, TicketsUsed
<1>7. DeadFamiliesClose'
    BY <1>1, <1>2, <1>3 DEF LiveInv, DeadFamiliesClose, Registered
<1> QED
    BY <1>5, <1>6, <1>7 DEF LiveInv

\* The handshake is accepted: a family revoked meanwhile closes the socket.
LEMMA AcceptKeeps ==
    ASSUME LiveInv, NEW c \in Clients, Accept(c)
    PROVE  LiveInv'
<1> DEFINE k == [sock[c] EXCEPT !.pc = "open", !.opened = clock,
                                !.nextPing = clock + Heartbeat, !.nextStats = clock + StatsInterval]
           told == OnFamilyRevoked(sock[c].family, k)
           m == Send(told, Frame("hello"))
<1>1. /\ sock[c].pc = "accepting" /\ sock' = [sock EXCEPT ![c] = m]
      /\ UNCHANGED <<alive, tickets, issued>>
    BY DEF Accept
<1>2. /\ Identity \subseteq DOMAIN k /\ k.pc = "open"
      /\ k.ticket = sock[c].ticket /\ k.family = sock[c].family
    BY DEF Identity, LiveInv, SocketsKnown
<1> HIDE DEF k
<1>3. Steady(k, told) /\ (sock[c].family \notin alive => told.close # 0)
    BY <1>2, CloseSteady DEF OnFamilyRevoked, Steady
<1> HIDE DEF told
<1>4. Steady(told, m)
    BY <1>3, SendSteady DEF Steady
<1> HIDE DEF m
<1>5. /\ Identity \subseteq DOMAIN m /\ m.pc = "open" /\ m.ticket = sock[c].ticket
      /\ m.family = sock[c].family /\ (sock[c].family \notin alive => m.close # 0)
    BY <1>2, <1>3, <1>4 DEF Steady
<1>6. DOMAIN sock' = Clients /\ sock'[c] = m /\ \A d \in Clients \ {c} : sock'[d] = sock[d]
    BY <1>1 DEF LiveInv, SocketsKnown
<1>7. SocketsKnown' /\ TicketsUsed'
    BY <1>1, <1>5, <1>6, TicketsKept DEF LiveInv
<1>8. DeadFamiliesClose'
    BY <1>1, <1>5, <1>6 DEF LiveInv, DeadFamiliesClose, Registered
<1> QED
    BY <1>7, <1>8 DEF LiveInv

\* The tasks of a running socket, and its end.
LEMMA TasksKeep ==
    ASSUME LiveInv, NEW c \in Clients,
           Tick(c) \/ Pop(c) \/ Deliver(c) \/ Disconnect(c) \/ Stop(c) \/ Shutdown(c)
    PROVE  LiveInv'
<1>1. Identity \subseteq DOMAIN sock[c] /\ DOMAIN sock = Clients
    BY DEF LiveInv, SocketsKnown
<1>2. CASE Tick(c)
    BY <1>1, <1>2, RoundSteady, OneMoves DEF Tick, Running
<1>3. CASE Pop(c)
    <2>1. Steady(sock[c], [sock[c] EXCEPT !.out = <<Head(sock[c].queue)>>, !.queue = Tail(@)])
        BY <1>1 DEF Steady, Identity
    <2> DEFINE m == [sock[c] EXCEPT !.out = <<Head(sock[c].queue)>>, !.queue = Tail(@)]
    <2>2. sock' = [sock EXCEPT ![c] = m]
        BY <1>1, <1>3 DEF Pop
    <2> QED
        BY <1>3, <2>1, <2>2, OneMoves DEF Pop, Running
<1>4. CASE Deliver(c)
    <2>1. Steady(sock[c], [sock[c] EXCEPT !.out = <<>>])
        BY <1>1 DEF Steady, Identity
    <2>2. sock' = [sock EXCEPT ![c] = [sock[c] EXCEPT !.out = <<>>]]
        BY <1>1, <1>4 DEF Deliver
    <2> QED
        BY <1>4, <2>1, <2>2, OneMoves DEF Deliver, Running
<1>5. CASE Disconnect(c) \/ Stop(c)
    <2> DEFINE m == sock'[c]
    <2>1. /\ sock[c].pc = "open" /\ DOMAIN sock' = Clients
          /\ \A d \in Clients \ {c} : sock'[d] = sock[d]
          /\ UNCHANGED <<alive, tickets, issued>>
        BY <1>1, <1>5 DEF Disconnect, Stop, Running
    <2>2. Identity \subseteq DOMAIN m /\ m.ticket = sock[c].ticket /\ m.family = sock[c].family
        BY <1>1, <1>5 DEF Disconnect, Stop, Running, Identity
    <2>3. m.pc # "off" /\ (m.gone \/ (m.close = sock[c].close /\ m.gone = sock[c].gone))
        BY <1>1, <1>5 DEF Disconnect, Stop, Running, Identity
    <2>4. SocketsKnown' /\ TicketsUsed'
        BY <2>1, <2>2, <2>3, TicketsKept DEF LiveInv
    <2>5. DeadFamiliesClose'
        BY <2>1, <2>2, <2>3 DEF LiveInv, DeadFamiliesClose, Registered
    <2> QED
        BY <2>4, <2>5 DEF LiveInv
<1>6. CASE Shutdown(c)
    <2>1. /\ DOMAIN sock' = Clients /\ sock'[c] = Off
          /\ \A d \in Clients \ {c} : sock'[d] = sock[d]
          /\ UNCHANGED <<alive, tickets, issued>>
        BY <1>1, <1>6 DEF Shutdown
    <2>2. SocketsKnown' /\ TicketsUsed'
        BY <2>1, TicketsKept DEF LiveInv
    <2>3. DeadFamiliesClose'
        BY <2>1 DEF LiveInv, DeadFamiliesClose, Registered, Off
    <2> QED
        BY <2>2, <2>3 DEF LiveInv
<1> QED
    BY <1>2, <1>3, <1>4, <1>5, <1>6

-----------------------------------------------------------------------------
\* Every socket is as it was or, one of a set T of registered ones, to be
\* closed; no ticket is added; only families of T are revoked.
Told(T, code) ==
    /\ T \subseteq Clients /\ \A c \in T : Registered(c)
    /\ sock' = [c \in Clients |-> IF c \in T THEN Close(sock[c], code) ELSE sock[c]]
    /\ issued' = issued
    /\ \A t \in DOMAIN tickets' : t \in DOMAIN tickets /\ tickets'[t] = tickets[t]
    /\ \A c \in Clients \ T : Registered(c) => (sock[c].family \in alive' <=> sock[c].family \in alive)

LEMMA ToldKeep ==
    ASSUME LiveInv, NEW code \in Nat \ {0}, NEW T, Told(T, code)
    PROVE  LiveInv'
<1>1. DOMAIN sock' = Clients /\ \A c \in Clients : Identity \subseteq DOMAIN sock[c]
    BY DEF LiveInv, SocketsKnown, Told
<1>2. \A c \in T : Steady(sock[c], sock'[c]) /\ sock'[c].close # 0 /\ Registered(c)
    BY <1>1, CloseSteady DEF Told
<1>3. \A c \in Clients \ T : sock'[c] = sock[c]
    BY DEF Told
<1>4. \A c \in T : /\ sock[c].pc # "off" /\ sock'[c].pc # "off" /\ Identity \subseteq DOMAIN sock'[c]
                   /\ sock'[c].ticket = sock[c].ticket
    BY <1>2 DEF Steady, Registered
<1>5. SocketsKnown' /\ TicketsUsed'
    BY <1>1, <1>3, <1>4, TicketsKept DEF LiveInv, Told
<1>6. DeadFamiliesClose'
    BY <1>2, <1>3 DEF LiveInv, DeadFamiliesClose, Registered, Told
<1> QED
    BY <1>5, <1>6 DEF LiveInv

\* Families come and go: a revocation and a reset tell the registered sockets.
LEMMA FamiliesKeep ==
    ASSUME LiveInv, NEW f, Login(f) \/ Revoke(f) \/ ResetLive
    PROVE  LiveInv'
<1>1. CASE Login(f)
    BY <1>1 DEF Login, LiveInv, SocketsKnown, TicketsUsed, DeadFamiliesClose, Registered
<1>2. CASE Revoke(f)
    <2> DEFINE T == {c \in Clients : Registered(c) /\ sock[c].family = f}
    <2>1. \A c \in Clients \ T : Registered(c) =>
             (sock[c].family \in alive' <=> sock[c].family \in alive)
        BY <1>2 DEF Revoke
    <2>2. Told(T, 1000)
        BY <1>2, <2>1 DEF Revoke, Told
    <2> HIDE DEF T
    <2> QED
        BY <2>2, ToldKeep
<1>3. CASE ResetLive
    <2> DEFINE T == {c \in Clients : Registered(c)}
    <2>1. sock' = [c \in Clients |-> IF c \in T THEN Close(sock[c], 1013) ELSE sock[c]]
        BY <1>3 DEF ResetLive
    <2>2. issued' = issued /\ DOMAIN tickets' = {}
        BY <1>3 DEF ResetLive
    <2>3. Told(T, 1013)
        BY <2>1, <2>2 DEF Told
    <2> HIDE DEF T
    <2> QED
        BY <2>3, ToldKeep
<1> QED
    BY <1>1, <1>2, <1>3

\* Time, the watched search and a stutter touch nothing of the invariant.
LEMMA RestKeeps ==
    ASSUME LiveInv, SearchMoves \/ Advance \/ UNCHANGED allLiveVars
    PROVE  LiveInv'
<1>1. CASE SearchMoves \/ UNCHANGED allLiveVars
    <2>1. UNCHANGED <<alive, tickets, issued, sock>>
        BY <1>1 DEF SearchMoves, allLiveVars, liveVars
    <2> QED
        BY <2>1 DEF LiveInv, SocketsKnown, TicketsUsed, DeadFamiliesClose, Registered
<1>2. CASE Advance
    <2>1. /\ DOMAIN sock' = Clients /\ UNCHANGED <<alive, tickets, issued>>
          /\ \A c \in Clients : sock'[c] = [sock[c] EXCEPT !.ticked = FALSE]
        BY <1>2 DEF Advance
    <2>2. \A c \in Clients : Steady(sock[c], sock'[c])
        BY <2>1 DEF LiveInv, SocketsKnown, Steady, Identity
    <2>4. SocketsKnown' /\ TicketsUsed'
        BY <2>1, <2>2, TicketsKept DEF LiveInv, Steady
    <2>5. DeadFamiliesClose'
        BY <2>1, <2>2 DEF LiveInv, DeadFamiliesClose, Registered, Steady
    <2> QED
        BY <2>4, <2>5 DEF LiveInv
<1> QED
    BY <1>1, <1>2

\* No socket is there at first.
LEMMA LiveInitially == LiveInit => LiveInv
<1> SUFFICES ASSUME LiveInit PROVE LiveInv
    OBVIOUS
<1>1. /\ DOMAIN sock = Clients /\ \A c \in Clients : sock[c] = Off
      /\ issued = 0 /\ DOMAIN tickets = {}
    BY DEF LiveInit
<1>2. Identity \subseteq DOMAIN Off /\ Off.pc = "off" /\ Off.ticket = 0
    BY DEF Identity, Off
<1>3. SocketsKnown
    BY <1>1, <1>2 DEF SocketsKnown
<1>4. TicketsUsed
    BY <1>1, <1>2 DEF TicketsUsed
<1>5. DeadFamiliesClose
    BY <1>1, <1>2 DEF DeadFamiliesClose, Registered
<1> QED
    BY <1>3, <1>4, <1>5 DEF LiveInv

\* Every step keeps the invariant.
LEMMA LiveStepKeeps == LiveInv /\ [LiveNext]_allLiveVars => LiveInv'
<1> SUFFICES ASSUME LiveInv, [LiveNext]_allLiveVars PROVE LiveInv'
    OBVIOUS
<1>1. CASE \E f \in Families : Login(f) \/ Revoke(f) \/ \E S \in Asked : Issue(f, S)
    BY <1>1, FamiliesKeep, IssueKeeps
<1>2. CASE \E c \in Clients : \E t \in DOMAIN tickets : Redeem(c, t)
    BY <1>2, RedeemKeeps
<1>3. CASE \E c \in Clients : Accept(c) \/ ClientFrame(c)
    BY <1>3, AcceptKeeps, FrameKeeps
<1>4. CASE \E c \in Clients :
               Tick(c) \/ Pop(c) \/ Deliver(c) \/ Disconnect(c) \/ Stop(c) \/ Shutdown(c)
    BY <1>4, TasksKeep
<1>5. CASE ResetLive
    BY <1>5, FamiliesKeep
<1>6. CASE SearchMoves \/ Advance \/ UNCHANGED allLiveVars
    BY <1>6, RestKeeps
<1> QED
    BY <1>1, <1>2, <1>3, <1>4, <1>5, <1>6 DEF LiveNext

\* The invariant holds throughout.
LEMMA LiveInvariant == LiveSpec => []LiveInv
<1>1. LiveInit => LiveInv
    BY LiveInitially
<1>2. LiveInv /\ [LiveNext]_allLiveVars => LiveInv'
    BY LiveStepKeeps
<1> QED
    BY <1>1, <1>2, PTL DEF LiveSpec

\* No two sockets share a ticket: LiveService.redeem marks it in the step that
\* checks it, and neither the sweep of issue() nor a reset brings it back.
LEMMA TicketsAreNotShared == LiveSpec => []NoSharedTicket
<1>1. ASSUME LiveInv, NEW c \in Clients, sock[c].pc # "off"
      PROVE  Refusal(sock[c].ticket) # "ok"
    BY <1>1 DEF LiveInv, TicketsUsed, Refusal
<1>2. LiveInv => NoSharedTicket
    BY <1>1 DEF LiveInv, TicketsUsed, NoSharedTicket
<1> QED
    BY <1>2, LiveInvariant, PTL

\* A socket of a revoked family is being closed: on_family_revoked reaches the
\* sockets registered before the revocation and those that register after it.
THEOREM RevocationReachesSockets == LiveSpec => []DeadFamiliesClose
<1>1. LiveInv => DeadFamiliesClose
    BY DEF LiveInv
<1> QED
    BY <1>1, LiveInvariant, PTL

-----------------------------------------------------------------------------
\* The frames of a socket: what is on its way to the client.
Types == {"hello", "session", "stats", "lagging", "progress", "ping", "ack", "error"}
Frames == [type : Types, n : Nat]
Wire(k) == k.out \o k.queue

\* m is k, apart from the fields of S.
Only(k, m, S) ==
    /\ DOMAIN m = DOMAIN k
    /\ \A x \in DOMAIN k \ S : m[x] = k[x]

\* The values a socket may take.
Shape(k) ==
    /\ DOMAIN k = DOMAIN Off
    /\ k.queue \in Seq(Frames) /\ k.out \in Seq(Frames) /\ Len(k.out) <= 1
    /\ k.gen \in Nat /\ k.seq \in Nat /\ k.sent \in Nat /\ k.dropped \in Nat /\ k.watched \in Nat
    /\ k.nonce \in Nat /\ k.ping \in {0, k.nonce} /\ k.pongBy \in Nat /\ k.nextPing \in Nat
    /\ k.close \in {0, 1000, 1013, 4403, 4408}
    /\ DOMAIN k.sub = DOMAIN NoSub /\ k.sub.gen \in Nat /\ k.sub.gen <= k.gen
    /\ k.sub.sensors \subseteq k.sensors

\* The two accounts a socket keeps of what its client has.
Balance(k, m) ==
    /\ m.got \in Nat /\ m.told \in Nat
    /\ k.seq = m.got + m.told + WorthOf(Wire(k)) + k.dropped
Knows(k, m) == k.watched # 0 => k.watched = LastTold(Wire(k), m.progress)

\* At time t: the next ping is due within a heartbeat of the last answer, or it
\* is out and its deadline runs; a round of this very time has dealt with both.
Beats(k, m, t) ==
    /\ m.heard \in Nat /\ m.heard <= t
    /\ k.close = 0 =>
         IF k.ping = 0
         THEN /\ k.nextPing <= m.heard + Heartbeat
              /\ k.ticked => t < k.nextPing
              /\ k.gone \/ t <= k.nextPing \/ t = m.heard
         ELSE /\ k.pongBy <= m.heard + Heartbeat + PongDeadline
              /\ k.ticked => t < k.pongBy
              /\ k.nextPing <= t + Heartbeat

\* At time t: each cursor stands between the start of its subscription and
\* what is visible, the rows up to it are those released, and a round of this
\* very time has left no visible row beyond it.
Visible(s, t) == (Epoch + t) - Lag[s]
Seen(k, m) ==
    {r \in Rows : /\ r.sensor \in k.sub.sensors /\ r.id \in k.sub.matches
                  /\ m.begin[r.sensor] < r.start /\ ~ KeyLess(k.sub.cursor[r.sensor], KeyOf(r))}
Placed(k, m, t) ==
    \A s \in k.sub.sensors :
        /\ m.begin[s] \in Int /\ k.sub.cursor[s] \in Int \X Int
        /\ ~ KeyLess(k.sub.cursor[s], <<m.begin[s], IdLimit>>)
        /\ k.sub.cursor[s][1] <= Visible(s, t)
Followed(k, m, t) ==
    k.sub # NoSub =>
      /\ k.sub.sensors \subseteq Sensors /\ DOMAIN k.sub.cursor = k.sub.sensors
      /\ Placed(k, m, t)
      /\ m.shown = {r.id : r \in Seen(k, m)} /\ m.due = Cardinality(Seen(k, m))
      /\ k.ticked /\ ~ k.paused =>
           \A r \in Rows : r.sensor \in k.sub.sensors /\ r.start <= Visible(r.sensor, t) =>
               ~ KeyLess(k.sub.cursor[r.sensor], KeyOf(r))

\* A socket and its client, at time t.
Talk(k, m, t) ==
    /\ Shape(k) /\ DOMAIN m = DOMAIN Fresh
    /\ k.pc = "accepting" => Only(Off, k, {"pc", "ticket", "family", "sensors"})
    /\ k.pc = "open" /\ ~ k.gone => Balance(k, m) /\ Knows(k, m)
    /\ k.pc = "open" => Beats(k, m, t) /\ Followed(k, m, t)
TicketOK(t) ==
    /\ DOMAIN t = {"family", "sensors", "expires", "used"}
    /\ t.family \in Families /\ t.used \in BOOLEAN
\* The invariant of the live tap.
TapInv ==
    /\ clock \in Nat /\ imports = NoImports /\ progress \in 0 .. MaxProgress
    /\ alive \subseteq opened /\ opened \subseteq Families
    /\ \A x \in DOMAIN tickets : TicketOK(tickets[x])
    /\ DOMAIN sock = Clients /\ DOMAIN client = Clients
    /\ \A c \in Clients : /\ Talk(sock[c], client[c], clock)
                          /\ sock[c].pc \in {"off", "accepting", "open", "stopping"}
                          /\ sock[c].pc # "off" => sock[c].family \in Families

-----------------------------------------------------------------------------
\* Sequences of frames: what they are worth, and the last report among them.
LEMMA WorthIsNat == \A frame \in Frames : Worth(frame) \in Nat
    BY DEF Worth, Frames

\* The running account of a sequence of frames.
Account(frames, sums) ==
    /\ sums \in [0 .. Len(frames) -> Nat] /\ sums[0] = 0
    /\ \A i \in 1 .. Len(frames) : sums[i] = sums[i - 1] + Worth(frames[i])

\* The least of a set of naturals.
LEMMA LeastOf ==
    ASSUME NEW S \in SUBSET Nat, S # {}
    PROVE  \E n \in S : \A m \in S : n <= m
<1>1. \E R : IsWellFoundedOn(R, Nat) /\ \A a, b \in Nat : a < b => <<a, b>> \in R
    <2> DEFINE R == OpToRel(<, Nat)
    <2>1. IsWellFoundedOn(R, Nat)
        BY NatLessThanWellFounded
    <2>2. \A a, b \in Nat : a < b => <<a, b>> \in R
        <3>1. R = {ss \in Nat \X Nat : ss[1] < ss[2]}
            BY Zenon DEF OpToRel
        <3> HIDE DEF R
        <3> QED
            BY <3>1
    <2> HIDE DEF R
    <2> QED
        BY <2>1, <2>2
<1>2. PICK R : IsWellFoundedOn(R, Nat) /\ \A a, b \in Nat : a < b => <<a, b>> \in R
    BY <1>1
<1>3. PICK n \in S : \A m \in S : ~ (<<m, n>> \in R)
    <2>1. IsWellFoundedOn(R, Nat) /\ S \subseteq Nat
        BY <1>2
    <2> QED
        BY <2>1, WFMin, Zenon
<1>4. S \subseteq Nat /\ \A m \in S : m \in Nat /\ n \in Nat
    OBVIOUS
<1>5. \A m \in S : ~ m < n
    BY <1>2, <1>3, <1>4
<1> QED
    BY <1>4, <1>5

LEMMA AccountExists ==
    ASSUME NEW frames \in Seq(Frames)
    PROVE  \E sums : Account(frames, sums)
<1> DEFINE Sums(n, f) == /\ f \in [0 .. n -> Nat] /\ f[0] = 0
                         /\ \A i \in 1 .. n : f[i] = f[i - 1] + Worth(frames[i])
           Bad == {n \in 0 .. Len(frames) : ~ \E f : Sums(n, f)}
<1>1. Len(frames) \in Nat /\ \A i \in 1 .. Len(frames) : Worth(frames[i]) \in Nat
    BY WorthIsNat
<1>2. Sums(0, [i \in 0 .. 0 |-> 0])
    OBVIOUS
<1>3. ASSUME NEW n \in 0 .. Len(frames) - 1, NEW f, Sums(n, f)
      PROVE  Sums(n + 1, [i \in 0 .. n + 1 |->
                            IF i = n + 1 THEN f[n] + Worth(frames[n + 1]) ELSE f[i]])
    <2> DEFINE g == [i \in 0 .. n + 1 |->
                       IF i = n + 1 THEN f[n] + Worth(frames[n + 1]) ELSE f[i]]
    <2>1. Worth(frames[n + 1]) \in Nat /\ f[n] \in Nat
        BY <1>1, <1>3
    <2>2. g \in [0 .. n + 1 -> Nat] /\ g[0] = 0
        BY <1>1, <1>3, <2>1
    <2>3. \A i \in 1 .. n + 1 : g[i] = g[i - 1] + Worth(frames[i])
        BY <1>1, <1>3, <2>1
    <2> QED
        BY <2>2, <2>3
<1> HIDE DEF Sums
<1>4. Bad = {}
    <2> SUFFICES ASSUME Bad # {} PROVE FALSE
        OBVIOUS
    <2>0. Bad \in SUBSET Nat
        BY <1>1
    <2>1. PICK n \in Bad : \A m \in Bad : n <= m
        <3> HIDE DEF Bad
        <3> QED
            BY <2>0, LeastOf
    <2>2. n # 0 /\ n - 1 \in 0 .. Len(frames) - 1 /\ n - 1 \in Nat /\ n \in Nat
        BY <1>1, <1>2
    <2>3. n - 1 \notin Bad
        <3>1. ~ n <= n - 1
            BY <2>2
        <3> HIDE DEF Bad
        <3> QED
            BY <2>1, <3>1
    <2>4. PICK f : Sums(n - 1, f)
        BY <2>2, <2>3, <1>1
    <2>5. \E g : Sums(n - 1 + 1, g)
        BY <2>2, <2>4, <1>3
    <2>6. n - 1 + 1 = n
        BY <2>2
    <2> QED
        BY <2>5, <2>6
<1>5. PICK f : Sums(Len(frames), f)
    BY <1>1, <1>4
<1>6. Account(frames, f)
    BY <1>5 DEF Account, Sums
<1> QED
    BY <1>6

LEMMA WorthIs ==
    ASSUME NEW frames \in Seq(Frames), NEW sums, Account(frames, sums)
    PROVE  WorthOf(frames) = sums[Len(frames)]
<1> DEFINE Rec(g) == [i \in 0 .. Len(frames) |->
                        IF i = 0 THEN 0 ELSE g[i - 1] + Worth(frames[i])]
           upTo == CHOOSE g : g = Rec(g)
<1>1. WorthOf(frames) = upTo[Len(frames)]
    BY DEF WorthOf
<1>2. sums = Rec(sums)
    BY DEF Account
<1>3. upTo = Rec(upTo)
    BY <1>2
<1> HIDE DEF upTo
<1>4. Len(frames) \in Nat /\ sums[0] = 0 /\ upTo[0] = 0
    BY <1>3 DEF Account
<1>5. \A i \in 1 .. Len(frames) : /\ sums[i] = sums[i - 1] + Worth(frames[i])
                                  /\ upTo[i] = upTo[i - 1] + Worth(frames[i])
    BY <1>3, <1>4 DEF Account
<1> HIDE DEF Rec
<1> DEFINE Bad == {i \in 0 .. Len(frames) : sums[i] # upTo[i]}
<1>6. Bad = {}
    <2> SUFFICES ASSUME Bad # {} PROVE FALSE
        OBVIOUS
    <2>0. Bad \in SUBSET Nat
        BY <1>4
    <2>1. PICK n \in Bad : \A m \in Bad : n <= m
        <3> HIDE DEF Bad
        <3> QED
            BY <2>0, LeastOf
    <2>2. n \in 1 .. Len(frames) /\ n - 1 \in 0 .. Len(frames)
        BY <1>4
    <2>3. sums[n - 1] = upTo[n - 1]
        BY <1>4, <2>1, <2>2
    <2> QED
        BY <1>5, <2>2, <2>3
<1>7. Len(frames) \in 0 .. Len(frames)
    BY <1>4
<1> QED
    BY <1>1, <1>6, <1>7

LEMMA WorthEmpty == WorthOf(<<>>) = 0
<1>1. Account(<<>>, [i \in 0 .. 0 |-> 0])
    BY DEF Account
<1>2. <<>> \in Seq(Frames)
    OBVIOUS
<1> QED
    BY <1>1, <1>2, WorthIs

LEMMA WorthAppended ==
    ASSUME NEW q \in Seq(Frames), NEW frame \in Frames
    PROVE  WorthOf(q) \in Nat /\ WorthOf(Append(q, frame)) = WorthOf(q) + Worth(frame)
<1>1. PICK sums : Account(q, sums)
    BY AccountExists
<1> DEFINE N == Len(q)
           more == [i \in 0 .. N + 1 |-> IF i = N + 1 THEN sums[N] + Worth(frame) ELSE sums[i]]
<1>2. N \in Nat /\ Worth(frame) \in Nat /\ sums[N] \in Nat /\ Append(q, frame) \in Seq(Frames)
    BY <1>1, WorthIsNat DEF Account
<1>3. /\ Len(Append(q, frame)) = N + 1 /\ Append(q, frame)[N + 1] = frame
      /\ \A i \in 1 .. N : Append(q, frame)[i] = q[i]
    BY AppendProperties
<1>4. Account(Append(q, frame), more)
    <2>1. more \in [0 .. N + 1 -> Nat] /\ more[0] = 0
        BY <1>1, <1>2 DEF Account
    <2>2. ASSUME NEW i \in 1 .. N PROVE more[i] = more[i - 1] + Worth(q[i])
        BY <1>1, <1>2 DEF Account
    <2>3. more[N + 1] = more[N] + Worth(frame) /\ N + 1 - 1 = N
        BY <1>2
    <2>4. \A i \in 1 .. N + 1 : i \in 1 .. N \/ i = N + 1
        BY <1>2
    <2> HIDE DEF more, N
    <2>5. \A i \in 1 .. N + 1 : more[i] = more[i - 1] + Worth(Append(q, frame)[i])
        <3> TAKE i \in 1 .. N + 1
        <3>1. CASE i \in 1 .. N
            BY <1>3, <2>2, <3>1 DEF N
        <3>2. CASE i = N + 1
            BY <1>3, <2>3, <3>2 DEF N
        <3> QED
            BY <2>4, <3>1, <3>2
    <2> QED
        BY <1>3, <2>1, <2>5 DEF Account
<1>5. WorthOf(Append(q, frame)) = more[N + 1] /\ WorthOf(q) = sums[N]
    BY <1>1, <1>2, <1>3, <1>4, WorthIs
<1> QED
    BY <1>2, <1>5

LEMMA WorthDelivered ==
    ASSUME NEW q \in Seq(Frames), NEW frame \in Frames
    PROVE  WorthOf(<<frame>> \o q) = Worth(frame) + WorthOf(q)
<1>1. PICK sums : Account(q, sums)
    BY AccountExists
<1> DEFINE N == Len(q)
           p == <<frame>> \o q
           more == [i \in 0 .. N + 1 |-> IF i = 0 THEN 0 ELSE Worth(frame) + sums[i - 1]]
<1>2. N \in Nat /\ Worth(frame) \in Nat
    BY WorthIsNat
<1>3. /\ p \in Seq(Frames) /\ Len(p) = N + 1 /\ p[1] = frame
      /\ \A i \in 2 .. N + 1 : p[i] = q[i - 1]
    OBVIOUS
<1>4. Account(p, more)
    <2>1. more \in [0 .. N + 1 -> Nat] /\ more[0] = 0
        BY <1>1, <1>2 DEF Account
    <2>2. ASSUME NEW i \in 2 .. N + 1 PROVE more[i] = more[i - 1] + Worth(q[i - 1])
        <3>1. i - 1 \in 1 .. N /\ i - 1 \in 0 .. N + 1 /\ i \in 0 .. N + 1 /\ i # 0 /\ i - 1 # 0
            BY <1>2
        <3>2. sums[i - 1] = sums[i - 1 - 1] + Worth(q[i - 1])
            BY <1>1, <3>1 DEF Account
        <3>3. more[i] = Worth(frame) + sums[i - 1] /\ more[i - 1] = Worth(frame) + sums[i - 1 - 1]
            BY <3>1
        <3>4. sums[i - 1 - 1] \in Nat /\ sums[i - 1] \in Nat
            <4>1. i - 1 - 1 \in 0 .. N /\ i - 1 \in 0 .. N
                BY <1>2, <3>1
            <4> QED
                BY <1>1, <4>1 DEF Account
        <3>5. Worth(q[i - 1]) \in Nat
            BY <3>1, WorthIsNat
        <3> HIDE DEF more
        <3> QED
            BY <1>2, <3>2, <3>3, <3>4, <3>5
    <2>3. more[1] = more[1 - 1] + Worth(frame)
        BY <1>1, <1>2 DEF Account
    <2>4. \A i \in 1 .. N + 1 : i \in 2 .. N + 1 \/ i = 1
        BY <1>2
    <2> HIDE DEF more, N, p
    <2>5. \A i \in 1 .. N + 1 : more[i] = more[i - 1] + Worth(p[i])
        <3> TAKE i \in 1 .. N + 1
        <3>1. CASE i \in 2 .. N + 1
            BY <1>3, <2>2, <3>1
        <3>2. CASE i = 1
            <4>1. p[1] = frame
                BY <1>3
            <4> QED
                BY <2>3, <3>2, <4>1
        <3> QED
            BY <2>4, <3>1, <3>2
    <2> QED
        BY <1>3, <2>1, <2>5 DEF Account
<1>5. WorthOf(p) = more[N + 1] /\ WorthOf(q) = sums[N]
    BY <1>1, <1>2, <1>3, <1>4, WorthIs
<1>6. more[N + 1] = Worth(frame) + sums[N]
    BY <1>2
<1> QED
    BY <1>5, <1>6

LEMMA WorthReleased ==
    ASSUME NEW q \in Seq(Frames), NEW n \in Nat
    PROVE  WorthOf(q \o [i \in 1 .. n |-> Frame("session")]) = WorthOf(q) + n
<1>1. PICK sums : Account(q, sums)
    BY AccountExists
<1> DEFINE N == Len(q)
           copies == [i \in 1 .. n |-> Frame("session")]
           p == q \o copies
           more == [i \in 0 .. N + n |-> IF i > N THEN sums[N] + (i - N) ELSE sums[i]]
<1>2. N \in Nat /\ sums[N] \in Nat /\ Worth(Frame("session")) = 1 /\ Frame("session") \in Frames
    BY <1>1 DEF Account, Worth, Frame, Frames, Types
<1>3. copies \in Seq(Frames) /\ Len(copies) = n /\ \A i \in 1 .. n : copies[i] = Frame("session")
    BY <1>2
<1>4. /\ p \in Seq(Frames) /\ Len(p) = N + n
      /\ \A i \in 1 .. N : p[i] = q[i]
      /\ \A i \in N + 1 .. N + n : p[i] = Frame("session")
    <2> HIDE DEF copies
    <2> QED
        BY <1>2, <1>3
<1>5. Account(p, more)
    <2>1. more \in [0 .. N + n -> Nat] /\ more[0] = 0
        BY <1>1, <1>2 DEF Account
    <2>2. ASSUME NEW i \in 1 .. N PROVE more[i] = more[i - 1] + Worth(q[i])
        BY <1>1, <1>2 DEF Account
    <2>3. ASSUME NEW i \in N + 1 .. N + n PROVE more[i] = more[i - 1] + 1
        <3>1. i - 1 \in 0 .. N + n /\ i \in 0 .. N + n /\ i > N
            BY <1>2
        <3>2. more[i] = sums[N] + (i - N)
            BY <3>1
        <3>3. CASE i - 1 > N
            BY <1>2, <3>1, <3>2, <3>3
        <3>4. CASE i - 1 = N
            BY <1>2, <3>1, <3>2, <3>4
        <3> QED
            BY <1>2, <3>1, <3>3, <3>4
    <2>4. \A i \in 1 .. N + n : i \in 1 .. N \/ i \in N + 1 .. N + n
        BY <1>2
    <2> HIDE DEF more, N, p
    <2>5. \A i \in 1 .. N + n : more[i] = more[i - 1] + Worth(p[i])
        BY <1>2, <1>4, <2>2, <2>3, <2>4
    <2> QED
        BY <1>4, <2>1, <2>5 DEF Account
<1>6. WorthOf(p) = more[N + n] /\ WorthOf(q) = sums[N]
    BY <1>1, <1>2, <1>4, <1>5, WorthIs
<1>7. more[N + n] = sums[N] + n
    BY <1>2
<1> QED
    BY <1>6, <1>7

\* The greatest of finitely many naturals.
LEMMA GreatestOf ==
    ASSUME NEW N \in Nat, NEW S, S \subseteq 1 .. N, S # {}
    PROVE  Max(S) \in S /\ \A i \in S : i <= Max(S)
<1> DEFINE Rest == {N - i : i \in S}
<1>1. Rest \in SUBSET Nat /\ Rest # {}
    <2>1. \A i \in S : i \in 1 .. N /\ N - i \in Nat
        OBVIOUS
    <2>2. Rest \subseteq Nat
        BY <2>1
    <2>3. PICK i : i \in S
        OBVIOUS
    <2>4. N - i \in Rest
        BY <2>3
    <2> QED
        BY <2>2, <2>4
<1>2. PICK m \in Rest : \A k \in Rest : m <= k
    <2> HIDE DEF Rest
    <2> QED
        BY <1>1, LeastOf
<1>3. PICK j \in S : m = N - j
    OBVIOUS
<1>4. \A i \in S : N - i \in Rest /\ i \in Nat
    OBVIOUS
<1>5. \A i \in S : j >= i
    <2> TAKE i \in S
    <2>1. m <= N - i /\ i \in Nat /\ j \in Nat
        BY <1>2, <1>4
    <2> QED
        BY <1>3, <2>1
<1>6. Max(S) \in S /\ \A i \in S : Max(S) >= i
    BY <1>5 DEF Max
<1> QED
    BY <1>4, <1>6

\* The reports of the watched search among some frames.
Reports(frames) == {i \in DOMAIN frames : frames[i].type = "progress"}

\* The last of them, if i is its place.
LEMMA LastToldIs ==
    ASSUME NEW frames \in Seq(Frames), NEW told, NEW i \in Reports(frames),
           \A j \in Reports(frames) : j <= i
    PROVE  LastTold(frames, told) = frames[i].n
<1>1. Reports(frames) \subseteq 1 .. Len(frames) /\ Len(frames) \in Nat
    BY DEF Reports
<1>2. Max(Reports(frames)) \in Reports(frames) /\ i <= Max(Reports(frames))
    BY <1>1, GreatestOf
<1>3. Max(Reports(frames)) = i
    BY <1>1, <1>2
<1> QED
    BY <1>2, <1>3 DEF LastTold, Reports

LEMMA LastToldNone ==
    ASSUME NEW frames, NEW told, Reports(frames) = {}
    PROVE  LastTold(frames, told) = told
    BY DEF LastTold, Reports

\* There is a last one, unless there is none.
LEMMA ReportsEnd ==
    ASSUME NEW frames \in Seq(Frames), Reports(frames) # {}
    PROVE  \E i \in Reports(frames) : \A j \in Reports(frames) : j <= i
<1>1. Reports(frames) \subseteq 1 .. Len(frames) /\ Len(frames) \in Nat
    BY DEF Reports
<1> QED
    BY <1>1, GreatestOf

LEMMA ToldAppended ==
    ASSUME NEW q \in Seq(Frames), NEW frame \in Frames, NEW told
    PROVE  LastTold(Append(q, frame), told) =
             IF frame.type = "progress" THEN frame.n ELSE LastTold(q, told)
<1> DEFINE p == Append(q, frame)
<1>1. /\ p \in Seq(Frames) /\ Len(p) = Len(q) + 1 /\ p[Len(q) + 1] = frame /\ Len(q) \in Nat
      /\ \A i \in 1 .. Len(q) : p[i] = q[i]
      /\ DOMAIN p = 1 .. Len(q) + 1 /\ DOMAIN q = 1 .. Len(q)
    BY AppendProperties
<1> HIDE DEF p
<1>2. \A i \in 1 .. Len(q) + 1 : i \in 1 .. Len(q) \/ i = Len(q) + 1
    BY <1>1
<1>3. CASE frame.type = "progress"
    <2>1. Len(q) + 1 \in Reports(p) /\ \A j \in Reports(p) : j <= Len(q) + 1
        BY <1>1, <1>3 DEF Reports
    <2>2. LastTold(p, told) = p[Len(q) + 1].n
        BY <1>1, <2>1, LastToldIs
    <2> QED
        BY <1>1, <1>3, <2>2 DEF p
<1>4. CASE frame.type # "progress"
    <2>1. Reports(p) = Reports(q)
        <3>1. \A i \in 1 .. Len(q) : i \in 1 .. Len(q) + 1
            BY <1>1
        <3> QED
            BY <1>1, <1>2, <1>4, <3>1 DEF Reports
    <2>2. CASE Reports(q) = {}
        BY <1>4, <2>1, <2>2, LastToldNone DEF p
    <2>3. CASE Reports(q) # {}
        <3>1. PICK i \in Reports(q) : \A j \in Reports(q) : j <= i
            BY <2>3, ReportsEnd
        <3>2. LastTold(q, told) = q[i].n
            BY <3>1, LastToldIs
        <3>3. LastTold(p, told) = p[i].n
            BY <1>1, <2>1, <3>1, LastToldIs
        <3>4. p[i] = q[i]
            BY <1>1 DEF Reports
        <3> QED
            BY <1>4, <3>2, <3>3, <3>4 DEF p
    <2> QED
        BY <2>2, <2>3
<1> QED
    BY <1>3, <1>4

LEMMA ToldDelivered ==
    ASSUME NEW q \in Seq(Frames), NEW frame \in Frames, NEW told
    PROVE  LastTold(<<frame>> \o q, told) =
             LastTold(q, IF frame.type = "progress" THEN frame.n ELSE told)
<1> DEFINE p == <<frame>> \o q
<1>1. /\ p \in Seq(Frames) /\ p[1] = frame /\ Len(q) \in Nat
      /\ \A i \in 1 .. Len(q) : p[i + 1] = q[i] /\ i + 1 \in 1 .. Len(q) + 1
      /\ DOMAIN p = 1 .. Len(q) + 1 /\ DOMAIN q = 1 .. Len(q)
    OBVIOUS
<1> HIDE DEF p
<1>2. \A i \in 1 .. Len(q) + 1 : i = 1 \/ (i - 1 \in 1 .. Len(q) /\ i - 1 + 1 = i)
    BY <1>1
<1>3. \A i \in 1 .. Len(q) : i + 1 \in Reports(p) <=> i \in Reports(q)
    BY <1>1 DEF Reports
<1>4. CASE Reports(q) # {}
    <2>1. PICK i \in Reports(q) : \A j \in Reports(q) : j <= i
        BY <1>4, ReportsEnd
    <2>2. \A old : LastTold(q, old) = q[i].n
        BY <2>1, LastToldIs
    <2>3. i \in 1 .. Len(q) /\ i + 1 \in Reports(p)
        BY <1>1, <1>3 DEF Reports
    <2>4. \A j \in Reports(p) : j <= i + 1
        <3> TAKE j \in Reports(p)
        <3>1. j \in 1 .. Len(q) + 1
            BY <1>1 DEF Reports
        <3>2. CASE j = 1
            BY <1>1, <2>3, <3>2
        <3>3. CASE j - 1 \in 1 .. Len(q) /\ j - 1 + 1 = j
            <4>1. j - 1 \in Reports(q)
                BY <1>3, <3>3
            <4>2. j - 1 <= i
                BY <2>1, <4>1
            <4> QED
                BY <1>1, <2>3, <3>1, <4>2
        <3> QED
            BY <1>2, <3>1, <3>2, <3>3
    <2>5. LastTold(p, told) = p[i + 1].n
        BY <1>1, <2>3, <2>4, LastToldIs
    <2> QED
        BY <1>1, <2>2, <2>3, <2>5 DEF p
<1>5. CASE Reports(q) = {}
    <2>1. \A old : LastTold(q, old) = old
        BY <1>5, LastToldNone
    <2>2. \A j \in Reports(p) : j = 1
        BY <1>1, <1>2, <1>3, <1>5 DEF Reports
    <2>3. CASE frame.type = "progress"
        <3>1. 1 \in Reports(p) /\ \A j \in Reports(p) : j <= 1
            BY <1>1, <2>2, <2>3 DEF Reports
        <3>2. LastTold(p, told) = p[1].n
            BY <1>1, <3>1, LastToldIs
        <3> QED
            BY <1>1, <2>1, <2>3, <3>2 DEF p
    <2>4. CASE frame.type # "progress"
        <3>1. Reports(p) = {}
            BY <1>1, <2>2, <2>4 DEF Reports
        <3> QED
            BY <2>1, <2>4, <3>1, LastToldNone DEF p
    <2> QED
        BY <2>3, <2>4
<1> QED
    BY <1>4, <1>5

LEMMA ToldReleased ==
    ASSUME NEW q \in Seq(Frames), NEW n \in Nat, NEW told
    PROVE  LastTold(q \o [i \in 1 .. n |-> Frame("session")], told) = LastTold(q, told)
<1> DEFINE copies == [i \in 1 .. n |-> Frame("session")]
           p == q \o copies
<1>1. copies \in Seq(Frames) /\ Len(copies) = n /\ \A i \in 1 .. n : copies[i] = Frame("session")
    BY DEF Frames, Types, Frame
<1>2. /\ p \in Seq(Frames) /\ Len(p) = Len(q) + n /\ Len(q) \in Nat
      /\ DOMAIN p = 1 .. Len(q) + n /\ DOMAIN q = 1 .. Len(q)
      /\ \A i \in 1 .. Len(q) : p[i] = q[i] /\ i \in 1 .. Len(q) + n
      /\ \A i \in Len(q) + 1 .. Len(q) + n : p[i] = Frame("session")
    <2> HIDE DEF copies
    <2> QED
        BY <1>1
<1> HIDE DEF p
<1>3. \A i \in 1 .. Len(q) + n : i \in 1 .. Len(q) \/ i \in Len(q) + 1 .. Len(q) + n
    BY <1>2
<1>4. Frame("session").type # "progress"
    BY DEF Frame
<1>5. Reports(p) = Reports(q)
    BY <1>2, <1>3, <1>4 DEF Reports
<1>6. CASE Reports(q) = {}
    BY <1>5, <1>6, LastToldNone DEF p
<1>7. CASE Reports(q) # {}
    <2>1. PICK i \in Reports(q) : \A j \in Reports(q) : j <= i
        BY <1>7, ReportsEnd
    <2>2. LastTold(q, told) = q[i].n
        BY <2>1, LastToldIs
    <2>3. LastTold(p, told) = p[i].n
        BY <1>2, <1>5, <2>1, LastToldIs
    <2>4. p[i] = q[i]
        BY <1>2 DEF Reports
    <2> QED
        BY <2>2, <2>3, <2>4 DEF p
<1> QED
    BY <1>6, <1>7

-----------------------------------------------------------------------------
LEMMA Grouped ==
    ASSUME NEW a \in Seq(Frames), NEW b \in Seq(Frames), NEW d \in Seq(Frames)
    PROVE  (a \o b) \o d = a \o (b \o d)
    BY ConcatAssociative

LEMMA AppendedLast ==
    ASSUME NEW a \in Seq(Frames), NEW b \in Seq(Frames), NEW frame \in Frames
    PROVE  a \o Append(b, frame) = Append(a \o b, frame)
<1> DEFINE f == <<frame>>
<1>1. f \in Seq(Frames) /\ a \o b \in Seq(Frames)
    OBVIOUS
<1>2. Append(b, frame) = b \o f /\ Append(a \o b, frame) = (a \o b) \o f
    BY <1>1, AppendIsConcat
<1> HIDE DEF f
<1>3. (a \o b) \o f = a \o (b \o f)
    BY <1>1, Grouped
<1> QED
    BY <1>2, <1>3

\* A frame is queued, whatever else changes.
LEMMA Queued ==
    ASSUME NEW k, k.queue \in Seq(Frames), k.out \in Seq(Frames), NEW frame \in Frames,
           NEW s, s.out = k.out, s.queue = Append(k.queue, frame)
    PROVE  /\ s.queue \in Seq(Frames)
           /\ WorthOf(Wire(k)) \in Nat /\ WorthOf(Wire(s)) = WorthOf(Wire(k)) + Worth(frame)
           /\ \A told : LastTold(Wire(s), told) =
                IF frame.type = "progress" THEN frame.n ELSE LastTold(Wire(k), told)
<1>1. Wire(k) \in Seq(Frames)
    BY DEF Wire
<1>2. Wire(s) = Append(Wire(k), frame)
    <2>1. Wire(s) = k.out \o Append(k.queue, frame) /\ Wire(k) = k.out \o k.queue
        BY DEF Wire
    <2> QED
        BY <2>1, AppendedLast
<1> QED
    BY <1>1, <1>2, WorthAppended, ToldAppended

\* Session frames are queued.
Copies(n) == [i \in 1 .. n |-> Frame("session")]
LEMMA QueuedWire ==
    ASSUME NEW k, k.queue \in Seq(Frames), k.out \in Seq(Frames), NEW n \in Nat,
           NEW s, s.out = k.out, s.queue = k.queue \o Copies(n)
    PROVE  Wire(k) \in Seq(Frames) /\ s.queue \in Seq(Frames) /\ Wire(s) = Wire(k) \o Copies(n)
<1> DEFINE copies == Copies(n)
           o == k.out
           q == k.queue
<1>1. o \in Seq(Frames) /\ q \in Seq(Frames)
    OBVIOUS
<1>2. copies \in Seq(Frames)
    BY DEF Frames, Types, Frame, Copies
<1>3. Wire(k) = o \o q /\ Wire(s) = o \o (q \o copies) /\ s.queue = q \o copies
    BY DEF Wire
<1> HIDE DEF copies, o, q
<1>4. (o \o q) \o copies = o \o (q \o copies)
    BY <1>1, <1>2, Grouped
<1>5. o \o q \in Seq(Frames) /\ q \o copies \in Seq(Frames)
    BY <1>1, <1>2, ConcatProperties
<1> QED
    BY <1>3, <1>4, <1>5 DEF copies

LEMMA QueuedRows ==
    ASSUME NEW k, k.queue \in Seq(Frames), k.out \in Seq(Frames), NEW n \in Nat,
           NEW s, s.out = k.out, s.queue = k.queue \o Copies(n)
    PROVE  /\ s.queue \in Seq(Frames)
           /\ WorthOf(Wire(k)) \in Nat /\ WorthOf(Wire(s)) = WorthOf(Wire(k)) + n
<1>1. Wire(k) \in Seq(Frames) /\ s.queue \in Seq(Frames) /\ Wire(s) = Wire(k) \o Copies(n)
    BY QueuedWire
<1>2. Frame("stats") \in Frames
    BY DEF Frames, Types, Frame
<1>3. WorthOf(Wire(k)) \in Nat
    BY <1>1, <1>2, WorthAppended
<1>4. WorthOf(Wire(k) \o Copies(n)) = WorthOf(Wire(k)) + n
    BY <1>1, WorthReleased DEF Copies
<1> QED
    BY <1>1, <1>3, <1>4

LEMMA QueuedRowsTold ==
    ASSUME NEW k, k.queue \in Seq(Frames), k.out \in Seq(Frames), NEW n \in Nat, NEW told,
           NEW s, s.out = k.out, s.queue = k.queue \o Copies(n)
    PROVE  LastTold(Wire(s), told) = LastTold(Wire(k), told)
<1>1. Wire(k) \in Seq(Frames) /\ Wire(s) = Wire(k) \o Copies(n)
    BY QueuedWire
<1>2. LastTold(Wire(k) \o Copies(n), told) = LastTold(Wire(k), told)
    BY <1>1, ToldReleased DEF Copies
<1> QED
    BY <1>1, <1>2

LEMMA Fields ==
    ASSUME NEW k, Shape(k)
    PROVE  DOMAIN k = {"pc", "family", "ticket", "sensors", "queue", "out", "sub", "paused", "gen", "seq",
                       "sent", "dropped", "watched", "close", "gone", "ping", "nonce", "pongBy",
                       "opened", "nextPing", "nextStats", "ticked"}
    BY DEF Shape, Off

\* A socket keeps its shape if the fields that change do.
LEMMA ShapeKept ==
    ASSUME NEW k, Shape(k), NEW s, NEW S, Only(k, s, S),
           "queue" \in S => s.queue \in Seq(Frames),
           "out" \in S => s.out \in Seq(Frames) /\ Len(s.out) <= 1,
           \A x \in S \cap {"seq", "sent", "dropped", "watched", "pongBy", "nextPing"} : s[x] \in Nat,
           "close" \in S => s.close \in {0, 1000, 1013, 4403, 4408},
           "ping" \in S \/ "nonce" \in S => s.nonce \in Nat /\ s.ping \in {0, s.nonce},
           "sub" \in S \/ "gen" \in S =>
               /\ s.gen \in Nat /\ DOMAIN s.sub = DOMAIN NoSub
               /\ s.sub.gen \in Nat /\ s.sub.gen <= s.gen /\ s.sub.sensors \subseteq k.sensors,
           "sensors" \notin S
    PROVE  Shape(s)
<1>1. DOMAIN s = DOMAIN Off
    BY DEF Only, Shape
<1>2. \A x \in {"queue", "out", "gen", "seq", "sent", "dropped", "watched", "nonce", "ping", "pongBy",
               "nextPing", "close", "sub", "sensors"} : x \in S \/ s[x] = k[x]
    <2>1. \A x \in DOMAIN k : x \in S \/ s[x] = k[x]
        BY DEF Only
    <2> QED
        BY <2>1, Fields
<1>3. s.queue \in Seq(Frames)
    <2>1. k.queue \in Seq(Frames)
        BY DEF Shape
    <2> QED
        BY <1>2, <2>1
<1>4. s.out \in Seq(Frames) /\ Len(s.out) <= 1
    <2>1. k.out \in Seq(Frames) /\ Len(k.out) <= 1
        BY DEF Shape
    <2> QED
        BY <1>2, <2>1
<1>5. \A x \in {"seq", "sent", "dropped", "watched", "pongBy", "nextPing"} : s[x] \in Nat
    <2> TAKE x \in {"seq", "sent", "dropped", "watched", "pongBy", "nextPing"}
    <2>1. k[x] \in Nat
        BY DEF Shape
    <2>2. x \in S \/ s[x] = k[x]
        BY <1>2
    <2> QED
        BY <2>1, <2>2
<1>6. /\ s.seq \in Nat /\ s.sent \in Nat /\ s.dropped \in Nat /\ s.watched \in Nat
      /\ s.pongBy \in Nat /\ s.nextPing \in Nat
    BY <1>5
<1>7. s.nonce \in Nat /\ s.ping \in {0, s.nonce}
    <2>1. k.nonce \in Nat /\ k.ping \in {0, k.nonce}
        BY DEF Shape
    <2> QED
        BY <1>2, <2>1
<1>8. s.sensors = k.sensors
    BY <1>2
<1>9. s.close \in {0, 1000, 1013, 4403, 4408}
    <2>1. k.close \in {0, 1000, 1013, 4403, 4408}
        BY DEF Shape
    <2> QED
        BY <1>2, <2>1
<1>10. /\ s.gen \in Nat /\ DOMAIN s.sub = DOMAIN NoSub
       /\ s.sub.gen \in Nat /\ s.sub.gen <= s.gen /\ s.sub.sensors \subseteq k.sensors
    <2>1. CASE "sub" \in S \/ "gen" \in S
        BY <2>1
    <2>2. CASE s.sub = k.sub /\ s.gen = k.gen
        BY <2>2 DEF Shape
    <2> QED
        BY <1>2, <2>1, <2>2
<1> QED
    BY <1>1, <1>3, <1>4, <1>6, <1>7, <1>8, <1>9, <1>10 DEF Shape

\* The books of a socket: its shape and the two accounts.
Books(k, m) == Shape(k) /\ Balance(k, m) /\ Knows(k, m)

\* A frame that no account is about.
Plain(frame) == frame \in Frames /\ frame.type \notin {"session", "lagging", "progress"}

LEMMA BooksSend ==
    ASSUME NEW k, NEW m, NEW frame, Plain(frame), Shape(k)
    PROVE  /\ Shape(Send(k, frame)) /\ Only(k, Send(k, frame), {"queue", "sent"})
           /\ Books(k, m) => Books(Send(k, frame), m)
<1> DEFINE s == Send(k, frame)
           longer == Append(k.queue, frame)
           more == k.sent + 1
<1>1. s = [k EXCEPT !.queue = longer, !.sent = more]
    BY DEF Send
<1>2. more \in Nat /\ {"queue", "sent", "out"} \subseteq DOMAIN k
    BY DEF Shape, Off
<1> HIDE DEF s, longer, more
<1>3. Only(k, s, {"queue", "sent"})
    BY <1>1 DEF Only
<1>4. s.queue = longer /\ s.sent = more /\ s.out = k.out
    BY <1>1, <1>2
<1>5. k.queue \in Seq(Frames) /\ k.out \in Seq(Frames) /\ frame \in Frames
    BY DEF Plain, Shape
<1>6. /\ s.queue \in Seq(Frames)
      /\ WorthOf(Wire(k)) \in Nat /\ WorthOf(Wire(s)) = WorthOf(Wire(k)) + Worth(frame)
      /\ \A told : LastTold(Wire(s), told) =
           IF frame.type = "progress" THEN frame.n ELSE LastTold(Wire(k), told)
    BY <1>4, <1>5, Queued DEF longer
<1>7. Worth(frame) = 0 /\ frame.type # "progress"
    BY DEF Plain, Worth
<1>8. Shape(s)
    BY <1>2, <1>3, <1>4, <1>6, ShapeKept
<1>9. s.seq = k.seq /\ s.dropped = k.dropped /\ s.watched = k.watched
    BY <1>3 DEF Only, Shape, Off
<1>10. WorthOf(Wire(s)) = WorthOf(Wire(k)) /\ \A told : LastTold(Wire(s), told) = LastTold(Wire(k), told)
    BY <1>6, <1>7
<1>11. ASSUME Books(k, m) PROVE Books(s, m)
    <2>1. Balance(s, m)
        BY <1>9, <1>10, <1>11 DEF Books, Balance
    <2>2. Knows(s, m)
        BY <1>9, <1>10, <1>11 DEF Books, Knows
    <2> QED
        BY <1>8, <2>1, <2>2 DEF Books
<1> QED
    BY <1>3, <1>8, <1>11 DEF s

LEMMA OnlyAgain ==
    ASSUME NEW k, NEW m, NEW n, NEW S, NEW T, Only(k, m, S), Only(m, n, T)
    PROVE  Only(k, n, S \cup T)
    BY DEF Only

LEMMA OnlyLess ==
    ASSUME NEW k, NEW m, NEW S, NEW T, Only(k, m, S), S \subseteq T
    PROVE  Only(k, m, T)
    BY DEF Only

\* The books say nothing of the other fields.
Booked == {"queue", "out", "seq", "dropped", "watched"}
LEMMA BooksKept ==
    ASSUME NEW k, NEW m, Books(k, m), NEW s, NEW S, Only(k, s, S), S \cap Booked = {}, Shape(s)
    PROVE  Books(s, m)
<1>1. \A x \in Booked : x \in DOMAIN k /\ x \notin S
    <2>1. \A x \in Booked : x \in DOMAIN k
        BY Fields DEF Books, Booked
    <2> QED
        BY <2>1
<1>2. \A x \in Booked : s[x] = k[x]
    BY <1>1 DEF Only
<1>3. s.queue = k.queue /\ s.out = k.out /\ s.seq = k.seq /\ s.dropped = k.dropped /\ s.watched = k.watched
    BY <1>2 DEF Booked
<1>4. Wire(s) = Wire(k)
    BY <1>3 DEF Wire
<1>5. Balance(s, m)
    BY <1>3, <1>4 DEF Books, Balance
<1>6. Knows(s, m)
    BY <1>3, <1>4 DEF Books, Knows
<1> QED
    BY <1>5, <1>6 DEF Books

LEMMA BooksClose ==
    ASSUME NEW k, NEW m, Shape(k), NEW code \in {1000, 1013, 4403, 4408}
    PROVE  /\ Shape(Close(k, code)) /\ Only(k, Close(k, code), {"close"})
           /\ Close(k, code).close # 0
           /\ Books(k, m) => Books(Close(k, code), m)
<1> DEFINE s == Close(k, code)
<1>1. Only(k, s, {"close"}) /\ s.close # 0 /\ s.close \in {0, 1000, 1013, 4403, 4408}
    BY DEF Close, Only, Shape, Off
<1> HIDE DEF s
<1>2. Shape(s)
    BY <1>1, ShapeKept
<1>3. Books(k, m) => Books(s, m)
    BY <1>1, <1>2, BooksKept DEF Booked
<1> QED
    BY <1>1, <1>2, <1>3 DEF s

\* The rows of a round are stored rows: no file is imported here.
LEMMA NoneImported ==
    ASSUME imports = NoImports
    PROVE  /\ Imported = {} /\ Known = Sensors
           /\ \A s : Stored(s) = {r \in Rows : r.sensor = s}
           /\ \A s \in Sensors : VisibleUntil(s) = Visible(s, clock)
<1>1. Imported = {}
    BY DEF Imported, NoImports
<1>2. Known = Sensors
    BY <1>1 DEF Known
<1>3. \A s : Stored(s) = {r \in Rows : r.sensor = s}
    BY <1>1 DEF Stored
<1>4. \A s \in Sensors : VisibleUntil(s) = Now - Lag[s]
    <2> TAKE s \in Sensors
    <2>1. s \notin Imported
        BY <1>1
    <2> QED
        BY <2>1 DEF VisibleUntil
<1>5. \A s : Visible(s, clock) = Now - Lag[s]
    BY DEF Visible, Now
<1> QED
    BY <1>1, <1>2, <1>3, <1>4, <1>5

LEMMA MatchingRows ==
    ASSUME imports = NoImports, NEW k
    PROVE  /\ Matching(k) \subseteq Rows /\ IsFiniteSet(Matching(k))
           /\ Cardinality(Matching(k)) \in Nat /\ ToRelease(k) \in Nat
<1>1. \A s, lo, hi : RowsIn(s, lo, hi) \subseteq Rows
    BY NoneImported DEF RowsIn
<1>2. Matching(k) \subseteq Rows
    BY <1>1 DEF Matching, Unseen
<1>3. IsFiniteSet(Matching(k)) /\ Cardinality(Matching(k)) \in Nat
    BY <1>2, FS_Subset, FS_CardinalityType, RowsAssumption
<1>4. \A n \in Nat : (Burst + 1) * n \in Nat
    BY LiveAssumption
<1>5. ToRelease(k) \in Nat
    BY <1>3, <1>4 DEF ToRelease
<1> QED
    BY <1>2, <1>3, <1>5

\* The numbers of a round are given out, and queued or dropped.
LEMMA BooksReleased ==
    ASSUME NEW k, NEW m, Shape(k), NEW n \in Nat
    PROVE  /\ Shape(Released(k, n)) /\ Only(k, Released(k, n), {"queue", "sent", "seq", "dropped"})
           /\ Books(k, m) => Books(Released(k, n), m)
<1> DEFINE taken == IF n < Room(k) THEN n ELSE Room(k)
           s == Released(k, n)
           longer == k.queue \o [i \in 1 .. taken |-> Frame("session")]
           seq == k.seq + n
           sent == k.sent + taken
           dropped == k.dropped + n - taken
<1>1. taken \in Nat /\ taken <= n
    <2>1. Len(k.queue) \in Nat
        BY DEF Shape
    <2>2. Room(k) \in Nat
        BY <2>1, LiveAssumption DEF Room
    <2> QED
        BY <2>2
<1>2. s = [k EXCEPT !.seq = seq, !.sent = sent, !.dropped = dropped, !.queue = longer]
    BY DEF Released, SessionFrames
<1>3. seq \in Nat /\ sent \in Nat /\ dropped \in Nat
    <2> HIDE DEF taken
    <2>1. k.seq \in Nat /\ k.sent \in Nat /\ k.dropped \in Nat
        BY DEF Shape
    <2> QED
        BY <1>1, <2>1
<1>4. {"queue", "sent", "out", "seq", "dropped", "watched"} \subseteq DOMAIN k
    BY DEF Shape, Off
<1> HIDE DEF s, longer, seq, sent, dropped, taken
<1>5. Only(k, s, {"queue", "sent", "seq", "dropped"})
    BY <1>2 DEF Only
<1>6. /\ s.queue = longer /\ s.sent = sent /\ s.seq = seq /\ s.dropped = dropped
      /\ s.out = k.out /\ s.watched = k.watched
    BY <1>2, <1>4
<1>7. k.queue \in Seq(Frames) /\ k.out \in Seq(Frames)
    BY DEF Shape
<1>8. /\ s.queue \in Seq(Frames)
      /\ WorthOf(Wire(k)) \in Nat /\ WorthOf(Wire(s)) = WorthOf(Wire(k)) + taken
      /\ \A told : LastTold(Wire(s), told) = LastTold(Wire(k), told)
    <2>1. s.queue = k.queue \o Copies(taken) /\ s.out = k.out
        BY <1>6 DEF longer, Copies
    <2>2. taken \in Nat
        BY <1>1
    <2>3. s.queue \in Seq(Frames)
        BY <1>7, <2>1, <2>2, QueuedRows
    <2>4. WorthOf(Wire(k)) \in Nat
        BY <1>7, <2>1, <2>2, QueuedRows
    <2>5. WorthOf(Wire(s)) = WorthOf(Wire(k)) + taken
        BY <1>7, <2>1, <2>2, QueuedRows
    <2>6. \A told : LastTold(Wire(s), told) = LastTold(Wire(k), told)
        <3> TAKE told
        <3> QED
            BY <1>7, <2>1, <2>2, QueuedRowsTold
    <2> QED
        BY <2>3, <2>4, <2>5, <2>6
<1>9. Shape(s)
    <2>1. \A x \in {"queue", "sent", "seq", "dropped"}
                   \cap {"seq", "sent", "dropped", "watched", "pongBy", "nextPing"} : s[x] \in Nat
        BY <1>3, <1>6
    <2>2. s.queue \in Seq(Frames)
        BY <1>8
    <2> QED
        BY <1>5, <2>1, <2>2, ShapeKept
<1>10. ASSUME Books(k, m) PROVE Books(s, m)
    <2>1. Balance(s, m)
        <3> DEFINE W == WorthOf(Wire(k))
        <3>1. /\ k.seq = m.got + m.told + W + k.dropped /\ m.got \in Nat /\ m.told \in Nat
              /\ W \in Nat /\ k.dropped \in Nat
            BY <1>8, <1>10 DEF Books, Balance, Shape
        <3>2. seq = m.got + m.told + (W + taken) + dropped
            <4> HIDE DEF W
            <4> QED
                BY <1>1, <3>1 DEF seq, dropped
        <3> QED
            BY <1>6, <1>8, <3>1, <3>2 DEF Balance
    <2>2. Knows(s, m)
        BY <1>6, <1>8, <1>10 DEF Books, Knows
    <2> QED
        BY <1>9, <2>1, <2>2 DEF Books
<1> QED
    BY <1>5, <1>9, <1>10 DEF s

\* What a round makes of a subscription: new cursors.
Onward(k) == [s \in k.sub.sensors |-> Newest(k, s)]
LEMMA BooksSessions ==
    ASSUME NEW k, NEW m, Shape(k), imports = NoImports
    PROVE  /\ Shape(TickSessions(k))
           /\ Only(k, TickSessions(k), {"queue", "sent", "seq", "dropped", "sub"})
           /\ TickSessions(k).sub = IF k.sub = NoSub \/ k.paused THEN k.sub
                                    ELSE [k.sub EXCEPT !.cursor = Onward(k)]
           /\ Books(k, m) => Books(TickSessions(k), m)
<1>1. CASE k.sub = NoSub \/ k.paused
    <2>1. TickSessions(k) = k
        BY <1>1 DEF TickSessions
    <2> QED
        BY <1>1, <2>1 DEF Only
<1>2. CASE ~ (k.sub = NoSub \/ k.paused)
    <2> DEFINE r == Released(k, ToRelease(k))
               s == TickSessions(k)
    <2>1. /\ Shape(r) /\ Only(k, r, {"queue", "sent", "seq", "dropped"})
          /\ Books(k, m) => Books(r, m)
        BY MatchingRows, BooksReleased
    <2>2. s = [r EXCEPT !.sub.cursor = Onward(k)]
        BY <1>2 DEF TickSessions, Onward
    <2> HIDE DEF r, s
    <2>3. r.sub = k.sub /\ "sub" \in DOMAIN r
        BY <2>1, Fields DEF Only
    <2>4. s.sub = [k.sub EXCEPT !.cursor = Onward(k)] /\ Only(r, s, {"sub"})
        BY <2>2, <2>3 DEF Only
    <2>5. /\ DOMAIN s.sub = DOMAIN NoSub /\ s.sub.gen = k.sub.gen /\ s.sub.sensors = k.sub.sensors
        BY <2>4 DEF Shape, NoSub
    <2>6. s.gen = r.gen /\ r.sensors = k.sensors
        BY <2>1, <2>4, Fields DEF Only
    <2>7. Shape(s)
        <3>1. /\ s.gen \in Nat /\ s.sub.gen \in Nat /\ s.sub.gen <= s.gen
              /\ s.sub.sensors \subseteq r.sensors
            <4>1. r.gen = k.gen
                BY <2>1, Fields DEF Only
            <4> QED
                BY <2>5, <2>6, <4>1 DEF Shape
        <3>2. DOMAIN s.sub = DOMAIN NoSub
            BY <2>5
        <3>3. Shape(r) /\ Only(r, s, {"sub"})
            BY <2>1, <2>4
        <3> HIDE DEF Onward
        <3> QED
            BY <3>1, <3>2, <3>3, ShapeKept
    <2>8. Books(k, m) => Books(s, m)
        BY <2>1, <2>4, <2>7, BooksKept DEF Booked
    <2>9. Only(k, s, {"queue", "sent", "seq", "dropped"} \cup {"sub"})
        BY <2>1, <2>4, OnlyAgain
    <2>10. {"queue", "sent", "seq", "dropped"} \cup {"sub"} = {"queue", "sent", "seq", "dropped", "sub"}
        OBVIOUS
    <2> QED
        BY <1>2, <2>4, <2>7, <2>8, <2>9, <2>10 DEF s
<1> QED
    BY <1>1, <1>2

\* The loss report: the losses are on their way, and counted anew.
LEMMA BooksLagging ==
    ASSUME NEW k, NEW m, Shape(k)
    PROVE  /\ Shape(Lagging(k)) /\ Only(k, Lagging(k), {"queue", "sent", "dropped"})
           /\ Books(k, m) => Books(Lagging(k), m)
<1>1. CASE k.dropped = 0
    BY <1>1 DEF Lagging, Only
<1>2. CASE k.dropped # 0
    <2> DEFINE frame == FrameOf("lagging", k.dropped)
               longer == Append(k.queue, frame)
               s == Lagging(k)
    <2>1. frame \in Frames /\ frame.type = "lagging" /\ Worth(frame) = k.dropped
        <3>1. k.dropped \in Nat
            BY DEF Shape
        <3> QED
            BY <3>1 DEF Frames, Types, FrameOf, Worth
    <2>2. s = [[k EXCEPT !.queue = longer, !.sent = k.sent + 1] EXCEPT !.dropped = 0, !.sent = 0]
        BY <1>2 DEF Lagging, Send
    <2>3. {"queue", "sent", "out", "seq", "dropped", "watched"} \subseteq DOMAIN k
        BY Fields
    <2> HIDE DEF frame, longer, s
    <2>4. Only(k, s, {"queue", "sent", "dropped"})
        BY <2>2 DEF Only
    <2>5. /\ s.queue = longer /\ s.sent = 0 /\ s.dropped = 0
          /\ s.out = k.out /\ s.watched = k.watched /\ s.seq = k.seq
        BY <2>2, <2>3
    <2>6. k.queue \in Seq(Frames) /\ k.out \in Seq(Frames) /\ s.queue = Append(k.queue, frame)
        BY <2>5 DEF Shape, longer
    <2>7. /\ s.queue \in Seq(Frames)
          /\ WorthOf(Wire(k)) \in Nat /\ WorthOf(Wire(s)) = WorthOf(Wire(k)) + k.dropped
        BY <2>1, <2>5, <2>6, Queued
    <2>8. \A told : LastTold(Wire(s), told) = LastTold(Wire(k), told)
        <3> TAKE told
        <3>1. LastTold(Wire(s), told) = IF frame.type = "progress" THEN frame.n ELSE LastTold(Wire(k), told)
            BY <2>1, <2>5, <2>6, Queued
        <3> QED
            BY <2>1, <3>1
    <2>9. Shape(s)
        BY <2>4, <2>5, <2>7, ShapeKept
    <2>10. ASSUME Books(k, m) PROVE Books(s, m)
        <3>1. Balance(s, m)
            <4> DEFINE W == WorthOf(Wire(k))
            <4>1. /\ k.seq = m.got + m.told + W + k.dropped /\ m.got \in Nat /\ m.told \in Nat
                  /\ W \in Nat /\ k.dropped \in Nat
                BY <2>7, <2>10 DEF Books, Balance, Shape
            <4>2. k.seq = m.got + m.told + (W + k.dropped) + 0
                <5> HIDE DEF W
                <5> QED
                    BY <4>1
            <4> QED
                BY <2>5, <2>7, <4>1, <4>2 DEF Balance
        <3>2. Knows(s, m)
            BY <2>5, <2>8, <2>10 DEF Books, Knows
        <3> QED
            BY <2>9, <3>1, <3>2 DEF Books
    <2> QED
        BY <2>4, <2>9, <2>10 DEF s
<1> QED
    BY <1>1, <1>2

\* A report of the watched search: what the client will have been told last.
Reported(k) == Send([k EXCEPT !.watched = progress], FrameOf("progress", progress))
LEMMA BooksReported ==
    ASSUME NEW k, NEW m, Shape(k), progress \in Nat
    PROVE  /\ Shape(Reported(k)) /\ Only(k, Reported(k), {"queue", "sent", "watched"})
           /\ Books(k, m) => Books(Reported(k), m)
<1> DEFINE frame == FrameOf("progress", progress)
           longer == Append(k.queue, frame)
           more == k.sent + 1
           s == Reported(k)
<1>1. frame \in Frames /\ frame.type = "progress" /\ Worth(frame) = 0 /\ frame.n = progress
    BY DEF Frames, Types, FrameOf, Worth
<1>2. {"queue", "sent", "out", "seq", "dropped", "watched"} \subseteq DOMAIN k /\ more \in Nat
    <2>1. k.sent \in Nat
        BY DEF Shape
    <2> QED
        BY <2>1, Fields
<1>3. s = [[k EXCEPT !.watched = progress] EXCEPT !.queue = longer, !.sent = more]
    BY <1>2 DEF Reported, Send
<1> HIDE DEF frame, longer, s, more
<1>4. Only(k, s, {"queue", "sent", "watched"})
    BY <1>3 DEF Only
<1>5. /\ s.queue = longer /\ s.sent = more /\ s.watched = progress
      /\ s.out = k.out /\ s.dropped = k.dropped /\ s.seq = k.seq
    BY <1>2, <1>3
<1>6. k.queue \in Seq(Frames) /\ k.out \in Seq(Frames) /\ s.queue = Append(k.queue, frame)
    BY <1>5 DEF Shape, longer
<1>7. /\ s.queue \in Seq(Frames)
      /\ WorthOf(Wire(k)) \in Nat /\ WorthOf(Wire(s)) = WorthOf(Wire(k)) + 0
    BY <1>1, <1>5, <1>6, Queued
<1>8. LastTold(Wire(s), m.progress) = progress
    <2>1. LastTold(Wire(s), m.progress) =
            IF frame.type = "progress" THEN frame.n ELSE LastTold(Wire(k), m.progress)
        BY <1>1, <1>5, <1>6, Queued
    <2> QED
        BY <1>1, <2>1
<1>9. Shape(s)
    BY <1>2, <1>4, <1>5, <1>7, ShapeKept
<1>10. ASSUME Books(k, m) PROVE Books(s, m)
    <2>1. Balance(s, m)
        <3>1. WorthOf(Wire(s)) = WorthOf(Wire(k))
            BY <1>7
        <3> QED
            BY <1>5, <1>10, <3>1 DEF Books, Balance
    <2>2. Knows(s, m)
        BY <1>5, <1>8 DEF Knows
    <2> QED
        BY <1>9, <2>1, <2>2 DEF Books
<1> QED
    BY <1>4, <1>9, <1>10 DEF s

LEMMA BooksPeriodic ==
    ASSUME NEW k, NEW m, Shape(k), progress \in Nat
    PROVE  /\ Shape(TickPeriodic(k))
           /\ Only(k, TickPeriodic(k), {"queue", "sent", "dropped", "watched", "nextStats"})
           /\ Books(k, m) => Books(TickPeriodic(k), m)
<1> DEFINE All == {"queue", "sent", "dropped", "watched", "nextStats"}
           due == [k EXCEPT !.nextStats = clock + StatsInterval]
           a == Stats(due)
           b == Lagging(a)
           d == Watched(b)
<1>1. Only(k, k, All)
    BY DEF Only
<1>2. TickPeriodic(k) = k \/ TickPeriodic(k) = d
    BY DEF TickPeriodic
<1>3. Only(k, due, {"nextStats"})
    BY DEF Only
<1> HIDE DEF due, a, b, d, All
<1>4. Shape(due) /\ (Books(k, m) => Books(due, m))
    <2>1. Shape(due)
        BY <1>3, ShapeKept
    <2> QED
        BY <1>3, <2>1, BooksKept DEF Booked
<1>5. /\ Shape(a) /\ Only(due, a, {"queue", "sent"}) /\ (Books(due, m) => Books(a, m))
    <2>1. Plain(Frame("stats"))
        BY DEF Plain, Frame, Frames, Types
    <2>2. a = due \/ a = Send(due, Frame("stats"))
        BY DEF a, Stats
    <2>3. Only(due, due, {"queue", "sent"})
        BY DEF Only
    <2> QED
        BY <1>4, <2>1, <2>2, <2>3, BooksSend
<1>6. /\ Shape(b) /\ Only(a, b, {"queue", "sent", "dropped"}) /\ (Books(a, m) => Books(b, m))
    BY <1>5, BooksLagging DEF b
<1>7. /\ Shape(d) /\ Only(b, d, {"queue", "sent", "watched"}) /\ (Books(b, m) => Books(d, m))
    <2>1. d = b \/ d = Reported(b)
        BY DEF d, Watched, Reported
    <2>2. Only(b, b, {"queue", "sent", "watched"})
        BY DEF Only
    <2> QED
        BY <1>6, <2>1, <2>2, BooksReported
<1>8. Only(k, d, All)
    <2>1. Only(k, a, {"nextStats"} \cup {"queue", "sent"})
        BY <1>3, <1>5, OnlyAgain
    <2>2. Only(k, b, ({"nextStats"} \cup {"queue", "sent"}) \cup {"queue", "sent", "dropped"})
        BY <1>6, <2>1, OnlyAgain
    <2>3. Only(k, d, (({"nextStats"} \cup {"queue", "sent"}) \cup {"queue", "sent", "dropped"})
                       \cup {"queue", "sent", "watched"})
        BY <1>7, <2>2, OnlyAgain
    <2>4. (({"nextStats"} \cup {"queue", "sent"}) \cup {"queue", "sent", "dropped"})
             \cup {"queue", "sent", "watched"} \subseteq All
        BY DEF All
    <2> QED
        BY <2>3, <2>4, OnlyLess
<1>9. Books(k, m) => Books(d, m)
    BY <1>4, <1>5, <1>6, <1>7
<1> QED
    BY <1>1, <1>2, <1>7, <1>8, <1>9 DEF All

LEMMA BooksPing ==
    ASSUME NEW k, NEW m, Shape(k), clock \in Nat
    PROVE  /\ Shape(TickPing(k))
           /\ Only(k, TickPing(k), {"queue", "sent", "nonce", "ping", "nextPing", "pongBy", "close"})
           /\ Books(k, m) => Books(TickPing(k), m)
<1> DEFINE All == {"queue", "sent", "nonce", "ping", "nextPing", "pongBy", "close"}
           p == Pinged(k)
           frame == FrameOf("ping", p.ping)
           n == k.nonce + 1
           at == clock + Heartbeat
           by == clock + PongDeadline
<1>1. TickPing(k) = Close(k, 4408) \/ TickPing(k) = k \/ TickPing(k) = Send(p, frame)
    BY DEF TickPing
<1>2. p = [k EXCEPT !.nonce = n, !.ping = n, !.nextPing = at, !.pongBy = by]
    BY Fields DEF Pinged
<1>3. n \in Nat /\ at \in Nat /\ by \in Nat
    <2>1. k.nonce \in Nat
        BY DEF Shape
    <2>2. Heartbeat \in Nat /\ PongDeadline \in Nat
        BY LiveAssumption
    <2> QED
        BY <2>1, <2>2
<1> HIDE DEF p, frame, n, at, by, All
<1>4. Only(k, p, {"nonce", "ping", "nextPing", "pongBy"})
    BY <1>2 DEF Only
<1>5. p.nonce = n /\ p.ping = n /\ p.nextPing = at /\ p.pongBy = by
    BY <1>2, Fields
<1>6. Shape(p)
    BY <1>3, <1>4, <1>5, ShapeKept
<1>7. Books(k, m) => Books(p, m)
    BY <1>4, <1>6, BooksKept DEF Booked
<1>8. Plain(frame)
    BY <1>3, <1>5 DEF Plain, frame, FrameOf, Frames, Types
<1>9. /\ Shape(Send(p, frame)) /\ Only(p, Send(p, frame), {"queue", "sent"})
      /\ (Books(k, m) => Books(Send(p, frame), m))
    BY <1>6, <1>7, <1>8, BooksSend
<1>10. Only(k, Send(p, frame), All)
    <2>1. Only(k, Send(p, frame), {"nonce", "ping", "nextPing", "pongBy"} \cup {"queue", "sent"})
        BY <1>4, <1>9, OnlyAgain
    <2>2. {"nonce", "ping", "nextPing", "pongBy"} \cup {"queue", "sent"} \subseteq All
        BY DEF All
    <2> QED
        BY <2>1, <2>2, OnlyLess
<1>11. /\ Shape(Close(k, 4408)) /\ Only(k, Close(k, 4408), All)
       /\ (Books(k, m) => Books(Close(k, 4408), m))
    <2>1. {"close"} \subseteq All
        BY DEF All
    <2> QED
        BY <2>1, BooksClose, OnlyLess
<1>12. Only(k, k, All)
    BY DEF Only
<1> QED
    BY <1>1, <1>9, <1>10, <1>11, <1>12 DEF All

\* A whole round.
LEMMA BooksRound ==
    ASSUME NEW k, NEW m, Shape(k), progress \in Nat, clock \in Nat, imports = NoImports
    PROVE  /\ Shape(Ticked(k)) /\ Ticked(k).ticked = TRUE
           /\ Ticked(k).pc = k.pc /\ Ticked(k).gone = k.gone /\ Ticked(k).paused = k.paused
           /\ Ticked(k).sub = IF k.sub = NoSub \/ k.paused THEN k.sub
                              ELSE [k.sub EXCEPT !.cursor = Onward(k)]
           /\ \E p, q : /\ p.ping = k.ping /\ p.nonce = k.nonce /\ p.pongBy = k.pongBy
                        /\ p.nextPing = k.nextPing /\ p.close = k.close /\ Shape(p)
                        /\ q = TickPing(p)
                        /\ Ticked(k).ping = q.ping /\ Ticked(k).pongBy = q.pongBy
                        /\ Ticked(k).nextPing = q.nextPing
                        /\ (Ticked(k).close = 0 => q.close = 0)
           /\ Books(k, m) => Books(Ticked(k), m)
<1> DEFINE a == TickSessions(k)
           p == TickPeriodic(a)
           q == TickPing(p)
           r == TickRestart(q)
           s == Ticked(k)
<1>1. s = [r EXCEPT !.ticked = TRUE]
    BY DEF Ticked
<1>2. /\ Shape(a) /\ Only(k, a, {"queue", "sent", "seq", "dropped", "sub"})
      /\ a.sub = IF k.sub = NoSub \/ k.paused THEN k.sub ELSE [k.sub EXCEPT !.cursor = Onward(k)]
      /\ (Books(k, m) => Books(a, m))
    BY BooksSessions
<1> HIDE DEF a, s
<1>3. /\ Shape(p) /\ Only(a, p, {"queue", "sent", "dropped", "watched", "nextStats"})
      /\ (Books(a, m) => Books(p, m))
    BY <1>2, BooksPeriodic
<1> HIDE DEF p
<1>4. /\ Shape(q) /\ Only(p, q, {"queue", "sent", "nonce", "ping", "nextPing", "pongBy", "close"})
      /\ (Books(p, m) => Books(q, m))
    BY <1>3, BooksPing
<1>5. q = TickPing(p)
    OBVIOUS
<1> HIDE DEF q
<1>6. /\ Shape(r) /\ Only(q, r, {"close"}) /\ (Books(q, m) => Books(r, m))
      /\ (r.close = 0 => q.close = 0)
    <2>1. r = q \/ r = Close(q, 1013)
        BY DEF TickRestart
    <2>2. Only(q, q, {"close"})
        BY DEF Only
    <2> HIDE DEF r
    <2> QED
        BY <1>4, <2>1, <2>2, BooksClose
<1> HIDE DEF r
<1>7. Only(r, s, {"ticked"})
    BY <1>1 DEF Only
<1>8. Shape(s)
    BY <1>6, <1>7, ShapeKept
<1>9. Books(k, m) => Books(s, m)
    BY <1>2, <1>3, <1>4, <1>6, <1>7, <1>8, BooksKept DEF Booked
<1>10. s.ticked = TRUE
    BY <1>1, <1>6, Fields
<1>11. /\ s.ping = q.ping /\ s.pongBy = q.pongBy /\ s.nextPing = q.nextPing /\ s.close = r.close
    <2>1. /\ r.ping = q.ping /\ r.pongBy = q.pongBy /\ r.nextPing = q.nextPing
        BY <1>4, <1>6, Fields DEF Only
    <2>2. /\ s.ping = r.ping /\ s.pongBy = r.pongBy /\ s.nextPing = r.nextPing /\ s.close = r.close
        BY <1>6, <1>7, Fields DEF Only
    <2> QED
        BY <2>1, <2>2
<1>12. /\ p.ping = k.ping /\ p.nonce = k.nonce /\ p.pongBy = k.pongBy
       /\ p.nextPing = k.nextPing /\ p.close = k.close
    <2>1. /\ a.ping = k.ping /\ a.nonce = k.nonce /\ a.pongBy = k.pongBy
          /\ a.nextPing = k.nextPing /\ a.close = k.close
        BY <1>2, Fields DEF Only
    <2>2. /\ p.ping = a.ping /\ p.nonce = a.nonce /\ p.pongBy = a.pongBy
          /\ p.nextPing = a.nextPing /\ p.close = a.close
        BY <1>2, <1>3, Fields DEF Only
    <2> QED
        BY <2>1, <2>2
<1>13. \A x \in {"pc", "gone", "paused", "sub"} : s[x] = a[x]
    <2> TAKE x \in {"pc", "gone", "paused", "sub"}
    <2>1. p[x] = a[x]
        BY <1>2, <1>3, Fields DEF Only
    <2>2. q[x] = p[x]
        BY <1>3, <1>4, Fields DEF Only
    <2>3. r[x] = q[x]
        BY <1>4, <1>6, Fields DEF Only
    <2>4. s[x] = r[x]
        BY <1>6, <1>7, Fields DEF Only
    <2> QED
        BY <2>1, <2>2, <2>3, <2>4
<1>14. a.pc = k.pc /\ a.gone = k.gone /\ a.paused = k.paused
    BY <1>2, Fields DEF Only
<1>15. s.pc = k.pc /\ s.gone = k.gone /\ s.paused = k.paused /\ s.sub = a.sub
    BY <1>13, <1>14
<1>16. \E p1, q1 : /\ p1.ping = k.ping /\ p1.nonce = k.nonce /\ p1.pongBy = k.pongBy
                   /\ p1.nextPing = k.nextPing /\ p1.close = k.close /\ Shape(p1)
                   /\ q1 = TickPing(p1)
                   /\ s.ping = q1.ping /\ s.pongBy = q1.pongBy /\ s.nextPing = q1.nextPing
                   /\ (s.close = 0 => q1.close = 0)
    BY <1>3, <1>5, <1>6, <1>11, <1>12
<1> QED
    BY <1>2, <1>8, <1>9, <1>10, <1>15, <1>16 DEF s

\* A round sees to the ping: it is answered in time, out, or the socket ends.
LEMMA RoundBeats ==
    ASSUME NEW k, NEW m, Beats(k, m, clock), ~ k.gone, k.close = 0, clock \in Nat,
           NEW p, Shape(p), p.ping = k.ping, p.nonce = k.nonce, p.pongBy = k.pongBy,
           p.nextPing = k.nextPing, p.close = k.close,
           NEW q, q = TickPing(p),
           NEW s, s.ping = q.ping, s.pongBy = q.pongBy, s.nextPing = q.nextPing,
           s.close = 0 => q.close = 0,
           NEW w, w.heard = m.heard
    PROVE  Beats(s, w, clock)
<1>1. /\ Heartbeat \in Nat \ {0} /\ PongDeadline \in Nat \ {0} /\ m.heard \in Nat /\ m.heard <= clock
      /\ p.nonce \in Nat /\ p.nextPing \in Nat /\ p.pongBy \in Nat
    BY LiveAssumption DEF Beats, Shape
<1>2. SUFFICES ASSUME s.close = 0 PROVE Beats(s, w, clock)
    BY <1>1 DEF Beats
<1>3. CASE p.ping # 0 /\ clock >= p.pongBy
    <2>1. q.close # 0
        <3>1. q = Close(p, 4408)
            BY <1>3 DEF TickPing
        <3> QED
            BY <3>1, BooksClose
    <2> QED
        BY <1>2, <2>1
<1>4. CASE ~ (p.ping # 0 /\ clock >= p.pongBy) /\ (clock < p.nextPing \/ p.ping # 0)
    <2>1. q = p
        BY <1>4 DEF TickPing
    <2>2. CASE p.ping = 0
        <3>1. clock < k.nextPing /\ k.nextPing <= m.heard + Heartbeat
            BY <1>4, <2>2 DEF Beats
        <3> QED
            BY <1>1, <2>1, <2>2, <3>1 DEF Beats
    <2>3. CASE p.ping # 0
        <3>1. clock < k.pongBy /\ k.pongBy <= m.heard + Heartbeat + PongDeadline
              /\ k.nextPing <= clock + Heartbeat
            BY <1>1, <1>4, <2>3 DEF Beats
        <3> QED
            BY <1>1, <2>1, <2>3, <3>1 DEF Beats
    <2> QED
        BY <2>2, <2>3
<1>5. CASE p.ping = 0 /\ ~ clock < p.nextPing
    <2> DEFINE o == Pinged(p)
               n == p.nonce + 1
               at == clock + Heartbeat
               by == clock + PongDeadline
    <2>1. q = Send(o, FrameOf("ping", o.ping))
        BY <1>5 DEF TickPing
    <2>2. o = [p EXCEPT !.nonce = n, !.ping = n, !.nextPing = at, !.pongBy = by]
        BY Fields DEF Pinged
    <2> HIDE DEF o, n, at, by
    <2>3. o.ping = n /\ o.nextPing = at /\ o.pongBy = by
        BY <2>2, Fields
    <2>4. q.ping = n /\ q.nextPing = at /\ q.pongBy = by
        BY <2>1, <2>3 DEF Send
    <2>5. n # 0
        BY <1>1 DEF n
    <2>6. clock <= m.heard + Heartbeat
        <3>1. k.nextPing <= m.heard + Heartbeat /\ (clock <= k.nextPing \/ clock = m.heard)
            BY <1>5 DEF Beats
        <3> QED
            BY <1>1, <3>1
    <2>7. by <= m.heard + Heartbeat + PongDeadline /\ clock < by /\ at <= clock + Heartbeat
        BY <1>1, <2>6 DEF by, at
    <2> QED
        BY <1>1, <2>4, <2>5, <2>7 DEF Beats
<1> QED
    BY <1>3, <1>4, <1>5

-----------------------------------------------------------------------------
\* The order of the keys.
Pairs == Int \X Int
LEMMA KeysOrdered ==
    /\ \A a, b, d \in Pairs : KeyLess(a, b) /\ KeyLess(b, d) => KeyLess(a, d)
    /\ \A a, b, d \in Pairs : ~ KeyLess(a, b) /\ ~ KeyLess(b, d) => ~ KeyLess(a, d)
    /\ \A a, b \in Pairs : KeyLess(a, b) => ~ KeyLess(b, a)
    BY DEF KeyLess, Pairs

LEMMA KeysAreRows == \A r \in Rows : KeyOf(r) \in Pairs /\ KeyOf(r)[1] = r.start /\ KeyOf(r)[2] = r.id
    BY RowsAssumption DEF KeyOf, Pairs

LEMMA HoursInOrder ==
    ASSUME NEW a \in Int, NEW b \in Int, a <= b
    PROVE  HourOf(a) <= HourOf(b)
<1>1. Hour \in Nat \ {0}
    BY WorldAssumption
<1> QED
    BY <1>1 DEF HourOf

\* The rows past a cursor are the visible ones of its sensor.
Past(k, s) ==
    {r \in Rows : /\ r.sensor = s /\ r.start <= Visible(s, clock)
                  /\ KeyLess(k.sub.cursor[s], KeyOf(r))}
LEMMA UnseenIsPast ==
    ASSUME imports = NoImports, clock \in Nat, NEW k, NEW s \in Sensors, k.sub.cursor[s] \in Pairs
    PROVE  Unseen(k, s) = Past(k, s)
<1> DEFINE lo == k.sub.cursor[s][1]
           from == IF lo < DataStart THEN DataStart ELSE lo
<1>1. lo \in Int /\ Lag[s] \in Nat /\ Epoch \in Nat /\ DataStart \in Int
    BY WorldAssumption DEF Pairs
<1>2. Visible(s, clock) \in Int /\ Now \in Int /\ Visible(s, clock) < Now + 1
    BY <1>1 DEF Visible, Now
<1>3. \A r : r \in RowsIn(s, lo, Now + 1) <=>
         /\ r \in Rows /\ r.sensor = s
         /\ r.start >= lo /\ r.start < Now + 1 /\ r.start <= Visible(s, clock)
         /\ HourOf(r.start) >= HourOf(from)
    BY NoneImported DEF RowsIn
<1>4. ASSUME NEW r \in Rows, r.sensor = s, r.start <= Visible(s, clock),
             KeyLess(k.sub.cursor[s], KeyOf(r))
      PROVE  r \in RowsIn(s, lo, Now + 1)
    <2>1. r.start \in Int /\ r.start >= DataStart
        BY RowsAssumption, WorldAssumption
    <2>2. r.start >= lo
        BY <1>1, <1>4, <2>1 DEF KeyLess, KeyOf
    <2>3. from \in Int /\ from <= r.start
        BY <1>1, <2>1, <2>2
    <2>4. HourOf(r.start) >= HourOf(from)
        <3>1. HourOf(from) <= HourOf(r.start)
            BY <2>1, <2>3, HoursInOrder
        <3>2. HourOf(from) \in Int /\ HourOf(r.start) \in Int
            BY <2>1, <2>3, WorldAssumption DEF HourOf
        <3> QED
            BY <3>1, <3>2
    <2>5. r.start < Now + 1
        BY <1>2, <1>4, <2>1
    <2> QED
        BY <1>3, <1>4, <2>2, <2>4, <2>5
<1>5. \A r \in Unseen(k, s) : r \in RowsIn(s, lo, Now + 1) /\ KeyLess(k.sub.cursor[s], KeyOf(r))
    BY DEF Unseen
<1>6. Unseen(k, s) \subseteq Past(k, s)
    BY <1>3, <1>5 DEF Past
<1>7. Past(k, s) \subseteq Unseen(k, s)
    BY <1>4 DEF Past, Unseen
<1> QED
    BY <1>6, <1>7

\* Finitely many rows have a last one.
LEMMA LastRow ==
    ASSUME NEW S, S \subseteq Rows, S # {}, NEW hi \in Int, \A r \in S : r.start <= hi
    PROVE  \E r \in S : \A q \in S : ~ KeyLess(KeyOf(r), KeyOf(q))
<1>1. \A r \in S : r.start \in Nat /\ r.id \in Nat /\ r.id < IdLimit /\ IdLimit \in Nat
    BY RowsAssumption
<1> DEFINE Starts == {hi - r.start : r \in S}
<1>2. Starts \in SUBSET Nat /\ Starts # {}
    <2>1. \A r \in S : hi - r.start \in Nat
        BY <1>1
    <2> QED
        BY <2>1
<1>3. PICK m \in Starts : \A n \in Starts : m <= n
    <2> HIDE DEF Starts
    <2> QED
        BY <1>2, LeastOf
<1>4. PICK a \in S : m = hi - a.start
    OBVIOUS
<1>5. \A q \in S : q.start <= a.start
    <2> TAKE q \in S
    <2>1. hi - q.start \in Starts
        OBVIOUS
    <2>2. hi - a.start <= hi - q.start
        BY <1>3, <1>4, <2>1
    <2> QED
        BY <1>1, <2>2
<1> DEFINE Ids == {IdLimit - r.id : r \in {q \in S : q.start = a.start}}
<1>6. Ids \in SUBSET Nat /\ Ids # {}
    <2>1. \A r \in S : IdLimit - r.id \in Nat
        BY <1>1
    <2> QED
        BY <2>1
<1>7. PICK j \in Ids : \A n \in Ids : j <= n
    <2> HIDE DEF Ids
    <2> QED
        BY <1>6, LeastOf
<1>8. PICK b \in S : b.start = a.start /\ j = IdLimit - b.id
    OBVIOUS
<1>9. \A q \in S : q.start = a.start => q.id <= b.id
    <2> SUFFICES ASSUME NEW q \in S, q.start = a.start PROVE q.id <= b.id
        OBVIOUS
    <2>1. IdLimit - q.id \in Ids
        OBVIOUS
    <2>2. IdLimit - b.id <= IdLimit - q.id
        BY <1>7, <1>8, <2>1
    <2> QED
        BY <1>1, <2>2
<1>10. \A q \in S : ~ KeyLess(KeyOf(b), KeyOf(q))
    <2> TAKE q \in S
    <2>1. q.start <= b.start /\ (q.start = b.start => q.id <= b.id)
        BY <1>5, <1>8, <1>9
    <2>2. q.start \in Nat /\ b.start \in Nat /\ q.id \in Nat /\ b.id \in Nat
        BY <1>1
    <2> QED
        BY <2>1, <2>2 DEF KeyLess, KeyOf
<1> QED
    BY <1>10

\* The new cursor: no row past it, none before it that was not seen or taken.
LEMMA NewestTakesAll ==
    ASSUME imports = NoImports, clock \in Nat, NEW k, NEW s \in Sensors, k.sub.cursor[s] \in Pairs,
           k.sub.cursor[s][1] <= Visible(s, clock)
    PROVE  /\ Newest(k, s) \in Pairs /\ Newest(k, s)[1] <= Visible(s, clock)
           /\ ~ KeyLess(Newest(k, s), k.sub.cursor[s])
           /\ \A r \in Rows : r.sensor = s /\ r.start <= Visible(s, clock) =>
                 ~ KeyLess(Newest(k, s), KeyOf(r))
           /\ \A r \in Rows : r.sensor = s =>
                 (~ KeyLess(Newest(k, s), KeyOf(r)) <=>
                     r \in Past(k, s) \/ ~ KeyLess(k.sub.cursor[s], KeyOf(r)))
<1> DEFINE cursor == k.sub.cursor[s]
           new == Newest(k, s)
           hi == Visible(s, clock)
<1>1. hi \in Int /\ cursor \in Pairs /\ cursor[1] <= hi
    BY WorldAssumption DEF Visible
<1>2. Past(k, s) = {r \in Rows : r.sensor = s /\ r.start <= hi /\ KeyLess(cursor, KeyOf(r))}
    BY DEF Past
<1>3. \/ Past(k, s) = {} /\ new = cursor
      \/ \E r \in Past(k, s) : new = KeyOf(r) /\ \A q \in Past(k, s) : ~ KeyLess(KeyOf(r), KeyOf(q))
    <2>1. CASE Past(k, s) = {}
        BY <2>1, UnseenIsPast DEF Newest
    <2>2. CASE Past(k, s) # {}
        <3>1. \E r \in Past(k, s) : \A q \in Past(k, s) : ~ KeyLess(KeyOf(r), KeyOf(q))
            <4>1. Past(k, s) \subseteq Rows /\ \A r \in Past(k, s) : r.start <= hi
                BY <1>2
            <4> HIDE DEF hi
            <4> QED
                BY <1>1, <2>2, <4>1, LastRow
        <3>2. new = KeyOf(CHOOSE r \in Past(k, s) : \A q \in Past(k, s) : ~ KeyLess(KeyOf(r), KeyOf(q)))
            BY <2>2, UnseenIsPast DEF Newest
        <3> QED
            BY <3>1, <3>2
    <2> QED
        BY <2>1, <2>2
<1> HIDE DEF cursor, new, hi
<1>4. new \in Pairs /\ new[1] <= hi
    BY <1>1, <1>2, <1>3, KeysAreRows
<1>5. ~ KeyLess(new, cursor)
    <2>1. ~ KeyLess(cursor, cursor)
        BY <1>1 DEF KeyLess, Pairs
    <2>2. \A r \in Past(k, s) : KeyLess(cursor, KeyOf(r)) /\ r \in Rows
        BY <1>2
    <2> QED
        BY <1>1, <1>3, <2>1, <2>2, KeysOrdered, KeysAreRows
<1>6. \A r \in Past(k, s) : r \in Rows /\ ~ KeyLess(new, KeyOf(r))
    BY <1>2, <1>3
<1>7. ASSUME NEW r \in Rows, r.sensor = s, ~ KeyLess(cursor, KeyOf(r))
      PROVE  ~ KeyLess(new, KeyOf(r))
    BY <1>1, <1>4, <1>5, <1>7, KeysOrdered, KeysAreRows
<1>8. ASSUME NEW r \in Rows, r.sensor = s, r.start <= hi
      PROVE  ~ KeyLess(new, KeyOf(r))
    <2>1. CASE KeyLess(cursor, KeyOf(r))
        BY <1>2, <1>6, <1>8, <2>1
    <2>2. CASE ~ KeyLess(cursor, KeyOf(r))
        BY <1>7, <1>8, <2>2
    <2> QED
        BY <2>1, <2>2
<1>9. ASSUME NEW r \in Rows, r.sensor = s, ~ KeyLess(new, KeyOf(r)), KeyLess(cursor, KeyOf(r))
      PROVE  r \in Past(k, s)
    <2>1. r.start <= hi
        <3>1. r.start <= new[1] /\ r.start \in Int /\ new[1] \in Int
            <4>1. KeyOf(r) = <<r.start, r.id>> /\ r.start \in Int /\ r.id \in Int
                BY RowsAssumption DEF KeyOf
            <4> QED
                BY <1>4, <1>9, <4>1 DEF KeyLess, Pairs
        <3> QED
            BY <1>1, <1>4, <3>1
    <2> QED
        BY <1>2, <1>9, <2>1
<1>10. \A r \in Rows : r.sensor = s =>
          (~ KeyLess(new, KeyOf(r)) <=> r \in Past(k, s) \/ ~ KeyLess(cursor, KeyOf(r)))
    BY <1>6, <1>7, <1>9
<1> QED
    BY <1>4, <1>5, <1>8, <1>10 DEF cursor, new, hi

\* A round follows the rows: those it releases are the ones it had not yet.
LEMMA RoundFollows ==
    ASSUME imports = NoImports, clock \in Nat, NEW k, NEW m, Followed(k, m, clock), Shape(k),
           NEW s, s.sub = IF k.sub = NoSub \/ k.paused THEN k.sub
                          ELSE [k.sub EXCEPT !.cursor = Onward(k)],
           s.paused = k.paused,
           NEW w, w.begin = m.begin, w.shown = m.shown \cup {r.id : r \in Matching(k)},
           w.due = m.due + Cardinality(Matching(k))
    PROVE  Followed(s, w, clock)
<1>1. CASE k.sub = NoSub
    BY <1>1 DEF Followed
<1>2. CASE k.sub # NoSub /\ k.paused
    <2>1. Matching(k) = {} /\ s.sub = k.sub /\ Cardinality(Matching(k)) = 0
        BY <1>2, FS_EmptySet DEF Matching
    <2>2. Seen(s, w) = Seen(k, m) /\ (Placed(k, m, clock) => Placed(s, w, clock))
        BY <2>1 DEF Seen, Placed
    <2>3. m.due \in Nat
        <3>1. IsFiniteSet(Seen(k, m))
            BY FS_Subset, RowsAssumption DEF Seen
        <3> QED
            BY <1>2, <3>1, FS_CardinalityType DEF Followed
    <2>4. w.shown = m.shown /\ w.due = m.due
        BY <2>1, <2>3
    <2> QED
        BY <1>2, <2>1, <2>2, <2>4 DEF Followed
<1>3. CASE k.sub # NoSub /\ ~ k.paused
    <2> DEFINE S == k.sub.sensors
               old == k.sub.cursor
    <2>1. /\ s.sub.cursor = Onward(k) /\ s.sub.sensors = S /\ s.sub.matches = k.sub.matches
          /\ s.sub.gen = k.sub.gen /\ DOMAIN s.sub = DOMAIN k.sub
        BY <1>3 DEF Shape, NoSub
    <2>2. /\ S \subseteq Sensors /\ DOMAIN old = S /\ Placed(k, m, clock)
          /\ m.shown = {r.id : r \in Seen(k, m)} /\ m.due = Cardinality(Seen(k, m))
        BY <1>3 DEF Followed
    <2>3. \A x \in S : /\ m.begin[x] \in Int /\ old[x] \in Pairs /\ old[x][1] <= Visible(x, clock)
                       /\ ~ KeyLess(old[x], <<m.begin[x], IdLimit>>)
        BY <2>2 DEF Placed, Pairs
    <2> DEFINE new == Onward(k)
    <2>4. DOMAIN new = S /\ \A x \in S : new[x] = Newest(k, x)
        BY DEF Onward
    <2> HIDE DEF new
    <2>5. \A x \in S : <<m.begin[x], IdLimit>> \in Pairs
        BY <2>3, RowsAssumption DEF Pairs
    <2>6. ASSUME NEW x \in S
          PROVE  /\ new[x] \in Pairs /\ new[x][1] <= Visible(x, clock) /\ ~ KeyLess(new[x], old[x])
                 /\ \A r \in Rows : r.sensor = x /\ r.start <= Visible(x, clock) =>
                       ~ KeyLess(new[x], KeyOf(r))
                 /\ \A r \in Rows : r.sensor = x =>
                       (~ KeyLess(new[x], KeyOf(r)) <=> r \in Past(k, x) \/ ~ KeyLess(old[x], KeyOf(r)))
        <3>1. x \in Sensors /\ k.sub.cursor[x] \in Pairs /\ k.sub.cursor[x][1] <= Visible(x, clock)
            BY <2>2, <2>3
        <3>2. new[x] = Newest(k, x)
            BY <2>4
        <3>3. /\ new[x] \in Pairs /\ new[x][1] <= Visible(x, clock) /\ ~ KeyLess(new[x], old[x])
              /\ \A r \in Rows : r.sensor = x /\ r.start <= Visible(x, clock) =>
                    ~ KeyLess(new[x], KeyOf(r))
            BY <3>1, <3>2, NewestTakesAll
        <3>4. \A r \in Rows : r.sensor = x =>
                 (~ KeyLess(new[x], KeyOf(r)) <=> r \in Past(k, x) \/ ~ KeyLess(old[x], KeyOf(r)))
            <4> TAKE r \in Rows
            <4> QED
                BY <3>1, <3>2, NewestTakesAll
        <3> QED
            BY <3>3, <3>4
    <2>7. Placed(s, w, clock)
        <3>1. ASSUME NEW x \in S
              PROVE  ~ KeyLess(new[x], <<m.begin[x], IdLimit>>)
            <4>1. /\ new[x] \in Pairs /\ old[x] \in Pairs /\ <<m.begin[x], IdLimit>> \in Pairs
                  /\ ~ KeyLess(new[x], old[x]) /\ ~ KeyLess(old[x], <<m.begin[x], IdLimit>>)
                BY <2>3, <2>5, <2>6
            <4> DEFINE first == <<m.begin[x], IdLimit>>
            <4> HIDE DEF old, first
            <4> QED
                BY <4>1, KeysOrdered, Zenon DEF first
        <3> QED
            BY <2>1, <2>3, <2>6, <3>1 DEF Placed, Pairs, new
    <2>8. \A r : r \in Matching(k) <=>
            r \in Rows /\ r.sensor \in S /\ r.id \in k.sub.matches /\ r \in Past(k, r.sensor)
        <3>1. \A x \in S : Unseen(k, x) = Past(k, x)
            BY <2>2, <2>3, UnseenIsPast
        <3>2. \A r : r \in Matching(k) <=> (\E x \in S : r \in Past(k, x)) /\ r.id \in k.sub.matches
            BY <1>3, <3>1 DEF Matching
        <3> QED
            BY <3>2 DEF Past
    <2>9. ASSUME NEW r \in Matching(k)
          PROVE  m.begin[r.sensor] < r.start /\ KeyLess(old[r.sensor], KeyOf(r))
        <3> DEFINE x == r.sensor
        <3>1. r \in Rows /\ x \in S /\ KeyLess(old[x], KeyOf(r))
            BY <2>8 DEF Past
        <3>2. /\ KeyOf(r) = <<r.start, r.id>> /\ r.start \in Int /\ r.id \in Int /\ r.id < IdLimit
              /\ IdLimit \in Int
            BY <3>1, RowsAssumption DEF KeyOf
        <3>3. /\ m.begin[x] \in Int /\ old[x] \in Pairs
              /\ ~ KeyLess(old[x], <<m.begin[x], IdLimit>>)
            BY <2>3, <3>1
        <3> HIDE DEF x
        <3>4. m.begin[x] < r.start
            <4> DEFINE c == old[x]
                       b == m.begin[x]
            <4>1. c \in Pairs /\ b \in Int /\ ~ KeyLess(c, <<b, IdLimit>>) /\ KeyLess(c, <<r.start, r.id>>)
                BY <3>1, <3>2, <3>3
            <4> HIDE DEF c, b
            <4>2. b < r.start
                BY <3>2, <4>1 DEF KeyLess, Pairs
            <4> QED
                BY <4>2 DEF b
        <3> QED
            BY <3>1, <3>4 DEF x
    <2>10. \A r : r \in Seen(s, w) <=> r \in Seen(k, m) \/ r \in Matching(k)
        <3>1. \A r : r \in Seen(s, w) <=>
                 /\ r \in Rows /\ r.sensor \in S /\ r.id \in k.sub.matches
                 /\ m.begin[r.sensor] < r.start /\ ~ KeyLess(new[r.sensor], KeyOf(r))
            BY <2>1 DEF Seen, new
        <3>2. \A r : r \in Seen(k, m) <=>
                 /\ r \in Rows /\ r.sensor \in S /\ r.id \in k.sub.matches
                 /\ m.begin[r.sensor] < r.start /\ ~ KeyLess(old[r.sensor], KeyOf(r))
            BY DEF Seen
        <3>3. \A r \in Rows : r.sensor \in S =>
                 (~ KeyLess(new[r.sensor], KeyOf(r)) <=>
                     r \in Past(k, r.sensor) \/ ~ KeyLess(old[r.sensor], KeyOf(r)))
            BY <2>6
        <3> HIDE DEF S, old
        <3> QED
            BY <2>8, <2>9, <3>1, <3>2, <3>3
    <2>11. Seen(k, m) \cap Matching(k) = {}
        BY <2>9 DEF Seen
    <2>12. /\ IsFiniteSet(Seen(k, m)) /\ IsFiniteSet(Matching(k))
           /\ Cardinality(Seen(k, m)) \in Nat /\ Cardinality(Matching(k)) \in Nat
        BY FS_Subset, FS_CardinalityType, RowsAssumption, MatchingRows DEF Seen
    <2>13. Seen(s, w) = Seen(k, m) \cup Matching(k)
        BY <2>10
    <2>14. w.due = Cardinality(Seen(s, w))
        <3>1. Cardinality(Seen(k, m) \cup Matching(k)) = Cardinality(Seen(k, m)) + Cardinality(Matching(k)) - 0
            BY <2>11, <2>12, FS_Union, FS_EmptySet
        <3> QED
            BY <2>2, <2>12, <2>13, <3>1
    <2>15. w.shown = {r.id : r \in Seen(s, w)}
        BY <2>2, <2>13
    <2>16. \A r \in Rows : r.sensor \in S /\ r.start <= Visible(r.sensor, clock) =>
              ~ KeyLess(new[r.sensor], KeyOf(r))
        BY <2>6
    <2>17. s.sub.sensors \subseteq Sensors /\ DOMAIN s.sub.cursor = s.sub.sensors
        BY <2>1, <2>2, <2>4 DEF new
    <2> QED
        BY <2>1, <2>7, <2>14, <2>15, <2>16, <2>17 DEF Followed, new
<1> QED
    BY <1>1, <1>2, <1>3

-----------------------------------------------------------------------------
\* What keeps the last two parts of a conversation.
LEMMA BeatsKept ==
    ASSUME NEW k, NEW m, NEW t, Beats(k, m, t), NEW b, NEW w, w.heard = m.heard,
           b.ping = k.ping, b.nextPing = k.nextPing, b.pongBy = k.pongBy,
           b.gone <=> k.gone, b.ticked => k.ticked, b.close = 0 => k.close = 0
    PROVE  Beats(b, w, t)
    BY DEF Beats

LEMMA FollowedKept ==
    ASSUME NEW k, NEW m, NEW t, Followed(k, m, t), NEW b, NEW w, b.sub = k.sub,
           w.begin = m.begin, w.shown = m.shown, w.due = m.due,
           b.ticked /\ ~ b.paused => k.ticked /\ ~ k.paused
    PROVE  Followed(b, w, t)
<1>1. Seen(b, w) = Seen(k, m)
    BY DEF Seen
<1>2. Placed(k, m, t) => Placed(b, w, t)
    BY DEF Placed
<1> QED
    BY <1>1, <1>2 DEF Followed

LEMMA BooksOfClient ==
    ASSUME NEW k, NEW m, Books(k, m), NEW w, w.got = m.got, w.told = m.told, w.progress = m.progress
    PROVE  Books(k, w)
    BY DEF Books, Balance, Knows

\* A socket that is to be closed goes on talking till its loop ends.
LEMMA CloseTalks ==
    ASSUME NEW k, NEW m, NEW t, Talk(k, m, t), k.pc \in {"open", "stopping"},
           NEW code \in {1000, 1013, 4403, 4408}
    PROVE  /\ Talk(Close(k, code), m, t)
           /\ Close(k, code).pc = k.pc /\ Close(k, code).family = k.family
<1> DEFINE s == Close(k, code)
<1>1. Shape(k) /\ DOMAIN m = DOMAIN Fresh
    BY DEF Talk
<1>2. /\ Shape(s) /\ Only(k, s, {"close"}) /\ s.close # 0 /\ (Books(k, m) => Books(s, m))
    BY <1>1, BooksClose
<1> HIDE DEF s
<1>3. /\ s.pc = k.pc /\ s.family = k.family /\ s.gone = k.gone /\ s.sub = k.sub /\ s.paused = k.paused
      /\ s.ticked = k.ticked /\ s.ping = k.ping /\ s.nextPing = k.nextPing /\ s.pongBy = k.pongBy
    BY <1>1, <1>2, Fields DEF Only
<1>4. ASSUME s.pc = "open" PROVE Beats(s, m, t) /\ Followed(s, m, t)
    <2>1. Beats(k, m, t) /\ Followed(k, m, t)
        BY <1>3, <1>4 DEF Talk
    <2>2. Beats(s, m, t)
        BY <1>2, <1>3, <2>1, BeatsKept
    <2>3. Followed(s, m, t)
        BY <1>3, <2>1, FollowedKept
    <2> QED
        BY <2>2, <2>3
<1>5. s.pc = "open" /\ ~ s.gone => Balance(s, m) /\ Knows(s, m)
    BY <1>1, <1>2, <1>3 DEF Talk, Books
<1>6. Talk(s, m, t)
    BY <1>1, <1>2, <1>3, <1>4, <1>5 DEF Talk
<1> QED
    BY <1>3, <1>6 DEF s

\* One socket and its client change.
LEMMA OneTalks ==
    ASSUME TapInv, NEW c \in Clients, NEW k, NEW m, Talk(k, m, clock),
           k.pc \in {"off", "accepting", "open", "stopping"}, k.pc # "off" => k.family \in Families,
           sock' = [sock EXCEPT ![c] = k],
           DOMAIN client' = Clients, client'[c] = m,
           \A d \in Clients \ {c} : client'[d] = client[d],
           UNCHANGED <<clock, imports, progress, alive, opened>>,
           \A x \in DOMAIN tickets' : TicketOK(tickets'[x])
    PROVE  TapInv'
<1>1. /\ DOMAIN sock' = Clients /\ DOMAIN client' = Clients /\ sock'[c] = k /\ client'[c] = m
      /\ \A d \in Clients \ {c} : sock'[d] = sock[d] /\ client'[d] = client[d]
    BY DEF TapInv
<1>2. \A d \in Clients : Talk(sock'[d], client'[d], clock)
    BY <1>1 DEF TapInv
<1>3. \A d \in Clients : /\ sock'[d].pc \in {"off", "accepting", "open", "stopping"}
                         /\ sock'[d].pc # "off" => sock'[d].family \in Families
    BY <1>1 DEF TapInv
<1> QED
    BY <1>1, <1>2, <1>3 DEF TapInv

LEMMA OneTalksAlone ==
    ASSUME TapInv, NEW c \in Clients, NEW k, Talk(k, client[c], clock),
           k.pc \in {"off", "accepting", "open", "stopping"}, k.pc # "off" => k.family \in Families,
           sock' = [sock EXCEPT ![c] = k], client' = client,
           UNCHANGED <<clock, imports, progress, alive, opened>>,
           \A x \in DOMAIN tickets' : TicketOK(tickets'[x])
    PROVE  TapInv'
<1>1. DOMAIN client' = Clients /\ client'[c] = client[c] /\ \A d \in Clients \ {c} : client'[d] = client[d]
    BY DEF TapInv
<1> QED
    BY <1>1, OneTalks

-----------------------------------------------------------------------------
\* A round.
LEMMA TickTalks ==
    ASSUME TapInv, NEW c \in Clients, Tick(c)
    PROVE  TapInv'
<1> DEFINE k == sock[c]
           m == client[c]
           s == Ticked(k)
           w == [m EXCEPT !.shown = @ \cup {r.id : r \in Matching(k)},
                          !.due = @ + Cardinality(Matching(k))]
<1>1. /\ k.pc = "open" /\ k.close = 0 /\ ~ k.gone
      /\ sock' = [sock EXCEPT ![c] = s]
      /\ UNCHANGED <<clock, imports, progress, alive, opened, tickets>>
    BY DEF Tick, Running, worldVars
<1>2. client' = [client EXCEPT ![c] = w]
    <2>1. client' = [client EXCEPT ![c].shown = @ \cup {r.id : r \in Matching(sock[c])},
                                   ![c].due = @ + Cardinality(Matching(sock[c]))]
        BY DEF Tick
    <2>2. c \in DOMAIN client
        BY DEF TapInv
    <2> QED
        BY <2>1, <2>2
<1>3. /\ Shape(k) /\ DOMAIN m = DOMAIN Fresh /\ Books(k, m) /\ Beats(k, m, clock) /\ Followed(k, m, clock)
      /\ k.family \in Families
    BY <1>1 DEF TapInv, Talk, Books
<1>4. progress \in Nat /\ clock \in Nat /\ imports = NoImports
    BY LiveAssumption DEF TapInv
<1>5. /\ w.heard = m.heard /\ w.begin = m.begin /\ w.got = m.got /\ w.told = m.told
      /\ w.progress = m.progress /\ w.shown = m.shown \cup {r.id : r \in Matching(k)}
      /\ w.due = m.due + Cardinality(Matching(k)) /\ DOMAIN w = DOMAIN Fresh
    BY <1>3 DEF Fresh
<1> HIDE DEF k, m, s, w
<1>6. /\ Shape(s) /\ s.ticked = TRUE
      /\ s.pc = k.pc /\ s.gone = k.gone /\ s.paused = k.paused
      /\ s.sub = IF k.sub = NoSub \/ k.paused THEN k.sub ELSE [k.sub EXCEPT !.cursor = Onward(k)]
      /\ Books(s, m)
    BY <1>3, <1>4, BooksRound DEF s
<1>7. PICK p, q : /\ p.ping = k.ping /\ p.nonce = k.nonce /\ p.pongBy = k.pongBy
                  /\ p.nextPing = k.nextPing /\ p.close = k.close /\ Shape(p)
                  /\ q = TickPing(p)
                  /\ s.ping = q.ping /\ s.pongBy = q.pongBy /\ s.nextPing = q.nextPing
                  /\ (s.close = 0 => q.close = 0)
    BY <1>3, <1>4, BooksRound DEF s
<1>8. Beats(s, w, clock)
    BY <1>1, <1>3, <1>4, <1>5, <1>7, RoundBeats
<1>9. Followed(s, w, clock)
    BY <1>3, <1>4, <1>5, <1>6, RoundFollows
<1>10. Books(s, w)
    BY <1>5, <1>6, BooksOfClient
<1>11. s.family = k.family
    <2>1. s.family = Ticked(k).family /\ Identity \subseteq DOMAIN k
        BY <1>3, Fields DEF Identity, s
    <2> QED
        BY <2>1, RoundSteady DEF Steady
<1>12. Talk(s, w, clock)
    BY <1>1, <1>5, <1>6, <1>8, <1>9, <1>10 DEF Talk, Books
<1>13. /\ DOMAIN client' = Clients /\ client'[c] = w
       /\ \A d \in Clients \ {c} : client'[d] = client[d]
    BY <1>2 DEF TapInv
<1>14. \A x \in DOMAIN tickets' : TicketOK(tickets'[x])
    BY <1>1 DEF TapInv
<1> QED
    BY <1>1, <1>3, <1>6, <1>11, <1>12, <1>13, <1>14, OneTalks

-----------------------------------------------------------------------------
\* The frames of a client.  After one of them there is no round to speak for.
Unticked(b) == [b EXCEPT !.ticked = FALSE]
LEMMA UntickedFields ==
    ASSUME NEW b, Shape(b)
    PROVE  /\ Shape(Unticked(b)) /\ Only(b, Unticked(b), {"ticked"}) /\ Unticked(b).ticked = FALSE
           /\ Unticked(b).pc = b.pc /\ Unticked(b).family = b.family /\ Unticked(b).gone = b.gone
           /\ Unticked(b).sub = b.sub /\ Unticked(b).close = b.close /\ Unticked(b).ping = b.ping
           /\ Unticked(b).nextPing = b.nextPing /\ Unticked(b).pongBy = b.pongBy
<1>1. Only(b, Unticked(b), {"ticked"})
    BY DEF Only, Unticked
<1>2. Shape(Unticked(b))
    BY <1>1, ShapeKept
<1>3. Unticked(b).ticked = FALSE
    BY Fields DEF Unticked
<1>4. \A x \in DOMAIN b : x # "ticked" => Unticked(b)[x] = b[x]
    BY <1>1 DEF Only
<1> QED
    BY <1>1, <1>2, <1>3, <1>4, Fields

\* The conversation a frame is part of.
LEMMA Conversing ==
    ASSUME TapInv, NEW c \in Clients, sock[c].pc = "open", ~ sock[c].gone
    PROVE  /\ Shape(sock[c]) /\ Books(sock[c], client[c]) /\ DOMAIN client[c] = DOMAIN Fresh
           /\ Beats(sock[c], client[c], clock) /\ Followed(sock[c], client[c], clock)
           /\ sock[c].family \in Families
<1>1. Talk(sock[c], client[c], clock) /\ sock[c].family \in Families
    BY DEF TapInv
<1> QED
    BY <1>1 DEF Talk, Books

LEMMA HandledTalks ==
    ASSUME TapInv, NEW c \in Clients, NEW b, NEW w, Handled(c, b, w),
           NEW S, Only(sock[c], b, S), S \cap {"pc", "family", "gone"} = {},
           Shape(b), Books(b, w), DOMAIN w = DOMAIN Fresh,
           Beats(Unticked(b), w, clock), Followed(Unticked(b), w, clock)
    PROVE  TapInv'
<1> DEFINE k == sock[c]
           s == Unticked(b)
           v == [w EXCEPT !.frames = @ + 1]
<1>1. /\ k.pc = "open" /\ ~ k.gone /\ sock' = [sock EXCEPT ![c] = s]
      /\ client' = [client EXCEPT ![c] = v]
      /\ UNCHANGED <<clock, imports, progress, alive, opened, tickets>>
    BY DEF Handled, Running, worldVars, Unticked
<1>2. /\ v.heard = w.heard /\ v.begin = w.begin /\ v.got = w.got /\ v.told = w.told
      /\ v.progress = w.progress /\ v.shown = w.shown /\ v.due = w.due /\ DOMAIN v = DOMAIN Fresh
    BY DEF Fresh
<1>3. Shape(k) /\ k.family \in Families
    BY <1>1, Conversing
<1> HIDE DEF v, s
<1>4. DOMAIN client' = Clients /\ client'[c] = v /\ \A d \in Clients \ {c} : client'[d] = client[d]
    BY <1>1 DEF TapInv
<1>5. b.pc = k.pc /\ b.family = k.family /\ b.gone = k.gone
    BY <1>3, Fields DEF Only
<1>6. /\ Shape(s) /\ Only(b, s, {"ticked"})
      /\ s.pc = b.pc /\ s.family = b.family /\ s.gone = b.gone
    BY UntickedFields DEF s
<1>7. Books(s, v)
    <2>1. Books(b, v)
        BY <1>2, BooksOfClient
    <2> QED
        BY <1>6, <2>1, BooksKept DEF Booked
<1>8. Beats(s, v, clock) /\ Followed(s, v, clock)
    <2>1. Beats(s, w, clock) /\ Followed(s, w, clock)
        BY DEF s
    <2> QED
        BY <1>2, <2>1, BeatsKept, FollowedKept
<1>9. Talk(s, v, clock)
    BY <1>1, <1>2, <1>5, <1>6, <1>7, <1>8 DEF Talk, Books
<1>10. \A x \in DOMAIN tickets' : TicketOK(tickets'[x])
    BY <1>1 DEF TapInv
<1>11. s.pc \in {"off", "accepting", "open", "stopping"} /\ s.family \in Families
    BY <1>1, <1>3, <1>5, <1>6
<1> QED
    BY <1>1, <1>4, <1>9, <1>10, <1>11, OneTalks

\* A frame that moves neither the pings nor the subscription.
LEMMA FrameTalks ==
    ASSUME TapInv, NEW c \in Clients, NEW b, Handled(c, b, client[c]),
           NEW S, Only(sock[c], b, S),
           S \cap {"pc", "family", "gone", "ping", "pongBy", "nextPing", "sub"} = {},
           Shape(b), Books(sock[c], client[c]) => Books(b, client[c]),
           b.close = 0 => sock[c].close = 0
    PROVE  TapInv'
<1> DEFINE k == sock[c]
           m == client[c]
           s == Unticked(b)
<1>1. k.pc = "open" /\ ~ k.gone
    BY DEF Handled, Running
<1>2. /\ Shape(k) /\ Books(k, m) /\ DOMAIN m = DOMAIN Fresh /\ Beats(k, m, clock)
      /\ Followed(k, m, clock)
    BY <1>1, Conversing
<1>3. /\ b.ping = k.ping /\ b.nextPing = k.nextPing /\ b.pongBy = k.pongBy /\ b.gone = k.gone
      /\ b.sub = k.sub
    BY <1>2, Fields DEF Only
<1>4. /\ s.ping = b.ping /\ s.nextPing = b.nextPing /\ s.pongBy = b.pongBy /\ s.gone = b.gone
      /\ s.sub = b.sub /\ s.close = b.close /\ s.ticked = FALSE
    BY UntickedFields
<1> HIDE DEF s
<1>5. Beats(s, m, clock)
    BY <1>2, <1>3, <1>4, BeatsKept
<1>6. Followed(s, m, clock)
    BY <1>2, <1>3, <1>4, FollowedKept
<1>7. S \cap {"pc", "family", "gone"} = {} /\ Books(b, m)
    BY <1>2
<1> QED
    BY <1>2, <1>5, <1>6, <1>7, HandledTalks DEF s

LEMMA ComplainTalks ==
    ASSUME TapInv, NEW c \in Clients, Complain(c)
    PROVE  TapInv'
<1> DEFINE k == sock[c]
           b == Send(k, Frame("error"))
<1>1. Handled(c, b, client[c]) /\ k.pc = "open" /\ ~ k.gone
    BY DEF Complain, Handled, Running
<1>2. Shape(k) /\ Plain(Frame("error"))
    BY <1>1, Conversing DEF Plain, Frame, Frames, Types
<1>3. /\ Shape(b) /\ Only(k, b, {"queue", "sent"}) /\ (Books(k, client[c]) => Books(b, client[c]))
    BY <1>2, BooksSend
<1>4. b.close = k.close
    BY <1>2, <1>3, Fields DEF Only
<1> HIDE DEF b
<1> QED
    BY <1>1, <1>3, <1>4, FrameTalks

LEMMA PauseTalks ==
    ASSUME TapInv, NEW c \in Clients, Pause(c) \/ Resume(c)
    PROVE  TapInv'
<1> DEFINE k == sock[c]
<1>1. PICK b : Handled(c, b, client[c]) /\ b \in {[k EXCEPT !.paused = TRUE], [k EXCEPT !.paused = FALSE]}
    BY DEF Pause, Resume
<1>2. Only(k, b, {"paused"}) /\ k.pc = "open" /\ ~ k.gone
    BY <1>1 DEF Only, Handled, Running
<1>3. Shape(k)
    BY <1>2, Conversing
<1>4. Shape(b)
    BY <1>2, <1>3, ShapeKept
<1>5. Books(k, client[c]) => Books(b, client[c])
    BY <1>2, <1>4, BooksKept DEF Booked
<1>6. b.close = k.close
    BY <1>2, <1>3, Fields DEF Only
<1> QED
    BY <1>1, <1>2, <1>4, <1>5, <1>6, FrameTalks

LEMMA WatchTalks ==
    ASSUME TapInv, NEW c \in Clients, Watch(c)
    PROVE  TapInv'
<1>1. CASE progress = 0
    BY <1>1, ComplainTalks DEF Watch
<1>2. CASE progress # 0
    <2> DEFINE k == sock[c]
               b == Reported(k)
    <2>1. Handled(c, b, client[c]) /\ k.pc = "open" /\ ~ k.gone
        BY <1>2 DEF Watch, Reported, Handled, Running
    <2>2. Shape(k) /\ progress \in Nat
        BY <2>1, Conversing, LiveAssumption DEF TapInv
    <2>3. /\ Shape(b) /\ Only(k, b, {"queue", "sent", "watched"})
          /\ (Books(k, client[c]) => Books(b, client[c]))
        BY <2>2, BooksReported
    <2>4. b.close = k.close
        BY <2>2, <2>3, Fields DEF Only
    <2> HIDE DEF b
    <2> QED
        BY <2>1, <2>3, <2>4, FrameTalks
<1> QED
    BY <1>1, <1>2

LEMMA UnwatchTalks ==
    ASSUME TapInv, NEW c \in Clients, Unwatch(c)
    PROVE  TapInv'
<1> DEFINE k == sock[c]
           m == client[c]
           b == [k EXCEPT !.watched = 0]
<1>1. Handled(c, b, m) /\ k.pc = "open" /\ ~ k.gone
    BY DEF Unwatch, Handled, Running
<1>2. Shape(k) /\ Books(k, m)
    BY <1>1, Conversing
<1>3. Only(k, b, {"watched"}) /\ b.watched = 0
    BY <1>2, Fields DEF Only
<1> HIDE DEF b
<1>4. Shape(b)
    BY <1>2, <1>3, ShapeKept
<1>5. b.close = k.close /\ b.out = k.out /\ b.queue = k.queue /\ b.seq = k.seq /\ b.dropped = k.dropped
    BY <1>2, <1>3, Fields DEF Only
<1>6. Wire(b) = Wire(k)
    BY <1>5 DEF Wire
<1>7. Books(b, m)
    BY <1>2, <1>3, <1>4, <1>5, <1>6 DEF Books, Balance, Knows
<1> QED
    BY <1>1, <1>3, <1>4, <1>5, <1>7, FrameTalks

\* An answer: the client was heard just now.
LEMMA PongTalks ==
    ASSUME TapInv, NEW c \in Clients, NEW nonce, Pong(c, nonce)
    PROVE  TapInv'
<1> DEFINE k == sock[c]
           m == client[c]
           b == [k EXCEPT !.ping = 0, !.pongBy = 0]
           w == [m EXCEPT !.heard = clock]
<1>1. CASE ~ (k.ping # 0 /\ nonce = k.ping)
    BY <1>1, ComplainTalks DEF Pong
<1>2. CASE k.ping # 0 /\ nonce = k.ping
    <2>1. Handled(c, b, w) /\ k.pc = "open" /\ ~ k.gone
        BY <1>2 DEF Pong, Handled, Running
    <2>2. /\ Shape(k) /\ Books(k, m) /\ DOMAIN m = DOMAIN Fresh /\ Beats(k, m, clock)
          /\ Followed(k, m, clock)
        BY <2>1, Conversing
    <2>3. Only(k, b, {"ping", "pongBy"}) /\ b.ping = 0 /\ b.pongBy = 0
        BY <2>2, Fields DEF Only
    <2>4. /\ w.heard = clock /\ w.begin = m.begin /\ w.got = m.got /\ w.told = m.told
          /\ w.progress = m.progress /\ w.shown = m.shown /\ w.due = m.due /\ DOMAIN w = DOMAIN Fresh
        BY <2>2 DEF Fresh
    <2> HIDE DEF b, w
    <2>5. b.nonce = k.nonce /\ b.nextPing = k.nextPing /\ b.close = k.close /\ b.sub = k.sub
        BY <2>2, <2>3, Fields DEF Only
    <2>6. Shape(b)
        <3>1. b.nonce \in Nat /\ b.ping \in {0, b.nonce} /\ b.pongBy \in Nat
            BY <2>2, <2>3, <2>5 DEF Shape
        <3> QED
            BY <2>2, <2>3, <3>1, ShapeKept
    <2>7. Books(b, w)
        <3>1. Books(b, m)
            BY <2>2, <2>3, <2>6, BooksKept DEF Booked
        <3> QED
            BY <2>4, <3>1, BooksOfClient
    <2> DEFINE s == Unticked(b)
    <2>8. s.ping = 0 /\ s.nextPing = k.nextPing /\ s.ticked = FALSE /\ s.sub = k.sub /\ s.close = k.close
        BY <2>3, <2>5, <2>6, UntickedFields
    <2> HIDE DEF s
    <2>9. Beats(s, w, clock)
        <3>1. clock \in Nat /\ (k.close = 0 => k.nextPing <= clock + Heartbeat)
            BY <1>2, <2>2 DEF Beats, TapInv
        <3> QED
            BY <2>4, <2>8, <3>1 DEF Beats
    <2>10. Followed(s, w, clock)
        BY <2>2, <2>4, <2>8, FollowedKept
    <2>11. {"ping", "pongBy"} \cap {"pc", "family", "gone"} = {}
        OBVIOUS
    <2> QED
        BY <2>1, <2>3, <2>4, <2>6, <2>7, <2>9, <2>10, <2>11, HandledTalks DEF s
<1> QED
    BY <1>1, <1>2

\* A subscription starts past what is visible: none of its rows was seen.
LEMMA SubscribeTalks ==
    ASSUME TapInv, NEW c \in Clients, NEW S \in Asked, NEW chans, NEW matches,
           Subscribe(c, S, chans, matches)
    PROVE  TapInv'
<1> DEFINE k == sock[c]
           m == client[c]
<1>1. k.pc = "open" /\ ~ k.gone
    BY DEF Subscribe, Handled, Running
<1>2. /\ Shape(k) /\ Books(k, m) /\ DOMAIN m = DOMAIN Fresh /\ Beats(k, m, clock)
      /\ Followed(k, m, clock) /\ imports = NoImports /\ clock \in Nat
    BY <1>1, Conversing DEF TapInv
<1>3. CASE ~ S \subseteq k.sensors
    <2>1. Handled(c, Close(k, 4403), m)
        BY <1>3 DEF Subscribe
    <2>2. /\ Shape(Close(k, 4403)) /\ Only(k, Close(k, 4403), {"close"})
          /\ Close(k, 4403).close # 0
          /\ (Books(k, m) => Books(Close(k, 4403), m))
        BY <1>2, BooksClose
    <2> QED
        BY <2>1, <2>2, FrameTalks
<1>4. CASE S \subseteq k.sensors
    <2> DEFINE start == [s \in S |-> StartCursor(s)]
               sub == [gen |-> k.gen + 1, sensors |-> S, channels |-> chans,
                       matches |-> matches, cursor |-> start]
               gen == k.gen + 1
               a == [k EXCEPT !.gen = gen, !.paused = FALSE, !.sub = sub]
               b == Send(a, Frame("ack"))
               begin == [s \in S |-> VisibleUntil(s)]
               w == [m EXCEPT !.begin = begin, !.shown = {}, !.due = 0]
    <2>1. Handled(c, b, w)
        BY <1>4 DEF Subscribe, Subscribed
    <2>2. /\ gen \in Nat /\ S \subseteq Sensors
        <3>1. k.gen \in Nat
            BY <1>2 DEF Shape
        <3> QED
            BY <3>1, LiveAssumption
    <2>3. \A s \in S : VisibleUntil(s) = Visible(s, clock)
        BY <1>2, <2>2, NoneImported
    <2>4. DOMAIN start = S /\ \A s \in S : start[s] = <<Visible(s, clock), IdLimit>>
        BY <2>3 DEF StartCursor
    <2>5. \A s \in S : begin[s] = Visible(s, clock)
        BY <2>3
    <2>6. sub.gen = gen /\ sub.sensors = S /\ sub.matches = matches /\ sub.cursor = start
          /\ DOMAIN sub = DOMAIN NoSub
        BY DEF NoSub
    <2> HIDE DEF start, sub, gen, begin
    <2>7. /\ w.begin = begin /\ w.shown = {} /\ w.due = 0 /\ w.heard = m.heard
          /\ w.got = m.got /\ w.told = m.told /\ w.progress = m.progress /\ DOMAIN w = DOMAIN Fresh
        BY <1>2 DEF Fresh
    <2>8. Only(k, a, {"gen", "paused", "sub"}) /\ a.gen = gen /\ a.sub = sub
        BY <1>2, Fields DEF Only
    <2> HIDE DEF a, w
    <2>9. Shape(a)
        <3>1. gen <= gen
            BY <2>2
        <3> QED
            BY <1>2, <1>4, <2>2, <2>6, <2>8, <3>1, ShapeKept
    <2>10. Books(a, m)
        BY <1>2, <2>8, <2>9, BooksKept DEF Booked
    <2>11. Plain(Frame("ack"))
        BY DEF Plain, Frame, Frames, Types
    <2>12. Shape(b) /\ Only(a, b, {"queue", "sent"}) /\ Books(b, m)
        BY <2>9, <2>10, <2>11, BooksSend
    <2> HIDE DEF b
    <2>13. Books(b, w)
        BY <2>7, <2>12, BooksOfClient
    <2>14. Only(k, b, {"gen", "paused", "sub"} \cup {"queue", "sent"})
        BY <2>8, <2>12, OnlyAgain
    <2>15. /\ b.sub = sub /\ b.ping = k.ping /\ b.nextPing = k.nextPing /\ b.pongBy = k.pongBy
           /\ b.gone = k.gone /\ b.close = k.close
        <3>1. b.sub = a.sub
            BY <2>9, <2>12, Fields DEF Only
        <3>2. /\ b.ping = k.ping /\ b.nextPing = k.nextPing /\ b.pongBy = k.pongBy
              /\ b.gone = k.gone /\ b.close = k.close
            BY <1>2, <2>14, Fields DEF Only
        <3> QED
            BY <2>8, <3>1, <3>2
    <2> DEFINE s == Unticked(b)
    <2>16. /\ s.sub = sub /\ s.ping = k.ping /\ s.nextPing = k.nextPing /\ s.pongBy = k.pongBy
           /\ s.gone = k.gone /\ s.close = k.close /\ s.ticked = FALSE
        BY <2>12, <2>15, UntickedFields
    <2> HIDE DEF s
    <2>17. Beats(s, w, clock)
        BY <1>2, <2>7, <2>16, BeatsKept
    <2>18. \A x \in S : Visible(x, clock) \in Int
        BY <1>2, <2>2, WorldAssumption DEF Visible
    <2>19. Placed(s, w, clock)
        <3> SUFFICES ASSUME NEW x \in S
                     PROVE  /\ begin[x] \in Int /\ start[x] \in Int \X Int
                            /\ ~ KeyLess(start[x], <<begin[x], IdLimit>>)
                            /\ start[x][1] <= Visible(x, clock)
            BY <2>6, <2>7, <2>16 DEF Placed
        <3> DEFINE v == Visible(x, clock)
        <3>1. v \in Int /\ begin[x] = v /\ start[x] = <<v, IdLimit>> /\ IdLimit \in Int
            BY <2>4, <2>5, <2>18, RowsAssumption
        <3> HIDE DEF v
        <3>2. begin[x] \in Int /\ start[x] \in Int \X Int /\ start[x][1] <= v
            BY <3>1
        <3>3. ~ KeyLess(start[x], <<begin[x], IdLimit>>)
            BY <3>1 DEF KeyLess
        <3> QED
            BY <3>2, <3>3 DEF v
    <2>20. Seen(s, w) = {}
        <3> SUFFICES ASSUME NEW r \in Rows, r.sensor \in S, begin[r.sensor] < r.start,
                            ~ KeyLess(start[r.sensor], KeyOf(r))
                     PROVE  FALSE
            BY <2>6, <2>7, <2>16 DEF Seen
        <3> DEFINE v == Visible(r.sensor, clock)
        <3>1. v \in Int /\ v < r.start /\ start[r.sensor] = <<v, IdLimit>>
            BY <2>4, <2>5, <2>18
        <3> HIDE DEF v
        <3> QED
            BY <3>1 DEF KeyLess, KeyOf
    <2>21. Followed(s, w, clock)
        <3>1. w.shown = {r.id : r \in Seen(s, w)} /\ w.due = Cardinality(Seen(s, w))
            BY <2>7, <2>20, FS_EmptySet
        <3>2. s.sub.sensors \subseteq Sensors /\ DOMAIN s.sub.cursor = s.sub.sensors
            BY <2>2, <2>4, <2>6, <2>16
        <3> QED
            BY <2>16, <2>19, <3>1, <3>2 DEF Followed
    <2>22. ({"gen", "paused", "sub"} \cup {"queue", "sent"}) \cap {"pc", "family", "gone"} = {}
        OBVIOUS
    <2> QED
        BY <2>1, <2>7, <2>12, <2>13, <2>14, <2>17, <2>21, <2>22, HandledTalks DEF s
<1> QED
    BY <1>3, <1>4

-----------------------------------------------------------------------------
\* The life of a socket.
LEMMA JustOpened ==
    ASSUME NEW k, Only(Off, k, {"pc", "ticket", "family", "sensors"})
    PROVE  /\ Shape(k) /\ k.queue = <<>> /\ k.out = <<>> /\ k.seq = 0 /\ k.dropped = 0 /\ k.watched = 0
           /\ k.ping = 0 /\ k.close = 0 /\ k.gone = FALSE /\ k.sub = NoSub /\ k.ticked = FALSE
<1>1. /\ DOMAIN k = DOMAIN Off /\ k.queue = <<>> /\ k.out = <<>> /\ k.seq = 0 /\ k.dropped = 0
      /\ k.watched = 0 /\ k.ping = 0 /\ k.close = 0 /\ k.gone = FALSE /\ k.sub = NoSub
      /\ k.ticked = FALSE /\ k.gen = 0 /\ k.sent = 0 /\ k.nonce = 0 /\ k.pongBy = 0 /\ k.nextPing = 0
    BY DEF Only, Off
<1>2. NoSub.gen = 0 /\ NoSub.sensors = {}
    BY DEF NoSub
<1>3. <<>> \in Seq(Frames) /\ Len(<<>>) <= 1
    OBVIOUS
<1> QED
    BY <1>1, <1>2, <1>3 DEF Shape

LEMMA NothingTalks == \A m, t : DOMAIN m = DOMAIN Fresh => Talk(Off, m, t)
<1>1. Only(Off, Off, {"pc", "ticket", "family", "sensors"}) /\ Off.pc = "off"
    BY DEF Only, Off
<1> QED
    BY <1>1, JustOpened DEF Talk

LEMMA RedeemTalks ==
    ASSUME TapInv, NEW c \in Clients, NEW t \in DOMAIN tickets, Redeem(c, t)
    PROVE  TapInv'
<1> DEFINE family == tickets[t].family
           sensors == tickets[t].sensors
           k == [Off EXCEPT !.pc = "accepting", !.ticket = t, !.family = family, !.sensors = sensors]
<1>1. /\ sock' = [sock EXCEPT ![c] = k] /\ client' = client
      /\ UNCHANGED <<clock, imports, progress, alive, opened>>
      /\ tickets' = [tickets EXCEPT ![t].used = TRUE]
    BY DEF Redeem, worldVars
<1>2. family \in Families
    BY DEF TapInv, TicketOK
<1> HIDE DEF family, sensors
<1>3. Only(Off, k, {"pc", "ticket", "family", "sensors"}) /\ k.pc = "accepting" /\ k.family = family
    BY DEF Only, Off
<1> HIDE DEF k
<1>4. Shape(k) /\ DOMAIN client[c] = DOMAIN Fresh
    BY <1>3, JustOpened DEF TapInv, Talk
<1>5. Talk(k, client[c], clock)
    BY <1>3, <1>4 DEF Talk
<1>6. \A x \in DOMAIN tickets' : TicketOK(tickets'[x])
    <2>1. DOMAIN tickets' = DOMAIN tickets /\ tickets'[t] = [tickets[t] EXCEPT !.used = TRUE]
        BY <1>1
    <2>2. \A x \in DOMAIN tickets \ {t} : tickets'[x] = tickets[x]
        BY <1>1
    <2>3. TicketOK(tickets'[t])
        BY <2>1 DEF TapInv, TicketOK
    <2> QED
        BY <2>1, <2>2, <2>3 DEF TapInv
<1> QED
    BY <1>1, <1>2, <1>3, <1>5, <1>6, OneTalksAlone

LEMMA AcceptTalks ==
    ASSUME TapInv, NEW c \in Clients, Accept(c)
    PROVE  TapInv'
<1> DEFINE k == sock[c]
           at == clock + Heartbeat
           stats == clock + StatsInterval
           a == [k EXCEPT !.pc = "open", !.opened = clock, !.nextPing = at, !.nextStats = stats]
           b == OnFamilyRevoked(k.family, a)
           s == Send(b, Frame("hello"))
           w == [Fresh EXCEPT !.heard = clock]
<1>1. /\ k.pc = "accepting" /\ sock' = [sock EXCEPT ![c] = s]
      /\ client' = [client EXCEPT ![c] = w]
      /\ UNCHANGED <<clock, imports, progress, alive, opened, tickets>>
    BY DEF Accept, worldVars
<1>2. Only(Off, k, {"pc", "ticket", "family", "sensors"}) /\ k.family \in Families /\ clock \in Nat
    BY <1>1 DEF TapInv, Talk
<1>3. /\ Shape(k) /\ k.queue = <<>> /\ k.out = <<>> /\ k.seq = 0 /\ k.dropped = 0 /\ k.watched = 0
      /\ k.ping = 0 /\ k.close = 0 /\ k.gone = FALSE /\ k.sub = NoSub /\ k.ticked = FALSE
    BY <1>2, JustOpened
<1>4. at \in Nat /\ at = clock + Heartbeat
    BY <1>2, LiveAssumption
<1>5. /\ DOMAIN client' = Clients /\ client'[c] = w
      /\ \A d \in Clients \ {c} : client'[d] = client[d]
    BY <1>1 DEF TapInv
<1>6. w.heard = clock /\ w.got = 0 /\ w.told = 0 /\ DOMAIN w = DOMAIN Fresh
    BY DEF Fresh
<1> HIDE DEF k, at, stats, b, s, w
<1>7. /\ Only(k, a, {"pc", "opened", "nextPing", "nextStats"}) /\ a.pc = "open" /\ a.nextPing = at
    BY <1>3, Fields DEF Only
<1> HIDE DEF a
<1>8. Shape(a)
    BY <1>3, <1>4, <1>7, ShapeKept
<1>9. /\ a.queue = <<>> /\ a.out = <<>> /\ a.seq = 0 /\ a.dropped = 0 /\ a.watched = 0
      /\ a.ping = 0 /\ a.gone = FALSE /\ a.sub = NoSub /\ a.ticked = FALSE /\ a.family = k.family
    BY <1>3, <1>7, Fields DEF Only
<1>10. Books(a, w)
    <2>1. WorthOf(Wire(a)) = 0
        BY <1>9, WorthEmpty DEF Wire
    <2> QED
        BY <1>6, <1>8, <1>9, <2>1 DEF Books, Balance, Knows
<1>11. Shape(b) /\ Only(a, b, {"close"}) /\ Books(b, w)
    <2>1. Only(a, a, {"close"})
        BY DEF Only
    <2>2. b = a \/ b = Close(a, 1000)
        BY DEF b, OnFamilyRevoked
    <2> QED
        BY <1>8, <1>10, <2>1, <2>2, BooksClose
<1>12. Plain(Frame("hello"))
    BY DEF Plain, Frame, Frames, Types
<1>13. Shape(s) /\ Only(b, s, {"queue", "sent"}) /\ Books(s, w)
    BY <1>11, <1>12, BooksSend DEF s
<1>14. Only(a, s, {"close"} \cup {"queue", "sent"})
    BY <1>11, <1>13, OnlyAgain
<1>15. /\ s.pc = a.pc /\ s.ping = a.ping /\ s.nextPing = a.nextPing /\ s.sub = a.sub
       /\ s.ticked = a.ticked /\ s.family = a.family
    BY <1>8, <1>14, Fields DEF Only
<1>16. Beats(s, w, clock)
    <2>1. at <= clock + Heartbeat /\ clock <= at
        BY <1>2, <1>4, LiveAssumption
    <2> QED
        BY <1>2, <1>6, <1>7, <1>9, <1>15, <2>1 DEF Beats
<1>17. Followed(s, w, clock)
    BY <1>9, <1>15 DEF Followed
<1>18. Talk(s, w, clock)
    BY <1>6, <1>7, <1>13, <1>15, <1>16, <1>17 DEF Talk, Books
<1>19. \A x \in DOMAIN tickets' : TicketOK(tickets'[x])
    BY <1>1 DEF TapInv
<1>20. s.pc \in {"off", "accepting", "open", "stopping"} /\ s.family \in Families
    BY <1>2, <1>7, <1>9, <1>15
<1> QED
    BY <1>1, <1>5, <1>18, <1>19, <1>20, OneTalks

\* The sender takes the first frame of the queue.
LEMMA FirstOut ==
    ASSUME NEW q \in Seq(Frames), q # <<>>
    PROVE  /\ <<Head(q)>> \in Seq(Frames) /\ Tail(q) \in Seq(Frames) /\ Len(<<Head(q)>>) <= 1
           /\ <<Head(q)>> \o Tail(q) = <<>> \o q
<1>1. Head(q) \in Frames /\ Tail(q) \in Seq(Frames)
    OBVIOUS
<1>2. <<Head(q)>> \o Tail(q) = q
    OBVIOUS
<1>3. <<>> \o q = q
    OBVIOUS
<1> QED
    BY <1>1, <1>2, <1>3

LEMMA PopTalks ==
    ASSUME TapInv, NEW c \in Clients, Pop(c)
    PROVE  TapInv'
<1> DEFINE k == sock[c]
           m == client[c]
           first == <<Head(k.queue)>>
           rest == Tail(k.queue)
           s == [k EXCEPT !.out = first, !.queue = rest]
<1>1. /\ k.pc = "open" /\ ~ k.gone /\ k.out = <<>> /\ k.queue # <<>> /\ client' = client
      /\ UNCHANGED <<clock, imports, progress, alive, opened, tickets>>
    BY DEF Pop, Running, worldVars
<1>2. /\ Shape(k) /\ Books(k, m) /\ DOMAIN m = DOMAIN Fresh /\ Beats(k, m, clock)
      /\ Followed(k, m, clock) /\ k.family \in Families
    BY <1>1, Conversing
<1>3. sock' = [sock EXCEPT ![c] = s]
    BY DEF Pop, TapInv
<1>4. /\ first \in Seq(Frames) /\ rest \in Seq(Frames) /\ Len(first) <= 1
      /\ first \o rest = <<>> \o k.queue
    BY <1>1, <1>2, FirstOut DEF Shape
<1> HIDE DEF first, rest
<1>5. Only(k, s, {"out", "queue"}) /\ s.out = first /\ s.queue = rest
    BY <1>2, Fields DEF Only
<1> HIDE DEF s, k, m
<1>6. Shape(s)
    BY <1>2, <1>4, <1>5, ShapeKept
<1>7. /\ s.pc = k.pc /\ s.family = k.family /\ s.gone = k.gone /\ s.sub = k.sub /\ s.paused = k.paused
      /\ s.ticked = k.ticked /\ s.ping = k.ping /\ s.nextPing = k.nextPing /\ s.pongBy = k.pongBy
      /\ s.close = k.close /\ s.seq = k.seq /\ s.dropped = k.dropped /\ s.watched = k.watched
    BY <1>2, <1>5, Fields DEF Only
<1>8. Wire(s) = Wire(k)
    BY <1>1, <1>4, <1>5 DEF Wire
<1>9. Balance(s, m) /\ Knows(s, m)
    BY <1>2, <1>7, <1>8 DEF Books, Balance, Knows
<1>10. Beats(s, m, clock)
    BY <1>2, <1>7, BeatsKept
<1>11. Followed(s, m, clock)
    BY <1>2, <1>7, FollowedKept
<1>12. Talk(s, m, clock)
    BY <1>1, <1>2, <1>6, <1>7, <1>9, <1>10, <1>11 DEF Talk
<1>13. \A x \in DOMAIN tickets' : TicketOK(tickets'[x])
    BY <1>1 DEF TapInv
<1> QED
    BY <1>1, <1>2, <1>3, <1>7, <1>12, <1>13, OneTalksAlone DEF k, m

\* The client reads what is out.
LEMMA ReceiveKeeps ==
    ASSUME NEW m, DOMAIN m = DOMAIN Fresh, NEW frame
    PROVE  LET w == Receive(m, frame) IN
           /\ DOMAIN w = DOMAIN Fresh
           /\ w.heard = m.heard /\ w.begin = m.begin /\ w.shown = m.shown /\ w.due = m.due
           /\ w.progress = IF frame.type = "progress" THEN frame.n ELSE m.progress
           /\ frame.type = "session" => w.got = m.got + 1 /\ w.told = m.told
           /\ frame.type = "lagging" => w.got = m.got /\ w.told = m.told + frame.n
           /\ frame.type \notin {"session", "lagging"} => w.got = m.got /\ w.told = m.told
<1>1. CASE frame.type = "session"
    BY <1>1 DEF Receive, Fresh
<1>2. CASE frame.type = "lagging"
    BY <1>2 DEF Receive, Fresh
<1>3. CASE frame.type = "progress"
    BY <1>3 DEF Receive, Fresh
<1>4. CASE frame.type = "ping"
    BY <1>4 DEF Receive, Fresh
<1>5. CASE frame.type \notin {"session", "lagging", "progress", "ping"}
    BY <1>5 DEF Receive, Fresh
<1> QED
    BY <1>1, <1>2, <1>3, <1>4, <1>5

LEMMA DeliverTalks ==
    ASSUME TapInv, NEW c \in Clients, Deliver(c)
    PROVE  TapInv'
<1> DEFINE k == sock[c]
           m == client[c]
           s == [k EXCEPT !.out = <<>>]
           frame == k.out[1]
           w == Receive(m, frame)
<1>1. /\ k.pc = "open" /\ k.out # <<>> /\ client' = [client EXCEPT ![c] = w]
      /\ UNCHANGED <<clock, imports, progress, alive, opened, tickets>>
    BY DEF Deliver, Running, worldVars
<1>2. /\ Shape(k) /\ DOMAIN m = DOMAIN Fresh /\ Beats(k, m, clock)
      /\ Followed(k, m, clock) /\ k.family \in Families /\ (~ k.gone => Books(k, m))
    BY <1>1 DEF TapInv, Talk, Books
<1>3. sock' = [sock EXCEPT ![c] = s]
    BY DEF Deliver, TapInv
<1>4. /\ DOMAIN client' = Clients /\ client'[c] = w
      /\ \A d \in Clients \ {c} : client'[d] = client[d]
    BY <1>1 DEF TapInv
<1>5. frame \in Frames /\ k.out = <<frame>> /\ k.queue \in Seq(Frames)
    BY <1>1, <1>2 DEF Shape
<1>6. Only(k, s, {"out"}) /\ s.out = <<>>
    BY <1>2, Fields DEF Only
<1> HIDE DEF s, k, m, frame
<1>7. /\ DOMAIN w = DOMAIN Fresh
      /\ w.heard = m.heard /\ w.begin = m.begin /\ w.shown = m.shown /\ w.due = m.due
      /\ w.progress = IF frame.type = "progress" THEN frame.n ELSE m.progress
      /\ frame.type = "session" => w.got = m.got + 1 /\ w.told = m.told
      /\ frame.type = "lagging" => w.got = m.got /\ w.told = m.told + frame.n
      /\ frame.type \notin {"session", "lagging"} => w.got = m.got /\ w.told = m.told
    BY <1>2, ReceiveKeeps
<1> HIDE DEF w
<1>8. Shape(s)
    <2>1. s.out \in Seq(Frames) /\ Len(s.out) <= 1
        BY <1>6
    <2>2. Shape(k) /\ Only(k, s, {"out"})
        BY <1>2, <1>6
    <2> QED
        BY <2>1, <2>2, ShapeKept
<1>9. /\ s.pc = k.pc /\ s.family = k.family /\ s.gone = k.gone /\ s.sub = k.sub /\ s.paused = k.paused
      /\ s.ticked = k.ticked /\ s.ping = k.ping /\ s.nextPing = k.nextPing /\ s.pongBy = k.pongBy
      /\ s.close = k.close /\ s.seq = k.seq /\ s.dropped = k.dropped /\ s.watched = k.watched
      /\ s.queue = k.queue
    BY <1>2, <1>6, Fields DEF Only
<1>10. Wire(s) = k.queue /\ Wire(k) = <<frame>> \o k.queue
    BY <1>5, <1>6, <1>9 DEF Wire
<1>11. ASSUME ~ s.gone PROVE Balance(s, w)
    <2>1. /\ m.got \in Nat /\ m.told \in Nat /\ k.dropped \in Nat
          /\ k.seq = m.got + m.told + WorthOf(Wire(k)) + k.dropped
        BY <1>2, <1>9, <1>11 DEF Books, Balance, Shape
    <2>2. WorthOf(Wire(k)) = Worth(frame) + WorthOf(Wire(s)) /\ WorthOf(Wire(s)) \in Nat
        <3>1. WorthOf(<<frame>> \o k.queue) = Worth(frame) + WorthOf(k.queue)
            BY <1>5, WorthDelivered
        <3>2. WorthOf(k.queue) \in Nat
            BY <1>5, WorthAppended
        <3> QED
            BY <1>10, <3>1, <3>2
    <2>3. Worth(frame) \in Nat /\ w.got \in Nat /\ w.told \in Nat
          /\ w.got + w.told = m.got + m.told + Worth(frame)
        <3>1. Worth(frame) \in Nat
            BY <1>5, WorthIsNat
        <3>2. CASE frame.type = "session"
            <4>1. Worth(frame) = 1
                BY <3>2 DEF Worth
            <4> QED
                BY <1>7, <2>1, <3>2, <4>1
        <3>3. CASE frame.type = "lagging"
            <4>1. Worth(frame) = frame.n
                BY <3>3 DEF Worth
            <4> QED
                BY <1>7, <2>1, <3>1, <3>3, <4>1
        <3>4. CASE frame.type \notin {"session", "lagging"}
            <4>1. Worth(frame) = 0
                BY <3>4 DEF Worth
            <4> QED
                BY <1>7, <2>1, <3>4, <4>1
        <3> QED
            BY <3>2, <3>3, <3>4
    <2> DEFINE W == WorthOf(Wire(s))
               V == WorthOf(Wire(k))
    <2>4. k.seq = w.got + w.told + W + k.dropped
        <3>1. V = Worth(frame) + W /\ W \in Nat /\ k.seq = m.got + m.told + V + k.dropped
            BY <2>1, <2>2
        <3> HIDE DEF V, W
        <3> QED
            BY <2>1, <2>3, <3>1
    <2> QED
        BY <1>9, <2>3, <2>4 DEF Balance
<1>12. ASSUME ~ s.gone PROVE Knows(s, w)
    <2>1. LastTold(Wire(k), m.progress) =
            LastTold(k.queue, IF frame.type = "progress" THEN frame.n ELSE m.progress)
        BY <1>5, <1>10, ToldDelivered
    <2>2. LastTold(Wire(k), m.progress) = LastTold(Wire(s), w.progress)
        BY <1>7, <1>10, <2>1
    <2> QED
        BY <1>2, <1>9, <1>12, <2>2 DEF Books, Knows
<1>13. Beats(s, w, clock)
    BY <1>2, <1>7, <1>9, BeatsKept
<1>14. Followed(s, w, clock)
    BY <1>2, <1>7, <1>9, FollowedKept
<1>15. Talk(s, w, clock)
    BY <1>1, <1>7, <1>8, <1>9, <1>11, <1>12, <1>13, <1>14 DEF Talk
<1>16. \A x \in DOMAIN tickets' : TicketOK(tickets'[x])
    BY <1>1 DEF TapInv
<1>17. s.pc \in {"off", "accepting", "open", "stopping"} /\ s.family \in Families
    BY <1>1, <1>2, <1>9
<1> QED
    BY <1>1, <1>3, <1>4, <1>15, <1>16, <1>17, OneTalks

\* The connection is lost.
LEMMA DisconnectTalks ==
    ASSUME TapInv, NEW c \in Clients, Disconnect(c)
    PROVE  TapInv'
<1> DEFINE k == sock[c]
           m == client[c]
           s == [k EXCEPT !.gone = TRUE, !.queue = <<>>, !.out = <<>>]
<1>1. /\ k.pc = "open" /\ ~ k.gone /\ client' = client
      /\ UNCHANGED <<clock, imports, progress, alive, opened, tickets>>
    BY DEF Disconnect, Running, worldVars
<1>2. /\ Shape(k) /\ DOMAIN m = DOMAIN Fresh /\ Beats(k, m, clock)
      /\ Followed(k, m, clock) /\ k.family \in Families
    BY <1>1, Conversing
<1>3. sock' = [sock EXCEPT ![c] = s]
    BY DEF Disconnect, TapInv
<1>4. Only(k, s, {"gone", "queue", "out"}) /\ s.gone = TRUE /\ s.queue = <<>> /\ s.out = <<>>
    BY <1>2, Fields DEF Only
<1> HIDE DEF s, k, m
<1>5. Shape(s)
    <2>1. s.queue \in Seq(Frames) /\ s.out \in Seq(Frames) /\ Len(s.out) <= 1
        BY <1>4
    <2>2. Shape(k) /\ Only(k, s, {"gone", "queue", "out"})
        BY <1>2, <1>4
    <2> QED
        BY <2>1, <2>2, ShapeKept
<1>6. /\ s.pc = k.pc /\ s.family = k.family /\ s.sub = k.sub /\ s.paused = k.paused
      /\ s.ticked = k.ticked /\ s.ping = k.ping /\ s.nextPing = k.nextPing /\ s.pongBy = k.pongBy
      /\ s.close = k.close
    BY <1>2, <1>4, Fields DEF Only
<1>7. Beats(s, m, clock)
    BY <1>2, <1>4, <1>6 DEF Beats
<1>8. Followed(s, m, clock)
    BY <1>2, <1>6, FollowedKept
<1>9. Talk(s, m, clock)
    BY <1>1, <1>2, <1>4, <1>5, <1>6, <1>7, <1>8 DEF Talk
<1>10. \A x \in DOMAIN tickets' : TicketOK(tickets'[x])
    BY <1>1 DEF TapInv
<1> QED
    BY <1>1, <1>2, <1>3, <1>6, <1>9, <1>10, OneTalksAlone DEF k, m

\* The loop ends, and the socket is gone.
LEMMA EndTalks ==
    ASSUME TapInv, NEW c \in Clients, Stop(c) \/ Shutdown(c)
    PROVE  TapInv'
<1> DEFINE k == sock[c]
           m == client[c]
<1>1. UNCHANGED <<clock, imports, progress, alive, opened, tickets>>
    BY DEF Stop, Shutdown, worldVars
<1>2. \A x \in DOMAIN tickets' : TicketOK(tickets'[x])
    BY <1>1 DEF TapInv
<1>3. CASE Stop(c)
    <2> DEFINE s == [k EXCEPT !.pc = "stopping", !.queue = <<>>, !.out = <<>>]
    <2>1. k.pc = "open" /\ client' = client
        BY <1>3 DEF Stop, Running
    <2>2. Shape(k) /\ DOMAIN m = DOMAIN Fresh /\ k.family \in Families
        BY <2>1 DEF TapInv, Talk
    <2>3. sock' = [sock EXCEPT ![c] = s]
        BY <1>3 DEF Stop, TapInv
    <2>4. Only(k, s, {"pc", "queue", "out"}) /\ s.pc = "stopping" /\ s.queue = <<>> /\ s.out = <<>>
        BY <2>2, Fields DEF Only
    <2> HIDE DEF s, k, m
    <2>5. Shape(s)
        <3>1. s.queue \in Seq(Frames) /\ s.out \in Seq(Frames) /\ Len(s.out) <= 1
            BY <2>4
        <3>2. Shape(k) /\ Only(k, s, {"pc", "queue", "out"})
            BY <2>2, <2>4
        <3> QED
            BY <3>1, <3>2, ShapeKept
    <2>6. s.family = k.family
        BY <2>2, <2>4, Fields DEF Only
    <2>7. Talk(s, m, clock)
        BY <2>2, <2>4, <2>5 DEF Talk
    <2> QED
        BY <1>1, <1>2, <2>1, <2>2, <2>3, <2>4, <2>6, <2>7, OneTalksAlone DEF m
<1>4. CASE Shutdown(c)
    <2>1. sock' = [sock EXCEPT ![c] = Off] /\ client' = [client EXCEPT ![c] = Fresh]
        BY <1>4 DEF Shutdown
    <2>2. /\ DOMAIN client' = Clients /\ client'[c] = Fresh
          /\ \A d \in Clients \ {c} : client'[d] = client[d]
        BY <2>1 DEF TapInv
    <2>3. Talk(Off, Fresh, clock) /\ Off.pc = "off"
        BY NothingTalks DEF Off
    <2> QED
        BY <1>1, <1>2, <2>1, <2>2, <2>3, OneTalks
<1> QED
    BY <1>3, <1>4

-----------------------------------------------------------------------------
\* Families come and go; tickets are issued.
LEMMA ManyTalk ==
    ASSUME TapInv, DOMAIN sock' = Clients, client' = client,
           \A c \in Clients : /\ Talk(sock'[c], client[c], clock')
                              /\ sock'[c].pc = sock[c].pc /\ sock'[c].family = sock[c].family,
           clock' \in Nat, imports' = imports, progress' \in 0 .. MaxProgress,
           alive' \subseteq opened', opened' \subseteq Families,
           \A x \in DOMAIN tickets' : TicketOK(tickets'[x])
    PROVE  TapInv'
<1>1. DOMAIN client' = Clients
    BY DEF TapInv
<1>2. \A c \in Clients : /\ Talk(sock'[c], client'[c], clock')
                         /\ sock'[c].pc \in {"off", "accepting", "open", "stopping"}
                         /\ sock'[c].pc # "off" => sock'[c].family \in Families
    BY DEF TapInv
<1> QED
    BY <1>1, <1>2 DEF TapInv

LEMMA FamiliesTalk ==
    ASSUME TapInv, NEW f \in Families, Login(f) \/ Revoke(f) \/ \E S \in Asked : Issue(f, S)
    PROVE  TapInv'
<1>1. clock \in Nat /\ progress \in 0 .. MaxProgress /\ DOMAIN sock = Clients
      /\ \A c \in Clients : Talk(sock[c], client[c], clock)
    BY DEF TapInv
<1>2. CASE Login(f)
    <2>1. /\ UNCHANGED <<clock, imports, tickets, sock, client, progress>>
          /\ alive' \subseteq opened' /\ opened' \subseteq Families
        BY <1>2 DEF Login, worldVars, TapInv
    <2>2. \A x \in DOMAIN tickets' : TicketOK(tickets'[x])
        BY <2>1 DEF TapInv
    <2> QED
        BY <1>1, <2>1, <2>2, ManyTalk
<1>3. CASE Revoke(f)
    <2> DEFINE T == {c \in Clients : Registered(c) /\ sock[c].family = f}
    <2>1. /\ UNCHANGED <<clock, imports, tickets, client, progress>>
          /\ alive' \subseteq opened' /\ opened' \subseteq Families
          /\ sock' = [c \in Clients |-> IF c \in T THEN Close(sock[c], 1000) ELSE sock[c]]
        BY <1>3 DEF Revoke, worldVars, TapInv
    <2>2. \A x \in DOMAIN tickets' : TicketOK(tickets'[x])
        BY <2>1 DEF TapInv
    <2>3. ASSUME NEW c \in T
          PROVE  /\ Talk(Close(sock[c], 1000), client[c], clock)
                 /\ Close(sock[c], 1000).pc = sock[c].pc /\ Close(sock[c], 1000).family = sock[c].family
        BY <1>1, CloseTalks DEF Registered
    <2> HIDE DEF T
    <2>4. /\ DOMAIN sock' = Clients
          /\ \A c \in Clients : /\ Talk(sock'[c], client[c], clock)
                                /\ sock'[c].pc = sock[c].pc /\ sock'[c].family = sock[c].family
        BY <1>1, <2>1, <2>3
    <2> QED
        BY <1>1, <2>1, <2>2, <2>4, ManyTalk
<1>4. CASE \E S \in Asked : Issue(f, S)
    <2>1. PICK S \in Asked : Issue(f, S)
        BY <1>4
    <2>2. /\ UNCHANGED <<clock, imports, alive, opened, sock, client, progress>>
        BY <2>1 DEF Issue, worldVars
    <2> DEFINE n == issued + 1
               until == clock + TicketTtl
               new == [family |-> f, sensors |-> S, expires |-> until, used |-> FALSE]
    <2>3. tickets' = [t \in Swept \cup {n} |-> IF t = n THEN new ELSE tickets[t]]
        BY <2>1 DEF Issue
    <2> HIDE DEF n, until
    <2>4. TicketOK(new)
        BY DEF TicketOK
    <2> HIDE DEF new
    <2>5. \A x \in DOMAIN tickets' : TicketOK(tickets'[x])
        BY <2>3, <2>4 DEF TapInv, Swept
    <2> QED
        BY <1>1, <2>2, <2>5, ManyTalk DEF TapInv
<1> QED
    BY <1>2, <1>3, <1>4

LEMMA ResetTalks ==
    ASSUME TapInv, ResetLive
    PROVE  TapInv'
<1> DEFINE T == {c \in Clients : Registered(c)}
<1>1. /\ UNCHANGED <<clock, imports, client, progress>> /\ alive' = {} /\ opened' = {}
      /\ DOMAIN tickets' = {}
      /\ sock' = [c \in Clients |-> IF c \in T THEN Close(sock[c], 1013) ELSE sock[c]]
    BY DEF ResetLive, worldVars
<1>2. clock \in Nat /\ progress \in 0 .. MaxProgress
      /\ \A c \in Clients : Talk(sock[c], client[c], clock)
    BY DEF TapInv
<1>3. ASSUME NEW c \in T
      PROVE  /\ Talk(Close(sock[c], 1013), client[c], clock)
             /\ Close(sock[c], 1013).pc = sock[c].pc /\ Close(sock[c], 1013).family = sock[c].family
    BY <1>2, CloseTalks DEF Registered
<1> HIDE DEF T
<1>4. /\ DOMAIN sock' = Clients
      /\ \A c \in Clients : /\ Talk(sock'[c], client[c], clock)
                            /\ sock'[c].pc = sock[c].pc /\ sock'[c].family = sock[c].family
    BY <1>1, <1>2, <1>3
<1> QED
    BY <1>1, <1>2, <1>4, ManyTalk

\* Time passes: every running socket had a round that dealt with this time.
LEMMA LaterTalks ==
    ASSUME NEW k, NEW m, NEW t \in Nat, Talk(k, m, t), k.pc = "open" => k.ticked /\ k.close = 0
    PROVE  /\ Talk(Unticked(k), m, t + 1)
           /\ Unticked(k).pc = k.pc /\ Unticked(k).family = k.family
<1> DEFINE s == Unticked(k)
<1>1. Shape(k) /\ DOMAIN m = DOMAIN Fresh
    BY DEF Talk
<1>2. /\ Shape(s) /\ Only(k, s, {"ticked"}) /\ s.ticked = FALSE
      /\ s.pc = k.pc /\ s.family = k.family /\ s.gone = k.gone /\ s.sub = k.sub /\ s.close = k.close
      /\ s.ping = k.ping /\ s.nextPing = k.nextPing /\ s.pongBy = k.pongBy
    BY <1>1, UntickedFields
<1> HIDE DEF s
<1>3. k.pc = "accepting" => Only(Off, s, {"pc", "ticket", "family", "sensors"})
    <2> SUFFICES ASSUME k.pc = "accepting"
                 PROVE  Only(Off, s, {"pc", "ticket", "family", "sensors"})
        OBVIOUS
    <2>1. Only(Off, k, {"pc", "ticket", "family", "sensors"}) /\ Off.ticked = FALSE
        BY DEF Talk, Off
    <2> QED
        BY <1>2, <2>1 DEF Only
<1>4. ASSUME k.pc = "open" PROVE Beats(s, m, t + 1) /\ Followed(s, m, t + 1)
    <2>1. Beats(k, m, t) /\ Followed(k, m, t) /\ k.ticked /\ k.close = 0
        BY <1>4 DEF Talk
    <2>2. k.nextPing \in Nat /\ k.pongBy \in Nat /\ Heartbeat \in Nat /\ PongDeadline \in Nat
        BY <1>1, LiveAssumption DEF Shape
    <2>3. m.heard \in Nat /\ m.heard <= t + 1
        BY <2>1 DEF Beats
    <2>4. Beats(s, m, t + 1)
        <3>1. CASE k.ping = 0
            <4>1. t < k.nextPing /\ k.nextPing <= m.heard + Heartbeat
                BY <2>1, <3>1 DEF Beats
            <4>2. t + 1 <= k.nextPing
                BY <2>2, <4>1
            <4> DEFINE later == t + 1
            <4> HIDE DEF later
            <4>3. m.heard \in Nat /\ m.heard <= later /\ later <= k.nextPing
                BY <2>3, <4>2 DEF later
            <4>4. Beats(s, m, later)
                BY <1>2, <3>1, <4>1, <4>3 DEF Beats
            <4> QED
                BY <4>4 DEF later
        <3>2. CASE k.ping # 0
            <4>1. k.pongBy <= m.heard + Heartbeat + PongDeadline /\ k.nextPing <= t + Heartbeat
                BY <2>1, <3>2 DEF Beats
            <4> DEFINE later == t + 1
            <4>2. k.nextPing <= later + Heartbeat
                BY <2>2, <4>1
            <4> HIDE DEF later
            <4>3. m.heard \in Nat /\ m.heard <= later
                BY <2>3 DEF later
            <4>4. Beats(s, m, later)
                BY <1>2, <3>2, <4>1, <4>2, <4>3 DEF Beats
            <4> QED
                BY <4>4 DEF later
        <3> QED
            BY <3>1, <3>2
    <2>5. Followed(s, m, t + 1)
        <3> SUFFICES ASSUME k.sub # NoSub PROVE Followed(s, m, t + 1)
            BY <1>2 DEF Followed
        <3>1. /\ k.sub.sensors \subseteq Sensors /\ DOMAIN k.sub.cursor = k.sub.sensors
              /\ Placed(k, m, t)
              /\ m.shown = {r.id : r \in Seen(k, m)} /\ m.due = Cardinality(Seen(k, m))
            BY <2>1 DEF Followed
        <3>2. Seen(s, m) = Seen(k, m)
            BY <1>2 DEF Seen
        <3>3. Placed(s, m, t + 1)
            <4> SUFFICES ASSUME NEW x \in k.sub.sensors, k.sub.cursor[x] \in Int \X Int,
                                k.sub.cursor[x][1] <= Visible(x, t)
                         PROVE  k.sub.cursor[x][1] <= Visible(x, t + 1)
                BY <1>2, <3>1 DEF Placed
            <4> DEFINE first == k.sub.cursor[x][1]
            <4>1. first \in Int /\ first <= Visible(x, t)
                OBVIOUS
            <4>2. x \in Sensors /\ Epoch \in Nat /\ Lag[x] \in Nat
                BY <3>1, WorldAssumption
            <4> HIDE DEF first
            <4>3. first <= Visible(x, t + 1)
                BY <4>1, <4>2 DEF Visible
            <4> QED
                BY <4>3 DEF first
        <3> QED
            BY <1>2, <3>1, <3>2, <3>3 DEF Followed
    <2> QED
        BY <2>4, <2>5
<1>5. s.pc = "open" /\ ~ s.gone => Balance(s, m) /\ Knows(s, m)
    <2> SUFFICES ASSUME k.pc = "open", ~ k.gone PROVE Balance(s, m) /\ Knows(s, m)
        BY <1>2
    <2>1. Books(k, m)
        BY <1>1 DEF Talk, Books
    <2>2. Books(s, m)
        BY <1>2, <2>1, BooksKept DEF Booked
    <2> QED
        BY <2>2 DEF Books
<1>6. Talk(s, m, t + 1)
    BY <1>1, <1>2, <1>3, <1>4, <1>5 DEF Talk
<1> QED
    BY <1>2, <1>6 DEF s

LEMMA TimeTalks ==
    ASSUME TapInv, SearchMoves \/ Advance
    PROVE  TapInv'
<1>1. clock \in Nat /\ progress \in 0 .. MaxProgress /\ DOMAIN sock = Clients
      /\ \A c \in Clients : Talk(sock[c], client[c], clock)
    BY DEF TapInv
<1>2. /\ UNCHANGED <<imports, alive, opened, tickets, client>>
      /\ alive' \subseteq opened' /\ opened' \subseteq Families
    BY DEF SearchMoves, Advance, worldVars, TapInv
<1>3. \A x \in DOMAIN tickets' : TicketOK(tickets'[x])
    BY <1>2 DEF TapInv
<1>4. CASE SearchMoves
    <2>1. UNCHANGED <<clock, sock>> /\ progress' \in 0 .. MaxProgress
        BY <1>1, <1>4, LiveAssumption DEF SearchMoves, worldVars
    <2> QED
        BY <1>1, <1>2, <1>3, <2>1, ManyTalk
<1>5. CASE Advance
    <2>1. /\ clock' = clock + 1 /\ progress' = progress
          /\ sock' = [c \in Clients |-> Unticked(sock[c])]
          /\ \A c \in Clients : sock[c].pc = "open" => sock[c].ticked /\ sock[c].close = 0
        BY <1>5 DEF Advance, Unticked, Running
    <2>2. /\ DOMAIN sock' = Clients
          /\ \A c \in Clients : /\ Talk(sock'[c], client[c], clock')
                                /\ sock'[c].pc = sock[c].pc /\ sock'[c].family = sock[c].family
        BY <1>1, <2>1, LaterTalks
    <2> QED
        BY <1>1, <1>2, <1>3, <2>1, <2>2, ManyTalk
<1> QED
    BY <1>4, <1>5

-----------------------------------------------------------------------------
LEMMA TapInitially == LiveInit => TapInv
<1> SUFFICES ASSUME LiveInit PROVE TapInv
    OBVIOUS
<1>1. /\ clock = 0 /\ imports = NoImports /\ alive = {} /\ opened = {} /\ DOMAIN tickets = {}
      /\ DOMAIN sock = Clients /\ DOMAIN client = Clients /\ progress \in 0 .. MaxProgress
      /\ \A c \in Clients : sock[c] = Off /\ client[c] = Fresh
    BY LiveAssumption DEF LiveInit, WorldInit
<1>2. Off.pc = "off" /\ Talk(Off, Fresh, clock)
    BY NothingTalks DEF Off
<1> QED
    BY <1>1, <1>2 DEF TapInv

LEMMA FramesTalk ==
    ASSUME TapInv, NEW c \in Clients, ClientFrame(c)
    PROVE  TapInv'
    BY ComplainTalks, PauseTalks, WatchTalks, UnwatchTalks, PongTalks, SubscribeTalks DEF ClientFrame

LEMMA TapStepKeeps == TapInv /\ [LiveNext]_allLiveVars => TapInv'
<1> SUFFICES ASSUME TapInv, [LiveNext]_allLiveVars PROVE TapInv'
    OBVIOUS
<1>1. CASE \E f \in Families : Login(f) \/ Revoke(f) \/ \E S \in Asked : Issue(f, S)
    BY <1>1, FamiliesTalk
<1>2. CASE \E c \in Clients : \E t \in DOMAIN tickets : Redeem(c, t)
    BY <1>2, RedeemTalks
<1>3. CASE \E c \in Clients : Accept(c) \/ Tick(c) \/ Pop(c) \/ Deliver(c) \/ Disconnect(c)
    BY <1>3, AcceptTalks, TickTalks, PopTalks, DeliverTalks, DisconnectTalks
<1>4. CASE \E c \in Clients : ClientFrame(c) \/ Stop(c) \/ Shutdown(c)
    BY <1>4, FramesTalk, EndTalks
<1>5. CASE ResetLive \/ SearchMoves \/ Advance
    BY <1>5, ResetTalks, TimeTalks
<1>6. CASE UNCHANGED allLiveVars
    BY <1>6 DEF TapInv, allLiveVars, liveVars, worldVars
<1> QED
    BY <1>1, <1>2, <1>3, <1>4, <1>5, <1>6 DEF LiveNext

LEMMA TapInvariant == LiveSpec => []TapInv
<1>1. LiveInit => TapInv
    BY TapInitially
<1>2. TapInv /\ [LiveNext]_allLiveVars => TapInv'
    BY TapStepKeeps
<1> QED
    BY <1>1, <1>2, PTL DEF LiveSpec

\* Every variable of the live tap has a value of its kind: the codes a socket
\* is closed with, one frame out at a time, one ping outstanding, and the
\* sensors of a subscription those of its ticket.
THEOREM LiveTyped == LiveSpec => []LiveTypeOK
<1>1. TapInv /\ LiveInv => LiveTypeOK
    <2> SUFFICES ASSUME TapInv, LiveInv PROVE LiveTypeOK
        OBVIOUS
    <2>1. ASSUME NEW c \in Clients PROVE SockOK(sock[c])
        <3>1. Shape(sock[c]) /\ sock[c].pc \in {"off", "accepting", "open", "stopping"}
              /\ (sock[c].pc # "off" => sock[c].family \in Families)
            BY DEF TapInv, Talk
        <3>2. sock[c].pc # "off" => sock[c].ticket \in 1 .. issued
            BY DEF LiveInv, TicketsUsed
        <3> QED
            BY <3>1, <3>2 DEF SockOK, Shape
    <2>2. DOMAIN tickets \subseteq 1 .. issued
        BY DEF LiveInv, TicketsUsed
    <2> QED
        BY <2>1, <2>2 DEF TapInv, TicketOK, LiveTypeOK
<1> QED
    BY <1>1, TapInvariant, LiveInvariant, PTL

\* _session_frame's numbers are accounted for: each is received, on its way,
\* or reported lost, whatever is dropped, paused or resubscribed.
THEOREM AccountsAreKept == LiveSpec => []AccountsBalance
<1>1. TapInv => AccountsBalance
    <2> SUFFICES ASSUME TapInv, NEW c \in Clients, sock[c].pc = "open", ~ sock[c].gone
                 PROVE  sock[c].seq = client[c].got + client[c].told
                          + WorthOf(sock[c].out \o sock[c].queue) + sock[c].dropped
        BY DEF AccountsBalance, Running
    <2>1. Balance(sock[c], client[c])
        BY Conversing DEF Books
    <2> QED
        BY <2>1 DEF Balance, Wire
<1> QED
    BY <1>1, TapInvariant, PTL

\* What _tick_periodic and _on_watch remember of the watched search is what
\* the client will have been told last: no progress frame is ever dropped.
THEOREM WatchersAreTold == LiveSpec => []WatchedIsTold
<1>1. TapInv => WatchedIsTold
    <2> SUFFICES ASSUME TapInv, NEW c \in Clients, sock[c].pc = "open", sock[c].watched # 0,
                        ~ sock[c].gone
                 PROVE  sock[c].watched = LastTold(sock[c].out \o sock[c].queue, client[c].progress)
        BY DEF WatchedIsTold, Running
    <2>1. Knows(sock[c], client[c])
        BY Conversing DEF Books
    <2> QED
        BY <2>1 DEF Knows, Wire
<1> QED
    BY <1>1, TapInvariant, PTL

\* A silent peer is closed in time: _tick_ping has one ping out at a time, and
\* no other frame of the client puts off the next one or its deadline.
THEOREM SilentPeersEnd == LiveSpec => []SilentPeerEnds
<1>1. TapInv => SilentPeerEnds
    <2> SUFFICES ASSUME TapInv, NEW c \in Clients, sock[c].pc = "open", sock[c].ticked,
                        sock[c].close = 0
                 PROVE  clock < client[c].heard + Heartbeat + PongDeadline
        BY DEF SilentPeerEnds, Running
    <2>1. /\ Shape(sock[c]) /\ Beats(sock[c], client[c], clock) /\ clock \in Nat
        BY DEF TapInv, Talk
    <2>2. Heartbeat \in Nat \ {0} /\ PongDeadline \in Nat \ {0}
        BY LiveAssumption
    <2>3. sock[c].nextPing \in Nat /\ sock[c].pongBy \in Nat
        BY <2>1 DEF Shape
    <2>4. client[c].heard \in Nat
        BY <2>1 DEF Beats
    <2>5. CASE sock[c].ping = 0
        <3>1. sock[c].nextPing <= client[c].heard + Heartbeat /\ clock < sock[c].nextPing
            BY <2>1, <2>5 DEF Beats
        <3> QED
            BY <2>1, <2>2, <2>3, <2>4, <3>1
    <2>6. CASE sock[c].ping # 0
        <3>1. /\ sock[c].pongBy <= client[c].heard + Heartbeat + PongDeadline
              /\ clock < sock[c].pongBy
            BY <2>1, <2>6 DEF Beats
        <3> QED
            BY <2>1, <2>2, <2>3, <2>4, <3>1
    <2> QED
        BY <2>5, <2>6
<1> QED
    BY <1>1, TapInvariant, PTL

\* As many ids as rows.
LEMMA IdsOfRows ==
    ASSUME NEW S, S \subseteq Rows
    PROVE  Cardinality({r.id : r \in S}) = Cardinality(S)
<1> DEFINE Ids == {r.id : r \in S}
           idOf == [r \in S |-> r.id]
<1>1. IsFiniteSet(S)
    BY FS_Subset, RowsAssumption
<1>2. idOf \in Bijection(S, Ids)
    <2>1. \A r, q \in S : idOf[r] = idOf[q] => r = q
        BY RowsAssumption
    <2>2. idOf \in [S -> Ids] /\ \A i \in Ids : \E r \in S : idOf[r] = i
        OBVIOUS
    <2> HIDE DEF idOf, Ids
    <2> QED
        BY <2>1, <2>2 DEF Bijection, Injection, IsInjective, Surjection
<1> HIDE DEF idOf, Ids
<1>3. Cardinality(S) = Cardinality(Ids)
    BY <1>1, <1>2, FS_Bijection DEF ExistsBijection
<1> QED
    BY <1>3 DEF Ids

\* After a round the rows a subscription was given are those that became
\* visible since it began, each once: _tick_sessions moves each cursor past
\* every row it reads, and _start_cursor past those visible before.
THEOREM RowsComeOnce == LiveSpec => []EveryRowOnce
<1>1. TapInv => EveryRowOnce
    <2> SUFFICES ASSUME TapInv, NEW c \in Clients, sock[c].pc = "open", sock[c].ticked,
                        sock[c].sub # NoSub, ~ sock[c].paused
                 PROVE  LET k == sock[c] IN
                        /\ client[c].shown = {r.id : r \in {q \in Rows :
                                /\ q.sensor \in k.sub.sensors /\ q.id \in k.sub.matches
                                /\ client[c].begin[q.sensor] < q.start
                                /\ q.start <= VisibleUntil(q.sensor)}}
                        /\ client[c].due = Cardinality(client[c].shown)
        BY DEF EveryRowOnce, Running
    <2> DEFINE k == sock[c]
               m == client[c]
               Due == {q \in Rows : /\ q.sensor \in k.sub.sensors /\ q.id \in k.sub.matches
                                    /\ m.begin[q.sensor] < q.start
                                    /\ q.start <= VisibleUntil(q.sensor)}
    <2>1. Followed(k, m, clock) /\ clock \in Nat /\ imports = NoImports
        BY DEF TapInv, Talk
    <2>2. /\ k.sub.sensors \subseteq Sensors /\ Placed(k, m, clock)
          /\ m.shown = {r.id : r \in Seen(k, m)} /\ m.due = Cardinality(Seen(k, m))
          /\ \A r \in Rows : r.sensor \in k.sub.sensors /\ r.start <= Visible(r.sensor, clock) =>
                ~ KeyLess(k.sub.cursor[r.sensor], KeyOf(r))
        BY <2>1 DEF Followed
    <2>3. \A s \in k.sub.sensors : VisibleUntil(s) = Visible(s, clock) /\ Visible(s, clock) \in Int
        <3> TAKE s \in k.sub.sensors
        <3>1. s \in Sensors
            BY <2>2
        <3>2. VisibleUntil(s) = Visible(s, clock)
            BY <2>1, <3>1, NoneImported
        <3>3. Epoch \in Nat /\ Lag[s] \in Nat
            BY <3>1, WorldAssumption
        <3>4. Visible(s, clock) \in Int
            BY <2>1, <3>3 DEF Visible
        <3> QED
            BY <3>2, <3>4
    <2>4. ASSUME NEW r \in Rows, r.sensor \in k.sub.sensors,
                 ~ KeyLess(k.sub.cursor[r.sensor], KeyOf(r))
          PROVE  r.start <= Visible(r.sensor, clock)
        <3> DEFINE cursor == k.sub.cursor[r.sensor]
                   hi == Visible(r.sensor, clock)
        <3>1. cursor \in Int \X Int /\ cursor[1] <= hi /\ hi \in Int /\ ~ KeyLess(cursor, KeyOf(r))
            BY <2>2, <2>3, <2>4 DEF Placed
        <3>2. KeyOf(r) = <<r.start, r.id>> /\ r.start \in Int
            BY RowsAssumption DEF KeyOf
        <3> HIDE DEF cursor, hi
        <3>3. r.start <= hi
            BY <3>1, <3>2 DEF KeyLess
        <3> QED
            BY <3>3 DEF hi
    <2>5. Seen(k, m) = Due
        BY <2>2, <2>3, <2>4 DEF Seen
    <2>6. Seen(k, m) \subseteq Rows
        BY DEF Seen
    <2>7. m.due = Cardinality(m.shown)
        BY <2>2, <2>6, IdsOfRows
    <2> QED
        BY <2>2, <2>5, <2>7
<1> QED
    BY <1>1, TapInvariant, PTL

-----------------------------------------------------------------------------
\* Tickets over time: each is of a family that was opened since the last
\* reset, and expires at some moment.
Dated ==
    \A t \in DOMAIN tickets : tickets[t].family \in opened /\ tickets[t].expires \in Int
TicketInv == TapInv /\ LiveInv /\ Dated

\* A ticket that redeem() takes.
Good(t) ==
    /\ t \in DOMAIN tickets /\ ~ tickets[t].used
    /\ ~ (clock >= tickets[t].expires) /\ tickets[t].family \in alive
LEMMA OnlyGoodOnes == \A t : Refusal(t) = "ok" <=> Good(t)
    BY DEF Refusal, Good

\* The steps that touch tickets, families or the clock; the others touch none.
LEMMA TicketSteps ==
    ASSUME [LiveNext]_allLiveVars
    PROVE  \/ \E f \in Families : Login(f) \/ Revoke(f) \/ \E S \in Asked : Issue(f, S)
           \/ \E c \in Clients : \E t \in DOMAIN tickets : Redeem(c, t)
           \/ ResetLive \/ Advance
           \/ UNCHANGED <<clock, alive, opened, tickets, issued>>
<1>1. ASSUME NEW c \in Clients, Accept(c) \/ Tick(c) \/ Pop(c) \/ Deliver(c) \/ Disconnect(c)
                                \/ Stop(c) \/ Shutdown(c)
      PROVE  UNCHANGED <<clock, alive, opened, tickets, issued>>
    BY <1>1 DEF Accept, Tick, Pop, Deliver, Disconnect, Stop, Shutdown, worldVars
<1>2. ASSUME NEW c \in Clients, ClientFrame(c)
      PROVE  UNCHANGED <<clock, alive, opened, tickets, issued>>
    <2>1. ASSUME NEW k, NEW mine, Handled(c, k, mine)
          PROVE  UNCHANGED <<clock, alive, opened, tickets, issued>>
        BY <2>1 DEF Handled, worldVars
    <2>2. ASSUME NEW S, NEW chans, NEW matches, Subscribe(c, S, chans, matches)
          PROVE  UNCHANGED <<clock, alive, opened, tickets, issued>>
        BY <2>1, <2>2 DEF Subscribe
    <2>3. ASSUME Complain(c) \/ Pause(c) \/ Resume(c) \/ Watch(c) \/ Unwatch(c)
          PROVE  UNCHANGED <<clock, alive, opened, tickets, issued>>
        BY <2>1, <2>3 DEF Complain, Pause, Resume, Watch, Unwatch
    <2>4. ASSUME NEW nonce, Pong(c, nonce)
          PROVE  UNCHANGED <<clock, alive, opened, tickets, issued>>
        BY <2>1, <2>4 DEF Pong, Complain
    <2> QED
        BY <1>2, <2>2, <2>3, <2>4 DEF ClientFrame
<1>3. SearchMoves \/ UNCHANGED allLiveVars => UNCHANGED <<clock, alive, opened, tickets, issued>>
    BY DEF SearchMoves, allLiveVars, liveVars, worldVars
<1> QED
    BY <1>1, <1>2, <1>3 DEF LiveNext

\* What each of them does: the dates stay, and no refused ticket turns good.
LEMMA TicketStepKeeps ==
    ASSUME TicketInv, [LiveNext]_allLiveVars
    PROVE  /\ Dated'
           /\ \A t \in 1 .. issued : ~ Good(t) => ~ Good(t)'
<1>1. /\ clock \in Nat /\ issued \in Nat /\ alive \subseteq opened
      /\ \A t \in DOMAIN tickets :
            /\ t \in 1 .. issued /\ DOMAIN tickets[t] = {"family", "sensors", "expires", "used"}
            /\ tickets[t].family \in opened /\ tickets[t].expires \in Int
    BY DEF TicketInv, TapInv, TicketOK, LiveInv, TicketsUsed, Dated
<1>2. ASSUME NEW f \in Families, Login(f)
      PROVE  Dated' /\ \A t \in 1 .. issued : ~ Good(t) => ~ Good(t)'
    <2>1. /\ f \notin opened /\ alive' = alive \cup {f} /\ opened' = opened \cup {f}
          /\ UNCHANGED <<clock, tickets>>
        BY <1>2 DEF Login, worldVars
    <2> QED
        BY <1>1, <2>1 DEF Dated, Good
<1>3. ASSUME NEW f \in Families, Revoke(f)
      PROVE  Dated' /\ \A t \in 1 .. issued : ~ Good(t) => ~ Good(t)'
    <2>1. alive' = alive \ {f} /\ UNCHANGED <<clock, opened, tickets>>
        BY <1>3 DEF Revoke, worldVars
    <2> QED
        BY <1>1, <2>1 DEF Dated, Good
<1>4. ASSUME NEW f \in Families, NEW S \in Asked, Issue(f, S)
      PROVE  Dated' /\ \A t \in 1 .. issued : ~ Good(t) => ~ Good(t)'
    <2> DEFINE new == [family |-> f, sensors |-> S, expires |-> clock + TicketTtl, used |-> FALSE]
    <2>1. /\ f \in alive /\ UNCHANGED <<clock, alive, opened>>
          /\ tickets' = [t \in Swept \cup {issued + 1} |-> IF t = issued + 1 THEN new ELSE tickets[t]]
        BY <1>4 DEF Issue, worldVars
    <2>2. new.family = f /\ new.expires \in Int
        BY <1>1, LiveAssumption
    <2> HIDE DEF new
    <2>3. Swept \subseteq DOMAIN tickets /\ DOMAIN tickets' = Swept \cup {issued + 1}
        BY <2>1 DEF Swept
    <2>4. ASSUME NEW t \in Swept PROVE tickets'[t] = tickets[t]
        BY <1>1, <2>1, <2>3
    <2>5. tickets'[issued + 1] = new
        BY <2>1
    <2>6. Dated'
        BY <1>1, <2>1, <2>2, <2>3, <2>4, <2>5 DEF Dated
    <2>7. ASSUME NEW t \in 1 .. issued, Good(t)' PROVE Good(t)
        <3>1. t \in Swept
            BY <1>1, <2>3, <2>7 DEF Good
        <3> QED
            BY <2>1, <2>3, <2>4, <2>7, <3>1 DEF Good
    <2> QED
        BY <2>6, <2>7
<1>5. ASSUME NEW c \in Clients, NEW r \in DOMAIN tickets, Redeem(c, r)
      PROVE  Dated' /\ \A t \in 1 .. issued : ~ Good(t) => ~ Good(t)'
    <2>1. /\ tickets' = [tickets EXCEPT ![r] = [tickets[r] EXCEPT !.used = TRUE]]
          /\ UNCHANGED <<clock, alive, opened>>
        BY <1>5 DEF Redeem, worldVars
    <2>2. /\ DOMAIN tickets' = DOMAIN tickets
          /\ tickets'[r].used /\ \A t \in DOMAIN tickets \ {r} : tickets'[t] = tickets[t]
          /\ tickets'[r].family = tickets[r].family /\ tickets'[r].expires = tickets[r].expires
        BY <1>1, <2>1
    <2> QED
        BY <1>1, <2>1, <2>2 DEF Dated, Good
<1>6. CASE ResetLive
    <2>1. DOMAIN tickets' = {}
        BY <1>6 DEF ResetLive
    <2> QED
        BY <2>1 DEF Dated, Good
<1>7. CASE Advance
    <2>1. clock' = clock + 1 /\ UNCHANGED <<alive, opened, tickets>>
        BY <1>7 DEF Advance
    <2> QED
        BY <1>1, <2>1 DEF Dated, Good
<1>8. CASE UNCHANGED <<clock, alive, opened, tickets, issued>>
    <2>1. tickets' = tickets /\ opened' = opened /\ alive' = alive /\ clock' = clock
        BY <1>8
    <2>2. Dated'
        BY <1>1, <2>1 DEF Dated
    <2>3. ASSUME NEW t PROVE Good(t)' => Good(t)
        BY <2>1 DEF Good
    <2> QED
        BY <2>2, <2>3
<1> QED
    BY <1>2, <1>3, <1>4, <1>5, <1>6, <1>7, <1>8, TicketSteps

\* A ticket refused once is refused for ever, over sweeps, expiries and resets
\* that hand family ids out again (LiveService.redeem, _sweep and reset).
LEMMA RefusedStayRefused == LiveSpec => RefusedForGood
<1>1. LiveInit => Dated
    BY DEF LiveInit, Dated
<1>2. TicketInv /\ [LiveNext]_allLiveVars => Dated'
    BY TicketStepKeeps
<1> DEFINE Stays == \A t \in 1 .. issued : Refusal(t) # "ok" => Refusal(t)' # "ok"
<1>3. TicketInv /\ [LiveNext]_allLiveVars => [Stays]_allLiveVars
    <2> SUFFICES ASSUME TicketInv, [LiveNext]_allLiveVars, NEW t \in 1 .. issued, Refusal(t) # "ok"
                 PROVE  Refusal(t)' # "ok"
        OBVIOUS
    <2>1. ~ Good(t)
        BY OnlyGoodOnes
    <2>2. ~ Good(t)'
        BY <2>1, TicketStepKeeps
    <2>3. Refusal(t)' = "ok" => Good(t)'
        BY DEF Refusal, Good
    <2> QED
        BY <2>2, <2>3
<1> QED
    BY <1>1, <1>2, <1>3, TapInvariant, LiveInvariant, PTL DEF LiveSpec, TicketInv, RefusedForGood

\* A ticket survives one handshake (POST /live/tickets): no two sockets share
\* one, and none works after it was refused, whatever is swept and reset.
THEOREM TicketsOpenOneSocket == LiveSpec => OneSocketPerTicket
BY TicketsAreNotShared, RefusedStayRefused DEF OneSocketPerTicket
=============================================================================
