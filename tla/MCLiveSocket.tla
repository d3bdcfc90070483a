---------------------------- MODULE MCLiveSocket ----------------------------
(* Values for LiveSocket: a sensor that is up to date and one that lags by a
   unit, rows before and after the epoch, two of them at the same instant. *)
EXTENDS LiveSocket

MCLag == [s \in {1, 2} |-> s - 1]
MCRows == {[id |-> 1, sensor |-> 1, start |-> 5, rules |-> {}],
           [id |-> 2, sensor |-> 1, start |-> 5, rules |-> {}],
           [id |-> 3, sensor |-> 2, start |-> 4, rules |-> {}]}
MCDelay == <<>>
MCAsked == {{1}, {1, 2}}
MCFilters == {{2, 3}}
MCChannels == {{"sessions"}, {"stats"}}


-----------------------------------------------------------------------------
CONSTANTS c1, c2

\* Two parts of the run.  In one, c1 makes what it can of one ticket.  In the
\* other, two clients compete for several tickets, of a family id that a reset
\* hands out again, and sockets do nothing but open and close.
VARIABLE part
MCInit == LiveInit /\ part \in {"tap", "tickets"}
OneTicket == issued' <= 1 /\ UNCHANGED <<sock[c2], client[c2]>>
OnlyTickets ==
    /\ clock' <= 2 /\ UNCHANGED progress
    /\ \A t \in DOMAIN tickets' : tickets'[t].sensors = {1}
    /\ \A c \in Clients : client'[c].frames = 0 /\ sock'[c].out = <<>>
MCNext ==
    /\ LiveNext /\ UNCHANGED part
    /\ IF part = "tap" THEN OneTicket ELSE OnlyTickets
MCSpec == MCInit /\ [][MCNext]_<<allLiveVars, part>>
=============================================================================
