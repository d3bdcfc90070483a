------------------------------ MODULE BffSession ------------------------------
(***************************************************************************)
(* The browser session kept by the front end (frontend/src/lib/backend.ts, *)
(* lib/session.ts, app/api/auth/login/route.ts) on top of the TokenStore   *)
(* of the capture API.                                                     *)
(*                                                                         *)
(* The session (token pair and believed expiry) travels in a cookie: each  *)
(* request works on the copy it arrived with and its response may put a    *)
(* new copy, or an empty one, back into the browser's jar.  Requests of    *)
(* one browser overlap, their calls to the backend take time, and their    *)
(* responses come back in any order.  What the requests share on the       *)
(* server is inflightRefreshes, one promise per refresh token, kept for    *)
(* Grace after it settles.                                                 *)
(*                                                                         *)
(* JavaScript runs the continuations of a settled promise before any other *)
(* event, so settling a flight and resuming its waiters is one step.       *)
(***************************************************************************)
EXTENDS TokenStore

CONSTANTS
    Requests,     \* concurrent browser requests
    Margin,       \* REFRESH_SAFETY_MARGIN_MS
    Grace,        \* REFRESH_RESULT_GRACE_MS
    MaxCall,      \* clock ticks a request may stay open
    Lossy,        \* may answers get lost and the server restart?
    AdminExpires  \* may an administrator expire access tokens?

ASSUME BffAssumption ==
    Margin \in Nat /\ Grace \in Nat /\ MaxCall \in Nat /\ {Lossy, AdminExpires} \subseteq BOOLEAN

VARIABLES
    jar,     \* the session cookie in the browser
    req,     \* the requests being served
    flights  \* inflightRefreshes

bffVars == <<jar, req, flights>>
vars == <<storeVars, bffVars>>

\* SessionData: the serial of the token pair (0: no session) and accessExpiresAt.
Session == [pair : 0 .. MaxTokens, exp : Nat]
NoSession == [pair |-> 0, exp |-> 0]

\* What is left to do for a request, its copy of the session, when it
\* started and what its response does to the cookie.
Request == [pc : {"idle", "login", "refresh", "call", "rerefresh", "recall", "reply"},
            sess : Session, born : Nat, set : {"none", "save", "destroy"}]
Idle == [pc |-> "idle", sess |-> NoSession, born |-> 0, set |-> "none"]

\* RefreshOutcome: new tokens and their lifetime, or a failure that is
\* fatal to the session or not.
Outcome == [kind : {"ok", "fatal", "transient"}, pair : 0 .. MaxTokens, life : Nat]
Failed(kind) == [kind |-> kind, pair |-> 0, life |-> 0]
Flight == [state : {"sent", "answered", "settled"}, outcome : Outcome, at : Nat]

-----------------------------------------------------------------------------
\* Mutants of Resume: the rotated pair is not saved, its lifetime is read from
\* the wrong field, any failed refresh ends the session.
ResumeUnsaved(x, out) ==
    CASE out.kind = "ok" -> [x EXCEPT !.pc = IF x.pc = "refresh" THEN "call" ELSE "recall",
                                      !.sess = [pair |-> out.pair, exp |-> now + out.life]]
      [] out.kind = "fatal" -> [x EXCEPT !.pc = "reply", !.set = "destroy"]
      [] OTHER -> [x EXCEPT !.pc = "reply"]
ResumeLongLife(x, out) ==
    CASE out.kind = "ok" -> [x EXCEPT !.pc = IF x.pc = "refresh" THEN "call" ELSE "recall",
                                      !.sess = [pair |-> out.pair, exp |-> now + RefreshIdle],
                                      !.set = "save"]
      [] out.kind = "fatal" -> [x EXCEPT !.pc = "reply", !.set = "destroy"]
      [] OTHER -> [x EXCEPT !.pc = "reply"]
ResumeAllFatal(x, out) ==
    IF out.kind = "ok"
    THEN [x EXCEPT !.pc = IF x.pc = "refresh" THEN "call" ELSE "recall",
                   !.sess = [pair |-> out.pair, exp |-> now + out.life], !.set = "save"]
    ELSE [x EXCEPT !.pc = "reply", !.set = "destroy"]

\* The request x going on with a refresh outcome: the tokens are applied and
\* saved, a fatal failure destroys the session, another one is reported.
Resume(x, out) ==
    CASE out.kind = "ok" ->
           [x EXCEPT !.pc = IF x.pc = "refresh" THEN "call" ELSE "recall",
                     !.sess = [pair |-> out.pair, exp |-> now + out.life],
                     !.set = "save"]
      [] out.kind = "fatal" -> [x EXCEPT !.pc = "reply", !.set = "destroy"]
      [] OTHER -> [x EXCEPT !.pc = "reply"]

\* refreshAccessToken() of request r, about to become x: join the flight of
\* its refresh token, or start one.
Join(r, x) ==
    LET key == x.sess.pair
    IN  IF key \in DOMAIN flights
        THEN /\ req' = [req EXCEPT ![r] =
                          IF flights[key].state = "settled"
                          THEN Resume(x, flights[key].outcome) ELSE x]
             /\ UNCHANGED flights
        ELSE /\ req' = [req EXCEPT ![r] = x]
             /\ flights' = Put(flights, key, [state |-> "sent", at |-> now,
                                              outcome |-> Failed("transient")])

\* authenticatedBackendFetch() begins with the cookie the browser sent: a
\* session about to expire is refreshed first.
Begin(r) ==
    /\ req[r].pc = "idle" /\ jar.pair # 0
    /\ LET x == [pc |-> "refresh", sess |-> jar, born |-> now, set |-> "none"]
       IN  IF now >= jar.exp - Margin
           THEN Join(r, x)
           ELSE req' = [req EXCEPT ![r] = [x EXCEPT !.pc = "call"]] /\ UNCHANGED flights
    /\ UNCHANGED <<storeVars, jar>>

\* Mutant of ServeRefresh: a refused refresh is read as a token pair.
ServeRefreshUnchecked(t) ==
    /\ t \in DOMAIN flights /\ flights[t].state = "sent"
    /\ Refresh(t)
    /\ flights' = [flights EXCEPT ![t].state = "answered",
                      ![t].outcome = [kind |-> "ok", pair |-> minted + 1, life |-> ttl]]
    /\ UNCHANGED <<jar, req>>

\* doRefresh(): the backend serves the refresh call of a flight.
ServeRefresh(t) ==
    /\ t \in DOMAIN flights /\ flights[t].state = "sent"
    /\ Refresh(t)
    /\ flights' = [flights EXCEPT ![t].state = "answered",
                      ![t].outcome = IF RefreshAnswer(t) = "ok"
                                     THEN [kind |-> "ok", pair |-> minted + 1, life |-> ttl]
                                     ELSE Failed("fatal")]
    /\ UNCHANGED <<jar, req>>

\* The flight settles with outcome out and every request waiting goes on.
Settle(t, out) ==
    /\ flights' = [flights EXCEPT ![t] = [state |-> "settled", outcome |-> out, at |-> now]]
    /\ req' = [r \in Requests |->
                 IF req[r].pc \in {"refresh", "rerefresh"} /\ req[r].sess.pair = t
                 THEN Resume(req[r], out) ELSE req[r]]
    /\ UNCHANGED <<storeVars, jar>>

Answer(t) == /\ t \in DOMAIN flights /\ flights[t].state = "answered"
             /\ Settle(t, flights[t].outcome)

\* Mutant of Unreached: the rejection is not caught, so no waiter goes on.
UnreachedUncaught(t) ==
    /\ t \in DOMAIN flights /\ flights[t].state = "sent"
    /\ flights' = [flights EXCEPT ![t] = [state |-> "settled", at |-> now,
                                          outcome |-> Failed("transient")]]
    /\ UNCHANGED <<storeVars, jar, req>>

\* The call fails before the backend acts on it, or its answer is lost.
Unreached(t) == /\ t \in DOMAIN flights /\ flights[t].state = "sent"
                /\ Settle(t, Failed("transient"))
LoseAnswer(t) == /\ Lossy /\ t \in DOMAIN flights /\ flights[t].state = "answered"
                 /\ Settle(t, Failed("transient"))

\* Mutant of Expired: the promise is forgotten as soon as it settles.
ExpiredAtOnce(t) == flights[t].state = "settled"

\* setTimeout(() => inflightRefreshes.delete(key), REFRESH_RESULT_GRACE_MS).
Expired(t) == flights[t].state = "settled" /\ now >= flights[t].at + Grace
ForgetFlight(t) ==
    /\ t \in DOMAIN flights /\ Expired(t)
    /\ flights' = Without(flights, {t})
    /\ UNCHANGED <<storeVars, jar, req>>

\* The proxied call itself: a 401 is answered by one more refresh and one
\* more call, whose result is passed on whatever it is.
Call(r) ==
    /\ req[r].pc \in {"call", "recall"}
    /\ IF req[r].pc = "call" /\ AccessStatus(req[r].sess.pair) # "ok"
       THEN Join(r, [req[r] EXCEPT !.pc = "rerefresh"])
       ELSE req' = [req EXCEPT ![r].pc = "reply"] /\ UNCHANGED flights
    /\ UNCHANGED <<storeVars, jar>>

\* fetch() throws: the request reports backend_unavailable.
CallFails(r) ==
    /\ req[r].pc \in {"call", "recall", "login"}
    /\ req' = [req EXCEPT ![r].pc = "reply"]
    /\ UNCHANGED <<storeVars, jar, flights>>

\* The login route: the user signs in on a page without a session.
SignIn(r) ==
    /\ req[r].pc = "idle" /\ jar.pair = 0
    /\ counter < MaxFamilies
    /\ req' = [req EXCEPT ![r] = [Idle EXCEPT !.pc = "login", !.born = now]]
    /\ UNCHANGED <<storeVars, jar, flights>>
ServeLogin(r, u) ==
    /\ req[r].pc = "login"
    /\ Login(u)
    /\ req' = [req EXCEPT ![r] = [@ EXCEPT !.pc = "reply", !.set = "save",
                                  !.sess = [pair |-> minted + 1, exp |-> now + ttl]]]
    /\ UNCHANGED <<jar, flights>>

\* The response reaches the browser, Set-Cookie included.
Reply(r) ==
    /\ req[r].pc = "reply"
    /\ jar' = CASE req[r].set = "save" -> req[r].sess
                [] req[r].set = "destroy" -> NoSession
                [] OTHER -> jar
    /\ req' = [req EXCEPT ![r] = Idle]
    /\ UNCHANGED <<storeVars, flights>>

\* The browser has gone elsewhere; the server restarts and forgets.
Abandon(r) ==
    /\ Lossy /\ req[r].pc = "reply"
    /\ req' = [req EXCEPT ![r] = Idle]
    /\ UNCHANGED <<storeVars, jar, flights>>
Restart ==
    /\ Lossy
    /\ flights' = Empty
    /\ req' = [r \in Requests |-> Idle]
    /\ UNCHANGED <<storeVars, jar>>

\* Time passes, no request staying open for longer than MaxCall.
Wait == /\ \A r \in Requests : req[r].pc # "idle" => now - req[r].born < MaxCall
        /\ Tick
        /\ UNCHANGED bffVars

Administrate ==
    /\ \/ \E u \in Users : RevokeUser(u)
       \/ AdminExpires /\ ExpireAccess(Users)
    /\ UNCHANGED bffVars

BffInit == Init /\ jar = NoSession /\ flights = Empty /\ req = [r \in Requests |-> Idle]

ServeFlight(t) == ServeRefresh(t) \/ Answer(t) \/ Unreached(t) \/ LoseAnswer(t)
Serve(r) == Call(r) \/ CallFails(r) \/ \E u \in Users : ServeLogin(r, u)

BffNext ==
    \/ \E r \in Requests : Begin(r) \/ SignIn(r) \/ Serve(r) \/ Reply(r) \/ Abandon(r)
    \/ \E t \in Serial : ServeFlight(t) \/ ForgetFlight(t)
    \/ Restart \/ Wait \/ Administrate

\* The backend answers or the connection fails, the timers fire and the
\* responses are delivered; nothing obliges the user or the clock.
BffFairness ==
    /\ \A r \in Requests : WF_vars(Serve(r)) /\ WF_vars(Reply(r))
    /\ \A t \in Serial : WF_vars(ServeFlight(t))

BffSpec == BffInit /\ [][BffNext]_vars /\ BffFairness

-----------------------------------------------------------------------------
BffTypeOK ==
    /\ TypeOK
    /\ jar \in Session
    /\ req \in [Requests -> Request]
    /\ DOMAIN flights \subseteq Serial
    /\ flights \in [DOMAIN flights -> Flight]

\* The front end never presents a refresh token twice, so it never gets its
\* own session revoked: the rule "0 refresh_reused" the observer of the
\* backend holds its clients to.
NoSelfReuse == \A f \in DOMAIN families : families[f].reason # "refresh_reused"

\* When no request is open, the cookie holds a refresh token still unspent:
\* no late response has put an older session back over a newer one.
CookieNotStale ==
    (\A r \in Requests : req[r].pc = "idle") =>
        \A t \in DOMAIN refresh :
            t = jar.pair /\ Live(refresh[t].family) =>
                ~ refresh[t].consumed \/ now - families[refresh[t].family].created > RefreshMax

\* A session the front end trusts without refreshing it has a live access
\* token, although the expiry it noted may come out later than the real one
\* (it is counted from the moment the outcome is picked up).
TrustedIsFresh ==
    \A t \in DOMAIN access :
        t = jar.pair /\ Live(access[t].family) /\ now < jar.exp - Margin
            => AccessStatus(t) = "ok"

\* A request that is about to empty the jar carries a session nothing can
\* bring back: no refresh token of its family rotates any more, neither
\* now nor when the response arrives.
DestroyIsFinal ==
    \A r \in Requests :
        req[r].set = "destroy" /\ req[r].sess.pair \in DOMAIN refresh =>
            \A t \in DOMAIN refresh :
                refresh[t].family = refresh[req[r].sess.pair].family =>
                    RefreshAnswer(t) # "ok"

\* Every request is answered: none waits for a flight that never settles.
RequestsEnd == \A r \in Requests : req[r].pc # "idle" ~> req[r].pc = "idle"
=============================================================================
