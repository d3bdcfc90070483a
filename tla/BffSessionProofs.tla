--------------------------- MODULE BffSessionProofs ---------------------------
(***************************************************************************)
(* The front end empties a browser's session only when nothing could bring *)
(* that session back, for any requests, accounts and lifetimes.  Behind it *)
(* stands the composition: whatever the front end does is a step of the    *)
(* token store or leaves it alone, so that what is proved of the store     *)
(* holds under the front end too.                                          *)
(*                                                                         *)
(* The second part is about time: requests that are quick next to the      *)
(* margin, the grace and the lifetime of a pair (Unhurried) never present  *)
(* a token twice, leave the newest pair in the cookie, and trust no pair   *)
(* that has expired.  Its invariant is TimedInv.                           *)
(***************************************************************************)
EXTENDS BffSession, TokenStoreProofs

\* The serials given out whose family rotates no more.
Ended(t) ==
    t \in DOMAIN refresh =>
        \A u \in DOMAIN refresh :
            refresh[u].family = refresh[t].family => RefreshAnswer(u) # "ok"
Over == {t \in 0 .. minted : Ended(t)}

\* A request and a flight carry serials given out (up to m), and a fatal
\* verdict only about a serial that is over (in D).
SoundRequest(x, D, m) ==
    /\ x \in Request /\ x.sess.pair \in 0 .. m
    /\ x.pc \in {"refresh", "call", "rerefresh", "recall"} => x.sess.pair # 0
    /\ x.set = "destroy" => x.sess.pair \in D
SoundOutcome(t, out, D, m) ==
    /\ out \in Outcome /\ out.pair \in 0 .. m
    /\ out.kind = "ok" => out.pair # 0
    /\ out.kind = "fatal" => t \in D
SoundFlight(t, fl, D, m) ==
    /\ fl \in Flight /\ t \in 1 .. m
    /\ SoundOutcome(t, fl.outcome, D, m)

Cookies == jar \in Session /\ jar.pair \in 0 .. minted
RequestsSound == DOMAIN req = Requests /\ \A r \in Requests : SoundRequest(req[r], Over, minted)
FlightsSound == \A t \in DOMAIN flights : SoundFlight(t, flights[t], Over, minted)
BffInv ==
    /\ StoreInv
    /\ Cookies
    /\ req \in [Requests -> Request] /\ RequestsSound
    /\ flights \in [DOMAIN flights -> Flight] /\ FlightsSound

-----------------------------------------------------------------------------
\* Every step of the front end is one of the store, or none.
LEMMA StoreStep == ASSUME [BffNext]_vars PROVE [Next]_storeVars
<1>1. ASSUME NEW u \in Users, RevokeUser(u) PROVE Next
    BY <1>1 DEF Next
<1>2. ASSUME NEW r \in Requests, Begin(r) \/ SignIn(r) \/ Serve(r) \/ Reply(r) \/ Abandon(r)
      PROVE  [Next]_storeVars
    <2>1. CASE \E u \in Users : ServeLogin(r, u)
        BY <2>1 DEF ServeLogin, Next
    <2>2. CASE ~ \E u \in Users : ServeLogin(r, u)
        BY <1>2, <2>2 DEF Begin, SignIn, Serve, Call, CallFails, Reply, Abandon
    <2> QED
        BY <2>1, <2>2
<1>3. ASSUME NEW t \in Serial, ServeFlight(t) \/ ForgetFlight(t) PROVE [Next]_storeVars
    <2>1. CASE ServeRefresh(t)
        BY <2>1 DEF ServeRefresh, Next
    <2>2. CASE ~ ServeRefresh(t)
        BY <1>3, <2>2 DEF ServeFlight, Answer, Unreached, LoseAnswer, Settle, ForgetFlight
    <2> QED
        BY <2>1, <2>2
<1>4. CASE Restart
    BY <1>4 DEF Restart
<1>5. CASE Wait
    BY <1>5 DEF Wait, Next
<1>6. CASE Administrate
    BY <1>6, <1>1 DEF Administrate, Next
<1>7. CASE UNCHANGED vars
    BY <1>7 DEF vars
<1> QED
    BY <1>2, <1>3, <1>4, <1>5, <1>6, <1>7 DEF BffNext

\* The invariant of the store holds at first and is kept by its steps.
LEMMA StoreInitially == ASSUME Init PROVE StoreInv
<1>1. TypeOK
    BY StoreAssumption DEF Init, TypeOK, StoreAssumption, Empty, Watch, FamilyId
<1> QED
    BY <1>1 DEF StoreInv, Init, NoOrphans, Chain, OneOpenToken, ParentsAreSpent, SingleUse,
                WatchersAreTold, Empty

LEMMA StoreKept == ASSUME StoreInv, [Next]_storeVars PROVE StoreInv'
BY StoreAssumption, StepType, StepNoOrphans, StepChain, StepWatchers DEF StoreInv

-----------------------------------------------------------------------------
\* What a step may do to the family of t, if t stays on record: time passes,
\* tokens are consumed or dropped, the family is revoked or dropped.  No token
\* joins it.
Fades(t) ==
    t \in DOMAIN refresh' =>
        LET f == refresh[t].family IN
        /\ t \in DOMAIN refresh /\ refresh'[t].family = f
        /\ now' >= now /\ f \in DOMAIN families
        /\ \A u \in DOMAIN refresh' : refresh'[u].family = f =>
              /\ u \in DOMAIN refresh /\ refresh[u].family = f
              /\ refresh[u].consumed => refresh'[u].consumed
        /\ f \in DOMAIN families' =>
              /\ families'[f].created = families[f].created
              /\ families'[f].lastUsed = families[f].lastUsed
              /\ families[f].reason # NotRevoked => families'[f].reason # NotRevoked

\* A family that only fades does not rotate again.
LEMMA FadingStaysOver ==
    ASSUME TypeOK, TypeOK', NEW t, Ended(t), Fades(t)
    PROVE  Ended(t)'
<1> SUFFICES ASSUME t \in DOMAIN refresh', NEW u \in DOMAIN refresh',
                    refresh'[u].family = refresh'[t].family, RefreshAnswer(u)' = "ok"
             PROVE  FALSE
    BY DEF Ended
<1> DEFINE f == refresh[t].family
<1>1. /\ t \in DOMAIN refresh /\ u \in DOMAIN refresh
      /\ refresh[u].family = f /\ refresh'[u].family = f
      /\ now' >= now /\ f \in DOMAIN families
      /\ refresh[u].consumed => refresh'[u].consumed
    BY DEF Fades
<1>2. /\ f \in DOMAIN families' /\ families'[f].reason = NotRevoked /\ ~ refresh'[u].consumed
      /\ ~ now' - families'[f].lastUsed > RefreshIdle
      /\ ~ now' - families'[f].created > RefreshMax
    BY <1>1 DEF RefreshAnswer, Known
<1>3. /\ families[f].reason = NotRevoked /\ ~ refresh[u].consumed
      /\ families'[f].created = families[f].created
      /\ families'[f].lastUsed = families[f].lastUsed
    BY <1>1, <1>2 DEF Fades, TypeOK, RefreshRecord
<1>4. /\ now \in Int /\ now' \in Int /\ RefreshIdle \in Int /\ RefreshMax \in Int
      /\ families[f].created \in Int /\ families[f].lastUsed \in Int
    BY <1>1, StoreAssumption DEF TypeOK, Family, StoreAssumption
<1>5. ~ now - families[f].lastUsed > RefreshIdle /\ ~ now - families[f].created > RefreshMax
    BY <1>1, <1>2, <1>3, <1>4
<1>6. RefreshAnswer(u) = "ok"
    BY <1>1, <1>3, <1>5 DEF RefreshAnswer, Known
<1> QED
    BY <1>1, <1>6 DEF Ended

\* Revoking families and consuming nothing is such a step.
LEMMA RevokingFades ==
    ASSUME TypeOK, NoOrphans, NEW F, NEW why \in Reason, Revoke(F, why),
           UNCHANGED <<now, refresh>>, NEW t
    PROVE  Fades(t)
<1>1. /\ \A u \in DOMAIN refresh : refresh[u].family \in DOMAIN families
      /\ families \in [DOMAIN families -> Family] /\ now \in Int
    BY StoreAssumption DEF NoOrphans, Known, TypeOK, StoreAssumption
<1>2. /\ families' = Marked(families, {f \in F : Live(f)}, why)
      /\ now' = now /\ refresh' = refresh /\ why # NotRevoked
    BY DEF Revoke, Reason, NotRevoked
<1>3. \A f \in DOMAIN families :
          /\ families'[f].created = families[f].created
          /\ families'[f].lastUsed = families[f].lastUsed
          /\ families[f].reason # NotRevoked => families'[f].reason # NotRevoked
    BY <1>1, <1>2 DEF Marked, Family
<1> QED
    BY <1>1, <1>2, <1>3 DEF Fades

\* So is every step, for a token given out whose family is over: only a
\* rotation adds a token to a family, and only an open token rotates.
LEMMA StepFades ==
    ASSUME StoreInv, [Next]_storeVars, NEW t \in 0 .. minted, Ended(t)
    PROVE  Fades(t)
<1>0. TypeOK /\ NoOrphans /\ StoreAssumption
    BY StoreAssumption DEF StoreInv
<1>1. /\ \A u \in DOMAIN refresh : refresh[u].family \in DOMAIN families
      /\ now \in Int /\ minted \in Int /\ counter \in Int
      /\ DOMAIN families \subseteq 1 .. counter
    BY <1>0 DEF NoOrphans, Known, TypeOK, StoreAssumption
<1>2. ASSUME UNCHANGED <<now, refresh, families>> PROVE Fades(t)
    BY <1>1, <1>2 DEF Fades
<1>3. ASSUME NEW u \in Users, Login(u) PROVE Fades(t)
    <2> DEFINE f == counter + 1
               s == minted + 1
    <2>1. /\ refresh' = Put(Without(refresh, TokensOf(Stale)), s, [family |-> f, consumed |-> FALSE])
          /\ now' = now /\ t # s /\ f \notin DOMAIN families
        BY <1>1, <1>3 DEF Login, Mint
    <2>2. \A g \in DOMAIN families : g \in DOMAIN families' => families'[g] = families[g]
        BY <2>1, <1>3 DEF Login, Put, Without
    <2>3. /\ DOMAIN refresh' \subseteq DOMAIN refresh \cup {s}
          /\ \A x \in DOMAIN refresh' : x # s => refresh'[x] = refresh[x]
          /\ refresh'[s].family = f
        BY <2>1 DEF Put, Without
    <2> SUFFICES ASSUME t \in DOMAIN refresh' PROVE Fades(t)
        BY DEF Fades
    <2>4. t \in DOMAIN refresh /\ refresh'[t] = refresh[t] /\ refresh[t].family \in DOMAIN families
        BY <1>1, <2>1, <2>3
    <2>5. ASSUME NEW u2 \in DOMAIN refresh', refresh'[u2].family = refresh[t].family
          PROVE  u2 \in DOMAIN refresh /\ refresh'[u2] = refresh[u2]
        BY <2>1, <2>3, <2>4, <2>5
    <2>6. now' >= now
        BY <1>1, <2>1
    <2> QED
        BY <2>2, <2>4, <2>5, <2>6, Zenon DEF Fades
<1>4. ASSUME NEW s \in Serial, Rotate(s) PROVE Fades(t)
    <2> DEFINE f == refresh[s].family
               n == minted + 1
    <2>1. s \in DOMAIN refresh /\ RefreshAnswer(s) = "ok"
        BY <1>4 DEF Rotate, RefreshAnswer
    <2>2. /\ refresh' = Put([refresh EXCEPT ![s].consumed = TRUE], n, [family |-> f, consumed |-> FALSE])
          /\ now' = now /\ t # n
        BY <1>1, <1>4 DEF Rotate, Mint
    <2>3. \A g \in DOMAIN families : g # f => families'[g] = families[g]
        BY <1>4 DEF Rotate
    <2>4. /\ DOMAIN refresh' = DOMAIN refresh \cup {n} /\ refresh'[n].family = f
          /\ \A x \in DOMAIN refresh : x # n =>
                /\ refresh'[x].family = refresh[x].family
                /\ refresh[x].consumed => refresh'[x].consumed
        BY <1>0, <2>2 DEF Put, TypeOK, RefreshRecord
    <2>5. t \in DOMAIN refresh => refresh[t].family # f
        BY <2>1 DEF Ended
    <2>6. n \notin DOMAIN refresh
        BY <1>0, <1>1 DEF TypeOK
    <2> SUFFICES ASSUME t \in DOMAIN refresh' PROVE Fades(t)
        BY DEF Fades
    <2>7. /\ t \in DOMAIN refresh /\ refresh'[t].family = refresh[t].family
          /\ refresh[t].family \in DOMAIN families /\ refresh[t].family # f
        BY <1>1, <2>2, <2>4, <2>5
    <2>8. ASSUME NEW u \in DOMAIN refresh', refresh'[u].family = refresh[t].family
          PROVE  /\ u \in DOMAIN refresh /\ refresh[u].family = refresh[t].family
                 /\ refresh[u].consumed => refresh'[u].consumed
        BY <2>4, <2>6, <2>7, <2>8
    <2>9. now' >= now
        BY <1>1, <2>2
    <2> QED
        BY <2>3, <2>7, <2>8, <2>9, Zenon DEF Fades
<1>5. ASSUME NEW s \in Serial, RefreshTooLate(s) PROVE Fades(t)
    <2>1. /\ now' = now /\ families' = families /\ DOMAIN refresh' = DOMAIN refresh
          /\ \A x \in DOMAIN refresh :
                /\ refresh'[x].family = refresh[x].family
                /\ refresh[x].consumed => refresh'[x].consumed
        BY <1>0, <1>5 DEF RefreshTooLate, TypeOK, RefreshRecord
    <2> QED
        BY <1>1, <2>1 DEF Fades
<1>6. ASSUME NEW s \in Serial, Refresh(s) PROVE Fades(t)
    <2>1. CASE RefreshReused(s)
        BY <1>0, <2>1, RevokingFades DEF RefreshReused, Reason
    <2>2. CASE RefreshRejected(s)
        BY <1>2, <2>2 DEF RefreshRejected, storeVars
    <2> QED
        BY <1>4, <1>5, <1>6, <2>1, <2>2 DEF Refresh
<1>7. ASSUME NEW u \in Users, RevokeUser(u) PROVE Fades(t)
    BY <1>0, <1>7, RevokingFades DEF RevokeUser, Reason
<1>8. ASSUME NEW s \in Serial, Logout(s) PROVE Fades(t)
    BY <1>0, <1>8, RevokingFades DEF Logout, Reason
<1>9. ASSUME NEW w \in Watchers, NEW f \in FamilyId, StopWatch(w) \/ StartWatch(w, f) PROVE Fades(t)
    BY <1>2, <1>9 DEF StopWatch, StartWatch
<1>10. ASSUME NEW w \in Watchers, StopWatch(w) PROVE Fades(t)
    BY <1>2, <1>10 DEF StopWatch
<1>11. ASSUME NEW U, ExpireAccess(U) PROVE Fades(t)
    BY <1>2, <1>11 DEF ExpireAccess
<1>12. ASSUME NEW d \in Ttls, SetTtl(d) PROVE Fades(t)
    BY <1>2, <1>12 DEF SetTtl
<1>13. CASE Reset
    BY <1>13 DEF Reset, Empty, Fades
<1>14. CASE Tick
    BY <1>1, <1>14 DEF Tick, Fades
<1>15. CASE UNCHANGED storeVars
    BY <1>2, <1>15 DEF storeVars
<1> QED
    BY <1>3, <1>6, <1>7, <1>8, <1>9, <1>10, <1>11, <1>12, <1>13, <1>14, <1>15 DEF Next

\* Serials given out stay so, and what is over stays over.
LEMMA OverOnlyGrows ==
    ASSUME StoreInv, [Next]_storeVars
    PROVE  Over \subseteq Over' /\ minted \in Nat /\ minted' \in Nat /\ minted <= minted'
<1>1. TypeOK /\ TypeOK' /\ minted \in Nat /\ minted' \in Nat
    BY StoreAssumption, StoreKept DEF StoreInv, TypeOK, StoreAssumption
<1>2. minted <= minted'
    <2>1. ASSUME NEW u \in Users, Login(u) PROVE minted <= minted'
        BY <1>1, <2>1 DEF Login, Mint
    <2>2. ASSUME NEW t \in Serial, Refresh(t) PROVE minted <= minted'
        BY <1>1, <2>2 DEF Refresh, Rotate, Mint, RefreshTooLate, RefreshReused, RefreshRejected, storeVars
    <2>3. ASSUME [Next]_storeVars, ~ \E u \in Users : Login(u), ~ \E t \in Serial : Refresh(t)
          PROVE  minted' = minted
        BY <2>3 DEF Next, RevokeUser, ExpireAccess, Logout, StopWatch, StartWatch, SetTtl,
                    Reset, Tick, storeVars
    <2> QED
        BY <1>1, <2>1, <2>2, <2>3
<1>3. ASSUME NEW t \in Over PROVE t \in Over'
    <2>1. t \in 0 .. minted /\ Ended(t)
        BY DEF Over
    <2>2. Ended(t)'
        BY <1>1, <2>1, StepFades, FadingStaysOver
    <2> QED
        BY <1>1, <1>2, <2>1, <2>2 DEF Over
<1> QED
    BY <1>1, <1>2, <1>3

\* A refresh that is refused is refused for good.
LEMMA RefusalIsFinal ==
    ASSUME StoreInv, NEW t \in Serial, t \in 1 .. minted, Refresh(t), RefreshAnswer(t) # "ok"
    PROVE  t \in Over'
<1>0. /\ TypeOK /\ NoOrphans /\ minted \in Nat
      /\ refresh \in [DOMAIN refresh -> RefreshRecord]
      /\ families \in [DOMAIN families -> Family]
      /\ \A u \in DOMAIN refresh : refresh[u].family \in DOMAIN families
    BY StoreAssumption DEF StoreInv, TypeOK, NoOrphans, Known, StoreAssumption
<1> DEFINE f == refresh[t].family
<1>1. minted' = minted
    BY DEF Refresh, Rotate, RefreshTooLate, RefreshReused, RefreshRejected, storeVars
<1>2. CASE RefreshTooLate(t)
    <2>1. /\ t \in DOMAIN refresh /\ f \in DOMAIN families
          /\ \/ now - families[f].lastUsed > RefreshIdle
             \/ now - families[f].created > RefreshMax
        BY <1>0, <1>2 DEF RefreshTooLate, RefreshAnswer, Known
    <2>2. /\ DOMAIN refresh' = DOMAIN refresh /\ now' = now /\ families' = families
          /\ \A u \in DOMAIN refresh : refresh'[u].family = refresh[u].family
        BY <1>0, <1>2 DEF RefreshTooLate, RefreshRecord
    <2>3. ASSUME NEW u \in DOMAIN refresh', refresh'[u].family = f PROVE RefreshAnswer(u)' # "ok"
        BY <2>1, <2>2, <2>3 DEF RefreshAnswer, Known
    <2> QED
        BY <1>0, <1>1, <2>1, <2>2, <2>3 DEF Over, Ended
<1>3. CASE RefreshReused(t)
    <2>1. /\ t \in DOMAIN refresh /\ f \in DOMAIN families /\ Live(f)
        BY <1>0, <1>3 DEF RefreshReused, RefreshAnswer, Known, Live
    <2>2. refresh' = refresh /\ f \in DOMAIN families' /\ families'[f].reason # NotRevoked
        BY <1>0, <1>3, <2>1 DEF RefreshReused, Revoke, Marked, Family, NotRevoked
    <2>3. ASSUME NEW u \in DOMAIN refresh', refresh'[u].family = f PROVE RefreshAnswer(u)' # "ok"
        BY <2>1, <2>2, <2>3 DEF RefreshAnswer, Known
    <2> QED
        BY <1>0, <1>1, <2>1, <2>2, <2>3 DEF Over, Ended
<1>4. CASE RefreshRejected(t)
    <2>1. refresh' = refresh /\ families' = families /\ now' = now
        BY <1>4 DEF RefreshRejected, storeVars
    <2>2. t \in DOMAIN refresh => families[f].reason # NotRevoked
        BY <1>0, <1>4 DEF RefreshRejected, RefreshAnswer, Known
    <2>3. ASSUME t \in DOMAIN refresh, NEW u \in DOMAIN refresh, refresh[u].family = f
          PROVE  RefreshAnswer(u)' # "ok"
        BY <1>0, <2>1, <2>2, <2>3 DEF RefreshAnswer, Known
    <2> QED
        BY <1>0, <1>1, <2>1, <2>3 DEF Over, Ended
<1> QED
    BY <1>2, <1>3, <1>4 DEF Refresh, Rotate

-----------------------------------------------------------------------------
\* What is sound of a request and a flight stays so while more is over and
\* more serials are given out.
LEMMA SoundStays ==
    ASSUME NEW D, NEW E, D \subseteq E, NEW m \in Nat, NEW n \in Nat, m <= n
    PROVE  /\ \A x : SoundRequest(x, D, m) => SoundRequest(x, E, n)
           /\ \A t, out : SoundOutcome(t, out, D, m) => SoundOutcome(t, out, E, n)
           /\ \A t, fl : SoundFlight(t, fl, D, m) => SoundFlight(t, fl, E, n)
<1>1. \A i : (i \in 0 .. m => i \in 0 .. n) /\ (i \in 1 .. m => i \in 1 .. n)
    OBVIOUS
<1>2. \A t, out : SoundOutcome(t, out, D, m) => SoundOutcome(t, out, E, n)
    BY <1>1 DEF SoundOutcome
<1> QED
    BY <1>1, <1>2 DEF SoundRequest, SoundFlight

\* A request that goes on with a sound outcome of its flight is sound.
LEMMA ResumeSound ==
    ASSUME NEW D, NEW m \in Nat, m <= MaxTokens, now \in Nat,
           NEW x, SoundRequest(x, D, m), NEW out, SoundOutcome(x.sess.pair, out, D, m)
    PROVE  SoundRequest(Resume(x, out), D, m)
<1>1. /\ x \in Request /\ out \in Outcome /\ out.pair \in 0 .. m
      /\ out.pair \in 0 .. MaxTokens /\ now + out.life \in Nat
    BY DEF SoundRequest, SoundOutcome, Outcome
<1>2. CASE out.kind = "ok"
    <2> DEFINE y == Resume(x, out)
    <2>1. [pair |-> out.pair, exp |-> now + out.life] \in Session
        BY <1>1 DEF Session
    <2>2. PICK s \in Session, pc \in {"call", "recall"} :
            /\ s.pair = out.pair
            /\ y = [x EXCEPT !.pc = pc, !.sess = s, !.set = "save"]
        BY <1>2, <2>1 DEF Resume
    <2>3. y \in Request /\ y.sess.pair = out.pair /\ y.set = "save"
        BY <1>1, <2>2 DEF Request
    <2> HIDE DEF y
    <2>4. SoundRequest(y, D, m)
        BY <1>1, <1>2, <2>3 DEF SoundRequest, SoundOutcome
    <2> QED
        BY <2>4 DEF y
<1>3. CASE out.kind = "fatal"
    <2>1. Resume(x, out) = [x EXCEPT !.pc = "reply", !.set = "destroy"]
        BY <1>3 DEF Resume
    <2> QED
        BY <1>1, <1>3, <2>1 DEF SoundRequest, SoundOutcome, Request
<1>4. CASE out.kind = "transient"
    <2>1. Resume(x, out) = [x EXCEPT !.pc = "reply"]
        BY <1>4 DEF Resume
    <2> QED
        BY <1>1, <2>1 DEF SoundRequest, Request
<1> QED
    BY <1>1, <1>2, <1>3, <1>4 DEF Outcome

\* The requests, the flights and the cookie of a state, measured by the
\* verdicts and serials of the next one.
Measured ==
    /\ minted' \in Nat /\ minted' <= MaxTokens /\ now \in Nat
    /\ jar \in Session /\ jar.pair \in 0 .. minted'
    /\ req \in [Requests -> Request]
    /\ \A r \in Requests : SoundRequest(req[r], Over', minted')
    /\ flights \in [DOMAIN flights -> Flight]
    /\ \A t \in DOMAIN flights : SoundFlight(t, flights[t], Over', minted')
RequestsKept == req' \in [Requests -> Request] /\ RequestsSound'
FlightsKept == flights' \in [DOMAIN flights' -> Flight] /\ FlightsSound'

LEMMA MeasuredNext ==
    ASSUME BffInv, [Next]_storeVars
    PROVE  Measured
<1>1. /\ Over \subseteq Over' /\ minted \in Nat /\ minted' \in Nat /\ minted <= minted'
    BY OverOnlyGrows DEF BffInv
<1>2. minted' <= MaxTokens /\ now \in Nat
    BY StoreKept, StoreAssumption DEF BffInv, StoreInv, TypeOK, StoreAssumption
<1>3. /\ \A x : SoundRequest(x, Over, minted) => SoundRequest(x, Over', minted')
      /\ \A t, fl : SoundFlight(t, fl, Over, minted) => SoundFlight(t, fl, Over', minted')
    BY <1>1, SoundStays
<1>4. jar \in Session /\ jar.pair \in 0 .. minted'
    BY <1>1 DEF BffInv, Cookies
<1> QED
    BY <1>1, <1>2, <1>3, <1>4 DEF BffInv, RequestsSound, FlightsSound, Measured

\* One request changes, or none; one flight is added or replaced, or none.
LEMMA OneRequest ==
    ASSUME Measured, NEW r \in Requests, NEW y, SoundRequest(y, Over', minted'),
           req' = [req EXCEPT ![r] = y]
    PROVE  RequestsKept
<1>1. y \in Request
    BY DEF SoundRequest
<1>2. req' \in [Requests -> Request] /\ DOMAIN req' = Requests
    BY <1>1 DEF Measured
<1>3. \A q \in Requests : req'[q] = IF q = r THEN y ELSE req[q]
    BY DEF Measured
<1>4. \A q \in Requests : SoundRequest(req'[q], Over', minted')
    BY <1>3, Zenon DEF Measured
<1> QED
    BY <1>2, <1>4 DEF RequestsKept, RequestsSound

LEMMA SameRequests ==
    ASSUME Measured, UNCHANGED req
    PROVE  RequestsKept
<1>1. req' \in [Requests -> Request] /\ DOMAIN req' = Requests
    BY DEF Measured
<1> QED
    BY <1>1 DEF Measured, RequestsKept, RequestsSound

LEMMA OneFlight ==
    ASSUME Measured, NEW t, NEW fl, SoundFlight(t, fl, Over', minted'),
           \/ flights' = Put(flights, t, fl)
           \/ t \in DOMAIN flights /\ flights' = [flights EXCEPT ![t] = fl]
    PROVE  FlightsKept
<1>1. fl \in Flight
    BY DEF SoundFlight
<1>2. /\ flights' = [u \in DOMAIN flights' |-> flights'[u]]
      /\ DOMAIN flights' = DOMAIN flights \cup {t}
      /\ \A u \in DOMAIN flights' : flights'[u] = IF u = t THEN fl ELSE flights[u]
    BY DEF Measured, Put
<1>3. flights' \in [DOMAIN flights' -> Flight]
    BY <1>1, <1>2 DEF Measured
<1>4. \A u \in DOMAIN flights' : SoundFlight(u, flights'[u], Over', minted')
    BY <1>2, Zenon DEF Measured
<1> QED
    BY <1>3, <1>4 DEF FlightsKept, FlightsSound

LEMMA SameFlights ==
    ASSUME Measured, UNCHANGED flights
    PROVE  FlightsKept
BY DEF Measured, FlightsKept, FlightsSound

\* refreshAccessToken() joins a flight or starts one.
LEMMA JoinSound ==
    ASSUME Measured, NEW r \in Requests, NEW x, SoundRequest(x, Over', minted'),
           x.sess.pair # 0, Join(r, x)
    PROVE  RequestsKept /\ FlightsKept
<1> DEFINE key == x.sess.pair
           fl == [state |-> "sent", at |-> now, outcome |-> Failed("transient")]
<1>1. CASE key \in DOMAIN flights
    <2> DEFINE y == IF flights[key].state = "settled" THEN Resume(x, flights[key].outcome) ELSE x
    <2>1. req' = [req EXCEPT ![r] = y] /\ flights' = flights
        BY <1>1 DEF Join
    <2>2. SoundOutcome(key, flights[key].outcome, Over', minted')
        BY <1>1 DEF Measured, SoundFlight
    <2>3. SoundRequest(Resume(x, flights[key].outcome), Over', minted')
        BY <2>2, ResumeSound DEF Measured
    <2>4. SoundRequest(y, Over', minted')
        BY <2>3
    <2> HIDE DEF y
    <2> QED
        BY <2>1, <2>4, OneRequest, SameFlights
<1>2. CASE key \notin DOMAIN flights
    <2>1. req' = [req EXCEPT ![r] = x] /\ flights' = Put(flights, key, fl)
        BY <1>2 DEF Join
    <2>2. Failed("transient") \in Outcome /\ now \in Nat /\ key \in 1 .. minted'
        BY StoreAssumption DEF Failed, Outcome, Measured, SoundRequest, StoreAssumption
    <2>3. SoundFlight(key, fl, Over', minted')
        BY <2>2 DEF SoundFlight, SoundOutcome, Flight, Failed, Measured
    <2> HIDE DEF fl, key
    <2> QED
        BY <2>1, <2>3, OneRequest, OneFlight
<1> QED
    BY <1>1, <1>2

\* A flight settles with a sound outcome and its waiters go on.
LEMMA SettleSound ==
    ASSUME Measured, NEW t \in DOMAIN flights, NEW out,
           SoundOutcome(t, out, Over', minted'), Settle(t, out)
    PROVE  RequestsKept /\ FlightsKept
<1>1. SoundFlight(t, [state |-> "settled", outcome |-> out, at |-> now], Over', minted')
    BY DEF SoundFlight, SoundOutcome, Measured, Flight
<1>2. FlightsKept
    BY <1>1, OneFlight DEF Settle
<1>3. ASSUME NEW r \in Requests PROVE SoundRequest(req'[r], Over', minted')
    <2>1. CASE req[r].pc \in {"refresh", "rerefresh"} /\ req[r].sess.pair = t
        <3>1. req'[r] = Resume(req[r], out) /\ SoundRequest(req[r], Over', minted')
            BY <2>1 DEF Settle, Measured
        <3>2. SoundOutcome(req[r].sess.pair, out, Over', minted')
            BY <2>1
        <3> QED
            BY <3>1, <3>2, ResumeSound DEF Measured
    <2>2. CASE ~ (req[r].pc \in {"refresh", "rerefresh"} /\ req[r].sess.pair = t)
        BY <2>2 DEF Settle, Measured
    <2> QED
        BY <2>1, <2>2
<1>4. RequestsKept
    <2>1. DOMAIN req' = Requests /\ req' = [r \in Requests |-> req'[r]]
        BY DEF Settle
    <2>2. \A r \in Requests : req'[r] \in Request
        BY <1>3 DEF SoundRequest
    <2> QED
        BY <1>3, <2>1, <2>2 DEF RequestsKept, RequestsSound
<1> QED
    BY <1>2, <1>4

-----------------------------------------------------------------------------
\* Each step keeps requests, flights and cookie sound.
LEMMA SoundStep ==
    ASSUME BffInv, [BffNext]_vars
    PROVE  RequestsKept /\ FlightsKept /\ Cookies'
<1>1. /\ Measured /\ StoreInv /\ StoreInv' /\ TypeOK
    BY StoreStep, StoreKept, MeasuredNext DEF BffInv, StoreInv
<1>2. ASSUME UNCHANGED jar PROVE Cookies'
    BY <1>1, <1>2 DEF Measured, Cookies
<1>3. /\ \A r \in Requests : SoundRequest(req[r], Over', minted') /\ req[r] \in Request
      /\ now \in Nat /\ now + ttl \in Nat /\ minted \in Nat /\ ttl \in Nat
    BY <1>1, StoreAssumption DEF Measured, SoundRequest, TypeOK, StoreAssumption
<1> DEFINE Good == RequestsKept /\ FlightsKept /\ Cookies'
<1>4. ASSUME NEW r \in Requests, Begin(r) PROVE Good
    <2> DEFINE x == [pc |-> "refresh", sess |-> jar, born |-> now, set |-> "none"]
               y == [x EXCEPT !.pc = "call"]
    <2>1. SoundRequest(x, Over', minted') /\ SoundRequest(y, Over', minted') /\ x.sess.pair # 0
        BY <1>1, <1>4 DEF Begin, Measured, SoundRequest, Request
    <2>2. /\ \/ Join(r, x)
             \/ req' = [req EXCEPT ![r] = y] /\ UNCHANGED flights
          /\ UNCHANGED jar
        BY <1>4 DEF Begin
    <2> HIDE DEF x, y
    <2> QED
        BY <1>1, <1>2, <2>1, <2>2, JoinSound, OneRequest, SameFlights
<1>5. ASSUME NEW r \in Requests, Call(r) PROVE Good
    <2> DEFINE x == [req[r] EXCEPT !.pc = "rerefresh"]
               y == [req[r] EXCEPT !.pc = "reply"]
    <2>1. SoundRequest(x, Over', minted') /\ SoundRequest(y, Over', minted') /\ x.sess.pair # 0
        BY <1>3, <1>5 DEF Call, SoundRequest, Request
    <2>2. /\ \/ Join(r, x)
             \/ req' = [req EXCEPT ![r] = y] /\ UNCHANGED flights
          /\ UNCHANGED jar
        BY <1>5 DEF Call
    <2> HIDE DEF x, y
    <2> QED
        BY <1>1, <1>2, <2>1, <2>2, JoinSound, OneRequest, SameFlights
<1>6. ASSUME NEW r \in Requests, CallFails(r) PROVE Good
    <2> DEFINE y == [req[r] EXCEPT !.pc = "reply"]
    <2>1. SoundRequest(y, Over', minted')
        BY <1>3 DEF SoundRequest, Request
    <2>2. req' = [req EXCEPT ![r] = y] /\ UNCHANGED <<jar, flights>>
        BY <1>6 DEF CallFails
    <2> HIDE DEF y
    <2> QED
        BY <1>1, <1>2, <2>1, <2>2, OneRequest, SameFlights
<1>7. Idle \in Request /\ SoundRequest(Idle, Over', minted')
    BY <1>1, StoreAssumption
    DEF Idle, NoSession, Request, Session, SoundRequest, Measured, StoreAssumption
<1>8. ASSUME NEW r \in Requests, SignIn(r) PROVE Good
    <2> DEFINE y == [Idle EXCEPT !.pc = "login", !.born = now]
    <2>1. SoundRequest(y, Over', minted')
        BY <1>3, <1>7 DEF SoundRequest, Request, Idle, NoSession
    <2>2. req' = [req EXCEPT ![r] = y] /\ UNCHANGED <<jar, flights>>
        BY <1>8 DEF SignIn
    <2> HIDE DEF y
    <2> QED
        BY <1>1, <1>2, <2>1, <2>2, OneRequest, SameFlights
<1>9. ASSUME NEW r \in Requests, NEW u \in Users, ServeLogin(r, u) PROVE Good
    <2> DEFINE s == [pair |-> minted + 1, exp |-> now + ttl]
               y == [req[r] EXCEPT !.pc = "reply", !.set = "save", !.sess = s]
    <2>1. minted' = minted + 1
        BY <1>9 DEF ServeLogin, Login, Mint
    <2>2. s \in Session /\ s.pair \in 0 .. minted' /\ s.pair # 0
        BY <1>1, <1>3, <2>1 DEF Session, Measured
    <2>3. req' = [req EXCEPT ![r] = y] /\ UNCHANGED <<jar, flights>>
        BY <1>9 DEF ServeLogin
    <2> HIDE DEF s
    <2>4. SoundRequest(y, Over', minted')
        BY <1>3, <2>2 DEF SoundRequest, Request
    <2> HIDE DEF y
    <2> QED
        BY <1>1, <1>2, <2>3, <2>4, OneRequest, SameFlights
<1>10. ASSUME NEW r \in Requests, Reply(r) PROVE Good
    <2>1. req' = [req EXCEPT ![r] = Idle] /\ UNCHANGED flights
        BY <1>10 DEF Reply
    <2>2. NoSession \in Session /\ NoSession.pair \in 0 .. minted'
        BY <1>1, StoreAssumption DEF NoSession, Session, Measured, StoreAssumption
    <2>3. req[r].sess \in Session /\ req[r].sess.pair \in 0 .. minted'
        BY <1>3 DEF SoundRequest, Request
    <2>4. jar' = req[r].sess \/ jar' = NoSession \/ jar' = jar
        BY <1>10 DEF Reply
    <2>5. Cookies'
        BY <1>1, <2>2, <2>3, <2>4 DEF Cookies, Measured
    <2> QED
        BY <1>1, <1>7, <2>1, <2>5, OneRequest, SameFlights
<1>11. ASSUME NEW r \in Requests, Abandon(r) PROVE Good
    BY <1>1, <1>2, <1>7, <1>11, OneRequest, SameFlights DEF Abandon
<1>12. ASSUME NEW t \in Serial, ServeRefresh(t) PROVE Good
    <2> DEFINE out == IF RefreshAnswer(t) = "ok"
                      THEN [kind |-> "ok", pair |-> minted + 1, life |-> ttl]
                      ELSE Failed("fatal")
               fl == [flights[t] EXCEPT !.state = "answered", !.outcome = out]
    <2>1. /\ t \in DOMAIN flights /\ Refresh(t) /\ flights' = [flights EXCEPT ![t] = fl]
          /\ UNCHANGED <<jar, req>>
        BY <1>12 DEF ServeRefresh
    <2>2. flights[t] \in Flight /\ t \in 1 .. minted' /\ t \in 1 .. minted
        BY <1>1, <2>1 DEF BffInv, FlightsSound, SoundFlight, Measured
    <2>3. ASSUME RefreshAnswer(t) = "ok" PROVE SoundOutcome(t, out, Over', minted')
        <3>1. minted' = minted + 1 /\ minted' <= MaxTokens
            BY <1>1, <2>1, <2>3 DEF Refresh, Rotate, RefreshTooLate, RefreshReused,
                                    RefreshRejected, Mint, Measured
        <3> QED
            BY <1>3, <2>3, <3>1, StoreAssumption DEF SoundOutcome, Outcome, StoreAssumption
    <2>4. ASSUME RefreshAnswer(t) # "ok" PROVE SoundOutcome(t, out, Over', minted')
        <3>1. t \in Over'
            BY <1>1, <2>1, <2>2, <2>4, RefusalIsFinal
        <3> QED
            BY <1>1, <2>4, <3>1, StoreAssumption
            DEF SoundOutcome, Outcome, Failed, StoreAssumption, Measured
    <2>5. SoundOutcome(t, out, Over', minted')
        BY <2>3, <2>4
    <2> HIDE DEF out
    <2>6. SoundFlight(t, fl, Over', minted')
        BY <2>2, <2>5 DEF SoundFlight, SoundOutcome, Flight
    <2> HIDE DEF fl
    <2> QED
        BY <1>1, <1>2, <2>1, <2>6, OneFlight, SameRequests
<1>13. ASSUME NEW t \in Serial, Answer(t) PROVE Good
    <2>1. t \in DOMAIN flights /\ SoundOutcome(t, flights[t].outcome, Over', minted')
        BY <1>1, <1>13 DEF Answer, Measured, SoundFlight
    <2> QED
        BY <1>1, <1>2, <1>13, <2>1, SettleSound DEF Answer, Settle
<1>14. ASSUME NEW t \in Serial, Unreached(t) \/ LoseAnswer(t) PROVE Good
    <2>1. t \in DOMAIN flights /\ Settle(t, Failed("transient"))
        BY <1>14 DEF Unreached, LoseAnswer
    <2>2. SoundOutcome(t, Failed("transient"), Over', minted')
        BY <1>1, StoreAssumption DEF SoundOutcome, Outcome, Failed, Measured, StoreAssumption
    <2> QED
        BY <1>1, <1>2, <2>1, <2>2, SettleSound DEF Settle
<1>15. ASSUME NEW t \in Serial, ForgetFlight(t) PROVE Good
    <2>1. flights' = Without(flights, {t}) /\ UNCHANGED <<jar, req>>
        BY <1>15 DEF ForgetFlight
    <2>2. /\ flights' \in [DOMAIN flights' -> Flight] /\ DOMAIN flights' \subseteq DOMAIN flights
          /\ \A u \in DOMAIN flights' : flights'[u] = flights[u]
        BY <1>1, <2>1 DEF Without, Measured
    <2>3. FlightsKept
        BY <1>1, <2>2 DEF FlightsKept, FlightsSound, Measured
    <2> QED
        BY <1>1, <1>2, <2>1, <2>3, SameRequests
<1>16. CASE Restart
    <2>1. flights' = Empty /\ UNCHANGED jar /\ req' = [r \in Requests |-> Idle]
        BY <1>16 DEF Restart
    <2>2. FlightsKept
        BY <2>1 DEF Empty, FlightsKept, FlightsSound
    <2>3. RequestsKept
        BY <1>7, <2>1 DEF RequestsKept, RequestsSound
    <2> QED
        BY <1>2, <2>1, <2>2, <2>3
<1>17. CASE UNCHANGED bffVars
    BY <1>1, <1>2, <1>17, SameRequests, SameFlights DEF bffVars
<1>18. CASE Wait \/ Administrate \/ UNCHANGED vars
    BY <1>17, <1>18 DEF Wait, Administrate, vars
<1>19. ASSUME NEW r \in Requests, Serve(r) PROVE Good
    BY <1>5, <1>6, <1>9, <1>19 DEF Serve
<1>20. ASSUME NEW t \in Serial, ServeFlight(t) PROVE Good
    BY <1>12, <1>13, <1>14, <1>20 DEF ServeFlight
<1> QED
    BY <1>4, <1>8, <1>10, <1>11, <1>15, <1>16, <1>18, <1>19, <1>20 DEF BffNext

LEMMA BffInvariant == BffSpec => []BffInv
<1>1. BffInit => BffInv
    <2> SUFFICES ASSUME BffInit PROVE BffInv
        OBVIOUS
    <2>1. StoreInv
        BY StoreInitially DEF BffInit
    <2>2. minted = 0 /\ now = 0 /\ MaxTokens \in Nat
        BY StoreAssumption DEF BffInit, Init, StoreAssumption
    <2>3. NoSession \in Session /\ Idle \in Request /\ SoundRequest(Idle, Over, minted)
        BY <2>2 DEF Idle, NoSession, Session, Request, SoundRequest
    <2>4. Cookies
        BY <2>2, <2>3 DEF BffInit, Cookies, NoSession
    <2>5. req \in [Requests -> Request] /\ RequestsSound
        BY <2>3 DEF BffInit, RequestsSound
    <2>6. flights \in [DOMAIN flights -> Flight] /\ FlightsSound
        BY DEF BffInit, Empty, FlightsSound
    <2> QED
        BY <2>1, <2>4, <2>5, <2>6 DEF BffInv
<1>2. BffInv /\ [BffNext]_vars => BffInv'
    <2> SUFFICES ASSUME BffInv, [BffNext]_vars PROVE BffInv'
        OBVIOUS
    <2>1. StoreInv'
        BY StoreStep, StoreKept DEF BffInv
    <2>2. RequestsKept /\ FlightsKept /\ Cookies'
        BY SoundStep
    <2> QED
        BY <2>1, <2>2 DEF BffInv, RequestsKept, FlightsKept
<1> QED
    BY <1>1, <1>2, PTL DEF BffSpec

\* Cookies, requests and flights keep their types (lib/session.ts, backend.ts).
THEOREM SessionTypes == BffSpec => []BffTypeOK
<1>1. BffInv => BffTypeOK
    <2> SUFFICES ASSUME BffInv PROVE BffTypeOK
        OBVIOUS
    <2>1. TypeOK /\ minted \in Nat /\ minted <= MaxTokens
        BY StoreAssumption DEF BffInv, StoreInv, TypeOK, StoreAssumption
    <2>2. DOMAIN flights \subseteq Serial
        BY <2>1, StoreAssumption DEF BffInv, FlightsSound, SoundFlight, Serial, StoreAssumption
    <2> QED
        BY <2>1, <2>2 DEF BffInv, Cookies, BffTypeOK
<1> QED
    BY <1>1, BffInvariant, PTL

\* Under the front end too no refresh token buys two pairs: whatever its
\* requests do, in whatever order, the store goes through steps of its own.
THEOREM StoreHoldsUnderSessions == BffSpec => []OneChain
<1>1. BffInv => OneChain
    BY DEF BffInv, StoreInv, Chain, OneChain
<1> QED
    BY <1>1, BffInvariant, PTL

\* A request that empties the cookie (session.destroy() in backend.ts) carries
\* a session that no refresh token can bring back, now or later.
THEOREM DestructionIsFinal == BffSpec => []DestroyIsFinal
<1>1. BffInv => DestroyIsFinal
    BY DEF BffInv, RequestsSound, SoundRequest, Over, Ended, DestroyIsFinal
<1> QED
    BY <1>1, BffInvariant, PTL

-----------------------------------------------------------------------------
(***************************************************************************)
(* The timing under which the front end never presents a refresh token     *)
(* twice: no request stays open for half of the grace, nor for half of the *)
(* margin, a pair is good for longer than the margin and two requests, no  *)
(* answer is lost and no administrator expires tokens.                     *)
(***************************************************************************)
Unhurried ==
    /\ ~ Lossy /\ ~ AdminExpires
    /\ 2 * MaxCall <= Margin /\ 2 * MaxCall < Grace
    /\ \A d \in Ttls : Margin + 2 * MaxCall < d

\* The refresh tokens of live families, those of them that were presented, and
\* the moment each pair was minted.
Alive == {t \in DOMAIN refresh : Live(refresh[t].family)}
Spent == {t \in Alive : refresh[t].consumed}
MintedAt == [t \in DOMAIN access |-> access[t].exp - ttl]
SameFamily(t, u) == refresh[t].family = refresh[u].family

\* A request waiting for a flight, one that may still present its pair or put
\* it into the jar, and one that will replace what is in the jar.
Waits(x) == x.pc \in {"refresh", "rerefresh"}
Carries(x) ==
    \/ x.pc \in {"refresh", "call", "rerefresh", "recall"}
    \/ x.pc = "reply" /\ x.set = "save"
Brings(x) == x.pc # "idle" /\ x.set \in {"save", "destroy"}

\* A token is presented only when no request open at its minting, or next to
\* one of those, still is.
DatedPair(t) ==
    /\ t \in Alive => MintedAt[t] <= now
    /\ t \in Spent => MintedAt[t] + 2 * MaxCall < now

\* The expiry noted with a pair is late by two requests at most.
DatedSession(s) ==
    s.pair \in Alive =>
        /\ MintedAt[s.pair] + ttl <= s.exp
        /\ s.exp <= MintedAt[s.pair] + ttl + 2 * MaxCall

\* A request ends in time; one that brings a new pair was open within one
\* request of its minting; and one that waits has a flight to wait for.
DatedWork(x) ==
    /\ x.pc # "idle" => x.born <= now /\ now <= x.born + MaxCall
    /\ x.pc = "login" => x.set = "none"
    /\ Carries(x) => DatedSession(x.sess)
    /\ Carries(x) /\ x.set = "save" /\ x.sess.pair \in Alive =>
         x.born <= MintedAt[x.sess.pair] + MaxCall
OnFlight(x) ==
    Waits(x) => x.sess.pair \in DOMAIN flights /\ flights[x.sess.pair].state # "settled"
DatedRequest(x) == DatedWork(x) /\ OnFlight(x)

\* The token of a flight is not spent before it is served, was minted long
\* before, and what the flight brings belongs to its family.
DatedOutcome(t, fl) ==
    /\ fl.state = "sent" => /\ fl.outcome.kind = "transient" /\ t \notin Spent
                            /\ t \in Alive => MintedAt[t] + 2 * MaxCall < fl.at
    /\ fl.state = "answered" => fl.outcome.kind # "transient"
    /\ fl.outcome.kind = "ok" =>
         /\ fl.outcome.life = ttl
         /\ fl.outcome.pair \in Alive =>
              /\ t \in Spent /\ SameFamily(t, fl.outcome.pair)
              /\ fl.state = "answered" => fl.at <= MintedAt[fl.outcome.pair]
\* A flight in the air is awaited by a request open since it took off.
Awaited(t) ==
    flights[t].state # "settled" =>
        \E r \in Requests : Waits(req[r]) /\ req[r].sess.pair = t /\ req[r].born <= flights[t].at
DatedFlight(t) == flights[t].at <= now /\ DatedOutcome(t, flights[t]) /\ Awaited(t)

\* A request that began before a flight settled, and before its new pair.
BornBy(x, late, fl) ==
    /\ x.born <= fl.at + late
    /\ fl.outcome.kind = "ok" /\ fl.outcome.pair \in Alive =>
         x.born <= MintedAt[fl.outcome.pair] + late

\* A spent token in the jar or with a request has its flight on the board;
\* once the flight has settled, no later request takes the token up, and a
\* request from before will replace the token in the jar.
Held(t) == jar.pair = t \/ \E r \in Requests : Carries(req[r]) /\ req[r].sess.pair = t
OnBoard(t) == Held(t) => t \in DOMAIN flights /\ flights[t].outcome.kind # "transient"
Outlived(t) ==
    t \in DOMAIN flights /\ flights[t].state = "settled" =>
        /\ \A r \in Requests :
              Carries(req[r]) /\ req[r].sess.pair = t => BornBy(req[r], MaxCall, flights[t])
        /\ jar.pair = t => \E r \in Requests : Brings(req[r]) /\ BornBy(req[r], 0, flights[t])

PairsTimed == \A t \in 0 .. minted : DatedPair(t)
RequestsTimed == \A r \in Requests : DatedRequest(req[r])
FlightsTimed == \A t \in DOMAIN flights : DatedFlight(t)
SpentAccounted == \A t \in 0 .. minted : t \in Spent => OnBoard(t) /\ Outlived(t)
TimedInv ==
    /\ PairsTimed /\ DatedSession(jar)
    /\ RequestsTimed
    /\ FlightsTimed
    /\ SpentAccounted
    /\ NoSelfReuse

-----------------------------------------------------------------------------
\* What a step of the front end does to the tokens given out: s is the one it
\* may consume.
Ages(s) ==
    /\ ttl' = ttl /\ now <= now' /\ minted <= minted'
    /\ \A t \in 0 .. minted :
         /\ t \in Alive' => t \in Alive /\ MintedAt'[t] = MintedAt[t]
         /\ t \in Spent' => t \in Spent \/ t = s
    /\ \A t, u \in 0 .. minted :
         u \in Alive' /\ t \in Spent /\ SameFamily(t, u) => t \in Spent' /\ SameFamily(t, u)'
\* The pairs it mints.
MintsFresh ==
    \A t \in minted + 1 .. minted' : t \notin Spent' /\ MintedAt'[t] = now'

LEMMA Numbers ==
    ASSUME StoreInv
    PROVE  /\ now \in Nat /\ ttl \in Ttls /\ ttl \in Nat /\ minted \in Nat
           /\ DOMAIN refresh \subseteq 1 .. minted /\ DOMAIN access = DOMAIN refresh
           /\ \A t : t \in Alive => t \in 1 .. minted /\ MintedAt[t] \in Int
<1>1. /\ now \in Nat /\ ttl \in Ttls /\ ttl \in Nat /\ minted \in Nat
      /\ DOMAIN refresh \subseteq 1 .. minted /\ DOMAIN access = DOMAIN refresh
      /\ access \in [DOMAIN access -> AccessRecord]
    BY StoreAssumption DEF StoreInv, TypeOK, NoOrphans, StoreAssumption
<1>2. ASSUME NEW t, t \in Alive PROVE t \in 1 .. minted /\ MintedAt[t] \in Int
    BY <1>1, <1>2 DEF Alive, MintedAt, AccessRecord
<1> QED
    BY <1>1, <1>2

\* A step that leaves the tokens alone and revives no family.
LEMMA SameTokensAge ==
    ASSUME StoreInv, UNCHANGED <<ttl, minted, access, refresh>>, now' \in Nat, now <= now',
           \A f \in DOMAIN families' :
              /\ f \in DOMAIN families
              /\ families'[f].reason = NotRevoked => families[f].reason = NotRevoked
    PROVE  Ages(0) /\ MintsFresh
<1>1. /\ minted \in Nat /\ minted' = minted
    BY Numbers
<1>2. \A f : Live(f)' => Live(f)
    BY DEF Live, Known
<1>3. ASSUME NEW t PROVE /\ t \in Alive' => t \in Alive /\ MintedAt'[t] = MintedAt[t]
                         /\ t \in Spent' => t \in Spent
    BY <1>2 DEF Alive, MintedAt, Spent
<1>4. ASSUME NEW t, NEW u, u \in Alive', t \in Spent, SameFamily(t, u) PROVE t \in Spent' /\ SameFamily(t, u)'
    BY <1>4 DEF Alive, SameFamily, Spent
<1> QED
    BY <1>1, <1>3, <1>4 DEF Ages, MintsFresh

LEMMA RevokingAges ==
    ASSUME StoreInv, NEW F, NEW why \in Reason, Revoke(F, why),
           UNCHANGED <<now, ttl, minted, access, refresh>>
    PROVE  Ages(0) /\ MintsFresh
<1>1. /\ families \in [DOMAIN families -> Family] /\ now \in Nat /\ TypeOK
    BY Numbers DEF StoreInv, TypeOK
<1>2. /\ DOMAIN families' = DOMAIN families /\ why # NotRevoked
      /\ \A f \in DOMAIN families :
            families'[f].reason = IF f \in F /\ Live(f) THEN why ELSE families[f].reason
    BY <1>1, RevokeEffect DEF Reason, NotRevoked
<1> QED
    BY <1>1, <1>2, SameTokensAge

LEMMA LoginAges ==
    ASSUME StoreInv, NEW u \in Users, Login(u)
    PROVE  /\ Ages(0) /\ MintsFresh /\ minted' = minted + 1
           /\ \A f \in DOMAIN families' :
                 \/ families'[f].reason = NotRevoked
                 \/ f \in DOMAIN families /\ families'[f] = families[f]
<1> DEFINE f == counter + 1
           n == minted + 1
           gone == TokensOf(Stale)
<1>0. /\ TypeOK /\ NoOrphans /\ now \in Nat /\ ttl \in Nat /\ minted \in Nat
      /\ DOMAIN refresh \subseteq 1 .. minted /\ DOMAIN access = DOMAIN refresh
    BY Numbers DEF StoreInv
<1>1. /\ minted' = n /\ f \notin DOMAIN families /\ n \notin DOMAIN refresh
      /\ DOMAIN families' = (DOMAIN families \ Stale) \cup {f}
      /\ \A g \in DOMAIN families \ Stale : families'[g] = families[g]
      /\ families'[f].reason = NotRevoked
      /\ DOMAIN access' = (DOMAIN access \ gone) \cup {n}
      /\ \A x \in DOMAIN access \ gone : access'[x] = access[x]
      /\ access'[n] = [family |-> f, exp |-> now + ttl]
      /\ DOMAIN refresh' = (DOMAIN refresh \ gone) \cup {n}
      /\ \A x \in DOMAIN refresh \ gone : refresh'[x] = refresh[x]
      /\ refresh'[n] = [family |-> f, consumed |-> FALSE]
    BY <1>0, LoginEffect, StoreAssumption
<1>2. now' = now /\ ttl' = ttl
    BY DEF Login
<1>3. ASSUME NEW x \in DOMAIN refresh
      PROVE  x \in gone <=> refresh[x].family \in Stale
    BY <1>0 DEF NoOrphans, TokensOf, Known, Stale
<1> HIDE DEF f, n, gone
<1>4. ASSUME NEW t \in 0 .. minted, t \in Alive'
      PROVE  /\ t \in DOMAIN refresh \ gone /\ refresh'[t] = refresh[t]
             /\ access'[t] = access[t] /\ t \in Alive
    <2>1. t \in DOMAIN refresh \ gone
        BY <1>0, <1>1, <1>4 DEF Alive, n
    <2>2. refresh'[t] = refresh[t] /\ access'[t] = access[t]
        BY <1>0, <1>1, <2>1
    <2>3. /\ refresh[t].family \in DOMAIN families /\ refresh[t].family \notin Stale
        BY <1>0, <1>3, <2>1 DEF NoOrphans, Known
    <2> QED
        BY <1>1, <1>4, <2>1, <2>2, <2>3 DEF Alive, Live, Known
<1>5. ASSUME NEW t \in 0 .. minted, NEW x \in 0 .. minted, x \in Alive', t \in Spent, SameFamily(t, x)
      PROVE  t \in Spent' /\ SameFamily(t, x)'
    <2>1. x \in DOMAIN refresh \ gone /\ refresh'[x] = refresh[x]
        BY <1>4, <1>5
    <2>2. t \in DOMAIN refresh \ gone
        BY <1>3, <1>5, <2>1 DEF SameFamily, Spent, Alive
    <2>3. refresh'[t] = refresh[t] /\ t \in DOMAIN refresh'
        BY <1>1, <2>2
    <2> QED
        BY <1>5, <2>1, <2>3 DEF SameFamily, Spent, Alive
<1>6. ASSUME NEW t, t = n PROVE t \notin Spent' /\ MintedAt'[t] = now'
    BY <1>0, <1>1, <1>2, <1>6 DEF Spent, MintedAt
<1>7. MintsFresh
    BY <1>0, <1>1, <1>6 DEF MintsFresh, n
<1>8. ASSUME NEW t \in 0 .. minted
      PROVE  /\ t \in Alive' => t \in Alive /\ MintedAt'[t] = MintedAt[t]
             /\ t \in Spent' => t \in Spent \/ t = 0
    BY <1>0, <1>1, <1>2, <1>4 DEF Spent, MintedAt
<1>9. now <= now' /\ minted <= minted'
    BY <1>0, <1>1, <1>2 DEF n
<1> QED
    BY <1>1, <1>2, <1>5, <1>7, <1>8, <1>9 DEF Ages, n

\* A rotation ages the store but for the token presented, which is alive and
\* unspent before, and spent after it in the family of the new pair.
LEMMA RotateAges ==
    ASSUME StoreInv, NEW s \in Serial, Rotate(s)
    PROVE  /\ Ages(s) /\ MintsFresh /\ minted' = minted + 1
           /\ s \in Alive /\ (\A t : t = minted + 1 => s \in Spent' /\ SameFamily(s, t)') /\ UNCHANGED now
           /\ DOMAIN families' = DOMAIN families
           /\ \A f \in DOMAIN families : families'[f].reason = families[f].reason
<1> DEFINE f == refresh[s].family
           n == minted + 1
<1>0. /\ TypeOK /\ NoOrphans /\ now \in Nat /\ ttl \in Nat /\ minted \in Nat
      /\ DOMAIN refresh \subseteq 1 .. minted /\ DOMAIN access = DOMAIN refresh
      /\ refresh \in [DOMAIN refresh -> RefreshRecord]
    BY Numbers DEF StoreInv, TypeOK
<1>1. /\ s \in DOMAIN refresh /\ ~ refresh[s].consumed /\ Live(f)
      /\ minted' = n /\ s # n /\ n \notin DOMAIN refresh
      /\ DOMAIN families' = DOMAIN families
      /\ \A g \in DOMAIN families : g # f => families'[g] = families[g]
      /\ families'[f].reason = families[f].reason
      /\ DOMAIN access' = DOMAIN access \cup {n}
      /\ \A x \in DOMAIN access : access'[x] = access[x]
      /\ access'[n] = [family |-> f, exp |-> now + ttl]
      /\ DOMAIN refresh' = DOMAIN refresh \cup {n}
      /\ \A x \in DOMAIN refresh : x # s => refresh'[x] = refresh[x]
      /\ refresh'[s] = [family |-> f, consumed |-> TRUE]
      /\ refresh'[n] = [family |-> f, consumed |-> FALSE]
    BY <1>0, RotateEffect, StoreAssumption
<1>2. now' = now /\ ttl' = ttl
    BY DEF Rotate
<1> HIDE DEF f, n
<1>3. \A g \in DOMAIN families : families'[g].reason = families[g].reason
    BY <1>1
<1>4. \A g : Live(g)' <=> Live(g)
    BY <1>1, <1>3 DEF Live, Known
<1>5. \A x \in DOMAIN refresh :
          /\ refresh'[x].family = refresh[x].family
          /\ refresh'[x].consumed <=> (refresh[x].consumed \/ x = s)
    BY <1>0, <1>1 DEF RefreshRecord, f
<1>6. \A t \in 0 .. minted : t \in DOMAIN refresh' <=> t \in DOMAIN refresh
    BY <1>0, <1>1 DEF n
<1>7. ASSUME NEW t \in 0 .. minted
      PROVE  /\ t \in Alive' <=> t \in Alive
             /\ t \in Alive' => MintedAt'[t] = MintedAt[t]
             /\ t \in Spent' <=> t \in Alive /\ (refresh[t].consumed \/ t = s)
    BY <1>0, <1>1, <1>2, <1>4, <1>5, <1>6 DEF Alive, MintedAt, Spent
<1>8. ASSUME NEW t \in 0 .. minted, NEW x \in 0 .. minted, x \in Alive', t \in Spent, SameFamily(t, x)
      PROVE  t \in Spent' /\ SameFamily(t, x)'
    BY <1>5, <1>7, <1>8 DEF SameFamily, Spent, Alive
<1>9. s \in Alive /\ s \in Alive'
    BY <1>0, <1>1, <1>4, <1>5 DEF Alive
<1>10. ASSUME NEW t, t = n PROVE s \in Spent' /\ SameFamily(s, t)'
    BY <1>1, <1>9, <1>10 DEF SameFamily, Spent
<1>11. ASSUME NEW t, t = n PROVE t \notin Spent' /\ MintedAt'[t] = now'
    BY <1>0, <1>1, <1>2, <1>11 DEF Spent, MintedAt
<1>12. MintsFresh
    BY <1>0, <1>1, <1>11 DEF MintsFresh, n
<1>13. Ages(s)
    <2>1. now <= now' /\ minted <= minted'
        BY <1>0, <1>1, <1>2 DEF n
    <2>2. \A t \in 0 .. minted : t \in Spent' => t \in Spent \/ t = s
        BY <1>7 DEF Spent
    <2> QED
        BY <1>2, <1>7, <1>8, <2>1, <2>2 DEF Ages
<1> QED
    BY <1>1, <1>2, <1>3, <1>9, <1>10, <1>12, <1>13 DEF n

LEMMA TooLateAges ==
    ASSUME StoreInv, NEW s \in Serial, RefreshTooLate(s)
    PROVE  Ages(s) /\ MintsFresh /\ UNCHANGED <<now, families>> /\ (s \in Alive' => s \in Alive)
<1>0. /\ TypeOK /\ now \in Nat /\ ttl \in Nat /\ minted \in Nat
      /\ DOMAIN refresh \subseteq 1 .. minted
      /\ refresh \in [DOMAIN refresh -> RefreshRecord]
    BY Numbers DEF StoreInv, TypeOK
<1>1. /\ refresh' = [refresh EXCEPT ![s].consumed = TRUE]
      /\ UNCHANGED <<now, ttl, minted, families, access>>
    BY DEF RefreshTooLate
<1>2. /\ DOMAIN refresh' = DOMAIN refresh
      /\ \A x \in DOMAIN refresh :
          /\ refresh'[x].family = refresh[x].family
          /\ refresh'[x].consumed => refresh[x].consumed \/ x = s
          /\ refresh[x].consumed => refresh'[x].consumed
    BY <1>0, <1>1 DEF RefreshRecord
<1>3. ASSUME NEW t
      PROVE  /\ t \in Alive' <=> t \in Alive
             /\ MintedAt'[t] = MintedAt[t]
             /\ t \in Spent' => t \in Spent \/ t = s
             /\ t \in Spent => t \in Spent'
    BY <1>1, <1>2 DEF Alive, MintedAt, Spent, Live, Known
<1>4. ASSUME NEW t, NEW x, x \in Alive', t \in Spent, SameFamily(t, x) PROVE t \in Spent' /\ SameFamily(t, x)'
    BY <1>2, <1>3, <1>4 DEF SameFamily, Spent, Alive
<1>5. MintsFresh
    BY <1>0, <1>1 DEF MintsFresh
<1>6. now <= now' /\ minted <= minted'
    BY <1>0, <1>1
<1> QED
    BY <1>1, <1>3, <1>4, <1>5, <1>6 DEF Ages

-----------------------------------------------------------------------------
\* What holds of the tokens, the cookie, the requests and the flights goes on
\* holding while the store ages.
LEMMA PairsAge ==
    ASSUME StoreInv, PairsTimed, NEW s, Ages(s), MintsFresh, now' \in Nat, minted' \in Nat,
           s \in Alive => MintedAt[s] + 2 * MaxCall < now
    PROVE  PairsTimed'
<1>0. /\ now \in Nat /\ minted \in Nat /\ MaxCall \in Nat
      /\ \A t : t \in Alive => MintedAt[t] \in Int
    BY Numbers, BffAssumption DEF BffAssumption
<1>1. ASSUME NEW t \in 0 .. minted PROVE DatedPair(t)'
    <2>1. /\ t \in Alive' => t \in Alive /\ MintedAt'[t] = MintedAt[t]
          /\ t \in Spent' => t \in Alive' /\ (t \in Spent \/ t = s)
          /\ now <= now'
        BY DEF Ages, Spent
    <2>2. /\ t \in Alive => MintedAt[t] <= now
          /\ t \in Spent => MintedAt[t] + 2 * MaxCall < now
        BY DEF PairsTimed, DatedPair
    <2>3. ASSUME t \in Alive' PROVE MintedAt'[t] <= now'
        BY <1>0, <2>1, <2>2, <2>3
    <2>4. ASSUME t \in Spent' PROVE MintedAt'[t] + 2 * MaxCall < now'
        BY <1>0, <2>1, <2>2, <2>4
    <2> QED
        BY <2>3, <2>4 DEF DatedPair
<1>2. ASSUME NEW t \in minted + 1 .. minted' PROVE DatedPair(t)'
    <2>1. t \notin Spent' /\ MintedAt'[t] = now'
        BY DEF MintsFresh
    <2>2. MintedAt'[t] <= now'
        BY <2>1
    <2> QED
        BY <2>1, <2>2 DEF DatedPair
<1>3. \A t \in 0 .. minted' : t \in 0 .. minted \/ t \in minted + 1 .. minted'
    BY <1>0
<1> QED
    BY <1>1, <1>2, <1>3 DEF PairsTimed

LEMMA SessionAges ==
    ASSUME NEW s, Ages(s), NEW se, se.pair \in 0 .. minted, DatedSession(se)
    PROVE  DatedSession(se)'
BY DEF Ages, DatedSession

LEMMA RequestAges ==
    ASSUME StoreInv, NEW s, Ages(s), now' \in Nat, NEW x, x.born \in Nat, x.sess.pair \in 0 .. minted,
           DatedWork(x), x.pc # "idle" => now' <= x.born + MaxCall,
           Waits(x) => /\ x.sess.pair \in DOMAIN flights'
                       /\ flights'[x.sess.pair].state # "settled"
    PROVE  DatedRequest(x)'
<1>1. now \in Nat /\ x.born \in Nat /\ now <= now'
    BY Numbers DEF Ages
<1>2. x.pc # "idle" => x.born <= now' /\ now' <= x.born + MaxCall
    BY <1>1 DEF DatedWork
<1>3. Carries(x) => DatedSession(x.sess)'
    BY SessionAges DEF DatedWork
<1>4. Carries(x) /\ x.set = "save" /\ x.sess.pair \in Alive' =>
          x.born <= MintedAt'[x.sess.pair] + MaxCall
    BY DEF DatedWork, Ages
<1>5. x.pc = "login" => x.set = "none"
    BY DEF DatedWork
<1> QED
    BY <1>2, <1>3, <1>4, <1>5 DEF DatedRequest, DatedWork, OnFlight

LEMMA OutcomeAges ==
    ASSUME NEW s, Ages(s), NEW t \in 0 .. minted, NEW fl, fl.outcome.pair \in 0 .. minted,
           DatedOutcome(t, fl), t # s \/ fl.state # "sent"
    PROVE  DatedOutcome(t, fl)'
<1> DEFINE o == fl.outcome.pair
<1>1. ASSUME fl.state = "sent"
      PROVE  /\ fl.outcome.kind = "transient" /\ t \notin Spent'
             /\ t \in Alive' => MintedAt'[t] + 2 * MaxCall < fl.at
    BY <1>1 DEF DatedOutcome, Ages
<1>2. ASSUME fl.outcome.kind = "ok"
      PROVE  fl.outcome.life = ttl'
    BY <1>2 DEF DatedOutcome, Ages
<1>3. ASSUME fl.outcome.kind = "ok", o \in Alive'
      PROVE  /\ t \in Spent' /\ SameFamily(t, o)'
             /\ fl.state = "answered" => fl.at <= MintedAt'[o]
    <2>1. /\ o \in Alive /\ MintedAt'[o] = MintedAt[o]
        BY <1>3 DEF Ages
    <2>2. /\ t \in Spent /\ SameFamily(t, o)
          /\ fl.state = "answered" => fl.at <= MintedAt[o]
        BY <1>3, <2>1 DEF DatedOutcome
    <2>3. t \in Spent' /\ refresh'[t].family = refresh'[o].family
        BY <1>3, <2>2 DEF Ages, SameFamily
    <2> QED
        BY <2>1, <2>2, <2>3 DEF SameFamily
<1> QED
    BY <1>1, <1>2, <1>3 DEF DatedOutcome, SameFamily

LEMMA BornAges ==
    ASSUME NEW s, Ages(s), NEW x, NEW late, NEW fl, fl.outcome.pair \in 0 .. minted,
           BornBy(x, late, fl)
    PROVE  BornBy(x, late, fl)'
BY DEF BornBy, Ages

-----------------------------------------------------------------------------
\* The invariant of the next state, read off its requests and flights.
LEMMA RequestsAre ==
    ASSUME \A q \in Requests : \E x : x = req'[q] /\ DatedRequest(x)'
    PROVE  RequestsTimed'
<1>1. ASSUME NEW q \in Requests PROVE DatedRequest(req[q])'
    <2>1. PICK x : x = req'[q] /\ DatedRequest(x)'
        OBVIOUS
    <2> QED
        BY <2>1 DEF DatedRequest, DatedWork, OnFlight, DatedSession, Carries, Waits
<1> QED
    BY <1>1 DEF RequestsTimed

LEMMA FlightIs ==
    ASSUME NEW t, NEW fl, fl = flights'[t], fl.at <= now', DatedOutcome(t, fl)', Awaited(t)'
    PROVE  DatedFlight(t)'
BY DEF DatedFlight, DatedOutcome, SameFamily

LEMMA AwaitedBy ==
    ASSUME NEW t, NEW r \in Requests, NEW x, x = req'[r], Waits(x), x.sess.pair = t,
           x.born <= flights'[t].at
    PROVE  Awaited(t)'
BY DEF Awaited, Waits

LEMMA OnBoardIs ==
    ASSUME NEW t, (\/ jar'.pair = t
                   \/ \E r \in Requests : \E x : x = req'[r] /\ Carries(x) /\ x.sess.pair = t)
                  => t \in DOMAIN flights' /\ flights'[t].outcome.kind # "transient"
    PROVE  OnBoard(t)'
BY DEF OnBoard, Held, Carries

LEMMA OutlivedIs ==
    ASSUME NEW t, NEW fl, fl = flights'[t],
           t \in DOMAIN flights' /\ fl.state = "settled" =>
              /\ \A r \in Requests : \E x : /\ x = req'[r]
                                            /\ Carries(x) /\ x.sess.pair = t =>
                                                  BornBy(x, MaxCall, fl)'
              /\ jar'.pair = t =>
                    \E r \in Requests : \E x : x = req'[r] /\ Brings(x) /\ BornBy(x, 0, fl)'
    PROVE  Outlived(t)'
<1> SUFFICES ASSUME t \in DOMAIN flights', flights'[t].state = "settled"
             PROVE  /\ \A r \in Requests :
                          (Carries(req[r]) /\ req[r].sess.pair = t => BornBy(req[r], MaxCall, flights[t]))'
                    /\ jar'.pair = t =>
                          \E r \in Requests : (Brings(req[r]) /\ BornBy(req[r], 0, flights[t]))'
    BY DEF Outlived
<1>1. ASSUME NEW r \in Requests
      PROVE  (Carries(req[r]) /\ req[r].sess.pair = t => BornBy(req[r], MaxCall, flights[t]))'
    <2>1. PICK x : x = req'[r] /\ (Carries(x) /\ x.sess.pair = t => BornBy(x, MaxCall, fl)')
        OBVIOUS
    <2> QED
        BY <2>1 DEF Carries, BornBy
<1>2. ASSUME jar'.pair = t
      PROVE  \E r \in Requests : (Brings(req[r]) /\ BornBy(req[r], 0, flights[t]))'
    <2>1. PICK r \in Requests : \E x : x = req'[r] /\ Brings(x) /\ BornBy(x, 0, fl)'
        BY <1>2
    <2>2. PICK x : x = req'[r] /\ Brings(x) /\ BornBy(x, 0, fl)'
        BY <2>1
    <2> QED
        BY <2>2 DEF Brings, BornBy
<1> QED
    BY <1>1, <1>2

-----------------------------------------------------------------------------
LEMMA Typed ==
    ASSUME BffInv
    PROVE  /\ StoreInv /\ jar \in Session /\ jar.pair \in 0 .. minted
           /\ \A r \in Requests : req[r] \in Request /\ req[r].sess.pair \in 0 .. minted
           /\ \A t \in DOMAIN flights : /\ flights[t] \in Flight /\ t \in 0 .. minted /\ t # 0
                                        /\ flights[t].outcome.pair \in 0 .. minted
           /\ req \in [Requests -> Request]
<1>1. minted \in Nat
    BY Numbers DEF BffInv
<1> QED
    BY <1>1 DEF BffInv, Cookies, RequestsSound, SoundRequest, FlightsSound, SoundFlight, SoundOutcome

\* A request that takes up a spent token finds its flight on the board.
TakesUp(x) ==
    Carries(x) /\ x.sess.pair \in Spent =>
        /\ x.sess.pair \in DOMAIN flights
        /\ flights[x.sess.pair].outcome.kind # "transient"
        /\ flights[x.sess.pair].state = "settled" => BornBy(x, MaxCall, flights[x.sess.pair])

\* Request r becomes y, flights may start but none changes, time stands still.
LEMMA OneRequestTimed ==
    ASSUME BffInv, TimedInv, Ages(0), MintsFresh, now' = now, minted' \in Nat, NoSelfReuse',
           NEW r \in Requests, NEW y, req' = [req EXCEPT ![r] = y],
           ~ Waits(req[r]), DatedRequest(y)', TakesUp(y),
           \A t \in DOMAIN flights : t \in DOMAIN flights' /\ flights'[t] = flights[t],
           \A t \in DOMAIN flights' : t \notin DOMAIN flights =>
               /\ DatedFlight(t)' /\ t \notin Spent,
           DatedSession(jar)',
           jar'.pair \in Spent =>
               jar' = jar /\ (Brings(req[r]) => Brings(y) /\ y.born = req[r].born)
    PROVE  TimedInv'
<1>0. /\ StoreInv /\ now \in Nat /\ minted \in Nat /\ minted <= minted' /\ 0 \notin Alive
      /\ \A q \in Requests : req[q] \in Request /\ req[q].sess.pair \in 0 .. minted
      /\ \A t \in DOMAIN flights : t \in 0 .. minted /\ t # 0 /\ flights[t].outcome.pair \in 0 .. minted
      /\ \A q \in Requests : req'[q] = IF q = r THEN y ELSE req[q]
    BY Typed, Numbers DEF Ages, Alive
<1>1. /\ PairsTimed /\ RequestsTimed /\ FlightsTimed /\ SpentAccounted
    BY DEF TimedInv
<1>2. PairsTimed'
    BY <1>0, <1>1, PairsAge
<1>3. RequestsTimed'
    <2>1. ASSUME NEW q \in Requests, q # r PROVE \E x : x = req'[q] /\ DatedRequest(x)'
        <3>1. PICK x : x = req[q]
            OBVIOUS
        <3>2. /\ x.born \in Nat /\ x.sess.pair \in 0 .. minted /\ x = req'[q]
              /\ DatedWork(x) /\ OnFlight(x)
            BY <1>0, <1>1, <2>1, <3>1 DEF RequestsTimed, DatedRequest, Request
        <3>3. Waits(x) => /\ x.sess.pair \in DOMAIN flights'
                          /\ flights'[x.sess.pair].state # "settled"
            BY <3>2 DEF OnFlight
        <3>4. x.pc # "idle" => now' <= x.born + MaxCall
            BY <3>2 DEF DatedWork
        <3> QED
            BY <1>0, <3>2, <3>3, <3>4, RequestAges
    <2>2. y = req'[r]
        BY <1>0
    <2> QED
        BY <2>1, <2>2, RequestsAre
<1>4. FlightsTimed'
    <2>1. ASSUME NEW t \in DOMAIN flights PROVE DatedFlight(t)'
        <3>1. PICK fl : fl = flights[t]
            OBVIOUS
        <3>2. /\ fl = flights'[t] /\ fl.at <= now' /\ DatedOutcome(t, fl) /\ Awaited(t)
            BY <1>1, <3>1 DEF FlightsTimed, DatedFlight
        <3>3. DatedOutcome(t, fl)'
            BY <1>0, <3>1, <3>2, OutcomeAges
        <3>4. Awaited(t)'
            <4>1. CASE fl.state = "settled"
                BY <3>2, <4>1 DEF Awaited
            <4>2. CASE fl.state # "settled"
                <5>1. PICK q \in Requests : /\ Waits(req[q]) /\ req[q].sess.pair = t
                                            /\ req[q].born <= flights[t].at
                    BY <3>1, <3>2, <4>2 DEF Awaited
                <5>2. req'[q] = req[q] /\ flights'[t] = flights[t]
                    BY <1>0, <5>1
                <5>3. PICK x : x = req'[q]
                    OBVIOUS
                <5>4. Waits(x) /\ x.sess.pair = t /\ x.born <= flights'[t].at
                    BY <5>1, <5>2, <5>3
                <5> QED
                    BY <5>3, <5>4, AwaitedBy
            <4> QED
                BY <4>1, <4>2
        <3> QED
            BY <3>2, <3>3, <3>4, FlightIs
    <2> QED
        BY <2>1 DEF FlightsTimed
<1>5. SpentAccounted'
    <2> SUFFICES ASSUME NEW t \in 0 .. minted', t \in Spent' PROVE OnBoard(t)' /\ Outlived(t)'
        BY DEF SpentAccounted
    <2>1. t \in 0 .. minted
        BY <1>0 DEF MintsFresh
    <2>2. t \in Spent
        BY <1>0, <2>1 DEF Ages, Spent
    <2>3. OnBoard(t) /\ Outlived(t)
        BY <1>1, <2>1, <2>2 DEF SpentAccounted
    <2>4. OnBoard(t)'
        <3>1. ASSUME jar'.pair = t
              PROVE  t \in DOMAIN flights' /\ flights'[t].outcome.kind # "transient"
            BY <2>2, <2>3, <3>1 DEF OnBoard, Held
        <3>2. ASSUME NEW q \in Requests, NEW x, x = req'[q], Carries(x), x.sess.pair = t
              PROVE  t \in DOMAIN flights' /\ flights'[t].outcome.kind # "transient"
            <4>1. CASE q = r
                BY <1>0, <2>2, <3>2, <4>1 DEF TakesUp
            <4>2. CASE q # r
                <5>1. x = req[q]
                    BY <1>0, <3>2, <4>2
                <5>2. Held(t)
                    BY <3>2, <5>1 DEF Held
                <5> QED
                    BY <2>3, <5>2 DEF OnBoard
            <4> QED
                BY <4>1, <4>2
        <3> QED
            BY <3>1, <3>2, OnBoardIs
    <2>5. Outlived(t)'
        <3>1. PICK fl : fl = flights'[t]
            OBVIOUS
        <3> SUFFICES ASSUME t \in DOMAIN flights', fl.state = "settled"
                     PROVE  /\ \A q \in Requests : \E x :
                                  /\ x = req'[q]
                                  /\ Carries(x) /\ x.sess.pair = t => BornBy(x, MaxCall, fl)'
                            /\ jar'.pair = t =>
                                  \E q \in Requests : \E x :
                                     x = req'[q] /\ Brings(x) /\ BornBy(x, 0, fl)'
            BY <3>1, OutlivedIs
        <3>2. t \in DOMAIN flights /\ fl = flights[t] /\ fl.outcome.pair \in 0 .. minted
            BY <1>0, <2>2, <3>1
        <3>3. /\ \A q \in Requests :
                    Carries(req[q]) /\ req[q].sess.pair = t => BornBy(req[q], MaxCall, flights[t])
              /\ jar.pair = t => \E q \in Requests : Brings(req[q]) /\ BornBy(req[q], 0, flights[t])
            BY <2>3, <3>2 DEF Outlived
        <3>4. ASSUME NEW q \in Requests
              PROVE  \E x : x = req'[q] /\ (Carries(x) /\ x.sess.pair = t => BornBy(x, MaxCall, fl)')
            <4>1. PICK x : x = req'[q]
                OBVIOUS
            <4>2. ASSUME Carries(x), x.sess.pair = t PROVE BornBy(x, MaxCall, fl)
                <5>1. CASE q = r
                    <6>1. x = y
                        BY <1>0, <4>1, <5>1
                    <6> QED
                        BY <2>2, <3>2, <4>2, <6>1 DEF TakesUp
                <5>2. CASE q # r
                    <6>1. x = req[q]
                        BY <1>0, <4>1, <5>2
                    <6> QED
                        BY <3>2, <3>3, <4>2, <6>1
                <5> QED
                    BY <5>1, <5>2
            <4> QED
                BY <3>2, <4>1, <4>2, BornAges
        <3>5. ASSUME jar'.pair = t
              PROVE  \E q \in Requests : \E x : x = req'[q] /\ Brings(x) /\ BornBy(x, 0, fl)'
            <4>1. jar' = jar /\ (Brings(req[r]) => Brings(y) /\ y.born = req[r].born)
                BY <2>2, <3>5
            <4>2. PICK q \in Requests : Brings(req[q]) /\ BornBy(req[q], 0, flights[t])
                BY <3>3, <3>5, <4>1
            <4>3. PICK x : x = req'[q]
                OBVIOUS
            <4>4. Brings(x) /\ x.born = req[q].born
                <5>1. CASE q = r
                    BY <1>0, <4>1, <4>2, <4>3, <5>1
                <5>2. CASE q # r
                    BY <1>0, <4>2, <4>3, <5>2
                <5> QED
                    BY <5>1, <5>2
            <4>5. BornBy(x, 0, fl)
                BY <3>2, <4>2, <4>4 DEF BornBy
            <4> QED
                BY <3>2, <4>3, <4>4, <4>5, BornAges
        <3> QED
            BY <3>4, <3>5
    <2> QED
        BY <2>4, <2>5
<1> QED
    BY <1>2, <1>3, <1>4, <1>5 DEF TimedInv

-----------------------------------------------------------------------------
LEMMA Timing ==
    ASSUME Unhurried, BffInv
    PROVE  /\ MaxCall \in Nat /\ Margin \in Nat /\ Grace \in Nat
           /\ 2 * MaxCall <= Margin /\ 2 * MaxCall < Grace /\ Margin + 2 * MaxCall < ttl
           /\ now \in Nat /\ ttl \in Nat /\ minted \in Nat /\ 0 \notin Alive /\ Spent \subseteq Alive
           /\ \A t : t \in Alive => t \in 0 .. minted /\ t # 0 /\ MintedAt[t] \in Int
BY Numbers, BffAssumption DEF BffInv, BffAssumption, Unhurried, Alive, Spent

\* A step of the requests leaves the store as it is.
LEMMA StandsStill ==
    ASSUME BffInv, NoSelfReuse, UNCHANGED storeVars
    PROVE  Ages(0) /\ MintsFresh /\ now' = now /\ minted' \in Nat /\ NoSelfReuse'
<1>1. StoreInv /\ now \in Nat /\ minted \in Nat
    BY Numbers DEF BffInv
<1>2. UNCHANGED <<now, ttl, minted, families, access, refresh>>
    BY DEF storeVars
<1>3. now' \in Nat /\ now <= now' /\ minted' \in Nat
    BY <1>1, <1>2
<1>4. Ages(0) /\ MintsFresh
    BY <1>1, <1>2, <1>3, SameTokensAge
<1> QED
    BY <1>2, <1>3, <1>4 DEF NoSelfReuse

\* A waiting request that goes on with an outcome whose pair is young enough.
LEMMA ResumeDated ==
    ASSUME Unhurried, BffInv, PairsTimed, NEW x, Waits(x), DatedWork(x), x \in Request,
           NEW out \in Outcome, out.kind = "ok" => out.life = ttl,
           out.kind = "ok" /\ out.pair \in Alive =>
               now <= MintedAt[out.pair] + 2 * MaxCall /\ x.born <= MintedAt[out.pair] + MaxCall,
           NEW y, y = Resume(x, out)
    PROVE  /\ DatedWork(y) /\ ~ Waits(y) /\ y.pc # "idle" /\ y.born = x.born
           /\ y.sess.pair = IF out.kind = "ok" THEN out.pair ELSE x.sess.pair
           /\ Carries(y) /\ y.sess.pair \in Spent => out.kind = "transient"
           /\ Brings(x) \/ out.kind # "transient" => Brings(y)
<1>1. x.pc \in {"refresh", "rerefresh"} /\ x.born <= now /\ now <= x.born + MaxCall
    BY DEF Waits, DatedWork
<1>2. CASE out.kind = "ok"
    <2> DEFINE s == [pair |-> out.pair, exp |-> now + ttl]
               pc == IF x.pc = "refresh" THEN "call" ELSE "recall"
    <2>1. y = [x EXCEPT !.pc = pc, !.sess = s, !.set = "save"]
        BY <1>2 DEF Resume
    <2>2. /\ y.pc \in {"call", "recall"} /\ y.set = "save" /\ y.born = x.born
          /\ y.sess.pair = out.pair /\ y.sess.exp = now + ttl
        BY <2>1 DEF Request
    <2>3. ASSUME out.pair \in Alive
          PROVE  /\ MintedAt[out.pair] <= now /\ now <= MintedAt[out.pair] + 2 * MaxCall
                 /\ x.born <= MintedAt[out.pair] + MaxCall
                 /\ out.pair \in Spent => MintedAt[out.pair] + 2 * MaxCall < now
        BY <1>2, <2>3, Timing DEF PairsTimed, DatedPair
    <2>4. DatedSession(y.sess)
        BY <2>2, <2>3, Timing DEF DatedSession
    <2>5. out.pair \notin Spent
        BY <2>3, Timing
    <2> QED
        BY <1>1, <1>2, <2>2, <2>3, <2>4, <2>5 DEF DatedWork, Waits, Carries, Brings
<1>3. CASE out.kind = "fatal"
    <2>1. y = [x EXCEPT !.pc = "reply", !.set = "destroy"]
        BY <1>3 DEF Resume
    <2>2. y.pc = "reply" /\ y.set = "destroy" /\ y.born = x.born /\ y.sess = x.sess
        BY <2>1 DEF Request
    <2> QED
        BY <1>1, <1>3, <2>2 DEF DatedWork, Waits, Carries, Brings
<1>4. CASE out.kind = "transient"
    <2>1. y = [x EXCEPT !.pc = "reply"]
        BY <1>4 DEF Resume
    <2>2. y.pc = "reply" /\ y.set = x.set /\ y.born = x.born /\ y.sess = x.sess
        BY <2>1 DEF Request
    <2>3. Carries(x)
        BY <1>1 DEF Carries
    <2> QED
        BY <1>1, <1>4, <2>2, <2>3 DEF DatedWork, Waits, Carries, Brings
<1> QED
    BY <1>2, <1>3, <1>4 DEF Outcome

\* refreshAccessToken() of a request about to wait.
LEMMA JoinTimed ==
    ASSUME Unhurried, BffInv, TimedInv, UNCHANGED <<storeVars, jar>>,
           NEW r \in Requests, NEW x, Waits(x), DatedWork(x), x \in Request,
           x.sess.pair \in 0 .. minted, x.sess.pair # 0, TakesUp(x),
           x.sess.pair \in Alive => MintedAt[x.sess.pair] + 2 * MaxCall < now,
           ~ Waits(req[r]), Brings(req[r]) => Brings(x) /\ x.born = req[r].born, Join(r, x)
    PROVE  TimedInv'
<1> DEFINE key == x.sess.pair
<1>0. /\ Ages(0) /\ MintsFresh /\ now' = now /\ minted' \in Nat /\ NoSelfReuse'
      /\ PairsTimed /\ FlightsTimed /\ DatedSession(jar) /\ jar.pair \in 0 .. minted
      /\ now \in Nat /\ x.born \in Nat /\ StoreInv
      /\ req \in [Requests -> Request]
      /\ x.pc # "idle" /\ x.born <= now /\ now <= x.born + MaxCall
    BY StandsStill, Typed, Timing DEF TimedInv, Request, Waits, DatedWork
<1>1. DatedSession(jar)' /\ jar' = jar
    BY <1>0 DEF DatedSession, Ages
<1>2. CASE key \in DOMAIN flights /\ flights[key].state = "settled"
    <2>1. PICK fl : fl = flights[key]
        OBVIOUS
    <2>2. PICK y : y = Resume(x, fl.outcome)
        OBVIOUS
    <2>3. req' = [req EXCEPT ![r] = y] /\ flights' = flights
        BY <1>2, <2>1, <2>2 DEF Join
    <2>4. /\ fl.outcome \in Outcome /\ fl.outcome.pair \in 0 .. minted /\ DatedOutcome(key, fl)
        BY <1>0, <1>2, <2>1, Typed DEF FlightsTimed, DatedFlight, Flight
    <2>5. fl.outcome.kind = "ok" => fl.outcome.life = ttl
        BY <2>4 DEF DatedOutcome
    <2>6. ASSUME fl.outcome.kind = "ok", fl.outcome.pair \in Alive
          PROVE  /\ now <= MintedAt[fl.outcome.pair] + 2 * MaxCall
                 /\ x.born <= MintedAt[fl.outcome.pair] + MaxCall
        <3>1. key \in Spent /\ Carries(x)
            BY <2>4, <2>6 DEF DatedOutcome, Waits, Carries
        <3>2. BornBy(x, MaxCall, fl)
            BY <1>2, <2>1, <3>1 DEF TakesUp
        <3>3. x.born <= MintedAt[fl.outcome.pair] + MaxCall /\ MintedAt[fl.outcome.pair] \in Int
            BY <2>6, <3>2, Timing DEF BornBy
        <3> QED
            BY <1>0, <3>3, Timing
    <2>7. /\ DatedWork(y) /\ ~ Waits(y) /\ y.born = x.born
          /\ y.sess.pair = IF fl.outcome.kind = "ok" THEN fl.outcome.pair ELSE x.sess.pair
          /\ Carries(y) /\ y.sess.pair \in Spent => fl.outcome.kind = "transient"
          /\ Brings(x) => Brings(y)
        BY <1>0, <2>2, <2>4, <2>5, <2>6, ResumeDated
    <2>8. TakesUp(y)
        BY <1>2, <2>1, <2>7 DEF TakesUp, Waits, Carries
    <2>9. DatedRequest(y)'
        <3>1. y.sess.pair \in 0 .. minted /\ y.born \in Nat /\ now' \in Nat
            BY <1>0, <2>4, <2>7
        <3>2. y.pc # "idle" => now' <= y.born + MaxCall
            BY <1>0, <2>7
        <3> QED
            BY <1>0, <2>7, <3>1, <3>2, RequestAges
    <2> QED
        BY <1>0, <1>1, <2>3, <2>7, <2>8, <2>9, OneRequestTimed
<1>3. CASE key \in DOMAIN flights /\ flights[key].state # "settled"
    <2>1. req' = [req EXCEPT ![r] = x] /\ flights' = flights
        BY <1>3 DEF Join
    <2>2. DatedRequest(x)'
        BY <1>0, <1>3, <2>1, RequestAges
    <2> QED
        BY <1>0, <1>1, <2>1, <2>2, OneRequestTimed
<1>4. CASE key \notin DOMAIN flights
    <2>1. PICK fl : fl = [state |-> "sent", at |-> now, outcome |-> Failed("transient")]
        OBVIOUS
    <2>2. /\ req' = [req EXCEPT ![r] = x] /\ flights' = Put(flights, key, fl)
        BY <1>4, <2>1 DEF Join
    <2>3. /\ DOMAIN flights' = DOMAIN flights \cup {key} /\ flights'[key] = fl
          /\ \A t \in DOMAIN flights : t \in DOMAIN flights' /\ flights'[t] = flights[t]
        BY <1>4, <2>2 DEF Put
    <2>4. req'[r] = x
        BY <1>0, <2>2
    <2>5. key \notin Spent
        BY <1>4 DEF TakesUp, Waits, Carries
    <2>6. /\ fl.state = "sent" /\ fl.at = now /\ fl.outcome.kind = "transient"
          /\ fl.outcome.pair \in 0 .. minted
        BY <2>1, Timing DEF Failed
    <2>7. DatedOutcome(key, fl)
        BY <2>5, <2>6 DEF DatedOutcome
    <2>8. DatedFlight(key)'
        <3>1. PICK t : t = key
            OBVIOUS
        <3>2. DatedOutcome(t, fl)'
            BY <1>0, <2>6, <2>7, <3>1, Timing, OutcomeAges
        <3>3. Awaited(t)'
            BY <1>0, <2>3, <2>4, <2>6, <3>1, AwaitedBy
        <3>4. DatedFlight(t)'
            BY <1>0, <2>3, <2>6, <3>1, <3>2, <3>3, FlightIs
        <3> QED
            BY <3>1, <3>4
    <2>9. DatedRequest(x)'
        BY <1>0, <2>3, <2>6, RequestAges
    <2>10. \A t \in DOMAIN flights' : t \notin DOMAIN flights => DatedFlight(t)' /\ t \notin Spent
        BY <2>3, <2>5, <2>8
    <2> QED
        BY <1>0, <1>1, <2>2, <2>3, <2>9, <2>10, OneRequestTimed
<1> QED
    BY <1>2, <1>3, <1>4

-----------------------------------------------------------------------------
\* The steps of a request, one by one.
LEMMA BeginTimed ==
    ASSUME Unhurried, BffInv, TimedInv, NEW r \in Requests, Begin(r)
    PROVE  TimedInv'
<1>0. /\ Ages(0) /\ MintsFresh /\ now' = now /\ minted' \in Nat /\ NoSelfReuse'
      /\ SpentAccounted /\ RequestsTimed /\ DatedSession(jar)
      /\ jar \in Session /\ jar.pair \in 0 .. minted /\ StoreInv
      /\ \A q \in Requests : req[q] \in Request
      /\ req[r].pc = "idle" /\ jar.pair # 0 /\ UNCHANGED <<storeVars, jar>>
    BY StandsStill, Typed DEF TimedInv, Begin
<1>1. DatedSession(jar)' /\ jar' = jar
    BY <1>0 DEF DatedSession, Ages
<1>2. PICK x : x = [pc |-> "refresh", sess |-> jar, born |-> now, set |-> "none"]
    OBVIOUS
<1>3. PICK y : y = [x EXCEPT !.pc = "call"]
    OBVIOUS
<1>4. /\ x.pc = "refresh" /\ y.pc = "call" /\ x.set = "none" /\ y.set = "none"
      /\ x.born = now /\ y.born = now /\ x.sess = jar /\ y.sess = jar /\ x \in Request
      /\ now \in Nat /\ now <= now + MaxCall
    BY <1>0, <1>2, <1>3, Timing DEF Request
<1>5. DatedWork(x) /\ DatedWork(y)
    BY <1>0, <1>4 DEF DatedWork
<1>6. ASSUME jar.pair \in Spent
      PROVE  /\ jar.pair \in DOMAIN flights /\ flights[jar.pair].outcome.kind # "transient"
             /\ flights[jar.pair].state = "settled" =>
                   \A z : z.born = now => BornBy(z, MaxCall, flights[jar.pair])
    <2>1. OnBoard(jar.pair) /\ Outlived(jar.pair)
        BY <1>0, <1>6 DEF SpentAccounted
    <2>2. jar.pair \in DOMAIN flights /\ flights[jar.pair].outcome.kind # "transient"
        BY <2>1 DEF OnBoard, Held
    <2>3. ASSUME flights[jar.pair].state = "settled", NEW z, z.born = now
          PROVE  BornBy(z, MaxCall, flights[jar.pair])
        <3> DEFINE fl == flights[jar.pair]
        <3>1. PICK q \in Requests : Brings(req[q]) /\ BornBy(req[q], 0, fl)
            BY <2>1, <2>2, <2>3 DEF Outlived
        <3>2. req[q].born \in Nat /\ now <= req[q].born + MaxCall
            BY <1>0, <3>1 DEF RequestsTimed, DatedRequest, DatedWork, Brings, Request
        <3>3. fl.at \in Nat
            BY <2>2, Typed DEF Flight
        <3>4. z.born <= fl.at + MaxCall
            BY <2>3, <3>1, <3>2, <3>3, Timing DEF BornBy
        <3>5. ASSUME fl.outcome.kind = "ok", fl.outcome.pair \in Alive
              PROVE  z.born <= MintedAt[fl.outcome.pair] + MaxCall
            <4>1. req[q].born <= MintedAt[fl.outcome.pair] + 0 /\ MintedAt[fl.outcome.pair] \in Int
                BY <3>1, <3>5, Timing DEF BornBy
            <4> QED
                BY <2>3, <3>2, <4>1, Timing
        <3> QED
            BY <3>4, <3>5 DEF BornBy
    <2> QED
        BY <2>2, <2>3
<1>7. TakesUp(x) /\ TakesUp(y)
    BY <1>4, <1>6 DEF TakesUp
<1>8. Waits(x) /\ ~ Waits(y) /\ ~ Waits(req[r]) /\ ~ Brings(req[r])
    BY <1>0, <1>4 DEF Waits, Brings
<1>9. CASE now >= jar.exp - Margin
    <2>1. Join(r, x)
        BY <1>2, <1>9 DEF Begin
    <2>2. ASSUME jar.pair \in Alive PROVE MintedAt[jar.pair] + 2 * MaxCall < now
        <3>1. MintedAt[jar.pair] + ttl <= jar.exp /\ jar.exp \in Nat
            BY <1>0, <2>2 DEF DatedSession, Session
        <3> QED
            BY <1>9, <2>2, <3>1, Timing
    <2> QED
        BY <1>0, <1>4, <1>5, <1>7, <1>8, <2>1, <2>2, JoinTimed
<1>10. CASE ~ now >= jar.exp - Margin
    <2>1. req' = [req EXCEPT ![r] = y] /\ flights' = flights
        BY <1>2, <1>3, <1>10 DEF Begin
    <2>2. DatedRequest(y)'
        BY <1>0, <1>4, <1>5, <1>8, RequestAges
    <2> QED
        BY <1>0, <1>1, <1>7, <1>8, <2>1, <2>2, OneRequestTimed
<1> QED
    BY <1>9, <1>10

\* A request that gives its answer without a refresh: what it carries it
\* carried before.
LEMMA AnswerTimed ==
    ASSUME Unhurried, BffInv, TimedInv, UNCHANGED <<storeVars, jar, flights>>,
           NEW r \in Requests, req[r].pc \in {"call", "recall", "login"},
           req' = [req EXCEPT ![r].pc = "reply"]
    PROVE  TimedInv'
<1>0. /\ Ages(0) /\ MintsFresh /\ now' = now /\ minted' \in Nat /\ NoSelfReuse' /\ now \in Nat
      /\ SpentAccounted /\ RequestsTimed /\ DatedSession(jar) /\ StoreInv
      /\ req[r] \in Request /\ req[r].sess.pair \in 0 .. minted
    BY StandsStill, Typed, Timing DEF TimedInv
<1>1. DatedSession(jar)' /\ jar' = jar
    <2>1. jar' = jar
        OBVIOUS
    <2> QED
        BY <1>0, <2>1, Typed DEF DatedSession, Ages
<1>2. PICK y : y = [req[r] EXCEPT !.pc = "reply"]
    OBVIOUS
<1>3. /\ y.pc = "reply" /\ y.set = req[r].set /\ y.born = req[r].born /\ y.sess = req[r].sess
      /\ y.born \in Nat /\ req' = [req EXCEPT ![r] = y]
    BY <1>0, <1>2 DEF Request
<1>4. DatedWork(req[r])
    BY <1>0 DEF RequestsTimed, DatedRequest
<1>5. Carries(y) => Carries(req[r])
    BY <1>3, <1>4 DEF Carries, DatedWork
<1>6. ~ Waits(y) /\ ~ Waits(req[r]) /\ (Brings(req[r]) => Brings(y))
    BY <1>3 DEF Waits, Brings
<1>7. DatedWork(y)
    BY <1>3, <1>4, <1>5 DEF DatedWork
<1>8. y.pc # "idle" => now' <= y.born + MaxCall
    BY <1>0, <1>7 DEF DatedWork
<1>9. DatedRequest(y)'
    BY <1>0, <1>3, <1>6, <1>7, <1>8, RequestAges
<1>10. TakesUp(y)
    <2> SUFFICES ASSUME Carries(y), y.sess.pair \in Spent PROVE TakesUp(y)
        BY DEF TakesUp
    <2> DEFINE t == req[r].sess.pair
    <2>1. t \in Spent /\ Carries(req[r]) /\ y.sess.pair = t
        BY <1>3, <1>5
    <2>2. OnBoard(t) /\ Outlived(t) /\ Held(t)
        BY <1>0, <2>1 DEF SpentAccounted, Held
    <2>3. t \in DOMAIN flights /\ flights[t].outcome.kind # "transient"
        BY <2>2 DEF OnBoard
    <2>4. flights[t].state = "settled" => BornBy(req[r], MaxCall, flights[t])
        BY <2>1, <2>2, <2>3 DEF Outlived
    <2>5. flights[t].state = "settled" => BornBy(y, MaxCall, flights[t])
        BY <1>3, <2>4 DEF BornBy
    <2> QED
        BY <2>1, <2>3, <2>5 DEF TakesUp
<1> QED
    BY <1>0, <1>1, <1>3, <1>6, <1>9, <1>10, OneRequestTimed

LEMMA CallTimed ==
    ASSUME Unhurried, BffInv, TimedInv, NEW r \in Requests, Call(r)
    PROVE  TimedInv'
<1>0. /\ SpentAccounted /\ RequestsTimed
      /\ req[r] \in Request /\ req[r].sess.pair \in 0 .. minted /\ req[r].pc \in {"call", "recall"}
      /\ UNCHANGED <<storeVars, jar>>
    BY Typed DEF TimedInv, Call
<1>1. CASE req[r].pc = "call" /\ AccessStatus(req[r].sess.pair) # "ok"
    <2> DEFINE t == req[r].sess.pair
    <2>1. PICK x : x = [req[r] EXCEPT !.pc = "rerefresh"]
        OBVIOUS
    <2>2. Join(r, x)
        BY <1>1, <2>1 DEF Call
    <2>3. /\ x \in Request /\ x.pc = "rerefresh" /\ x.sess = req[r].sess /\ x.born = req[r].born
          /\ x.set = req[r].set
        BY <1>0, <2>1 DEF Request
    <2>4. t # 0
        BY <1>1 DEF BffInv, RequestsSound, SoundRequest
    <2>5. DatedWork(req[r]) /\ Carries(req[r]) /\ Carries(x)
        BY <1>0, <1>1, <2>3 DEF RequestsTimed, DatedRequest, Carries
    <2>6. DatedWork(x)
        BY <1>1, <2>3, <2>5 DEF DatedWork
    <2>7. Waits(x) /\ ~ Waits(req[r]) /\ (Brings(req[r]) => Brings(x))
        BY <1>1, <2>3 DEF Waits, Brings
    <2>8. ASSUME t \in Spent PROVE TakesUp(x)
        <3>1. OnBoard(t) /\ Outlived(t) /\ Held(t)
            BY <1>0, <2>5, <2>8 DEF SpentAccounted, Held
        <3>2. t \in DOMAIN flights /\ flights[t].outcome.kind # "transient"
            BY <3>1 DEF OnBoard
        <3>3. flights[t].state = "settled" => BornBy(req[r], MaxCall, flights[t])
            BY <2>5, <3>1, <3>2 DEF Outlived
        <3>4. flights[t].state = "settled" => BornBy(x, MaxCall, flights[t])
            BY <2>3, <3>3 DEF BornBy
        <3> QED
            BY <2>3, <3>2, <3>4 DEF TakesUp
    <2>9. TakesUp(x)
        BY <2>3, <2>8 DEF TakesUp
    <2>10. ASSUME t \in Alive PROVE MintedAt[t] + 2 * MaxCall < now
        <3>1. t \in DOMAIN refresh /\ Live(refresh[t].family) /\ t \in DOMAIN access
              /\ refresh[t].family = access[t].family
            BY <2>10 DEF Alive, BffInv, StoreInv, NoOrphans
        <3>2. now >= access[t].exp
            BY <1>1, <3>1 DEF AccessStatus, Live, Known
        <3>3. MintedAt[t] = access[t].exp - ttl /\ access[t].exp \in Nat
            BY <3>1 DEF MintedAt, BffInv, StoreInv, TypeOK, AccessRecord
        <3> QED
            BY <3>2, <3>3, Timing
    <2> QED
        BY <1>0, <2>2, <2>3, <2>4, <2>6, <2>7, <2>9, <2>10, JoinTimed
<1>2. CASE ~ (req[r].pc = "call" /\ AccessStatus(req[r].sess.pair) # "ok")
    <2>1. req' = [req EXCEPT ![r].pc = "reply"] /\ UNCHANGED flights
        BY <1>2 DEF Call
    <2> QED
        BY <1>0, <2>1, AnswerTimed
<1> QED
    BY <1>1, <1>2

LEMMA SignInTimed ==
    ASSUME Unhurried, BffInv, TimedInv, NEW r \in Requests, SignIn(r)
    PROVE  TimedInv'
<1>0. /\ Ages(0) /\ MintsFresh /\ now' = now /\ minted' \in Nat /\ NoSelfReuse' /\ now \in Nat
      /\ DatedSession(jar) /\ jar.pair = 0 /\ StoreInv /\ MaxCall \in Nat
      /\ req[r].pc = "idle" /\ UNCHANGED flights
    BY StandsStill, Typed, Timing DEF TimedInv, SignIn
<1>1. jar' = jar
    BY DEF SignIn
<1>2. DatedSession(jar)' /\ jar'.pair \notin Spent
    BY <1>0, <1>1, Typed, Timing DEF DatedSession, Ages
<1>3. PICK y : y = [Idle EXCEPT !.pc = "login", !.born = now]
    OBVIOUS
<1>4. /\ y.pc = "login" /\ y.set = "none" /\ y.born = now /\ y.sess.pair = 0
      /\ req' = [req EXCEPT ![r] = y]
    BY <1>3 DEF SignIn, Idle, NoSession
<1>5. ~ Waits(y) /\ ~ Carries(y) /\ ~ Waits(req[r])
    BY <1>0, <1>4 DEF Waits, Carries
<1>6. now <= now + MaxCall
    BY <1>0
<1>7. DatedRequest(y)'
    BY <1>0, <1>4, <1>5, <1>6 DEF DatedRequest, DatedWork, OnFlight
<1> QED
    BY <1>0, <1>2, <1>4, <1>5, <1>7, OneRequestTimed DEF TakesUp

LEMMA ServeLoginTimed ==
    ASSUME Unhurried, BffInv, TimedInv, NEW r \in Requests, NEW u \in Users, ServeLogin(r, u)
    PROVE  TimedInv'
<1>0. /\ Ages(0) /\ MintsFresh /\ minted' = minted + 1 /\ minted' \in Nat /\ now \in Nat
      /\ \A f \in DOMAIN families' :
            \/ families'[f].reason = NotRevoked
            \/ f \in DOMAIN families /\ families'[f] = families[f]
      /\ DatedSession(jar) /\ NoSelfReuse /\ jar \in Session /\ jar.pair \in 0 .. minted
      /\ minted \in Nat /\ ttl \in Nat /\ MaxCall \in Nat
      /\ StoreInv /\ req[r].pc = "login" /\ DatedWork(req[r]) /\ req[r] \in Request
    BY Typed, Timing, LoginAges DEF TimedInv, ServeLogin, RequestsTimed, DatedRequest
<1>1. /\ now' = now /\ jar' = jar /\ flights' = flights /\ ttl' = ttl
    BY DEF ServeLogin, Login
<1>2. NoSelfReuse'
    BY <1>0 DEF NoSelfReuse, NotRevoked
<1>3. DatedSession(jar)'
    BY <1>0, <1>1 DEF DatedSession, Ages
<1>4. PICK n : n = minted + 1
    OBVIOUS
<1>5. PICK y : y = [req[r] EXCEPT !.pc = "reply", !.set = "save",
                                  !.sess = [pair |-> n, exp |-> now + ttl]]
    OBVIOUS
<1>6. /\ y.pc = "reply" /\ y.set = "save" /\ y.born = req[r].born
      /\ y.sess.pair = n /\ y.sess.exp = now + ttl /\ req' = [req EXCEPT ![r] = y]
    BY <1>0, <1>4, <1>5 DEF ServeLogin, Request
<1>7. n \in minted + 1 .. minted' /\ n \notin 0 .. minted
    BY <1>0, <1>4
<1>8. n \notin Spent' /\ MintedAt'[n] = now' /\ n \notin Spent
    <2>1. n \notin Alive
        BY <1>7, Timing
    <2>2. n \notin Spent
        BY <2>1, Timing
    <2> QED
        BY <1>0, <1>7, <2>2 DEF MintsFresh
<1>9. y.born \in Nat /\ y.born <= now' /\ now' <= y.born + MaxCall
    BY <1>0, <1>1, <1>6 DEF DatedWork, Request
<1>10. y.sess.exp = MintedAt'[n] + ttl' /\ MintedAt'[n] \in Nat /\ ttl' \in Nat
    BY <1>0, <1>1, <1>6, <1>8
<1>11. /\ MintedAt'[n] + ttl' <= y.sess.exp
       /\ y.sess.exp <= MintedAt'[n] + ttl' + 2 * MaxCall
       /\ y.born <= MintedAt'[n] + MaxCall
    BY <1>0, <1>1, <1>8, <1>9, <1>10
<1>12. DatedSession(y.sess)'
    BY <1>6, <1>11 DEF DatedSession
<1>13. DatedWork(y)'
    BY <1>6, <1>9, <1>11, <1>12 DEF DatedWork
<1>14. DatedRequest(y)' /\ TakesUp(y)
    BY <1>6, <1>8, <1>13 DEF DatedRequest, OnFlight, Waits, TakesUp
<1>15. ~ Waits(req[r]) /\ (Brings(req[r]) => Brings(y) /\ y.born = req[r].born)
    BY <1>0, <1>6 DEF Waits, Brings
<1> QED
    BY <1>0, <1>1, <1>2, <1>3, <1>6, <1>14, <1>15, OneRequestTimed

\* A response that saves brings a pair no request can have presented yet.
LEMMA ReplyTimed ==
    ASSUME Unhurried, BffInv, TimedInv, NEW r \in Requests, Reply(r)
    PROVE  TimedInv'
<1>0. /\ Ages(0) /\ MintsFresh /\ now' = now /\ minted' \in Nat /\ NoSelfReuse' /\ now \in Nat
      /\ DatedSession(jar) /\ StoreInv /\ PairsTimed /\ req[r] \in Request
      /\ req[r].sess.pair \in 0 .. minted
      /\ req[r].pc = "reply" /\ UNCHANGED flights /\ DatedWork(req[r])
    BY StandsStill, Typed, Timing DEF TimedInv, Reply, RequestsTimed, DatedRequest
<1>1. ASSUME req[r].set = "save" PROVE DatedSession(jar)' /\ jar'.pair \notin Spent
    <2>1. jar' = req[r].sess /\ Carries(req[r])
        BY <1>0, <1>1 DEF Reply, Carries
    <2> DEFINE t == req[r].sess.pair
    <2>2. DatedSession(req[r].sess) /\ now <= req[r].born + MaxCall
        BY <1>0, <2>1 DEF DatedWork
    <2>3. t \notin Spent
        <3> SUFFICES ASSUME t \in Spent PROVE FALSE
            OBVIOUS
        <3>1. t \in Alive /\ MintedAt[t] \in Int
            BY Timing
        <3>2. req[r].born <= MintedAt[t] + MaxCall
            BY <1>0, <1>1, <2>1, <3>1 DEF DatedWork
        <3>3. MintedAt[t] + 2 * MaxCall < now
            BY <1>0 DEF PairsTimed, DatedPair
        <3>4. req[r].born \in Nat
            BY <1>0 DEF Request
        <3> QED
            BY <1>0, <2>2, <3>1, <3>2, <3>3, <3>4, Timing
    <2>4. DatedSession(jar)'
        BY <1>0, <2>1, <2>2 DEF DatedSession, Ages
    <2> QED
        BY <2>1, <2>3, <2>4
<1>2. ASSUME req[r].set = "destroy" PROVE DatedSession(jar)' /\ jar'.pair \notin Spent
    <2>1. jar'.pair = 0
        BY <1>2 DEF Reply, NoSession
    <2>2. 0 \in 0 .. minted /\ 0 \notin Alive /\ 0 \notin Spent
        BY Timing
    <2> QED
        BY <1>0, <2>1, <2>2 DEF DatedSession, Ages
<1>3. ASSUME req[r].set = "none"
      PROVE  DatedSession(jar)' /\ jar' = jar /\ ~ Brings(req[r])
    <2>1. jar' = jar
        BY <1>3 DEF Reply
    <2> QED
        BY <1>0, <1>3, <2>1, Typed DEF DatedSession, Ages, Brings
<1>4. req[r].set \in {"none", "save", "destroy"}
    BY <1>0 DEF Request
<1>5. /\ DatedSession(jar)'
      /\ jar'.pair \in Spent => jar' = jar /\ ~ Brings(req[r])
    BY <1>1, <1>2, <1>3, <1>4
<1>6. PICK y : y = Idle
    OBVIOUS
<1>7. y.pc = "idle" /\ req' = [req EXCEPT ![r] = y]
    BY <1>6 DEF Reply, Idle
<1>8. ~ Waits(y) /\ ~ Carries(y) /\ ~ Waits(req[r])
    BY <1>0, <1>7 DEF Waits, Carries
<1>9. DatedRequest(y)' /\ TakesUp(y)
    BY <1>7, <1>8 DEF DatedRequest, DatedWork, OnFlight, TakesUp
<1> QED
    BY <1>0, <1>5, <1>7, <1>8, <1>9, OneRequestTimed

-----------------------------------------------------------------------------
\* Time passes, a user is revoked, or the backend serves the flight of s.
LEMMA AgingTimed ==
    ASSUME Unhurried, BffInv, TimedInv, NEW s \in 0 .. minted, Ages(s), MintsFresh,
           now' \in Nat, minted' \in Nat, NoSelfReuse', UNCHANGED <<jar, req>>,
           s \in Alive => MintedAt[s] + 2 * MaxCall < now,
           \A q \in Requests : req[q].pc # "idle" => now' <= req[q].born + MaxCall,
           DOMAIN flights' = DOMAIN flights,
           \A u \in DOMAIN flights : u # s => flights'[u] = flights[u],
           s \notin DOMAIN flights => s \notin Alive,
           s \in DOMAIN flights => \E fl :
               /\ fl = flights'[s] /\ fl.state = "answered" /\ fl.at = flights[s].at
               /\ fl.outcome.kind # "transient" /\ DatedOutcome(s, fl)'
               /\ flights[s].state = "sent"
    PROVE  TimedInv'
<1>0. /\ StoreInv /\ now \in Nat /\ minted \in Nat /\ now <= now'
      /\ \A q \in Requests : req[q] \in Request /\ req[q].sess.pair \in 0 .. minted
      /\ \A t \in DOMAIN flights : /\ t \in 0 .. minted /\ flights[t] \in Flight
                                   /\ flights[t].outcome.pair \in 0 .. minted
      /\ PairsTimed /\ RequestsTimed /\ FlightsTimed /\ SpentAccounted /\ DatedSession(jar)
      /\ jar' = jar /\ req' = req
    BY Typed, Timing DEF TimedInv, Ages
<1>1. PairsTimed'
    BY <1>0, PairsAge
<1>2. DatedSession(jar)'
    BY <1>0, Typed DEF DatedSession, Ages
<1>3. ASSUME NEW t \in DOMAIN flights, flights[t].state # "settled"
      PROVE  flights'[t].state # "settled" /\ flights'[t].at = flights[t].at
    BY <1>3
<1>4. RequestsTimed'
    <2>1. ASSUME NEW q \in Requests PROVE \E x : x = req'[q] /\ DatedRequest(x)'
        <3>1. PICK x : x = req[q]
            OBVIOUS
        <3>2. /\ x.born \in Nat /\ x.sess.pair \in 0 .. minted /\ x = req'[q]
              /\ DatedWork(x) /\ OnFlight(x) /\ (x.pc # "idle" => now' <= x.born + MaxCall)
            BY <1>0, <3>1 DEF RequestsTimed, DatedRequest, Request
        <3>3. Waits(x) => /\ x.sess.pair \in DOMAIN flights'
                          /\ flights'[x.sess.pair].state # "settled"
            BY <1>3, <3>2 DEF OnFlight
        <3> QED
            BY <1>0, <3>2, <3>3, RequestAges
    <2> QED
        BY <2>1, RequestsAre
<1>5. ASSUME NEW t \in DOMAIN flights PROVE DatedFlight(t)'
    <2>1. PICK old : old = flights[t]
        OBVIOUS
    <2>2. PICK fl : fl = flights'[t]
        OBVIOUS
    <2>3. old.at <= now /\ old.at \in Nat /\ DatedOutcome(t, old) /\ Awaited(t)
        BY <1>0, <2>1 DEF FlightsTimed, DatedFlight, Flight
    <2>4. fl.at = old.at /\ DatedOutcome(t, fl)' /\ (fl.state # "settled" => old.state # "settled")
        <3>1. CASE t = s
            BY <2>1, <2>2, <3>1
        <3>2. CASE t # s
            <4>1. fl = old
                BY <2>1, <2>2, <3>2
            <4> QED
                BY <1>0, <2>1, <2>3, <3>2, <4>1, OutcomeAges
        <3> QED
            BY <3>1, <3>2
    <2>5. fl.at <= now'
        BY <1>0, <2>3, <2>4
    <2>6. Awaited(t)'
        <3>1. CASE fl.state = "settled"
            BY <2>2, <3>1 DEF Awaited
        <3>2. CASE fl.state # "settled"
            <4>1. PICK q \in Requests : Waits(req[q]) /\ req[q].sess.pair = t /\ req[q].born <= old.at
                BY <2>1, <2>3, <2>4, <3>2 DEF Awaited
            <4>2. PICK x : x = req'[q]
                OBVIOUS
            <4>3. x = req[q]
                BY <1>0, <4>2
            <4>4. Waits(x) /\ x.sess.pair = t /\ x.born <= flights'[t].at
                BY <2>2, <2>4, <4>1, <4>3
            <4> QED
                BY <4>2, <4>4, AwaitedBy
        <3> QED
            BY <3>1, <3>2
    <2> QED
        BY <2>2, <2>4, <2>5, <2>6, FlightIs
<1>6. FlightsTimed'
    BY <1>5 DEF FlightsTimed
<1>7. SpentAccounted'
    <2> SUFFICES ASSUME NEW t \in 0 .. minted', t \in Spent' PROVE OnBoard(t)' /\ Outlived(t)'
        BY DEF SpentAccounted
    <2>1. t \in 0 .. minted /\ t \in Alive'
        BY <1>0 DEF MintsFresh, Spent
    <2>2. CASE t = s
        <3>1. t \in Alive
            BY <2>1 DEF Ages
        <3>2. /\ t \in DOMAIN flights' /\ flights'[t].state = "answered"
              /\ flights'[t].outcome.kind # "transient"
            BY <2>2, <3>1
        <3>3. OnBoard(t)'
            BY <3>2 DEF OnBoard
        <3>4. Outlived(t)'
            BY <3>2 DEF Outlived
        <3> QED
            BY <3>3, <3>4
    <2>3. CASE t # s
        <3>1. t \in Spent
            BY <2>1, <2>3 DEF Ages
        <3>2. OnBoard(t) /\ Outlived(t)
            BY <1>0, <2>1, <3>1 DEF SpentAccounted
        <3>3. OnBoard(t)'
            BY <1>0, <2>3, <3>2 DEF OnBoard, Held
        <3>4. Outlived(t)'
            <4>1. PICK fl : fl = flights'[t]
                OBVIOUS
            <4> SUFFICES ASSUME t \in DOMAIN flights', fl.state = "settled"
                         PROVE  /\ \A q \in Requests : \E x :
                                      /\ x = req'[q]
                                      /\ Carries(x) /\ x.sess.pair = t => BornBy(x, MaxCall, fl)'
                                /\ jar'.pair = t =>
                                      \E q \in Requests : \E x :
                                         x = req'[q] /\ Brings(x) /\ BornBy(x, 0, fl)'
                BY <4>1, OutlivedIs
            <4>2. t \in DOMAIN flights /\ fl = flights[t] /\ fl.outcome.pair \in 0 .. minted
                BY <1>0, <2>3, <4>1
            <4>3. /\ \A q \in Requests :
                        Carries(req[q]) /\ req[q].sess.pair = t => BornBy(req[q], MaxCall, fl)
                  /\ jar.pair = t => \E q \in Requests : Brings(req[q]) /\ BornBy(req[q], 0, fl)
                BY <3>2, <4>2 DEF Outlived
            <4>4. ASSUME NEW q \in Requests
                  PROVE  \E x : x = req'[q] /\ (Carries(x) /\ x.sess.pair = t => BornBy(x, MaxCall, fl)')
                <5>1. PICK x : x = req'[q]
                    OBVIOUS
                <5>2. x = req[q]
                    BY <1>0, <5>1
                <5>3. Carries(x) /\ x.sess.pair = t => BornBy(x, MaxCall, fl)
                    BY <4>3, <5>2
                <5> QED
                    BY <4>2, <5>1, <5>3, BornAges
            <4>5. ASSUME jar'.pair = t
                  PROVE  \E q \in Requests : \E x : x = req'[q] /\ Brings(x) /\ BornBy(x, 0, fl)'
                <5>1. PICK q \in Requests : Brings(req[q]) /\ BornBy(req[q], 0, fl)
                    BY <1>0, <4>3, <4>5
                <5>2. PICK x : x = req'[q]
                    OBVIOUS
                <5>3. x = req[q]
                    BY <1>0, <5>2
                <5>4. Brings(x) /\ BornBy(x, 0, fl)
                    BY <5>1, <5>3
                <5> QED
                    BY <4>2, <5>2, <5>4, BornAges
            <4> QED
                BY <4>4, <4>5
        <3> QED
            BY <3>3, <3>4
    <2> QED
        BY <2>2, <2>3
<1> QED
    BY <1>1, <1>2, <1>4, <1>6, <1>7 DEF TimedInv

LEMMA ServeRefreshTimed ==
    ASSUME Unhurried, BffInv, TimedInv, NEW t \in Serial, ServeRefresh(t)
    PROVE  TimedInv'
<1> DEFINE out == IF RefreshAnswer(t) = "ok"
                  THEN [kind |-> "ok", pair |-> minted + 1, life |-> ttl]
                  ELSE Failed("fatal")
<1>0. /\ StoreInv /\ NoSelfReuse /\ PairsTimed /\ now \in Nat /\ minted \in Nat /\ 0 \notin Alive
      /\ t \in DOMAIN flights /\ flights[t].state = "sent" /\ flights[t] \in Flight
      /\ t \in 0 .. minted /\ t # 0 /\ Refresh(t)
      /\ UNCHANGED <<jar, req>> /\ RequestsTimed
      /\ DatedOutcome(t, flights[t]) /\ flights[t].at <= now
    BY Typed, Timing DEF TimedInv, ServeRefresh, FlightsTimed, DatedFlight
<1>1. PICK o : o = out
    OBVIOUS
<1>2. PICK fl : fl = [flights[t] EXCEPT !.state = "answered", !.outcome = o]
    OBVIOUS
<1>3. /\ fl.state = "answered" /\ fl.at = flights[t].at /\ fl.outcome = o
      /\ flights' = [flights EXCEPT ![t] = fl]
    BY <1>0, <1>1, <1>2 DEF ServeRefresh, Flight
<1>4. /\ DOMAIN flights' = DOMAIN flights /\ fl = flights'[t]
      /\ \A u \in DOMAIN flights : u # t => flights'[u] = flights[u]
    BY <1>0, <1>3
<1>5. t \notin Spent /\ (t \in Alive => MintedAt[t] + 2 * MaxCall < now)
    <2>1. t \notin Spent /\ (t \in Alive => MintedAt[t] + 2 * MaxCall < flights[t].at)
        BY <1>0 DEF DatedOutcome
    <2>2. t \in Alive => MintedAt[t] \in Int
        BY Timing
    <2>3. flights[t].at \in Nat /\ MaxCall \in Nat
        BY <1>0, Timing DEF Flight
    <2> QED
        BY <1>0, <2>1, <2>2, <2>3
<1>6. \A q \in Requests : req[q].pc # "idle" => now <= req[q].born + MaxCall
    BY <1>0 DEF RequestsTimed, DatedRequest, DatedWork
<1>7. ASSUME o.kind = "fatal" PROVE o.kind # "transient" /\ DatedOutcome(t, fl)'
    BY <1>3, <1>7 DEF DatedOutcome
<1>8. /\ Ages(t) /\ MintsFresh /\ now' = now /\ minted' \in Nat /\ NoSelfReuse'
      /\ o.kind # "transient" /\ DatedOutcome(t, fl)'
    <2>1. CASE Rotate(t)
        <3>1. /\ Ages(t) /\ MintsFresh /\ minted' = minted + 1 /\ now' = now
              /\ \A n : n = minted + 1 => t \in Spent' /\ SameFamily(t, n)'
              /\ DOMAIN families' = DOMAIN families
              /\ \A f \in DOMAIN families : families'[f].reason = families[f].reason
            BY <1>0, <2>1, RotateAges
        <3>2. NoSelfReuse'
            BY <1>0, <3>1 DEF NoSelfReuse
        <3>3. PICK n : n = minted + 1
            OBVIOUS
        <3>4. o.kind = "ok" /\ o.pair = n /\ o.life = ttl
            BY <1>1, <2>1, <3>3 DEF Rotate
        <3>5. n \in minted + 1 .. minted' /\ minted' \in Nat
            BY <1>0, <3>1, <3>3
        <3>6. fl.at <= MintedAt'[n] /\ ttl' = ttl
            BY <1>0, <1>3, <3>1, <3>5 DEF MintsFresh, Ages
        <3>7. t \in Spent' /\ SameFamily(t, n)'
            BY <3>1, <3>3
        <3>8. DatedOutcome(t, fl)'
            BY <1>3, <3>4, <3>6, <3>7 DEF DatedOutcome, SameFamily
        <3> QED
            BY <3>1, <3>2, <3>4, <3>5, <3>8
    <2>2. CASE RefreshTooLate(t)
        <3>1. Ages(t) /\ MintsFresh /\ now' = now /\ families' = families
            BY <1>0, <2>2, TooLateAges
        <3>2. o.kind = "fatal"
            BY <1>1, <2>2 DEF RefreshTooLate, Failed
        <3>3. minted' = minted
            BY <2>2 DEF RefreshTooLate
        <3> QED
            BY <1>0, <1>7, <3>1, <3>2, <3>3 DEF NoSelfReuse
    <2>3. CASE RefreshReused(t)
        <3>1. t \in DOMAIN refresh /\ Live(refresh[t].family) /\ refresh[t].consumed
            BY <2>3 DEF RefreshReused, RefreshAnswer, Live, Known
        <3> QED
            BY <1>5, <3>1 DEF Spent, Alive
    <2>4. CASE RefreshRejected(t)
        <3>1. /\ Ages(0) /\ MintsFresh /\ now' = now /\ minted' \in Nat /\ NoSelfReuse'
            BY <1>0, <2>4, StandsStill DEF RefreshRejected
        <3>2. Ages(t)
            <4>1. 0 \notin Spent'
                BY <1>0, <3>1 DEF Ages, Spent
            <4> QED
                BY <3>1, <4>1 DEF Ages
        <3>3. o.kind = "fatal"
            BY <1>1, <2>4 DEF RefreshRejected, Failed
        <3> QED
            BY <1>7, <3>1, <3>2, <3>3
    <2> QED
        BY <1>0, <2>1, <2>2, <2>3, <2>4 DEF Refresh
<1>9. now' \in Nat /\ \A q \in Requests : req[q].pc # "idle" => now' <= req[q].born + MaxCall
    BY <1>0, <1>6, <1>8
<1> QED
    BY <1>0, <1>3, <1>4, <1>5, <1>8, <1>9, AgingTimed

LEMMA WaitTimed ==
    ASSUME Unhurried, BffInv, TimedInv, Wait
    PROVE  TimedInv'
<1>1. /\ StoreInv /\ now \in Nat /\ minted \in Nat /\ 0 \notin Alive /\ MaxCall \in Nat
      /\ 0 \in 0 .. minted /\ 0 \notin DOMAIN flights /\ NoSelfReuse
      /\ \A q \in Requests : req[q].born \in Nat
    BY Typed, Timing DEF TimedInv, Request
<1>2. /\ now' = now + 1 /\ UNCHANGED <<ttl, minted, families, access, refresh, jar, req, flights>>
      /\ \A q \in Requests : req[q].pc # "idle" => now - req[q].born < MaxCall
    BY DEF Wait, Tick, bffVars
<1>3. now' \in Nat /\ now <= now' /\ minted' \in Nat
    BY <1>1, <1>2
<1>4. Ages(0) /\ MintsFresh
    BY <1>1, <1>2, <1>3, SameTokensAge
<1>5. ASSUME NEW q \in Requests, req[q].pc # "idle" PROVE now' <= req[q].born + MaxCall
    <2>1. now - req[q].born < MaxCall /\ req[q].born \in Nat
        BY <1>1, <1>2, <1>5
    <2> QED
        BY <1>1, <1>2, <2>1
<1>6. NoSelfReuse'
    BY <1>1, <1>2 DEF NoSelfReuse
<1> QED
    BY <1>1, <1>2, <1>3, <1>4, <1>5, <1>6, AgingTimed

LEMMA AdministrateTimed ==
    ASSUME Unhurried, BffInv, TimedInv, Administrate
    PROVE  TimedInv'
<1>1. /\ StoreInv /\ TypeOK /\ now \in Nat /\ minted \in Nat /\ 0 \notin Alive
      /\ 0 \in 0 .. minted /\ 0 \notin DOMAIN flights /\ NoSelfReuse /\ RequestsTimed
    BY Typed, Timing DEF TimedInv, StoreInv
<1>2. PICK u \in Users : RevokeUser(u)
    BY DEF Administrate, Unhurried
<1>3. UNCHANGED <<now, ttl, minted, access, refresh, jar, req, flights>>
    BY <1>2 DEF Administrate, RevokeUser, bffVars
<1>4. PICK F : Revoke(F, "admin")
    BY <1>2 DEF RevokeUser
<1>5. Ages(0) /\ MintsFresh
    BY <1>1, <1>3, <1>4, RevokingAges DEF Reason
<1>6. NoSelfReuse'
    <2>1. /\ DOMAIN families' = DOMAIN families
          /\ \A f \in DOMAIN families :
                families'[f].reason = IF f \in F /\ Live(f) THEN "admin" ELSE families[f].reason
        BY <1>1, <1>4, RevokeEffect DEF Reason
    <2> QED
        BY <1>1, <2>1 DEF NoSelfReuse
<1>7. \A q \in Requests : req[q].pc # "idle" => now' <= req[q].born + MaxCall
    BY <1>1, <1>3 DEF RequestsTimed, DatedRequest, DatedWork
<1>8. now' \in Nat /\ minted' \in Nat
    BY <1>1, <1>3
<1> QED
    BY <1>1, <1>3, <1>5, <1>6, <1>7, <1>8, AgingTimed

-----------------------------------------------------------------------------
\* A request when flight t settles with outcome out: one that waited for it
\* goes on, the others stay as they are.
LEMMA SettledRequest ==
    ASSUME Unhurried, BffInv, TimedInv, NEW t \in DOMAIN flights, NEW out \in Outcome,
           out.pair \in 0 .. minted, out.kind = "ok" => out.life = ttl,
           out.kind = "ok" /\ out.pair \in Alive => now <= MintedAt[out.pair] + MaxCall,
           t \in Spent => out.kind # "transient", Settle(t, out), NEW q \in Requests
    PROVE  \E y : /\ y = req'[q] /\ DatedWork(y) /\ y.born = req[q].born /\ y.born \in Nat
                  /\ y.sess.pair \in 0 .. minted
                  /\ Waits(y) => y = req[q] /\ y.sess.pair # t
                  /\ Carries(y) /\ y.sess.pair \in Spent => y = req[q]
                  /\ Brings(req[q]) => Brings(y)
                  /\ Waits(req[q]) /\ req[q].sess.pair = t /\ out.kind # "transient" => Brings(y)
                  /\ Waits(req[q]) /\ req[q].sess.pair # t => y = req[q]
<1>0. /\ req[q] \in Request /\ req[q].sess.pair \in 0 .. minted /\ DatedWork(req[q])
      /\ PairsTimed /\ now \in Nat /\ req[q].born \in Nat
    BY Typed, Timing DEF TimedInv, RequestsTimed, DatedRequest, Request
<1>1. PICK x : x = req[q]
    OBVIOUS
<1>2. PICK y : y = req'[q]
    OBVIOUS
<1>3. y = IF Waits(x) /\ x.sess.pair = t THEN Resume(x, out) ELSE x
    BY <1>1, <1>2 DEF Settle, Waits
<1>4. CASE Waits(x) /\ x.sess.pair = t
    <2>1. x.born <= now /\ y = Resume(x, out)
        BY <1>0, <1>1, <1>3, <1>4 DEF DatedWork, Waits
    <2>2. ASSUME out.kind = "ok", out.pair \in Alive
          PROVE  now <= MintedAt[out.pair] + 2 * MaxCall /\ x.born <= MintedAt[out.pair] + MaxCall
        <3>1. now <= MintedAt[out.pair] + MaxCall /\ MintedAt[out.pair] \in Int /\ x.born \in Nat
            BY <1>0, <1>1, <2>2, Timing
        <3> QED
            BY <1>0, <2>1, <3>1, Timing
    <2>3. /\ DatedWork(y) /\ ~ Waits(y) /\ y.born = x.born
          /\ y.sess.pair = IF out.kind = "ok" THEN out.pair ELSE x.sess.pair
          /\ Carries(y) /\ y.sess.pair \in Spent => out.kind = "transient"
          /\ Brings(x) \/ out.kind # "transient" => Brings(y)
        BY <1>0, <1>1, <1>4, <2>1, <2>2, ResumeDated
    <2>4. ~ (Carries(y) /\ y.sess.pair \in Spent)
        BY <1>4, <2>3
    <2> QED
        BY <1>0, <1>1, <1>2, <1>4, <2>3, <2>4
<1>5. CASE ~ (Waits(x) /\ x.sess.pair = t)
    <2>1. y = x
        BY <1>3, <1>5
    <2> QED
        BY <1>0, <1>1, <1>2, <1>5, <2>1
<1> QED
    BY <1>4, <1>5

LEMMA SettleTimed ==
    ASSUME Unhurried, BffInv, TimedInv, NEW t \in DOMAIN flights, flights[t].state # "settled",
           NEW out \in Outcome, out.pair \in 0 .. minted, out.kind = "ok" => out.life = ttl,
           out.kind = "ok" /\ out.pair \in Alive =>
               t \in Spent /\ SameFamily(t, out.pair) /\ flights[t].at <= MintedAt[out.pair],
           t \in Spent => out.kind # "transient", Settle(t, out)
    PROVE  TimedInv'
<1>0. /\ Ages(0) /\ MintsFresh /\ now' = now /\ minted' \in Nat /\ NoSelfReuse'
      /\ now \in Nat /\ minted \in Nat /\ StoreInv /\ MaxCall \in Nat
      /\ PairsTimed /\ FlightsTimed /\ RequestsTimed /\ SpentAccounted /\ DatedSession(jar)
      /\ \A u \in DOMAIN flights : /\ u \in 0 .. minted /\ u # 0 /\ flights[u] \in Flight
                                   /\ flights[u].outcome.pair \in 0 .. minted
    BY StandsStill, Typed, Timing DEF TimedInv, Settle
<1>1. PICK fl : fl = [state |-> "settled", outcome |-> out, at |-> now]
    OBVIOUS
<1>2. /\ fl.state = "settled" /\ fl.outcome = out /\ fl.at = now
      /\ flights' = [flights EXCEPT ![t] = fl] /\ jar' = jar
    BY <1>1 DEF Settle
<1>3. /\ DOMAIN flights' = DOMAIN flights /\ fl = flights'[t]
      /\ \A u \in DOMAIN flights : u # t => flights'[u] = flights[u]
    BY <1>2
<1>4. PICK w \in Requests : /\ Waits(req[w]) /\ req[w].sess.pair = t
                            /\ req[w].born <= flights[t].at
    BY <1>0 DEF FlightsTimed, DatedFlight, Awaited
<1>5. /\ req[w].born \in Nat /\ flights[t].at \in Nat
      /\ flights[t].at <= now /\ now <= req[w].born + MaxCall
    BY <1>0, <1>4, Typed
    DEF FlightsTimed, DatedFlight, RequestsTimed, DatedRequest, DatedWork, Waits, Request, Flight
<1>6. ASSUME out.kind = "ok", out.pair \in Alive
      PROVE  now <= MintedAt[out.pair] + MaxCall /\ req[w].born <= MintedAt[out.pair]
    <2>1. MintedAt[out.pair] \in Int /\ flights[t].at <= MintedAt[out.pair]
        BY <1>6, Timing
    <2> QED
        BY <1>0, <1>4, <1>5, <2>1
<1>7. ASSUME NEW q \in Requests
      PROVE  \E y : /\ y = req'[q] /\ DatedWork(y) /\ y.born = req[q].born /\ y.born \in Nat
                    /\ y.sess.pair \in 0 .. minted
                    /\ Waits(y) => y = req[q] /\ y.sess.pair # t
                    /\ Carries(y) /\ y.sess.pair \in Spent => y = req[q]
                    /\ Brings(req[q]) => Brings(y)
                    /\ Waits(req[q]) /\ req[q].sess.pair = t /\ out.kind # "transient" => Brings(y)
                    /\ Waits(req[q]) /\ req[q].sess.pair # t => y = req[q]
    BY <1>6, SettledRequest
<1>8. PairsTimed' /\ DatedSession(jar)'
    <2>1. 0 \notin Alive
        BY Timing
    <2>2. PairsTimed'
        BY <1>0, <2>1, PairsAge
    <2> QED
        BY <1>0, <1>2, <2>2, Typed DEF DatedSession, Ages
<1>9. RequestsTimed'
    <2>1. ASSUME NEW q \in Requests PROVE \E y : y = req'[q] /\ DatedRequest(y)'
        <3>1. PICK y : /\ y = req'[q] /\ DatedWork(y) /\ y.born \in Nat /\ y.sess.pair \in 0 .. minted
                       /\ Waits(y) => y = req[q] /\ y.sess.pair # t
            BY <1>7
        <3>2. OnFlight(req[q])
            BY <1>0 DEF RequestsTimed, DatedRequest
        <3>3. Waits(y) => /\ y.sess.pair \in DOMAIN flights'
                          /\ flights'[y.sess.pair].state # "settled"
            BY <1>3, <3>1, <3>2 DEF OnFlight
        <3>4. y.pc # "idle" => now' <= y.born + MaxCall
            BY <1>0, <3>1 DEF DatedWork
        <3> QED
            BY <1>0, <3>1, <3>3, <3>4, RequestAges
    <2> QED
        BY <2>1, RequestsAre
<1>10. ASSUME NEW u \in DOMAIN flights PROVE DatedFlight(u)'
    <2>1. CASE u = t
        <3>1. DatedOutcome(t, fl)
            BY <1>2 DEF DatedOutcome
        <3>2. DatedOutcome(t, fl)'
            BY <1>0, <1>2, <3>1, OutcomeAges
        <3>3. Awaited(t)' /\ fl.at <= now'
            BY <1>0, <1>2, <1>3 DEF Awaited
        <3> QED
            BY <1>3, <2>1, <3>2, <3>3, FlightIs
    <2>2. CASE u # t
        <3>1. PICK old : old = flights[u]
            OBVIOUS
        <3>2. old = flights'[u] /\ old.at <= now' /\ DatedOutcome(u, old) /\ Awaited(u)
            BY <1>0, <1>3, <2>2, <3>1 DEF FlightsTimed, DatedFlight
        <3>3. DatedOutcome(u, old)'
            BY <1>0, <3>1, <3>2, OutcomeAges
        <3>4. Awaited(u)'
            <4>1. CASE old.state = "settled"
                BY <3>2, <4>1 DEF Awaited
            <4>2. CASE old.state # "settled"
                <5>1. PICK q \in Requests : Waits(req[q]) /\ req[q].sess.pair = u /\ req[q].born <= old.at
                    BY <3>1, <3>2, <4>2 DEF Awaited
                <5>2. PICK y : y = req'[q] /\ y = req[q]
                    BY <1>7, <2>2, <5>1
                <5>3. Waits(y) /\ y.sess.pair = u /\ y.born <= flights'[u].at
                    BY <3>2, <5>1, <5>2
                <5> QED
                    BY <5>2, <5>3, AwaitedBy
            <4> QED
                BY <4>1, <4>2
        <3> QED
            BY <3>2, <3>3, <3>4, FlightIs
    <2> QED
        BY <2>1, <2>2
<1>11. FlightsTimed'
    BY <1>3, <1>10 DEF FlightsTimed
<1>12. SpentAccounted'
    <2> SUFFICES ASSUME NEW u \in 0 .. minted', u \in Spent' PROVE OnBoard(u)' /\ Outlived(u)'
        BY DEF SpentAccounted
    <2>1. u \in 0 .. minted
        BY <1>0 DEF MintsFresh
    <2>2. u \in Spent
        BY <2>1, Timing, <1>0 DEF Ages, Spent
    <2>3. OnBoard(u) /\ Outlived(u)
        BY <1>0, <2>1, <2>2 DEF SpentAccounted
    <2>4. OnBoard(u)'
        <3>1. ASSUME Held(u) PROVE u \in DOMAIN flights' /\ flights'[u].outcome.kind # "transient"
            <4>1. CASE u = t
                BY <1>2, <1>3, <2>2, <4>1
            <4>2. CASE u # t
                BY <1>3, <2>3, <3>1, <4>2 DEF OnBoard
            <4> QED
                BY <4>1, <4>2
        <3>2. ASSUME NEW q \in Requests, NEW x, x = req'[q], Carries(x), x.sess.pair = u
              PROVE  Held(u)
            <4>1. x = req[q]
                BY <1>7, <2>2, <3>2
            <4> QED
                BY <3>2, <4>1 DEF Held
        <3>3. jar'.pair = u => Held(u)
            BY <1>2 DEF Held
        <3> QED
            BY <3>1, <3>2, <3>3, OnBoardIs
    <2>5. CASE u = t
        <3>1. ASSUME NEW q \in Requests
              PROVE  \E x : x = req'[q] /\ (Carries(x) /\ x.sess.pair = t => BornBy(x, MaxCall, fl)')
            <4>1. PICK y : y = req'[q] /\ DatedWork(y) /\ y.born \in Nat
                BY <1>7
            <4>2. ASSUME Carries(y) PROVE BornBy(y, MaxCall, fl)
                <5>1. y.born <= now
                    BY <4>1, <4>2 DEF DatedWork, Carries
                <5>2. y.born <= fl.at + MaxCall
                    BY <1>0, <1>2, <4>1, <5>1
                <5>3. ASSUME fl.outcome.kind = "ok", fl.outcome.pair \in Alive
                      PROVE  y.born <= MintedAt[fl.outcome.pair] + MaxCall
                    <6>1. MintedAt[out.pair] \in Int /\ now <= MintedAt[out.pair] + MaxCall
                        BY <1>2, <1>6, <5>3, Timing
                    <6> QED
                        BY <1>0, <1>2, <4>1, <5>1, <6>1
                <5> QED
                    BY <5>2, <5>3 DEF BornBy
            <4> QED
                BY <1>0, <1>2, <4>1, <4>2, BornAges
        <3>2. \E q \in Requests : \E x : x = req'[q] /\ Brings(x) /\ BornBy(x, 0, fl)'
            <4>1. PICK y : y = req'[w] /\ Brings(y) /\ y.born = req[w].born
                BY <1>4, <1>7, <2>2, <2>5
            <4>2. y.born <= fl.at + 0
                BY <1>0, <1>2, <1>4, <1>5, <4>1
            <4>3. ASSUME fl.outcome.kind = "ok", fl.outcome.pair \in Alive
                  PROVE  y.born <= MintedAt[fl.outcome.pair] + 0
                <5>1. req[w].born <= MintedAt[out.pair] /\ MintedAt[out.pair] \in Int
                    BY <1>2, <1>6, <4>3, Timing
                <5> QED
                    BY <1>2, <1>5, <4>1, <5>1
            <4>4. BornBy(y, 0, fl)
                BY <4>2, <4>3 DEF BornBy
            <4> QED
                BY <1>0, <1>2, <4>1, <4>4, BornAges
        <3>3. Outlived(t)'
            BY <1>3, <3>1, <3>2, OutlivedIs
        <3> QED
            BY <2>4, <2>5, <3>3
    <2>6. CASE u # t
        <3>1. PICK old : old = flights'[u]
            OBVIOUS
        <3>2. ASSUME u \in DOMAIN flights', old.state = "settled"
              PROVE  /\ \A q \in Requests : \E x :
                           x = req'[q] /\ (Carries(x) /\ x.sess.pair = u => BornBy(x, MaxCall, old)')
                     /\ jar'.pair = u =>
                           \E q \in Requests : \E x : x = req'[q] /\ Brings(x) /\ BornBy(x, 0, old)'
            <4>1. u \in DOMAIN flights /\ old = flights[u] /\ old.outcome.pair \in 0 .. minted
                BY <1>0, <1>3, <2>6, <3>1, <3>2
            <4>2. /\ \A q \in Requests :
                        Carries(req[q]) /\ req[q].sess.pair = u => BornBy(req[q], MaxCall, old)
                  /\ jar.pair = u => \E q \in Requests : Brings(req[q]) /\ BornBy(req[q], 0, old)
                BY <2>3, <3>2, <4>1 DEF Outlived
            <4>3. ASSUME NEW q \in Requests
                  PROVE  \E x : x = req'[q] /\ (Carries(x) /\ x.sess.pair = u => BornBy(x, MaxCall, old)')
                <5>1. PICK y : y = req'[q] /\ (Carries(y) /\ y.sess.pair \in Spent => y = req[q])
                    BY <1>7
                <5>2. Carries(y) /\ y.sess.pair = u => BornBy(y, MaxCall, old)
                    BY <2>2, <4>2, <5>1
                <5> QED
                    BY <1>0, <4>1, <5>1, <5>2, BornAges
            <4>4. ASSUME jar'.pair = u
                  PROVE  \E q \in Requests : \E x : x = req'[q] /\ Brings(x) /\ BornBy(x, 0, old)'
                <5>1. PICK q \in Requests : Brings(req[q]) /\ BornBy(req[q], 0, old)
                    BY <1>2, <4>2, <4>4
                <5>2. PICK y : y = req'[q] /\ Brings(y) /\ y.born = req[q].born
                    BY <1>7, <5>1
                <5>3. BornBy(y, 0, old)
                    BY <5>1, <5>2 DEF BornBy
                <5> QED
                    BY <1>0, <4>1, <5>2, <5>3, BornAges
            <4> QED
                BY <4>3, <4>4
        <3>3. Outlived(u)'
            BY <3>1, <3>2, OutlivedIs
        <3> QED
            BY <2>4, <3>3
    <2> QED
        BY <2>5, <2>6
<1> QED
    BY <1>0, <1>8, <1>9, <1>11, <1>12 DEF TimedInv

LEMMA FlightEndsTimed ==
    ASSUME Unhurried, BffInv, TimedInv, NEW t \in Serial, Answer(t) \/ Unreached(t)
    PROVE  TimedInv'
<1>0. t \in DOMAIN flights
    BY DEF Answer, Unreached
<1>1. /\ DatedOutcome(t, flights[t]) /\ flights[t].outcome.pair \in 0 .. minted
      /\ flights[t].outcome \in Outcome
    BY <1>0, Typed DEF TimedInv, FlightsTimed, DatedFlight, Flight
<1>2. CASE Answer(t)
    <2>1. flights[t].state = "answered" /\ Settle(t, flights[t].outcome)
        BY <1>2 DEF Answer
    <2>2. flights[t].outcome.kind # "transient"
        BY <1>1, <2>1 DEF DatedOutcome
    <2>3. flights[t].outcome.kind = "ok" =>
             /\ flights[t].outcome.life = ttl
             /\ flights[t].outcome.pair \in Alive =>
                   /\ t \in Spent /\ SameFamily(t, flights[t].outcome.pair)
                   /\ flights[t].at <= MintedAt[flights[t].outcome.pair]
        BY <1>1, <2>1 DEF DatedOutcome
    <2> QED
        BY <1>0, <1>1, <2>1, <2>2, <2>3, SettleTimed
<1>3. CASE Unreached(t)
    <2>1. PICK out : out = Failed("transient")
        OBVIOUS
    <2>2. flights[t].state = "sent" /\ Settle(t, out)
        BY <1>3, <2>1 DEF Unreached
    <2>3. t \notin Spent
        BY <1>1, <2>2 DEF DatedOutcome
    <2>4. out \in Outcome /\ out.kind = "transient" /\ out.pair \in 0 .. minted
        BY <2>1, StoreAssumption, Timing DEF Failed, Outcome, StoreAssumption
    <2> QED
        BY <1>0, <2>2, <2>3, <2>4, SettleTimed
<1> QED
    BY <1>2, <1>3

\* When a flight is forgotten no request open at its end is left, nor one
\* begun next to them: nobody holds its token any more.
LEMMA ForgetTimed ==
    ASSUME Unhurried, BffInv, TimedInv, NEW t \in Serial, ForgetFlight(t)
    PROVE  TimedInv'
<1>0. /\ Ages(0) /\ MintsFresh /\ now' = now /\ minted' \in Nat /\ NoSelfReuse'
      /\ now \in Nat /\ minted \in Nat /\ StoreInv /\ MaxCall \in Nat /\ 0 \notin Alive
      /\ PairsTimed /\ FlightsTimed /\ RequestsTimed /\ SpentAccounted /\ DatedSession(jar)
      /\ \A q \in Requests : req[q] \in Request /\ req[q].sess.pair \in 0 .. minted
      /\ \A u \in DOMAIN flights : /\ u \in 0 .. minted /\ u # 0 /\ flights[u] \in Flight
                                   /\ flights[u].outcome.pair \in 0 .. minted
      /\ t \in DOMAIN flights /\ flights[t].state = "settled"
      /\ now >= flights[t].at + Grace /\ UNCHANGED <<jar, req>>
    BY StandsStill, Typed, Timing DEF TimedInv, ForgetFlight, Expired
<1>1. jar' = jar /\ req' = req
    BY DEF ForgetFlight
<1>2. /\ DOMAIN flights' = DOMAIN flights \ {t}
      /\ \A u \in DOMAIN flights' : flights'[u] = flights[u]
    BY DEF ForgetFlight, Without
<1>3. \A q \in Requests : req[q].pc # "idle" => req[q].born \in Nat /\ now <= req[q].born + MaxCall
    BY <1>0 DEF RequestsTimed, DatedRequest, DatedWork, Request
<1>4. ASSUME t \in Spent PROVE ~ Held(t)
    <2>1. Outlived(t) /\ flights[t].at \in Nat
        BY <1>0, <1>4 DEF SpentAccounted, Flight
    <2>2. ASSUME NEW q \in Requests, Carries(req[q]), req[q].sess.pair = t PROVE FALSE
        <3>1. req[q].born <= flights[t].at + MaxCall
            BY <1>0, <2>1, <2>2 DEF Outlived, BornBy
        <3>2. req[q].born \in Nat /\ now <= req[q].born + MaxCall
            BY <1>3, <2>2 DEF Carries
        <3> QED
            BY <1>0, <2>1, <3>1, <3>2, Timing
    <2>3. ASSUME jar.pair = t PROVE FALSE
        <3>1. PICK q \in Requests : Brings(req[q]) /\ BornBy(req[q], 0, flights[t])
            BY <1>0, <2>1, <2>3 DEF Outlived
        <3>2. req[q].born <= flights[t].at + 0
            BY <3>1 DEF BornBy
        <3>3. req[q].born \in Nat /\ now <= req[q].born + MaxCall
            BY <1>3, <3>1 DEF Brings
        <3> QED
            BY <1>0, <2>1, <3>2, <3>3, Timing
    <2> QED
        BY <2>2, <2>3 DEF Held
<1>5. PairsTimed' /\ DatedSession(jar)'
    <2>1. PairsTimed'
        BY <1>0, PairsAge
    <2> QED
        BY <1>0, <1>1, <2>1, Typed DEF DatedSession, Ages
<1>6. RequestsTimed'
    <2>1. ASSUME NEW q \in Requests PROVE \E x : x = req'[q] /\ DatedRequest(x)'
        <3>1. PICK x : x = req[q]
            OBVIOUS
        <3>2. /\ x.born \in Nat /\ x.sess.pair \in 0 .. minted /\ x = req'[q]
              /\ DatedWork(x) /\ OnFlight(x)
            BY <1>0, <1>1, <3>1 DEF RequestsTimed, DatedRequest, Request
        <3>3. Waits(x) => /\ x.sess.pair \in DOMAIN flights'
                          /\ flights'[x.sess.pair].state # "settled"
            BY <1>0, <1>2, <3>2 DEF OnFlight
        <3>4. x.pc # "idle" => now' <= x.born + MaxCall
            BY <1>0, <3>2 DEF DatedWork
        <3> QED
            BY <1>0, <3>2, <3>3, <3>4, RequestAges
    <2> QED
        BY <2>1, RequestsAre
<1>7. ASSUME NEW u \in DOMAIN flights' PROVE DatedFlight(u)'
    <2>1. PICK fl : fl = flights[u]
        OBVIOUS
    <2>2. u \in DOMAIN flights /\ fl = flights'[u] /\ fl.at <= now' /\ DatedOutcome(u, fl) /\ Awaited(u)
        BY <1>0, <1>2, <2>1 DEF FlightsTimed, DatedFlight
    <2>3. DatedOutcome(u, fl)'
        BY <1>0, <2>1, <2>2, OutcomeAges
    <2>4. Awaited(u)'
        BY <1>1, <2>1, <2>2 DEF Awaited, Waits
    <2> QED
        BY <2>2, <2>3, <2>4, FlightIs
<1>8. FlightsTimed'
    BY <1>7 DEF FlightsTimed
<1>9. SpentAccounted'
    <2> SUFFICES ASSUME NEW u \in 0 .. minted', u \in Spent' PROVE OnBoard(u)' /\ Outlived(u)'
        BY DEF SpentAccounted
    <2>1. u \in 0 .. minted
        BY <1>0 DEF MintsFresh
    <2>2. u \in Spent
        BY <1>0, <2>1 DEF Ages, Spent
    <2>3. OnBoard(u) /\ Outlived(u)
        BY <1>0, <2>1, <2>2 DEF SpentAccounted
    <2>4. CASE u = t
        <3>1. ~ Held(t) /\ t \notin DOMAIN flights'
            BY <1>2, <1>4, <2>2, <2>4
        <3>2. OnBoard(t)'
            BY <1>1, <3>1 DEF OnBoard, Held
        <3>3. Outlived(t)'
            BY <3>1 DEF Outlived
        <3> QED
            BY <2>4, <3>2, <3>3
    <2>5. CASE u # t
        <3>1. OnBoard(u)'
            BY <1>1, <1>2, <2>3, <2>5 DEF OnBoard, Held
        <3>2. PICK old : old = flights'[u]
            OBVIOUS
        <3>3. ASSUME u \in DOMAIN flights', old.state = "settled"
              PROVE  /\ \A q \in Requests : \E x :
                           x = req'[q] /\ (Carries(x) /\ x.sess.pair = u => BornBy(x, MaxCall, old)')
                     /\ jar'.pair = u =>
                           \E q \in Requests : \E x : x = req'[q] /\ Brings(x) /\ BornBy(x, 0, old)'
            <4>1. u \in DOMAIN flights /\ old = flights[u] /\ old.outcome.pair \in 0 .. minted
                BY <1>0, <1>2, <3>2, <3>3
            <4>2. /\ \A q \in Requests :
                        Carries(req[q]) /\ req[q].sess.pair = u => BornBy(req[q], MaxCall, old)
                  /\ jar.pair = u => \E q \in Requests : Brings(req[q]) /\ BornBy(req[q], 0, old)
                BY <2>3, <3>3, <4>1 DEF Outlived
            <4>3. ASSUME NEW q \in Requests
                  PROVE  \E x : x = req'[q] /\ (Carries(x) /\ x.sess.pair = u => BornBy(x, MaxCall, old)')
                <5>1. PICK x : x = req[q] /\ x = req'[q]
                    BY <1>1
                <5>2. Carries(x) /\ x.sess.pair = u => BornBy(x, MaxCall, old)
                    BY <4>2, <5>1
                <5> QED
                    BY <1>0, <4>1, <5>1, <5>2, BornAges
            <4>4. ASSUME jar'.pair = u
                  PROVE  \E q \in Requests : \E x : x = req'[q] /\ Brings(x) /\ BornBy(x, 0, old)'
                <5>1. PICK q \in Requests : Brings(req[q]) /\ BornBy(req[q], 0, old)
                    BY <1>1, <4>2, <4>4
                <5>2. PICK x : x = req[q] /\ x = req'[q]
                    BY <1>1
                <5>3. Brings(x) /\ BornBy(x, 0, old)
                    BY <5>1, <5>2
                <5> QED
                    BY <1>0, <4>1, <5>2, <5>3, BornAges
            <4> QED
                BY <4>3, <4>4
        <3>4. Outlived(u)'
            BY <3>2, <3>3, OutlivedIs
        <3> QED
            BY <3>1, <3>4
    <2> QED
        BY <2>4, <2>5
<1> QED
    BY <1>0, <1>5, <1>6, <1>8, <1>9 DEF TimedInv

LEMMA StutterTimed == ASSUME Unhurried, BffInv, TimedInv, UNCHANGED vars PROVE TimedInv'
<1>1. /\ StoreInv /\ now \in Nat /\ minted \in Nat /\ 0 \notin Alive
      /\ 0 \in 0 .. minted /\ 0 \notin DOMAIN flights /\ NoSelfReuse /\ RequestsTimed
    BY Typed, Timing DEF TimedInv
<1>2. UNCHANGED <<jar, req, flights>> /\ UNCHANGED storeVars
    BY DEF vars, bffVars
<1>3. Ages(0) /\ MintsFresh /\ now' = now /\ minted' \in Nat /\ NoSelfReuse'
    BY <1>1, <1>2, StandsStill
<1>4. now' \in Nat /\ \A q \in Requests : req[q].pc # "idle" => now' <= req[q].born + MaxCall
    BY <1>1, <1>3 DEF RequestsTimed, DatedRequest, DatedWork
<1> QED
    BY <1>1, <1>2, <1>3, <1>4, AgingTimed

-----------------------------------------------------------------------------
LEMMA TimedInvariance == ASSUME Unhurried PROVE BffSpec => []TimedInv
<1>1. BffInit => TimedInv
    <2> SUFFICES ASSUME BffInit PROVE TimedInv
        OBVIOUS
    <2>1. /\ refresh = Empty /\ access = Empty /\ families = Empty /\ flights = Empty
          /\ jar.pair = 0 /\ \A r \in Requests : req[r] = Idle
        BY DEF BffInit, Init, NoSession
    <2>2. DOMAIN Empty = {}
        BY DEF Empty
    <2>3. Alive = {} /\ Spent = {}
        BY <2>1, <2>2 DEF Alive, Spent
    <2>4. Idle.pc = "idle"
        BY DEF Idle
    <2>5. \A r \in Requests : DatedRequest(req[r])
        BY <2>1, <2>4 DEF DatedRequest, DatedWork, OnFlight, Carries, Waits
    <2> QED
        BY <2>1, <2>2, <2>3, <2>5
        DEF TimedInv, PairsTimed, DatedPair, DatedSession, RequestsTimed, FlightsTimed,
            SpentAccounted, NoSelfReuse
<1>2. BffInv /\ TimedInv /\ [BffNext]_vars => TimedInv'
    <2> SUFFICES ASSUME BffInv, TimedInv, [BffNext]_vars PROVE TimedInv'
        OBVIOUS
    <2>1. ~ Lossy
        BY DEF Unhurried
    <2>2. ASSUME NEW r \in Requests, Begin(r) \/ SignIn(r) \/ Serve(r) \/ Reply(r) \/ Abandon(r)
          PROVE  TimedInv'
        <3>1. CASE CallFails(r)
            BY <3>1, AnswerTimed DEF CallFails
        <3>2. CASE \E u \in Users : ServeLogin(r, u)
            BY <3>2, ServeLoginTimed
        <3>3. ~ Abandon(r)
            BY <2>1 DEF Abandon
        <3> QED
            BY <2>2, <3>1, <3>2, <3>3, BeginTimed, SignInTimed, CallTimed, ReplyTimed DEF Serve
    <2>3. ASSUME NEW t \in Serial, ServeFlight(t) \/ ForgetFlight(t) PROVE TimedInv'
        <3>1. ~ LoseAnswer(t)
            BY <2>1 DEF LoseAnswer
        <3> QED
            BY <2>3, <3>1, ServeRefreshTimed, FlightEndsTimed, ForgetTimed DEF ServeFlight
    <2>4. ~ Restart
        BY <2>1 DEF Restart
    <2> QED
        BY <2>2, <2>3, <2>4, WaitTimed, AdministrateTimed, StutterTimed DEF BffNext
<1> QED
    BY <1>1, <1>2, BffInvariant, PTL DEF BffSpec

\* Under this timing the front end never presents a refresh token twice, so it
\* never has its own session revoked (inflightRefreshes of backend.ts against
\* the reuse rule of platform/tokens.py).
THEOREM NeverReusesItself == ASSUME Unhurried PROVE BffSpec => []NoSelfReuse
<1>1. TimedInv => NoSelfReuse
    BY DEF TimedInv
<1> QED
    BY <1>1, TimedInvariance, PTL

\* When no request is open the cookie of a live session holds its unspent
\* token: the responses of overlapping requests (session.save() and destroy()
\* in backend.ts) leave the newest pair in the browser.
THEOREM JarIsNeverStale == ASSUME Unhurried PROVE BffSpec => []CookieNotStale
<1>1. ASSUME BffInv, TimedInv PROVE CookieNotStale
    <2> SUFFICES ASSUME \A r \in Requests : req[r].pc = "idle",
                        jar.pair \in DOMAIN refresh, Live(refresh[jar.pair].family)
                 PROVE  ~ refresh[jar.pair].consumed
        BY DEF CookieNotStale
    <2> SUFFICES ASSUME jar.pair \in Spent PROVE FALSE
        BY DEF Spent, Alive
    <2>1. OnBoard(jar.pair) /\ Outlived(jar.pair)
        BY <1>1, Typed DEF TimedInv, SpentAccounted
    <2>2. jar.pair \in DOMAIN flights
        BY <2>1 DEF OnBoard, Held
    <2>3. flights[jar.pair].state = "settled"
        BY <1>1, <2>2 DEF TimedInv, FlightsTimed, DatedFlight, Awaited, Waits
    <2> QED
        BY <2>1, <2>2, <2>3 DEF Outlived, Brings
<1> QED
    BY <1>1, BffInvariant, TimedInvariance, PTL

\* A session the front end uses without refreshing it (accessExpiresAt beyond
\* REFRESH_SAFETY_MARGIN_MS) has a live access token.
THEOREM TrustIsWarranted == ASSUME Unhurried PROVE BffSpec => []TrustedIsFresh
<1>1. ASSUME BffInv, TimedInv PROVE TrustedIsFresh
    <2> SUFFICES ASSUME jar.pair \in DOMAIN access, Live(access[jar.pair].family),
                        now < jar.exp - Margin
                 PROVE  AccessStatus(jar.pair) = "ok"
        BY DEF TrustedIsFresh
    <2>1. /\ jar.pair \in Alive /\ access[jar.pair].exp \in Nat
          /\ MintedAt[jar.pair] = access[jar.pair].exp - ttl
        BY <1>1 DEF BffInv, StoreInv, NoOrphans, Alive, MintedAt, TypeOK, AccessRecord
    <2>2. jar.exp <= MintedAt[jar.pair] + ttl + 2 * MaxCall /\ jar.exp \in Nat
        BY <1>1, <2>1, Typed DEF TimedInv, DatedSession, Session
    <2>3. now < access[jar.pair].exp
        BY <1>1, <2>1, <2>2, Timing
    <2>4. ~ now >= access[jar.pair].exp
        BY <1>1, <2>1, <2>3, Timing
    <2> QED
        BY <2>4 DEF AccessStatus, Live, Known
<1> QED
    BY <1>1, BffInvariant, TimedInvariance, PTL
=============================================================================
