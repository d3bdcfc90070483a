------------------------------ MODULE TokenStore ------------------------------
(***************************************************************************)
(* Sessions of the capture API: capture_api/platform/tokens.py.            *)
(*                                                                         *)
(* A login opens a token FAMILY and mints a pair (access, refresh) in it;  *)
(* each refresh consumes the presented refresh token and mints the next    *)
(* pair.  Re-presenting a consumed token, a logout, an administrator, a    *)
(* reset or the sweep of old families revokes the family, which runs the   *)
(* revocation callbacks of the streams and sockets opened under it.        *)
(*                                                                         *)
(* The two tokens of a pair share one serial number, drawn from minted:    *)
(* the code draws both from secrets.token_urlsafe, so no serial repeats,   *)
(* not even over reset().  Family ids, on the contrary, are computed from  *)
(* a counter that reset() sets back to 0: they do repeat.                  *)
(*                                                                         *)
(* The dictionaries of the code are functions whose domain is the set of   *)
(* keys held; add_revocation_listener is not modelled (nothing outside the *)
(* tests calls it).                                                        *)
(***************************************************************************)
EXTENDS Integers

CONSTANTS
    Users,       \* accounts that sign in
    Watchers,    \* streams and sockets that ask to hear of a revocation
    Ttls,        \* the access lifetimes the TTL provider may answer
    RefreshIdle, \* a refresh token unused for longer is expired
    RefreshMax,  \* a family older than this refreshes no more
    MaxFamilies, \* bound: families opened between two resets
    MaxTokens,   \* bound: token pairs ever minted
    MaxNow       \* bound: the monotonic clock

ASSUME StoreAssumption ==
    /\ Ttls \subseteq Nat \ {0}
    /\ RefreshIdle \in Nat /\ RefreshMax \in Nat
    /\ MaxFamilies \in Nat /\ MaxTokens \in Nat /\ MaxNow \in Nat

VARIABLES
    now,       \* TimeSource.monotonic()
    ttl,       \* what access_ttl() answers now
    counter,   \* _counter
    minted,    \* serial of the last pair minted
    families,  \* _families
    access,    \* _access
    refresh,   \* _refresh
    callbacks, \* _family_callbacks
    watch,     \* each watcher: the family it follows and whether it was told
    parent     \* history: the refresh token each pair was bought with, 0: a login

storeVars == <<now, ttl, counter, minted, families, access, refresh,
               callbacks, watch, parent>>

FamilyId == 1 .. MaxFamilies
Serial == 1 .. MaxTokens

Reason == {"logout", "refresh_reused", "admin", "reset"}
NotRevoked == "none"

\* TokenFamily; tokens stands for access_tokens and refresh_tokens, which
\* _mint extends together, reason for revoked and revoked_reason.
Family == [user : Users, created : Nat, lastUsed : Nat, current : Serial,
           tokens : SUBSET Serial, reason : Reason \cup {NotRevoked}]
AccessRecord == [family : FamilyId, exp : Nat]
RefreshRecord == [family : FamilyId, consumed : BOOLEAN]
Watch == [state : {"idle", "armed", "told"}, family : FamilyId \cup {0}]

-----------------------------------------------------------------------------
\* A dictionary with key k set to v, and one without the keys in K.
Put(dict, k, v) == [x \in DOMAIN dict \cup {k} |-> IF x = k THEN v ELSE dict[x]]
Without(dict, K) == [x \in DOMAIN dict \ K |-> dict[x]]
Empty == [x \in {} |-> x]

Known(f) == f \in DOMAIN families
Live(f) == Known(f) /\ families[f].reason = NotRevoked

\* The reading order of refresh(): which answer a presented token gets.
RefreshAnswer(t) ==
    CASE t \notin DOMAIN refresh \/ ~ Known(refresh[t].family) -> "refresh_invalid"
      [] OTHER ->
         LET fam == families[refresh[t].family]
         IN  CASE fam.reason # NotRevoked -> "session_revoked"
               [] fam.reason = NotRevoked /\ refresh[t].consumed -> "refresh_reused"
               [] OTHER -> IF \/ now - fam.lastUsed > RefreshIdle
                              \/ now - fam.created > RefreshMax
                           THEN "refresh_expired"
                           ELSE "ok"

\* access_status(): what a bearer token is worth now.
AccessStatus(t) ==
    IF t \notin DOMAIN access \/ ~ Known(access[t].family) THEN "invalid_token"
    ELSE IF families[access[t].family].reason # NotRevoked THEN "session_revoked"
    ELSE IF now >= access[t].exp THEN "token_expired"
    ELSE "ok"

\* Mutant of Tell: the callbacks taken out of the registry are not run.
TellNobody(F) == F \subseteq FamilyId /\ watch' = watch

\* The effect of revoke_family on every family of F at once, on the
\* families of dict: each is marked, its callbacks are taken out of the
\* registry and run, which tells the watchers.
Marked(dict, F, why) ==
    [f \in DOMAIN dict |-> IF f \in F THEN [dict[f] EXCEPT !.reason = why] ELSE dict[f]]

Forget(F) == callbacks' = [f \in FamilyId |-> IF f \in F THEN {} ELSE callbacks[f]]
Tell(F) == watch' = [w \in Watchers |->
                       IF \E f \in F : w \in callbacks[f]
                       THEN [watch[w] EXCEPT !.state = "told"] ELSE watch[w]]

\* revoke_family on the families of F, those already revoked left alone.
Revoke(F, why) ==
    LET alive == {f \in F : Live(f)}
    IN  /\ families' = Marked(families, alive, why)
        /\ Forget(alive) /\ Tell(alive)

-----------------------------------------------------------------------------
Init ==
    /\ now = 0 /\ ttl \in Ttls
    /\ counter = 0 /\ minted = 0
    /\ families = Empty /\ access = Empty /\ refresh = Empty
    /\ callbacks = [f \in FamilyId |-> {}]
    /\ watch = [w \in Watchers |-> [state |-> "idle", family |-> 0]]
    /\ parent = [t \in Serial |-> 0]

\* _mint: pair t enters the dictionaries acc and ref for family f.
Mint(t, f, acc, ref, from) ==
    /\ minted' = t
    /\ access' = Put(acc, t, [family |-> f, exp |-> now + ttl])
    /\ refresh' = Put(ref, t, [family |-> f, consumed |-> FALSE])
    /\ parent' = [parent EXCEPT ![t] = from]

\* Mutant of Stale: a family is dropped once a refresh token would be idle.
StaleIfIdle == {f \in DOMAIN families : now - families[f].created > RefreshIdle}

\* sweep(): the families old enough that, at the present TTL, no token of
\* theirs should still be usable.
Stale == {f \in DOMAIN families : now - families[f].created > RefreshMax + ttl}
TokensOf(F) == UNION {families[f].tokens : f \in F}

\* Mutant of Login: the sweep drops the families but leaves their tokens.
LoginLeavesTokens(u) ==
    /\ counter < MaxFamilies /\ minted < MaxTokens
    /\ LET f == counter + 1
           t == minted + 1
       IN  /\ counter' = f
           /\ families' = Put(Without(families, Stale), f,
                              [user |-> u, created |-> now, lastUsed |-> now,
                               current |-> t, tokens |-> {t}, reason |-> NotRevoked])
           /\ Mint(t, f, access, refresh, 0)
           /\ Forget(Stale) /\ Tell({g \in Stale : Live(g)})
    /\ UNCHANGED <<now, ttl>>

\* login(): sweep, then a new family and its first pair.  Stale families
\* are revoked (their callbacks run), then dropped with their tokens.
Login(u) ==
    /\ counter < MaxFamilies /\ minted < MaxTokens
    /\ LET f == counter + 1
           t == minted + 1
           gone == TokensOf(Stale)
       IN  /\ counter' = f
           /\ families' = Put(Without(families, Stale), f,
                              [user |-> u, created |-> now, lastUsed |-> now,
                               current |-> t, tokens |-> {t}, reason |-> NotRevoked])
           /\ Mint(t, f, Without(access, gone), Without(refresh, gone), 0)
           /\ Forget(Stale) /\ Tell({g \in Stale : Live(g)})
    /\ UNCHANGED <<now, ttl>>

\* Mutant of Rotate: the presented token is not consumed.
RotateKeepsToken(t) ==
    /\ RefreshAnswer(t) = "ok"
    /\ minted < MaxTokens
    /\ LET f == refresh[t].family
           n == minted + 1
       IN  /\ families' = [families EXCEPT ![f].lastUsed = now, ![f].current = n,
                                           ![f].tokens = @ \cup {n}]
           /\ Mint(n, f, access, refresh, t)
    /\ UNCHANGED <<now, ttl, counter, callbacks, watch>>

\* refresh() of a token that is good: consume it and mint the next pair.
Rotate(t) ==
    /\ RefreshAnswer(t) = "ok"
    /\ minted < MaxTokens
    /\ LET f == refresh[t].family
           n == minted + 1
       IN  /\ families' = [families EXCEPT ![f].lastUsed = now, ![f].current = n,
                                           ![f].tokens = @ \cup {n}]
           /\ Mint(n, f, access, [refresh EXCEPT ![t].consumed = TRUE], t)
    /\ UNCHANGED <<now, ttl, counter, callbacks, watch>>

\* refresh() of a token idle or old for too long: it is consumed, though
\* nothing is minted.
RefreshTooLate(t) ==
    /\ RefreshAnswer(t) = "refresh_expired"
    /\ refresh' = [refresh EXCEPT ![t].consumed = TRUE]
    /\ UNCHANGED <<now, ttl, counter, minted, families, access, callbacks, watch, parent>>

\* refresh() of a consumed token: the whole family is revoked.
RefreshReused(t) ==
    /\ RefreshAnswer(t) = "refresh_reused"
    /\ Revoke({refresh[t].family}, "refresh_reused")
    /\ UNCHANGED <<now, ttl, counter, minted, access, refresh, parent>>

\* refresh() of an unknown token or of one of a revoked family.
RefreshRejected(t) ==
    /\ RefreshAnswer(t) \in {"refresh_invalid", "session_revoked"}
    /\ UNCHANGED storeVars

Refresh(t) == Rotate(t) \/ RefreshTooLate(t) \/ RefreshReused(t) \/ RefreshRejected(t)

\* logout() with any access token of a known family, expired ones too.
Logout(t) ==
    /\ t \in DOMAIN access /\ Known(access[t].family)
    /\ Revoke({access[t].family}, "logout")
    /\ UNCHANGED <<now, ttl, counter, minted, access, refresh, parent>>

-----------------------------------------------------------------------------
\* on_family_revoked(): a dead or unknown family answers at once, and the
\* unsubscribe handed back does nothing.
StartWatch(w, f) ==
    /\ watch[w].state = "idle"
    /\ IF Live(f)
       THEN /\ callbacks' = [callbacks EXCEPT ![f] = @ \cup {w}]
            /\ watch' = [watch EXCEPT ![w] = [state |-> "armed", family |-> f]]
       ELSE /\ watch' = [watch EXCEPT ![w] = [state |-> "told", family |-> f]]
            /\ UNCHANGED callbacks
    /\ UNCHANGED <<now, ttl, counter, minted, families, access, refresh, parent>>

\* unsubscribe(), called when the watcher's stream ends.
StopWatch(w) ==
    /\ watch[w].state # "idle"
    /\ callbacks' = [callbacks EXCEPT ![watch[w].family] = @ \ {w}]
    /\ watch' = [watch EXCEPT ![w] = [state |-> "idle", family |-> 0]]
    /\ UNCHANGED <<now, ttl, counter, minted, families, access, refresh, parent>>

\* expire_access_tokens(email), U being the account named or everyone.
ExpireAccess(U) ==
    /\ access' = [t \in DOMAIN access |->
                    IF /\ Live(access[t].family) /\ access[t].exp > now
                       /\ families[access[t].family].user \in U
                    THEN [access[t] EXCEPT !.exp = now] ELSE access[t]]
    /\ UNCHANGED <<now, ttl, counter, minted, families, refresh, callbacks, watch, parent>>

\* revoke_user(email).
RevokeUser(u) ==
    /\ Revoke({f \in DOMAIN families : families[f].user = u}, "admin")
    /\ UNCHANGED <<now, ttl, counter, minted, access, refresh, parent>>

\* Mutants of Reset: the family ids start again while the families stay; the
\* token dictionaries are not cleared.
ResetKeepsFamilies ==
    /\ Revoke(DOMAIN families, "reset")
    /\ access' = Empty /\ refresh' = Empty
    /\ counter' = 0
    /\ UNCHANGED <<now, ttl, minted, parent>>
ResetKeepsTokens ==
    /\ Forget(FamilyId) /\ Tell({f \in DOMAIN families : Live(f)})
    /\ families' = Empty
    /\ counter' = 0
    /\ UNCHANGED <<now, ttl, minted, access, refresh, parent>>

\* reset(): revoke every family, then forget everything but the clock.
Reset ==
    /\ Forget(FamilyId) /\ Tell({f \in DOMAIN families : Live(f)})
    /\ families' = Empty /\ access' = Empty /\ refresh' = Empty
    /\ counter' = 0
    /\ UNCHANGED <<now, ttl, minted, parent>>

\* Time passes; the chaos controller replaces the TTL provider.
Tick == now < MaxNow /\ now' = now + 1
        /\ UNCHANGED <<ttl, counter, minted, families, access, refresh,
                       callbacks, watch, parent>>
SetTtl(d) == ttl' = d /\ UNCHANGED <<now, counter, minted, families, access, refresh,
                                     callbacks, watch, parent>>

Next ==
    \/ \E u \in Users : Login(u) \/ RevokeUser(u) \/ ExpireAccess({u})
    \/ \E t \in Serial : Refresh(t) \/ Logout(t)
    \/ \E w \in Watchers : StopWatch(w) \/ \E f \in FamilyId : StartWatch(w, f)
    \/ \E d \in Ttls : SetTtl(d)
    \/ ExpireAccess(Users) \/ Reset \/ Tick

Spec == Init /\ [][Next]_storeVars

-----------------------------------------------------------------------------
TypeOK ==
    /\ now \in 0 .. MaxNow /\ ttl \in Ttls
    /\ counter \in 0 .. MaxFamilies /\ minted \in 0 .. MaxTokens
    /\ DOMAIN families \subseteq 1 .. counter
    /\ families \in [DOMAIN families -> Family]
    /\ DOMAIN access \subseteq 1 .. minted
    /\ access \in [DOMAIN access -> AccessRecord]
    /\ DOMAIN refresh \subseteq 1 .. minted
    /\ refresh \in [DOMAIN refresh -> RefreshRecord]
    /\ callbacks \in [FamilyId -> SUBSET Watchers]
    /\ watch \in [Watchers -> Watch]
    /\ parent \in [Serial -> 0 .. MaxTokens]

\* A refresh token buys at most one pair, whatever is interleaved with its
\* uses and however family ids repeat over resets ("single use, zero grace").
SingleUse ==
    \A t, u \in Serial : t # u /\ parent[t] # 0 => parent[t] # parent[u]

\* The only refresh token of a family that can still rotate it is the one
\* handed out last: no branch of the chain stays open behind it.
OneOpenToken ==
    \A t \in DOMAIN refresh :
        ~ refresh[t].consumed => /\ Known(refresh[t].family)
                                 /\ families[refresh[t].family].current = t

\* The refresh tokens of a family form one chain, which only grows at its end.
OneChain == SingleUse /\ OneOpenToken

\* A family and the two token dictionaries hold exactly each other's
\* tokens: sweep and reset leave no record behind that a reused family id
\* would bring back to life.
NoOrphans ==
    /\ DOMAIN access = DOMAIN refresh
    /\ \A t \in DOMAIN access :
          /\ refresh[t].family = access[t].family
          /\ Known(access[t].family) /\ t \in families[access[t].family].tokens
    /\ \A f \in DOMAIN families :
          /\ families[f].current \in families[f].tokens
          /\ \A t \in families[f].tokens : t \in DOMAIN access /\ access[t].family = f

\* The dictionaries are of their types and agree.
StoreTypeOK == TypeOK /\ NoOrphans

\* A watcher still waiting is registered with a family that is live, and no
\* callback is kept for another: a revocation reaches every stream and
\* socket of the family, whichever path revoked it.
WatchersAreTold ==
    \A w \in Watchers :
        /\ watch[w].state = "armed" => /\ Live(watch[w].family)
                                       /\ w \in callbacks[watch[w].family]
        /\ \A f \in FamilyId : w \in callbacks[f] =>
              watch[w].state = "armed" /\ watch[w].family = f

\* What an access token is worth only falls: ok, expired, revoked, unknown.
\* A token once refused is never accepted again, even when its family id is
\* handed to another session after a reset.
Worth(status) == CASE status = "ok" -> 3 [] status = "token_expired" -> 2
                   [] status = "session_revoked" -> 1 [] OTHER -> 0
StatusOnlyFalls ==
    [][\A t \in 1 .. minted : Worth(AccessStatus(t)') <= Worth(AccessStatus(t))]_storeVars

\* The sweep (the only step that drops a family and opens another) takes no
\* family whose current refresh token would still have rotated.
SweepSparesUsable ==
    [][\A f \in DOMAIN families :
          counter' > counter /\ f \notin DOMAIN families'
              => RefreshAnswer(families[f].current) # "ok"]_storeVars
=============================================================================
