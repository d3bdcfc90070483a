--------------------------- MODULE TokenStoreProofs ---------------------------
(***************************************************************************)
(* Proofs about TokenStore, for every value of its constants.  The         *)
(* inductive invariant is StoreInv: the type invariant, the agreement of   *)
(* the family and token dictionaries, the shape of a rotation chain, and   *)
(* the history fact that makes the single use of a refresh token           *)
(* inductive: a token that bought a pair is consumed for as long as it is  *)
(* stored.                                                                 *)
(***************************************************************************)
EXTENDS TokenStore, TLAPS

\* What a pair's parent is: an older serial, and a consumed token while the
\* store still knows it.
ParentsAreSpent ==
    \A t \in Serial : parent[t] # 0 =>
        /\ t <= minted /\ parent[t] \in 1 .. minted
        /\ parent[t] \in DOMAIN refresh => refresh[parent[t]].consumed

\* The shape of a rotation chain, which makes single use inductive: only
\* the last token handed out is open, and whatever bought a pair is spent.
Chain == OneOpenToken /\ ParentsAreSpent /\ SingleUse

StoreInv ==
    TypeOK /\ NoOrphans /\ Chain /\ WatchersAreTold

-----------------------------------------------------------------------------
\* Dictionaries: what setting and dropping keys does to type and contents.
LEMMA WithoutIsFunction ==
    ASSUME NEW S, NEW D, NEW dict \in [D -> S], NEW K
    PROVE  /\ Without(dict, K) \in [D \ K -> S]
           /\ DOMAIN Without(dict, K) = D \ K
           /\ \A x \in D \ K : Without(dict, K)[x] = dict[x]
BY DEF Without

\* The empty dictionary is a function into any set.
LEMMA EmptyIsFunction == ASSUME NEW S PROVE Empty \in [{} -> S] /\ DOMAIN Empty = {}
BY DEF Empty

\* A reason recorded leaves every other field of every family as it was.
LEMMA MarkedIsFunction ==
    ASSUME NEW D, NEW dict \in [D -> Family], NEW F, NEW why \in Reason
    PROVE  /\ Marked(dict, F, why) \in [D -> Family]
           /\ DOMAIN Marked(dict, F, why) = D
           /\ \A f \in D : /\ Marked(dict, F, why)[f].tokens = dict[f].tokens
                           /\ Marked(dict, F, why)[f].current = dict[f].current
                           /\ Marked(dict, F, why)[f].reason =
                                 IF f \in F THEN why ELSE dict[f].reason
BY DEF Marked, Family

\* Running callbacks keeps the registry and the watchers well typed.
LEMMA TellType ==
    ASSUME TypeOK, NEW F, NEW G, Forget(F), Tell(G)
    PROVE  /\ callbacks' \in [FamilyId -> SUBSET Watchers]
           /\ watch' \in [Watchers -> Watch]
BY DEF TypeOK, Forget, Tell, Watch

\* revoke_family keeps the families, the registry and the watchers well typed.
LEMMA RevokeType ==
    ASSUME TypeOK, NEW F, NEW why \in Reason, Revoke(F, why)
    PROVE  /\ families' \in [DOMAIN families -> Family]
           /\ DOMAIN families' = DOMAIN families
           /\ callbacks' \in [FamilyId -> SUBSET Watchers]
           /\ watch' \in [Watchers -> Watch]
<1> DEFINE alive == {f \in F : Live(f)}
<1>1. families' = Marked(families, alive, why) /\ Forget(alive) /\ Tell(alive)
  BY DEF Revoke
<1>2. families \in [DOMAIN families -> Family]
  BY DEF TypeOK
<1> HIDE DEF alive
<1>3. QED
  BY <1>1, <1>2, MarkedIsFunction, TellType

\* A login is well typed: the swept dictionaries gain the new family and pair.
LEMMA LoginType ==
    ASSUME StoreAssumption, TypeOK, NEW u \in Users, Login(u)
    PROVE  TypeOK'
<1> DEFINE f == counter + 1
           t == minted + 1
           gone == TokensOf(Stale)
           rec == [user |-> u, created |-> now, lastUsed |-> now,
                   current |-> t, tokens |-> {t}, reason |-> NotRevoked]
<1>1. /\ f \in FamilyId /\ t \in Serial /\ now + ttl \in Nat
      /\ counter' = f /\ minted' = t /\ UNCHANGED <<now, ttl>>
  BY DEF Login, Mint, TypeOK, StoreAssumption, FamilyId, Serial
<1>2. rec \in Family
  BY <1>1 DEF Family, TypeOK, StoreAssumption
<1>3. /\ families' \in [(DOMAIN families \ Stale) \cup {f} -> Family]
      /\ DOMAIN families' = (DOMAIN families \ Stale) \cup {f}
  <2>1. families' = Put(Without(families, Stale), f, rec)
    BY DEF Login
  <2>2. families \in [DOMAIN families -> Family]
    BY DEF TypeOK
  <2>3. Without(families, Stale) \in [DOMAIN families \ Stale -> Family]
    BY <2>2, WithoutIsFunction
  <2> QED
    BY <1>2, <2>1, <2>3 DEF Put
<1>4. /\ access' \in [(DOMAIN access \ gone) \cup {t} -> AccessRecord]
      /\ DOMAIN access' = (DOMAIN access \ gone) \cup {t}
  <2>1. access' = Put(Without(access, gone), t, [family |-> f, exp |-> now + ttl])
    BY DEF Login, Mint
  <2>2. access \in [DOMAIN access -> AccessRecord]
    BY DEF TypeOK
  <2>3. Without(access, gone) \in [DOMAIN access \ gone -> AccessRecord]
    BY <2>2, WithoutIsFunction
  <2>4. [family |-> f, exp |-> now + ttl] \in AccessRecord
    BY <1>1 DEF AccessRecord
  <2> QED
    BY <2>1, <2>3, <2>4 DEF Put
<1>5. /\ refresh' \in [(DOMAIN refresh \ gone) \cup {t} -> RefreshRecord]
      /\ DOMAIN refresh' = (DOMAIN refresh \ gone) \cup {t}
  <2>1. refresh' = Put(Without(refresh, gone), t, [family |-> f, consumed |-> FALSE])
    BY DEF Login, Mint
  <2>2. refresh \in [DOMAIN refresh -> RefreshRecord]
    BY DEF TypeOK
  <2>3. Without(refresh, gone) \in [DOMAIN refresh \ gone -> RefreshRecord]
    BY <2>2, WithoutIsFunction
  <2>4. [family |-> f, consumed |-> FALSE] \in RefreshRecord
    BY <1>1 DEF RefreshRecord
  <2> QED
    BY <2>1, <2>3, <2>4 DEF Put
<1>6. parent' \in [Serial -> 0 .. MaxTokens]
  BY <1>1 DEF Login, Mint, TypeOK, StoreAssumption
<1>7. /\ callbacks' \in [FamilyId -> SUBSET Watchers]
      /\ watch' \in [Watchers -> Watch]
  BY TellType DEF Login
<1>8. /\ DOMAIN families \subseteq 1 .. counter /\ DOMAIN access \subseteq 1 .. minted
      /\ DOMAIN refresh \subseteq 1 .. minted /\ now \in 0 .. MaxNow /\ ttl \in Ttls
      /\ counter \in 0 .. MaxFamilies /\ minted \in 0 .. MaxTokens
  BY DEF TypeOK
<1>9. /\ counter' \in 0 .. MaxFamilies /\ minted' \in 0 .. MaxTokens
      /\ 1 .. counter \cup {f} \subseteq 1 .. f /\ 1 .. minted \cup {t} \subseteq 1 .. t
  BY <1>1, <1>8 DEF FamilyId, Serial, StoreAssumption
<1> HIDE DEF f, t, gone, rec
<1> QED
  BY <1>1, <1>3, <1>4, <1>5, <1>6, <1>7, <1>8, <1>9 DEF TypeOK

\* A rotation is well typed.
LEMMA RotateType ==
    ASSUME StoreAssumption, TypeOK, NEW t \in Serial, Rotate(t)
    PROVE  TypeOK'
<1> DEFINE f == refresh[t].family
           n == minted + 1
<1>1. /\ t \in DOMAIN refresh /\ f \in DOMAIN families /\ f \in FamilyId
      /\ n \in Serial /\ now + ttl \in Nat /\ now \in Nat
      /\ minted' = n /\ UNCHANGED <<now, ttl, counter, callbacks, watch>>
  <2>1. t \in DOMAIN refresh /\ f \in DOMAIN families
    BY DEF Rotate, RefreshAnswer, Known
  <2>2. f \in FamilyId
    BY <2>1 DEF TypeOK, RefreshRecord
  <2>3. minted < MaxTokens /\ minted' = n /\ UNCHANGED <<now, ttl, counter, callbacks, watch>>
    BY DEF Rotate, Mint
  <2>4. now \in Nat /\ ttl \in Nat /\ minted \in 0 .. MaxTokens
    BY DEF TypeOK, StoreAssumption
  <2>5. n \in Serial /\ now + ttl \in Nat
    BY <2>3, <2>4 DEF Serial, StoreAssumption
  <2> QED
    BY <2>1, <2>2, <2>3, <2>4, <2>5
<1>2. /\ families' \in [DOMAIN families -> Family]
      /\ DOMAIN families' = DOMAIN families
  <2>1. families' = [families EXCEPT ![f].lastUsed = now, ![f].current = n,
                                     ![f].tokens = @ \cup {n}]
    BY DEF Rotate
  <2>2. families \in [DOMAIN families -> Family]
    BY DEF TypeOK
  <2> HIDE DEF f, n
  <2> QED
    BY <1>1, <2>1, <2>2 DEF Family
<1>3. /\ access' \in [DOMAIN access \cup {n} -> AccessRecord]
      /\ DOMAIN access' = DOMAIN access \cup {n}
  <2>1. access' = Put(access, n, [family |-> f, exp |-> now + ttl])
    BY DEF Rotate, Mint
  <2>2. access \in [DOMAIN access -> AccessRecord]
    BY DEF TypeOK
  <2>3. [family |-> f, exp |-> now + ttl] \in AccessRecord
    BY <1>1 DEF AccessRecord
  <2> QED
    BY <2>1, <2>2, <2>3 DEF Put
<1>4. /\ refresh' \in [DOMAIN refresh \cup {n} -> RefreshRecord]
      /\ DOMAIN refresh' = DOMAIN refresh \cup {n}
  <2> DEFINE spent == [refresh EXCEPT ![t].consumed = TRUE]
  <2>1. refresh' = Put(spent, n, [family |-> f, consumed |-> FALSE])
    BY DEF Rotate, Mint
  <2>2. spent \in [DOMAIN refresh -> RefreshRecord] /\ DOMAIN spent = DOMAIN refresh
    BY DEF TypeOK, RefreshRecord
  <2>3. [family |-> f, consumed |-> FALSE] \in RefreshRecord
    BY <1>1 DEF RefreshRecord
  <2> HIDE DEF spent, f, n
  <2> QED
    BY <2>1, <2>2, <2>3 DEF Put
<1>5. parent' \in [Serial -> 0 .. MaxTokens]
  <2>1. parent' = [parent EXCEPT ![n] = t] /\ parent \in [Serial -> 0 .. MaxTokens]
    BY DEF Rotate, Mint, TypeOK
  <2>2. t \in 0 .. MaxTokens
    BY StoreAssumption DEF Serial, StoreAssumption
  <2> HIDE DEF n
  <2> QED
    BY <2>1, <2>2
<1>6. minted' \in 0 .. MaxTokens /\ 1 .. minted \cup {n} \subseteq 1 .. n
  <2>1. minted' = n /\ n \in 1 .. MaxTokens /\ minted \in Nat /\ MaxTokens \in Nat
    BY <1>1 DEF TypeOK, Serial, StoreAssumption
  <2> QED
    BY <2>1
<1> HIDE DEF f, n
<1>7. /\ DOMAIN families' \subseteq 1 .. counter'
      /\ DOMAIN access' \subseteq 1 .. minted' /\ DOMAIN refresh' \subseteq 1 .. minted'
  BY <1>1, <1>2, <1>3, <1>4, <1>6 DEF TypeOK
<1>8. /\ families' \in [DOMAIN families' -> Family]
      /\ access' \in [DOMAIN access' -> AccessRecord]
      /\ refresh' \in [DOMAIN refresh' -> RefreshRecord]
  BY <1>2, <1>3, <1>4
<1>9. /\ now' \in 0 .. MaxNow /\ ttl' \in Ttls /\ counter' \in 0 .. MaxFamilies
      /\ callbacks' \in [FamilyId -> SUBSET Watchers] /\ watch' \in [Watchers -> Watch]
  BY <1>1 DEF TypeOK
<1> QED
  BY <1>5, <1>6, <1>7, <1>8, <1>9 DEF TypeOK

\* Every step keeps every variable in its type.
LEMMA StepType ==
    ASSUME StoreAssumption, TypeOK, [Next]_storeVars
    PROVE  TypeOK'
<1>1. ASSUME NEW u \in Users, Login(u) PROVE TypeOK'
  BY <1>1, LoginType
<1>2. ASSUME NEW u \in Users, RevokeUser(u) PROVE TypeOK'
  <2>1. "admin" \in Reason
    BY DEF Reason
  <2> QED
    BY <1>2, <2>1, RevokeType DEF RevokeUser, TypeOK
<1>3. ASSUME NEW U \in SUBSET Users, ExpireAccess(U) PROVE TypeOK'
  <2>1. access' \in [DOMAIN access -> AccessRecord] /\ DOMAIN access' = DOMAIN access
    BY <1>3 DEF ExpireAccess, TypeOK, AccessRecord
  <2> QED
    BY <1>3, <2>1 DEF ExpireAccess, TypeOK
<1>4. ASSUME NEW t \in Serial, Refresh(t) PROVE TypeOK'
  <2>1. CASE Rotate(t)
    BY <2>1, RotateType
  <2>2. CASE RefreshTooLate(t)
    <3>1. refresh' \in [DOMAIN refresh -> RefreshRecord] /\ DOMAIN refresh' = DOMAIN refresh
      BY <2>2 DEF RefreshTooLate, TypeOK, RefreshRecord
    <3> QED
      BY <2>2, <3>1 DEF RefreshTooLate, TypeOK
  <2>3. CASE RefreshReused(t)
    <3>1. "refresh_reused" \in Reason
      BY DEF Reason
    <3> QED
      BY <2>3, <3>1, RevokeType DEF RefreshReused, TypeOK
  <2>4. CASE RefreshRejected(t)
    BY <2>4 DEF RefreshRejected, storeVars, TypeOK
  <2> QED
    BY <1>4, <2>1, <2>2, <2>3, <2>4 DEF Refresh
<1>5. ASSUME NEW t \in Serial, Logout(t) PROVE TypeOK'
  <2>1. "logout" \in Reason
    BY DEF Reason
  <2> QED
    BY <1>5, <2>1, RevokeType DEF Logout, TypeOK
<1>6. ASSUME NEW w \in Watchers, NEW f \in FamilyId, StartWatch(w, f) PROVE TypeOK'
  BY <1>6 DEF StartWatch, TypeOK, Watch
<1>7. ASSUME NEW w \in Watchers, StopWatch(w) PROVE TypeOK'
  BY <1>7 DEF StopWatch, TypeOK, Watch
<1>8. CASE Reset
  <2>1. /\ callbacks' \in [FamilyId -> SUBSET Watchers] /\ watch' \in [Watchers -> Watch]
    BY <1>8, TellType DEF Reset
  <2>2. /\ families' = Empty /\ access' = Empty /\ refresh' = Empty /\ counter' = 0
        /\ UNCHANGED <<now, ttl, minted, parent>>
    BY <1>8 DEF Reset
  <2>3. 0 \in 0 .. MaxFamilies
    BY DEF StoreAssumption
  <2> QED
    BY <2>1, <2>2, <2>3, EmptyIsFunction DEF TypeOK
<1>9. CASE Tick
  BY <1>9 DEF Tick, TypeOK, StoreAssumption
<1>10. ASSUME NEW d \in Ttls, SetTtl(d) PROVE TypeOK'
  BY <1>10 DEF SetTtl, TypeOK
<1>11. CASE UNCHANGED storeVars
  BY <1>11 DEF storeVars, TypeOK
<1>12. Users \in SUBSET Users /\ \A u \in Users : {u} \in SUBSET Users
  OBVIOUS
<1> QED
  BY <1>1, <1>2, <1>3, <1>4, <1>5, <1>6, <1>7, <1>8, <1>9, <1>10, <1>11, <1>12 DEF Next

-----------------------------------------------------------------------------
\* The effects of the steps, key by key: what the later proofs use of them.
LEMMA LoginEffect ==
    ASSUME StoreAssumption, TypeOK, NEW u \in Users, Login(u)
    PROVE  LET f == counter + 1
               t == minted + 1
               gone == TokensOf(Stale)
           IN  /\ f \in FamilyId /\ t \in Serial /\ counter' = f /\ minted' = t
               /\ f \notin DOMAIN families /\ t \notin DOMAIN access /\ t \notin DOMAIN refresh
               /\ DOMAIN families' = (DOMAIN families \ Stale) \cup {f}
               /\ \A g \in DOMAIN families \ Stale : families'[g] = families[g]
               /\ families'[f].tokens = {t} /\ families'[f].current = t
               /\ families'[f].reason = NotRevoked
               /\ DOMAIN access' = (DOMAIN access \ gone) \cup {t}
               /\ \A x \in DOMAIN access \ gone : access'[x] = access[x]
               /\ access'[t] = [family |-> f, exp |-> now + ttl]
               /\ DOMAIN refresh' = (DOMAIN refresh \ gone) \cup {t}
               /\ \A x \in DOMAIN refresh \ gone : refresh'[x] = refresh[x]
               /\ refresh'[t] = [family |-> f, consumed |-> FALSE]
               /\ parent' = [parent EXCEPT ![t] = 0]
<1> DEFINE f == counter + 1
           t == minted + 1
           gone == TokensOf(Stale)
           rec == [user |-> u, created |-> now, lastUsed |-> now,
                   current |-> t, tokens |-> {t}, reason |-> NotRevoked]
<1>1. /\ f \in FamilyId /\ t \in Serial /\ counter' = f /\ minted' = t
      /\ f \notin DOMAIN families /\ t \notin DOMAIN access /\ t \notin DOMAIN refresh
  BY DEF Login, Mint, TypeOK, StoreAssumption, FamilyId, Serial
<1>2. /\ families' = Put(Without(families, Stale), f, rec)
      /\ access' = Put(Without(access, gone), t, [family |-> f, exp |-> now + ttl])
      /\ refresh' = Put(Without(refresh, gone), t, [family |-> f, consumed |-> FALSE])
      /\ parent' = [parent EXCEPT ![t] = 0]
  BY DEF Login, Mint
<1>3. rec.tokens = {t} /\ rec.current = t /\ rec.reason = NotRevoked
  OBVIOUS
<1> HIDE DEF f, t, gone, rec
<1>4. /\ DOMAIN families' = (DOMAIN families \ Stale) \cup {f}
      /\ \A g \in DOMAIN families \ Stale : families'[g] = families[g]
      /\ families'[f] = rec
  BY <1>1, <1>2 DEF Put, Without
<1>5. /\ DOMAIN access' = (DOMAIN access \ gone) \cup {t}
      /\ \A x \in DOMAIN access \ gone : access'[x] = access[x]
      /\ access'[t] = [family |-> f, exp |-> now + ttl]
  BY <1>1, <1>2 DEF Put, Without
<1>6. /\ DOMAIN refresh' = (DOMAIN refresh \ gone) \cup {t}
      /\ \A x \in DOMAIN refresh \ gone : refresh'[x] = refresh[x]
      /\ refresh'[t] = [family |-> f, consumed |-> FALSE]
  BY <1>1, <1>2 DEF Put, Without
<1> QED
  BY <1>1, <1>2, <1>3, <1>4, <1>5, <1>6 DEF f, t, gone

\* What a rotation does to each record: one consumed, one pair added.
LEMMA RotateEffect ==
    ASSUME StoreAssumption, TypeOK, NEW s \in Serial, Rotate(s)
    PROVE  LET f == refresh[s].family
               t == minted + 1
           IN  /\ s \in DOMAIN refresh /\ ~ refresh[s].consumed /\ Live(f)
               /\ f \in FamilyId /\ t \in Serial /\ minted' = t /\ s # t
               /\ t \notin DOMAIN access /\ t \notin DOMAIN refresh
               /\ DOMAIN families' = DOMAIN families
               /\ \A g \in DOMAIN families : g # f => families'[g] = families[g]
               /\ families'[f].tokens = families[f].tokens \cup {t}
               /\ families'[f].current = t
               /\ families'[f].reason = families[f].reason
               /\ DOMAIN access' = DOMAIN access \cup {t}
               /\ \A x \in DOMAIN access : access'[x] = access[x]
               /\ access'[t] = [family |-> f, exp |-> now + ttl]
               /\ DOMAIN refresh' = DOMAIN refresh \cup {t}
               /\ \A x \in DOMAIN refresh : x # s => refresh'[x] = refresh[x]
               /\ refresh'[s] = [family |-> f, consumed |-> TRUE]
               /\ refresh'[t] = [family |-> f, consumed |-> FALSE]
               /\ parent' = [parent EXCEPT ![t] = s]
               /\ UNCHANGED <<counter, callbacks, watch>>
<1> DEFINE f == refresh[s].family
           t == minted + 1
           spent == [refresh EXCEPT ![s].consumed = TRUE]
<1>1. /\ s \in DOMAIN refresh /\ ~ refresh[s].consumed /\ Live(f) /\ f \in FamilyId
      /\ refresh[s] \in RefreshRecord /\ f \in DOMAIN families
  BY DEF Rotate, RefreshAnswer, Live, Known, TypeOK, RefreshRecord
<1>2. /\ t \in Serial /\ minted' = t /\ s # t
      /\ t \notin DOMAIN access /\ t \notin DOMAIN refresh
  BY <1>1 DEF Rotate, Mint, TypeOK, StoreAssumption, Serial
<1>3. /\ families' = [families EXCEPT ![f].lastUsed = now, ![f].current = t,
                                      ![f].tokens = @ \cup {t}]
      /\ access' = Put(access, t, [family |-> f, exp |-> now + ttl])
      /\ refresh' = Put(spent, t, [family |-> f, consumed |-> FALSE])
      /\ parent' = [parent EXCEPT ![t] = s]
      /\ UNCHANGED <<counter, callbacks, watch>>
  BY DEF Rotate, Mint
<1>4. /\ DOMAIN spent = DOMAIN refresh
      /\ \A x \in DOMAIN refresh : x # s => spent[x] = refresh[x]
      /\ spent[s] = [family |-> f, consumed |-> TRUE]
  BY <1>1 DEF RefreshRecord, TypeOK
<1>5. families \in [DOMAIN families -> Family]
  BY DEF TypeOK
<1> HIDE DEF f, t, spent
<1>6. /\ DOMAIN families' = DOMAIN families
      /\ \A g \in DOMAIN families : g # f => families'[g] = families[g]
      /\ families'[f].tokens = families[f].tokens \cup {t}
      /\ families'[f].current = t
      /\ families'[f].reason = families[f].reason
  BY <1>1, <1>3, <1>5 DEF Family
<1>7. /\ DOMAIN access' = DOMAIN access \cup {t}
      /\ \A x \in DOMAIN access : access'[x] = access[x]
      /\ access'[t] = [family |-> f, exp |-> now + ttl]
  BY <1>2, <1>3 DEF Put
<1>8. /\ DOMAIN refresh' = DOMAIN refresh \cup {t}
      /\ \A x \in DOMAIN refresh : x # s => refresh'[x] = refresh[x]
      /\ refresh'[s] = [family |-> f, consumed |-> TRUE]
      /\ refresh'[t] = [family |-> f, consumed |-> FALSE]
  BY <1>1, <1>2, <1>3, <1>4 DEF Put
<1> QED
  BY <1>1, <1>2, <1>3, <1>6, <1>7, <1>8 DEF f, t

\* What a revocation does: live families of F are marked, the rest is kept.
LEMMA RevokeEffect ==
    ASSUME TypeOK, NEW F, NEW why \in Reason, Revoke(F, why)
    PROVE  /\ DOMAIN families' = DOMAIN families
           /\ \A f \in DOMAIN families :
                 /\ families'[f].tokens = families[f].tokens
                 /\ families'[f].current = families[f].current
                 /\ families'[f].reason = IF f \in F /\ Live(f) THEN why ELSE families[f].reason
           /\ callbacks' = [f \in FamilyId |-> IF f \in F /\ Live(f) THEN {} ELSE callbacks[f]]
           /\ watch' = [w \in Watchers |->
                           IF \E f \in F : Live(f) /\ w \in callbacks[f]
                           THEN [watch[w] EXCEPT !.state = "told"] ELSE watch[w]]
<1> DEFINE alive == {f \in F : Live(f)}
<1>1. families' = Marked(families, alive, why) /\ Forget(alive) /\ Tell(alive)
  BY DEF Revoke
<1>2. families \in [DOMAIN families -> Family]
  BY DEF TypeOK
<1>3. /\ DOMAIN families' = DOMAIN families
      /\ \A f \in DOMAIN families :
            /\ families'[f].tokens = families[f].tokens
            /\ families'[f].current = families[f].current
            /\ families'[f].reason = IF f \in F /\ Live(f) THEN why ELSE families[f].reason
  BY <1>1, <1>2, MarkedIsFunction
<1>4. callbacks' = [f \in FamilyId |-> IF f \in F /\ Live(f) THEN {} ELSE callbacks[f]]
  BY <1>1 DEF Forget
<1>5. watch' = [w \in Watchers |->
                  IF \E f \in F : Live(f) /\ w \in callbacks[f]
                  THEN [watch[w] EXCEPT !.state = "told"] ELSE watch[w]]
  BY <1>1 DEF Tell
<1> QED
  BY <1>3, <1>4, <1>5

-----------------------------------------------------------------------------
\* The families and the token dictionaries keep holding each other's tokens.
LEMMA StepNoOrphans ==
    ASSUME StoreAssumption, TypeOK, NoOrphans, [Next]_storeVars
    PROVE  NoOrphans'
<1> USE DEF NoOrphans, Known
<1>1. ASSUME NEW u \in Users, Login(u) PROVE NoOrphans'
  <2> DEFINE f == counter + 1
             t == minted + 1
             gone == TokensOf(Stale)
  <2>1. /\ f \notin DOMAIN families /\ t \notin DOMAIN access
        /\ DOMAIN families' = (DOMAIN families \ Stale) \cup {f}
        /\ \A g \in DOMAIN families \ Stale : families'[g] = families[g]
        /\ families'[f].tokens = {t} /\ families'[f].current = t
        /\ DOMAIN access' = (DOMAIN access \ gone) \cup {t}
        /\ \A x \in DOMAIN access \ gone : access'[x] = access[x]
        /\ access'[t] = [family |-> f, exp |-> now + ttl]
        /\ DOMAIN refresh' = (DOMAIN refresh \ gone) \cup {t}
        /\ \A x \in DOMAIN refresh \ gone : refresh'[x] = refresh[x]
        /\ refresh'[t] = [family |-> f, consumed |-> FALSE]
    BY <1>1, LoginEffect
  <2>2. \A x \in DOMAIN access : x \in gone <=> access[x].family \in Stale
    BY DEF TokensOf, Stale
  <2> HIDE DEF f, t, gone
  <2> QED
    BY <2>1, <2>2 DEF Stale
<1>2. ASSUME NEW u \in Users, RevokeUser(u) PROVE NoOrphans'
  <2>1. "admin" \in Reason
    BY DEF Reason
  <2> QED
    BY <1>2, <2>1, RevokeEffect DEF RevokeUser
<1>3. ASSUME NEW U \in SUBSET Users, ExpireAccess(U) PROVE NoOrphans'
  <2>1. /\ DOMAIN access' = DOMAIN access /\ UNCHANGED <<refresh, families>>
        /\ \A x \in DOMAIN access : access'[x].family = access[x].family
    BY <1>3 DEF ExpireAccess, TypeOK, AccessRecord
  <2> QED
    BY <2>1
<1>4. ASSUME NEW t \in Serial, Refresh(t) PROVE NoOrphans'
  <2>1. CASE Rotate(t)
    <3> DEFINE f == refresh[t].family
               n == minted + 1
    <3>1. /\ t \in DOMAIN refresh /\ f \in DOMAIN families
          /\ n \notin DOMAIN access
          /\ DOMAIN families' = DOMAIN families
          /\ \A g \in DOMAIN families : g # f => families'[g] = families[g]
          /\ families'[f].tokens = families[f].tokens \cup {n} /\ families'[f].current = n
          /\ DOMAIN access' = DOMAIN access \cup {n}
          /\ \A x \in DOMAIN access : access'[x] = access[x]
          /\ access'[n] = [family |-> f, exp |-> now + ttl]
          /\ DOMAIN refresh' = DOMAIN refresh \cup {n}
          /\ \A x \in DOMAIN refresh : x # t => refresh'[x] = refresh[x]
          /\ refresh'[t] = [family |-> f, consumed |-> TRUE]
          /\ refresh'[n] = [family |-> f, consumed |-> FALSE]
      BY <2>1, RotateEffect DEF Live
    <3>2. \A x \in DOMAIN refresh : refresh'[x].family = refresh[x].family
      BY <3>1
    <3> HIDE DEF f, n
    <3> QED
      BY <3>1, <3>2
  <2>2. CASE RefreshTooLate(t)
    <3>1. /\ DOMAIN refresh' = DOMAIN refresh /\ UNCHANGED <<access, families>>
          /\ \A x \in DOMAIN refresh : refresh'[x].family = refresh[x].family
      BY <2>2 DEF RefreshTooLate, TypeOK, RefreshRecord
    <3> QED
      BY <3>1
  <2>3. CASE RefreshReused(t)
    <3>1. "refresh_reused" \in Reason
      BY DEF Reason
    <3> QED
      BY <2>3, <3>1, RevokeEffect DEF RefreshReused
  <2>4. CASE RefreshRejected(t)
    BY <2>4 DEF RefreshRejected, storeVars
  <2> QED
    BY <1>4, <2>1, <2>2, <2>3, <2>4 DEF Refresh
<1>5. ASSUME NEW t \in Serial, Logout(t) PROVE NoOrphans'
  <2>1. "logout" \in Reason
    BY DEF Reason
  <2> QED
    BY <1>5, <2>1, RevokeEffect DEF Logout
<1>6. ASSUME NEW w \in Watchers, NEW f \in FamilyId, StartWatch(w, f) PROVE NoOrphans'
  BY <1>6 DEF StartWatch
<1>7. ASSUME NEW w \in Watchers, StopWatch(w) PROVE NoOrphans'
  BY <1>7 DEF StopWatch
<1>8. CASE Reset
  BY <1>8 DEF Reset, Empty
<1>9. CASE Tick
  BY <1>9 DEF Tick
<1>10. ASSUME NEW d \in Ttls, SetTtl(d) PROVE NoOrphans'
  BY <1>10 DEF SetTtl
<1>11. CASE UNCHANGED storeVars
  BY <1>11 DEF storeVars
<1>12. Users \in SUBSET Users /\ \A u \in Users : {u} \in SUBSET Users
  OBVIOUS
<1> QED
  BY <1>1, <1>2, <1>3, <1>4, <1>5, <1>6, <1>7, <1>8, <1>9, <1>10, <1>11, <1>12 DEF Next

\* Neither the open tokens nor the parents of a chain are disturbed.
LEMMA StepChain ==
    ASSUME StoreAssumption, TypeOK, NoOrphans, Chain, [Next]_storeVars
    PROVE  Chain'
<1> USE DEF Chain, OneOpenToken, ParentsAreSpent, SingleUse, Known
<1> DEFINE Quiet == /\ UNCHANGED <<minted, parent>>
                    /\ DOMAIN refresh' = DOMAIN refresh /\ DOMAIN families' = DOMAIN families
                    /\ \A x \in DOMAIN refresh :
                          /\ refresh'[x].family = refresh[x].family
                          /\ refresh[x].consumed => refresh'[x].consumed
                    /\ \A f \in DOMAIN families : families'[f].current = families[f].current
<1>0. ASSUME Quiet PROVE Chain'
  BY <1>0
<1> HIDE DEF Quiet
<1>1. ASSUME NEW u \in Users, Login(u) PROVE Chain'
  <2> DEFINE f == counter + 1
             t == minted + 1
             gone == TokensOf(Stale)
  <2>1. /\ f \notin DOMAIN families /\ t \notin DOMAIN refresh /\ t \in Serial
        /\ DOMAIN families' = (DOMAIN families \ Stale) \cup {f}
        /\ \A g \in DOMAIN families \ Stale : families'[g] = families[g]
        /\ families'[f].current = t
        /\ DOMAIN refresh' = (DOMAIN refresh \ gone) \cup {t}
        /\ \A x \in DOMAIN refresh \ gone : refresh'[x] = refresh[x]
        /\ refresh'[t] = [family |-> f, consumed |-> FALSE]
        /\ parent' = [parent EXCEPT ![t] = 0] /\ minted' = t
    BY <1>1, LoginEffect
  <2>2. \A x \in DOMAIN refresh : x \in gone <=> refresh[x].family \in Stale
    BY DEF TokensOf, Stale, NoOrphans
  <2>3. minted \in Nat /\ parent \in [Serial -> 0 .. MaxTokens] /\ Serial \subseteq Nat
    BY DEF TypeOK, StoreAssumption, Serial
  <2>4. \A x \in Serial : parent'[x] = IF x = t THEN 0 ELSE parent[x]
    BY <2>1, <2>3
  <2>5. minted < t /\ t \notin 1 .. minted /\ 1 .. minted \subseteq 1 .. t
    BY <2>3
  <2> HIDE DEF f, t, gone
  <2>6. OneOpenToken'
    BY <2>1, <2>2 DEF NoOrphans
  <2>7. ParentsAreSpent'
    BY <2>1, <2>3, <2>4, <2>5
  <2>8. SingleUse'
    BY <2>4
  <2> QED
    BY <2>6, <2>7, <2>8
<1>2. ASSUME NEW u \in Users, RevokeUser(u) PROVE Chain'
  <2>1. "admin" \in Reason
    BY DEF Reason
  <2> QED
    BY <1>0, <1>2, <2>1, RevokeEffect DEF RevokeUser, Quiet
<1>3. ASSUME NEW U \in SUBSET Users, ExpireAccess(U) PROVE Chain'
  BY <1>0, <1>3 DEF ExpireAccess, Quiet
<1>4. ASSUME NEW s \in Serial, Refresh(s) PROVE Chain'
  <2>1. CASE Rotate(s)
    <3> DEFINE f == refresh[s].family
               t == minted + 1
    <3>1. /\ s \in DOMAIN refresh /\ ~ refresh[s].consumed /\ f \in DOMAIN families
          /\ t \in Serial /\ minted' = t /\ s # t /\ t \notin DOMAIN refresh
          /\ DOMAIN families' = DOMAIN families
          /\ \A g \in DOMAIN families : g # f => families'[g] = families[g]
          /\ families'[f].current = t
          /\ DOMAIN refresh' = DOMAIN refresh \cup {t}
          /\ \A x \in DOMAIN refresh : x # s => refresh'[x] = refresh[x]
          /\ refresh'[s] = [family |-> f, consumed |-> TRUE]
          /\ refresh'[t] = [family |-> f, consumed |-> FALSE]
          /\ parent' = [parent EXCEPT ![t] = s]
      BY <2>1, RotateEffect DEF Live
    <3>2. minted \in Nat /\ parent \in [Serial -> 0 .. MaxTokens] /\ s \in 1 .. minted
      BY <3>1 DEF TypeOK, StoreAssumption
    <3>3. \A x \in Serial : parent'[x] = IF x = t THEN s ELSE parent[x]
      BY <3>1, <3>2
    <3>4. minted < t /\ t \notin 1 .. minted /\ 1 .. minted \subseteq 1 .. t
      BY <3>2
    <3> HIDE DEF f, t
    <3>5. \A x \in Serial : parent[x] # s
      BY <3>1, <3>2
    <3>6. \A x \in DOMAIN refresh : ~ refresh[x].consumed /\ refresh[x].family = f => x = s
      BY <3>1 DEF f
    <3>7. OneOpenToken'
      BY <3>1, <3>6
    <3>8. ParentsAreSpent'
      <4> SUFFICES ASSUME NEW x \in Serial, parent'[x] # 0
                   PROVE  /\ x <= minted' /\ parent'[x] \in 1 .. minted'
                          /\ parent'[x] \in DOMAIN refresh' => refresh'[parent'[x]].consumed
        OBVIOUS
      <4>1. CASE x = t
        <5>1. parent'[x] = s /\ s \in 1 .. minted' /\ t <= minted'
          BY <3>1, <3>2, <3>3, <3>4, <4>1 DEF t
        <5> QED
          BY <3>1, <4>1, <5>1
      <4>2. CASE x # t
        BY <3>1, <3>2, <3>3, <3>4, <3>5, <4>2 DEF Serial
      <4> QED
        BY <4>1, <4>2
    <3>9. SingleUse'
      BY <3>3, <3>5
    <3> QED
      BY <3>7, <3>8, <3>9
  <2>2. CASE RefreshTooLate(s)
    <3>1. /\ DOMAIN refresh' = DOMAIN refresh /\ UNCHANGED <<minted, parent, families>>
          /\ \A x \in DOMAIN refresh : x # s => refresh'[x] = refresh[x]
          /\ s \in DOMAIN refresh => /\ refresh'[s].family = refresh[s].family
                                   /\ refresh'[s].consumed = TRUE
      BY <2>2 DEF RefreshTooLate, TypeOK, RefreshRecord
    <3> QED
      BY <1>0, <3>1 DEF Quiet
  <2>3. CASE RefreshReused(s)
    <3>1. "refresh_reused" \in Reason
      BY DEF Reason
    <3> QED
      BY <1>0, <2>3, <3>1, RevokeEffect DEF RefreshReused, Quiet
  <2>4. CASE RefreshRejected(s)
    BY <1>0, <2>4 DEF RefreshRejected, storeVars, Quiet
  <2> QED
    BY <1>4, <2>1, <2>2, <2>3, <2>4 DEF Refresh
<1>5. ASSUME NEW t \in Serial, Logout(t) PROVE Chain'
  <2>1. "logout" \in Reason
    BY DEF Reason
  <2> QED
    BY <1>0, <1>5, <2>1, RevokeEffect DEF Logout, Quiet
<1>6. ASSUME NEW w \in Watchers, NEW f \in FamilyId, StartWatch(w, f) PROVE Chain'
  BY <1>0, <1>6 DEF StartWatch, Quiet
<1>7. ASSUME NEW w \in Watchers, StopWatch(w) PROVE Chain'
  BY <1>0, <1>7 DEF StopWatch, Quiet
<1>8. CASE Reset
  BY <1>8 DEF Reset, Empty
<1>9. CASE Tick
  BY <1>0, <1>9 DEF Tick, Quiet
<1>10. ASSUME NEW d \in Ttls, SetTtl(d) PROVE Chain'
  BY <1>0, <1>10 DEF SetTtl, Quiet
<1>11. CASE UNCHANGED storeVars
  BY <1>0, <1>11 DEF storeVars, Quiet
<1>12. Users \in SUBSET Users /\ \A u \in Users : {u} \in SUBSET Users
  OBVIOUS
<1> QED
  BY <1>1, <1>2, <1>3, <1>4, <1>5, <1>6, <1>7, <1>8, <1>9, <1>10, <1>11, <1>12 DEF Next

-----------------------------------------------------------------------------
\* A revocation, however it comes about, reaches the watchers registered.
LEMMA RevokeTells ==
    ASSUME TypeOK, WatchersAreTold, NEW F, NEW why \in Reason, Revoke(F, why)
    PROVE  WatchersAreTold'
<1> USE DEF WatchersAreTold, Live, Known
<1>1. /\ DOMAIN families' = DOMAIN families
      /\ \A f \in DOMAIN families :
            families'[f].reason = IF f \in F /\ Live(f) THEN why ELSE families[f].reason
      /\ callbacks' = [f \in FamilyId |-> IF f \in F /\ Live(f) THEN {} ELSE callbacks[f]]
      /\ watch' = [w \in Watchers |->
                      IF \E f \in F : Live(f) /\ w \in callbacks[f]
                      THEN [watch[w] EXCEPT !.state = "told"] ELSE watch[w]]
  BY RevokeEffect
<1>2. DOMAIN families \subseteq FamilyId
  BY StoreAssumption DEF TypeOK, FamilyId, StoreAssumption
<1>3. ASSUME NEW w \in Watchers
      PROVE  /\ watch[w] \in Watch
             /\ watch'[w] = IF \E f \in F : Live(f) /\ w \in callbacks[f]
                           THEN [watch[w] EXCEPT !.state = "told"] ELSE watch[w]
  BY <1>1 DEF TypeOK
<1>4. ASSUME NEW w \in Watchers, watch'[w].state = "armed"
      PROVE  Live(watch[w].family)' /\ w \in callbacks'[watch'[w].family]
  <2>1. ~ \E f \in F : Live(f) /\ w \in callbacks[f]
    <3>1. watch[w] \in Watch => [watch[w] EXCEPT !.state = "told"].state = "told"
      BY DEF Watch
    <3> QED
      BY <1>3, <1>4, <3>1
  <2>2. watch'[w] = watch[w] /\ watch[w].state = "armed"
    BY <1>3, <1>4, <2>1
  <2>3. Live(watch[w].family) /\ w \in callbacks[watch[w].family] /\ watch[w].family \notin F
    BY <2>1, <2>2
  <2> QED
    BY <1>1, <1>2, <2>2, <2>3
<1>5. ASSUME NEW w \in Watchers, NEW f \in FamilyId, w \in callbacks'[f]
      PROVE  watch'[w].state = "armed" /\ watch'[w].family = f
  <2>1. w \in callbacks[f] /\ ~ (f \in F /\ Live(f))
    BY <1>1, <1>5
  <2>2. watch[w].state = "armed" /\ watch[w].family = f
    BY <2>1
  <2>3. ~ \E g \in F : Live(g) /\ w \in callbacks[g]
    BY <1>2, <2>1, <2>2
  <2>4. watch'[w] = watch[w]
    BY <1>3, <2>3
  <2> QED
    BY <2>2, <2>4
<1> QED
  BY <1>4, <1>5

\* Every step keeps the registry and the watchers in agreement.
LEMMA StepWatchers ==
    ASSUME StoreAssumption, TypeOK, WatchersAreTold, [Next]_storeVars
    PROVE  WatchersAreTold'
<1> USE DEF WatchersAreTold, Live, Known
<1>0. DOMAIN families \subseteq FamilyId /\ counter \in Nat
  BY StoreAssumption DEF TypeOK, FamilyId, StoreAssumption
<1>1. ASSUME NEW u \in Users, Login(u) PROVE WatchersAreTold'
  <2> DEFINE n == counter + 1
  <2>1. /\ n \notin DOMAIN families /\ n \in FamilyId
        /\ DOMAIN families' = (DOMAIN families \ Stale) \cup {n}
        /\ \A g \in DOMAIN families \ Stale : families'[g] = families[g]
    BY <1>1, LoginEffect
  <2>2. /\ callbacks' = [f \in FamilyId |-> IF f \in Stale THEN {} ELSE callbacks[f]]
        /\ watch' = [w \in Watchers |->
                        IF \E f \in {g \in Stale : Live(g)} : w \in callbacks[f]
                        THEN [watch[w] EXCEPT !.state = "told"] ELSE watch[w]]
    BY <1>1 DEF Login, Forget, Tell
  <2>3. Stale \subseteq DOMAIN families
    BY DEF Stale
  <2>4. ASSUME NEW w \in Watchers
        PROVE  /\ watch[w] \in Watch
               /\ watch'[w] = IF \E f \in {g \in Stale : Live(g)} : w \in callbacks[f]
                             THEN [watch[w] EXCEPT !.state = "told"] ELSE watch[w]
    BY <2>2 DEF TypeOK
  <2>5. ASSUME NEW w \in Watchers, watch'[w].state = "armed"
        PROVE  Live(watch[w].family)' /\ w \in callbacks'[watch'[w].family]
    <3> DEFINE told == \E f \in {g \in Stale : Live(g)} : w \in callbacks[f]
    <3>1. ASSUME told PROVE FALSE
      <4> HIDE DEF told, WatchersAreTold
      <4>1. watch[w] \in Watch /\ watch'[w] = [watch[w] EXCEPT !.state = "told"]
        BY <2>4, <3>1 DEF told
      <4>2. watch'[w].state = "told"
        BY <4>1 DEF Watch
      <4> QED
        BY <4>2, <2>5
    <3>2. watch'[w] = watch[w] /\ watch[w].state = "armed"
      BY <2>4, <2>5, <3>1
    <3>3. Live(watch[w].family) /\ w \in callbacks[watch[w].family]
          /\ watch[w].family \notin Stale
      BY <3>1, <3>2
    <3> QED
      BY <1>0, <2>1, <2>2, <3>2, <3>3
  <2>6. ASSUME NEW w \in Watchers, NEW f \in FamilyId, w \in callbacks'[f]
        PROVE  watch'[w].state = "armed" /\ watch'[w].family = f
    <3>1. w \in callbacks[f] /\ f \notin Stale
      BY <2>2, <2>6
    <3>2. watch[w].state = "armed" /\ watch[w].family = f
      BY <3>1
    <3>3. ~ \E g \in {h \in Stale : Live(h)} : w \in callbacks[g]
      BY <1>0, <2>3, <3>1, <3>2
    <3>4. watch'[w] = watch[w]
      BY <2>4, <3>3
    <3> QED
      BY <3>2, <3>4
  <2> QED
    BY <2>5, <2>6
<1>2. ASSUME NEW u \in Users, RevokeUser(u) PROVE WatchersAreTold'
  <2>1. "admin" \in Reason
    BY DEF Reason
  <2> QED
    BY <1>2, <2>1, RevokeTells DEF RevokeUser
<1>3. ASSUME NEW U \in SUBSET Users, ExpireAccess(U) PROVE WatchersAreTold'
  BY <1>3 DEF ExpireAccess
<1>4. ASSUME NEW t \in Serial, Refresh(t) PROVE WatchersAreTold'
  <2>1. CASE Rotate(t)
    <3>1. /\ UNCHANGED <<callbacks, watch>> /\ DOMAIN families' = DOMAIN families
          /\ \A g \in DOMAIN families : families'[g].reason = families[g].reason
      BY <2>1, RotateEffect
    <3> QED
      BY <3>1
  <2>2. CASE RefreshTooLate(t)
    BY <2>2 DEF RefreshTooLate
  <2>3. CASE RefreshReused(t)
    <3>1. "refresh_reused" \in Reason
      BY DEF Reason
    <3> QED
      BY <2>3, <3>1, RevokeTells DEF RefreshReused
  <2>4. CASE RefreshRejected(t)
    BY <2>4 DEF RefreshRejected, storeVars
  <2> QED
    BY <1>4, <2>1, <2>2, <2>3, <2>4 DEF Refresh
<1>5. ASSUME NEW t \in Serial, Logout(t) PROVE WatchersAreTold'
  <2>1. "logout" \in Reason
    BY DEF Reason
  <2> QED
    BY <1>5, <2>1, RevokeTells DEF Logout
<1>6. ASSUME NEW w \in Watchers, NEW f \in FamilyId, StartWatch(w, f) PROVE WatchersAreTold'
  <2>1. \A g \in FamilyId : w \notin callbacks[g]
    BY <1>6 DEF StartWatch
  <2> QED
    BY <1>6, <2>1 DEF StartWatch, TypeOK, Watch
<1>7. ASSUME NEW w \in Watchers, StopWatch(w) PROVE WatchersAreTold'
  BY <1>7 DEF StopWatch, TypeOK, Watch
<1>8. CASE Reset
  <2>1. /\ callbacks' = [f \in FamilyId |-> {}]
        /\ watch' = [w \in Watchers |->
                        IF \E f \in {g \in DOMAIN families : Live(g)} : w \in callbacks[f]
                        THEN [watch[w] EXCEPT !.state = "told"] ELSE watch[w]]
    BY <1>8 DEF Reset, Forget, Tell
  <2>2. \A w \in Watchers : watch'[w].state # "armed"
    BY <1>0, <2>1 DEF TypeOK, Watch
  <2> QED
    BY <2>1, <2>2
<1>9. CASE Tick
  BY <1>9 DEF Tick
<1>10. ASSUME NEW d \in Ttls, SetTtl(d) PROVE WatchersAreTold'
  BY <1>10 DEF SetTtl
<1>11. CASE UNCHANGED storeVars
  BY <1>11 DEF storeVars
<1>12. Users \in SUBSET Users /\ \A u \in Users : {u} \in SUBSET Users
  OBVIOUS
<1> QED
  BY <1>1, <1>2, <1>3, <1>4, <1>5, <1>6, <1>7, <1>8, <1>9, <1>10, <1>11, <1>12 DEF Next

-----------------------------------------------------------------------------
\* The conjuncts carry each other over every step from the first state on.
LEMMA StoreInvariance == Spec => []StoreInv
<1>1. Init => StoreInv
  <2> SUFFICES ASSUME Init PROVE StoreInv
    OBVIOUS
  <2>1. TypeOK
    BY StoreAssumption DEF Init, TypeOK, StoreAssumption, Empty, Watch, FamilyId
  <2>2. NoOrphans /\ Chain /\ WatchersAreTold
    BY DEF Init, NoOrphans, Chain, OneOpenToken, ParentsAreSpent, SingleUse,
           WatchersAreTold, Empty
  <2> QED
    BY <2>1, <2>2 DEF StoreInv
<1>2. StoreInv /\ [Next]_storeVars => StoreInv'
  BY StoreAssumption, StepType, StepNoOrphans, StepChain, StepWatchers DEF StoreInv
<1> QED
  BY <1>1, <1>2, PTL DEF Spec

\* Every variable stays in its type, and the dictionaries of families and of
\* tokens never disagree, for any number of families, tokens and watchers, any
\* lifetimes and any limits.
THEOREM TypeCorrect == Spec => []StoreTypeOK
<1>1. StoreInv => StoreTypeOK
  BY DEF StoreInv, StoreTypeOK
<1> QED
  BY <1>1, StoreInvariance, PTL

\* No refresh token ever buys two pairs, and only the last one of a family can
\* buy one (TokenStore.refresh).
THEOREM RefreshIsSingleUse == Spec => []OneChain
<1>1. StoreInv => OneChain
  BY DEF StoreInv, Chain, OneChain
<1> QED
  BY <1>1, StoreInvariance, PTL

\* Whoever waits for a revocation waits at a live family, registered.
THEOREM RevocationReachesWatchers == Spec => []WatchersAreTold
<1>1. StoreInv => WatchersAreTold
  BY DEF StoreInv
<1> QED
  BY <1>1, StoreInvariance, PTL

-----------------------------------------------------------------------------
\* What a step may do to a token already minted: take its record away, or
\* keep it in the same family with no later expiry, the family being at
\* most revoked or dropped, and the clock not going back.
Weakened(t) ==
    \/ t \notin DOMAIN access'
    \/ /\ t \in DOMAIN access /\ access[t].family \in DOMAIN families
       /\ access'[t].family = access[t].family
       /\ access'[t].exp \in Nat /\ access[t].exp \in Nat /\ access'[t].exp <= access[t].exp
       /\ now' \in Nat /\ now \in Nat /\ now' >= now
       /\ access[t].family \in DOMAIN families' =>
             \/ families'[access[t].family].reason = families[access[t].family].reason
             \/ families'[access[t].family].reason # NotRevoked

\* A token so weakened is worth no more than before.
LEMMA WeakenedFalls ==
    ASSUME NEW t, Weakened(t)
    PROVE  Worth(AccessStatus(t)') <= Worth(AccessStatus(t))
<1>1. AccessStatus(t) \in {"ok", "token_expired", "session_revoked", "invalid_token"}
  BY DEF AccessStatus
<1>2. CASE t \notin DOMAIN access'
  BY <1>1, <1>2 DEF AccessStatus, Worth
<1>3. CASE t \in DOMAIN access'
  <2> DEFINE f == access[t].family
  <2>1. CASE f \notin DOMAIN families'
    BY <1>1, <1>3, <2>1 DEF Weakened, AccessStatus, Worth, Known
  <2>2. CASE f \in DOMAIN families' /\ families'[f].reason # NotRevoked
    BY <1>1, <1>3, <2>2 DEF Weakened, AccessStatus, Worth, Known
  <2>3. CASE f \in DOMAIN families' /\ families'[f].reason = NotRevoked
    <3>1. families[f].reason = NotRevoked /\ f \in DOMAIN families
      BY <1>3, <2>3 DEF Weakened
    <3>2. CASE now >= access[t].exp
      <4>1. now' >= access'[t].exp
        BY <1>3, <3>2 DEF Weakened
      <4>2. AccessStatus(t) = "token_expired" /\ AccessStatus(t)' = "token_expired"
        BY <1>3, <2>3, <3>1, <3>2, <4>1 DEF Weakened, AccessStatus, Known
      <4> QED
        BY <4>2 DEF Worth
    <3>3. CASE ~ (now >= access[t].exp)
      <4>1. AccessStatus(t) = "ok"
        BY <1>3, <3>1, <3>3 DEF Weakened, AccessStatus, Known
      <4>2. Worth(AccessStatus(t)') \in 0 .. 3
        BY DEF Worth
      <4> QED
        BY <4>1, <4>2 DEF Worth
    <3> QED
      BY <3>2, <3>3
  <2> QED
    BY <2>1, <2>2, <2>3
<1> QED
  BY <1>2, <1>3

\* Steps that leave the access records, and the clock, alone.
LEMMA SameAccessWeakens ==
    ASSUME TypeOK, NoOrphans, NEW t, UNCHANGED <<access, now>>,
           \A f \in DOMAIN families \cap DOMAIN families' :
              \/ families'[f].reason = families[f].reason
              \/ families'[f].reason # NotRevoked
    PROVE  Weakened(t)
BY StoreAssumption DEF Weakened, TypeOK, AccessRecord, NoOrphans, Known, StoreAssumption

\* Every step does no more than that to the tokens already minted.
LEMMA StepWeakens ==
    ASSUME StoreAssumption, TypeOK, NoOrphans, [Next]_storeVars, NEW t \in 1 .. minted
    PROVE  Weakened(t)
<1>0. /\ now \in Nat /\ minted \in Nat
      /\ access \in [DOMAIN access -> AccessRecord]
      /\ \A x \in DOMAIN access : /\ access[x].exp \in Nat
                                 /\ access[x].family \in DOMAIN families
  BY DEF TypeOK, AccessRecord, NoOrphans, Known, StoreAssumption
<1>a. ASSUME NEW F, NEW why \in Reason, Revoke(F, why), UNCHANGED <<access, now>>
      PROVE  Weakened(t)
  <2>1. NotRevoked \notin Reason
    BY DEF NotRevoked, Reason
  <2>2. \A f \in DOMAIN families \cap DOMAIN families' :
           \/ families'[f].reason = families[f].reason
           \/ families'[f].reason # NotRevoked
    BY <1>a, <2>1, RevokeEffect
  <2> QED
    BY <1>a, <2>2, SameAccessWeakens
<1>1. ASSUME NEW u \in Users, Login(u) PROVE Weakened(t)
  <2> DEFINE n == minted + 1
             gone == TokensOf(Stale)
  <2>1. /\ DOMAIN families' = (DOMAIN families \ Stale) \cup {counter + 1}
        /\ \A g \in DOMAIN families \ Stale : families'[g] = families[g]
        /\ counter + 1 \notin DOMAIN families
        /\ DOMAIN access' = (DOMAIN access \ gone) \cup {n}
        /\ \A x \in DOMAIN access \ gone : access'[x] = access[x]
    BY <1>1, LoginEffect
  <2>3. t # n
    BY <1>0
  <2>4. now' = now
    BY <1>1 DEF Login
  <2> HIDE DEF n, gone
  <2>2. CASE t \in DOMAIN access'
    <3>1. t \in DOMAIN access /\ access'[t] = access[t]
      BY <2>1, <2>2, <2>3
    <3>2. access[t].family \in DOMAIN families' => families'[access[t].family] = families[access[t].family]
      BY <1>0, <2>1, <3>1
    <3> QED
      BY <1>0, <2>1, <2>4, <3>1, <3>2 DEF Weakened
  <2> QED
    BY <2>2 DEF Weakened
<1>2. ASSUME NEW u \in Users, RevokeUser(u) PROVE Weakened(t)
  BY <1>2, <1>a DEF RevokeUser, Reason
<1>3. ASSUME NEW U \in SUBSET Users, ExpireAccess(U) PROVE Weakened(t)
  <2>1. /\ DOMAIN access' = DOMAIN access /\ UNCHANGED <<families, now>>
        /\ \A x \in DOMAIN access :
              \/ access'[x] = access[x]
              \/ access[x].exp > now /\ access'[x] = [access[x] EXCEPT !.exp = now]
    BY <1>3 DEF ExpireAccess
  <2>2. \A x \in DOMAIN access : /\ access'[x].family = access[x].family
                                /\ access'[x].exp \in Nat /\ access'[x].exp <= access[x].exp
    BY <1>0, <2>1 DEF AccessRecord
  <2> QED
    BY <1>0, <2>1, <2>2 DEF Weakened
<1>4. ASSUME NEW s \in Serial, Refresh(s) PROVE Weakened(t)
  <2>1. CASE Rotate(s)
    <3>1. now' = now /\ t # minted + 1
      BY <1>0, <2>1 DEF Rotate
    <3>2. /\ DOMAIN families' = DOMAIN families
          /\ \A g \in DOMAIN families : families'[g].reason = families[g].reason
          /\ DOMAIN access' = DOMAIN access \cup {minted + 1}
          /\ \A x \in DOMAIN access : access'[x] = access[x]
      BY <2>1, RotateEffect
    <3> QED
      BY <1>0, <3>1, <3>2 DEF Weakened
  <2>2. CASE RefreshTooLate(s)
    BY <2>2, SameAccessWeakens DEF RefreshTooLate
  <2>3. CASE RefreshReused(s)
    BY <2>3, <1>a DEF RefreshReused, Reason
  <2>4. CASE RefreshRejected(s)
    BY <2>4, SameAccessWeakens DEF RefreshRejected, storeVars
  <2> QED
    BY <1>4, <2>1, <2>2, <2>3, <2>4 DEF Refresh
<1>5. ASSUME NEW s \in Serial, Logout(s) PROVE Weakened(t)
  BY <1>5, <1>a DEF Logout, Reason
<1>6. ASSUME NEW w \in Watchers, NEW f \in FamilyId, StartWatch(w, f) PROVE Weakened(t)
  BY <1>6, SameAccessWeakens DEF StartWatch
<1>7. ASSUME NEW w \in Watchers, StopWatch(w) PROVE Weakened(t)
  BY <1>7, SameAccessWeakens DEF StopWatch
<1>8. CASE Reset
  BY <1>8 DEF Reset, Empty, Weakened
<1>9. CASE Tick
  BY <1>0, <1>9 DEF Tick, Weakened
<1>10. ASSUME NEW d \in Ttls, SetTtl(d) PROVE Weakened(t)
  BY <1>10, SameAccessWeakens DEF SetTtl
<1>11. CASE UNCHANGED storeVars
  BY <1>11, SameAccessWeakens DEF storeVars
<1>12. Users \in SUBSET Users /\ \A u \in Users : {u} \in SUBSET Users
  OBVIOUS
<1> QED
  BY <1>1, <1>2, <1>3, <1>4, <1>5, <1>6, <1>7, <1>8, <1>9, <1>10, <1>11, <1>12 DEF Next

\* A token refused once is refused for ever, whatever session its family id
\* is given to later.
THEOREM AccessOnlyFalls == Spec => StatusOnlyFalls
<1>1. StoreInv /\ [Next]_storeVars =>
        [\A t \in 1 .. minted : Worth(AccessStatus(t)') <= Worth(AccessStatus(t))]_storeVars
  BY StoreAssumption, StepWeakens, WeakenedFalls DEF StoreInv
<1> QED
  BY <1>1, StoreInvariance, PTL DEF Spec, StatusOnlyFalls

\* No step but a login raises the family counter.
LEMMA OnlyLoginCounts ==
    ASSUME counter \in Nat, [Next]_storeVars, counter' > counter
    PROVE  \E u \in Users : Login(u)
<1> SUFFICES ASSUME ~ \E u \in Users : Login(u) PROVE FALSE
  OBVIOUS
<1>1. ASSUME NEW u \in Users, RevokeUser(u) PROVE FALSE
  BY <1>1 DEF RevokeUser
<1>2. ASSUME NEW U, ExpireAccess(U) PROVE FALSE
  BY <1>2 DEF ExpireAccess
<1>3. ASSUME NEW t \in Serial, Refresh(t) PROVE FALSE
  <2>1. ~ Rotate(t)
    BY DEF Rotate
  <2>2. ~ RefreshTooLate(t) /\ ~ RefreshReused(t) /\ ~ RefreshRejected(t)
    BY DEF RefreshTooLate, RefreshReused, RefreshRejected, storeVars
  <2> QED
    BY <1>3, <2>1, <2>2 DEF Refresh
<1>4. ASSUME NEW t \in Serial, Logout(t) PROVE FALSE
  BY <1>4 DEF Logout
<1>5. ASSUME NEW w \in Watchers, NEW f \in FamilyId, StartWatch(w, f) PROVE FALSE
  BY <1>5 DEF StartWatch
<1>6. ASSUME NEW w \in Watchers, StopWatch(w) PROVE FALSE
  BY <1>6 DEF StopWatch
<1>7. ~ Reset /\ ~ Tick /\ ~ UNCHANGED storeVars
  BY DEF Reset, Tick, storeVars
<1>8. ASSUME NEW d \in Ttls, SetTtl(d) PROVE FALSE
  BY <1>8 DEF SetTtl
<1> QED
  BY <1>1, <1>2, <1>3, <1>4, <1>5, <1>6, <1>7, <1>8 DEF Next

\* The sweep drops no family that could still have been refreshed.
THEOREM SweepDropsOnlyDead == Spec => SweepSparesUsable
<1>1. ASSUME StoreInv, [Next]_storeVars, NEW f \in DOMAIN families,
             counter' > counter, f \notin DOMAIN families'
      PROVE  RefreshAnswer(families[f].current) # "ok"
  <2>0. counter \in Nat /\ TypeOK /\ NoOrphans
    BY <1>1, StoreAssumption DEF StoreInv, TypeOK, StoreAssumption
  <2>1. \E u \in Users : Login(u)
    BY <1>1, <2>0, OnlyLoginCounts
  <2>2. f \in Stale
    BY <1>1, <2>0, <2>1, StoreAssumption, LoginEffect
  <2>3. /\ families[f].current \in DOMAIN refresh
        /\ refresh[families[f].current].family = f
    BY <1>1, <2>0 DEF NoOrphans
  <2>4. /\ families[f].created \in Nat /\ now \in Nat /\ ttl \in Nat /\ RefreshMax \in Nat
        /\ now - families[f].created > RefreshMax + ttl
    BY <1>1, <2>0, <2>2, StoreAssumption DEF Stale, TypeOK, Family, StoreAssumption
  <2>5. now - families[f].created > RefreshMax
    BY <2>4
  <2> QED
    BY <1>1, <2>3, <2>5 DEF RefreshAnswer, Known
<1>2. StoreInv /\ [Next]_storeVars =>
        [\A f \in DOMAIN families :
            counter' > counter /\ f \notin DOMAIN families'
                => RefreshAnswer(families[f].current) # "ok"]_storeVars
  BY <1>1
<1> QED
  BY <1>2, StoreInvariance, PTL DEF Spec, SweepSparesUsable
=============================================================================
