-------------------------------- MODULE Limits --------------------------------
(***************************************************************************)
(* What a caller may do, and how often: the rate limiter                   *)
(* (platform/ratelimit.py), the login limiter (platform/login_limit.py)    *)
(* with POST /auth/login, the permissions (platform/permissions.py,        *)
(* deps.py), the downloads of api/sessions.py that consult all three, and  *)
(* the chaos controller (platform/chaos.py) in front of them.  Handlers do *)
(* not await between a check and what it allows, so each is one action;    *)
(* the chaos middleware does, for the latency it imposes.                  *)
(***************************************************************************)
EXTENDS Integers, Sequences, FiniteSets, SequencesExt

CONSTANTS
    Buckets,     \* the names of BUCKETS
    Most,        \* bucket -> limit
    Span,        \* bucket -> window_s, in units
    FixedRetry,  \* bucket -> retry_after_s, or 0 when it is computed
    Second,      \* units in a second: what Retry-After is rounded to
    IdleAge,     \* how long a key may be idle when there are too many (600 s)
    MaxTracked,  \* MAX_TRACKED_KEYS of the limiter and of the chaos counters
    Callers,     \* the clients: token families
    RoleOf,      \* caller -> "analyst" or "observer"
    Addresses,   \* the e-mail addresses typed
    Normal,      \* normalize_email
    Accounts,    \* the normalised addresses of USERS
    MaxFailures, \* max_failures
    LoginSpan,   \* window_s of the login limiter
    Skew,        \* the wall clock when the monotonic one shows 0
    Packets,     \* sessions to download from: [sensor, pcap, file]
    Profiles,    \* PROFILES: profile -> [ttl, degraded, faulty]
    DefaultTtl,  \* Settings.access_ttl_s
    LastTick,    \* bound: units of time
    MaxCounter   \* bound: requests counted for one key

ASSUME LimitsAssumption ==
    /\ Most \in [Buckets -> Nat \ {0}] /\ Span \in [Buckets -> Nat \ {0}]
    /\ Second \in Nat \ {0} /\ FixedRetry \in [Buckets -> Nat]
    /\ \A b \in Buckets : IdleAge >= Span[b] /\ (FixedRetry[b] # 0 => FixedRetry[b] * Second >= Span[b])
    /\ {IdleAge, MaxTracked, LastTick, Skew, MaxCounter} \subseteq Nat
    /\ {MaxFailures, LoginSpan, DefaultTtl} \subseteq Nat \ {0}
    /\ Normal \in [Addresses -> Addresses] /\ Accounts \subseteq Addresses
    /\ "download" \in Buckets /\ "calm" \in DOMAIN Profiles /\ \A p \in DOMAIN Profiles : Profiles[p].ttl \in Nat
    /\ \A s \in Packets : {s.pcap, s.file} \cap {"packets", "forbidden", "forbidden_sensor", "download_rate_limited"} = {}

VARIABLES
    hits,     \* RateLimiter._hits: <<bucket, caller>> -> times
    failures, \* LoginLimiter._failures: address -> times
    tick,     \* the monotonic clock
    profile,  \* ChaosController._profile
    turns,    \* ChaosController._counters
    asleep,   \* caller -> the fault its request sleeps on, or "awake"
    granted,  \* history: <<bucket, caller>> -> when it was let through lately
    failed    \* history: address -> when it failed since its last success

limitVars == <<hits, failures, tick, profile, turns, asleep, granted, failed>>

-----------------------------------------------------------------------------
\* How many times the loop takes off the front of a deque at now, those a span
\* or longer ago, and what it leaves.
Passed(times, now, span) ==
    CHOOSE n \in 0 .. Len(times) :
        /\ \A i \in 1 .. n : now - times[i] >= span
        /\ n < Len(times) => now - times[n + 1] < span
LeftAt(times, now, span) == SubSeq(times, Passed(times, now, span) + 1, Len(times))
Within(times, span) == LeftAt(times, tick, span)
CeilDiv(n, d) == -((-n) \div d)
Longer(a, b) == IF a < b THEN b ELSE a
With(f, key, value) == [k \in DOMAIN f \cup {key} |-> IF k = key THEN value ELSE f[k]]
Times(f, key) == IF key \in DOMAIN f THEN f[key] ELSE <<>>

\* ROLE_PERMISSIONS and ROLE_DENIED_SENSORS.
RolePermissions(role) ==
    {"sessions:read", "live:read"} \cup
    IF role = "analyst"
    THEN {"pcap:download", "files:download", "hunts:write", "cases:write", "imports:create"}
    ELSE {}
DeniedSensors(role) == IF role = "observer" THEN {"dc-east"} ELSE {}
CanReadSensor(role, sensor) == sensor \notin DeniedSensors(role)

\* Mutant of Tracked: a key goes by the age of its first hit.
TrackedByFirst(known) ==
    IF Cardinality(DOMAIN known) > MaxTracked
    THEN [k \in {j \in DOMAIN known : known[j] # <<>> /\ tick - Head(known[j]) < IdleAge} |-> known[k]]
    ELSE known

\* _window(), first half: with too many keys, those long idle are dropped.
Tracked(known) ==
    IF Cardinality(DOMAIN known) > MaxTracked
    THEN [k \in {j \in DOMAIN known : known[j] # <<>> /\ tick - Last(known[j]) < IdleAge} |-> known[k]]
    ELSE known

\* _window(), second half: the hits of the window, kept under the key.
Recent(b, c) == Within(Times(Tracked(hits), <<b, c>>), Span[b])

\* allows() and retry_after_s().
Allows(b, c) == Len(Recent(b, c)) < Most[b]
RetryAfter(b, c) ==
    CASE FixedRetry[b] # 0 -> FixedRetry[b]
      [] FixedRetry[b] = 0 /\ Recent(b, c) = <<>> -> 1
      [] OTHER -> Longer(1, CeilDiv(Head(Recent(b, c)) + Span[b] - tick, Second))

\* check(): a refusal trims the window too.
Charge(b, c) ==
    LET now == IF Allows(b, c) THEN Append(Recent(b, c), tick) ELSE Recent(b, c)
    IN /\ hits' = With(Tracked(hits), <<b, c>>, now)
       /\ granted' = IF Allows(b, c)
                     THEN With(granted, <<b, c>>, Append(Within(Times(granted, <<b, c>>), Span[b]), tick))
                     ELSE granted

-----------------------------------------------------------------------------
\* LoginLimiter: _prune(), check() and its Retry-After, a date on the wall
\* clock in whole seconds.
RecentFailures(e) == Within(Times(failures, Normal[e]), LoginSpan)
LoginAllowed(e) == Len(RecentFailures(e)) < MaxFailures
RetryAt(e) ==
    CeilDiv(tick + Skew, Second) +
    Longer(1, CeilDiv(Head(RecentFailures(e)) + LoginSpan - tick, Second))

\* POST /auth/login; the family it begins is TokenStore's.
SignIn(e, right) ==
    LET a == Normal[e]
        success == LoginAllowed(e) /\ right /\ a \in Accounts
        failure == LoginAllowed(e) /\ ~success
    IN /\ failures' =
            CASE success -> [k \in DOMAIN failures \ {a} |-> failures[k]]
              [] failure -> With(failures, a, Append(RecentFailures(e), tick))
              [] OTHER -> With(failures, a, RecentFailures(e))
       /\ failed' =
            CASE success -> With(failed, a, <<>>)
              [] failure -> With(failed, a, Append(Times(failed, a), tick))
              [] OTHER -> failed
       /\ UNCHANGED <<hits, tick, profile, turns, asleep, granted>>

-----------------------------------------------------------------------------
\* ChaosController._bump(): too many keys and the counters start again.
Bumped(key) ==
    LET known == IF Cardinality(DOMAIN turns) > MaxTracked /\ key \notin DOMAIN turns
                 THEN [k \in {} |-> 0] ELSE turns
    IN With(known, key, IF key \in DOMAIN known THEN known[key] + 1 ELSE 1)

\* ChaosMiddleware, up to its sleep: decide() draws a fault for a GET from
\* the key and its counter.  The draw is any of those the profile allows.
Faults == IF Profiles[profile].faulty THEN {"none", "fault"} ELSE {"none"}
Arrive(c, fault) ==
    /\ asleep[c] = "awake"
    /\ fault \in Faults
    /\ c \in DOMAIN turns => turns[c] < MaxCounter
    /\ turns' = Bumped(c)
    /\ asleep' = [asleep EXCEPT ![c] = fault]
    /\ UNCHANGED <<hits, failures, tick, profile, granted, failed>>

\* The request wakes up and is answered 503 or cut short, or handled.
Faulted(c) ==
    /\ asleep[c] = "fault"
    /\ asleep' = [asleep EXCEPT ![c] = "awake"]
    /\ UNCHANGED <<hits, failures, tick, profile, turns, granted, failed>>

\* The routes that only charge a bucket: estimates, histograms, enrichment.
Limited(c, b) ==
    /\ asleep[c] = "none"
    /\ asleep' = [asleep EXCEPT ![c] = "awake"]
    /\ Charge(b, c)
    /\ UNCHANGED <<failures, tick, profile, turns, failed>>

\* GET /sessions/{id}/pcap: permission, sensor and the degraded store are
\* looked at before the limiter is charged, the retention of the packets
\* after it.
PcapAnswer(c, s) ==
    CASE "pcap:download" \notin RolePermissions(RoleOf[c]) -> "forbidden"
      [] ~CanReadSensor(RoleOf[c], s.sensor) -> "forbidden_sensor"
      [] Profiles[profile].degraded -> "pcap_store_degraded"
      [] ~Allows("download", c) -> "download_rate_limited"
      [] s.pcap # "available" -> s.pcap
      [] OTHER -> "packets"
DownloadPcap(c, s) ==
    /\ asleep[c] = "none"
    /\ asleep' = [asleep EXCEPT ![c] = "awake"]
    /\ IF PcapAnswer(c, s) \in {"forbidden", "forbidden_sensor", "pcap_store_degraded"}
       THEN UNCHANGED <<hits, granted>> ELSE Charge("download", c)
    /\ UNCHANGED <<failures, tick, profile, turns, failed>>

\* GET /sessions/{id}/files/{file_id}: charged to the same bucket as soon as
\* the session may be read, whatever becomes of the file; the trap is a
\* success that carries an error.
FileAnswer(c, s) ==
    CASE "files:download" \notin RolePermissions(RoleOf[c]) -> "forbidden"
      [] ~CanReadSensor(RoleOf[c], s.sensor) -> "forbidden_sensor"
      [] ~Allows("download", c) -> "download_rate_limited"
      [] OTHER -> s.file
DownloadFile(c, s) ==
    /\ asleep[c] = "none"
    /\ asleep' = [asleep EXCEPT ![c] = "awake"]
    /\ IF FileAnswer(c, s) \in {"forbidden", "forbidden_sensor"}
       THEN UNCHANGED <<hits, granted>> ELSE Charge("download", c)
    /\ UNCHANGED <<failures, tick, profile, turns, failed>>

\* PUT /__admin/chaos; configure() applies the access lifetime as well.
AccessTtl(p) == IF Profiles[p].ttl = 0 THEN DefaultTtl ELSE Profiles[p].ttl
Configure(p) ==
    /\ profile' = p
    /\ UNCHANGED <<hits, failures, tick, turns, asleep, granted, failed>>

\* POST /__admin/reset: both limiters and the counters, not the profile.
ResetLimits ==
    /\ hits' = [k \in {} |-> 0] /\ granted' = [k \in {} |-> 0]
    /\ failures' = [k \in {} |-> 0] /\ failed' = [k \in {} |-> 0]
    /\ turns' = [k \in {} |-> 0]
    /\ UNCHANGED <<tick, profile, asleep>>

Later ==
    /\ tick < LastTick
    /\ tick' = tick + 1
    /\ UNCHANGED <<hits, failures, profile, turns, asleep, granted, failed>>

LimitsInit ==
    /\ hits = [k \in {} |-> 0] /\ granted = [k \in {} |-> 0]
    /\ failures = [k \in {} |-> 0] /\ failed = [k \in {} |-> 0]
    /\ turns = [k \in {} |-> 0]
    /\ tick = 0 /\ profile = "calm"
    /\ asleep = [c \in Callers |-> "awake"]

LimiterStep ==
    \/ \E c \in Callers, fault \in {"none", "fault"} : Arrive(c, fault)
    \/ \E c \in Callers : Faulted(c)
    \/ \E c \in Callers, b \in Buckets \ {"download"} : Limited(c, b)
    \/ \E c \in Callers, s \in Packets : DownloadPcap(c, s) \/ DownloadFile(c, s)
    \/ \E p \in DOMAIN Profiles : Configure(p)

LimitsNext ==
    \/ LimiterStep
    \/ \E e \in Addresses, right \in BOOLEAN : SignIn(e, right)
    \/ ResetLimits
    \/ Later

LimitsSpec == LimitsInit /\ [][LimitsNext]_limitVars

-----------------------------------------------------------------------------
Ascending(times) == \A i \in 1 .. Len(times) - 1 : times[i] <= times[i + 1]

\* Types; the deques are in order, the chaos counters bounded, and observers
\* are given no packets.
LimitsTypeOK ==
    /\ \A k \in DOMAIN hits : Ascending(hits[k]) /\ Len(hits[k]) <= Most[k[1]]
    /\ \A e \in DOMAIN failures : e \in Range(Normal) /\ Ascending(failures[e])
    /\ Cardinality(DOMAIN turns) <= MaxTracked + 1
    /\ \A c \in Callers, s \in Packets :
         PcapAnswer(c, s) = "packets" \/ FileAnswer(c, s) = s.file => RoleOf[c] = "analyst"
    /\ AccessTtl(profile) > 0

\* Within any window a caller is let through at most limit times and an
\* address fails at most max_failures times, however the windows lie, however
\* many keys are tracked and dropped; and a caller that waits for as long as
\* the Retry-After it was given, and is alone under its key, is let through.
WindowHolds ==
    /\ \A k \in DOMAIN granted : \A i \in 1 .. Len(granted[k]) - Most[k[1]] :
         granted[k][i + Most[k[1]]] - granted[k][i] >= Span[k[1]]
    /\ \A a \in DOMAIN failed : \A i \in 1 .. Len(failed[a]) - MaxFailures :
         failed[a][i + MaxFailures] - failed[a][i] >= LoginSpan
    /\ \A b \in Buckets, c \in Callers :
         LET then == tick + RetryAfter(b, c) * Second
         IN Len(LeftAt(Recent(b, c), then, Span[b])) < Most[b]
    /\ \A e \in Addresses : ~LoginAllowed(e) =>
         LET then == RetryAt(e) * Second - Skew
         IN Len(LeftAt(RecentFailures(e), then, LoginSpan)) < MaxFailures
=============================================================================
