------------------------------- MODULE Observer -------------------------------
(***************************************************************************)
(* The observer: platform/observer.py records every request when it ends   *)
(* and every event of a stream, by token family, in rings of bounded size; *)
(* api/observer.py judges the client by them in a list of checks.          *)
(*                                                                         *)
(* A request is what the checks read of its record; the set Shapes of them *)
(* is a parameter.  A path is its template and the item it names.          *)
(***************************************************************************)
EXTENDS Integers, Sequences, FiniteSets, SequencesExt

CONSTANTS
    Families,  \* token families
    Clients,   \* address and user agent of a caller
    Anonymous, \* ANONYMOUS
    Shapes,    \* requests: [method, path, item, status, code, auth, origin, made,
               \*            body, replayed, wait, limit, cursor, file, sent, shown]
    Ring,      \* RING_SIZE
    Gap,       \* the thresholds, by name, in units
    MaxSeq, MaxNow, MaxLive \* bounds: records between two resets, units of time, open streams

ASSUME ObserverAssumption ==
    /\ Anonymous \notin Families /\ Ring \in Nat \ {0} /\ MaxSeq \in Nat /\ MaxNow \in Nat
    /\ Gap \in [{"refresh", "grace", "duplicate", "abandoned", "retry", "dedupe", "calm", "download",
                 "burst", "sse", "subscribe"} -> Nat]

VARIABLES
    requests, \* family -> FamilyLog.requests
    events,   \* family -> FamilyLog.streams
    sticky,   \* _sticky: client -> the family seen last, or Anonymous
    seq,      \* _seq
    now,      \* the monotonic clock
    live      \* history: the streams really open, <<family, kind>> -> how many

observerVars == <<requests, events, sticky, seq, now, live>>

Logged == Families \cup {Anonymous}
Kinds == {"sse", "ws"}
CloseCodes == {1000, 4408} \* of a socket: closed, by whatever, or for a missed pong

-----------------------------------------------------------------------------
\* deque(maxlen=RING_SIZE).append: a full ring drops its oldest entry.
Kept(log, record) == IF Len(log) = Ring THEN Append(Tail(log), record) ELSE Append(log, record)

Stamped(shape) ==
    [k \in {"seq", "t"} \cup DOMAIN shape |->
        CASE k = "seq" -> seq + 1 [] k = "t" -> now [] OTHER -> shape[k]]

\* _identity() and _record(), when the response has been sent: the family of
\* the token, or of the pair in the response, or the one its client was last
\* known by.
Finish(client, family, shape) ==
    LET owner == IF family # Anonymous THEN family ELSE sticky[client]
    IN /\ seq < MaxSeq
       /\ requests' = [requests EXCEPT ![owner] = Kept(@, Stamped(shape))]
       /\ sticky' = IF family # Anonymous THEN [sticky EXCEPT ![client] = family] ELSE sticky
       /\ seq' = seq + 1
       /\ UNCHANGED <<events, now, live>>

\* _stream_event()
Note(family, event) ==
    /\ seq < MaxSeq
    /\ events' = [events EXCEPT ![family] = Kept(@, Stamped(event))]
    /\ seq' = seq + 1
    /\ UNCHANGED <<requests, sticky, now>>

\* sse_opened() and ws_opened(), as sse.py and ws.py call them: once for each
\* stream; sse_closed() and ws_closed(): once for each that was opened.
Opened(family, kind, resumed) ==
    /\ live[<<family, kind>>] < MaxLive
    /\ Note(family, [kind |-> kind, what |-> "open", resumed |-> resumed, code |-> 0])
    /\ live' = [live EXCEPT ![<<family, kind>>] = @ + 1]
Closed(family, kind, code) ==
    /\ live[<<family, kind>>] > 0
    /\ Note(family, [kind |-> kind, what |-> "close", resumed |-> FALSE, code |-> code])
    /\ live' = [live EXCEPT ![<<family, kind>>] = @ - 1]

\* ws_subscribed(), ws_pong() and ws_rejected(), for a ticket used again or
\* for another reason.
Noted(family, what) ==
    /\ Note(family, [kind |-> "ws", what |-> what, resumed |-> FALSE, code |-> 0])
    /\ UNCHANGED live

\* reset(): the streams go on, their openings are forgotten.
Forget ==
    /\ requests' = [f \in Logged |-> <<>>]
    /\ events' = [f \in Logged |-> <<>>]
    /\ sticky' = [c \in Clients |-> Anonymous]
    /\ seq' = 0
    /\ UNCHANGED <<now, live>>

Age == now < MaxNow /\ now' = now + 1 /\ UNCHANGED <<requests, events, sticky, seq, live>>

ObserverInit ==
    /\ requests = [f \in Logged |-> <<>>]
    /\ events = [f \in Logged |-> <<>>]
    /\ sticky = [c \in Clients |-> Anonymous]
    /\ seq = 0 /\ now = 0
    /\ live = [k \in Families \X Kinds |-> 0]

RequestStep ==
    \E c \in Clients, f \in Logged, shape \in Shapes : Finish(c, f, shape)
StreamStep ==
    \E f \in Families :
        \/ \E resumed \in BOOLEAN : Opened(f, "sse", resumed)
        \/ Opened(f, "ws", FALSE)
        \/ Closed(f, "sse", 0)
        \/ \E code \in CloseCodes : Closed(f, "ws", code)
        \/ \E what \in {"pong", "subscribe", "rejected", "reused"} : Noted(f, what)

ObserverNext == RequestStep \/ StreamStep \/ Forget \/ Age
ObserverSpec == ObserverInit /\ [][ObserverNext]_observerVars

-----------------------------------------------------------------------------
\* open_stream_counts(), for one kind.
EventsOf(f, kind, what) ==
    {i \in DOMAIN events[f] : events[f][i].kind = kind /\ events[f][i].what = what}
Reported(f, kind) ==
    Cardinality(EventsOf(f, kind, "open")) - Cardinality(EventsOf(f, kind, "close"))

-----------------------------------------------------------------------------
\* The checks, each on the requests R or stream events E of a context.
Judge(applies, offended, failing) ==
    CASE ~applies -> "n/a"
      [] applies /\ offended -> failing
      [] OTHER -> "pass"

Has(R, method, path) == \E i \in DOMAIN R : R[i].method = method /\ R[i].path = path
HasPath(R, path) == \E i \in DOMAIN R : R[i].path = path
HasCode(R, codes) == \E i \in DOMAIN R : R[i].code \in codes
Same(a, b) == a.method = b.method /\ a.path = b.path /\ a.item = b.item /\ a.cursor = b.cursor

\* The pairs of indexes of S with none between them.
Pairwise(S) == {p \in S \X S : p[1] < p[2] /\ \A k \in S : k <= p[1] \/ k >= p[2]}

RefreshSingleFlight(R) ==
    LET S == {i \in DOMAIN R : R[i].path = "refresh"}
    IN Judge(S # {}, \E p \in Pairwise(S) : R[p[2]].t - R[p[1]].t < Gap.refresh, "fail")

RefreshReuse(R) == Judge(HasPath(R, "refresh"), HasCode(R, {"refresh_reused"}), "fail")

\* Requests behind the first logout or session_revoked, past the grace.
LogoutOnce(R) ==
    LET revoked == {i \in DOMAIN R : \/ R[i].path = "logout" /\ R[i].status = 204
                                     \/ R[i].code = "session_revoked"}
    IN Judge(revoked # {},
             \E j \in DOMAIN R : /\ R[j].auth /\ R[j].path \notin {"login", "refresh", "logout"}
                                 /\ \A i \in revoked : (\A k \in revoked : i <= k) =>
                                      R[j].t > R[i].t + Gap.grace,
             "fail")

BearerFromBrowser(R) ==
    Judge(\E i \in DOMAIN R : R[i].origin, \E i \in DOMAIN R : R[i].auth /\ R[i].origin, "fail")

Creations(R) ==
    {i \in DOMAIN R : R[i].method = "POST" /\ R[i].path = "searches" /\ R[i].status \in {200, 202}}
DuplicateJobs(R) ==
    Judge(Cardinality(Creations(R)) >= 2,
          \E i, j \in Creations(R) :
            /\ i < j /\ R[i].body = R[j].body /\ ~R[j].replayed
            /\ R[j].t - R[i].t < Gap.duplicate,
          "fail")

Made(R) == {i \in DOMAIN R : R[i].method = "POST" /\ R[i].path = "searches" /\ R[i].made # ""}
Deletes(R, id) ==
    {k \in DOMAIN R : R[k].method = "DELETE" /\ R[k].path = "searches/" /\ R[k].item = id}

\* Mutant of AbandonedSearches: a search deleted at all was not abandoned.
AbandonedUnlessDeleted(R) ==
    Judge(Made(R) # {},
          \E p \in Pairwise(Made(R)) :
            /\ now - R[p[2]].t > Gap.abandoned
            /\ Deletes(R, R[p[1]].made) = {},
          "fail")

\* A search is abandoned when, long after the next one was made, its last
\* DELETE has not come or came late.
AbandonedSearches(R) ==
    Judge(Made(R) # {},
          \E p \in Pairwise(Made(R)) :
            /\ now - R[p[2]].t > Gap.abandoned
            /\ LET D == Deletes(R, R[p[1]].made)
               IN D = {} \/ \E k \in D : /\ \A d \in D : d <= k
                                         /\ R[k].t > R[p[2]].t + Gap.abandoned,
          "fail")

SlotsExhausted(R) == Judge(Has(R, "POST", "searches"), HasCode(R, {"too_many_searches"}), "fail")

\* A route asked again before the Retry-After of its last 429 or 503, whether
\* or not that answer was out when the request was sent.
RetryAfterViolations(R) ==
    LET limited == {i \in DOMAIN R : R[i].status \in {429, 503} /\ R[i].wait > 0}
    IN Judge(limited # {},
             \E i \in limited, j \in DOMAIN R :
               /\ i < j /\ R[i].path = R[j].path /\ R[j].t < R[i].t + R[i].wait
               /\ \A k \in limited : k <= i \/ k >= j \/ R[k].path # R[i].path,
             "fail")

Retried4xx(R) ==
    LET refused == {i \in DOMAIN R : R[i].status \in 400 .. 499 \ {401, 408, 409, 425, 429}}
    IN Judge(refused # {},
             \E i \in refused, j \in DOMAIN R :
               i < j /\ Same(R[i], R[j]) /\ R[j].t - R[i].t < Gap.retry,
             "fail")

GetDedupe(R) ==
    LET gets == {i \in DOMAIN R : R[i].method = "GET"}
        Burst(i) == Cardinality({j \in gets : j >= i /\ Same(R[i], R[j])
                                                /\ R[j].t - R[i].t <= Gap.dedupe})
    IN CASE gets = {} -> "n/a"
         [] \E i \in gets : Burst(i) >= 5 -> "fail"
         [] (\E i \in gets : Burst(i) > 2) /\ \A i \in gets : Burst(i) < 5 -> "warn"
         [] OTHER -> "pass"

InvalidCursor(R) ==
    Judge(\E i \in DOMAIN R : R[i].cursor, HasCode(R, {"invalid_cursor", "cursor_sort_mismatch"}), "fail")

LimitOverMax(R) ==
    Judge(\E i \in DOMAIN R : R[i].limit # 0, \E i \in DOMAIN R : R[i].limit > 500, "warn")

\* The median of the gaps between health polls, twice it to stay with whole
\* numbers.
HealthInterval(R) ==
    LET S == {i \in DOMAIN R : R[i].path = "health"}
        gaps == SortSeq(SetToSeq({<<p[1], R[p[2]].t - R[p[1]].t>> : p \in Pairwise(S)}),
                        LAMBDA a, b : a[2] < b[2] \/ (a[2] = b[2] /\ a[1] < b[1]))
        n == Len(gaps)
        twice == gaps[(n + 1) \div 2][2] + gaps[n \div 2 + 1][2]
    IN CASE Cardinality(S) < 2 -> "n/a"
         [] Cardinality(S) >= 2 /\ twice >= 2 * Gap.calm -> "pass"
         [] Cardinality(S) >= 2 /\ twice >= Gap.calm /\ twice < 2 * Gap.calm -> "warn"
         [] OTHER -> "fail"

EstimateRate(R) == Judge(HasPath(R, "estimate"), HasCode(R, {"estimate_rate_limited"}), "fail")

IfMatch(R) ==
    Judge(\E i \in DOMAIN R : R[i].method = "PATCH", \E i \in DOMAIN R : R[i].status = 428, "fail")

\* A PATCH that sends a field as the resource was last shown.
MinimalPatch(R) ==
    LET patches == {j \in DOMAIN R : R[j].method = "PATCH" /\ R[j].sent # {}}
        Known(j) == {i \in DOMAIN R : i < j /\ R[i].path = R[j].path /\ R[i].item = R[j].item
                                           /\ R[i].shown # {}}
    IN Judge(patches # {},
             \E j \in patches : \E i \in Known(j) :
               (\A k \in Known(j) : k <= i) /\ R[j].sent \cap R[i].shown # {},
             "warn")

Bursts(R, S, span, most) ==
    \E i \in S : Cardinality({j \in S : j >= i /\ R[j].item = R[i].item
                                           /\ R[j].t - R[i].t <= span}) > most
DownloadSingleRequest(R) ==
    LET S == {i \in DOMAIN R : R[i].file} IN Judge(S # {}, Bursts(R, S, Gap.download, 2), "fail")

EnrichPerIpStorm(R) ==
    LET S == {i \in DOMAIN R : R[i].path = "enrich/ips/"}
    IN Judge(S # {},
             \E i \in S : Cardinality({j \in S : j >= i /\ R[j].t - R[i].t <= Gap.burst}) >= 5,
             "fail")

ImportChecksum(R) == Judge(Has(R, "POST", "imports"), HasCode(R, {"checksum_mismatch"}), "fail")

-----------------------------------------------------------------------------
Happened(E, kind, what) == {i \in DOMAIN E : E[i].kind = kind /\ E[i].what = what}

SseDoubleOpen(E) ==
    LET S == Happened(E, "sse", "open")
    IN Judge(S # {}, \E p \in Pairwise(S) : E[p[2]].t - E[p[1]].t < Gap.sse, "fail")

\* The share of re-opened streams that resume: 95 and 80 percent.
SseResume(E) ==
    LET opens == Happened(E, "sse", "open")
        reopens == {i \in opens : \E j \in opens : j < i}
        resumed == 100 * Cardinality({i \in reopens : E[i].resumed})
        of == Cardinality(reopens)
    IN CASE of = 0 -> "n/a"
         [] of > 0 /\ resumed >= 95 * of -> "pass"
         [] of > 0 /\ resumed >= 80 * of /\ resumed < 95 * of -> "warn"
         [] OTHER -> "fail"

\* Opened too soon after the last close that is not younger.
SseReconnectBackoff(E) ==
    LET closes == Happened(E, "sse", "close")
    IN Judge(closes # {},
             \E i \in Happened(E, "sse", "open") : \E c \in closes :
               /\ E[c].t <= E[i].t /\ E[i].t - E[c].t < Gap.sse
               /\ \A d \in closes : E[d].t <= E[i].t => d <= c,
             "fail")

WsPongOk(E) ==
    Judge(Happened(E, "ws", "open") # {},
          \E i \in Happened(E, "ws", "close") : E[i].code = 4408, "fail")

WsTicketReuse(E) ==
    LET reused == Happened(E, "ws", "reused")
    IN Judge(Happened(E, "ws", "open") \cup Happened(E, "ws", "rejected") \cup reused # {},
             reused # {}, "fail")

WsResubscribe(E) ==
    Judge(Happened(E, "ws", "open") # {},
          \E i \in Happened(E, "ws", "open") :
            ~\E s \in Happened(E, "ws", "subscribe") : E[s].t - E[i].t \in 0 .. Gap.subscribe,
          "fail")

-----------------------------------------------------------------------------
\* _context(): everything, or what is not older than a number of seconds.
Context(log, since) == IF since < 0 THEN log ELSE SelectSeq(log, LAMBDA r : r.t >= now - since)

\* evaluate_family(): first the checks that only get worse, then the three
\* that follow a ratio, a median or what is yet to come.
Grave(f, since) ==
    LET R == Context(requests[f], since)
        E == Context(events[f], since)
    IN <<RefreshSingleFlight(R), RefreshReuse(R), LogoutOnce(R), BearerFromBrowser(R),
         DuplicateJobs(R), AbandonedSearches(R), SlotsExhausted(R), RetryAfterViolations(R),
         Retried4xx(R), GetDedupe(R), InvalidCursor(R), LimitOverMax(R), EstimateRate(R),
         IfMatch(R), MinimalPatch(R), DownloadSingleRequest(R), EnrichPerIpStorm(R),
         ImportChecksum(R), SseDoubleOpen(E), SseReconnectBackoff(E), WsPongOk(E),
         WsTicketReuse(E)>>
Passing(f, since) ==
    <<HealthInterval(Context(requests[f], since)), SseResume(Context(events[f], since)),
      WsResubscribe(Context(events[f], since))>>

Statuses == {"n/a", "pass", "warn", "fail"}
NotBetter(before, after) ==
    \A i \in DOMAIN before :
        /\ before[i] = "fail" => after[i] = "fail"
        /\ before[i] = "warn" => after[i] \in {"warn", "fail"}
        /\ before[i] = "pass" => after[i] # "n/a"

\* Types, and the counts of GET /__admin/state: what is reported as open is
\* never more than what is, whatever the rings have dropped and resets have
\* forgotten.  It may be less: a stream that was open at a reset still closes,
\* and the close counts against the next one.
ObserverTypeOK ==
    /\ seq \in 0 .. MaxSeq /\ now \in 0 .. MaxNow /\ sticky \in [Clients -> Logged]
    /\ \A f \in Logged :
         /\ Len(requests[f]) <= Ring /\ Len(events[f]) <= Ring
         /\ \A i \in DOMAIN requests[f] : requests[f][i].t <= now
         /\ \A i \in 1 .. Len(requests[f]) - 1 : requests[f][i].seq < requests[f][i + 1].seq
    /\ \A f \in Families, kind \in Kinds : Reported(f, kind) <= live[<<f, kind>>]
    /\ \A f \in Logged : ToSet(Passing(f, -1)) \subseteq Statuses

\* What a client has done wrong stays on its report: as long as its ring drops
\* nothing and nobody resets, no verdict but the three of Passing improves,
\* whatever the client does next and however time passes.
VerdictsStick ==
    [][\A f \in Logged :
         /\ IsPrefix(requests[f], requests'[f]) /\ IsPrefix(events[f], events'[f])
         => NotBetter(Grave(f, -1), Grave(f, -1)')]_observerVars
=============================================================================
