# A TLA+ verification of the capture interface

This directory models the stateful core of the repository: the capture API
(`src/backend/src/capture_api`, FastAPI on one asyncio loop) and the front end that
fronts it (`src/frontend`, a Next.js server that keeps the API's tokens in a session
cookie, and its React pages). It holds TLA+ modules, TLC configurations that check
them on small instances, and proofs for TLAPS.

    tlc -workers 2 -config MCTokenStore.cfg MCTokenStore   # a run of PROJECT.json
    tlapm TokenStoreProofs.tla                             # a proof module

`PROJECT.json` lists components, runs, hazards, theorems and findings, and maps every
definition to the lines it translates.

## 1. The system

### Components, their state and their operations

| Component | State | Operations | Module |
|---|---|---|---|
| Token store (`platform/tokens.py`) | families, access and refresh tokens, revocation callbacks, a family counter | login, refresh, logout, expire, revoke, reset, sweep (inside login), subscribe to a revocation | `TokenStore` |
| Front-end session (`lib/backend.ts`, `lib/session.ts`, `api/auth/login/route.ts`) | the cookie of each browser, one promise per refresh token being used | proxied call with refresh before it and after a 401, sign-in | `BffSession` |
| Search service (`search/jobs.py`, `search/cursors.py`, `api/searches.py`) | searches held, searches remembered as expired, one scan task per search | create, read, page, cancel, reap, reset; the scan | `SearchService`, `ResultsPager` |
| Idempotency store (`platform/idempotency.py`) | a record per session, scope and key | lookup, remember, purge by age | in `SearchService`, `Exports`, `ImportQueue` |
| Rate limiter (`platform/ratelimit.py`) | sliding windows of hits, a bounded number of keys | check, prune | `Limits`; bucket `search_create` in `SearchService` |
| Login limit (`platform/login_limit.py`, `api/auth.py`) | failures per normalised address | check, record, clear | `Limits` |
| Detection feed (`realtime/bus.py`, `realtime/sse.py`) | cursor and ring, subscriptions with bounded queues, revocation callbacks per family | refresh, subscribe, resume, live loop, release, revocation, reset | `DetectionFeed`, `OrderedFeed` |
| Detections API (`api/detections.py`) | none | stream, list | `DetectionFeed`, `DetectionPoller` |
| Pollers of the results page (`components/search-results/hooks`) | the query cache: pages and status | fetch page, refetch last page, poll status, cancel, choose an order | `ResultsPager` |
| Live socket (`realtime/ws.py`, `api/live.py`) | tickets; per socket a bounded queue, a subscription with a cursor per sensor, a ping and its deadline | issue, redeem, accept, tick, send, receive, close, shutdown | `LiveSocket` |
| Cases and teammate bot (`workspace/cases.py`, `workspace/bot.py`) | versioned cases, an edit schedule | create, patch under If-Match, pin, note, list by pages; the bot's tick | `Cases` |
| Hunts (`workspace/hunts.py`) | versioned hunts, one owner each | create, patch, delete, touch | `Hunts` |
| Exports (`workspace/exports.py`) | export jobs | ask, tick, read, expire | `Exports` |
| Imports (`workspace/imports.py`, `api/imports.py`) | import records, an indexing queue, the scanner of one upload | upload in pieces, accept, index, register as a sensor | `UploadScan`, `ImportQueue` |
| World, ledger, capture clock (`world/world.py`, `detections.py`, `clock.py`) | the clock, imports that became sensors, detections numbered so far | rows up to now, number the next hours, advance | `World` |
| Generated traffic (`world/background.py`, `incident.py`, `ids.py`) | blocks of rows and a beacon schedule, made when first asked for | ask for a block, look at a fact | `RowBlocks`, `Incident` |
| Packets and flows (`world/pcap.py`, `world/flows.py`) | none | the packet file and the samples of a row | `PacketFlow`, `FlowSamples` |
| Query language (`search/lql.py`, `grammar.py`, `compile.py`) | none | parse, print, validate, evaluate | `FilterAlgebra` |
| Analytics and estimates (`search/analytics.py`, `search/estimate.py`) | none | histogram, pivot, graph, estimate | `Charts` |
| Sessions API (`api/sessions.py`, `api/enrich.py`) | none | read, related sessions by pages, downloads | `SessionPages`, `Limits` |
| Chaos controller (`platform/chaos.py`) | active profile, a counter per caller and path | profile, fault or answer, access lifetime | `Limits`; its effects in `TokenStore`, `SearchService` |
| Observer (`platform/observer.py`, `api/observer.py`) | rings of requests and stream events, sticky identities | record, open and close a stream, report | `Observer` |
| Admin API (`api/admin.py`) | none | expire, revoke, touch, configure, reset | as actions of the components reached |
| Decoding, tables, metadata, health, domain models, settings, rendering | none | pure functions | not modelled |

### How they interact

A browser request reaches the front end's server with a cookie. The server refreshes
the token pair in it if need be (one call to `POST /v1/auth/refresh` shared by all
requests that hold the same refresh token), makes the proxied call, and its response
may carry a new cookie. The API's handlers authenticate against the token store. The
token store calls back into the detection bus and the live sockets when a family of tokens is
revoked. Searches run as tasks on the API's loop, between its handlers; a reaper task
discards the idle ones. Detections are pulled from the world by whoever asks first (a
handler, a stream, the pump task) and pushed to the queues of the streams. An
administrator can expire, revoke and reset at any time; a reset clears every service
but lets time go on. Rows and detections come from the world, which is a function of a seed
and of the capture clock; the live tap, the feed, the charts, the lists and the exports
all read it, each at its own moment. Imports add sensors to it.

### What is hard in it

* **Overlap in the front end.** Requests of one browser overlap, each holding its own
  copy of the cookie, their responses come back in any order, and the outcome of a
  refresh is shared for a grace period only. A refresh token presented twice costs the
  user the session: the API gives no grace of its own.
* **Faults.** Answers get lost after the API has acted; the front-end server restarts
  and forgets its promises; chaos answers 503 before or after the commit.
* **Ids that repeat.** Family ids are derived from a counter that a reset sets to 0.
* **State read before an await and used after it.** A stream is authorised before it
  subscribes, reads the head of the feed before it subscribes, replays from a ring that
  moves; a scan sleeps between chunks while its search is cancelled or reaped.
* **Documents with several authors.** Cases and hunts are edited by users, by other tabs,
  by a bot that catches up after a long pause, and by the administrator; what a user holds
  is an old copy with a version.
* **Three tasks, one queue.** A live socket's producer, sender and receiver share a
  bounded queue; frames are dropped, dropped ones must be accounted for, and the socket may
  be closed from outside at any of its awaits.
* **Made when asked for.** Blocks, beacons, detections and imports are computed by
  whoever asks first; the result must not depend on who that was.
* **Paging through what moves.** Cases, results and related sessions are read page by
  page while rows arrive.
* **Limits.** Slots per user, a memory of 512 expired searches, rings and queues of
  1000, lifetimes compared with `<` or `<=`.

The list with lines is under "hazards" in `PROJECT.json`, each with the properties about
it or a note.

### What makes each component correct

* Token store: a refresh token buys one pair; only the last one handed out can; the
  dictionaries agree; a revocation reaches every watcher; a refused access token stays
  refused; the sweep takes only the dead.
* Front-end session: it never gets itself revoked; the cookie is never older than the
  last rotation; what it trusts without asking is good; it gives up a session only
  when nothing can bring it back; every request is answered.
* Search service: no twin under one key; a replay hands out a search that exists;
  what a user is told only advances; no scan for a search that is gone; scans end; idle
  searches give their slots back.
* Detection feed: in order, once, without gaps except the announced and the bounded;
  a revocation closes the streams; closed streams end.
* Live socket: one socket per ticket; a revocation reaches also a handshake under way;
  each row once; losses accounted for; a silent peer ends.
* Cases, hunts, bot: what is overwritten was seen by its author; the bot is paced; turning
  pages misses nothing.
* Exports, imports: what was promised at acceptance is what becomes of the job; how an
  upload is cut does not matter.
* World, blocks, ledger: the same answer for everybody; what is announced is visible.
* Packets, samples, charts: they add up to the rows they show.
* Limiters: no caller gets more than the limit in any window, pruned or not, and a
  Retry-After is long enough.
* Filters: printing and reading back selects the same rows.
* Observer: what a client did wrong stays on its report while its ring drops nothing.

## 2. Modules and how they correspond to the code

One action stands for one handler, one method called by handlers, or one stretch of a
coroutine between two awaits. The asyncio loop, and the JavaScript event loop, run such
a stretch without interruption, so this granularity loses no interleaving.

* **`TokenStore`** is the class `TokenStore`, one action per method and, for
  `refresh()`, one per outcome. The access and the refresh token minted together share
  a serial number that is never used twice, as the code draws both at random. Family ids
  come from `counter`, which `Reset` sets to 0, so they do repeat. A callback is
  represented by who registered it (`watch`, `callbacks`); running it is `Tell`.
  `parent` is a history variable: which refresh token bought each pair.
* **`BffSession`** extends `TokenStore` (whose actions it performs when the API is
  called). `jar` is the browser's cookie, `req` what each open request still has to do
  and its copy of the session, `flights` the map `inflightRefreshes`. A flight is
  `sent`, `answered` by the API, then `settled`; settling it resumes every request that
  awaits it, because promise continuations run before any other event. `Lossy` and
  `AdminExpires` switch on the faults.
* **`SearchService`** is the class of that name with its route, the idempotency records
  and the limiter, in the order in which the route consults them. A `SearchJob` outlives
  its entry in `_jobs` as long as its task has not ended (`job` against `held`): a
  cancelled task still gets its `CancelledError` delivered later. Rows, filters and
  statistics are reduced to how many rows have been scanned, which decides where the
  scan sleeps, fails and ends. `_expired` is a dict whose order decides what is forgotten:
  the model keeps with each search when it was let go of, and one sweep inserts in the
  order of `_jobs`, which is that of the numbers.
* **`OrderedFeed`** is what the feed promises a reader, with no bus, ring or queue in it.
* **`DetectionFeed`** is the bus and the generator `events()` of each stream, cut at its
  yields and awaits: `Subscribe`, `Resume`, `Replay`, `Check`, `Take`, `Leave`. Clients
  reconnect with the number they have reached. The token store appears as the set of
  live families and the set it holds the bus's callback for. Family ids are handed out in order,
  and again after a reset, as `_next_family_id` does; `lapsed` are the streams whose own token
  went in a reset, although their family's id may be alive again. `haunted` is a history variable:
  the ids handed out while a stream of an earlier login with that id was connected. It implements
  `OrderedFeed` (`FeedKept`): `seen`, `got` and `lost` of the model are those of the
  abstract specification.
* **`World`** is the data below everything: `clock` the capture clock, `imports` the
  imports that became sensors, `ledger` the detections numbered so far. The rows of the
  built-in sensors, a function of the seed in the code, are the constant `Rows`.
* **`LiveSocket`** extends `World`. A socket is a record: its phase (`pc`), queue, the
  frame being sent (`out`), subscription, counters and deadlines. A subscription's cursor is
  a pair of a moment and a row id, `IdLimit` standing for the `1 << 63` that is above every
  id; what a round releases is the set of rows beyond the cursor, which then moves to the
  last of them. The three tasks are
  `Tick` (one round of the producer: the operators `TickSessions`, `TickPeriodic`,
  `TickPing`, `TickRestart` in the order of `_produce_loop`), `Pop`/`Deliver` (the sender,
  which awaits while a frame is out) and `ClientFrame` (the receiver). `Redeem` is `serve`
  up to its first await and `Accept` what follows it, so that revocations and resets fall
  in between. `client` is what the other side has seen; the properties compare the two.
* **`Cases`** and **`Hunts`** are the stores with their routes. `held` and `tabs` are what
  users hold: a document as they once read it, with its version as the tag for If-Match.
  A 412 hands them the current one. `reader` turns the pages of the list of cases. The bot
  edits by the closed form of its loop (`BotEdited`). An If-Match may be several tags or `*`, as
  `matches_etag` takes it; whoever sends it need not have read the document. A reset clears the
  store of hunts and starts ids again; it closes no tab. `stale` are the tabs that have read
  nothing since.
* **`Exports`** extends `Cases`: an export names a case by its number and packs it when it
  finishes. **`ImportQueue`** extends `World`: accepted files wait, `Walked` is one pass of
  `tick`. **`UploadScan`** is the collector and scanner of one upload, fed in pieces of
  any size. **`DetectionPoller`** is `GET /detections` and a client that follows it.
* **`Limits`** is the limiter, the login limit, the permissions of a download and the
  chaos draw in the order the routes consult them. `Passed` is the loop that takes times
  off the front of a deque: it stops at the first that is still in the window. **`Observer`** records requests and
  stream events and evaluates the checks of the report from them.
* **`ResultsPager`** is a scan, `results()` with its cursors, and the pages and state the
  browser keeps: `refetchLastPage` writes beside the query's own fetch.
* **`Charts`**, **`SessionPages`** extend `World` with the answers computed from the rows
  visible at a moment, and with the clock that moves between two of them.
* **`Incident`**, **`RowBlocks`**: beacons, stages, herrings and background rows, made by
  whatever is asked first; draws from the seed are constants. **`PacketFlow`** and
  **`FlowSamples`** build the packets and the samples of one row; payloads are sizes.
* **`Services`** puts side by side what `main.py` starts side by side: the services, each a
  `part` of one specification. The part is chosen at the beginning and only its variables
  move, as they share nothing but the clock of the world. Each is a specification of its own
  (`CasesSpec`, `HuntsSpec`, ...), of which most theorems speak; `PartsAlone` says that the whole
  implements that of the part that moves.
* **`FilterAlgebra`** has lexer, parser, printer and meaning of filters. A text is a
  sequence of marks and words, built up chunk by chunk by its actions, so that whatever the
  chunks can spell is parsed. It uses RECURSIVE operators and no theorem is about it.
* **`TokenStoreProofs`**, **`BffSessionProofs`**, **`SearchServiceProofs`**,
  **`OrderedFeedProofs`**, **`DetectionFeedProofs`**, **`WorkspaceProofs`** (cases, hunts,
  exports, imports), **`ServicesProofs`** (limits, related sessions, observer, results, all services together),
  **`LiveSocketProofs`**
  hold theorems and proofs.
* **`MC...`** modules give the constants their small values. Definitions whose comment
  says *mutant* are plausible bugs of the definition that follows them; `PROJECT.json`
  pairs each with a property it breaks. No specification uses them.

## 3. Runs

| Run | Configuration | Question |
|---|---|---|
| `token_store` | `MCTokenStore.cfg` | safety of the token store with sweep, resets and two access lifetimes |
| `bff_session` | `MCBffSession.cfg` | safety of the front-end session with overlapping requests, no faults |
| `bff_faults` | `MCBffFaults.cfg` | the same component with lost answers, restarts and expired tokens; every request is answered |
| `bff_expiring` | `MCBffExpiring.cfg` | **violated**: `NoSelfReuse` with the access lifetime of the expiring-tokens profile |
| `searches` | `MCSearchService.cfg` | searches, retries, reaper and scans: safety; scans end, idle searches are dropped |
| `feed` | `MCDetectionFeed.cfg` | the feed implements `OrderedFeed`; closed streams end |
| `feed_revocation` | `MCFeedRevocation.cfg` | revocations against three clients coming and going |
| `feed_outlives` | `MCFeedOutlives.cfg` | **violated**: `NoStreamOutlives`, the route's sentence about revoked families |
| `feed_reset` | `MCFeedReset.cfg` | **violated**: `RevocationSparesNone`, the same sentence where a family id is used again after a reset |
| `live` | `MCLiveSocket.cfg` | safety of the live tap: tickets, revocation, rows, losses, watched searches, heartbeat |
| `services` | `MCServices.cfg` | the services that share no more than the clock, one `part` after another |
| `list_poller` | `MCListPoller.cfg` | **violated**: `PollerMissesNothing`, the cursor the polled list recommends |

`MCServices` extends `Services` and adds the filters to it (`FilterAlgebra`) as one part more, and the
bounds of each part (`Bounded`). What it checks, by part:

| Part | Properties |
|---|---|
| cases and the bot | `NoLostUpdate`: what a user with the current version holds; `BotPaced`: what the bot catches up |
| hunts | `EditsAreInformed`: what an edit under the version a tab shows may rewrite; in `ServicesTypeOK`, `TabsAreTrue`: what a tab with the current version shows |
| exports | `ReplaysAreServed`: a retry finds its export |
| imports | `PromisedSensor`: the sensor named in the answer |
| results, lists | `RowsArePrefix`, `PagesMissNothing`, `RelatedOnce`: pages that are fetched while the list grows or changes |
| limits | `WindowHolds`: never more than the limit in a window, and Retry-After is long enough |
| observer | `VerdictsStick`: what a client has done wrong stays on its report |
| world | `WorldHolds`: blocks, ledger and visibility, whoever asks first; packets, samples, charts and uploads add up |
| filters | in `WorldHolds`, `FiltersRoundTrip`: a filter that is printed and read again selects the same |

Deadlock checking is off in every run: the clock and the counters are bounded, and a
system nobody calls may rest.

### Bounds and why they are enough

* `token_store`: one account, since a logout revokes one family and spares the other as
  the revocation of an account would; two families between two resets, three pairs, time 0 to 4. A family is
  swept when older than `RefreshMax + ttl`; 4 is past that for the shorter lifetime (a
  family of age 4 against 2 + 1), so a login sweeps, the lifetime changes in between,
  and a family id is used by two sessions. Reuse needs a rotation and a second
  presentation: two pairs; the third lets another family or a second rotation in.
* `bff_session`: two requests overlap; a third in flight would share the same promise.
  `MaxCall = 1` bounds how long a request stays open. The access lifetime is 5, the
  margin 2 and the grace 3, so both a pair's trusted time (5 - 2) and the memory of an
  outcome are longer than two overlapping requests. Time 8 outlives a pair that was itself
  bought by a refresh. **The conditions matter**, and are the premise `Unhurried` of the
  theorems (section 4). Lifetime: the default (90 s against a margin of 10 s) leaves 40 s
  for a request, the expiring-tokens profile (15 s) 2.5 s; run `bff_expiring`, one tick
  being 2.5 s, shows what happens there.
* `bff_faults`: one session and two pairs: enough for an answer lost, the spent token
  presented again and the family revoked; the refresh limit is short so that too late a
  refresh happens too.
* `searches`: one session and key with two bodies, two searches against two slots, two
  creations per window, one expired search remembered, so that the second evicts the
  first. Times go one past the lifetimes. `RecordTtl = IdleTtl`, as in the code (600 s
  both); `ReplayIsFresh` depends on `RecordTtl <= IdleTtl`, which is an assumption of
  the module. A scan is a window of three rows in
  chunks of two: a whole chunk, a short one, and a failure inside a chunk.
* `feed`: a ring and a queue of two over five detections, one of which the client may
  not read: resume points too old for the ring, replays that overlap the queue, and
  overflows all occur. One client is enough for what a client receives, since clients
  share only the bus's cursor, which `Pump` already moves at any time.
* `feed_revocation`: three clients over two families, so that a stream is neither the
  first nor the last of its family; nothing is released beyond one detection, because
  the property does not depend on what is received. Resets hand both ids out again.
* `feed_outlives`, `feed_reset`: two streams and no detections, and for the latter one family id.
* `live`: two parts (`part` of `MCLiveSocket`). In `tap` one client makes what it can of one ticket:
  what a socket sends depends on no other. One sensor is up to date and one lags by a unit, two
  rows share an instant; the queue holds two frames, so that frames are dropped and
  reported; with heartbeat and pong deadline of one, three units of time let a silent peer
  run out. In `tickets` two clients contend for three tickets, of a lifetime that ends within the
  run, so that one is used, one expires, and the issue of the next sweeps both, while a socket is
  open with one; one family id, which a reset hands out again. Sockets there only open, tick and
  close: no rows are subscribed to and no frames delivered.
* `services`: the bounds of a part that go beyond its constants are in `Bounded` of `MCServices.tla`.
  - `cases`, `titles`: two seeded cases, of which the bot edits one; versions to 3 for
    edits against edits; a third case for titles that fold or strip to one another. Pages of
    one case, so that a list takes three. `exports`: time to expire and a reset.
  - `hunts`: three tabs, two of one account; two ids, the first with three versions when it is the
    hunt of that account (of others, one version): patch against
    patch, touch, delete, create again, reset with tabs left open. An If-Match is left out, `*`,
    one version, right or wrong, or a list of two.
  - `imports`: three files, one longer to index than the next and one with time stamps
    outside the window; `uploads`: bodies in either order of parts, whole and truncated,
    every cut into pieces of up to 11 bytes against headers of 5.
  - `limits`, `logins`: a window wider than a second and one as wide, one key tracked, so
    that every other key is pruned; an address in capitals; a clock that is skewed.
    Three requests of the analyst, so that the third download is refused, two of the observer.
  - `requests`, `streams`: rings of three requests, shapes of all the kinds the checks read.
  - `pager`: three rows of which two share an instant, pages of two, scan chunks of one.
  - `filters`: up to four chunks, one field of each type; what does not parse is left
    alone.
  - `blocks`: two seeds in two rhythms, five blocks asked for in any order; `packets`: every
    protocol, a file of 40 packets, sequence numbers modulo 4096 with an origin close to the
    wrap; `samples`: every kind of traffic.
  - `poller`, `charts`, `related`: the rows of `MCRows`, of two sensors, around every edge of
    windows and buckets; imports join while a window is open.

Symmetry (requests, clients) is used only in runs that check no liveness, and
`RevocationCloses` is symmetric in the clients.

### Fairness

* `BffFairness`: the API answers a call or the connection fails, an answer that has
  arrived settles its promise, and a response that is ready is delivered or its browser
  is gone. Every one of these is a step of an event loop that is never blocked for good.
  Nothing obliges users, administrators or the clock.
* `SearchFairness`: the asyncio loop eventually runs each ready task, and the reaper is
  one of them (`run_reaper` sleeps 30 s, then sweeps, for as long as the app lives).
  `SearchesEnd`, as far as idle searches are dropped, rests on the reaper alone: no other call is assumed.
* `LiveSpec` and the parts of `services` state no fairness and check no liveness. What they
  assume of the scheduling is in a guard: in `LiveSocket`, time advances only when every
  running producer had its round (it sleeps a twentieth of the unit, and nothing blocks the
  loop for long), and `SilentPeerEnds` rests on that.
* `DetectionSpec`: the loop runs each stream and its client reads. A client that stops
  reading is the case `lost` describes for what it receives; for `ClosedStreamsEnd` such
  a client would block its generator at a yield, until the connection is dropped, which
  is the action `End`.

## 4. What is proved

Eight modules hold proofs; each is about one specification (`WorkspaceProofs` about four, `ServicesProofs` about six and the composition of all services), for
all values of its constants that the module's `...Assumption` allows (types, positive
lifetimes; for searches also `RecordTtl <= IdleTtl`, for the limiter `IdleAge >= Span`; for sessions finitely many rows with
ids of their own, for results finitely many rows, and that no foreign cursor carries this server's signature).
For cases a change has only the fields of `CasePatch` (`Patched`), whose values pydantic has checked;
seeded titles fold differently, which the templates of `cases.py` do. For cases and hunts, folding
(`casefold`) does not hide a blank: a string that folds like one without blanks around it has none either.
For the limits, lifetimes are not negative, and the codes of a file that is missing
(`file_purged`, `trap`, ...) are none of those of a refused caller.
Nothing else is assumed, but for the three theorems that name a premise, `Unhurried`, and
`UploadsAreWhole`, whose premise is a body with at most one file.

### The token store

`TokenStoreProofs` (for any number of families, tokens, accounts and watchers, any
lifetimes and limits):

* `TypeCorrect` (`StoreTypeOK`), `RefreshIsSingleUse` (`OneChain`),
  `RevocationReachesWatchers` (`WatchersAreTold`): the invariants of run `token_store`;
* `AccessOnlyFalls`, `SweepDropsOnlyDead`: its two action properties.

The inductive invariant is `StoreInv`: `TypeOK`, `NoOrphans`, the chain (`Chain`, which
contains `OneOpenToken`) and `WatchersAreTold`. `SingleUse` is not inductive as it
stands: that no two pairs have one parent says nothing about whether that parent could
be used again. What makes it so is `ParentsAreSpent`: every refresh token that has
bought a pair is consumed or gone from the dictionary, and serials beyond the last
minted have no parent. `OneOpenToken` in turn needs `NoOrphans`, which says that a
family's tokens are all on record with that very family: without it, a family id handed
out again after a reset could inherit an open token. The `...Effect` lemmas state once
what login, rotation and revocation do to each record; the `Step...` lemmas go through
the actions with them. The action properties follow from the invariant by
`Weakened`: what any step may do to an access record at most.

### The front-end session

`BffSessionProofs`, first without any premise, faults included: `DestructionIsFinal`
(`DestroyIsFinal` of run `bff_faults`), `SessionTypes`, and `StoreHoldsUnderSessions`. The
last is the composition: every step of the front end is a step of the token store or leaves
it alone (`StoreStep`), so `StoreInv` holds under it and its lemmas serve here. A session is
*over* when no refresh token of its family rotates. `RefusalIsFinal`: a refused refresh
leaves its session over, whichever of the refusals it was. `OverOnlyGrows`: what is over
stays over, because only a rotation adds a token to a family and only an open token rotates
(`StepFades`), and because a reset hands out family ids anew but never serials. The
invariant (`BffInv`) then says that a fatal verdict, in a flight or in a request about to
empty the cookie, is about a session that is over; the requests that join a flight later, or
pick up its outcome once it has settled, inherit the verdict (`JoinSound`, `SettleSound`).

Then under the premise `Unhurried`: no answer is lost, no administrator expires tokens, and
twice the longest request is at most the margin, less than the grace, and less than what
a lifetime leaves beyond the margin. The theorems are `NeverReusesItself` (`NoSelfReuse`),
`JarIsNeverStale` (`CookieNotStale`) and `TrustIsWarranted` (`TrustedIsFresh`), the three
invariants of run `bff_session` that are more than types; the run's constants satisfy the
premise. `NoSelfReuse` says nothing of when tokens are presented, so its invariant,
`TimedInv`, is about moments: `MintedAt` is when a pair was minted, `born` when a request
began.

* A pair is spent only when more than two requests' time has passed since it was minted
  (`PairsTimed`). A request that brings a new pair to the cookie was open within one
  request's time of the minting (`RequestsTimed`). So a request that is bringing a pair is
  gone before that pair is spent: a late response never carries a spent pair.
* A flight in the air has a request waiting for it, and its token is still unspent until
  the API has served it (`FlightsTimed`).
* A spent token that the cookie or a request still has is accounted for (`SpentAccounted`):
  its flight is on the board, so that whoever presents it joins that flight instead; and
  once the flight has settled, only requests from before hold it, one of which will
  replace it in the cookie. When the flight is forgotten, after the grace, they are all
  gone.

Each part of the premise is needed somewhere. Without the one on lifetimes `NoSelfReuse`
fails (run `bff_expiring`). Without the one on the grace it fails, too, even with the
default lifetime (TLC, with lifetime 18, margin 2, grace 1 and one sign-in): the new pair
reaches the browser with the response, after the proxied call, and if that call takes
longer than the 5 s for which the outcome of the refresh is remembered, a request begun
meanwhile brings the spent token and finds no promise for it. The API's own latency stays
below that (`platform/chaos.py:59-107`). Without the one on the margin TLC finds a trusted pair that has expired (`MCBffSession` with
lifetime 3 and margin 0); lost answers make `NoSelfReuse` false at once. For grace and
margin twice the longest request is what the proof uses; on small instances TLC finds no
violation with a margin of one request and a grace just above one. The constants of the code are a margin of 10 s and a grace of 5 s, so
what is proved of it holds for requests shorter than 2.5 s.

### Searches

`SearchServiceProofs`: all five safety properties of run `searches`.

* `RetriesStartNoTwin`, `ReplaysAreFresh`, `NoScanStrays`. `SearchInv` adds to `NoTwin` what
  makes it inductive: ids are handed out in order (`JobsNumbered`); a search that is no
  longer held has ended or has its cancellation on the way (`LettingGo`); a record names a
  search that was created with it, under its key (`RecordsNamed`); and the heart of it,
  `KeysKept`: a search held under a key is the one the key's record names, or was created a
  record's lifetime ago. The record is what keeps a retry from starting a twin, so when it
  goes, the search must be that old: `KeysKept` is where an eviction out of order would show.
  `ReplayIsFresh` then needs `RecordTtl <= IdleTtl`, and only it does.
* `SearchTyped` and `AnswersAdvance` (an action property: what an owner is told of a search
  only advances). `AnswersInv` adds the shapes of objects, records and limiter windows
  and, for the memory of expired searches, which of them are in it (`ExpiredShaped`). That
  a search once answered 404 is never answered 410 needs that the dict forgets from its old
  end: what a sweep finds now is newer than anything remembered, unless it was remembered
  in this very moment, and then in the order of numbers (`OldestForgotten`). Every handler
  sweeps first, so what a step does is compared with the state after a sweep (`NoneRevived`,
  `StatesAdvance`), and the sweep itself is a lemma (`Sweeping`).

### The detection feed

`OrderedFeedProofs`: `FeedIsOrdered`, no detection reaches a reader of the abstract feed
twice or after a later one.

`DetectionFeedProofs`:

* `FeedIsKept`: the bus, its ring and queues, the replay and the live loop **implement**
  `OrderedFeed`, the property `FeedKept` of run `feed`, for any number of streams and
  detections, any sizes of ring and queue. `FeedInv` says of each stream at each place of
  `events()` where its client is (`Place`), what its replay still holds (`Pending`) and what
  its queue holds: everything its client wants beyond what the stream has dealt with, up to
  where the bus has pulled, in order, but for what was pushed out and is in `lost`
  (`Backlog`). Every action then maps to a step of `OrderedFeed` or a stutter. That the
  replay is complete rests on `AscendingOrders`: the numbers of a set listed by their rank
  are all there, once and in order, which is the pigeonhole principle and not an induction.
* `FeedNeverRepeats`: `FeedIsOrdered` carried over by that refinement; no client of the real
  feed gets a detection twice or late, over all its connections.
* `DetectionTyped`: `DetectionTypeOK` of run `feed_revocation`.
* `RevocationClosesStreams` (`RevocationCloses` of the same run). `CallbacksInv` is where the
  bus and the token store agree: of a live family for which the bus holds an unsubscribe,
  the store holds the callback, unless the family is haunted; no subscription is without its
  unsubscribe, and no unsubscribe is held but for a stream still connected (`Held`). So an id that
  nobody is connected with comes back from a reset without an entry in `_unsubscribe`, and the
  next stream registers. It says nothing of families no longer alive, and there lies finding 2,
  nor of haunted ones, and there lies finding 3.

### The live tap

`LiveSocketProofs`: all seven properties of run `live`.

* `RevocationReachesSockets` and that no two sockets share a ticket: `LiveInv`, in which the ticket of every
  socket is used or forgotten. A round of a socket's
  producers is a composition of many pieces (`Send` and what calls it); `Steady` says of
  each that it keeps the socket's ticket, family and close code, so that the rounds, the
  largest actions of the module, disturb none of it.
* `TicketsOpenOneSocket` has two halves. `TicketsAreNotShared` is `LiveInv`. For `RefusedStayRefused`
  (`RefusedForGood`): a ticket is redeemed only when it is stored, unused, in
  time and of a live family (`Good`). None of that comes back by itself (`TicketStepKeeps`):
  numbers of tickets are not used twice, and a family that becomes alive was not opened since the
  last reset, while every ticket stored is of one that was (`Dated`).
* `LiveTyped`, `RowsComeOnce`, `AccountsAreKept`, `WatchersAreTold`, `SilentPeersEnd`:
  `TapInv`, which says the following of every socket and its client. `Shape`: types.
  `Balance`: numbers given out are received, told lost, on the way or counted as dropped;
  what is on the way is worth `WorthOf`, a sum over the queue. `Knows`: the progress
  remembered is the last among what is on the way, or what the client has. `Beats`: the
  ping is due within a heartbeat of the last answer or its deadline runs. `Followed`: the
  rows a subscription has shown are those between where it began and its cursor, per
  sensor. Again one lemma per piece of a round carries them through. `WorthOf` and `LastTold`
  run over the queue; what is needed of them is how they change when a frame is appended
  or taken, which is obtained for every length from the least counterexample (`LeastOf`: a
  set of numbers has a least one).

### The workspace

`WorkspaceProofs`: `UpdatesAreSeen` (`NoLostUpdate` of run `services`) from `CasesInv`:
versions start at one, and what a user holds is the stored case or is of a lower version
(`HeldBehind`). `BotIsPaced` (`BotPaced`): however long the case was not polled, one tick makes at most
`MaxCatchUp` edits and leaves nothing due. `VersionsTell` (`TabsAreTrue`, in `ServicesTypeOK` of the run) and from it `HuntEditsAreInformed` (`EditsAreInformed`):
an edit under the version a tab shows changes a hunt's name or query only if the tab shows it as
stored. Other tabs may send any If-Match, `*` included, and overwrite what they have not seen, but
not without a new version. Both are about tabs that have read something since the last reset. `CasesTyped`, `HuntsTyped`: cases are numbered without gaps,
versions and fields stay what they should be, and no title or name is taken twice, in whatever
letters. The latter is an invariant only because both uniqueness checks leave out the document they rewrite
and nothing else (`TitlesStay`, `OneHuntTyped`); as the code strips the new one only, it is promised
of titles without blanks around them. `HuntsInv` adds that a tab only shows
hunts that were stored under an id already handed out (`TabsOpened`): ids are not used twice
between resets.

`PagesShowAll` (`PagesMissNothing`): the cursor of the list of cases is an offset, and the list is
computed anew for every page. `PagesInv` says of a reader that whatever was there when it began and
has its place before the reader's offset has been shown to it (`ReaderShown`). A place is how many cases are
newer (`PositionsDiffer`: no two have one); cases are only added, and no change touches the date,
so a case only ever moves towards the pages still to come (`PositionsOnlyGrow`).

`RetriesFindExports` (`ReplaysAreServed`): a record of the idempotency store is made in the
step that makes the export, and forgotten before the export expires; `ExportsInv` keeps the two
moments together, and says that an export waiting to be finished has its case, since only
a reset takes cases and it takes exports, too. `ExportsTyped`: 100 percent means ready.

`PromisesAreKept` (`PromisedSensor`): `QueueInv` says that what is indexed is always a beginning
of the queue, in its order, and that the sensors registered are as many. Then the place of a file in
the queue is its sensor. `Walked` is a recursive function over the queue that may index
several files in one pass; what a pass does to each of them is proved for every length of the
queue from the least place at which it could fail. `QueueTyped`: one record per content,
100 percent means ready.

`LedgerNumbersAll` (`LedgerExact`, a part of `WorldHolds`): whenever it was asked, the ledger holds
the detections due before its next hour, in one order. The order is a rank function, the place
of a detection being how many come before it, so two sets in order, one due before the other,
join to their union in order (`OrdersJoin`); an hour is one such set, and `_build` finds all of it by
looking back one hour, because no lag and delay together exceed an hour (`HourReleases`;
`WorldAssumption` states the bound, which the sensors' lags and `MAX_DELAY_MS` keep).
`AnnouncedCanBeOpened` (`AnnouncedIsVisible`): what `until()` cuts off the ascending list by bisection is what
is due (`CountedAreFirst`), and what is due is older than its sensor's lag; no import
takes the number of a built-in sensor, by `QueueInv`.

### Limits, related sessions and the observer

`ServicesProofs`: `WindowsHold` (`WindowHolds` of run `services`). The limiter's lists are
trimmed and whole keys are dropped; the histories `granted` and `failed` are not. `LimitsInv`
relates them by `Agree`: what is left of either when the times out of the window are taken
off is the same. That agreement, unlike equality, survives trimming (`LeftTwice`: to drop at
once is to drop now and again later), dropping a key idle for `IdleAge`
(`TrackedTells`: it has nothing in any window) and the passing of time (`AgreesLater`). The
gaps in the histories and the sufficiency of Retry-After follow, the latter from what
rounding up covers (`CeilDivCovers`), also across the two clocks of the login limit.

`RelatedComeOnce` (`RelatedOnce`): a page is computed from the rows of its moment, so `RelatedInv`
speaks of sessions and not of pages. Those related at first and not given yet lie
behind the cursor, and none that was given does (`Between`); `PageTurns` shows that the next
page keeps it so. It needs that the order is total and that of some sessions one is the latest
(`LaterOrders`, `LatestOf`), and that what is in sight or related stays so while the clock
moves (`SightGrows`).

`MistakesStick` (`VerdictsStick`): a step adds at most one record to a log, behind the others and
not older than they are (`ObserverInv`, `LogsOnlyGrow`). A full ring that drops a record and still
begins with what it held has not changed. For each check there is a lemma that on a log grown by
one record it is no better: those about single records at once (`SingleSticks`), those about
neighbours since the new record comes between no two (`PairsStay`), those that count since the sets counted
grow (`CountsGrow`). A search deleted in time counts as abandoned when it is deleted once more, too late; that the
reverse never happens needs the order of time (`AbandonedSticks`), and so do streams reopened
too early.

`TableIsPrefix` (`RowsArePrefix`): what the table shows is, in every order, a beginning of the rows found, and
all of them when its last page says so. `PagerInv` says that the pages stored, those a fetch will be put
behind, and those a refetch of the last page set out from each link up from the first row on (`Linked`), that what
has been answered and not arrived yet is a page of the rows there are (`Fits`), and that it
starts where what it will be put behind ends. What overwrites what is then of no matter: whichever answer comes last, linked pages are
stored. It stays so while the search runs since rows are only added, and an order other than the scan's is
served only when none is added any more (`Extends`, `FitsStays`). `PagesAddUp` obtains
what linked pages show, for any number of them, from the least page at which the recursion of `FlattenSeq` could
differ.

`LimitsTyped`, `ObserverTyped`, `PagerTyped`: their types, which are more than types where they count. The chaos
controller keeps at most one counter more than `MaxTracked` (`Counted`), since a new key that finds too many drops
them all; and whoever is given packets is an analyst, in whichever order the checks answer. The observer never reports more open streams than there are (`Counts`), although
its rings drop events and a reset forgets them all: of the last so many events of a kind, however many, no more
are openings than there are streams open now and closings among them (`Balanced`), which is what
is left when the oldest are dropped (`RingCounts`). A scan stays within its rows and finds no
more than it has read; whatever state the search has ended in, no poll tells the page that it is gone (`Showing`:
a 404 is an error, and keeps what was there); and each page stored was asked for by the cursor of the one before.

`ServicesTyped` (`ServicesTypeOK`): all of them at once. `OnePartMoves` says what a step of the services is
to each part, `PartsAlone` that a behaviour of the services is one of the part that moves, so that the type theorems
of the parts (`CasesTyped`, `ExportsTyped`, `HuntsTyped` with `VersionsTell`, `QueueTyped` and the three above)
add up.

`UploadsAreWhole` (`UploadIsWhole`, a part of `WorldHolds`, for bodies with at most one file, `OneFile`; with two
files the one scanner reads both, and what it says is of neither): between two handlers the scanner is in the middle of the file as it has
come so far (`MidScan`): where it is follows from what it has read, skipped and holds back. A handler that
goes on leaves less to do (`Left`), so `_parse` ends, and it ends at rest (`AtRest`): it waits
for bytes that have not come, whatever the pieces were. As the records lie one behind the other, those it
has read are those that lie within what has come, and the last of them is the last a reader of the
whole file would find. `Reads` adds that of the parts behind the scanner none was at
fault, so the answer is the first part's that is. `UploadAssumption` says of
the bodies that sizes are numbers, that a part that is not well formed is not empty, and that a file's records reach its end or a length
nobody writes: what lies behind is never read as a record.

`CapturesAreWhole` (`CaptureHolds`, a part of `WorldHolds`): `CaptureInv` says of the file as far as it is written that
either side's sequence number is the sum of what its packets have carried, modulo any range
(`Reassembles`; `ModAdds`: adding after the wrap is adding before it), that the time between two packets is the
same (`StampedFlow`), and what has been sent at each stage (`Staged`): while the protocol talks what it has said so far, while
`_fill` adds at most what the row asks for, at the end whichever is more. A file that is full
is exempt, since it stays as it is. A message cut into segments adds up to its size, which is shown over the parts of
any message (`PartsAddUp`, `MessageDelivered`). The stamps stay within the session as the step is the
session's length divided by the room, or one where that is nothing, and there are fewer packets than
microseconds in a millisecond (256 of 1000; `PacketAssumption`). That a checksum over what carries it comes to zero is shown for words of any width
(`ComplementFolds`), of headers whose carry comes round in two turns (`Summable`). `SumOf`, `SentMessage` and the scanner's loop
are recursive functions; that they exist (`StepByStep`) and what they come to is proved from the least place at which they could fail.

### Only model-checked

* Liveness (`SearchesEnd`, `RequestsEnd`, `ClosedStreamsEnd`): what fairness brings about
  is out of reach of the prover used here.
* Of `services`, `WorldHolds` but for the ledger, the packet files and the uploads. The rest of it is computed by pure functions
  (blocks, samples, charts), and checked against a reference over bounded inputs.
* Of these, `FiltersRoundTrip` for another reason, too: `FilterAlgebra` declares RECURSIVE operators and no module with a
  theorem may reach it.
* The runs that expect a violation show behaviours, of which there is nothing to prove.

## 5. Findings

1. **A late response puts a spent token pair back** (`bff_expiring`). Each request saves
   its own copy of the session. Two overlapping requests, one refreshing and the other
   carrying the pair bought just before, can have their cookies applied in the opposite
   order. The next request then presents a consumed refresh token; while the outcome is
   remembered that is harmless, but 5 s later it is not, and the API revokes the family.
   With 90 s tokens a request would have to stay open for 40 s; with the 15 s tokens of
   the expiring-tokens profile, 2.5 s suffice. The API's observer counts this as a
   failure of the client ("No refresh reuse").
2. **A stream can outlive its revoked family** (`feed_outlives`). Two streams authorised
   before the revocation and subscribing after it: the first finds its family dead, is
   closed at once and leaves an entry in `_unsubscribe` until it is released; the second
   sees the entry, takes its family for registered, and is never closed. It ends with
   its access token's expiry. The route's description says it ends when the family is
   revoked. A stream subscribed *before* the
   revocation is closed (`RevocationCloses`), but for what follows.
3. **A family id used again inherits a stale entry** (`feed_reset`). A reset sets the counter back
   that family ids are derived from (`platform/tokens.py:295`). A stream authorised before the reset
   that subscribes after it is closed at once, and leaves its entry in `_unsubscribe` until it is
   released. If the next login with that id opens a stream meanwhile, the bus takes its family for
   registered (`realtime/bus.py:161`), and keeps the entry for as long as that login has a stream.
   Revoking the family then closes none of them; each goes on until its access token expires.
   `RevocationCloses` holds of every other family (`haunted` names those excepted).
4. **A poller of the detections list can be left behind** (`list_poller`). `backfill` cuts
   what lies behind `after_seq` at `limit` but answers the head of the whole feed as
   `last_seq`, and the route recommends polling with `after_seq=last_seq`
   (`api/detections.py:46-47`). Of two new detections and a limit of one, the poller is
   given the first and a cursor behind both. It would not happen to a poller that
   follows the number of the last detection it was given, or whose limit is never
   reached.

Smaller things met on the way, which no statement of the repository contradicts:

* More than 64 parts of a filter raise a `ValidationError` that the filter's parser does
  not catch (`Crash` in `FilterAlgebra`); for the values of one row it is caught, and answered
  with 422.
* The title of a case and the name of a hunt are compared with leading and trailing
  spaces removed from the new one only.

## 6. What is not modelled

* Token texts, password checks, response bodies and headers, error wording, logging;
  the contents of payloads and of decoded layers (`world/decode.py`), the tables of
  fingerprints (`world/tls_profiles.py`), the wordings of the bot: data, without a
  state or a decision of their own that another part depends on.
* Metadata and health routes, the domain models, settings and wiring: declarations and
  pure lookups. Form views and the rendering of session details: what they keep is
  local to a component on the page.
* `add_revocation_listener`: no caller outside the tests.
* A refresh answer whose body is not JSON (the promise would be rejected for every
  waiter), and cookies of two browsers: the browsers share nothing but the API.
* Which kind of fault the chaos controller injects and how long it delays; that it fails
  a call is in `Limits`, its switch to shorter tokens in `TokenStore`.
* The cap of 4096 on idempotency records.
* The reset of the whole system as one step. Each module resets what it models; a state in
  which one store is reset and another is not yet is never seen by a caller, since the
  handler of the reset does not await between them.
* The translation of a filter from the form's fields to a query and back beyond the
  operators of `FilterAlgebra`; the estimate's reads of up to twice its share of rows.

## 7. Plan

What is left, in this order:

1. The samples of a row (`FlowSamples`) and the columns of the charts adding up, as theorems, with their folds as
   recursive functions, as it is done for `PacketFlow`.
2. `NoSelfReuse` for requests longer than half the grace: from the model checker it should
   hold up to the grace itself.
3. A run of `LiveSocket` against the token store itself; today the revocation of a family
   is an action of `LiveSocket`, with what `TokenStore` shows of it.
4. A reset of all stores as one step, should the handler ever await between them.
