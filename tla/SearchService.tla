---------------------------- MODULE SearchService ----------------------------
(***************************************************************************)
(* Searches of the capture API: capture_api/search/jobs.py (SearchService, *)
(* SearchJob) behind the routes of capture_api/api/searches.py, with the   *)
(* idempotency records and the sliding window that guard POST /searches.   *)
(*                                                                         *)
(* A handler runs on one asyncio loop and awaits nothing, so each is one   *)
(* step; what interleaves with them are the scans, which sleep between     *)
(* chunks, and the reaper, which sleeps between sweeps.                    *)
(*                                                                         *)
(* A SearchJob outlives its entry in _jobs: the task of a scan that was    *)
(* cancelled still has one step to take.  So job keeps the objects, by     *)
(* their numbers, until nothing refers to them, and held is the set of     *)
(* keys of _jobs.  An answer lost after the commit (post_commit_503)       *)
(* leaves what an answer received leaves: the client repeats the call,     *)
(* which Create may at any time.                                           *)
(***************************************************************************)
EXTENDS Integers, Sequences, FiniteSets, SequencesExt

CONSTANTS
    Families,   \* signed-in token families
    Owner,      \* the account of each
    Keys,       \* well-formed Idempotency-Key values
    Bodies,     \* request bodies (their fingerprints)
    Slots,      \* SLOTS_PER_USER
    IdleTtl,    \* IDLE_TTL_S
    RecordTtl,  \* idempotency TTL_S
    RateLimit,  \* BUCKETS["search_create"].limit
    RateWindow, \* BUCKETS["search_create"].window_s
    MaxExpired, \* MAX_REMEMBERED_EXPIRED
    Total,      \* sessions in the window a search scans
    Chunk,      \* sessions scanned between two sleeps
    MaxJobs,    \* bound: searches ever created
    MaxNow      \* bound: the monotonic clock

ASSUME SearchAssumption ==
    /\ RecordTtl \in Nat /\ IdleTtl \in Nat /\ RecordTtl <= IdleTtl
    /\ {Slots, RateLimit, RateWindow, MaxExpired, Chunk} \subseteq Nat \ {0}
    /\ {Total, MaxJobs, MaxNow} \subseteq Nat

VARIABLES
    now,     \* TimeSource.monotonic()
    counter, \* _counter
    job,     \* the SearchJob objects alive, by number
    held,    \* the keys of _jobs
    expired, \* _expired, without the accounts: when each search was let go of
    records, \* IdempotencyStore._records of the scope "searches"
    hits     \* RateLimiter._hits of the bucket "search_create"

searchVars == <<now, counter, job, held, expired, records, hits>>

JobId == 1 .. MaxJobs
Users == {Owner[f] : f \in Families}
NoKey == "no key"

Finished == {"done", "failed", "cancelled"}

\* SearchJob and its task: not started, asleep inside the loop over the
\* rows, asleep after it, or over; cancel is a cancellation not delivered yet.
Job == [family : Families, key : Keys \cup {NoKey}, created : Nat, touched : Nat,
        state : Finished \cup {"queued", "running"}, scanned : 0 .. Total,
        fails : BOOLEAN, task : {"new", "inside", "after", "over"}, cancel : BOOLEAN]
Record == [body : Bodies, job : JobId, created : Nat]

UserOf(id) == Owner[job[id].family]

-----------------------------------------------------------------------------
\* Only the objects that _jobs or a task still refers to.
Reachable(dict, kept) ==
    [id \in {x \in DOMAIN dict : x \in kept \/ dict[x].task # "over"} |-> dict[id]]

\* Mutant of Aborted: the task is let go of without being cancelled.
AbortedRunsOn(dict, S) ==
    [id \in DOMAIN dict |->
        IF id \notin S THEN dict[id]
        ELSE [dict[id] EXCEPT
                !.state = IF dict[id].state \in Finished THEN @ ELSE "cancelled"]]

\* _abort on the jobs of S, among those of dict.
Aborted(dict, S) ==
    [id \in DOMAIN dict |->
        IF id \notin S THEN dict[id]
        ELSE [dict[id] EXCEPT
                !.cancel = dict[id].task # "over",
                !.state = IF dict[id].state \in Finished THEN @ ELSE "cancelled"]]

\* _reap: what a sweep now leaves of _jobs, of the objects and of _expired.
Idle == {id \in held : now - job[id].touched >= IdleTtl}
\* Mutant of HeldAfterReap: a sweep spares finished searches.
HeldSparingFinished == held \ {id \in Idle : job[id].state \notin Finished}

HeldAfterReap == held \ Idle
JobsAfterReap == Reachable(Aborted(job, Idle), HeldAfterReap)

\* _expired is a dict in the order of its insertions: one sweep inserts the
\* searches in the order of their numbers, and of two sweeps at one moment
\* the second finds only searches created since the first.
AllExpired == [id \in DOMAIN expired \cup Idle |-> IF id \in Idle THEN now ELSE expired[id]]
InsertedAfter(all, id) ==
    {x \in DOMAIN all : all[x] > all[id] \/ (all[x] = all[id] /\ x > id)}

\* Mutant of ExpiredAfterReap: _expired is let grow.
ExpiredUncapped == AllExpired

\* _remember_expired forgets the oldest beyond MaxExpired.
ExpiredAfterReap ==
    Restrict(AllExpired, {id \in DOMAIN AllExpired :
                            Cardinality(InsertedAfter(AllExpired, id)) < MaxExpired})

\* Mutants of Purged: the lifetime is off by one, downwards and upwards.
PurgedEarly == [x \in {y \in DOMAIN records : now - records[y].created < RecordTtl - 1} |-> records[x]]
PurgedLate == [x \in {y \in DOMAIN records : now - records[y].created <= RecordTtl} |-> records[x]]

\* _window and _purge: what is left of a user's hits, from whose left end the
\* old ones are taken, and of the records.
Recent(u) ==
    LET old == {i \in DOMAIN hits[u] : \A j \in 1 .. i : now - hits[u][j] >= RateWindow}
    IN  SubSeq(hits[u], Cardinality(old) + 1, Len(hits[u]))
Purged == [x \in {y \in DOMAIN records : now - records[y].created < RecordTtl} |-> records[x]]

\* The record of a key, purged first, and whether its search still exists.
Found(f, k) == <<f, k>> \in DOMAIN Purged
Replays(f, k) == Found(f, k) /\ Purged[<<f, k>>].job \in held

-----------------------------------------------------------------------------
SearchInit ==
    /\ now = 0 /\ counter = 0
    /\ job = [x \in {} |-> x] /\ held = {} /\ expired = [x \in {} |-> 0]
    /\ records = [x \in {} |-> x]
    /\ hits = [u \in Users |-> <<>>]

\* create_search: the limiter comes before everything else that counts.
RateLimited(f) ==
    /\ Len(Recent(Owner[f])) >= RateLimit
    /\ hits' = [hits EXCEPT ![Owner[f]] = Recent(Owner[f])]
    /\ UNCHANGED <<now, counter, job, held, expired, records>>

Admitted(f) ==
    /\ Len(Recent(Owner[f])) < RateLimit
    /\ hits' = [hits EXCEPT ![Owner[f]] = Append(Recent(Owner[f]), now)]
    /\ UNCHANGED now

\* A key is validated, then looked up, which purges the old records.
LookedUp(k) == IF k \in Keys THEN Purged ELSE records

\* A malformed key (k is then NoKey: no record is looked up), a key used with
\* another body, a search to replay or (chaos) a 503 before the commit:
\* nothing is created, nothing is touched.
NotCreated(f, k) ==
    /\ Admitted(f)
    /\ records' = LookedUp(k)
    /\ UNCHANGED <<counter, job, held, expired>>

\* SearchService.create refuses, having reaped first.
SlotsTaken(f) ==
    Cardinality({id \in HeldAfterReap : UserOf(id) = Owner[f]}) >= Slots

TooMany(f, k) ==
    /\ SlotsTaken(f)
    /\ Admitted(f)
    /\ records' = LookedUp(k)
    /\ job' = JobsAfterReap /\ held' = HeldAfterReap /\ expired' = ExpiredAfterReap
    /\ UNCHANGED counter

\* SearchService.create and idempotency.remember.
Created(f, k, b, fails) ==
    /\ ~ SlotsTaken(f) /\ counter < MaxJobs
    /\ Admitted(f)
    /\ LET id == counter + 1
       IN  /\ counter' = id
           /\ job' = [x \in DOMAIN JobsAfterReap \cup {id} |->
                        IF x # id THEN JobsAfterReap[x]
                        ELSE [family |-> f, key |-> k, created |-> now, touched |-> now,
                              state |-> "queued", scanned |-> 0, fails |-> fails,
                              task |-> "new", cancel |-> FALSE]]
           /\ held' = HeldAfterReap \cup {id}
           /\ expired' = ExpiredAfterReap
           /\ records' = IF k = NoKey THEN records
                         ELSE [x \in DOMAIN Purged \cup {<<f, k>>} |->
                                 IF x = <<f, k>>
                                 THEN [body |-> b, job |-> id, created |-> now]
                                 ELSE Purged[x]]

Create(f, k, b) ==
    \/ RateLimited(f)
    \/ NotCreated(f, k)   \* also when chaos answers 503 before the commit
    \/ /\ ~ Replays(f, k)
       /\ Found(f, k) => Purged[<<f, k>>].body = b
       /\ TooMany(f, k) \/ \E fails \in BOOLEAN : Created(f, k, b, fails)

\* run_reaper wakes up; also what is left of a call that names a search the
\* caller does not hold (404, 410, or the 204 of a DELETE).
Reap ==
    /\ held' = HeldAfterReap /\ expired' = ExpiredAfterReap /\ job' = JobsAfterReap
    /\ UNCHANGED <<now, counter, records, hits>>

\* Mutant of Get: the search is touched without a sweep first.
GetRevives(id) ==
    /\ id \in held
    /\ job' = [job EXCEPT ![id].touched = now]
    /\ UNCHANGED <<now, counter, held, expired, records, hits>>

\* SearchService.get, behind GET /searches/{id} and its results: the search
\* is touched.
Get(id) ==
    /\ id \in HeldAfterReap
    /\ held' = HeldAfterReap /\ expired' = ExpiredAfterReap
    /\ job' = [JobsAfterReap EXCEPT ![id].touched = now]
    /\ UNCHANGED <<now, counter, records, hits>>

\* SearchService.cancel, behind DELETE /searches/{id}.
Cancel(id) ==
    /\ id \in HeldAfterReap
    /\ held' = HeldAfterReap \ {id}
    /\ expired' = Restrict(ExpiredAfterReap, DOMAIN ExpiredAfterReap \ {id})
    /\ job' = Reachable(Aborted(JobsAfterReap, {id}), held')
    /\ UNCHANGED <<now, counter, records, hits>>

\* The part of the admin reset that concerns searches.
Reset ==
    /\ job' = Reachable(Aborted(job, held), {}) /\ held' = {} /\ expired' = [x \in {} |-> 0]
    /\ records' = [x \in {} |-> x]
    /\ hits' = [u \in Users |-> <<>>]
    /\ UNCHANGED <<now, counter>>

-----------------------------------------------------------------------------
\* _scan: a job that fails does so at the row Total \div 2, or at the first
\* one; it has no row to fail at when the window is empty.
FailsAt(s) == s >= Total \div 2

\* The rows scanned when the loop, resumed after row s, next stops: at the
\* end of a chunk, at the failure, or at the last row.
NextStop(s, fails) ==
    CHOOSE n \in s + 1 .. Total :
        /\ n % Chunk = 0 \/ (fails /\ FailsAt(n)) \/ n = Total
        /\ \A m \in s + 1 .. n - 1 : m % Chunk # 0 /\ ~ (fails /\ FailsAt(m))

\* Mutant of Scanned: the loop does not leave after the last row.
ScannedForever(x, late) ==
    IF x.scanned = Total THEN x
    ELSE LET n == NextStop(x.scanned, x.fails)
         IN  [x EXCEPT !.scanned = n, !.task = IF late THEN "over" ELSE "inside"]

\* The object x after its task has run from row s to the next sleep or to
\* its end; late is a scan past its CPU budget.
Scanned(x, late) ==
    IF x.scanned = Total THEN [x EXCEPT !.task = "after"]
    ELSE LET n == NextStop(x.scanned, x.fails)
             y == [x EXCEPT !.scanned = n]
         IN  IF (x.fails /\ FailsAt(n)) \/ (late /\ n % Chunk = 0)
             THEN [y EXCEPT !.state = "failed", !.task = "over"]
             ELSE [y EXCEPT !.task = IF n % Chunk = 0 THEN "inside" ELSE "after"]

\* The task of a search runs until it sleeps again: a cancellation is
\* delivered at once, to a task not started before its first line.
RunTask(id, late) ==
    /\ id \in DOMAIN job /\ job[id].task # "over"
    /\ LET x == job[id]
           after == IF x.cancel THEN [x EXCEPT !.task = "over", !.cancel = FALSE,
                                               !.state = "cancelled"]
                    ELSE IF x.task = "after" THEN [x EXCEPT !.task = "over", !.state = "done"]
                    ELSE Scanned([x EXCEPT !.state = "running"], late)
       IN  job' = Reachable([job EXCEPT ![id] = after], held)
    /\ UNCHANGED <<now, counter, held, expired, records, hits>>

Tick == /\ now < MaxNow /\ now' = now + 1
        /\ UNCHANGED <<counter, job, held, expired, records, hits>>

SearchNext ==
    \/ \E f \in Families, k \in Keys \cup {NoKey}, b \in Bodies : Create(f, k, b)
    \/ \E id \in held : Get(id) \/ Cancel(id)
    \/ \E id \in DOMAIN job, late \in BOOLEAN : RunTask(id, late)
    \/ Reap \/ Reset \/ Tick

\* The loop runs every task that is ready, and the reaper's among them.
SearchFairness ==
    /\ \A id \in JobId : WF_searchVars(\E late \in BOOLEAN : RunTask(id, late))
    /\ WF_searchVars(Reap)

SearchSpec == SearchInit /\ [][SearchNext]_searchVars /\ SearchFairness

-----------------------------------------------------------------------------
SearchTypeOK ==
    /\ now \in 0 .. MaxNow /\ counter \in 0 .. MaxJobs
    /\ held \subseteq DOMAIN job /\ DOMAIN job \subseteq 1 .. counter
    /\ \A id \in DOMAIN job : job[id] \in Job
    /\ DOMAIN expired \subseteq (1 .. counter) \ held /\ Cardinality(DOMAIN expired) <= MaxExpired
    /\ \A id \in DOMAIN expired : expired[id] \in 0 .. now
    /\ DOMAIN records \subseteq Families \X Keys
    /\ \A x \in DOMAIN records : records[x] \in Record
    /\ \A u \in Users : Len(hits[u]) <= RateLimit

\* A retry under the same key finds the search it started and starts no
\* twin: two searches of one session and key that exist together were
\* created a whole lifetime of the record apart.
NoTwin ==
    \A i, j \in held :
        i < j /\ job[i].family = job[j].family /\ job[i].key = job[j].key
              /\ job[i].key # NoKey
            => job[j].created - job[i].created >= RecordTtl

\* A replay, which neither reaps nor touches, hands out a search that the
\* next read will still find.
ReplayIsFresh ==
    \A f \in Families, k \in Keys :
        Replays(f, k) => now - job[Purged[<<f, k>>].job].touched < IdleTtl

\* No scan goes on for a search that no longer exists: its task is over or
\* about to be cancelled.
NoStrayScan == \A id \in DOMAIN job \ held : job[id].cancel

\* What its owner is told of a search only advances: queued, running, one
\* final state, 410 expired, 404 unknown.
Told(id) ==
    CASE id \in HeldAfterReap -> job[id].state
      [] id \in DOMAIN ExpiredAfterReap -> "expired"
      [] OTHER -> "unknown"
Stage(told) == CASE told = "queued" -> 1 [] told = "running" -> 2
                 [] told \in Finished -> 3 [] told = "expired" -> 4 [] OTHER -> 5
AnswersOnlyAdvance ==
    [][\A id \in 1 .. counter :
          LET before == Told(id)
              after == Told(id)'
          IN  after = before \/ Stage(after) > Stage(before)]_searchVars

\* Nothing is kept for good: the task of a search comes to its end, and a
\* search left alone for too long is discarded and its slot given back, whether
\* anybody asks for it or not.  (A read does not revive it: AnswersOnlyAdvance.)
Scanning(id) == id \in DOMAIN job /\ job[id].task # "over"
SearchesEnd == \A id \in JobId : []<>~ (Scanning(id) \/ id \in Idle)
=============================================================================
