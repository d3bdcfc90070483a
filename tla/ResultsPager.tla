----------------------------- MODULE ResultsPager -----------------------------
(***************************************************************************)
(* Reading the results of a search while it runs.  On the server: the scan *)
(* (SearchService.run and _scan), results() and the signed cursors of      *)
(* search/cursors.py.  In the browser: the table fed by                    *)
(* hooks/use-search-results.ts, the state polled by use-search-status.ts,  *)
(* the cancel button and the choice of an order in                         *)
(* search-results-view.tsx.  What TanStack Query does with a query whose   *)
(* fetches overlap is modelled as the hooks use it: at most one fetch of   *)
(* the query itself, while refetchLastPage writes beside it.               *)
(***************************************************************************)
EXTENDS Integers, Sequences, FiniteSets, SequencesExt

CONSTANTS
    Captured,  \* the rows of the window: [id, start, bytes, matches]
    ScanChunk, \* rows between two pauses of the scan
    PageLimit, \* rows on a page
    Orders,    \* "-ts" and the other sort keys offered
    MaxCalls   \* bound: requests for results

ASSUME PagerAssumption ==
    /\ "-ts" \in Orders /\ Orders \subseteq {"-ts", "ts", "-bytes", "bytes"}
    /\ IsFiniteSet(Captured) /\ {ScanChunk, PageLimit} \subseteq Nat \ {0} /\ MaxCalls \in Nat

VARIABLES
    job,    \* SearchJob: state, scanned, rows; "gone" when it has been deleted
    order,  \* the order the user has chosen
    pages,  \* order -> the pages of its query, each with the cursor it came by
    fetch,  \* the fetch of the query, or NoFetch
    calls,  \* refetchLastPage calls, and answers, under way
    effect, \* what the running effect has closed over, and whether it awaits
    shown,  \* the state the status query shows
    polls,  \* the state answered to a status poll and not arrived yet
    asked   \* how many requests for results there have been

pagerVars == <<job, order, pages, fetch, calls, effect, shown, polls, asked>>
clientVars == <<order, pages, fetch, calls, effect, shown, polls, asked>>

-----------------------------------------------------------------------------
\* sorted_rows() and _rows_newest_first(): by the key, then by id.
KeyOf(row, by) == IF by \in {"bytes", "-bytes"} THEN row.bytes ELSE row.start
Smaller(a, b, by) ==
    \/ KeyOf(a, by) < KeyOf(b, by)
    \/ KeyOf(a, by) = KeyOf(b, by) /\ a.id < b.id
Precedes(a, b, by) == IF by \in {"ts", "bytes"} THEN Smaller(a, b, by) ELSE Smaller(b, a, by)
SortedRows(rows, by) ==
    [n \in 1 .. Cardinality(rows) |->
        CHOOSE r \in rows : Cardinality({q \in rows : Precedes(q, r, by)}) = n - 1]
ScanOrder == SortedRows(Captured, "-ts")

Over == {"done", "failed", "cancelled"}

\* complete: nothing more will come and nothing more is there.
Complete(more) == job.state \in Over /\ ~more

\* results(): a page from an offset; a cursor carries search, order and
\* offset, so it can only be used for what it was made for.
Refused(by) == by # "-ts" /\ job.state # "done"
Found(by) == IF by = "-ts" THEN job.rows ELSE SortedRows(ToSet(job.rows), by)
ResultPage(from, by) ==
    LET rows == Found(by)
        end == IF from + PageLimit < Len(rows) THEN from + PageLimit ELSE Len(rows)
        items == SubSeq(rows, from + 1, end)
        more == from + Len(items) < Len(rows)
    IN [from |-> from, items |-> items, complete |-> Complete(more),
        next |-> IF more THEN from + Len(items) ELSE -1]

NoFetch == [kind |-> "none"]

-----------------------------------------------------------------------------
\* run(): the task starts.
StartScan ==
    /\ job.state = "queued"
    /\ job' = [job EXCEPT !.state = "running"]
    /\ UNCHANGED clientVars

\* _scan(), up to the next pause, the end or the failure: half way for a search
\* made to fail, and at a pause for one whose time is spent.
Scan ==
    LET total == Len(ScanOrder)
        half == IF total < 2 THEN 1 ELSE total \div 2
        most == IF job.scanned + ScanChunk < total THEN job.scanned + ScanChunk ELSE total
        fails == job.failing /\ half <= most
        upto == IF fails THEN half ELSE most
        seen == SubSeq(ScanOrder, job.scanned + 1, upto)
    IN /\ job.state = "running" /\ job.scanned < total
       /\ \E late \in {FALSE, upto % ScanChunk = 0} :
            job' = [job EXCEPT !.state = IF fails \/ late THEN "failed" ELSE "running",
                               !.scanned = upto,
                               !.rows = @ \o SortedRows({r \in ToSet(seen) : r.matches}, "-ts")]
       /\ UNCHANGED clientVars

\* The last pause is over.
EndScan ==
    /\ job.state = "running" /\ job.scanned = Len(ScanOrder)
    /\ job' = [job EXCEPT !.state = "done"]
    /\ UNCHANGED clientVars

\* DELETE /searches/{id} by the cancel button: _abort(), and the entry goes.
\* The button writes "cancelled" over the state shown unless that was final.
Cancel ==
    /\ job.state # "gone"
    /\ job' = [job EXCEPT !.state = "gone"]
    /\ shown' = IF shown \in Over THEN shown ELSE "cancelled"
    /\ UNCHANGED <<order, pages, fetch, calls, effect, polls, asked>>

-----------------------------------------------------------------------------
\* useSearchStatus: polled until the state shown is final or the search is
\* gone, one poll at a time; what it answers may be old when it arrives.
AskStatus ==
    /\ shown \notin Over /\ job.state # "gone" /\ polls = {}
    /\ polls' = {job.state}
    /\ UNCHANGED <<job, order, pages, fetch, calls, effect, shown, asked>>
HearStatus ==
    \E state \in polls :
        /\ shown' = state
        /\ polls' = {}
        /\ UNCHANGED <<job, order, pages, fetch, calls, effect, asked>>

\* The order can be chosen once the search shows as done.
ChooseOrder(by) ==
    /\ shown = "done" /\ by # order
    /\ order' = by
    /\ fetch' = NoFetch
    /\ UNCHANGED <<job, pages, calls, effect, shown, polls, asked>>

-----------------------------------------------------------------------------
NextOf(list) == IF list = <<>> THEN 0 ELSE Last(list).next
Deps == [complete |-> pages[order] # <<>> /\ Last(pages[order]).complete,
         state |-> shown, next |-> pages[order] # <<>> /\ NextOf(pages[order]) # -1, order |-> order]

\* The query fetches: its first page, the page behind the last one, or, when
\* the window gets the focus back, every page again from the first.  base is
\* what the new page will be put behind, as it was when the fetch began.
FetchFirst ==
    /\ pages[order] = <<>> /\ fetch = NoFetch /\ asked < MaxCalls
    /\ fetch' = [kind |-> "sent", base |-> <<>>, from |-> 0, left |-> 0]
    /\ asked' = asked + 1
    /\ UNCHANGED <<job, order, pages, calls, effect, shown, polls>>
Refocus ==
    /\ pages[order] # <<>> /\ fetch = NoFetch /\ asked < MaxCalls
    /\ fetch' = [kind |-> "sent", base |-> <<>>, from |-> 0, left |-> Len(pages[order]) - 1]
    /\ asked' = asked + 1
    /\ UNCHANGED <<job, order, pages, calls, effect, shown, polls>>

\* The server answers the fetch, or refuses it (409, 404, 503).
AnswerFetch ==
    /\ fetch.kind = "sent"
    /\ \/ /\ job.state # "gone" /\ ~Refused(order)
          /\ fetch' = [kind |-> "answered", base |-> fetch.base, left |-> fetch.left,
                       page |-> ResultPage(fetch.from, order)]
       \/ fetch' = [kind |-> "failed"]
    /\ UNCHANGED <<job, order, pages, calls, effect, shown, polls, asked>>

\* The answer arrives: the query goes on to the next page it has to fetch
\* again, or stores what it has.  The effect that awaited it sets its timer.
TakeFetch ==
    LET got == Append(fetch.base, fetch.page)
    IN /\ fetch.kind \in {"answered", "failed"}
       /\ IF fetch.kind = "answered" /\ fetch.left > 0 /\ fetch.page.next # -1
          THEN /\ asked < MaxCalls /\ asked' = asked + 1
               /\ fetch' = [kind |-> "sent", base |-> got, from |-> fetch.page.next,
                            left |-> fetch.left - 1]
               /\ UNCHANGED <<pages, effect>>
          ELSE /\ fetch' = NoFetch
               /\ pages' = IF fetch.kind = "failed" THEN pages ELSE [pages EXCEPT ![order] = got]
               /\ effect' = IF effect.awaits = "page" THEN [effect EXCEPT !.awaits = "timer"] ELSE effect
               /\ UNCHANGED asked
       /\ UNCHANGED <<job, order, calls, shown, polls>>

-----------------------------------------------------------------------------
\* The effect runs again when what it depends on has changed; calls of the
\* one before it stay under way, but set no timer.
RunEffect ==
    /\ effect.deps # Deps
    /\ effect' = [deps |-> Deps, awaits |-> "timer"]
    /\ calls' = {[call EXCEPT !.mine = FALSE] : call \in calls}
    /\ UNCHANGED <<job, order, pages, fetch, shown, polls, asked>>

\* tick(): fetchNextPage, which cancels a fetch under way and asks for what is
\* the next page by now, or refetchLastPage.
Ticking == effect.awaits = "timer" /\ ~effect.deps.complete /\ effect.deps.state # "cancelled"
TickNext ==
    /\ Ticking /\ effect.deps.next /\ asked < MaxCalls
    /\ NextOf(pages[order]) # -1
    /\ fetch' = [kind |-> "sent", base |-> pages[order], from |-> NextOf(pages[order]), left |-> 0]
    /\ effect' = [effect EXCEPT !.awaits = "page"]
    /\ asked' = asked + 1
    /\ UNCHANGED <<job, order, pages, calls, shown, polls>>
TickLast ==
    /\ Ticking /\ ~effect.deps.next /\ pages[effect.deps.order] # <<>> /\ asked < MaxCalls
    /\ calls' = calls \cup
         {[id |-> asked, by |-> effect.deps.order, base |-> pages[effect.deps.order], mine |-> TRUE,
           page |-> NoFetch]}
    /\ effect' = [effect EXCEPT !.awaits = "last"]
    /\ asked' = asked + 1
    /\ UNCHANGED <<job, order, pages, fetch, shown, polls>>

\* The server answers refetchLastPage with the page at the last cursor.
AnswerLast ==
    \E call \in calls :
        /\ call.page = NoFetch /\ job.state # "gone" /\ ~Refused(call.by)
        /\ calls' = (calls \ {call}) \cup
             {[call EXCEPT !.page = ResultPage(Last(call.base).from, call.by)]}
        /\ UNCHANGED <<job, order, pages, fetch, effect, shown, polls, asked>>

\* Mutant of Replaced: the fresh page is put behind the old one.
ReplacedBehind(base, page) == Append(base, page)

\* setQueryData: the pages as they were before the call, the last one fresh.
Replaced(base, page) == Append(Front(base), page)

TakeLast ==
    \E call \in calls :
        /\ call.page # NoFetch
        /\ pages' = [pages EXCEPT ![call.by] = Replaced(call.base, call.page)]
        /\ calls' = calls \ {call}
        /\ effect' = IF call.mine THEN [effect EXCEPT !.awaits = "timer"] ELSE effect
        /\ UNCHANGED <<job, order, fetch, shown, polls, asked>>

\* The call fails, and throws: no timer is set until the effect runs again.
FailLast ==
    \E call \in calls :
        /\ call.page = NoFetch
        /\ calls' = calls \ {call}
        /\ UNCHANGED <<job, order, pages, fetch, effect, shown, polls, asked>>

PagerInit ==
    /\ job \in [state : {"queued"}, scanned : {0}, rows : {<<>>}, failing : BOOLEAN]
    /\ order = "-ts" /\ shown = "queued"
    /\ pages = [by \in Orders |-> <<>>]
    /\ fetch = NoFetch /\ calls = {} /\ polls = {} /\ asked = 0
    /\ effect = [deps |-> Deps, awaits |-> "timer"]

PagerNext ==
    \/ StartScan \/ Scan \/ EndScan \/ Cancel
    \/ AskStatus \/ HearStatus \/ \E by \in Orders : ChooseOrder(by)
    \/ FetchFirst \/ Refocus \/ AnswerFetch \/ TakeFetch
    \/ RunEffect \/ TickNext \/ TickLast \/ AnswerLast \/ TakeLast \/ FailLast

PagerSpec == PagerInit /\ [][PagerNext]_pagerVars

-----------------------------------------------------------------------------
ShownRows(by) == FlattenSeq([i \in DOMAIN pages[by] |-> pages[by][i].items])

\* Types, and every stored page was asked for by the cursor of the one before.
PagerTypeOK ==
    /\ job.state \in Over \cup {"queued", "running", "gone"}
    /\ job.scanned \in 0 .. Len(ScanOrder) /\ Len(job.rows) <= job.scanned
    /\ shown \in Over \cup {"queued", "running"} /\ polls \subseteq Over \cup {"queued", "running"}
    /\ order \in Orders /\ asked \in 0 .. MaxCalls
    /\ effect.awaits \in {"timer", "page", "last"}
    /\ \A by \in Orders : \A i \in 1 .. Len(pages[by]) - 1 : pages[by][i].next = pages[by][i + 1].from

\* The table never shows a row twice, out of order, or past one it skips: in
\* every order it is a beginning of the matching rows, although pages are
\* fetched while the rows grow, the last page is refetched beside the query,
\* and answers overwrite one another; and when its last page says so, it is
\* all of them.
RowsArePrefix ==
    \A by \in Orders :
        /\ IsPrefix(ShownRows(by), Found(by))
        /\ pages[by] # <<>> /\ Last(pages[by]).complete => ShownRows(by) = Found(by)
=============================================================================
