-------------------------------- MODULE Charts --------------------------------
(***************************************************************************)
(* Estimates, histograms, occurrences and conversation graphs:             *)
(* search/estimate.py, search/analytics.py and the routes of               *)
(* api/analytics.py and api/searches.py that answer them.                  *)
(*                                                                         *)
(* A chart is computed in one go from the rows that are visible at that    *)
(* moment; between two charts the capture clock advances and an import may *)
(* become a sensor.  A query that fails the rate limit is left out here    *)
(* (see Limits).  One answer is looked at at a time, and only until        *)
(* something moves.                                                        *)
(***************************************************************************)
EXTENDS World

CONSTANTS
    About,        \* row id: [protocol, bytes, src, dst, hit]: hit is what the filter says
    AboutImported, \* the same for the rows of an import
    Outages,      \* sensor: the <<start, end>> of its holes in the capture
    ChartQueries, \* queries: [sensors, barred, from, to, width]: the sensors named, none
                  \* for all of them, and those the caller may not read
    SampleTarget, \* SAMPLE_TARGET
    MaxBuckets,   \* MAX_BUCKETS
    MaxWindow,    \* MAX_WINDOW_MS
    NodeLimits    \* values of limit_nodes

ASSUME ChartsAssumption ==
    /\ {SampleTarget, MaxBuckets, MaxWindow} \cup NodeLimits \subseteq Nat \ {0}
    /\ \A s \in Sensors : \A o \in Outages[s] : o[1] < o[2]
    /\ \A r \in Rows : \A o \in Outages[r.sensor] : r.start \notin o[1] .. o[2] - 1
    /\ \A q \in ChartQueries : q.width >= 1

VARIABLE chart \* the last query and its answers, NoChart before

chartVars == <<worldVars, chart>>
NoChart == [outcome |-> "none"]

Lesser(a, b) == IF a < b THEN a ELSE b
Greater(a, b) == IF a < b THEN b ELSE a
TotalOf(f) == FoldFunction(+, 0, f)
Traits(r) == IF r.sensor \in Imported THEN AboutImported ELSE About[r.id]
Matching(rows) == {r \in rows : Traits(r).hit}

-----------------------------------------------------------------------------
\* resolve_sensors(): the readable sensors by index, or those named, as named;
\* all must exist before any is looked at for the right to read it.
RefusalOf(q) ==
    CASE ~(Range(q.sensors) \subseteq Known) -> "unknown_sensor"
      [] Range(q.sensors) \subseteq Known /\ Range(q.sensors) \cap q.barred # {} -> "forbidden_sensor"
      [] OTHER -> "none"
Resolved(q) == IF q.sensors = <<>> THEN SortSeq(SetToSeq(Known \ q.barred), <) ELSE q.sensors

\* validate_window()
BadRange(q) ==
    \/ q.to <= q.from \/ q.to - q.from > MaxWindow
    \/ q.to <= DataStart \/ q.from > Now

\* bucket_count() and _check_buckets()
BucketCount(q) == Greater(1, (q.to - q.from + q.width - 1) \div q.width)

\* Mutant of VisibleWindow: the last visible moment is left out of it.
VisibleWindowShort(s, lo, hi) ==
    LET start == Greater(lo, DataStart) IN <<start, Greater(start, Lesser(hi, VisibleUntil(s)))>>

\* visible_window(): up to and including the last visible moment.
VisibleWindow(s, lo, hi) ==
    LET start == Greater(lo, DataStart) IN <<start, Greater(start, Lesser(hi, VisibleUntil(s) + 1))>>

\* windows(): one for each sensor named; the rows of a window.
Windows(q) ==
    [i \in DOMAIN Resolved(q) |->
        [sensor |-> Resolved(q)[i], span |-> VisibleWindow(Resolved(q)[i], q.from, q.to)]]
RowsOfWindow(w) == RowsIn(w.sensor, w.span[1], w.span[2])

-----------------------------------------------------------------------------
\* estimate(): every step-th row from the newest down, scaled up and rounded
\* half to even, sensor by sensor.
RoundedShare(n, d) ==
    LET whole == n \div d
        twice == 2 * (n % d)
    IN IF twice > d \/ (twice = d /\ whole % 2 = 1) THEN whole + 1 ELSE whole
NewestFirst(rows) ==
    SortSeq(SetToSeq(rows), LAMBDA a, b : a.start > b.start \/ (a.start = b.start /\ a.id > b.id))
Sampled(rows, budget) ==
    LET step == Greater(1, Cardinality(rows) \div budget)
        desc == NewestFirst(rows)
    IN {desc[i] : i \in {k \in DOMAIN desc : (k - 1) % step = 0}}
Estimate(ws) ==
    LET budget == Greater(1, SampleTarget \div Greater(1, Len(ws)))
        Of(w) == LET rows == RowsOfWindow(w)
                     sample == Sampled(rows, budget)
                 IN IF rows = {} THEN 0
                    ELSE RoundedShare(Cardinality(Matching(sample)) * Cardinality(rows), Cardinality(sample))
    IN [matches |-> TotalOf([i \in DOMAIN ws |-> Of(ws[i])]),
        scanned |-> TotalOf([i \in DOMAIN ws |-> Cardinality(RowsOfWindow(ws[i]))]),
        read |-> TotalOf([i \in DOMAIN ws |-> Cardinality(Sampled(RowsOfWindow(ws[i]), budget))])]

-----------------------------------------------------------------------------
\* The bucket of a row, counted from 0.
BucketOf(r, q) == (r.start - q.from) \div q.width
InBucket(w, q, b) == {r \in Matching(RowsOfWindow(w)) : BucketOf(r, q) = b}

\* _covered_ms(): what the window leaves of a bucket, less the holes.
Covered(w, lo, hi) ==
    LET low == Greater(lo, w.span[1])
        high == Lesser(hi, w.span[2])
        holes == IF w.sensor \in Sensors THEN Outages[w.sensor] ELSE {}
        Hole(o) == Greater(0, Lesser(high, o[2]) - Greater(low, o[1]))
    IN IF high <= low THEN 0 ELSE Greater(0, high - low - MapThenSumSet(Hole, holes))

\* histogram(): the buckets nothing was captured in are left out.
Histogram(ws, q) ==
    LET Bucket(b) ==
            LET lo == q.from + b * q.width
                rows == [i \in DOMAIN ws |-> InBucket(ws[i], q, b)]
            IN [t |-> lo,
                covered |-> TotalOf([i \in DOMAIN ws |-> Covered(ws[i], lo, lo + q.width)]),
                partial |-> lo <= Now /\ Now < lo + q.width,
                protocols |-> [p \in UNION {{Traits(r).protocol : r \in rows[i]} : i \in DOMAIN ws} |->
                    TotalOf([i \in DOMAIN ws |-> Cardinality({r \in rows[i] : Traits(r).protocol = p})])],
                bytes |-> TotalOf([i \in DOMAIN ws |-> MapThenSumSet(LAMBDA r : Traits(r).bytes, rows[i])])]
    IN SelectSeq([b \in 1 .. BucketCount(q) |-> Bucket(b - 1)], LAMBDA made : made.covered > 0)

\* pivot_occurrences(): by sensor, the buckets without a match left out.
Occurrences(ws, q) ==
    LET Counts(w) == SelectSeq([b \in 1 .. BucketCount(q) |->
                                  [t |-> q.from + (b - 1) * q.width, count |-> Cardinality(InBucket(w, q, b - 1))]],
                               LAMBDA made : made.count > 0)
    IN [i \in DOMAIN ws |-> [sensor |-> ws[i].sensor, buckets |-> Counts(ws[i])]]

-----------------------------------------------------------------------------
\* conversation_graph(): the busiest addresses and what goes on between them.
Ends(r) == {Traits(r).src, Traits(r).dst}
Touches(r, ip) == (IF Traits(r).src = ip THEN 1 ELSE 0) + (IF Traits(r).dst = ip THEN 1 ELSE 0)
NodeBytes(rows, ip) == MapThenSumSet(LAMBDA r : Touches(r, ip) * Traits(r).bytes, rows)
GraphOf(rows, most, running) ==
    LET ips == UNION {Ends(r) : r \in rows}
        Busier(a, b) == NodeBytes(rows, a) > NodeBytes(rows, b)
                        \/ (NodeBytes(rows, a) = NodeBytes(rows, b) /\ a < b)
        kept == {ip \in ips : Cardinality({other \in ips : Busier(other, ip)}) < most}
        pairs == {Ends(r) : r \in rows}
    IN [nodes |-> [ip \in kept |-> MapThenSumSet(LAMBDA r : Touches(r, ip), rows)],
        edges |-> [e \in {p \in pairs : p \subseteq kept} |-> Cardinality({r \in rows : Ends(r) = e})],
        partial |-> running \/ kept # ips]

-----------------------------------------------------------------------------
ChartsInit == WorldInit /\ chart = NoChart

\* GET /estimate, /histogram and /pivot/occurrences for one query; a window of
\* too many buckets is estimated but not charted.
AskCharts(q) ==
    /\ chart = NoChart
    /\ LET ws == Windows(q)
           many == BucketCount(q) > MaxBuckets
       IN chart' =
            CASE RefusalOf(q) # "none" -> [outcome |-> RefusalOf(q)]
              [] RefusalOf(q) = "none" /\ BadRange(q) -> [outcome |-> "bad_range"]
              [] RefusalOf(q) = "none" /\ ~BadRange(q) ->
                   [outcome |-> IF many THEN "estimated" ELSE "charted", query |-> q, windows |-> ws,
                    estimate |-> Estimate(ws),
                    histogram |-> IF many THEN <<>> ELSE Histogram(ws, q),
                    series |-> IF many THEN <<>> ELSE Occurrences(ws, q)]
    /\ UNCHANGED worldVars

\* GET /searches/{id}/graph, of what a search has found: some visible rows.
AskGraph(found, most, running) ==
    /\ chart = NoChart
    /\ \A r \in found : RowVisible(r)
    /\ chart' = [outcome |-> "drawn", found |-> found, most |-> most, running |-> running,
                 graph |-> GraphOf(found, most, running)]
    /\ UNCHANGED worldVars

\* An import becomes a sensor (see ImportQueue); what was answered is history.
Import ==
    /\ 1 \notin DOMAIN imports
    /\ imports' = WithImport(imports, 1, Epoch - 2, Epoch + 1, 3)
    /\ chart' = NoChart
    /\ UNCHANGED <<clock, ledger>>

Elapse ==
    /\ clock < MaxTime
    /\ clock' = clock + 1 /\ chart' = NoChart
    /\ UNCHANGED <<imports, ledger>>

ChartsNext ==
    \/ \E q \in ChartQueries : AskCharts(q)
    \/ \E found \in SUBSET Rows, most \in NodeLimits, running \in BOOLEAN : AskGraph(found, most, running)
    \/ Import
    \/ Elapse
ChartsSpec == ChartsInit /\ [][ChartsNext]_chartVars

-----------------------------------------------------------------------------
\* The matching rows of a sensor that a query is about, by the clock.
Wanted(s, q) ==
    {r \in Matching(Stored(s)) : r.start \in Greater(q.from, DataStart) .. q.to - 1 /\ r.start <= VisibleUntil(s)}

\* Whether a sensor had captured moment t, and told it by now.
HasCaptured(s, t) ==
    /\ t >= DataStart /\ t <= VisibleUntil(s)
    /\ s \in Sensors => \A o \in Outages[s] : t \notin o[1] .. o[2] - 1

\* Nothing is lost on the way to a chart: the bars add up to the sessions that
\* match, in number and in bytes, and the series of a sensor to its own, also
\* at the edges of the window, of a bucket, of the lag and of a hole.
ChartsAddUp ==
    chart.outcome = "charted" =>
        LET q == chart.query
            ws == chart.windows
            bars == chart.histogram
        IN /\ TotalOf([k \in DOMAIN bars |-> TotalOf(bars[k].protocols)])
                 = TotalOf([i \in DOMAIN ws |-> Cardinality(Wanted(ws[i].sensor, q))])
           /\ TotalOf([k \in DOMAIN bars |-> bars[k].bytes])
                 = TotalOf([i \in DOMAIN ws |-> MapThenSumSet(LAMBDA r : Traits(r).bytes, Wanted(ws[i].sensor, q))])
           /\ \A i \in DOMAIN ws :
                 TotalOf([k \in DOMAIN chart.series[i].buckets |-> chart.series[i].buckets[k].count])
                    = Cardinality(Wanted(ws[i].sensor, q))

\* "A capture gap is not a quiet period": a bucket is left out exactly when
\* none of the sensors captured a moment of the window in it, and its coverage
\* counts the moments they did.
GapsAreTold ==
    chart.outcome = "charted" =>
        LET q == chart.query
            ws == chart.windows
            Moments(b, i) == {t \in q.from + b * q.width .. q.from + (b + 1) * q.width - 1 :
                                 t < q.to /\ HasCaptured(ws[i].sensor, t)}
            Caught(b) == TotalOf([i \in DOMAIN ws |-> Cardinality(Moments(b, i))])
            shown == {[b |-> (bar.t - q.from) \div q.width, covered |-> bar.covered] : bar \in Range(chart.histogram)}
        IN shown = {[b |-> b, covered |-> Caught(b)] :
                       b \in {k \in 0 .. BucketCount(q) - 1 : Caught(k) > 0}}

\* An estimate counts the rows exactly, never claims more matches than rows,
\* is exact when it read every row, and reads less than twice its share.
EstimateHolds ==
    chart.outcome \in {"charted", "estimated"} =>
        LET ws == chart.windows
            Total(Of(_)) == TotalOf([i \in DOMAIN ws |-> Cardinality(Of(ws[i]))])
        IN /\ chart.estimate.scanned = Total(RowsOfWindow)
           /\ chart.estimate.matches <= chart.estimate.scanned
           /\ chart.estimate.read = chart.estimate.scanned =>
                 chart.estimate.matches = Total(LAMBDA w : Wanted(w.sensor, chart.query))
           /\ chart.estimate.read <= Len(ws) * (2 * Greater(1, SampleTarget \div Greater(1, Len(ws))) - 1)

\* A graph that does not call itself partial shows every session found; one
\* that leaves addresses out keeps the busiest, and no edge leads to the others.
GraphHolds ==
    chart.outcome = "drawn" =>
        LET g == chart.graph
            left == UNION {Ends(r) : r \in chart.found} \ DOMAIN g.nodes
        IN /\ Cardinality(DOMAIN g.nodes) <= chart.most
           /\ \A e \in DOMAIN g.edges : e \subseteq DOMAIN g.nodes
           /\ \A ip \in DOMAIN g.nodes, other \in left :
                 NodeBytes(chart.found, ip) >= NodeBytes(chart.found, other)
           /\ ~g.partial => /\ ~chart.running
                            /\ TotalOf(g.edges) = Cardinality(chart.found)
                            /\ TotalOf(g.nodes) = 2 * Cardinality(chart.found)

ChartsHold == ChartsAddUp /\ GapsAreTold /\ EstimateHolds /\ GraphHolds
=============================================================================
