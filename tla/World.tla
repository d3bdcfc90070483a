-------------------------------- MODULE World --------------------------------
(***************************************************************************)
(* The simulated capture: world/world.py (SimWorld), world/clock.py        *)
(* (CaptureClock) and world/detections.py (DetectionLedger).               *)
(*                                                                         *)
(* The rows of the built-in sensors are a function of the seed; what moves *)
(* is the capture clock, which decides how much of them is visible, the    *)
(* imports that become sensors, and the ledger, which numbers detections   *)
(* hour by hour when somebody asks for them.  Times are whole units        *)
(* counted from the base of the session ids (id_base_ms), at which no row  *)
(* may start earlier.                                                      *)
(***************************************************************************)
EXTENDS Integers, Sequences, FiniteSets, SequencesExt, FiniteSetsExt

CONSTANTS
    Sensors,   \* the indexes of the built-in sensors
    Lag,       \* sensor: how far its tap is behind (lag_s)
    Rows,      \* their rows: [id, sensor, start, rules]
    Delay,     \* <<row id, rule>>: how long its detection is held back
    Epoch,     \* epoch_ms
    DataStart, \* data_start_ms
    Hour,      \* HOUR_MS
    Retention, \* PCAP_RETENTION_MS
    FirstImport, \* FIRST_IMPORT_SENSOR_INDEX
    MaxSessions, \* IMPORT_MAX_SESSIONS
    Horizon,   \* how far past the epoch an import may reach (30 days)
    MaxTime    \* bound: units the clock advances

ASSUME WorldAssumption ==
    /\ Sensors \subseteq 1 .. FirstImport - 1 /\ FirstImport \in Nat
    /\ Lag \in [Sensors -> Nat]
    /\ {DataStart, Epoch, MaxTime, Retention, Horizon} \subseteq Nat
    /\ {Hour, MaxSessions} \subseteq Nat \ {0} /\ DataStart % Hour = 0
    /\ IsFiniteSet(Rows) /\ \A r, q \in Rows : r.id = q.id => r = q
    /\ \A r \in Rows : {r.id, r.start} \subseteq Nat /\ r.sensor \in Sensors /\ r.start >= DataStart
    /\ \A r \in Rows : IsFiniteSet(r.rules) /\ r.rules \subseteq Int
    /\ \A r \in Rows : \A rule \in r.rules : Delay[<<r.id, rule>>] \in 1 .. Hour
    /\ \A r \in Rows : \A rule \in r.rules : Lag[r.sensor] + Delay[<<r.id, rule>>] <= Hour

VARIABLES
    clock,   \* CaptureClock.elapsed_s
    imports, \* _imports: import -> its sensor, window and rows
    ledger   \* DetectionLedger: _next_hour and _all

worldVars == <<clock, imports, ledger>>

\* CaptureClock.now_ms
Now == Epoch + clock
HourOf(t) == t \div Hour

-----------------------------------------------------------------------------
\* Sensors and their rows.
Imported == {imports[i].sensor : i \in DOMAIN imports}
ImportOf(s) == CHOOSE i \in DOMAIN imports : imports[i].sensor = s
Known == Sensors \cup Imported

\* A built-in sensor shows what is older than its lag, an import all it has;
\* visible_until_ms answers the clock for a sensor it does not know.
VisibleUntil(s) ==
    CASE s \in Imported -> imports[ImportOf(s)].last
      [] s \in Sensors -> Now - Lag[s]
      [] OTHER -> Now

\* All the rows of a sensor, seen or not: _block over every hour.
Stored(s) ==
    IF s \in Imported THEN imports[ImportOf(s)].rows ELSE {r \in Rows : r.sensor = s}

\* rows() and _slices(): what lies in the window, is visible, and belongs to
\* an hour from the start of the data on.
RowsIn(s, lo, hi) ==
    IF s \notin Known THEN {}
    ELSE {r \in Stored(s) :
            /\ r.start >= lo /\ r.start < hi /\ r.start <= VisibleUntil(s)
            /\ HourOf(r.start) >= HourOf(IF lo < DataStart THEN DataStart ELSE lo)}

\* row(): by session id.
RowVisible(r) == r \in Stored(r.sensor) /\ r.start <= VisibleUntil(r.sensor)

\* pcap_status(): imports have no packets, old sessions no longer.
PcapStatus(r) ==
    CASE r.sensor \in Imported -> "not_captured"
      [] r.start < Epoch - Retention -> "expired"
      [] OTHER -> "available"

-----------------------------------------------------------------------------
\* register_import(): the window is clamped, the rows are spread evenly over
\* it and the sensor takes the next index; a second call changes nothing.
ClampedFirst(first, last) ==
    LET earlier == IF first < last THEN first ELSE last
    IN IF earlier < 0 THEN 0 ELSE earlier
ClampedLast(first, last) ==
    LET later == IF first < last THEN last ELSE first
        cut == IF later < Epoch + Horizon THEN later ELSE Epoch + Horizon
    IN IF cut < ClampedFirst(first, last) THEN ClampedFirst(first, last) ELSE cut

Synthesised(sensor, first, last, size) ==
    LET count == IF size > MaxSessions THEN MaxSessions ELSE IF size < 1 THEN 1 ELSE size
        span == IF last - first < 1 THEN 1 ELSE last - first
    IN {[id |-> sensor * MaxSessions + k, sensor |-> sensor, rules |-> {},
         start |-> first + (k * span) \div count] : k \in 0 .. count - 1}

NextSensor(known) == FirstImport + Cardinality(DOMAIN known)

WithImport(known, i, first, last, size) ==
    LET lo == ClampedFirst(first, last)
        hi == ClampedLast(first, last)
        entry == [sensor |-> NextSensor(known), first |-> lo, last |-> hi,
                  rows |-> Synthesised(NextSensor(known), lo, hi, size)]
    IN IF i \in DOMAIN known THEN known
       ELSE [j \in DOMAIN known \cup {i} |-> IF j = i THEN entry ELSE known[j]]

NoImports == [i \in {} |-> 0]

-----------------------------------------------------------------------------
\* The detection ledger.  release_ms():
Release(r, rule) == r.start + Lag[r.sensor] + Delay[<<r.id, rule>>]
Detections == UNION {{[row |-> r, rule |-> rule] : rule \in r.rules} : r \in Rows}

\* The order of an hour's detections: by release, sensor, row and rule.
Key(d) == <<Release(d.row, d.rule), d.row.sensor, d.row.id, d.rule>>
Before(d, e) ==
    \E i \in 1 .. 4 : Key(d)[i] < Key(e)[i] /\ \A j \in 1 .. i - 1 : Key(d)[j] = Key(e)[j]
InOrder(S) ==
    LET ahead == [d \in S |-> Cardinality({e \in S : Before(e, d)})]
    IN  [n \in 1 .. Cardinality(S) |-> CHOOSE d \in S : ahead[d] = n - 1]

\* Mutant of Candidates: only the rows that start within the hour.
CandidatesOfHour(h) ==
    {d \in Detections : HourOf(d.row.start) = h /\ HourOf(Release(d.row, d.rule)) = h}

\* _build(): the detections an hour releases come from rows of that hour or
\* of the one before it, none from before the data.
Candidates(h) ==
    {d \in Detections : /\ HourOf(d.row.start) \in {h - 1, h}
                        /\ HourOf(d.row.start) >= HourOf(DataStart)
                        /\ HourOf(Release(d.row, d.rule)) = h}

\* _ensure(): every hour up to the one asked for, in order.
Built(hour) ==
    IF ledger.next > hour THEN ledger
    ELSE [next |-> hour + 1,
          all |-> ledger.all \o
                  FlattenSeq([i \in 1 .. hour - ledger.next + 1 |->
                                InOrder(Candidates(ledger.next + i - 1))])]

\* until(): as many as bisect_right counts among the ascending time stamps.
ReleasedBy(all, t) ==
    SubSeq(all, 1, Cardinality({i \in DOMAIN all : Release(all[i].row, all[i].rule) <= t}))

-----------------------------------------------------------------------------
WorldInit ==
    /\ clock = 0
    /\ imports = NoImports
    /\ ledger = [next |-> HourOf(DataStart), all |-> <<>>]

\* detections_until(), detections_after() and detections_for_row(), at the
\* present moment: all of them bring the ledger up to the hour first.
AskLedger ==
    /\ ledger.next <= HourOf(Now)
    /\ ledger' = Built(HourOf(Now))
    /\ UNCHANGED <<clock, imports>>

-----------------------------------------------------------------------------
\* However late and at whatever hours the ledger was asked, it holds exactly
\* the detections released before its next hour, numbered in the one order
\* (DetectionLedger._build looks back a single hour for delayed releases).
LedgerExact ==
    ledger.all = InOrder({d \in Detections : HourOf(Release(d.row, d.rule)) < ledger.next})

\* A detection is never announced before the session it is about can be
\* opened (release_ms adds the sensor's lag; SimWorld.row hides younger rows).
AnnouncedIsVisible ==
    \A i \in DOMAIN ReleasedBy(ledger.all, Now) : RowVisible(ReleasedBy(ledger.all, Now)[i].row)
=============================================================================
