------------------------------ MODULE RowBlocks ------------------------------
(***************************************************************************)
(* How the rows of the built-in sensors come about: world/background.py    *)
(* (BackgroundGenerator), world/ids.py and the block cache and the answer  *)
(* key of world/world.py (SimWorld).                                       *)
(*                                                                         *)
(* A block is the rows of one sensor in one hour.  It is made when it is   *)
(* first asked for, whatever was asked before, from background traffic,    *)
(* the regular traffic that only looks suspicious (herrings) and the       *)
(* incident; it is then numbered and kept for good.                        *)
(***************************************************************************)
EXTENDS Incident

CONSTANTS
    Traffic,     \* <<sensor, hour, k>>: the k-th draw of its stream: [at, protocol, odd]
    Base,        \* BASE_ROWS_PER_HOUR
    Curve,       \* sensor: hour of the day: percent of the base (OFFICE_CURVE, DATACENTRE_CURVE)
    Zone,        \* sensor: hours its local time is ahead
    HoursADay, WorkDays, Weekend, \* the calendar: 24, 5, and WEEKEND_FACTOR in percent
    ScanHours, BackupHours, \* SCAN_LOCAL_HOURS, BACKUP_LOCAL_HOURS
    ScanTargets, ScanPorts, \* how many hosts a scan tries, and ports of each
    Backups,     \* BACKUP_SESSIONS_PER_HOUR
    Anchors,     \* vendor host: its offset within the period
    Period,      \* VENDOR_BEACON_PERIOD_S
    Watchful,    \* the hosts whose beacons raise detections (_vendor_detectors)
    Slack,       \* how far behind its tick a vendor beacon may start
    Marks,       \* the draws of _mark_detections, in order: [rule, row]
    SpecialSlot, \* "trap" and "odd": the <<sensor, hour>> of the two special files
    Index,       \* sensor: its index in the session ids
    MinuteLen,   \* units in a minute
    IdMinutes, IdOrdinals, \* 2^36 and 2^20: the room for a minute and an ordinal
    KeptHours,   \* hours of data before the epoch (72)
    PcapSpan,    \* PCAP_RETENTION_MS
    Asked        \* bound: the <<sensor, hour>> pairs somebody asks for

ASSUME BlocksAssumption ==
    /\ {Base, HoursADay, Period, MinuteLen, IdMinutes, IdOrdinals, PcapSpan} \subseteq Nat \ {0}
    /\ HourLen % MinuteLen = 0 /\ KeptHours \in 0 .. EpochHour
    /\ \A v \in DOMAIN Anchors : Anchors[v] \in 0 .. Period - 1

VARIABLES
    blocks, \* _blocks: what was asked for so far
    truth   \* _truth: NoTruth, or the answer key

blockVars == <<incidentVars, blocks, truth>>

StartOf(hour) == hour * HourLen
HourIndex(t) == t \div HourLen

-----------------------------------------------------------------------------
\* Background rows.  volume(): by the hour and the day where the sensor is.
LocalHour(sensor, hour) == (hour + Zone[sensor]) % HoursADay
Weekday(sensor, hour) == ((hour + Zone[sensor]) \div HoursADay) % 7
Volume(sensor, hour) ==
    Latest(1, (Base * Curve[sensor][LocalHour(sensor, hour)]
               * (IF Weekday(sensor, hour) >= WorkDays THEN Weekend ELSE 100)) \div 10000)

\* The makers, by what sets their rows apart afterwards; "odd" stands for the
\* chances they take: a name that is not found, a long session, a download.
DnsAnswer(d) == IF d.odd = 1 THEN {} ELSE {"NOERROR"}
MakeDns(d, t) == [Draft(t, 1, "dns", "") EXCEPT !.traits = DnsAnswer(d)]
MakeTls(d, t) == Draft(t, 1 + 2 * d.odd, "tls", "")
PrinterHttp(t) == [Draft(t, 1, "http", "") EXCEPT !.traits = {"GET", "cleartext_auth"}]
MakeHttp(d, t, sensor) ==
    IF sensor = "hq-core" /\ d.odd = 2 THEN PrinterHttp(t)
    ELSE [Draft(t, 2, "http", "") EXCEPT !.traits = IF d.odd = 1 THEN {} ELSE {"GET"},
                                         !.file = IF d.odd = 0 THEN "http_body" ELSE "none"]
Attachment(d) == IF d.odd = 0 THEN "smtp_attachment" ELSE "none"
MakeSmtp(d, t) == [Draft(t, 2, "smtp", "") EXCEPT !.file = Attachment(d)]
MakeSmb2(d, t) == Draft(t, 1 + d.odd, "smb2", "")
MakeSsh(d, t) == Draft(t, 2 + 2 * d.odd, "ssh", "")
MakeNtp(t) == Draft(t, 1, "ntp", "")
MakeTcp(d, t) == Draft(t, 1 + d.odd, "tcp", "")

\* _row(): the protocol is drawn, then its maker makes the row.
MakeRow(d, sensor, hour) ==
    LET t == StartOf(hour) + (d.at % HourLen)
    IN CASE d.protocol = "dns" -> MakeDns(d, t)
         [] d.protocol = "tls" -> MakeTls(d, t)
         [] d.protocol = "http" -> MakeHttp(d, t, sensor)
         [] d.protocol = "smtp" -> MakeSmtp(d, t)
         [] d.protocol = "smb2" -> MakeSmb2(d, t)
         [] d.protocol = "ssh" -> MakeSsh(d, t)
         [] d.protocol = "ntp" -> MakeNtp(t)
         [] OTHER -> MakeTcp(d, t)

\* _mark_detections(): as many draws as the budget, of a rule that has rows and
\* of one of its rows; a row drawn again for the same rule keeps the one mark.
Eligible(draft, rule) ==
    CASE rule = "cleartext_credentials" -> draft.protocol = "http" /\ "cleartext_auth" \in draft.traits
      [] rule = "rare_user_agent" -> draft.protocol = "http" /\ draft.tag = ""
      [] OTHER -> draft.protocol = "dns" /\ "NOERROR" \in draft.traits
BackgroundRules == <<"cleartext_credentials", "rare_user_agent", "dns_tunnel_suspected">>
MarkedRows(drafts) ==
    LET Pool(rule) == SelectSeq([i \in DOMAIN drafts |-> i], LAMBDA i : Eligible(drafts[i], rule))
        open == SelectSeq(BackgroundRules, LAMBDA rule : Pool(rule) # <<>>)
        Drawn(from, n) == from[(n % Len(from)) + 1]
        Mark(done, m) == [done EXCEPT ![Drawn(Pool(Drawn(open, m.rule)), m.row)].rules =
                              @ \cup {Drawn(open, m.rule)}]
    IN IF open = <<>> THEN drafts ELSE FoldLeft(Mark, drafts, Marks)

-----------------------------------------------------------------------------
\* The herrings.  _port_scan(): every port of every target in turn; the first
\* probe of a target raises a detection.
PortScan(hour) ==
    [k \in 1 .. ScanTargets * ScanPorts |->
        [Draft(StartOf(hour) + k, 0, "tcp", "herring.scan") EXCEPT
            !.rules = IF (k - 1) % ScanPorts = 0 THEN {"port_scan"} ELSE {}]]

\* _vendor_beacons(): each host on its own beat, at the ticks of the hour; a
\* beacon starts up to the slack after its tick and ends a unit after it.
TicksOf(v, hour) ==
    LET first == StartOf(hour) + ((Anchors[v] - StartOf(hour)) % Period)
        count == (StartOf(hour + 1) - first + Period - 1) \div Period
    IN [i \in 1 .. count |-> first + (i - 1) * Period]
VendorBeacons(hour) ==
    LET Beacon(v, t) ==
            LET index == (t - Anchors[v]) \div Period
                late == index % (Slack + 1)
            IN [Draft(t + late, 1 - late, "tls", "herring.vendor") EXCEPT
                   !.from = v,
                   !.rules = IF v \in Watchful /\ index % 2 = 0 THEN {"periodic_tls_beacon"} ELSE {}]
        hosts == SetToSeq(DOMAIN Anchors)
    IN FlattenSeq([k \in DOMAIN hosts |->
           [i \in DOMAIN TicksOf(hosts[k], hour) |-> Beacon(hosts[k], TicksOf(hosts[k], hour)[i])]])

\* _nightly_backup(): evenly over the hour.
NightlyBackup(hour) ==
    [k \in 1 .. Backups |->
        Draft(StartOf(hour) + (k - 1) * (HourLen \div Backups), 2, "tls", "herring.backup")]

\* _add_herrings()
Herrings(sensor, hour) ==
    CASE sensor = "hq-core" ->
            (IF LocalHour(sensor, hour) \in ScanHours THEN PortScan(hour) ELSE <<>>) \o VendorBeacons(hour)
      [] sensor = "dc-east" /\ LocalHour(sensor, hour) \in BackupHours -> NightlyBackup(hour)
      [] OTHER -> <<>>

\* _download_carrier(): a row that carries a download, or else a plain GET.
Carriers(drafts) ==
    LET downloads == {i \in DOMAIN drafts : drafts[i].file \in {"http_body", "trap", "odd"}}
        gets == {i \in DOMAIN drafts : drafts[i].protocol = "http" /\ "GET" \in drafts[i].traits}
    IN IF downloads # {} THEN downloads ELSE gets

\* _seed_special_files(): the trap and the odd name replace a carrier's file.
WithSpecials(drafts, sensor, hour) ==
    LET Put(done, name) ==
            IF SpecialSlot[name] # <<sensor, hour>> \/ Carriers(done) = {} THEN done
            ELSE [done EXCEPT ![Min(Carriers(done))].file = name]
    IN FoldLeft(Put, drafts, <<"trap", "odd">>)

-----------------------------------------------------------------------------
\* Session ids: the sensor, the minute and the ordinal within the minute.
MinuteIndex(t) == t \div MinuteLen
Encode(sensor, minute, ordinal) == (Index[sensor] * IdMinutes + minute) * IdOrdinals + ordinal
Decode(id) ==
    <<id \div (IdMinutes * IdOrdinals), (id \div IdOrdinals) % IdMinutes, id % IdOrdinals>>

\* Mutant of Clamped: a row stays where it starts.
Unclamped(draft, hour) == draft

\* _clamp_to_hour(): a row that left its hour is moved back to its edge.
Clamped(draft, hour) ==
    LET t == Min({Latest(draft.start, StartOf(hour)), StartOf(hour + 1) - 1})
    IN [draft EXCEPT !.start = t, !.end = @ + t - draft.start]

\* finalise(): in the order of their start, numbered anew in every minute.
Finalise(sensor, drafts) ==
    LET Earlier(i, j) == drafts[i].start < drafts[j].start \/ (drafts[i].start = drafts[j].start /\ i < j)
        Number(done, i) ==
            LET minute == MinuteIndex(drafts[i].start)
                ordinal == IF minute = done.minute THEN done.ordinal ELSE 0
            IN [minute |-> minute, ordinal |-> ordinal + 1,
                rows |-> Append(done.rows, [draft |-> drafts[i], id |-> Encode(sensor, minute, ordinal)])]
    IN FoldLeft(Number, [minute |-> -1, ordinal |-> 0, rows |-> <<>>],
                SortSeq([i \in DOMAIN drafts |-> i], Earlier)).rows

\* block(): the order in which a block comes about.
BlockOf(s, sensor, hour) ==
    LET drawn == [k \in 1 .. Volume(sensor, hour) |-> MakeRow(Traffic[<<sensor, hour, k>>], sensor, hour)]
        drafts == WithSpecials(MarkedRows(drawn) \o Herrings(sensor, hour), sensor, hour)
                      \o RowsFor(s, sensor, hour)
        kept == SelectSeq(drafts, LAMBDA d : ~InGap(sensor, d.start))
    IN Finalise(sensor, [k \in DOMAIN kept |-> Clamped(kept[k], hour)])

-----------------------------------------------------------------------------
\* The cache.  _block(): nothing before the data, and nothing is made twice.
World0 == [blocks |-> blocks, schedule |-> schedule]
Fetched(w, sensor, hour) ==
    IF hour < EpochHour - KeptHours \/ <<sensor, hour>> \in DOMAIN w.blocks THEN w
    ELSE [schedule |-> After(w.schedule, sensor, hour),
          blocks |-> (<<sensor, hour>> :> BlockOf(w.schedule, sensor, hour)) @@ w.blocks]
AskBlock(sensor, hour) ==
    LET w == Fetched(World0, sensor, hour)
    IN /\ blocks' = w.blocks /\ schedule' = w.schedule
       /\ UNCHANGED <<seed, truth>>

\* _tagged() and _beacon_row(): looked up in the block of the hour.
Tagged(w, sensor, t, tag) ==
    IF <<sensor, HourIndex(t)>> \notin DOMAIN w.blocks THEN <<>>
    ELSE SelectSeq(w.blocks[<<sensor, HourIndex(t)>>], LAMBDA r : r.draft.tag = tag)
BeaconRow(w, t) ==
    LET found == SelectSeq(Tagged(w, "harbor-branch", t, "incident.beacon"), LAMBDA r : r.draft.start = t)
    IN IF found = <<>> THEN 0 ELSE Head(found).id

\* _first_retained_beacon(): the first whose packets are kept and that is
\* outside the hole; the blocks are fetched as the search goes.
HasPackets(t) == t >= EpochAt - PcapSpan /\ ~InGap("harbor-branch", t)
Tried(w, t) == [w |-> w, id |-> BeaconRow(w, t)]
Try(done, t) ==
    IF done.id # 0 THEN done ELSE Tried(Fetched(done.w, "harbor-branch", HourIndex(t)), t)
FirstRetained(w) == FoldLeft(Try, [w |-> w, id |-> 0], SelectSeq(w.schedule.times, HasPackets))

\* _smb_file_count(): over the hours the mass read touches.
ReadHours == HourIndex(ReadAt) .. HourIndex(ReadAt + ReadSpan + 1)
FilesIn(w) ==
    FoldSet(LAMBDA hour, n : n + Len(Tagged(w, "dc-east", StartOf(hour), "incident.smb")), 0, ReadHours)
FileCount(w) == FoldSet(LAMBDA hour, done : Fetched(done, "dc-east", hour), w, ReadHours)

NoTruth == [email |-> 0]

\* _build_truth(): from the rows, not from the plan of the incident; w is the
\* world after the confident beacon, the retained one, and the files, were
\* looked up in turn.
ConfidentTime(w) == w.schedule.times[ConfidentAt]
Truth(w, twelfth, retained) ==
    [email |-> Head(Tagged(w, "hq-core", EmailAt, "incident.email")).id,
     contact |-> Head(Tagged(w, "harbor-branch", ContactAt, "incident.first_contact")).id,
     twelfth |-> twelfth, retained |-> retained, files |-> FilesIn(w), exfil |-> ExfilTotals]
Learn(w, twelfth, retained) ==
    truth' = Truth(w, twelfth, retained) /\ blocks' = w.blocks /\ schedule' = w.schedule
LookAtFiles(held, twelfth) == \E w \in {FileCount(held.w)} : Learn(w, twelfth, held.id)
LookAtRetained(w) == \E held \in {FirstRetained(w)} : LookAtFiles(held, BeaconRow(w, ConfidentTime(w)))
LookAtConfident(w) ==
    \E sure \in {Fetched(w, "harbor-branch", HourIndex(ConfidentTime(w)))} : LookAtRetained(sure)
Foreseen(w) == [w EXCEPT !.schedule = Extended(@, EpochAt)]
BuildTruth ==
    /\ truth = NoTruth
    /\ \E mailed \in {Fetched(World0, "hq-core", HourIndex(EmailAt))} :
          \E met \in {Fetched(mailed, "harbor-branch", HourIndex(ContactAt))} :
             \E foreseen \in {Foreseen(met)} : LookAtConfident(foreseen)
    /\ UNCHANGED seed

BlocksInit == IncidentInit /\ blocks = [k \in {} |-> <<>>] /\ truth = NoTruth
BlocksNext == BuildTruth \/ \E k \in Asked : k \notin DOMAIN blocks /\ AskBlock(k[1], k[2])
BlocksSpec == BlocksInit /\ [][BlocksNext]_blockVars

-----------------------------------------------------------------------------
\* A schedule that knows every beacon up to the end of any block there is.
FullSchedule == Extended(Unasked, StartOf(EpochHour + 1))
RowsOf(block) == {block[i] : i \in DOMAIN block}
MadeRows == UNION {RowsOf(blocks[k]) : k \in DOMAIN blocks}

\* The rows of an hour do not depend on what was asked before (the beacon
\* schedule is continued by whoever comes first; the answer key reads blocks
\* of its own), so a restart of the program shows the same sessions.
BlocksRepeat(full) == \A k \in DOMAIN blocks : blocks[k] = BlockOf(full, k[1], k[2])

\* Session ids ascend with the start, tell the sensor and the minute, and no
\* two sessions of any blocks share one, though each block numbers its own.
IdsTell ==
    /\ \A k \in DOMAIN blocks : \A i \in DOMAIN blocks[k] :
          /\ Decode(blocks[k][i].id)[1] = Index[k[1]]
          /\ Decode(blocks[k][i].id)[2] = MinuteIndex(blocks[k][i].draft.start)
          /\ i > 1 => blocks[k][i - 1].id < blocks[k][i].id
                      /\ blocks[k][i - 1].draft.start <= blocks[k][i].draft.start
    /\ Cardinality({r.id : r \in MadeRows})
          = FoldSet(LAMBDA k, n : n + Len(blocks[k]), 0, DOMAIN blocks)

\* A vendor host is heard once for each of its ticks, however the hours cut
\* its beat and wherever the start of a late beacon is clamped to.
VendorsSteady ==
    \A k \in DOMAIN blocks : k[1] = "hq-core" =>
        \A v \in DOMAIN Anchors :
            Cardinality({i \in DOMAIN blocks[k] : blocks[k][i].draft.from = v})
                = Cardinality({t \in StartOf(k[2]) .. StartOf(k[2] + 1) - 1 : t % Period = Anchors[v]})

\* The answer key names sessions that are there: the earliest contact with the
\* control server, the beacon that fires first, one whose packets are kept,
\* and as many files and such uploads as the rows show.
TruthHolds(full) ==
    truth # NoTruth =>
        LET Ref(t) == RowsOf(BlockOf(full, "harbor-branch", HourIndex(t)))
            Suspect == {r \in MadeRows : r.draft.tag \in {"incident.first_contact", "incident.beacon",
                                                           "incident.exfil"}}
            uploads == {r \in Ref(ExfilAt) \cup Ref(ExfilEnd) : r.draft.tag = "incident.exfil"}
        IN /\ \E r \in MadeRows : r.id = truth.email /\ "lookalike_sender" \in r.draft.rules
           /\ \E r \in Suspect : /\ r.id = truth.contact
                                 /\ \A other \in Suspect : r.draft.start <= other.draft.start
           /\ \E r \in Suspect : /\ r.id = truth.twelfth
                                 /\ r.draft.rules # {}
                                 /\ \A other \in Suspect : other.draft.rules # {} => r.draft.start <= other.draft.start
           /\ \E r \in Suspect : r.id = truth.retained /\ r.draft.start >= EpochAt - PcapSpan
           /\ truth.files = Cardinality({r \in MadeRows : r.draft.tag = "incident.smb"})
           /\ truth.exfil.start = Min({r.draft.start : r \in uploads})
           /\ truth.exfil.end = Max({r.draft.end : r \in uploads})

\* The world is the same whoever asks for it and in whatever order.
WorldRepeats ==
    /\ FiringsSpaced /\ StagesInOrder /\ IdsTell /\ VendorsSteady
    /\ \E full \in {FullSchedule} : BlocksRepeat(full) /\ TruthHolds(full)
=============================================================================
