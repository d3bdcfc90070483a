------------------------------- MODULE Incident -------------------------------
(***************************************************************************)
(* The scripted incident: world/incident.py (Incident).                    *)
(*                                                                         *)
(* Everything is fixed when the world is made, except the beacons of the   *)
(* infected host: they have no end, so their schedule is continued just as *)
(* far as somebody asks.  Which beacon raises a detection depends on the   *)
(* ones before it, in the schedule and not in the order of the questions.  *)
(* Times are counted from the base of the session ids.                     *)
(***************************************************************************)
EXTENDS Integers, Sequences, FiniteSets, SequencesExt, FiniteSetsExt

CONSTANTS
    Seeds,       \* what a seed draws: [shift, jitter, delay, span, files, gaps]
    EpochHour,   \* the hour the capture clock starts at (epoch_ms)
    HourLen,     \* units in an hour (HOUR_MS)
    StageHours,  \* stage: how many hours before the epoch it is planned
    StageGap,    \* stage: how long after the one before it at the earliest
    ReadSpan,    \* how long the mass read lasts (20 minutes)
    GapLen,      \* CAPTURE_GAP_MINUTES
    ExfilCount,  \* how many uploads (exfil_sessions)
    ConfidentAt, \* BEACON_DETECTION_FROM
    DedupeSpan   \* BEACON_DEDUPE_MS

ASSUME IncidentAssumption ==
    /\ {EpochHour, HourLen, ReadSpan, GapLen, ExfilCount, ConfidentAt, DedupeSpan} \subseteq Nat \ {0}
    /\ \A d \in Seeds : \A i \in DOMAIN d.gaps : d.gaps[i] >= 1

VARIABLES
    seed,    \* the seed of the world, one of Seeds
    schedule \* _beacon_times, _firing and _last_fire_ms

incidentVars == <<seed, schedule>>

EpochAt == EpochHour * HourLen
Latest(a, b) == IF a > b THEN a ELSE b

-----------------------------------------------------------------------------
\* build_params(): a stage is planned for a time before the epoch, shifted and
\* jittered by the seed, but never comes too soon after the stage before it.
Planned(stage) == EpochAt - StageHours[stage] * HourLen + seed.shift + seed.jitter[stage]
EmailAt == Planned("email")
ContactAt == Latest(EmailAt + StageGap["contact"], Planned("contact"))
BeaconAt == ContactAt + seed.delay
ReadAt == Latest(BeaconAt + StageGap["read"], Planned("read"))
ExfilAt == Latest(ReadAt + StageGap["exfil"], Planned("exfil"))
ExfilEnd == ExfilAt + seed.span
GapAt == Latest(ExfilEnd + StageGap["gap"], Planned("gap"))

\* outages(): the one hole in the capture.
InGap(sensor, t) == sensor = "harbor-branch" /\ t >= GapAt /\ t < GapAt + GapLen

-----------------------------------------------------------------------------
\* A session on its way to becoming a row (RowDraft), with what the marks and
\* the tags go by.
Draft(start, length, protocol, tag) ==
    [start |-> start, end |-> start + length, protocol |-> protocol, tag |-> tag, rules |-> {},
     traits |-> {}, file |-> "none", from |-> "somebody"]

\* _email_rows(): one mail from the look-alike sender, with the attachment.
EmailRows ==
    <<[Draft(EmailAt, 1, "smtp", "incident.email") EXCEPT !.rules = {"lookalike_sender"},
                                                          !.file = "smtp_attachment"]>>

\* _first_contact_rows(): the answered query first, two that find no name after.
ContactRows ==
    [k \in 1 .. 3 |->
        [Draft(ContactAt + k - 1, 1, "dns", "incident.first_contact") EXCEPT
            !.traits = IF k = 1 THEN {"NOERROR"} ELSE {}]]

\* _smb_rows(): the files one after the other; only the first raises a detection.
ReadRows ==
    [k \in 1 .. seed.files |->
        [Draft(ReadAt + ((k - 1) * ReadSpan) \div seed.files, 1, "smb2", "incident.smb") EXCEPT
            !.rules = IF k = 1 THEN {"smb_mass_read"} ELSE {}]]

\* _denied_row(): the share it may not open.
DeniedRow == Draft(ReadAt + 1, 1, "smb2", "incident.smb_denied")

\* _exfil_rows(): the uploads, spread over the time it takes.
ExfilRows ==
    [k \in 1 .. ExfilCount |->
        Draft(ExfilAt + ((k - 1) * Latest(1, seed.span)) \div ExfilCount, 2, "tls", "incident.exfil")]

\* __init__(): the rows written down at once, by sensor and hour.
Scripted(sensor, hour) ==
    LET of == CASE sensor = "hq-core" -> EmailRows
                [] sensor = "harbor-branch" -> ContactRows \o ExfilRows
                [] OTHER -> Append(ReadRows, DeniedRow)
    IN SelectSeq(of, LAMBDA d : d.start \div HourLen = hour)

\* exfil_totals(): when the first upload starts and the last one ends.
ExfilTotals ==
    [start |-> Min({ExfilRows[k].start : k \in 1 .. ExfilCount}),
     end |-> Max({ExfilRows[k].end : k \in 1 .. ExfilCount})]

-----------------------------------------------------------------------------
\* The beacons, numbered from 0 in the code and from 1 here.
Unasked == [times |-> <<>>, firing |-> {}, last |-> 0]

\* _consider_fire(): from the twelfth on, and not soon after the last firing.
ConsiderFire(s, index, t) ==
    IF index < ConfidentAt \/ (s.last # 0 /\ t - s.last < DedupeSpan) THEN s
    ELSE [s EXCEPT !.firing = @ \cup {index}, !.last = t]

WithBeacon(s, t) == ConsiderFire([s EXCEPT !.times = Append(@, t)], Len(s.times) + 1, t)

\* The gap before the beacon of an index, from a stream of its own.
GapBefore(index) == seed.gaps[(index % Len(seed.gaps)) + 1]

\* _extend_beacons(): until the last one lies behind the time asked for.
Extended(s, until) ==
    LET begun == IF s.times = <<>> THEN WithBeacon(s, BeaconAt) ELSE s
        Step(done, i) == IF Last(done.times) > until THEN done
                         ELSE WithBeacon(done, Last(done.times) + GapBefore(Len(done.times) + 1))
        least == Min({seed.gaps[i] : i \in DOMAIN seed.gaps})
        most == (Latest(0, until - Last(begun.times)) \div least) + 1
    IN FoldLeft(Step, begun, [i \in 1 .. most |-> i])

\* _beacon_rows(): those of an hour; an hour before the first asks for nothing.
Asks(sensor, hour) == sensor = "harbor-branch" /\ (hour + 1) * HourLen > BeaconAt
BeaconRows(s, hour) ==
    LET InHour(i) == s.times[i] \div HourLen = hour
        found == SelectSeq([i \in DOMAIN s.times |-> i], InHour)
    IN [k \in DOMAIN found |->
          [Draft(s.times[found[k]], 1, "tls", "incident.beacon") EXCEPT
              !.rules = IF found[k] \in s.firing THEN {"periodic_tls_beacon"} ELSE {}]]

\* rows_for(): the schedule reaches the end of the hour before it is read.
After(s, sensor, hour) == IF Asks(sensor, hour) THEN Extended(s, (hour + 1) * HourLen) ELSE s
RowsFor(s, sensor, hour) ==
    Scripted(sensor, hour)
        \o (IF Asks(sensor, hour) THEN BeaconRows(After(s, sensor, hour), hour) ELSE <<>>)

IncidentInit == seed \in Seeds /\ schedule = Unasked

-----------------------------------------------------------------------------
\* The incident's detections do not flood the feed and do not fall silent: two
\* firings are never closer than the dedupe span, and from the twelfth beacon
\* on each one has a firing no older than the span, its own included.
FiringsSpaced ==
    /\ \A i, j \in schedule.firing : i < j => schedule.times[j] - schedule.times[i] >= DedupeSpan
    /\ \A i \in DOMAIN schedule.times :
          i >= ConfidentAt =>
              \E j \in schedule.firing : j <= i /\ (j = i \/ schedule.times[i] - schedule.times[j] < DedupeSpan)

\* The stages follow one another, and the hole in the capture hides none of
\* the evidence of the first four.
StagesInOrder ==
    /\ EmailAt < ContactAt /\ ContactAt <= BeaconAt /\ BeaconAt < ReadAt
    /\ ReadAt < ExfilAt /\ ExfilAt < ExfilEnd /\ ExfilTotals.end < GapAt
    /\ GapAt + GapLen <= EpochAt
=============================================================================
