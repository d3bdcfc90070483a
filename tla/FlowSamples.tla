----------------------------- MODULE FlowSamples -----------------------------
(***************************************************************************)
(* The traffic samples of a session: world/flows.py.                       *)
(*                                                                         *)
(* A session's bytes and packets are spread over a few buckets of its      *)
(* duration, chosen by what kind of traffic it is.  The chances it takes   *)
(* (how many samples, which buckets, which weights) are drawn from the     *)
(* seed; here they are any of a small set.                                 *)
(***************************************************************************)
EXTENDS Integers, Sequences, FiniteSets, SequencesExt, FiniteSetsExt, TLC

CONSTANTS
    FlowRows,   \* [start, end, protocol, tag, up, down, packetsUp, packetsDown]
    Widths,     \* bucket widths (bucket_ms)
    MaxSamples, \* MAX_SAMPLES
    Many, Huge, Long, \* 1 000 000 and 4 000 000 bytes, 60 000 ms
    WeightDraws \* what a weight may be drawn as

ASSUME FlowAssumption ==
    /\ {MaxSamples, Many, Huge, Long} \subseteq Nat \ {0} /\ Widths \subseteq Nat \ {0}
    /\ \A r \in FlowRows : {r.up, r.down, r.packetsUp, r.packetsDown, r.start} \subseteq Nat

VARIABLES
    sampled, \* the row and the width
    samples  \* its samples, NoSamples before

sampleVars == <<sampled, samples>>
NoSamples == <<>>

AtLeastOne(n) == IF n < 1 THEN 1 ELSE n
AtMost(n, most) == IF n > most THEN most ELSE n

\* _profile(): what kind of traffic it is.
ProfileOf(r) ==
    CASE r.tag = "incident.beacon" -> "burst"
      [] r.tag # "incident.beacon" /\ (r.tag = "incident.exfil" \/ r.up >= Many) -> "upload"
      [] r.tag \notin {"incident.beacon", "incident.exfil"} /\ r.up < Many
            /\ (r.tag = "herring.backup" \/ r.down >= Huge) -> "bulk"
      [] OTHER -> IF r.end - r.start >= Long THEN "idle" ELSE "short"

\* flow_samples(): the buckets of the duration; none where the row ends early.
BucketsOf(r, width) == (r.end - r.start) \div width + 1

\* _target_count(): no more than the buckets or the packets.
CountRange(profile) ==
    CASE profile = "burst" -> <<2, 6>>
      [] profile = "short" -> <<1, 8>>
      [] profile = "idle" -> <<6, 30>>
      [] OTHER -> <<24, MaxSamples>>
TargetCounts(r, buckets) ==
    LET low == CountRange(ProfileOf(r))[1]
        high == IF CountRange(ProfileOf(r))[2] < low THEN low ELSE CountRange(ProfileOf(r))[2]
    IN {AtLeastOne(AtMost(AtMost(wanted, buckets), AtLeastOne(r.packetsUp + r.packetsDown))) :
          wanted \in {low, high}}

\* _cluster_indices(): bursts with silence between them.
ClusterIndices(buckets, count) ==
    LET clusters == AtLeastOne(AtMost(6, AtLeastOne(count \div 3)))
        each == AtLeastOne(count \div clusters)
        span == AtLeastOne(buckets \div clusters)
        chosen(late) == {i \in UNION {{c * span + late + k : k \in 0 .. each - 1} : c \in 0 .. clusters - 1} :
                            i < buckets}
    IN {IF chosen(late) = {} THEN {0} ELSE chosen(late) : late \in {0, AtLeastOne(span - each + 1) - 1}}

\* _indices(): at the start, evenly, in clusters, or somewhere early.
IndexSets(profile, buckets, wanted) ==
    LET count == AtLeastOne(AtMost(wanted, buckets))
        head == AtLeastOne(AtMost(2 * count, buckets))
    IN CASE profile = "burst" -> {0 .. count - 1}
         [] profile \in {"upload", "bulk"} ->
              {{AtMost((i * buckets) \div count, buckets - 1) : i \in 0 .. count - 1}}
         [] profile = "idle" -> ClusterIndices(buckets, count)
         [] OTHER -> kSubset(AtMost(count, head), 0 .. head - 1)

\* _weights(): of the bytes up and of the bytes down; a burst falls off.
WeightPairs(profile, count) ==
    LET drawn == [1 .. count -> WeightDraws]
        edge(heavy) == [i \in 1 .. count |-> IF i \in heavy THEN 30 ELSE 10]
        some == IF count > 4 THEN {[i \in 1 .. count |-> w] : w \in WeightDraws} ELSE drawn
    IN CASE profile = "burst" -> {<<[i \in 1 .. count |-> 60 \div i], [i \in 1 .. count |-> 60 \div i]>>}
         [] profile = "upload" -> {<<w, edge({1, count})>> : w \in some}
         [] profile = "bulk" -> {<<edge({1}), w>> : w \in some}
         [] OTHER -> {<<w, w>> : w \in some}

\* Mutant of Spread: what is left over is given to nobody.
SpreadRounded(total, weights) ==
    LET scale == FoldLeft(+, 0, weights)
    IN [i \in DOMAIN weights |-> (total * weights[i]) \div scale]

\* _spread(): by weight, the remainder to those that lost most by rounding.
Spread(total, weights) ==
    LET scale == FoldLeft(+, 0, weights)
        whole == [i \in DOMAIN weights |-> (total * weights[i]) \div scale]
        remainder == total - FoldLeft(+, 0, whole)
        Lost(i) == (total * weights[i]) % scale
        order == SortSeq([i \in DOMAIN weights |-> i],
                         LAMBDA i, j : Lost(i) > Lost(j) \/ (Lost(i) = Lost(j) /\ i < j))
    IN [i \in DOMAIN weights |->
          whole[i] + Cardinality({step \in 0 .. remainder - 1 : order[(step % Len(order)) + 1] = i})]

\* flow_samples(): buckets that carry nothing are left out.
SamplesOf(r, width, indices, weights) ==
    LET slots == SelectSeq([k \in 1 .. Max(indices) + 1 |-> k - 1], LAMBDA i : i \in indices)
        up == Spread(r.up, weights[1])
        down == Spread(r.down, weights[2])
        packetsUp == Spread(r.packetsUp, weights[1])
        packetsDown == Spread(r.packetsDown, weights[2])
        made == [k \in DOMAIN slots |->
                   [t |-> r.start - (r.start % width) + slots[k] * width, up |-> up[k], down |-> down[k],
                    packetsUp |-> packetsUp[k], packetsDown |-> packetsDown[k]]]
    IN SelectSeq(made, LAMBDA s : s.up + s.down + s.packetsUp + s.packetsDown > 0)

SamplesInit == sampled \in FlowRows \X Widths /\ samples = NoSamples
Sample ==
    /\ samples = NoSamples
    /\ LET r == sampled[1]
           buckets == BucketsOf(r, sampled[2])
       IN \E count \in TargetCounts(r, buckets) :
            \E indices \in IndexSets(ProfileOf(r), buckets, count) :
              \E weights \in WeightPairs(ProfileOf(r), Cardinality(indices)) :
                 samples' = SamplesOf(r, sampled[2], indices, weights)
    /\ UNCHANGED sampled
SamplesSpec == SamplesInit /\ [][Sample]_sampleVars

-----------------------------------------------------------------------------
\* Whatever was drawn, the samples add up to the row, ascend by whole buckets,
\* lie within the buckets of the session, and are no more than is allowed.
SamplesAddUp ==
    samples # NoSamples =>
        LET r == sampled[1]
            width == sampled[2]
            Total(field) == FoldLeft(LAMBDA n, s : n + s[field], 0, samples)
        IN /\ Total("up") = r.up /\ Total("down") = r.down
           /\ Total("packetsUp") = r.packetsUp /\ Total("packetsDown") = r.packetsDown
           /\ Len(samples) <= MaxSamples
           /\ \A k \in DOMAIN samples :
                /\ samples[k].t % width = 0
                /\ k > 1 => samples[k - 1].t < samples[k].t
                /\ samples[k].t > r.start - width
                /\ samples[k].t <= IF r.end < r.start THEN r.start ELSE r.end
=============================================================================
