------------------------------ MODULE MCServices ------------------------------
EXTENDS Services, FilterAlgebra

CONSTANTS u1, u2, s1, k1

\* The services, and the language of the filters as one part more.
MCInit == ServicesInit /\ FilterInit /\ (part # "filters" => language = "lql")

\* Each part within its bounds.
Bounded ==
    /\ part = "cases" => time' <= 2 /\ count' = Len(Seeded)
    /\ part = "titles" => time' <= 1 /\ \A c \in DOMAIN cases' : cases'[c].version <= 2 /\ cases'[c].evidence = {}
    /\ part = "exports" =>
          /\ UNCHANGED reader /\ time' <= 2 + epoch'
          /\ \A c \in DOMAIN cases' :
               /\ cases'[c].version <= 2 /\ cases'[c].evidence = {} /\ (c # BotCase => cases'[c].version = 1)
               /\ cases'[c].title \in {"scan", "harbor", "dns"} /\ cases'[c].severity = "medium"
    /\ part = "hunts" => \A h \in DOMAIN hunts' : hunts'[h].owner = u2 \/ h = 2 => hunts'[h].version = 1
    /\ part = "limits" => UNCHANGED failures /\ tick' <= 3 /\ (u2 \in DOMAIN turns' => turns'[u2] <= 2)
    /\ part = "logins" => UNCHANGED <<hits, turns, profile>>
    /\ part = "requests" => UNCHANGED events /\ seq' < MaxSeq
    /\ part = "streams" => UNCHANGED requests /\ now' < MaxNow
MCNext ==
    \/ ServicesNext /\ Bounded /\ UNCHANGED filterVars
    \/ part = "filters" /\ FilterNext /\ UNCHANGED servicesVars
MCSpec == MCInit /\ [][MCNext]_<<servicesVars, filterVars>>

\* The world answers alike whoever asks: its sessions (WorldRepeats), its
\* detections (LedgerExact), and both at the same time (AnnouncedIsVisible).
\* What is shown of sessions adds up to them: packet files (CaptureHolds),
\* traffic samples (SamplesAddUp), charts, estimates and graphs (ChartsHold);
\* and so does what is read from an uploaded file (UploadIsWhole).  A filter
\* that is printed and read again selects the same (FiltersRoundTrip).
WorldHolds ==
    /\ part = "blocks" => WorldRepeats
    /\ part \in {"imports", "poller"} => LedgerExact /\ AnnouncedIsVisible
    /\ part = "packets" => CaptureHolds
    /\ part = "samples" => SamplesAddUp
    /\ part = "charts" => ChartsHold
    /\ part = "uploads" => UploadIsWhole
    /\ part = "filters" => FiltersRoundTrip

-----------------------------------------------------------------------------
\* One bucket as wide as a second and one that is wider.
MCMost == [b \in {"download", "enrich"} |-> IF b = "download" THEN 2 ELSE 1]
MCSpan == [b \in {"download", "enrich"} |-> IF b = "download" THEN 3 ELSE 2]
MCFixed == [b \in {"download", "enrich"} |-> IF b = "download" THEN 0 ELSE 1]
MCRoles == [c \in {u1, u2} |-> IF c = u1 THEN "analyst" ELSE "observer"]
MCAddresses == {"ana", "ANA", "eve"}
MCNormal == [a \in MCAddresses |-> IF a = "ANA" THEN "ana" ELSE a]
MCPackets == {[sensor |-> "dc-east", pcap |-> "available", file |-> "trap"],
              [sensor |-> "dmz", pcap |-> "expired", file |-> "file_purged"]}
MCProfiles == [p \in {"calm", "storm"} |->
                 [ttl |-> IF p = "storm" THEN 15 ELSE 0, degraded |-> p = "storm", faulty |-> p = "storm"]]

MCSeeded == <<[version |-> 1, title |-> "scan", severity |-> "medium", summary |-> "none",
               evidence |-> {}, notes |-> 1, created |-> -2, updated |-> -1],
              [version |-> 1, title |-> "harbor", severity |-> "medium", summary |-> "none",
               evidence |-> {}, notes |-> 1, created |-> -1, updated |-> -1]>>
\* A title, the same in capitals, and one with and without a blank before it.
MCTitles == {"scan", "SCAN", "harbor", "dns", " dns"}
MCStrip == [t \in MCTitles |-> IF t = " dns" THEN "dns" ELSE t]
MCFold == [t \in MCTitles |-> IF t = "SCAN" THEN "scan" ELSE t]
MCChanges == {[title |-> "SCAN"], [severity |-> "high"]}

MCOwners == {u1, u2}
MCOwnerOf == <<u1, u1, u2>>
MCNames == {"a", "A", " a"}
\* No If-Match, *, a version, a list.
MCTagLists == {{}, {0}, {1}, {2, 3}}
MCNameStrip == [n \in MCNames |-> IF n = " a" THEN "a" ELSE n]
MCNameFold == [n \in MCNames |-> IF n = "A" THEN "a" ELSE n]

\* Rows on a sensor without lag, and one on a sensor that lags; two pairs that
\* start together, and one row between other hosts.
MCRows == {[id |-> 1, sensor |-> 1, start |-> 3, rules |-> {1, 2}],
           [id |-> 2, sensor |-> 1, start |-> 5, rules |-> {1}],
           [id |-> 3, sensor |-> 2, start |-> 5, rules |-> {1}],
           [id |-> 4, sensor |-> 1, start |-> 5, rules |-> {}],
           [id |-> 5, sensor |-> 1, start |-> 1, rules |-> {}],
           [id |-> 6, sensor |-> 1, start |-> 1, rules |-> {}]}
MCHosts == [r \in 1 .. 6 |-> IF r = 4 THEN {1, 3} ELSE {1, 2}]
MCForeign == {[for |-> <<6, 9>>, place |-> <<1, 1>>]}
MCOutages == <<{<<2, 3>>}, {<<1, 4>>}>>
MCAbout == [r \in 1 .. 6 |-> [protocol |-> IF r % 2 = 0 THEN "tls" ELSE "dns", bytes |-> 10 - r, hit |-> r # 3,
                              src |-> r % 2, dst |-> IF r = 6 THEN 0 ELSE 2 + (r % 3)]]
MCAboutImported == [protocol |-> "tcp", bytes |-> 1, src |-> 1, dst |-> 9, hit |-> TRUE]
MCQueries == {[sensors |-> n, barred |-> b, from |-> f, to |-> t, width |-> w] :
                 n \in {<<>>, <<1>>, <<2, 1>>, <<1, 1>>, <<16>>, <<3, 1>>}, b \in {{}, {2}},
                 f \in {0, 2, 5}, t \in {3, 6, 9}, w \in {1, 2, 3}}
MCLag == [s \in {1, 2} |-> s - 1]
MCDelay == [p \in {1, 2, 3} \X {1, 2} |-> p[2]]

MCFiles == {[sha |-> 1, size |-> 1, stamped |-> TRUE, first |-> 5, last |-> 4, duration |-> 2],
            [sha |-> 2, size |-> 9, stamped |-> FALSE, first |-> 0, last |-> 0, duration |-> 1],
            [sha |-> 3, size |-> 2, stamped |-> TRUE, first |-> -3, last |-> 20, duration |-> 1]}

\* Requests as the observer sees them, by what sets them apart from a plain GET.
Plain == [method |-> "GET", path |-> "sensors", item |-> "", status |-> 200, code |-> "",
          auth |-> TRUE, origin |-> FALSE, made |-> "", body |-> 0, replayed |-> FALSE,
          wait |-> 0, limit |-> 0, cursor |-> FALSE, file |-> FALSE, sent |-> {}, shown |-> {}]
Post(path) == [Plain EXCEPT !.method = "POST", !.path = path]
MCShapes ==
    {[Post("refresh") EXCEPT !.status = 401, !.code = "refresh_reused", !.auth = FALSE],
     [Post("logout") EXCEPT !.status = 204],
     [Post("searches") EXCEPT !.status = 202, !.made = "a", !.body = 1],
     [Post("searches") EXCEPT !.status = 202, !.made = "b", !.body = 1],
     [Plain EXCEPT !.method = "DELETE", !.path = "searches/", !.item = "a"],
     [Plain EXCEPT !.path = "estimate", !.status = 429, !.wait = 1, !.code = "estimate_rate_limited"],
     [Plain EXCEPT !.path = "cases/", !.item = "c", !.shown = {<<"title", 1>>}],
     [Plain EXCEPT !.method = "PATCH", !.path = "cases/", !.item = "c", !.status = 428,
                   !.sent = {<<"title", 1>>}],
     [Plain EXCEPT !.path = "health", !.limit = 501, !.origin = TRUE],
     [Plain EXCEPT !.path = "sessions/", !.item = "s", !.status = 410, !.file = TRUE]}
MCGap == [refresh |-> 1, grace |-> 0, duplicate |-> 1, abandoned |-> 0, retry |-> 1,
          dedupe |-> 0, calm |-> 1, download |-> 0, burst |-> 0, sse |-> 1, subscribe |-> 0]

\* Three matching rows, two of them of one instant, in another order by size.
MCCaptured == {[id |-> 1, start |-> 1, bytes |-> 5, matches |-> TRUE],
               [id |-> 2, start |-> 1, bytes |-> 3, matches |-> TRUE],
               [id |-> 3, start |-> 2, bytes |-> 4, matches |-> TRUE]}

\* A field of each type; words in both cases; numbers written in two ways.
Def(numeric, ops, protocol, closed) ==
    [numeric |-> numeric, ops |-> ops, protocol |-> protocol, closed |-> closed, allowed |-> {<<"a">>}]
MCFields == << "host" >> :> Def(FALSE, {"eq", "glob", "exists"}, "any", FALSE)
         @@ << "port" >> :> Def(TRUE, {"eq", "gte", "between"}, "any", FALSE)
         @@ << "sni" >> :> Def(FALSE, {"eq", "exists"}, "tls", FALSE)
         @@ << "ip" >> :> Def(FALSE, {"eq", "cidr"}, "any", TRUE)
MCLower == "PORT" :> "port" @@ "OR" :> "or" @@ "A" :> "a"
MCNumbers == << "1" >> :> 1 @@ << "02" >> :> 2 @@ << " ", "1" >> :> 1
MCGlob == << "*" >> :> {<< "a" >>, << "b" >>, <<>>}
MCNetwork == << "1" >> :> {<< "a" >>}
MCTable == {[protocol |-> p,
             values |-> << "host" >> :> h @@ << "port" >> :> {n} @@ << "sni" >> :> s @@ << "ip" >> :> {<< "a" >>}] :
            p \in {"tls", "dns"}, h \in {{}, {<< "a" >>, << "b" >>}}, n \in {1, 2}, s \in {{}, {<< "b" >>}}}
MCChunks == [l \in {"lql", "row"} |->
    IF l = "lql"
    THEN {<< "(" >>, << ")" >>, << " ", "OR", " " >>, << "not", " " >>, << "host", "=", "A" >>,
          << "host", "=", "A", " ", "or", " ", "has", " ", "sni", " " >>,
          << "PORT", " ", "between", " ", "1" >>, << ".." >>, << "02" >>,
          << "port", " ", "in", " ", "(", "1" >>, << "," >>,
          << "host", "~", "\"" >>, << "\"" >>, << "\\" >>, << "ip", " ", "cidr", " ", "1" >>,
          << "port", "!=", "1", " " >>}
    ELSE {<< "host", ":" >>, << "port", ":", "!" >>, << "glob", ":" >>, << "gte", ":" >>, << "eq", ":" >>,
          << "exists", ":" >>, << "," >>, << "\\" >>, << "1" >>, << "*" >>, << "or" >>}]

\* Two incidents, and beacons in three rhythms.
MCSeeds == {[shift |-> s, delay |-> 2, span |-> 10, files |-> f, gaps |-> g,
            jitter |-> ("email" :> 1 @@ "contact" :> s @@ "read" :> 0 @@ "exfil" :> 2 @@ "gap" :> 1)] :
            s \in {-3, 2}, f \in {3}, g \in {<<5, 3>>, <<3, 6, 5>>}}
MCStageHours == "email" :> 9 @@ "contact" :> 9 @@ "read" :> 6 @@ "exfil" :> 5 @@ "gap" :> 2
MCStageGap == "contact" :> 2 @@ "read" :> 4 @@ "exfil" :> 4 @@ "gap" :> 4
MCAsked == {<<"hq-core", 3>>, <<"hq-core", 4>>, <<"harbor-branch", 6>>, <<"harbor-branch", 9>>, <<"dc-east", 6>>}
MCProtocols == <<"dns", "http", "tls", "smb2", "dns", "smtp", "ssh", "ntp", "tcp", "http">>
MCTraffic == [k \in {"hq-core", "harbor-branch", "dc-east"} \X (0 .. 14) \X (1 .. 4) |->
   [at |-> k[2] * 5 + k[3] * 3, protocol |-> MCProtocols[((k[2] * 3 + k[3] * 2) % 10) + 1], odd |-> (k[2] + k[3]) % 3]]
MCCurve == [s \in {"hq-core", "harbor-branch", "dc-east"} |-> [h \in 0 .. 3 |-> IF h = 0 THEN 20 ELSE 130]]
MCZone == [s \in {"hq-core", "harbor-branch", "dc-east"} |-> IF s = "hq-core" THEN 0 ELSE 1]
MCAnchors == "v1" :> 0 @@ "v2" :> 3
MCMarks == <<[rule |-> 0, row |-> 0], [rule |-> 1, row |-> 1], [rule |-> 0, row |-> 0]>>
MCSlot == "trap" :> <<"hq-core", 3>> @@ "odd" :> <<"harbor-branch", 6>>
MCIndex == "hq-core" :> 1 @@ "dc-east" :> 2 @@ "harbor-branch" :> 3

\* Sessions of every protocol, some with more bytes than a file has room for.
MCCapture(protocol, up, down, length, payload) ==
    [protocol |-> protocol, up |-> up, down |-> down, start |-> 3, end |-> 3 + length, payload |-> payload,
     transport |-> IF protocol \in {"dns", "ntp", "udp"} THEN "udp" ELSE "tcp",
     first |-> [w \in {"up", "down"} |-> IF w = "up" THEN 3900 ELSE 0]]
MCCaptures ==
    {MCCapture("dns", 80, 90, 1, [labels |-> <<3, 70>>, answers |-> a]) : a \in {<<>>, <<4, 6>>}}
    \cup {MCCapture("ntp", 90, 90, 1, 0), MCCapture("udp", 600, 0, 0, 0)}
    \cup {MCCapture("http", up, down, len, [request |-> 200, response |-> 700]) :
             up \in {0, 300, 900}, down \in {0, 701, 1500, 9000}, len \in {-2, 5}}
    \cup {MCCapture("tls", up, 900, 4, [ciphers |-> 15, extensions |-> 120, tls13 |-> v, certs |-> c]) :
             up \in {0, 1250}, v \in BOOLEAN, c \in {<<>>, <<300, 200>>}}
    \cup {MCCapture("smtp", 3000, 400, 9, [helo |-> 10, from |-> 20, recipients |-> r, headers |-> 90]) : r \in {<<>>, <<20, 25>>}}
    \cup {MCCapture("smb2", 520, down, 2, [operations |-> n, path |-> 30]) :
             n \in {<<[request |-> 9, response |-> 16]>>, [i \in 1 .. 12 |-> [request |-> 49, response |-> 17]]}, down \in {310, 2000}}
    \cup {MCCapture("ssh", 900, 900, 20, [lists |-> <<n, 20, 0>>]) : n \in {17, 30}}
    \cup {MCCapture("tcp", 74, down, 1, 0) : down \in {54, 3000}}
MCSums == {<<>>, <<65535>>, <<1, 2>>, <<65535, 65535, 1>>, <<40000, 40000, 40000>>}

\* Sessions of every kind of traffic.
MCFlow(tag, length, up, down, pu, pd) ==
    [start |-> 7, end |-> 7 + length, protocol |-> "tls", tag |-> tag, up |-> up, down |-> down,
     packetsUp |-> pu, packetsDown |-> pd]
MCFlowRows ==
    {MCFlow("", -3, 5, 9, 1, 1), MCFlow("", 0, 5, 0, 1, 0), MCFlow("", 9, 13, 7, 4, 2),
     MCFlow("", 40, 13, 17, 9, 8), MCFlow("incident.beacon", 12, 11, 31, 6, 7),
     MCFlow("incident.exfil", 30, 100, 3, 40, 5), MCFlow("", 35, 150, 30, 50, 4),
     MCFlow("herring.backup", 30, 40, 250, 12, 60)}

\* Uploads in either order, of every kind of file, whole and faulty.
MCPart(name, n) == [name |-> name, size |-> n, magic |-> "none", records |-> <<>>]
MCFile(magic, n, lengths) ==
    [name |-> "file", size |-> n, magic |-> magic,
     records |-> [i \in DOMAIN lengths |-> [stamp |-> 10 * i, length |-> lengths[i]]]]
MCBodies ==
    {[declared |-> d, parts |-> p] :
       d \in {0, 40},
       p \in {<<MCPart("meta", 3), f>> : f \in {MCFile("pcap", 26, <<0, 4, 3, 5>>), MCFile("pcap", 20, <<2, 9, 3>>),
                                               MCFile("pcapng", 12, <<>>), MCFile("none", 14, <<>>),
                                               MCFile("none", 1, <<>>), MCFile("pcap", 33, <<4, 4, 4, 4, 4>>)}}
             \cup {<<MCFile("pcap", 18, <<1, 6, 0>>), MCPart("other", 2), MCPart("meta", m)>> : m \in {2, 9}}
             \cup {<<MCFile("pcap", 9, <<1, 4>>), MCPart("broken", 1)>>, <<MCPart("meta", 2)>>, 
                   <<MCFile("pcap", 9, <<1, 4>>)>>}}
=============================================================================
