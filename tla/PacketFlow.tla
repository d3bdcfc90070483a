------------------------------ MODULE PacketFlow ------------------------------
(***************************************************************************)
(* How the packets of a session are made up: world/pcap.py (build_pcap,    *)
(* Conversation, PacketWriter).                                            *)
(*                                                                         *)
(* The capture keeps one row per session; a download turns it into a       *)
(* packet file: a handshake, what the protocol says, filler up to the      *)
(* bytes of the row, and the close.  The file has room for a fixed number  *)
(* of packets and whatever does not fit is cut off.  Payloads are their    *)
(* sizes; a writer that is full drops the rest without being asked.        *)
(***************************************************************************)
EXTENDS Integers, Sequences, FiniteSets, SequencesExt, FiniteSetsExt

CONSTANTS
    Captures,   \* the sessions: [protocol, transport, up, down, start, end, first, payload]
    MaxPackets, \* MAX_PACKETS
    Mss,        \* MSS
    SeqRange,     \* 2^32, the range of a sequence number
    Micros,     \* time units of a packet in one unit of a row (1000)
    LongestStep, \* the longest step between packets (2 s)
    ByteSums    \* what a header is summed up from: sequences of words

VARIABLES
    session, \* the session whose file is made
    flow,    \* Conversation and PacketWriter: [packets, seq, sent, clock]
    todo,    \* what the protocol still has to say: [way, size]
    stage    \* where build_pcap is

packetVars == <<session, flow, todo, stage>>

Ways == {"up", "down"}
Back(way) == IF way = "up" THEN "down" ELSE "up"
Larger(a, b) == IF a > b THEN a ELSE b

-----------------------------------------------------------------------------
\* Sizes of what the protocols say.
Vector(size, width) == size + width
TlsRecord(size) == 5 + size
Handshake(size) == 4 + size
SumOf(sizes) ==
    LET sum[k \in 0 .. Len(sizes)] == IF k = 0 THEN 0 ELSE sum[k - 1] + sizes[k] IN sum[Len(sizes)]

\* encode_dns_name(): a byte and at most 63 of each label, and the root.
DnsName(labels) == FoldLeft(LAMBDA n, l : n + 1 + (IF l > 63 THEN 63 ELSE l), 1, labels)
DnsQuery(p) == 12 + DnsName(p.labels) + 4
\* dns_response(): without an answer the zone's SOA takes its place.
DnsSoa(zone) == DnsName(zone) + 10 + DnsName(<<3>> \o zone) + DnsName(<<10>> \o zone) + 20
DnsResponse(p) ==
    12 + DnsName(p.labels) + 4
       + (IF p.answers = <<>> THEN DnsSoa(IF Len(p.labels) > 1 THEN Tail(p.labels) ELSE p.labels)
          ELSE FoldLeft(LAMBDA n, a : n + 12 + a, 0, p.answers))

\* client_hello(), server_hello() and _tls_flight(): version 1.3 hides what
\* follows the hello, version 1.2 shows the certificates.
ClientHello(p) ==
    Handshake(2 + 32 + Vector(32, 1) + Vector(2 * p.ciphers, 2) + Vector(1, 1) + Vector(p.extensions, 2))
ServerHello(p) == Handshake(2 + 32 + Vector(32, 1) + 2 + 1 + Vector(p.extensions, 2))
CertificateMessage(certs) ==
    Handshake(Vector(FoldLeft(LAMBDA n, c : n + Vector(c, 3), 0, certs), 3))
ServerFlight(p) ==
    TlsRecord(ServerHello(p))
       + (IF p.tls13 THEN TlsRecord(1) + TlsRecord(512)
          ELSE (IF p.certs = <<>> THEN 0 ELSE TlsRecord(CertificateMessage(p.certs)))
               + TlsRecord(Handshake(300)) + TlsRecord(Handshake(0)))

\* ssh_kexinit(): padded to a multiple of eight, with at least four bytes.
KexBody(lists) == 17 + FoldLeft(LAMBDA n, l : n + 4 + l, 0, lists) + 5
KexPadding(body) ==
    LET padding == 8 - ((body + 5) % 8) IN IF padding < 4 THEN padding + 8 ELSE padding
SshKexinit(lists) == 5 + KexBody(lists) + KexPadding(KexBody(lists))

\* smb2_message(): the session header, a body of fixed size, the path if any.
Smb2Message(body, extra) == 4 + 64 + body + extra

Says(way, size) == [way |-> way, size |-> size]

\* _smtp_exchange(): the greeting, one line per recipient, the message.
SmtpExchange(p) ==
    LET recipients == IF p.recipients = <<>> THEN <<28>> ELSE p.recipients
    IN <<Says("down", 39), Says("up", 7 + p.helo), Says("down", 60), Says("up", 14 + p.from), Says("down", 14)>>
       \o FlattenSeq([i \in DOMAIN recipients |-> <<Says("up", 12 + recipients[i]), Says("down", 14)>>])
       \o <<Says("up", 6), Says("down", 37), Says("up", p.headers + 43), Says("down", 22)>>

\* _smb2_exchange(): a request and an answer for each operation.
Smb2Exchange(p) ==
    FlattenSeq([i \in DOMAIN p.operations |->
                   <<Says("up", Smb2Message(p.operations[i].request, 2 * p.path)),
                     Says("down", Smb2Message(p.operations[i].response, 0))>>])

\* _ssh_exchange(): the two versions, then the two offers.
SshExchange(p) ==
    <<Says("up", 20), Says("down", 22), Says("up", SshKexinit(p.lists)), Says("down", SshKexinit(p.lists))>>

\* _tcp_exchange(): an unknown protocol says one thing.
TcpExchange(c) ==
    CASE c.protocol = "http" -> <<Says("up", c.payload.request), Says("down", c.payload.response)>>
      [] c.protocol = "tls" -> <<Says("up", TlsRecord(ClientHello(c.payload))),
                                 Says("down", ServerFlight(c.payload)), Says("up", TlsRecord(256))>>
      [] c.protocol = "smtp" -> SmtpExchange(c.payload)
      [] c.protocol = "smb2" -> Smb2Exchange(c.payload)
      [] c.protocol = "ssh" -> SshExchange(c.payload)
      [] OTHER -> <<Says("up", 64)>>

\* _udp_exchange(): one datagram each way.
UdpExchange(c) ==
    CASE c.protocol = "dns" -> <<Says("up", DnsQuery(c.payload)), Says("down", DnsResponse(c.payload))>>
      [] c.protocol = "ntp" -> <<Says("up", 48), Says("down", 48)>>
      [] OTHER -> [k \in 1 .. 2 |-> LET bytes == IF k = 1 THEN c.up ELSE c.down
                                   IN Says(IF k = 1 THEN "up" ELSE "down",
                                           IF bytes > 512 THEN 512 ELSE Larger(1, bytes))]

\* A header's words are no longer than the carry can be brought round in two turns.
Summable(words) == words \in Seq(0 .. 65535) /\ SumOf(words) \div 65536 <= 65535

\* Packets are many fewer than the time units of one unit of a row.
ASSUME PacketAssumption ==
    /\ {MaxPackets, Mss, SeqRange, Micros, LongestStep} \subseteq Nat \ {0} /\ MaxPackets <= Micros
    /\ \A c \in Captures :
         /\ {c.up, c.down, c.start} \subseteq Nat /\ c.end \in Int
         /\ c.first \in [Ways -> 0 .. SeqRange - 1]
         /\ c.transport = "tcp" => TcpExchange(c) \in Seq([way : Ways, size : Nat])
         /\ c.transport = "udp" => UdpExchange(c) \in [1 .. 2 -> [way : Ways, size : Nat]]
    /\ \A words \in ByteSums : Summable(words)

-----------------------------------------------------------------------------
\* _checksum(): words added with the carry brought round, and complemented.
Folded(total) == LET once == (total % 65536) + (total \div 65536)
                 IN (once % 65536) + (once \div 65536)
Checksum(words) == 65535 - Folded(SumOf(words))

\* PacketWriter
FullFile(f) == Len(f.packets) >= MaxPackets
SpanMicros == Larger(1, session.end - session.start) * Micros
StepMicros == Larger(1, IF SpanMicros \div MaxPackets > LongestStep THEN LongestStep ELSE SpanMicros \div MaxPackets)

Written(f, way, flags, size, seq, ack) ==
    [f EXCEPT !.packets = Append(@, [way |-> way, flags |-> flags, size |-> size, seq |-> seq, ack |-> ack,
                                     at |-> f.clock]),
              !.clock = @ + StepMicros]

Takes(flags, size) == size + (IF flags \cap {"SYN", "FIN"} # {} THEN 1 ELSE 0)

\* Mutant of Segment: the end of the stream takes no sequence number.
SegmentEndless(f, way, flags, size) ==
    IF FullFile(f) THEN f
    ELSE [Written(f, way, flags, size, f.seq[way], IF "ACK" \in flags THEN f.seq[Back(way)] ELSE 0)
            EXCEPT !.seq[way] = (@ + Takes(flags \ {"FIN"}, size)) % SeqRange, !.sent[way] = @ + size]

\* Conversation.segment(): written or dropped; only what is written counts.
Segment(f, way, flags, size) ==
    IF FullFile(f) THEN f
    ELSE [Written(f, way, flags, size, f.seq[way], IF "ACK" \in flags THEN f.seq[Back(way)] ELSE 0)
            EXCEPT !.seq[way] = (@ + Takes(flags, size)) % SeqRange, !.sent[way] = @ + size]

Datagram(f, way, size) ==
    IF FullFile(f) THEN f
    ELSE [Written(f, way, {}, size, 0, 0)
            EXCEPT !.sent[way] = @ + size]

\* Conversation.send(): cut into segments, each of them acknowledged.
MessageParts(size) == (size + Mss - 1) \div Mss
SendPart(f, way, size, k) ==
    LET last == k = MessageParts(size)
        part == IF last THEN size - (k - 1) * Mss ELSE Mss
        flags == IF last THEN {"PSH", "ACK"} ELSE {"ACK"}
    IN Segment(Segment(f, way, flags, part), Back(way), {"ACK"}, 0)
SentMessage(f, way, size) ==
    LET sent[k \in 0 .. MessageParts(size)] == IF k = 0 THEN f ELSE SendPart(sent[k - 1], way, size, k)
    IN sent[MessageParts(size)]

-----------------------------------------------------------------------------
\* build_pcap(), step by step.
PacketInit ==
    /\ session \in Captures
    /\ flow = [packets |-> <<>>, seq |-> session.first, sent |-> [w \in Ways |-> 0],
               clock |-> session.start * Micros]
    /\ todo = <<>>
    /\ stage = "open"

\* Conversation.handshake(), or the datagrams at once.
OpenTcp ==
    /\ stage = "open" /\ session.transport = "tcp"
    /\ flow' = Segment(Segment(Segment(flow, "up", {"SYN"}, 0), "down", {"SYN", "ACK"}, 0), "up", {"ACK"}, 0)
    /\ todo' = TcpExchange(session)
    /\ stage' = IF MaxPackets < 3 THEN "done" ELSE "talk"
    /\ UNCHANGED session
ExchangeUdp ==
    /\ stage = "open" /\ session.transport = "udp"
    /\ LET says == UdpExchange(session)
       IN flow' = Datagram(Datagram(flow, says[1].way, says[1].size), says[2].way, says[2].size)
    /\ stage' = "done"
    /\ UNCHANGED <<session, todo>>

Talk ==
    /\ stage = "talk" /\ todo # <<>>
    /\ flow' = SentMessage(flow, Head(todo).way, Head(todo).size)
    /\ todo' = Tail(todo)
    /\ UNCHANGED <<session, stage>>
EndTalk ==
    /\ stage = "talk" /\ todo = <<>>
    /\ stage' = "fill"
    /\ UNCHANGED <<session, flow, todo>>

\* _fill(): the side that lacks more of its bytes sends, the other acknowledges.
Lacks(way) == Larger(0, (IF way = "up" THEN session.up ELSE session.down) - flow.sent[way])
Fill ==
    /\ stage = "fill" /\ ~FullFile(flow) /\ \E w \in Ways : Lacks(w) > 0
    /\ LET way == IF Lacks("up") >= Lacks("down") THEN "up" ELSE "down"
           size == IF Lacks(way) > Mss THEN Mss ELSE Lacks(way)
       IN flow' = Segment(Segment(flow, way, {"PSH", "ACK"}, size), Back(way), {"ACK"}, 0)
    /\ UNCHANGED <<session, todo, stage>>

\* Conversation.finish(): closed from both sides unless the file is full.
Finalize ==
    /\ stage = "fill" /\ (FullFile(flow) \/ \A w \in Ways : Lacks(w) = 0)
    /\ flow' = Segment(Segment(Segment(flow, "up", {"FIN", "ACK"}, 0), "down", {"FIN", "ACK"}, 0), "up", {"ACK"}, 0)
    /\ stage' = "done"
    /\ UNCHANGED <<session, todo>>

PacketNext == OpenTcp \/ ExchangeUdp \/ Talk \/ EndTalk \/ Fill \/ Finalize
PacketSpec == PacketInit /\ [][PacketNext]_packetVars

-----------------------------------------------------------------------------
Frames == flow.packets
Upto(k, way) ==
    SumOf([i \in 1 .. k |-> IF Frames[i].way = way THEN Takes(Frames[i].flags, Frames[i].size) ELSE 0])

\* Whoever reassembles the file finds no hole and no overlap: each packet
\* starts where its side left off, and acknowledges exactly what the other
\* side has sent before it, across the wrap of the sequence numbers.
StreamHolds ==
    session.transport = "tcp" =>
        \A k \in DOMAIN Frames :
            /\ Frames[k].seq = (session.first[Frames[k].way] + Upto(k - 1, Frames[k].way)) % SeqRange
            /\ "ACK" \in Frames[k].flags =>
                  Frames[k].ack = (session.first[Back(Frames[k].way)] + Upto(k - 1, Back(Frames[k].way))) % SeqRange

\* A finished file has at most the packets there is room for; unless it is
\* full it carries the bytes of the row in both directions, or what the
\* protocol says where that is more, and ends with both sides closed.
FileComplete ==
    /\ Len(Frames) <= MaxPackets
    /\ (stage = "done" /\ session.transport = "tcp" /\ ~FullFile(flow)) =>
          /\ \A w \in Ways :
                flow.sent[w] = Larger(IF w = "up" THEN session.up ELSE session.down,
                                      SumOf([i \in DOMAIN TcpExchange(session) |->
                                                IF TcpExchange(session)[i].way = w
                                                THEN TcpExchange(session)[i].size ELSE 0]))
          /\ \A w \in Ways : \E p \in Range(Frames) : p.way = w /\ "FIN" \in p.flags

\* The packets lie in order within the session, or within one unit of its
\* start where the row has no length (some rows even end before they start).
StampsWithin ==
    \A k \in DOMAIN Frames :
        /\ k > 1 => Frames[k - 1].at < Frames[k].at
        /\ Frames[k].at >= session.start * Micros
        /\ Frames[k].at <= session.start * Micros + SpanMicros

\* An SSH offer is padded as its receiver demands, and a header summed up with
\* its own checksum comes to zero.
WireSums ==
    /\ \A n \in 0 .. 24 : KexPadding(n) \in 4 .. 11 /\ (5 + n + KexPadding(n)) % 8 = 0
    /\ \A words \in ByteSums : Checksum(Append(words, Checksum(words))) = 0

\* A packet file is a conversation somebody could have had.
CaptureHolds == StreamHolds /\ FileComplete /\ StampsWithin /\ WireSums
=============================================================================
