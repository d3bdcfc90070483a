------------------------------ MODULE UploadScan ------------------------------
(***************************************************************************)
(* Reading an uploaded capture: workspace/imports.py (read_upload,         *)
(* UploadCollector, CaptureScanner).                                       *)
(*                                                                         *)
(* The body of the request arrives in pieces of any size.  Its parts are   *)
(* collected as they come; the file is not kept but scanned for its kind   *)
(* and for the times of its first and last packet, by a machine that holds *)
(* back whatever it cannot read yet.  Bytes are counted; what they say     *)
(* follows from where they are in the file.                                *)
(***************************************************************************)
EXTENDS Integers, Sequences

CONSTANTS
    Bodies,     \* bodies: [parts, declared]; a part: [name, size, magic, records]
    MagicSize, HeaderSize, RecordSize, \* 4, 24 and 16 bytes
    MaxRecord,  \* MAX_RECORD_BYTES
    MaxUpload,  \* MAX_UPLOAD_BYTES
    MaxMeta,    \* MAX_META_BYTES
    MaxPiece    \* the most a piece of the body brings

\* Where in a file its k-th record begins.
RecordAt(file, k) ==
    LET at[i \in 1 .. Len(file.records) + 1] ==
            IF i = 1 THEN HeaderSize ELSE at[i - 1] + RecordSize + file.records[i - 1].length
    IN at[k]

\* The records are what the bytes say up to the end of the file, or up to a
\* length nobody writes.
ASSUME UploadAssumption ==
    /\ {MagicSize, HeaderSize, RecordSize, MaxUpload, MaxPiece} \subseteq Nat \ {0}
    /\ {MaxRecord, MaxMeta} \subseteq Nat
    /\ MagicSize <= HeaderSize /\ MaxPiece + MagicSize <= MaxUpload
    /\ \A b \in Bodies :
         /\ b.declared \in Nat /\ Len(b.parts) \in Nat /\ DOMAIN b.parts = 1 .. Len(b.parts)
         /\ \A k \in DOMAIN b.parts :
              LET p == b.parts[k]
              IN /\ p.size \in Nat /\ (p.name = "broken" => p.size > 0)
                 /\ p.records \in Seq([stamp : Nat, length : Nat])
                 /\ p.magic = "pcap" => \/ RecordAt(p, Len(p.records) + 1) + RecordSize > p.size
                                        \/ \E i \in DOMAIN p.records : p.records[i].length > MaxRecord

VARIABLES
    body,    \* the body of the request
    place,   \* <<the part being read, the bytes of it that have come>>
    scanner, \* CaptureScanner
    meta,    \* UploadCollector.meta: its size, -1 without one
    verdict  \* "reading", "read", or the code of the refusal

uploadVars == <<body, place, scanner, meta, verdict>>

Fewer(a, b) == IF a < b THEN a ELSE b

\* CaptureScanner.__init__()
NewScanner == [state |-> "magic", buffered |-> 0, skip |-> 0, size |-> 0, kind |-> "none", decided |-> FALSE,
               next |-> 1, first |-> -1, last |-> -1]

-----------------------------------------------------------------------------
\* The handlers of _parse(): each says what it leaves and whether to go on.
Halt(s) == [scan |-> s, go |-> FALSE]
GoOn(s) == [scan |-> s, go |-> TRUE]

\* _read_magic(): only a classic capture is looked into; the magic stays in
\* the buffer, it belongs to the header.
ReadMagic(s, file) ==
    IF s.buffered < MagicSize THEN Halt(s)
    ELSE LET found == [s EXCEPT !.decided = TRUE, !.kind = file.magic,
                                !.state = IF file.magic = "pcap" THEN "header" ELSE "done"]
         IN [scan |-> found, go |-> file.magic = "pcap"]

ReadHeader(s) ==
    IF s.buffered < HeaderSize THEN Halt(s)
    ELSE GoOn([s EXCEPT !.buffered = @ - HeaderSize, !.state = "record"])

\* _read_record(): a length nobody writes ends the scan.
ReadRecord(s, file) ==
    IF s.buffered < RecordSize THEN Halt(s)
    ELSE LET r == file.records[s.next]
         IN IF r.length > MaxRecord THEN Halt([s EXCEPT !.state = "done"])
            ELSE GoOn([s EXCEPT !.buffered = @ - RecordSize, !.skip = r.length, !.state = "payload",
                                !.next = @ + 1, !.first = IF @ = -1 THEN r.stamp ELSE @, !.last = r.stamp])

\* Mutant of ReadPayload: the rest of a payload cut by the end of a piece is
\* taken for the next record.
ReadPayloadAtOnce(s) ==
    GoOn([s EXCEPT !.buffered = @ - Fewer(s.skip, s.buffered), !.skip = 0, !.state = "record"])

\* _read_payload(): skipped as far as it has come.
ReadPayload(s) ==
    LET take == Fewer(s.skip, s.buffered)
        left == [s EXCEPT !.buffered = @ - take, !.skip = @ - take]
    IN IF left.skip > 0 THEN Halt(left) ELSE GoOn([left EXCEPT !.state = "record"])

\* _parse(): the handler of the state it is in, again while one goes on.  That
\* is less than three times and twice for each byte that is held back.
Handled(s, file) ==
    CASE s.state = "magic" -> ReadMagic(s, file)
      [] s.state = "header" -> ReadHeader(s)
      [] s.state = "record" -> ReadRecord(s, file)
      [] s.state = "payload" -> ReadPayload(s)
      [] OTHER -> Halt(s)
Continued(done, file) == IF done.go THEN Handled(done.scan, file) ELSE done
ParsedScan(s, file) ==
    LET run[i \in 0 .. 2 * s.buffered + 3] == IF i = 0 THEN GoOn(s) ELSE Continued(run[i - 1], file)
    IN run[2 * s.buffered + 3].scan

\* feed(): once the scan is over the bytes are only counted (and hashed).
Fed(s, file, n) ==
    LET counted == [s EXCEPT !.size = @ + n]
    IN IF s.state = "done" THEN counted
       ELSE ParsedScan([counted EXCEPT !.buffered = @ + n], file)

-----------------------------------------------------------------------------
\* on_headers_finished(): a part "meta" starts afresh.
StartsMeta(k) == k <= Len(body.parts) /\ body.parts[k].name = "meta"

\* read_upload(), before the body: the declared length, where there is one.
UploadInit ==
    /\ body \in Bodies
    /\ place = <<1, 0>> /\ scanner = NewScanner
    /\ meta = IF StartsMeta(1) THEN 0 ELSE -1
    /\ verdict = IF body.declared > MaxUpload THEN "too_large" ELSE "reading"

\* on_part_data(): the size before the bytes are scanned, the magic after.
TakeFile(file, n) ==
    LET fed == Fed(scanner, file, n)
    IN IF scanner.size + n > MaxUpload THEN verdict' = "too_large" /\ UNCHANGED scanner
       ELSE /\ scanner' = fed
            /\ verdict' = IF fed.decided /\ fed.kind = "none" THEN "not_a_capture" ELSE verdict
TakeMeta(n) ==
    IF meta + n > MaxMeta THEN verdict' = "bad_meta" /\ UNCHANGED meta
    ELSE meta' = meta + n /\ UNCHANGED verdict

\* A piece of the body, as much of it as belongs to one part: the parser calls
\* for each part on its own.  Parts of other names are passed over, a part
\* that is not well formed ends the upload.
Piece ==
    /\ verdict = "reading" /\ place[1] <= Len(body.parts)
    /\ LET p == body.parts[place[1]]
       IN \E n \in 1 .. Fewer(MaxPiece, p.size - place[2]) :
            /\ place' = <<place[1], place[2] + n>>
            /\ CASE p.name = "file" -> TakeFile(p, n) /\ UNCHANGED meta
                 [] p.name = "meta" -> TakeMeta(n) /\ UNCHANGED scanner
                 [] p.name = "broken" -> verdict' = "bad_multipart" /\ UNCHANGED <<scanner, meta>>
                 [] OTHER -> UNCHANGED <<scanner, meta, verdict>>
    /\ UNCHANGED body

\* on_part_end(), and the headers of the next part.
NextPart ==
    /\ verdict = "reading" /\ place[1] <= Len(body.parts)
    /\ place[2] = body.parts[place[1]].size
    /\ place' = <<place[1] + 1, 0>>
    /\ meta' = IF StartsMeta(place[1] + 1) THEN 0 ELSE meta
    /\ UNCHANGED <<body, scanner, verdict>>

\* The end of the body; the route misses a part only then.
EndOfBody ==
    /\ verdict = "reading" /\ place[1] > Len(body.parts)
    /\ verdict' = CASE ~\E k \in DOMAIN body.parts : body.parts[k].name = "file" -> "missing"
                    [] meta = -1 -> "missing"
                    [] OTHER -> "read"
    /\ UNCHANGED <<body, place, scanner, meta>>

UploadNext == Piece \/ NextPart \/ EndOfBody
UploadSpec == UploadInit /\ [][UploadNext]_uploadVars

-----------------------------------------------------------------------------
\* What a reader of the whole file would say of its first n bytes.
ReadableIn(file, n) ==
    {k \in DOMAIN file.records : /\ RecordAt(file, k) + RecordSize <= n
                                 /\ \A i \in 1 .. k : file.records[i].length <= MaxRecord}

\* However the network cuts the upload, the scan is at every moment what the
\* bytes that have come say: the same kind and the same first and last packet.
ScanExact ==
    \A k \in DOMAIN body.parts :
        LET file == body.parts[k]
            seen == ReadableIn(file, scanner.size)
        IN file.name = "file" =>
             /\ scanner.decided = (scanner.size >= MagicSize)
             /\ scanner.kind = IF scanner.decided THEN file.magic ELSE "none"
             /\ scanner.first = IF scanner.kind # "pcap" \/ seen = {} THEN -1 ELSE file.records[1].stamp
             /\ scanner.last = IF scanner.kind # "pcap" \/ seen = {} THEN -1
                               ELSE file.records[CHOOSE j \in seen : \A i \in seen : i <= j].stamp

\* And the answer does not depend on the cuts either: the first part that is
\* at fault decides, and of a file its first bytes before its length.
Fault(p) ==
    CASE p.name = "file" /\ p.size >= MagicSize /\ p.magic = "none" -> "not_a_capture"
      [] p.name = "file" /\ (p.size < MagicSize \/ p.magic # "none") /\ p.size > MaxUpload -> "too_large"
      [] p.name = "meta" /\ p.size > MaxMeta -> "bad_meta"
      [] p.name = "broken" -> "bad_multipart"
      [] OTHER -> "none"
AnswerExact ==
    verdict \notin {"reading", "missing"} =>
        LET faulty == {k \in DOMAIN body.parts : Fault(body.parts[k]) # "none"}
        IN verdict = CASE body.declared > MaxUpload -> "too_large"
                       [] body.declared <= MaxUpload /\ faulty # {} ->
                            Fault(body.parts[CHOOSE k \in faulty : \A j \in faulty : k <= j])
                       [] OTHER -> "read"

UploadIsWhole == ScanExact /\ AnswerExact
=============================================================================
