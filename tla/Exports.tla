------------------------------- MODULE Exports -------------------------------
(***************************************************************************)
(* Exports of cases: workspace/exports.py (ExportStore) and its routes in  *)
(* api/cases.py, with the idempotency records of their scope.  An export   *)
(* is asked for by case number, finishes on a tick of the poll task or of  *)
(* any read, and packs the case as it is at that moment.                   *)
(***************************************************************************)
EXTENDS Cases

CONSTANTS
    Keys,      \* <<family, Idempotency-Key>> pairs in use
    NoKey,     \* a request without the header
    Queued,    \* QUEUED_S
    Duration,  \* DURATION_S
    Ttl,       \* TTL_S of an export
    RecordTtl, \* TTL_S of an idempotency record
    Full,      \* what percent calls 100, in the unit of the model
    MaxExports \* bound: exports between two resets

None == -1
NoArchive == [version |-> 0]

ASSUME ExportsAssumption ==
    /\ NoKey \notin Keys /\ {Queued, Ttl, MaxExports} \subseteq Nat
    /\ {Duration, RecordTtl, Full} \subseteq Nat \ {0}
    /\ Queued < Duration /\ RecordTtl <= Duration + Ttl

VARIABLES
    exports,     \* _exports, by number: ExportRecord
    exportCount, \* _counter
    records      \* IdempotencyStore._records of the scope "exports"

exportVars == <<exports, exportCount, records>>

-----------------------------------------------------------------------------
\* _expired(), _percent() of an export.
Expired(x) == x.ready # None /\ time - x.ready > Ttl

Percent(x) ==
    LET elapsed == time - x.created
        share == ((elapsed - Queued) * Full) \div (Duration - Queued)
    IN CASE x.state = "ready" -> Full
         [] x.state # "ready" /\ elapsed <= Queued -> 0
         [] OTHER -> IF share < Full THEN share ELSE Full - 1

\* build_archive(): the case and, for each session pinned to it, its row.
Archive(case) == [title |-> case.title, version |-> case.version,
                  evidence |-> case.evidence, notes |-> case.notes]

\* tick() for one export, with _finish(), which reads the case anew.
Ticked(x) ==
    LET elapsed == time - x.created
    IN CASE x.state = "ready" -> IF Expired(x) THEN [x EXCEPT !.archive = NoArchive] ELSE x
         [] x.state # "ready" /\ elapsed >= Duration ->
              [x EXCEPT !.state = "ready", !.ready = time, !.archive = Archive(cases[x.case])]
         [] OTHER -> IF elapsed > Queued THEN [x EXCEPT !.state = "running"] ELSE x
TickedAll == [e \in DOMAIN exports |-> Ticked(exports[e])]

\* _purge(), the part by age.
Fresh == {k \in DOMAIN records : time - records[k].created < RecordTtl}
Purged == [k \in Fresh |-> records[k]]

ExportsInit ==
    /\ CasesInit
    /\ exports = <<>>
    /\ exportCount = 0
    /\ records = [k \in {} |-> 0]

\* POST /cases/{id}/exports.  A key seen before with the same case answers
\* what exports.get() says of its export; with another case, 422.
Ask(c, key) ==
    LET known == key \in Fresh
        new == [case |-> c, created |-> time, title |-> cases[c].title,
                state |-> "queued", ready |-> None, archive |-> NoArchive]
    IN /\ UNCHANGED casesVars
       /\ IF known
          THEN /\ exports' = IF records[key].case = c THEN TickedAll ELSE exports
               /\ records' = Purged /\ UNCHANGED exportCount
          ELSE /\ exportCount < MaxExports
               /\ exportCount' = exportCount + 1
               /\ exports' = [e \in DOMAIN exports \cup {exportCount + 1} |->
                                IF e = exportCount + 1 THEN new ELSE exports[e]]
               /\ records' = IF key = NoKey THEN records
                             ELSE [k \in Fresh \cup {key} |->
                                     IF k = key
                                     THEN [case |-> c, value |-> exportCount + 1, created |-> time]
                                     ELSE records[k]]

\* The poll task, every 0.25 s; GET /exports/{id} and the download tick too
\* and change nothing else.
Poll ==
    /\ exports' = TickedAll
    /\ UNCHANGED <<casesVars, exportCount, records>>

\* Mutant of ResetAll: the idempotency records survive.
ResetKeepsRecords ==
    /\ ResetCases
    /\ exports' = <<>> /\ exportCount' = 0
    /\ UNCHANGED records

\* POST /__admin/reset: exports, cases, bot, idempotency, in one handler.
ResetAll ==
    /\ ResetCases
    /\ exports' = <<>>
    /\ exportCount' = 0
    /\ records' = [k \in {} |-> 0]

ExportsNext ==
    \/ (CaseStep \/ Pass) /\ UNCHANGED exportVars
    \/ \E c \in DOMAIN cases, key \in Keys \cup {NoKey} : Ask(c, key)
    \/ Poll
    \/ ResetAll

ExportsSpec == ExportsInit /\ [][ExportsNext]_<<casesVars, exportVars>>

-----------------------------------------------------------------------------
\* Types, and what the percentage tells: 100 exactly when the bundle is
\* there to be downloaded, or was.
ExportsTypeOK ==
    /\ exportCount \in Nat /\ DOMAIN exports = 1 .. exportCount
    /\ \A e \in DOMAIN exports :
         /\ exports[e].state \in {"queued", "running", "ready"}
         /\ (exports[e].state = "ready") = (exports[e].ready # None)
         /\ exports[e].archive # NoArchive => exports[e].state = "ready"
         /\ Percent(exports[e]) \in 0 .. Full
         /\ Percent(exports[e]) = Full <=> exports[e].state = "ready"
    /\ DOMAIN records \subseteq Keys

\* A retry under a key is answered with the export of the same case, and never
\* with the 404 of an export that is gone or has expired; and an export that
\* has yet to finish finds its case, or the tick would raise and end the poll
\* task for good.
ReplaysAreServed ==
    /\ \A k \in Fresh : /\ records[k].value \in DOMAIN exports
                        /\ exports[records[k].value].case = records[k].case
                        /\ ~Expired(exports[records[k].value])
    /\ \A e \in DOMAIN exports : exports[e].state # "ready" => exports[e].case \in DOMAIN cases
=============================================================================
