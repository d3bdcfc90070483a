-------------------------------- MODULE Cases --------------------------------
(***************************************************************************)
(* The shared cases: workspace/cases.py (CaseStore) with its routes in     *)
(* api/cases.py, and the teammate bot of workspace/bot.py, which edits one *)
(* of them on a schedule.  Every handler is synchronous, so each is one    *)
(* action; what overlaps are the users, who hold what they once read and   *)
(* write back under If-Match, and a reader who pages through the list.     *)
(***************************************************************************)
EXTENDS Integers, Sequences, FiniteSets, SequencesExt

CONSTANTS
    Users,      \* who may write cases
    Seeded,     \* the cases of _seed(), by number
    BotCase,    \* BOT_CASE_ID
    Titles,     \* the titles in use
    Strip,      \* title -> the title without blanks around it
    Fold,       \* title -> its case-folded text
    Changes,    \* what a user may put in a patch: some fields of a case
    Sessions,   \* what may be pinned as evidence
    Interval,   \* INTERVAL_S
    MaxCatchUp, \* MAX_CATCH_UP
    PageSize,   \* the reader's limit
    MaxCases, MaxVersion, LastMoment, MaxEpoch \* bounds: cases, versions, time, resets

NoCase == [id |-> 0, case |-> [version |-> -1], epoch |-> -1]

\* What a patch may say of a case (CasePatch), as far as it is kept here.
Patched == [title |-> Titles, severity |-> {"medium", "high"}, summary |-> {"none", "own"}]

ASSUME CasesAssumption ==
    /\ Seeded \in Seq([version : {1}, title : Titles, severity : {"medium", "high"},
                       summary : {"none"}, evidence : {{}}, notes : {1},
                       created : {-2, -1}, updated : {-1}])
    /\ BotCase \in 1 .. Len(Seeded)
    /\ \A c, d \in 1 .. Len(Seeded) : c # d => Fold[Seeded[c].title] # Fold[Seeded[d].title]
    /\ Strip \in [Titles -> Titles] /\ Titles \subseteq DOMAIN Fold
    /\ \A s, t \in Titles : Fold[s] = Fold[t] /\ Strip[s] = s => Strip[t] = t
    /\ {Interval, MaxCatchUp, PageSize, MaxVersion} \subseteq Nat \ {0}
    /\ {MaxCases, LastMoment, MaxEpoch} \subseteq Nat
    /\ \A change \in Changes : \A f \in DOMAIN change : f \in DOMAIN Patched /\ change[f] \in Patched[f]

VARIABLES
    cases,  \* _cases: number -> case
    count,  \* _counter
    held,   \* user -> the case last read, or NoCase, and the epoch of the read
    reader, \* a reader of the list: cases due when it began, shown, next offset
    bot,    \* TeammateBot: due, step, edits
    time,   \* the clock
    epoch   \* history: how many resets there have been

casesVars == <<cases, count, held, reader, bot, time, epoch>>

-----------------------------------------------------------------------------
\* A case as clients see it, and the fields a patch may name.
Merge(case, change) ==
    [f \in DOMAIN case |-> IF f \in DOMAIN change THEN change[f] ELSE case[f]]

\* Mutant of Renewed: pinning or removing evidence leaves the version alone.
RenewedFields(case, change) ==
    [Merge(case, change) EXCEPT !.updated = time,
        !.version = IF "evidence" \in DOMAIN change THEN case.version ELSE case.version + 1]

\* _bump(): one more version, whatever has changed.
Renewed(case, change) == [Merge(case, change) EXCEPT !.updated = time, !.version = case.version + 1]
Bump(c, change) == [cases EXCEPT ![c] = Renewed(@, change)]

\* Mutant of TitleTaken: titles are compared as they are written.
TitleWritten(title, except) ==
    \E d \in DOMAIN cases \ except : cases[d].title = title

\* _title_taken(): the new title is stripped and folded, the stored ones are
\* folded as they are.
TitleTaken(title, except) ==
    \E d \in DOMAIN cases \ except : Fold[cases[d].title] = Fold[Strip[title]]

\* matches_etag(): * (Star) matches, and so does the current version.
Star == 0
Matches(tags, c) == tags \cap {Star, cases[c].version} # {}

\* Mutant of Newer: the case changed last comes first.
ChangedLater(a, b) ==
    \/ cases[a].updated > cases[b].updated
    \/ cases[a].updated = cases[b].updated /\ a > b

\* _ordered(): newest first.  A case comes behind as many as are newer.
Newer(a, b) ==
    \/ cases[a].created > cases[b].created
    \/ cases[a].created = cases[b].created /\ a > b
Position(c) == Cardinality({d \in DOMAIN cases : Newer(d, c)})
Ordered ==
    [n \in 1 .. Cardinality(DOMAIN cases) |-> CHOOSE c \in DOMAIN cases : Position(c) = n - 1]

\* page(): the window at an offset; a cursor only when there is more.
Page(offset) ==
    SubSeq(Ordered, offset + 1,
           IF offset + PageSize < Len(Ordered) THEN offset + PageSize ELSE Len(Ordered))
NextOffset(offset) ==
    IF offset + Len(Page(offset)) < Len(Ordered) THEN offset + Len(Page(offset)) ELSE -1

-----------------------------------------------------------------------------
NoReader == [due |-> {}, seen |-> {}, next |-> -1]
BotAfter(t) == [due |-> t + Interval, step |-> 0, edits |-> 0]
Hold(u, c, case) == [held EXCEPT ![u] = [id |-> c, case |-> case, epoch |-> epoch]]

CasesInit ==
    /\ cases = Seeded
    /\ count = Len(Seeded)
    /\ held = [u \in Users |-> NoCase]
    /\ reader = NoReader
    /\ bot = BotAfter(0)
    /\ time = 0
    /\ epoch = 0

\* GET /cases/{id}.
Get(u, c) ==
    /\ held' = Hold(u, c, cases[c])
    /\ UNCHANGED <<cases, count, reader, bot, time, epoch>>

\* POST /cases.
Create(u, title) ==
    LET case == [version |-> 1, title |-> title, severity |-> "medium",
                 summary |-> "none", evidence |-> {}, notes |-> 0,
                 created |-> time, updated |-> time]
    IN /\ count < MaxCases
       /\ ~TitleTaken(title, {})
       /\ count' = count + 1
       /\ cases' = [d \in DOMAIN cases \cup {count + 1} |->
                      IF d = count + 1 THEN case ELSE cases[d]]
       /\ held' = Hold(u, count + 1, case)
       /\ UNCHANGED <<reader, bot, time, epoch>>

\* PATCH /cases/{id}, with the tag of the case the user holds or with *: an
\* older tag answers 412 together with the current case, which the user then
\* holds.  A change that names a title in use answers 409; one that changes
\* nothing bumps as well.
Patch(u, c, change, tags) ==
    /\ tags = {Star} \/ (held[u].id = c /\ tags = {held[u].case.version})
    /\ IF Matches(tags, c)
       THEN /\ "title" \in DOMAIN change => ~TitleTaken(change.title, {c})
            /\ cases[c].version < MaxVersion
            /\ cases' = Bump(c, change)
       ELSE UNCHANGED cases
    /\ held' = Hold(u, c, cases'[c])
    /\ UNCHANGED <<count, reader, bot, time, epoch>>

\* POST /cases/{id}/evidence: pinning twice changes nothing; DELETE of it:
\* unpinning what is not pinned changes nothing either.  Only the first
\* answers with the case.
Pin(u, c, s) ==
    /\ s \notin cases[c].evidence /\ cases[c].version < MaxVersion
    /\ cases' = Bump(c, [evidence |-> cases[c].evidence \cup {s}])
    /\ held' = Hold(u, c, cases'[c])
    /\ UNCHANGED <<count, reader, bot, time, epoch>>

Unpin(c, s) ==
    /\ s \in cases[c].evidence /\ cases[c].version < MaxVersion
    /\ cases' = Bump(c, [evidence |-> cases[c].evidence \ {s}])
    /\ UNCHANGED <<count, held, reader, bot, time, epoch>>

\* POST /cases/{id}/notes: the answer is the note, with the new tag; a client
\* that adopts it without reading the case again would hold a tag for a case
\* it has not seen, so here it keeps what it had.
AddNote(c) ==
    /\ cases[c].version < MaxVersion
    /\ cases' = Bump(c, [notes |-> cases[c].notes + 1])
    /\ UNCHANGED <<count, held, reader, bot, time, epoch>>

\* GET /cases, the first page and the following ones.
List ==
    /\ reader.next = -1
    /\ reader' = [due |-> DOMAIN cases, seen |-> ToSet(Page(0)), next |-> NextOffset(0)]
    /\ UNCHANGED <<cases, count, held, bot, time, epoch>>

Follow ==
    /\ reader.next # -1
    /\ reader' = [reader EXCEPT !.seen = @ \cup ToSet(Page(reader.next)),
                                !.next = NextOffset(reader.next)]
    /\ UNCHANGED <<cases, count, held, bot, time, epoch>>

-----------------------------------------------------------------------------
\* The bot.  _apply(): a note, a summary, a flipped severity in turn, the
\* patches under *.
Summary(step) == IF step \div 3 % 2 = 0 THEN "beacon" ELSE "burst"
Flipped(severity) == IF severity = "medium" THEN "high" ELSE "medium"

\* The case after n edits beginning with that of a step: what the notes add
\* up to, the last summary, and the severity flipped so many times.
BotEdited(case, step, n) ==
    LET of(kind) == {i \in step .. step + n - 1 : i % 3 = kind}
    IN [case EXCEPT !.version = @ + n,
                    !.updated = time,
                    !.notes = @ + Cardinality(of(0)),
                    !.summary = IF of(1) = {} THEN @ ELSE Summary(Max(of(1))),
                    !.severity = IF Cardinality(of(2)) % 2 = 0 THEN @ ELSE Flipped(@)]

\* Mutant of BotDue: an edit that was missed stays due.
BotDueKept(n) == bot.due + n * Interval

\* tick(): at most MAX_CATCH_UP edits; if more were due they are given up.
BotDue(n) ==
    IF time >= bot.due + n * Interval THEN time + Interval ELSE bot.due + n * Interval

BotTick ==
    LET missed == (time - bot.due) \div Interval + 1
        n == IF missed < MaxCatchUp THEN missed ELSE MaxCatchUp
    IN /\ time >= bot.due
       /\ cases[BotCase].version + n <= MaxVersion
       /\ cases' = [cases EXCEPT ![BotCase] = BotEdited(@, bot.step, n)]
       /\ bot' = [due |-> BotDue(n), step |-> bot.step + n, edits |-> bot.edits + n]
       /\ UNCHANGED <<count, held, reader, time, epoch>>

Pass ==
    /\ time < LastMoment
    /\ time' = time + 1
    /\ UNCHANGED <<cases, count, held, reader, bot, epoch>>

\* POST /__admin/reset, as far as cases and bot go.  Users keep what they
\* hold; the reader of the list begins again.
ResetCases ==
    /\ epoch < MaxEpoch
    /\ cases' = Seeded
    /\ count' = Len(Seeded)
    /\ bot' = BotAfter(time)
    /\ epoch' = epoch + 1
    /\ reader' = NoReader
    /\ UNCHANGED <<held, time>>

CaseStep ==
    \/ \E u \in Users, c \in DOMAIN cases : Get(u, c)
    \/ \E u \in Users, title \in Titles : Create(u, title)
    \/ \E u \in Users, c \in DOMAIN cases, change \in Changes :
         \E tags \in {{Star}, {held[u].case.version}} : Patch(u, c, change, tags)
    \/ \E u \in Users, c \in DOMAIN cases, s \in Sessions : Pin(u, c, s)
    \/ \E c \in DOMAIN cases, s \in Sessions : Unpin(c, s)
    \/ \E c \in DOMAIN cases : AddNote(c)
    \/ List
    \/ Follow
    \/ BotTick

CasesNext == CaseStep \/ Pass \/ ResetCases
CasesSpec == CasesInit /\ [][CasesNext]_casesVars

-----------------------------------------------------------------------------
Case == [version : 1 .. MaxVersion, title : Titles, severity : {"medium", "high"},
         summary : {"none", "beacon", "burst", "own"}, evidence : SUBSET Sessions,
         notes : Nat, created : Int, updated : Int]

\* Types; the cases are numbered without gaps, and no two of them have titles
\* that fold alike, except titles with blanks around them: _title_taken strips
\* the new title only, and compares it with titles stored as they came.
CasesTypeOK ==
    /\ count \in Nat /\ DOMAIN cases = 1 .. count
    /\ \A c \in DOMAIN cases : cases[c] \in Case
    /\ \A c, d \in DOMAIN cases :
         /\ c # d /\ Fold[cases[c].title] = Fold[cases[d].title]
         => Strip[cases[c].title] # cases[c].title
    /\ \A u \in Users : held[u].id # 0 => held[u].case \in Case /\ held[u].epoch <= epoch
    /\ time \in 0 .. LastMoment /\ epoch \in 0 .. MaxEpoch
    /\ bot.edits <= bot.step

\* A tag names one content: between two resets, a user whose tag is still the
\* current one holds exactly the case that is stored, so a patch that is let
\* through overwrites nothing its author has not seen, the bot's edits
\* included.  (A reset starts the versions again: hence the condition.)
NoLostUpdate ==
    \A u \in Users :
        /\ held[u].id # 0 /\ held[u].epoch = epoch /\ held[u].id \in DOMAIN cases
        /\ held[u].case.version = cases[held[u].id].version
        => held[u].case = cases[held[u].id]

\* A reader who follows the cursors to the end has seen every case there was
\* when it began, although others create and change cases between the pages.
PagesMissNothing == reader.next = -1 => reader.due \subseteq reader.seen

\* Whenever the bot acts, it edits a bounded number of times and leaves no
\* edit due: after a long jump of the clock it does not go on editing with
\* every poll.
BotPaced ==
    [][bot' # bot => /\ bot'.edits - bot.edits <= MaxCatchUp
                     /\ bot'.due > time]_casesVars
=============================================================================
