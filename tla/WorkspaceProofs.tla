--------------------------- MODULE WorkspaceProofs ---------------------------
(***************************************************************************)
(* The documents and jobs of the workspace.                                *)
(*                                                                         *)
(* No update of a case is lost, for any number of users, cases, titles and *)
(* edits of the bot; nobody who edits a hunt under the version he was      *)
(* shown overwrites it unseen, for any accounts, tabs and hunts.  Of both  *)
(* the version alone tells: who holds the current one holds what is        *)
(* stored, because versions only grow and ids are not used again, but for  *)
(* resets, while a document is held.  Titles and names are free when       *)
(* they are taken (TitlesStay, OneHuntTyped): none comes twice but for     *)
(* blanks, in whatever letters.                                            *)
(*                                                                         *)
(* A retry finds the export it asked for, for any lifetimes and keys: what *)
(* a record stands for was made when the record was, so it outlives it.    *)
(* An import becomes the sensor it was promised, for any files and any     *)
(* time they take: those indexed are always the first so many.  The ledger *)
(* numbers every detection in one order, for any rows, lags and delays,    *)
(* and announces none before its session can be opened.                    *)
(***************************************************************************)
EXTENDS Cases, Hunts, Exports, ImportQueue, FiniteSetTheorems, SequenceTheorems, WellFoundedInduction, TLAPS

\* The parts of the invariant: the numbers and the versions are numbers; and
\* what a user holds since the last reset is an earlier state of a case that
\* is still there, and the same state if it has the same version.
Numbers ==
    /\ count \in Nat /\ BotCase \in 1 .. count
    /\ epoch \in Nat /\ time \in Nat
    /\ bot.due \in Int /\ bot.step \in Nat /\ bot.edits \in Nat
Versions ==
    /\ DOMAIN cases = 1 .. count
    /\ \A c \in DOMAIN cases : "version" \in DOMAIN cases[c] /\ cases[c].version \in Nat
Behind(h) ==
    /\ h.epoch \in Int /\ h.epoch <= epoch
    /\ h.epoch = epoch =>
          /\ h.id \in DOMAIN cases
          /\ h.case.version \in Nat /\ h.case.version <= cases[h.id].version
          /\ h.case.version = cases[h.id].version => h.case = cases[h.id]
HeldBehind == DOMAIN held = Users /\ \A u \in Users : held[u].id # 0 => Behind(held[u])
CasesInv == Numbers /\ Versions /\ HeldBehind

\* A patch says nothing of the version or of the date of creation.
LEMMA ChangesLeave ==
    ASSUME NEW change \in Changes
    PROVE  "version" \notin DOMAIN change /\ "created" \notin DOMAIN change
    BY CasesAssumption DEF CasesAssumption, Patched

-----------------------------------------------------------------------------
\* A step that only adds cases and raises versions, and gives users only
\* cases as they are afterwards, leaves everybody behind or up to date.
LEMMA CasesMove ==
    ASSUME CasesInv, Versions', epoch' = epoch, count' \in Nat, count <= count',
           \A c \in DOMAIN cases : cases'[c] = cases[c] \/ cases[c].version < cases'[c].version,
           DOMAIN held' = Users,
           \A u \in Users :
              \/ held'[u] = held[u]
              \/ \E c \in DOMAIN cases' : held'[u] = [id |-> c, case |-> cases'[c], epoch |-> epoch]
    PROVE  HeldBehind'
<1> SUFFICES ASSUME NEW u \in Users, held'[u].id # 0
             PROVE  Behind(held[u])'
    BY DEF HeldBehind
<1>1. CASE held'[u] = held[u]
    <2>1. Behind(held[u])
        BY <1>1 DEF CasesInv, HeldBehind
    <2>2. DOMAIN cases \subseteq DOMAIN cases'
        BY DEF CasesInv, Versions, Numbers
    <2> DEFINE h == held[u]
               now == cases'[h.id]
    <2>3. CASE h.epoch = epoch
        <3>1. h.id \in DOMAIN cases /\ h.id \in DOMAIN cases'
            BY <2>1, <2>2, <2>3 DEF Behind
        <3>2. /\ h.case.version \in Nat /\ h.case.version <= cases[h.id].version
              /\ h.case.version = cases[h.id].version => h.case = cases[h.id]
            BY <2>1, <2>3 DEF Behind
        <3>3. now = cases[h.id] \/ cases[h.id].version < now.version
            BY <3>1
        <3>4. cases[h.id].version \in Nat /\ now.version \in Nat
            BY <3>1 DEF CasesInv, Versions
        <3>5. h.case.version <= now.version /\ (h.case.version = now.version => h.case = now)
            BY <3>2, <3>3, <3>4
        <3> QED
            BY <1>1, <2>1, <3>1, <3>2, <3>5 DEF Behind
    <2>4. CASE h.epoch # epoch
        BY <1>1, <2>1, <2>4 DEF Behind
    <2> QED
        BY <2>3, <2>4
<1>2. ASSUME NEW c \in DOMAIN cases', held'[u] = [id |-> c, case |-> cases'[c], epoch |-> epoch]
      PROVE  Behind(held[u])'
    BY <1>2 DEF Behind, CasesInv, Versions, Numbers
<1> QED
    BY <1>1, <1>2

\* A patched case has the next version; the other cases are as they were.
LEMMA BumpRaises ==
    ASSUME Versions, NEW c \in DOMAIN cases, NEW change, "version" \notin DOMAIN change
    PROVE  LET after == Bump(c, change)
           IN /\ DOMAIN after = DOMAIN cases
              /\ "version" \in DOMAIN after[c] /\ after[c].version = cases[c].version + 1
              /\ \A d \in DOMAIN cases \ {c} : after[d] = cases[d]
<1> DEFINE merged == Merge(cases[c], change)
<1>1. "version" \in DOMAIN merged /\ merged.version = cases[c].version
    BY DEF Merge, Versions
<1>2. "version" \in DOMAIN Renewed(cases[c], change)
      /\ Renewed(cases[c], change).version = cases[c].version + 1
    BY <1>1 DEF Renewed
<1> QED
    BY <1>2 DEF Bump

\* The edits of the bot raise the version of its case by their number.
LEMMA BotRaises ==
    ASSUME NEW case, "version" \in DOMAIN case, case.version \in Nat,
           NEW step, NEW n \in Nat
    PROVE  LET after == BotEdited(case, step, n)
           IN "version" \in DOMAIN after /\ after.version = case.version + n
    BY DEF BotEdited

-----------------------------------------------------------------------------
\* The cases that are there from the beginning have versions.
LEMMA SeededVersions ==
    /\ DOMAIN Seeded = 1 .. Len(Seeded) /\ Len(Seeded) \in Nat
    /\ \A c \in DOMAIN Seeded : "version" \in DOMAIN Seeded[c] /\ Seeded[c].version = 1
<1> DEFINE Kind == [version : {1}, title : Titles, severity : {"medium", "high"},
                    summary : {"none"}, evidence : {{}}, notes : {1},
                    created : {-2, -1}, updated : {-1}]
<1>0. Seeded \in Seq(Kind)
    BY CasesAssumption
<1>1. Len(Seeded) \in Nat /\ DOMAIN Seeded = 1 .. Len(Seeded)
    BY <1>0
<1>2. \A c \in DOMAIN Seeded : Seeded[c] \in Kind
    <2> HIDE DEF Kind
    <2> QED
        BY <1>0
<1>3. \A c \in DOMAIN Seeded : "version" \in DOMAIN Seeded[c] /\ Seeded[c].version = 1
    BY <1>2
<1> QED
    BY <1>1, <1>3

LEMMA CasesInitially == CasesInit => CasesInv
<1> SUFFICES ASSUME CasesInit PROVE CasesInv
    OBVIOUS
<1>1. Numbers
    BY CasesAssumption DEF CasesInit, Numbers, BotAfter
<1>2. Versions
    BY SeededVersions DEF CasesInit, Versions
<1>3. HeldBehind
    BY DEF CasesInit, HeldBehind, NoCase
<1> QED
    BY <1>1, <1>2, <1>3 DEF CasesInv

\* Whoever changes one case of the present number, raising its version, and
\* perhaps hands it to a user, preserves the invariant.
LEMMA CaseChanges ==
    ASSUME CasesInv, NEW c \in DOMAIN cases,
           DOMAIN cases' = DOMAIN cases, \A d \in DOMAIN cases \ {c} : cases'[d] = cases[d],
           "version" \in DOMAIN cases'[c], cases'[c].version \in Nat,
           cases[c].version < cases'[c].version,
           held' = held \/ \E u \in Users : held' = Hold(u, c, cases'[c]),
           Numbers', UNCHANGED <<count, epoch>>
    PROVE  CasesInv'
<1>1. Versions'
    BY DEF CasesInv, Versions
<1>2. DOMAIN held' = Users
    BY DEF CasesInv, HeldBehind, Hold
<1>3. \A u \in Users :
         \/ held'[u] = held[u]
         \/ \E d \in DOMAIN cases' : held'[u] = [id |-> d, case |-> cases'[d], epoch |-> epoch]
    BY DEF CasesInv, HeldBehind, Hold
<1>4. count' \in Nat /\ count <= count'
    BY DEF CasesInv, Numbers
<1>5. HeldBehind'
    BY <1>1, <1>2, <1>3, <1>4, CasesMove
<1> QED
    BY <1>1, <1>5 DEF CasesInv

\* The bot edits at least once when it is due.
LEMMA BotEditsAtLeastOnce ==
    ASSUME Numbers, bot.due <= time
    PROVE  (time - bot.due) \div Interval + 1 \in Nat \ {0}
<1>1. time - bot.due \in Nat /\ Interval \in Nat \ {0}
    BY CasesAssumption DEF Numbers
<1>2. \A a \in Nat, b \in Nat \ {0} : a \div b \in Nat
    OBVIOUS
<1> QED
    BY <1>1, <1>2

LEMMA BotTickKeeps == ASSUME CasesInv, BotTick PROVE CasesInv'
<1> DEFINE missed == (time - bot.due) \div Interval + 1
           n == IF missed < MaxCatchUp THEN missed ELSE MaxCatchUp
<1>1. missed \in Nat \ {0} /\ MaxCatchUp \in Nat \ {0}
    BY BotEditsAtLeastOnce, CasesAssumption DEF BotTick, CasesInv, Numbers
<1>2. n \in Nat \ {0}
    BY <1>1
<1>3. /\ cases' = [cases EXCEPT ![BotCase] = BotEdited(cases[BotCase], bot.step, n)]
      /\ bot' = [due |-> BotDue(n), step |-> bot.step + n, edits |-> bot.edits + n]
      /\ UNCHANGED <<count, held, time, epoch>>
    BY DEF BotTick
<1> HIDE DEF n
<1>4. BotDue(n) \in Int
    <2>1. Interval \in Nat /\ n * Interval \in Int
        BY <1>2, CasesAssumption
    <2> QED
        BY <2>1 DEF BotDue, CasesInv, Numbers
<1>5. Numbers'
    BY <1>2, <1>3, <1>4 DEF CasesInv, Numbers
<1>6. BotCase \in DOMAIN cases
    BY DEF CasesInv, Numbers, Versions
<1>7. "version" \in DOMAIN cases[BotCase] /\ cases[BotCase].version \in Nat
    BY <1>6 DEF CasesInv, Versions
<1>8. /\ "version" \in DOMAIN cases'[BotCase]
      /\ cases'[BotCase].version = cases[BotCase].version + n
    BY <1>2, <1>3, <1>6, <1>7, BotRaises
<1>9. DOMAIN cases' = DOMAIN cases /\ \A d \in DOMAIN cases \ {BotCase} : cases'[d] = cases[d]
    BY <1>3
<1>10. cases'[BotCase].version \in Nat /\ cases[BotCase].version < cases'[BotCase].version
    BY <1>2, <1>7, <1>8
<1> QED
    BY <1>3, <1>5, <1>6, <1>8, <1>9, <1>10, CaseChanges

\* A user who reads a case holds it as it is.
LEMMA ReadKeeps ==
    ASSUME CasesInv, NEW u \in Users, NEW c \in DOMAIN cases,
           Numbers', UNCHANGED <<cases, count, epoch>>, held' = Hold(u, c, cases[c])
    PROVE  CasesInv'
<1>1. Versions'
    BY DEF CasesInv, Versions
<1>2. HeldBehind'
    <2>1. DOMAIN held' = Users /\ \A w \in Users :
             held'[w] = held[w] \/ held'[w] = [id |-> c, case |-> cases'[c], epoch |-> epoch]
        BY DEF CasesInv, HeldBehind, Hold
    <2> QED
        BY <1>1, <2>1, CasesMove DEF CasesInv, Numbers
<1> QED
    BY <1>1, <1>2 DEF CasesInv

LEMMA PatchKeeps ==
    ASSUME CasesInv, NEW u \in Users, NEW c \in DOMAIN cases, NEW change \in Changes, NEW tags,
           Patch(u, c, change, tags)
    PROVE  CasesInv'
<1>1. Numbers'
    BY DEF Patch, CasesInv, Numbers
<1>2. CASE Matches(tags, c)
    <2>1. cases' = Bump(c, change) /\ held' = Hold(u, c, cases'[c]) /\ UNCHANGED <<count, epoch>>
        BY <1>2 DEF Patch
    <2>2. /\ DOMAIN cases' = DOMAIN cases
          /\ "version" \in DOMAIN cases'[c] /\ cases'[c].version = cases[c].version + 1
          /\ \A d \in DOMAIN cases \ {c} : cases'[d] = cases[d]
        BY <2>1, BumpRaises, ChangesLeave DEF CasesInv
    <2>3. cases'[c].version \in Nat /\ cases[c].version < cases'[c].version
        BY <2>2 DEF CasesInv, Versions
    <2> QED
        BY <1>1, <2>1, <2>2, <2>3, CaseChanges
<1>3. CASE ~Matches(tags, c)
    <2>1. UNCHANGED <<cases, count, epoch>> /\ held' = Hold(u, c, cases'[c])
        BY <1>3 DEF Patch
    <2> QED
        BY <1>1, <2>1, ReadKeeps
<1> QED
    BY <1>2, <1>3

LEMMA CreateKeeps ==
    ASSUME CasesInv, NEW u \in Users, NEW title \in Titles, Create(u, title)
    PROVE  CasesInv'
<1>1. PICK case : /\ case.version = 1 /\ "version" \in DOMAIN case
                  /\ count' = count + 1
                  /\ cases' = [d \in DOMAIN cases \cup {count + 1} |->
                                 IF d = count + 1 THEN case ELSE cases[d]]
                  /\ held' = Hold(u, count + 1, case)
                  /\ UNCHANGED <<bot, time, epoch>>
    BY DEF Create
<1>2. Numbers'
    BY <1>1 DEF CasesInv, Numbers
<1>3. DOMAIN cases' = DOMAIN cases \cup {count + 1} /\ cases'[count + 1] = case
      /\ \A c \in DOMAIN cases : cases'[c] = cases[c]
    <2>1. DOMAIN cases = 1 .. count /\ count \in Nat
        BY DEF CasesInv, Numbers, Versions
    <2> QED
        BY <1>1, <2>1
<1>4. Versions'
    BY <1>1, <1>3 DEF CasesInv, Numbers, Versions
<1>5. DOMAIN held' = Users /\ \A w \in Users :
         held'[w] = held[w] \/ held'[w] = [id |-> count + 1, case |-> cases'[count + 1], epoch |-> epoch]
    BY <1>1, <1>3 DEF CasesInv, HeldBehind, Hold
<1>6. count' \in Nat /\ count <= count' /\ count + 1 \in DOMAIN cases' /\ epoch' = epoch
    BY <1>1, <1>3 DEF CasesInv, Numbers
<1>7. HeldBehind'
    BY <1>3, <1>4, <1>5, <1>6, CasesMove
<1> QED
    BY <1>2, <1>4, <1>7 DEF CasesInv

\* Evidence and notes: one change of one case.
LEMMA BumpKeeps ==
    ASSUME CasesInv, NEW c \in DOMAIN cases, NEW change, "version" \notin DOMAIN change,
           cases' = Bump(c, change),
           held' = held \/ \E u \in Users : held' = Hold(u, c, cases'[c]),
           UNCHANGED <<count, bot, time, epoch>>
    PROVE  CasesInv'
<1>1. Numbers'
    BY DEF CasesInv, Numbers
<1>2. /\ DOMAIN cases' = DOMAIN cases
      /\ "version" \in DOMAIN cases'[c] /\ cases'[c].version = cases[c].version + 1
      /\ \A d \in DOMAIN cases \ {c} : cases'[d] = cases[d]
    BY BumpRaises DEF CasesInv
<1>3. cases'[c].version \in Nat /\ cases[c].version < cases'[c].version
    BY <1>2 DEF CasesInv, Versions
<1> QED
    BY <1>1, <1>2, <1>3, CaseChanges

\* After a reset nobody holds anything of the present epoch.
LEMMA ResetKeeps == ASSUME CasesInv, ResetCases PROVE CasesInv'
<1>1. Numbers'
    BY CasesAssumption DEF CasesInv, Numbers, ResetCases, BotAfter
<1>2. Versions'
    BY SeededVersions DEF ResetCases, Versions
<1>3. HeldBehind'
    BY DEF CasesInv, Numbers, HeldBehind, Behind, ResetCases
<1> QED
    BY <1>1, <1>2, <1>3 DEF CasesInv

\* What is not read by the invariant may change at will, and time may pass.
LEMMA OthersKeep ==
    ASSUME CasesInv, UNCHANGED <<cases, count, held, bot, epoch>>, time' \in Nat
    PROVE  CasesInv'
    BY DEF CasesInv, Numbers, Versions, HeldBehind, Behind

LEMMA CasesStepKeeps == ASSUME CasesInv, [CasesNext]_casesVars PROVE CasesInv'
<1>1. ASSUME NEW u \in Users, NEW c \in DOMAIN cases, Get(u, c)
      PROVE  CasesInv'
    <2>1. Numbers'
        BY <1>1 DEF Get, CasesInv, Numbers
    <2> QED
        BY <1>1, <2>1, ReadKeeps DEF Get
<1>2. ASSUME NEW c \in DOMAIN cases, NEW s \in Sessions,
             (\E u \in Users : Pin(u, c, s)) \/ Unpin(c, s) \/ AddNote(c)
      PROVE  CasesInv'
    <2>1. CASE \E u \in Users : Pin(u, c, s)
        BY <2>1, BumpKeeps DEF Pin
    <2>2. CASE Unpin(c, s)
        BY <2>2, BumpKeeps DEF Unpin
    <2>3. CASE AddNote(c)
        BY <2>3, BumpKeeps DEF AddNote
    <2> QED
        BY <1>2, <2>1, <2>2, <2>3
<1>3. ASSUME NEW c \in DOMAIN cases, AddNote(c)
      PROVE  CasesInv'
    BY <1>3, BumpKeeps DEF AddNote
<1>4. CASE List \/ Follow \/ Pass \/ UNCHANGED casesVars
    <2>1. UNCHANGED <<cases, count, held, bot, epoch>> /\ time' \in Nat
        BY <1>4 DEF List, Follow, Pass, casesVars, CasesInv, Numbers
    <2> QED
        BY <2>1, OthersKeep
<1> QED
    BY <1>1, <1>2, <1>3, <1>4, CreateKeeps, PatchKeeps, BotTickKeeps, ResetKeeps
       DEF CasesNext, CaseStep

-----------------------------------------------------------------------------
\* The invariant holds throughout.
LEMMA CasesInvariant == CasesSpec => []CasesInv
<1>1. CasesInit => CasesInv
    BY CasesInitially
<1>2. CasesInv /\ [CasesNext]_casesVars => CasesInv'
    BY CasesStepKeeps
<1> QED
    BY <1>1, <1>2, PTL DEF CasesSpec

\* No update is lost: a user whose version is the current one holds the case
\* that is stored (CaseStore.patch behind If-Match, and the bot's edits).
THEOREM UpdatesAreSeen == CasesSpec => []NoLostUpdate
<1>1. CasesInv => NoLostUpdate
    BY DEF CasesInv, HeldBehind, Behind, NoLostUpdate
<1> QED
    BY <1>1, CasesInvariant, PTL

\* However long the bot was not polled, it edits a bounded number of times and
\* then leaves nothing due (TeammateBot.tick and reset).
THEOREM BotIsPaced == CasesSpec => BotPaced
<1> DEFINE Paced == bot' # bot => bot'.edits - bot.edits <= MaxCatchUp /\ bot'.due > time
           missed == (time - bot.due) \div Interval + 1
           n == IF missed < MaxCatchUp THEN missed ELSE MaxCatchUp
<1>1. ASSUME CasesInv, BotTick PROVE Paced
    <2>1. missed \in Nat \ {0} /\ MaxCatchUp \in Nat \ {0}
        BY <1>1, BotEditsAtLeastOnce, CasesAssumption DEF BotTick, CasesInv, Numbers
    <2>2. n \in Nat \ {0} /\ n <= MaxCatchUp
        BY <2>1
    <2>3. bot' = [due |-> BotDue(n), step |-> bot.step + n, edits |-> bot.edits + n]
        BY <1>1 DEF BotTick
    <2> HIDE DEF n
    <2>4. BotDue(n) > time
        <3>1. Interval \in Nat \ {0} /\ n * Interval \in Int
            BY <2>2, CasesAssumption
        <3> QED
            BY <1>1, <3>1 DEF BotDue, CasesInv, Numbers
    <2> QED
        BY <1>1, <2>2, <2>3, <2>4 DEF CasesInv, Numbers
<1>2. ASSUME CasesInv, ResetCases PROVE Paced
    <2>1. bot'.due = time + Interval /\ bot'.edits = 0
        BY <1>2 DEF ResetCases, BotAfter
    <2>2. /\ bot.edits \in Nat /\ time \in Nat /\ MaxCatchUp \in Nat
          /\ Interval \in Nat \ {0}
        BY <1>2, CasesAssumption DEF CasesInv, Numbers
    <2> QED
        BY <2>1, <2>2
<1>3. CasesInv /\ [CasesNext]_casesVars
         => (bot' # bot => /\ bot'.edits - bot.edits <= MaxCatchUp
                           /\ bot'.due > time)
    <2> SUFFICES ASSUME CasesInv, [CasesNext]_casesVars PROVE Paced
        OBVIOUS
    <2>1. BotTick \/ ResetCases \/ bot' = bot
        BY DEF CasesNext, CaseStep, Get, Create, Patch, Pin, Unpin, AddNote, List, Follow,
                    Pass, casesVars
    <2> QED
        BY <1>1, <1>2, <2>1
<1> QED
    BY <1>3, CasesInvariant, PTL DEF CasesSpec, BotPaced

-----------------------------------------------------------------------------
\* The order of the list, for the cases of a moment: what is newer, and how
\* many are newer than one.
NewerIn(all, a, b) ==
    all[a].created > all[b].created \/ (all[a].created = all[b].created /\ a > b)
PositionIn(all, c) == Cardinality({d \in DOMAIN all : NewerIn(all, d, c)})
Dated(all) ==
    /\ IsFiniteSet(DOMAIN all) /\ DOMAIN all \subseteq Nat
    /\ \A c \in DOMAIN all : "created" \in DOMAIN all[c] /\ all[c].created \in Int

\* No two cases have one position, and the positions are those of the list.
LEMMA PositionsDiffer ==
    ASSUME NEW all, Dated(all)
    PROVE  /\ \A c \in DOMAIN all : PositionIn(all, c) \in Nat /\ PositionIn(all, c) < Cardinality(DOMAIN all)
           /\ \A c, d \in DOMAIN all : PositionIn(all, c) = PositionIn(all, d) => c = d
<1> DEFINE Ahead(c) == {d \in DOMAIN all : NewerIn(all, d, c)}
<1>1. ASSUME NEW c \in DOMAIN all
      PROVE  /\ IsFiniteSet(Ahead(c)) /\ Cardinality(Ahead(c)) \in Nat
             /\ Cardinality(Ahead(c)) < Cardinality(DOMAIN all)
    <2>1. Ahead(c) \subseteq DOMAIN all /\ c \notin Ahead(c)
        BY DEF NewerIn, Dated
    <2>2. IsFiniteSet(DOMAIN all)
        BY DEF Dated
    <2> HIDE DEF Ahead
    <2>3. IsFiniteSet(Ahead(c)) /\ Cardinality(Ahead(c)) <= Cardinality(DOMAIN all)
          /\ (Cardinality(DOMAIN all) = Cardinality(Ahead(c)) => Ahead(c) = DOMAIN all)
        BY <2>1, <2>2, FS_Subset
    <2>4. Cardinality(Ahead(c)) \in Nat /\ Cardinality(DOMAIN all) \in Nat
        BY <2>2, <2>3, FS_CardinalityType
    <2> QED
        BY <2>1, <2>3, <2>4
<1>2. ASSUME NEW c \in DOMAIN all, NEW d \in DOMAIN all, NewerIn(all, c, d)
      PROVE  Cardinality(Ahead(c)) < Cardinality(Ahead(d))
    <2>1. Ahead(c) \subseteq Ahead(d) /\ c \in Ahead(d) /\ c \notin Ahead(c)
        BY <1>2 DEF NewerIn, Dated
    <2>2. IsFiniteSet(Ahead(d)) /\ Cardinality(Ahead(d)) \in Nat /\ Cardinality(Ahead(c)) \in Nat
        BY <1>1
    <2> HIDE DEF Ahead
    <2>3. Cardinality(Ahead(c)) <= Cardinality(Ahead(d))
          /\ (Cardinality(Ahead(d)) = Cardinality(Ahead(c)) => Ahead(c) = Ahead(d))
        BY <2>1, <2>2, FS_Subset
    <2> QED
        BY <2>1, <2>2, <2>3
<1>3. \A c, d \in DOMAIN all : c # d => NewerIn(all, c, d) \/ NewerIn(all, d, c)
    BY DEF NewerIn, Dated
<1>4. \A c \in DOMAIN all : PositionIn(all, c) = Cardinality(Ahead(c))
    BY DEF PositionIn
<1> HIDE DEF Ahead
<1> QED
    BY <1>1, <1>2, <1>3, <1>4

\* While cases are only added, none moves forward in the list.
LEMMA PositionsOnlyGrow ==
    ASSUME NEW all, NEW more, Dated(all), Dated(more), DOMAIN all \subseteq DOMAIN more,
           \A c \in DOMAIN all : more[c].created = all[c].created
    PROVE  \A c \in DOMAIN all : PositionIn(all, c) <= PositionIn(more, c)
<1> TAKE c \in DOMAIN all
<1> DEFINE A == {d \in DOMAIN all : NewerIn(all, d, c)}
           B == {d \in DOMAIN more : NewerIn(more, d, c)}
<1>1. A \subseteq B /\ B \subseteq DOMAIN more
    BY DEF NewerIn
<1>2. IsFiniteSet(DOMAIN more)
    BY DEF Dated
<1>3. PositionIn(all, c) = Cardinality(A) /\ PositionIn(more, c) = Cardinality(B)
    BY DEF PositionIn
<1> HIDE DEF A, B
<1>4. IsFiniteSet(B)
    BY <1>1, <1>2, FS_Subset
<1> QED
    BY <1>1, <1>3, <1>4, FS_Subset

\* A page shows what has its places.
LEMMA OrderedListsAll ==
    ASSUME Dated(cases)
    PROVE  /\ Ordered \in Seq({Ordered[k] : k \in 1 .. Cardinality(DOMAIN cases)})
           /\ Len(Ordered) = Cardinality(DOMAIN cases)
<1> DEFINE n == Cardinality(DOMAIN cases)
<1>1. n \in Nat
    BY FS_CardinalityType DEF Dated
<1> HIDE DEF n
<1>2. Ordered = [k \in 1 .. n |-> Ordered[k]]
    BY DEF Ordered, n
<1>3. Ordered \in Seq({Ordered[k] : k \in 1 .. n}) /\ Len(Ordered) = n
    BY <1>1, <1>2
<1> QED
    BY <1>3 DEF n

LEMMA PageShows ==
    ASSUME Dated(cases), NEW from \in Nat, NEW c \in DOMAIN cases,
           from <= PositionIn(cases, c), PositionIn(cases, c) < from + PageSize
    PROVE  c \in ToSet(Page(from))
<1> DEFINE n == Cardinality(DOMAIN cases)
           m == PositionIn(cases, c) + 1
<1>0. Len(Ordered) = n
    BY OrderedListsAll
<1>1. n \in Nat /\ PageSize \in Nat
    BY FS_CardinalityType, CasesAssumption DEF Dated
<1>2. PositionIn(cases, c) \in Nat /\ m \in 1 .. n
    BY <1>1, PositionsDiffer
<1>3. \A d \in DOMAIN cases : Position(d) = PositionIn(cases, d)
    BY DEF Position, PositionIn, Newer, NewerIn
<1>4. Ordered[m] = c
    <2>1. Ordered[m] = CHOOSE d \in DOMAIN cases : Position(d) = m - 1
        BY <1>2 DEF Ordered
    <2>2. m - 1 = PositionIn(cases, c)
        BY <1>2
    <2>3. \A d \in DOMAIN cases : Position(d) = m - 1 => d = c
        BY <1>3, <2>2, PositionsDiffer
    <2> QED
        BY <1>3, <2>1, <2>2, <2>3
<1>5. Ordered \in Seq({Ordered[k] : k \in 1 .. n}) /\ Len(Ordered) = n
    BY <1>1, OrderedListsAll
<1>6. PICK list, end :
        /\ list = Ordered /\ end = (IF from + PageSize < n THEN from + PageSize ELSE n)
        /\ Page(from) = SubSeq(list, from + 1, end)
    BY <1>0 DEF Page
<1> HIDE DEF n, m
<1>7. m \in from + 1 .. end /\ end \in 1 .. n /\ from + 1 \in 1 .. n
    BY <1>1, <1>2, <1>6 DEF m
<1>8. Page(from)[m - from] = c /\ m - from \in DOMAIN Page(from)
    BY <1>1, <1>4, <1>5, <1>6, <1>7
<1> QED
    BY <1>8 DEF ToSet

LEMMA LastPage ==
    ASSUME Dated(cases), NEW from \in Nat
    PROVE  /\ NextOffset(from) = -1 =>
                \A c \in DOMAIN cases : PositionIn(cases, c) < from + PageSize
           /\ NextOffset(from) # -1 => NextOffset(from) = from + PageSize /\ NextOffset(from) \in Nat
<1> DEFINE n == Cardinality(DOMAIN cases)
<1>1. n \in Nat /\ PageSize \in Nat \ {0}
    BY FS_CardinalityType, CasesAssumption DEF Dated
<1>2. Ordered \in Seq({Ordered[k] : k \in 1 .. n}) /\ Len(Ordered) = n
    BY <1>1, OrderedListsAll
<1> HIDE DEF n
<1>3. Len(Page(from)) = IF from + PageSize < n THEN PageSize ELSE IF from <= n THEN n - from ELSE 0
    BY <1>1, <1>2 DEF Page
<1>4. \A c \in DOMAIN cases : PositionIn(cases, c) \in Nat /\ PositionIn(cases, c) < n
    BY PositionsDiffer DEF n
<1> QED
    BY <1>1, <1>2, <1>3, <1>4 DEF NextOffset

\* The reader of the list: what was there when it began and comes before its
\* offset has been shown to it, or everything when no page is left.
ReaderShown ==
    /\ reader.due \subseteq DOMAIN cases
    /\ reader.next = -1 => reader.due \subseteq reader.seen
    /\ reader.next # -1 =>
         /\ reader.next \in Nat
         /\ \A c \in reader.due : PositionIn(cases, c) < reader.next => c \in reader.seen
PagesInv == Dated(cases) /\ ReaderShown

\* Whatever only adds cases, or changes what is in them, leaves the reader
\* where it is.
LEMMA ReaderStays ==
    ASSUME PagesInv, Dated(cases'), DOMAIN cases \subseteq DOMAIN cases', reader' = reader,
           \A c \in DOMAIN cases : cases'[c].created = cases[c].created
    PROVE  PagesInv'
<1>1. \A c \in DOMAIN cases : PositionIn(cases, c) <= PositionIn(cases', c)
    BY PositionsOnlyGrow DEF PagesInv
<1>2. \A c \in DOMAIN cases : PositionIn(cases, c) \in Nat /\ PositionIn(cases', c) \in Nat
    BY PositionsDiffer DEF PagesInv
<1>3. ReaderShown'
    BY <1>1, <1>2 DEF PagesInv, ReaderShown
<1> QED
    BY <1>3 DEF PagesInv

\* A patch of one case and the edits of the bot leave its date alone.
LEMMA DatesStay ==
    ASSUME PagesInv, NEW c \in DOMAIN cases, NEW after, cases' = [cases EXCEPT ![c] = after],
           "created" \in DOMAIN after, after.created = cases[c].created, reader' = reader
    PROVE  PagesInv'
<1>1. DOMAIN cases' = DOMAIN cases
      /\ \A d \in DOMAIN cases : cases'[d].created = cases[d].created /\ "created" \in DOMAIN cases'[d]
    BY DEF PagesInv, Dated
<1>2. Dated(cases')
    BY <1>1 DEF PagesInv, Dated
<1> QED
    BY <1>1, <1>2, ReaderStays

LEMMA RenewedDate ==
    ASSUME NEW case, "created" \in DOMAIN case, NEW change, "created" \notin DOMAIN change
    PROVE  "created" \in DOMAIN Renewed(case, change) /\ Renewed(case, change).created = case.created
BY DEF Renewed, Merge

LEMMA BumpStays ==
    ASSUME PagesInv, NEW c \in DOMAIN cases, NEW change, "created" \notin DOMAIN change,
           cases' = Bump(c, change), reader' = reader
    PROVE  PagesInv'
<1>1. "created" \in DOMAIN Renewed(cases[c], change)
      /\ Renewed(cases[c], change).created = cases[c].created
    BY RenewedDate DEF PagesInv, Dated
<1> QED
    BY <1>1, DatesStay DEF Bump

LEMMA SeededDates == Dated(Seeded)
<1> DEFINE Kind == [version : {1}, title : Titles, severity : {"medium", "high"},
                    summary : {"none"}, evidence : {{}}, notes : {1},
                    created : {-2, -1}, updated : {-1}]
<1>1. Seeded \in Seq(Kind)
    BY CasesAssumption
<1>2. IsFiniteSet(DOMAIN Seeded) /\ DOMAIN Seeded \subseteq Nat
    <2>1. PICK n \in Nat : DOMAIN Seeded = 1 .. n
        BY SeededVersions
    <2> QED
        BY <2>1, FS_Interval
<1>3. \A c \in DOMAIN Seeded : Seeded[c] \in Kind
    <2> HIDE DEF Kind
    <2> QED
        BY <1>1
<1> QED
    BY <1>2, <1>3 DEF Dated

LEMMA ReaderReads ==
    ASSUME PagesInv, List \/ Follow
    PROVE  PagesInv'
<1>1. cases' = cases
    BY DEF List, Follow
<1>2. PageSize \in Nat \ {0} /\ \A c \in DOMAIN cases : PositionIn(cases, c) \in Nat
    BY CasesAssumption, PositionsDiffer DEF PagesInv
<1>3. ASSUME NEW from \in Nat, NEW due, NEW seen, due \subseteq DOMAIN cases,
             \A c \in due : PositionIn(cases, c) < from => c \in seen,
             reader'.due = due, reader'.seen = seen \cup ToSet(Page(from)), reader'.next = NextOffset(from)
      PROVE  ReaderShown'
    <2>1. \A c \in due : PositionIn(cases, c) < from + PageSize => c \in reader'.seen
        BY <1>2, <1>3, PageShows DEF PagesInv
    <2>2. /\ NextOffset(from) = -1 => \A c \in DOMAIN cases : PositionIn(cases, c) < from + PageSize
          /\ NextOffset(from) # -1 => NextOffset(from) = from + PageSize /\ NextOffset(from) \in Nat
        BY LastPage DEF PagesInv
    <2> QED
        BY <1>1, <1>3, <2>1, <2>2 DEF ReaderShown
<1>4. CASE List
    <2>1. /\ reader'.due = DOMAIN cases /\ reader'.seen = {} \cup ToSet(Page(0))
          /\ reader'.next = NextOffset(0)
        BY <1>4 DEF List
    <2>2. \A c \in DOMAIN cases : PositionIn(cases, c) < 0 => c \in {}
        BY <1>2
    <2>3. ReaderShown'
        BY <1>3, <2>1, <2>2
    <2> QED
        BY <1>1, <2>3 DEF PagesInv
<1>5. CASE Follow
    <2>1. /\ reader'.due = reader.due /\ reader'.seen = reader.seen \cup ToSet(Page(reader.next))
          /\ reader'.next = NextOffset(reader.next) /\ reader.next \in Nat
          /\ reader.due \subseteq DOMAIN cases
          /\ \A c \in reader.due : PositionIn(cases, c) < reader.next => c \in reader.seen
        BY <1>5 DEF Follow, PagesInv, ReaderShown
    <2>2. ReaderShown'
        BY <1>3, <2>1
    <2> QED
        BY <1>1, <2>2 DEF PagesInv
<1> QED
    BY <1>4, <1>5

LEMMA CreateStays ==
    ASSUME CasesInv, PagesInv, NEW u \in Users, NEW title \in Titles, Create(u, title)
    PROVE  PagesInv'
<1>1. PICK case : /\ "created" \in DOMAIN case /\ case.created = time /\ reader' = reader
                  /\ cases' = [d \in DOMAIN cases \cup {count + 1} |->
                                 IF d = count + 1 THEN case ELSE cases[d]]
    BY DEF Create
<1>2. DOMAIN cases = 1 .. count /\ count \in Nat /\ time \in Nat
    BY DEF CasesInv, Numbers, Versions
<1>3. DOMAIN cases' = 1 .. count + 1 /\ cases'[count + 1] = case
      /\ \A c \in DOMAIN cases : cases'[c] = cases[c]
    BY <1>1, <1>2
<1>4. IsFiniteSet(DOMAIN cases') /\ DOMAIN cases' \subseteq Nat /\ DOMAIN cases \subseteq DOMAIN cases'
    BY <1>2, <1>3, FS_Interval
<1>5. \A c \in DOMAIN cases' : "created" \in DOMAIN cases'[c] /\ cases'[c].created \in Int
    BY <1>1, <1>2, <1>3 DEF PagesInv, Dated
<1>6. Dated(cases')
    BY <1>4, <1>5 DEF Dated
<1> QED
    BY <1>1, <1>3, <1>4, <1>6, ReaderStays

LEMMA PagesStepKeeps == ASSUME CasesInv, PagesInv, [CasesNext]_casesVars PROVE PagesInv'
<1>1. CASE UNCHANGED <<cases, reader>>
    BY <1>1 DEF PagesInv, ReaderShown
<1>2. ASSUME NEW u \in Users, NEW c \in DOMAIN cases, NEW change \in Changes, NEW tags,
             Patch(u, c, change, tags)
      PROVE  PagesInv'
    <2>1. "created" \notin DOMAIN change
        BY ChangesLeave
    <2> QED
        BY <1>1, <1>2, <2>1, BumpStays DEF Patch
<1>3. ASSUME NEW c \in DOMAIN cases, NEW s \in Sessions,
             (\E u \in Users : Pin(u, c, s)) \/ Unpin(c, s)
      PROVE  PagesInv'
    <2>1. CASE \E u \in Users : Pin(u, c, s)
        BY <2>1, BumpStays DEF Pin
    <2>2. CASE Unpin(c, s)
        BY <2>2, BumpStays DEF Unpin
    <2> QED
        BY <1>3, <2>1, <2>2
<1>4. ASSUME NEW c \in DOMAIN cases, AddNote(c) PROVE PagesInv'
    BY <1>4, BumpStays DEF AddNote
<1>5. CASE BotTick
    <2>1. PICK n : cases' = [cases EXCEPT ![BotCase] = BotEdited(cases[BotCase], bot.step, n)]
                   /\ reader' = reader
        BY <1>5 DEF BotTick
    <2>2. BotCase \in DOMAIN cases
        BY DEF CasesInv, Numbers, Versions
    <2>3. /\ "created" \in DOMAIN BotEdited(cases[BotCase], bot.step, n)
          /\ BotEdited(cases[BotCase], bot.step, n).created = cases[BotCase].created
        BY <2>2 DEF BotEdited, PagesInv, Dated
    <2> QED
        BY <2>1, <2>2, <2>3, DatesStay
<1>6. CASE ResetCases
    BY <1>6, SeededDates DEF ResetCases, PagesInv, ReaderShown, NoReader
<1>7. ASSUME NEW u \in Users, NEW c \in DOMAIN cases, Get(u, c) PROVE PagesInv'
    BY <1>1, <1>7 DEF Get
<1>8. CASE Pass \/ UNCHANGED casesVars
    BY <1>1, <1>8 DEF Pass, casesVars
<1> QED
    BY <1>2, <1>3, <1>4, <1>5, <1>6, <1>7, <1>8, CreateStays, ReaderReads DEF CasesNext, CaseStep

\* Nobody who pages through the cases misses one that was there when it began,
\* although cases are created and changed meanwhile (CaseStore.page and
\* _ordered): a case only ever moves towards the pages still to come.
THEOREM PagesShowAll == CasesSpec => []PagesMissNothing
<1>1. CasesInit => PagesInv
    BY SeededDates DEF CasesInit, PagesInv, ReaderShown, NoReader
<1>2. CasesInv /\ PagesInv /\ [CasesNext]_casesVars => PagesInv'
    BY PagesStepKeeps
<1>3. PagesInv => PagesMissNothing
    BY DEF PagesInv, ReaderShown, PagesMissNothing
<1> QED
    BY <1>1, <1>2, <1>3, CasesInvariant, PTL DEF CasesSpec

-----------------------------------------------------------------------------
\* What a change may say of a case, a pin and a note included.
Writable == [title |-> Titles, severity |-> {"medium", "high"}, summary |-> {"none", "own"},
            evidence |-> SUBSET Sessions, notes |-> Nat]
Writes(change) == \A f \in DOMAIN change : f \in DOMAIN Writable /\ change[f] \in Writable[f]

LEMMA RenewedIsCase ==
    ASSUME NEW case \in Case, NEW change, Writes(change), case.version < MaxVersion, time \in Int
    PROVE  /\ Renewed(case, change) \in Case
           /\ Renewed(case, change).title = IF "title" \in DOMAIN change THEN change.title ELSE case.title
<1> DEFINE fields == {"version", "title", "severity", "summary", "evidence", "notes", "created", "updated"}
           kept(f) == IF f \in DOMAIN change THEN change[f] ELSE case[f]
           merged == Merge(case, change)
           new == Renewed(case, change)
<1>1. DOMAIN case = fields
    BY DEF Case
<1>2. merged = [f \in fields |-> kept(f)]
    BY <1>1 DEF Merge
<1>3. /\ new = [f \in fields |-> new[f]]
      /\ \A f \in fields \ {"version", "updated"} : new[f] = kept(f)
      /\ new.version = case.version + 1 /\ new.updated = time
    <2> HIDE DEF kept, merged
    <2> QED
        BY <1>2 DEF Renewed, merged
<1>4. new.version \in 1 .. MaxVersion
    BY <1>3, CasesAssumption DEF CasesAssumption, Case
<1>5. new.title \in Titles /\ new.title = kept("title")
    BY <1>3 DEF Writes, Writable, Case
<1>6. new.severity \in {"medium", "high"}
    BY <1>3 DEF Writes, Writable, Case
<1>7. new.summary \in {"none", "beacon", "burst", "own"}
    BY <1>3 DEF Writes, Writable, Case
<1>8. new.evidence \in SUBSET Sessions /\ new.notes \in Nat
    BY <1>3 DEF Writes, Writable, Case
<1>9. new.created \in Int /\ new.updated \in Int
    BY <1>3 DEF Writes, Writable, Case
<1> HIDE DEF kept, new
<1>10. new \in Case
    BY <1>3, <1>4, <1>5, <1>6, <1>7, <1>8, <1>9 DEF Case
<1> QED
    BY <1>5, <1>10 DEF new, kept

LEMMA BotEditedIsCase ==
    ASSUME NEW case \in Case, NEW step \in Nat, NEW n \in Nat, case.version + n <= MaxVersion, time \in Int
    PROVE  /\ BotEdited(case, step, n) \in Case
           /\ BotEdited(case, step, n).title = case.title
<1> DEFINE of(kind) == {i \in step .. step + n - 1 : i % 3 = kind}
           summary == IF of(1) = {} THEN case.summary ELSE Summary(Max(of(1)))
           severity == IF Cardinality(of(2)) % 2 = 0 THEN case.severity ELSE Flipped(case.severity)
           new == [case EXCEPT !.version = @ + n, !.updated = time,
                    !.notes = @ + Cardinality(of(0)), !.summary = summary, !.severity = severity]
<1>1. BotEdited(case, step, n) = new
    BY DEF BotEdited
<1>2. Cardinality(of(0)) \in Nat
    <2>1. IsFiniteSet(step .. step + n - 1) /\ of(0) \subseteq step .. step + n - 1
        BY FS_Interval
    <2> QED
        BY <2>1, FS_Subset, FS_CardinalityType
<1>3. MaxVersion \in Nat
    BY CasesAssumption DEF CasesAssumption
<1>4. /\ case.version + n \in 1 .. MaxVersion
      /\ \A notes \in Nat : case.notes + notes \in Nat
    BY <1>3 DEF Case
<1>5. summary \in {"none", "beacon", "burst", "own"} /\ severity \in {"medium", "high"}
    BY DEF Case, Summary, Flipped
<1> HIDE DEF of, summary, severity
<1>6. new \in Case /\ new.title = case.title
    BY <1>2, <1>4, <1>5 DEF Case
<1> QED
    BY <1>1, <1>6

\* Titles that fold alike, as the type invariant has them.
Titled == \A c, d \in DOMAIN cases :
    c # d /\ Fold[cases[c].title] = Fold[cases[d].title] => Strip[cases[c].title] # cases[c].title
HeldTyped == \A u \in Users : held[u].id # 0 => held[u].case \in Case

\* One case changes or is new, under its own title or under one that is free.
LEMMA TitlesStay ==
    ASSUME CasesTypeOK, NEW c \in DOMAIN cases',
           \A d \in DOMAIN cases' : cases'[d] \in Case,
           \A d \in DOMAIN cases' \ {c} : d \in DOMAIN cases /\ cases'[d] = cases[d],
           \/ c \in DOMAIN cases /\ cases'[c].title = cases[c].title
           \/ ~TitleTaken(cases'[c].title, {c})
    PROVE  Titled'
<1>1. \A d \in DOMAIN cases' : cases'[d].title \in Titles
    BY DEF Case
<1>2. \A d, e \in DOMAIN cases : d # e /\ Fold[cases[d].title] = Fold[cases[e].title]
        => Strip[cases[d].title] # cases[d].title
    BY DEF CasesTypeOK
<1>3. ASSUME NEW s \in Titles, NEW t \in Titles, Fold[s] = Fold[t], Strip[s] = s
      PROVE  Strip[t] = t
    BY <1>3, CasesAssumption DEF CasesAssumption
<1>4. CASE c \in DOMAIN cases /\ cases'[c].title = cases[c].title
    <2>1. \A d \in DOMAIN cases' : d \in DOMAIN cases /\ cases'[d].title = cases[d].title
        BY <1>4
    <2> QED
        BY <1>2, <2>1 DEF Titled
<1>5. CASE ~TitleTaken(cases'[c].title, {c})
    <2> DEFINE x == cases'[c].title
    <2>1. \A d \in DOMAIN cases' \ {c} : Fold[cases'[d].title] # Fold[Strip[x]]
        BY <1>5 DEF TitleTaken
    <2>2. ASSUME NEW d \in DOMAIN cases' \ {c}, Fold[cases'[d].title] = Fold[x]
          PROVE  Strip[x] # x /\ Strip[cases'[d].title] # cases'[d].title
        <3>1. Strip[x] # x
            BY <2>1, <2>2
        <3>2. cases'[d].title \in Titles /\ x \in Titles
            BY <1>1
        <3> HIDE DEF x
        <3> QED
            BY <1>3, <2>2, <3>1, <3>2
    <2> SUFFICES ASSUME NEW d \in DOMAIN cases', NEW e \in DOMAIN cases', d # e,
                        Fold[cases'[d].title] = Fold[cases'[e].title]
                 PROVE  Strip[cases'[d].title] # cases'[d].title
        BY DEF Titled
    <2>3. CASE d = c
        BY <2>2, <2>3
    <2>4. CASE e = c
        BY <2>2, <2>4
    <2>5. CASE d # c /\ e # c
        BY <1>2, <2>5
    <2> QED
        BY <2>3, <2>4, <2>5
<1> QED
    BY <1>4, <1>5

\* What a user is given is a case, and what it held it may keep.
LEMMA HeldStays ==
    ASSUME CasesTypeOK, \A d \in DOMAIN cases' : cases'[d] \in Case,
           \A u \in Users : \/ held'[u] = held[u]
                            \/ \E d \in DOMAIN cases' : held'[u] = [id |-> d, case |-> cases'[d], epoch |-> epoch]
    PROVE  HeldTyped'
<1> SUFFICES ASSUME NEW u \in Users, held'[u].id # 0 PROVE held'[u].case \in Case
    BY DEF HeldTyped
<1>1. CASE held'[u] = held[u]
    BY <1>1 DEF CasesTypeOK
<1>2. ASSUME NEW d \in DOMAIN cases', held'[u] = [id |-> d, case |-> cases'[d], epoch |-> epoch]
      PROVE  held'[u].case \in Case
    BY <1>2
<1> QED
    BY <1>1, <1>2

LEMMA OneCaseTyped ==
    ASSUME CasesInv, CasesTypeOK, CasesInv', NEW c \in DOMAIN cases', cases'[c] \in Case,
           \A d \in DOMAIN cases' \ {c} : d \in DOMAIN cases /\ cases'[d] = cases[d],
           \/ c \in DOMAIN cases /\ cases'[c].title = cases[c].title
           \/ ~TitleTaken(cases'[c].title, {c}),
           \A u \in Users : \/ held'[u] = held[u]
                            \/ \E d \in DOMAIN cases' : held'[u] = [id |-> d, case |-> cases'[d], epoch |-> epoch],
           UNCHANGED <<time, epoch>>, bot'.edits <= bot'.step
    PROVE  CasesTypeOK'
<1>1. \A d \in DOMAIN cases' : cases'[d] \in Case
    BY DEF CasesTypeOK
<1>2. Titled'
    BY <1>1, TitlesStay
<1>3. HeldTyped'
    BY <1>1, HeldStays
<1>4. time' \in 0 .. LastMoment /\ epoch' \in 0 .. MaxEpoch
    BY DEF CasesTypeOK
<1> QED
    BY <1>1, <1>2, <1>3, <1>4 DEF CasesInv, Numbers, Versions, HeldBehind, Behind, Titled, HeldTyped, CasesTypeOK

\* A step of a user that gives its case a new version.
LEMMA ChangeTyped ==
    ASSUME CasesInv, CasesTypeOK, CasesInv', NEW c \in DOMAIN cases, NEW change, Writes(change),
           cases[c].version < MaxVersion, cases' = Bump(c, change),
           "title" \in DOMAIN change => ~TitleTaken(change.title, {c}),
           \A u \in Users : \/ held'[u] = held[u]
                            \/ held'[u] = [id |-> c, case |-> cases'[c], epoch |-> epoch],
           UNCHANGED <<bot, time, epoch>>
    PROVE  CasesTypeOK'
<1> DEFINE new == Renewed(cases[c], change)
<1>1. cases[c] \in Case /\ time \in Int
    BY DEF CasesTypeOK
<1>2. new \in Case /\ new.title = IF "title" \in DOMAIN change THEN change.title ELSE cases[c].title
    BY <1>1, RenewedIsCase
<1>3. cases' = [cases EXCEPT ![c] = new]
    BY DEF Bump
<1> HIDE DEF new
<1>4. /\ c \in DOMAIN cases' /\ cases'[c] = new
      /\ \A d \in DOMAIN cases' \ {c} : d \in DOMAIN cases /\ cases'[d] = cases[d]
    BY <1>3
<1>5. cases'[c].title = cases[c].title \/ ~TitleTaken(cases'[c].title, {c})
    BY <1>2, <1>4
<1>6. bot'.edits <= bot'.step
    BY DEF CasesTypeOK
<1> QED
    BY <1>2, <1>4, <1>5, <1>6, OneCaseTyped

\* A step that changes no case.
LEMMA NoCaseChanges ==
    ASSUME CasesInv, CasesTypeOK, CasesInv', cases' = cases,
           \A u \in Users : \/ held'[u] = held[u]
                            \/ \E d \in DOMAIN cases' : held'[u] = [id |-> d, case |-> cases'[d], epoch |-> epoch],
           time' \in 0 .. LastMoment, UNCHANGED <<epoch, bot>>
    PROVE  CasesTypeOK'
<1>1. \A d \in DOMAIN cases' : cases'[d] \in Case
    BY DEF CasesTypeOK
<1>2. Titled'
    BY DEF CasesTypeOK, Titled
<1>3. HeldTyped'
    BY <1>1, HeldStays
<1>4. epoch' \in 0 .. MaxEpoch /\ bot'.edits <= bot'.step
    BY DEF CasesTypeOK
<1> QED
    BY <1>1, <1>2, <1>3, <1>4 DEF CasesInv, Numbers, Versions, HeldBehind, Behind, Titled, HeldTyped, CasesTypeOK

LEMMA CreateTyped ==
    ASSUME CasesInv, CasesTypeOK, CasesInv', NEW u \in Users, NEW title \in Titles, Create(u, title)
    PROVE  CasesTypeOK'
<1> DEFINE c == count + 1
           case == [version |-> 1, title |-> title, severity |-> "medium", summary |-> "none",
                    evidence |-> {}, notes |-> 0, created |-> time, updated |-> time]
<1>1. /\ cases' = [d \in DOMAIN cases \cup {c} |-> IF d = c THEN case ELSE cases[d]]
      /\ held' = Hold(u, c, case) /\ ~TitleTaken(title, {}) /\ UNCHANGED <<bot, time, epoch>>
    BY DEF Create
<1>2. case \in Case /\ case.title = title
    BY CasesAssumption DEF CasesAssumption, CasesTypeOK, Case
<1> HIDE DEF case
<1>3. /\ c \in DOMAIN cases' /\ cases'[c] = case
      /\ \A d \in DOMAIN cases' \ {c} : d \in DOMAIN cases /\ cases'[d] = cases[d]
    BY <1>1
<1>4. ~TitleTaken(cases'[c].title, {c})
    BY <1>1, <1>2, <1>3 DEF TitleTaken
<1>5. \A v \in Users : \/ held'[v] = held[v]
                       \/ held'[v] = [id |-> c, case |-> cases'[c], epoch |-> epoch]
    BY <1>1, <1>3 DEF Hold, CasesInv, HeldBehind
<1>6. bot'.edits <= bot'.step
    BY <1>1 DEF CasesTypeOK
<1> HIDE DEF c
<1> QED
    BY <1>1, <1>2, <1>3, <1>4, <1>5, <1>6, OneCaseTyped

LEMMA PatchTyped ==
    ASSUME CasesInv, CasesTypeOK, CasesInv', NEW u \in Users, NEW c \in DOMAIN cases,
           NEW change \in Changes, NEW tags, Patch(u, c, change, tags)
    PROVE  CasesTypeOK'
<1>1. \A v \in Users : \/ held'[v] = held[v]
                       \/ held'[v] = [id |-> c, case |-> cases'[c], epoch |-> epoch]
    BY DEF Patch, Hold, CasesInv, HeldBehind
<1>2. CASE Matches(tags, c)
    <2>1. Writes(change)
        BY CasesAssumption DEF CasesAssumption, Writes, Patched, Writable
    <2>2. /\ "title" \in DOMAIN change => ~TitleTaken(change.title, {c})
          /\ cases[c].version < MaxVersion /\ cases' = Bump(c, change)
          /\ UNCHANGED <<bot, time, epoch>>
        BY <1>2 DEF Patch
    <2> QED
        BY <1>1, <2>1, <2>2, ChangeTyped
<1>3. CASE ~Matches(tags, c)
    <2>1. cases' = cases /\ UNCHANGED <<bot, time, epoch>> /\ time' \in 0 .. LastMoment
        BY <1>3 DEF Patch, CasesTypeOK
    <2> QED
        BY <1>1, <2>1, NoCaseChanges
<1> QED
    BY <1>2, <1>3

\* Evidence and notes.
LEMMA EvidenceTyped ==
    ASSUME CasesInv, CasesTypeOK, CasesInv', NEW c \in DOMAIN cases, NEW s \in Sessions,
           (\E u \in Users : Pin(u, c, s)) \/ Unpin(c, s)
    PROVE  CasesTypeOK'
<1> DEFINE given == \A v \in Users : \/ held'[v] = held[v]
                                     \/ held'[v] = [id |-> c, case |-> cases'[c], epoch |-> epoch]
<1>1. cases[c].evidence \in SUBSET Sessions
    BY DEF CasesTypeOK, Case
<1>2. CASE \E u \in Users : Pin(u, c, s)
    <2> DEFINE change == [evidence |-> cases[c].evidence \cup {s}]
    <2>1. Writes(change) /\ "title" \notin DOMAIN change
        BY <1>1 DEF Writes, Writable
    <2>2. given /\ cases[c].version < MaxVersion /\ cases' = Bump(c, change)
          /\ UNCHANGED <<bot, time, epoch>>
        BY <1>2 DEF Pin, Hold, CasesInv, HeldBehind
    <2> HIDE DEF change
    <2> QED
        BY <2>1, <2>2, ChangeTyped
<1>3. CASE Unpin(c, s)
    <2> DEFINE change == [evidence |-> cases[c].evidence \ {s}]
    <2>1. Writes(change) /\ "title" \notin DOMAIN change
        BY <1>1 DEF Writes, Writable
    <2>2. given /\ cases[c].version < MaxVersion /\ cases' = Bump(c, change)
          /\ UNCHANGED <<bot, time, epoch>>
        BY <1>3 DEF Unpin
    <2> HIDE DEF change
    <2> QED
        BY <2>1, <2>2, ChangeTyped
<1> QED
    BY <1>2, <1>3

LEMMA NoteTyped ==
    ASSUME CasesInv, CasesTypeOK, CasesInv', NEW c \in DOMAIN cases, AddNote(c)
    PROVE  CasesTypeOK'
<1> DEFINE change == [notes |-> cases[c].notes + 1]
<1>1. Writes(change) /\ "title" \notin DOMAIN change
    BY DEF CasesTypeOK, Case, Writes, Writable
<1>2. /\ held' = held /\ cases[c].version < MaxVersion /\ cases' = Bump(c, change)
      /\ UNCHANGED <<bot, time, epoch>>
    BY DEF AddNote
<1> HIDE DEF change
<1> QED
    BY <1>1, <1>2, ChangeTyped

LEMMA BotTyped ==
    ASSUME CasesInv, CasesTypeOK, CasesInv', BotTick
    PROVE  CasesTypeOK'
<1>1. PICK n \in Nat :
          /\ cases[BotCase].version + n <= MaxVersion
          /\ cases' = [cases EXCEPT ![BotCase] = BotEdited(cases[BotCase], bot.step, n)]
          /\ bot'.step = bot.step + n /\ bot'.edits = bot.edits + n
          /\ UNCHANGED <<held, time, epoch>>
    BY BotEditsAtLeastOnce, CasesAssumption DEF CasesAssumption, BotTick, CasesInv, Numbers
<1> DEFINE new == BotEdited(cases[BotCase], bot.step, n)
<1>2. BotCase \in DOMAIN cases /\ bot.step \in Nat /\ bot.edits \in Nat
    BY DEF CasesInv, Numbers, Versions
<1>3. cases[BotCase] \in Case /\ time \in Int /\ bot.edits <= bot.step
    BY <1>2 DEF CasesTypeOK
<1>4. new \in Case /\ new.title = cases[BotCase].title
    BY <1>1, <1>2, <1>3, BotEditedIsCase
<1> HIDE DEF new
<1>5. /\ BotCase \in DOMAIN cases' /\ cases'[BotCase] = new
      /\ \A d \in DOMAIN cases' \ {BotCase} : d \in DOMAIN cases /\ cases'[d] = cases[d]
    BY <1>1, <1>2 DEF new
<1>6. bot'.edits <= bot'.step /\ held' = held /\ UNCHANGED <<time, epoch>>
    BY <1>1, <1>2, <1>3
<1>7. cases'[BotCase].title = cases[BotCase].title
    BY <1>4, <1>5
<1> QED
    BY <1>2, <1>4, <1>5, <1>6, <1>7, OneCaseTyped

\* The cases there are at first have titles of their own.
LEMMA SeededTyped ==
    /\ \A c \in DOMAIN Seeded : Seeded[c] \in Case
    /\ \A c, d \in DOMAIN Seeded : c # d => Fold[Seeded[c].title] # Fold[Seeded[d].title]
<1> DEFINE Kind == [version : {1}, title : Titles, severity : {"medium", "high"},
                    summary : {"none"}, evidence : {{}}, notes : {1},
                    created : {-2, -1}, updated : {-1}]
<1>1. Seeded \in Seq(Kind)
    BY CasesAssumption DEF CasesAssumption
<1>2. \A c \in DOMAIN Seeded : Seeded[c] \in Kind
    <2> HIDE DEF Kind
    <2> QED
        BY <1>1
<1>3. MaxVersion \in Nat \ {0}
    BY CasesAssumption DEF CasesAssumption
<1>4. ASSUME NEW case \in Kind PROVE case \in Case
    BY <1>3 DEF Case
<1>5. DOMAIN Seeded = 1 .. Len(Seeded)
    BY SeededVersions
<1> HIDE DEF Kind
<1> QED
    BY <1>2, <1>4, <1>5, CasesAssumption DEF CasesAssumption

\* The cases are numbered without gaps and no two are titled alike but for
\* blanks, whatever titles are given in whatever letters; what users hold are
\* cases; and the bot counts no more edits than steps (CaseStore, TeammateBot).
THEOREM CasesTyped == CasesSpec => []CasesTypeOK
<1>1. CasesInit => CasesInv /\ CasesTypeOK
    BY CasesInitially, SeededTyped, CasesAssumption
       DEF CasesAssumption, CasesInit, CasesTypeOK, CasesInv, Numbers, Versions, NoCase, BotAfter
<1>2. ASSUME CasesInv, CasesTypeOK, [CasesNext]_casesVars PROVE CasesInv' /\ CasesTypeOK'
    <2>1. CasesInv'
        BY <1>2, CasesStepKeeps
    <2>2. CASE List \/ Follow \/ Pass \/ UNCHANGED casesVars
        <3>1. cases' = cases /\ held' = held /\ UNCHANGED <<epoch, bot>>
            BY <2>2 DEF List, Follow, Pass, casesVars
        <3>2. time' \in 0 .. LastMoment
            BY <1>2, <2>2, CasesAssumption
               DEF CasesAssumption, List, Follow, Pass, casesVars, CasesTypeOK
        <3> QED
            BY <1>2, <2>1, <3>1, <3>2, NoCaseChanges
    <2>3. ASSUME NEW u \in Users, NEW c \in DOMAIN cases, Get(u, c) PROVE CasesTypeOK'
        <3>1. /\ cases' = cases /\ UNCHANGED <<epoch, bot>> /\ time' \in 0 .. LastMoment
              /\ \A v \in Users : \/ held'[v] = held[v]
                                  \/ held'[v] = [id |-> c, case |-> cases'[c], epoch |-> epoch]
            BY <1>2, <2>3 DEF Get, Hold, CasesInv, HeldBehind, CasesTypeOK
        <3>2. c \in DOMAIN cases'
            BY <3>1
        <3> QED
            BY <1>2, <2>1, <3>1, <3>2, NoCaseChanges
    <2>4. CASE ResetCases
        <3>1. /\ cases' = Seeded /\ held' = held /\ time' = time /\ epoch' = epoch + 1
              /\ epoch < MaxEpoch /\ bot'.edits = 0 /\ bot'.step = 0
            BY <2>4 DEF ResetCases, BotAfter
        <3>2. Titled'
            BY <3>1, SeededTyped DEF Titled
        <3>3. \A c \in DOMAIN cases' : cases'[c] \in Case
            BY <3>1, SeededTyped
        <3>4. HeldTyped'
            BY <1>2, <3>1 DEF CasesTypeOK, HeldTyped
        <3>5. time' \in 0 .. LastMoment /\ epoch' \in 0 .. MaxEpoch
            BY <1>2, <3>1, CasesAssumption DEF CasesAssumption, CasesTypeOK
        <3> QED
            BY <2>1, <3>1, <3>2, <3>3, <3>4, <3>5
               DEF CasesInv, Numbers, Versions, HeldBehind, Behind, Titled, HeldTyped, CasesTypeOK
    <2> QED
        BY <1>2, <2>1, <2>2, <2>3, <2>4, CreateTyped, PatchTyped, EvidenceTyped, NoteTyped, BotTyped
           DEF CasesNext, CaseStep
<1> QED
    BY <1>1, <1>2, PTL DEF CasesSpec

-----------------------------------------------------------------------------
\* The parts of the invariant of hunts: what is stored, what tabs show, and
\* that a tab whose version is current shows what is stored (TabsAreTrue), if
\* it was opened since the last reset: then its id was given out since.
StoredHunt == [owner : Owners, name : Names, query : Queries, version : Nat \ {0}]

HuntsStored ==
    /\ huntCount \in Nat /\ DOMAIN hunts \subseteq 1 .. huntCount
    /\ \A h \in DOMAIN hunts : hunts[h] \in StoredHunt
TabsOpened ==
    /\ DOMAIN tabs = Tabs
    /\ \A t \in Tabs :
         \/ tabs[t] = NoHunt
         \/ /\ tabs[t] = [id |-> tabs[t].id, hunt |-> tabs[t].hunt]
            /\ tabs[t].id \in Nat \ {0} /\ tabs[t].hunt \in StoredHunt
            /\ t \notin stale => tabs[t].id <= huntCount
HuntsInv == HuntsStored /\ TabsOpened /\ TabsAreTrue

\* Tabs, hunts and versions, after a step that keeps the hunts of other ids:
\* either the step opened the tab, or the hunt it shows has not changed unseen.
LEMMA TabsStayTrue ==
    ASSUME HuntsInv, HuntsStored', NEW t \in Tabs, NEW h, NEW hunt, huntCount <= huntCount',
           Shows(t, h, hunt), h \in DOMAIN hunts', hunt = hunts'[h],
           hunt.owner = OwnerOf[t],
           \A g \in DOMAIN hunts' : g <= huntCount =>
              /\ g \in DOMAIN hunts /\ hunts'[g].owner = hunts[g].owner
              /\ hunts'[g] = hunts[g] \/ hunts'[g].version = hunts[g].version + 1
    PROVE  HuntsInv'
<1>1. /\ DOMAIN tabs' = Tabs /\ tabs'[t] = [id |-> h, hunt |-> hunt]
      /\ \A u \in Tabs \ {t} : tabs'[u] = tabs[u] /\ (u \in stale' <=> u \in stale)
    BY DEF Shows, HuntsInv, TabsOpened
<1>2. /\ tabs'[t].id = h /\ tabs'[t].hunt = hunt /\ h \in Nat \ {0} /\ h <= huntCount'
      /\ hunt \in StoredHunt /\ hunt.version \in Nat
    BY <1>1 DEF HuntsStored, StoredHunt
<1>3. ASSUME NEW u \in Tabs \ {t}, tabs[u] # NoHunt
      PROVE  /\ tabs[u] = [id |-> tabs[u].id, hunt |-> tabs[u].hunt]
             /\ tabs[u].id \in Nat \ {0} /\ tabs[u].hunt \in StoredHunt
             /\ u \notin stale => tabs[u].id <= huntCount'
    BY <1>3 DEF HuntsInv, TabsOpened, HuntsStored
<1>4. TabsOpened'
    <2>1. ASSUME NEW u \in Tabs \ {t}, tabs'[u] # NoHunt
          PROVE  /\ tabs'[u] = [id |-> tabs'[u].id, hunt |-> tabs'[u].hunt]
                 /\ tabs'[u].id \in Nat \ {0} /\ tabs'[u].hunt \in StoredHunt
                 /\ u \notin stale' => tabs'[u].id <= huntCount'
        <3>1. tabs'[u] = tabs[u] /\ (u \in stale' <=> u \in stale)
            BY <1>1
        <3> QED
            BY <1>3, <2>1, <3>1, Zenon
    <2>2. /\ tabs'[t] = [id |-> tabs'[t].id, hunt |-> tabs'[t].hunt]
          /\ tabs'[t].id \in Nat \ {0} /\ tabs'[t].hunt \in StoredHunt
          /\ tabs'[t].id <= huntCount'
        BY <1>1, <1>2
    <2> QED
        BY <1>1, <2>1, <2>2 DEF TabsOpened
<1>5. ASSUME NEW u \in Tabs \ {t}, u \notin stale, tabs[u] # NoHunt, tabs[u].id \in DOMAIN hunts'
      PROVE  /\ hunts'[tabs[u].id].owner = OwnerOf[u]
             /\ tabs[u].hunt.version <= hunts'[tabs[u].id].version
             /\ tabs[u].hunt.version = hunts'[tabs[u].id].version => tabs[u].hunt = hunts'[tabs[u].id]
    <2> DEFINE g == tabs[u].id
    <2>1. /\ g \in DOMAIN hunts /\ hunts'[g].owner = hunts[g].owner
          /\ hunts'[g] = hunts[g] \/ hunts'[g].version = hunts[g].version + 1
        <3>1. g <= huntCount
            BY <1>5 DEF HuntsInv, TabsOpened, HuntsStored
        <3> QED
            BY <1>5, <3>1
    <2>2. /\ hunts[g].owner = OwnerOf[u] /\ tabs[u].hunt.version <= hunts[g].version
          /\ tabs[u].hunt.version = hunts[g].version => tabs[u].hunt = hunts[g]
        BY <1>5, <2>1 DEF HuntsInv, TabsAreTrue
    <2>3. tabs[u].hunt.version \in Nat /\ hunts[g].version \in Nat
        BY <1>5, <2>1 DEF HuntsInv, TabsOpened, HuntsStored, StoredHunt
    <2> QED
        BY <2>1, <2>2, <2>3
<1>6. TabsAreTrue'
    <2> SUFFICES ASSUME NEW u \in Tabs, u \notin stale', tabs'[u] # NoHunt, tabs'[u].id \in DOMAIN hunts'
                 PROVE  /\ hunts'[tabs'[u].id].owner = OwnerOf[u]
                        /\ tabs'[u].hunt.version <= hunts'[tabs'[u].id].version
                        /\ tabs'[u].hunt.version = hunts'[tabs'[u].id].version
                              => tabs'[u].hunt = hunts'[tabs'[u].id]
        BY DEF TabsAreTrue
    <2>1. CASE u = t
        BY <1>2, <2>1
    <2>2. CASE u # t
        BY <1>1, <1>5, <2>2
    <2> QED
        BY <2>1, <2>2
<1> QED
    BY <1>4, <1>6 DEF HuntsInv

\* A hunt is read or written in a tab.
LEMMA GetKeeps ==
    ASSUME HuntsInv, NEW t \in Tabs, NEW h \in DOMAIN hunts, GetHunt(t, h)
    PROVE  HuntsInv'
<1>1. /\ Shows(t, h, hunts[h]) /\ hunts' = hunts /\ huntCount' = huntCount
      /\ hunts[h].owner = OwnerOf[t]
    BY DEF GetHunt, Own
<1>2. HuntsStored' /\ huntCount <= huntCount'
    BY <1>1 DEF HuntsInv, HuntsStored
<1> QED
    BY <1>1, <1>2, TabsStayTrue

LEMMA CreateKeepsHunts ==
    ASSUME HuntsInv, NEW t \in Tabs, NEW name \in Names, NEW query \in Queries,
           CreateHunt(t, name, query)
    PROVE  HuntsInv'
<1> DEFINE hunt == [owner |-> OwnerOf[t], name |-> name, query |-> query, version |-> 1]
           h == huntCount + 1
<1>1. /\ huntCount' = h /\ Shows(t, h, hunt)
      /\ hunts' = [g \in DOMAIN hunts \cup {h} |-> IF g = h THEN hunt ELSE hunts[g]]
    BY DEF CreateHunt
<1>2. hunt \in StoredHunt /\ hunt.owner = OwnerOf[t] /\ huntCount \in Nat
    BY HuntsAssumption DEF StoredHunt, HuntsInv, HuntsStored
<1> HIDE DEF hunt
<1>3. HuntsStored' /\ huntCount <= huntCount'
    BY <1>1, <1>2 DEF HuntsInv, HuntsStored
<1>4. \A g \in DOMAIN hunts' : g <= huntCount =>
         /\ g \in DOMAIN hunts /\ hunts'[g].owner = hunts[g].owner
         /\ hunts'[g] = hunts[g] \/ hunts'[g].version = hunts[g].version + 1
    BY <1>1, <1>2
<1>5. h \in DOMAIN hunts' /\ hunt = hunts'[h]
    BY <1>1
<1> HIDE DEF h
<1> QED
    BY <1>1, <1>2, <1>3, <1>4, <1>5, TabsStayTrue

LEMMA PatchKeepsHunts ==
    ASSUME HuntsInv, NEW t \in Tabs, NEW name \in Names, NEW query \in Queries,
           NEW h, NEW tags, PatchHunt(t, h, name, query, tags)
    PROVE  HuntsInv'
<1> DEFINE new == [NextVersion(hunts[h]) EXCEPT !.name = name, !.query = query]
<1>1. /\ h \in DOMAIN hunts /\ hunts[h].owner = OwnerOf[t] /\ hunts[h] \in StoredHunt
      /\ Shows(t, h, hunts'[h]) /\ huntCount' = huntCount
    BY DEF PatchHunt, Own, HuntsInv, HuntsStored
<1>2. hunts' = hunts \/ hunts' = [hunts EXCEPT ![h] = new]
    BY DEF PatchHunt
<1>3. new \in StoredHunt /\ new.owner = hunts[h].owner /\ new.version = hunts[h].version + 1
    <2> DEFINE old == hunts[h]
    <2>1. /\ NextVersion(old) \in StoredHunt /\ NextVersion(old).owner = old.owner
          /\ NextVersion(old).version = old.version + 1
        <3> HIDE DEF old
        <3> QED
            BY <1>1 DEF StoredHunt, NextVersion, old
    <2> DEFINE next == NextVersion(old)
    <2> HIDE DEF next
    <2>2. next \in StoredHunt /\ next.owner = old.owner /\ next.version = old.version + 1
        BY <2>1 DEF next
    <2>3. new = [next EXCEPT !.name = name, !.query = query]
        BY DEF next
    <2> HIDE DEF new
    <2> QED
        BY <2>2, <2>3 DEF StoredHunt
<1> HIDE DEF new
<1>4. /\ DOMAIN hunts' = DOMAIN hunts
      /\ \A g \in DOMAIN hunts : hunts'[g] = hunts[g] \/ (g = h /\ hunts'[g] = new)
    BY <1>1, <1>2
<1>5. HuntsStored' /\ huntCount <= huntCount'
    BY <1>1, <1>3, <1>4 DEF HuntsInv, HuntsStored
<1>6. hunts'[h].owner = OwnerOf[t]
    BY <1>1, <1>3, <1>4
<1> QED
    BY <1>1, <1>3, <1>4, <1>5, <1>6, TabsStayTrue

\* A hunt is deleted or touched, whatever the tabs show; or all is reset.
LEMMA DeleteKeeps ==
    ASSUME HuntsInv, NEW t, NEW h, NEW tags, DeleteHunt(t, h, tags)
    PROVE  HuntsInv'
<1>1. /\ hunts' = [g \in DOMAIN hunts \ {h} |-> hunts[g]] /\ UNCHANGED <<huntCount, tabs, stale>>
    BY DEF DeleteHunt
<1>2. HuntsStored'
    BY <1>1 DEF HuntsInv, HuntsStored
<1>3. TabsOpened'
    BY <1>1 DEF HuntsInv, TabsOpened
<1>4. TabsAreTrue'
    BY <1>1 DEF HuntsInv, TabsAreTrue
<1> QED
    BY <1>2, <1>3, <1>4 DEF HuntsInv

LEMMA TouchKeeps ==
    ASSUME HuntsInv, NEW h \in DOMAIN hunts, TouchHunt(h)
    PROVE  HuntsInv'
<1> DEFINE new == NextVersion(hunts[h])
<1>1. hunts' = [hunts EXCEPT ![h] = new] /\ UNCHANGED <<huntCount, tabs, stale>>
    BY DEF TouchHunt
<1>2. /\ new \in StoredHunt /\ new.owner = hunts[h].owner /\ new.version = hunts[h].version + 1
      /\ hunts[h].version \in Nat
    BY DEF HuntsInv, HuntsStored, StoredHunt, NextVersion
<1> HIDE DEF new
<1>3. /\ DOMAIN hunts' = DOMAIN hunts /\ hunts'[h] = new
      /\ \A g \in DOMAIN hunts \ {h} : hunts'[g] = hunts[g]
    BY <1>1
<1>4. HuntsStored'
    BY <1>1, <1>2, <1>3 DEF HuntsInv, HuntsStored
<1>5. TabsOpened'
    BY <1>1 DEF HuntsInv, TabsOpened
<1>6. TabsAreTrue'
    <2> SUFFICES ASSUME NEW t \in Tabs \ stale, tabs[t] # NoHunt, tabs[t].id \in DOMAIN hunts'
                 PROVE  /\ hunts'[tabs[t].id].owner = OwnerOf[t]
                        /\ tabs[t].hunt.version <= hunts'[tabs[t].id].version
                        /\ tabs[t].hunt.version = hunts'[tabs[t].id].version
                              => tabs[t].hunt = hunts'[tabs[t].id]
        BY <1>1 DEF TabsAreTrue
    <2>1. /\ hunts[tabs[t].id].owner = OwnerOf[t]
          /\ tabs[t].hunt.version <= hunts[tabs[t].id].version
          /\ tabs[t].hunt.version = hunts[tabs[t].id].version => tabs[t].hunt = hunts[tabs[t].id]
        BY <1>3 DEF HuntsInv, TabsAreTrue
    <2>2. tabs[t].hunt.version \in Nat
        BY DEF HuntsInv, TabsOpened, StoredHunt
    <2> QED
        BY <1>2, <1>3, <2>1, <2>2
<1> QED
    BY <1>4, <1>5, <1>6 DEF HuntsInv

LEMMA NothingOpen ==
    ASSUME hunts = NoHunts, huntCount = 0, tabs = [t \in Tabs |-> NoHunt]
    PROVE  HuntsInv
    BY DEF NoHunts, HuntsInv, HuntsStored, TabsOpened, TabsAreTrue

LEMMA ResetKeepsHunts ==
    ASSUME HuntsInv, ResetHunts
    PROVE  HuntsInv'
    BY DEF ResetHunts, NoHunts, HuntsInv, HuntsStored, TabsOpened, TabsAreTrue

\* The invariant holds throughout.
LEMMA HuntsInvariant == HuntsSpec => []HuntsInv
<1>1. HuntsInit => HuntsInv
    BY NothingOpen DEF HuntsInit
<1>2. HuntsInv /\ [HuntsNext]_huntVars => HuntsInv'
    <2> SUFFICES ASSUME HuntsInv, [HuntsNext]_huntVars PROVE HuntsInv'
        OBVIOUS
    <2>1. CASE UNCHANGED huntVars
        BY <2>1 DEF huntVars, HuntsInv, HuntsStored, TabsOpened, TabsAreTrue
    <2> QED
        BY <2>1, GetKeeps, CreateKeepsHunts, PatchKeepsHunts, DeleteKeeps, TouchKeeps, ResetKeepsHunts
           DEF HuntsNext
<1> QED
    BY <1>1, <1>2, PTL DEF HuntsSpec

\* A tab whose version is current shows the hunt that is stored, whoever else
\* patches, touches or deletes it (HuntStore under If-Match).
THEOREM VersionsTell == HuntsSpec => []TabsAreTrue
<1>1. HuntsInv => TabsAreTrue
    BY DEF HuntsInv
<1> QED
    BY <1>1, HuntsInvariant, PTL

\* An edit of a hunt under the version that was shown rewrites what was shown,
\* whoever else patches (with whatever tags), touches or deletes it: a patch
\* compares the version, and whatever is changed gets another.
THEOREM HuntEditsAreInformed == HuntsSpec => EditsAreInformed
<1>1. ASSUME HuntsInv, NEW t \in Tabs \ stale, NEW name, NEW query, tabs[t] # NoHunt,
             EditShown(t, name, query), Rewritten(tabs[t].id)
      PROVE  tabs[t].hunt = hunts[tabs[t].id]
    <2> DEFINE h == tabs[t].id
    <2>1. tabs[t].hunt.version \in {AnyVersion, hunts[h].version}
        BY <1>1 DEF EditShown, PatchHunt, TagsMatch, Rewritten
    <2>2. h \in DOMAIN hunts
        BY <1>1 DEF Rewritten
    \* No hunt has the version that * stands for.
    <2>3. tabs[t].hunt.version # AnyVersion
        BY <1>1 DEF HuntsInv, TabsOpened, StoredHunt, AnyVersion
    <2> QED
        BY <1>1, <2>1, <2>2, <2>3 DEF HuntsInv, TabsAreTrue
<1>2. HuntsInv => \A t \in Tabs \ stale, name \in Names, query \in Queries :
                    tabs[t] # NoHunt /\ EditShown(t, name, query) /\ Rewritten(tabs[t].id)
                      => tabs[t].hunt = hunts[tabs[t].id]
    BY <1>1
<1> QED
    BY <1>2, HuntsInvariant, PTL DEF HuntsSpec, EditsAreInformed

-----------------------------------------------------------------------------
\* The names of one owner's hunts, and what the tabs show.
HuntsNamed == \A g, h \in DOMAIN hunts :
    /\ hunts[g].owner = hunts[h].owner /\ NamesAlike(g, h) /\ NameStrip[hunts[g].name] = hunts[g].name
    => g = h
TabsTyped == \A t \in Tabs : tabs[t] # NoHunt => tabs[t].hunt \in Hunt

\* A step that renames one hunt or makes it, or none, and shows it in a tab.
LEMMA OneHuntTyped ==
    ASSUME HuntsTypeOK, HuntsInv', huntCount' <= MaxHunts, NEW h,
           h \in DOMAIN hunts' => hunts'[h] \in Hunt,
           \A g \in DOMAIN hunts' \ {h} : g \in DOMAIN hunts /\ hunts'[g] = hunts[g],
           \/ h \notin DOMAIN hunts'
           \/ h \in DOMAIN hunts /\ hunts'[h].owner = hunts[h].owner /\ hunts'[h].name = hunts[h].name
           \/ ~NameTaken(hunts'[h].owner, hunts'[h].name, {h}),
           \A t \in Tabs : tabs'[t] = tabs[t] \/ (h \in DOMAIN hunts' /\ tabs'[t] = [id |-> h, hunt |-> hunts'[h]])
    PROVE  HuntsTypeOK'
<1>1. ASSUME NEW g \in DOMAIN hunts' PROVE hunts'[g] \in Hunt
    BY DEF HuntsTypeOK
<1>2. TabsTyped'
    BY <1>1 DEF TabsTyped, HuntsTypeOK
<1>3. ASSUME NEW g \in DOMAIN hunts, NEW f \in DOMAIN hunts, hunts[g].owner = hunts[f].owner,
             NamesAlike(g, f), NameStrip[hunts[g].name] = hunts[g].name
      PROVE  g = f
    <2>1. hunts[g].owner \in Owners
        BY DEF HuntsTypeOK, Hunt
    <2> QED
        BY <1>3, <2>1 DEF HuntsTypeOK, Own
<1>4. ASSUME NEW a \in Names, NEW b \in Names, NameFold[a] = NameFold[b], NameStrip[a] = a
      PROVE  NameStrip[b] = b
    BY <1>4, HuntsAssumption DEF HuntsAssumption
<1>5. \A g \in DOMAIN hunts' : hunts'[g].name \in Names /\ hunts'[g].owner \in Owners
    BY <1>1 DEF Hunt
<1>6. HuntsNamed'
    <2> SUFFICES ASSUME NEW g \in DOMAIN hunts', NEW f \in DOMAIN hunts', g # f,
                        hunts'[g].owner = hunts'[f].owner,
                        NameFold[hunts'[g].name] = NameFold[hunts'[f].name],
                        NameStrip[hunts'[g].name] = hunts'[g].name
                 PROVE  FALSE
        BY DEF HuntsNamed, NamesAlike
    <2>1. NameStrip[hunts'[f].name] = hunts'[f].name
        BY <1>4, <1>5
    <2>2. CASE g # h /\ f # h
        BY <1>3, <2>2 DEF NamesAlike
    <2>3. CASE h \in DOMAIN hunts /\ hunts'[h].owner = hunts[h].owner /\ hunts'[h].name = hunts[h].name
        BY <1>3, <2>3 DEF NamesAlike
    <2>4. CASE ~NameTaken(hunts'[h].owner, hunts'[h].name, {h})
        <3>1. CASE g = h
            BY <2>4, <3>1 DEF NameTaken, Own
        <3>2. CASE f = h
            BY <2>1, <2>4, <3>2 DEF NameTaken, Own
        <3> QED
            BY <2>2, <3>1, <3>2
    <2> QED
        BY <2>2, <2>3, <2>4
<1>7. huntCount' \in 0 .. MaxHunts /\ DOMAIN hunts' \subseteq 1 .. huntCount'
    BY HuntsAssumption DEF HuntsAssumption, HuntsInv, HuntsStored
<1> QED
    BY <1>1, <1>2, <1>6, <1>7 DEF HuntsTypeOK, HuntsNamed, TabsTyped, Own

\* A hunt that is patched or touched is one still, of the next version.
Renamed(hunt, name, query) == [NextVersion(hunt) EXCEPT !.name = name, !.query = query]

LEMMA NextIsHunt ==
    ASSUME NEW hunt \in Hunt, hunt.version < MaxHuntVersion
    PROVE  /\ NextVersion(hunt) \in Hunt
           /\ NextVersion(hunt).owner = hunt.owner /\ NextVersion(hunt).name = hunt.name
    BY HuntsAssumption DEF HuntsAssumption, NextVersion, Hunt

LEMMA RenamedIsHunt ==
    ASSUME NEW hunt \in Hunt, hunt.version < MaxHuntVersion, NEW name \in Names, NEW query \in Queries
    PROVE  /\ Renamed(hunt, name, query) \in Hunt
           /\ Renamed(hunt, name, query).owner = hunt.owner /\ Renamed(hunt, name, query).name = name
<1> DEFINE next == NextVersion(hunt)
<1>1. next \in Hunt /\ next.owner = hunt.owner
    BY NextIsHunt
<1>2. Renamed(hunt, name, query) = [next EXCEPT !.name = name, !.query = query]
    BY DEF Renamed
<1> HIDE DEF next
<1> QED
    BY <1>1, <1>2 DEF Hunt

LEMMA HuntPatchTyped ==
    ASSUME HuntsInv, HuntsTypeOK, HuntsInv', NEW t \in Tabs, NEW name \in Names, NEW query \in Queries,
           NEW h, NEW tags, PatchHunt(t, h, name, query, tags)
    PROVE  HuntsTypeOK'
<1> DEFINE new == Renamed(hunts[h], name, query)
<1>1. /\ h \in DOMAIN hunts /\ hunts[h] \in Hunt /\ hunts[h].owner = OwnerOf[t]
      /\ Shows(t, h, hunts'[h]) /\ huntCount' = huntCount /\ huntCount <= MaxHunts
      /\ HuntsInv' /\ DOMAIN tabs = Tabs
    BY HuntsAssumption DEF HuntsAssumption, PatchHunt, Own, HuntsTypeOK, HuntsInv, TabsOpened
<1>2. CASE TagsMatch(tags, h)
    <2>1. /\ hunts[h].version < MaxHuntVersion
          /\ name = hunts[h].name \/ ~NameTaken(OwnerOf[t], name, {h})
          /\ hunts' = [hunts EXCEPT ![h] = new]
        BY <1>2 DEF PatchHunt, Renamed
    <2>2. new \in Hunt /\ new.owner = hunts[h].owner /\ new.name = name
        BY <1>1, <2>1, RenamedIsHunt
    <2> HIDE DEF new
    <2>3. /\ h \in DOMAIN hunts' /\ hunts'[h] = new
          /\ \A g \in DOMAIN hunts' \ {h} : g \in DOMAIN hunts /\ hunts'[g] = hunts[g]
        BY <1>1, <2>1
    <2>4. \A u \in Tabs : tabs'[u] = tabs[u] \/ tabs'[u] = [id |-> h, hunt |-> hunts'[h]]
        BY <1>1 DEF Shows
    <2>5. hunts'[h].name = hunts[h].name \/ ~NameTaken(hunts'[h].owner, hunts'[h].name, {h})
        BY <1>1, <2>1, <2>2, <2>3
    <2> QED
        BY <1>1, <2>2, <2>3, <2>4, <2>5, OneHuntTyped
<1>3. CASE ~ TagsMatch(tags, h)
    <2>1. hunts' = hunts
        BY <1>3 DEF PatchHunt
    <2>2. \A u \in Tabs : tabs'[u] = tabs[u] \/ tabs'[u] = [id |-> h, hunt |-> hunts'[h]]
        BY <1>1 DEF Shows
    <2> QED
        BY <1>1, <2>1, <2>2, OneHuntTyped
<1> QED
    BY <1>2, <1>3

\* No owner has two hunts of one name but for blanks, whatever the tabs of all
\* accounts create, rename and delete, and every tab shows a hunt as one can
\* be (HuntStore._name_taken).
THEOREM HuntsTyped == HuntsSpec => []HuntsTypeOK
<1>1. HuntsInit => HuntsInv /\ HuntsTypeOK
    BY NothingOpen, HuntsAssumption DEF HuntsAssumption, HuntsInit, HuntsTypeOK, NoHunts, Own
<1>2. ASSUME HuntsInv, HuntsTypeOK, [HuntsNext]_huntVars PROVE HuntsInv' /\ HuntsTypeOK'
    <2>1. HuntsInv'
        <3>1. CASE UNCHANGED huntVars
            BY <1>2, <3>1 DEF huntVars, HuntsInv, HuntsStored, TabsOpened, TabsAreTrue
        <3> QED
            BY <1>2, <3>1, GetKeeps, CreateKeepsHunts, PatchKeepsHunts, DeleteKeeps, TouchKeeps,
               ResetKeepsHunts DEF HuntsNext
    <2>2. huntCount <= MaxHunts /\ DOMAIN tabs = Tabs /\ \A h \in DOMAIN hunts : hunts[h] \in Hunt
        BY <1>2, HuntsAssumption DEF HuntsAssumption, HuntsTypeOK, HuntsInv, TabsOpened
    <2>3. CASE UNCHANGED huntVars
        <3>1. hunts' = hunts /\ huntCount' = huntCount /\ tabs' = tabs
            BY <2>3 DEF huntVars
        <3> QED
            BY <1>2, <2>1, <2>2, <3>1, OneHuntTyped
    <2>4. ASSUME NEW t \in Tabs, NEW h \in DOMAIN hunts, GetHunt(t, h) PROVE HuntsTypeOK'
        <3>1. /\ hunts' = hunts /\ huntCount' = huntCount
              /\ \A u \in Tabs : tabs'[u] = tabs[u] \/ tabs'[u] = [id |-> h, hunt |-> hunts'[h]]
            BY <2>2, <2>4 DEF GetHunt, Shows
        <3> QED
            BY <1>2, <2>1, <2>2, <3>1, OneHuntTyped
    <2>5. ASSUME NEW t \in Tabs, NEW name \in Names, NEW query \in Queries, CreateHunt(t, name, query)
          PROVE  HuntsTypeOK'
        <3> DEFINE h == huntCount + 1
                   hunt == [owner |-> OwnerOf[t], name |-> name, query |-> query, version |-> 1]
        <3>1. /\ hunts' = [g \in DOMAIN hunts \cup {h} |-> IF g = h THEN hunt ELSE hunts[g]]
              /\ Shows(t, h, hunt) /\ huntCount' = h /\ huntCount < MaxHunts
              /\ ~NameTaken(OwnerOf[t], name, {})
            BY <2>5 DEF CreateHunt
        <3>2. hunt \in Hunt /\ hunt.owner = OwnerOf[t] /\ hunt.name = name
            BY HuntsAssumption DEF HuntsAssumption, Hunt
        <3>3. huntCount' <= MaxHunts
            BY <3>1, <1>2, HuntsAssumption DEF HuntsAssumption, HuntsTypeOK
        <3> HIDE DEF hunt, h
        <3>4. /\ h \in DOMAIN hunts' /\ hunts'[h] = hunt
              /\ \A g \in DOMAIN hunts' \ {h} : g \in DOMAIN hunts /\ hunts'[g] = hunts[g]
            BY <3>1
        <3>5. ~NameTaken(hunts'[h].owner, hunts'[h].name, {h})
            BY <3>1, <3>2, <3>4 DEF NameTaken
        <3>6. \A u \in Tabs : tabs'[u] = tabs[u] \/ tabs'[u] = [id |-> h, hunt |-> hunts'[h]]
            BY <2>2, <3>1, <3>4 DEF Shows
        <3> QED
            BY <1>2, <2>1, <3>2, <3>3, <3>4, <3>5, <3>6, OneHuntTyped
    <2>6. ASSUME NEW t \in Tabs, NEW h \in DOMAIN hunts, NEW tags, DeleteHunt(t, h, tags)
          PROVE  HuntsTypeOK'
        <3>1. /\ h \notin DOMAIN hunts' /\ huntCount' = huntCount /\ tabs' = tabs
              /\ \A g \in DOMAIN hunts' \ {h} : g \in DOMAIN hunts /\ hunts'[g] = hunts[g]
            BY <2>6 DEF DeleteHunt
        <3> QED
            BY <1>2, <2>1, <2>2, <3>1, OneHuntTyped
    <2>7. ASSUME NEW h \in DOMAIN hunts, TouchHunt(h) PROVE HuntsTypeOK'
        <3> DEFINE new == NextVersion(hunts[h])
        <3>1. /\ hunts' = [hunts EXCEPT ![h] = new] /\ UNCHANGED <<huntCount, tabs>>
              /\ hunts[h].version < MaxHuntVersion
            BY <2>7 DEF TouchHunt
        <3>2. hunts[h].name \in Names /\ hunts[h].query \in Queries /\ hunts[h] \in Hunt
            BY <2>2 DEF Hunt
        <3>3. new \in Hunt /\ new.owner = hunts[h].owner /\ new.name = hunts[h].name
            BY <3>1, <3>2, NextIsHunt
        <3> HIDE DEF new
        <3>4. /\ h \in DOMAIN hunts' /\ hunts'[h] = new
              /\ \A g \in DOMAIN hunts' \ {h} : g \in DOMAIN hunts /\ hunts'[g] = hunts[g]
            BY <3>1
        <3> QED
            BY <1>2, <2>1, <2>2, <3>1, <3>3, <3>4, OneHuntTyped
    <2>8. CASE ResetHunts
        <3>1. huntCount' = 0 /\ DOMAIN hunts' = {} /\ tabs' = tabs
            BY <2>8 DEF ResetHunts, NoHunts
        <3>2. huntCount' \in 0 .. MaxHunts /\ DOMAIN hunts' \subseteq 1 .. huntCount'
            BY <3>1, HuntsAssumption DEF HuntsAssumption
        <3>3. HuntsNamed' /\ TabsTyped'
            BY <1>2, <3>1 DEF HuntsNamed, TabsTyped, HuntsTypeOK
        <3>4. \A h \in DOMAIN hunts' : hunts'[h] \in Hunt
            BY <3>1
        <3> QED
            BY <2>1, <3>2, <3>3, <3>4 DEF HuntsTypeOK, HuntsNamed, TabsTyped, Own
    <2> QED
        BY <1>2, <2>1, <2>3, <2>4, <2>5, <2>6, <2>7, <2>8, HuntPatchTyped DEF HuntsNext
<1> QED
    BY <1>1, <1>2, PTL DEF HuntsSpec

-----------------------------------------------------------------------------
\* The parts of the invariant of exports: each has a case that is there and is
\* ready no sooner than a duration after it was asked for; and what a key
\* stands for is an export of the case and the time noted with it.
Exporting(x) ==
    /\ {"case", "created", "title", "state", "ready", "archive"} \subseteq DOMAIN x
    /\ x.case \in DOMAIN cases
    /\ x.created \in Int /\ x.created <= time
    /\ x.state \in {"queued", "running", "ready"}
    /\ IF x.state = "ready" THEN x.ready \in Nat /\ x.created + Duration <= x.ready
       ELSE x.ready = None /\ x.archive = NoArchive
Numbered == exportCount \in Nat /\ DOMAIN exports = 1 .. exportCount
Recorded(record) ==
    /\ record.created \in Int
    /\ record.value \in DOMAIN exports
    /\ exports[record.value].case = record.case
    /\ exports[record.value].created = record.created
ExportsInv ==
    /\ CasesInv /\ Numbered
    /\ \A e \in DOMAIN exports : Exporting(exports[e])
    /\ DOMAIN records \subseteq Keys /\ \A k \in DOMAIN records : Recorded(records[k])

\* A tick keeps what an export is an export of, and since when.
LEMMA TickedStays ==
    ASSUME NEW x, Exporting(x), time \in Nat
    PROVE  /\ Exporting(Ticked(x))
           /\ Ticked(x).case = x.case /\ Ticked(x).created = x.created
<1> DEFINE fields == {"case", "created", "title", "state", "ready", "archive"}
<1>0. Duration \in Nat \ {0} /\ Queued \in Nat /\ None \notin Nat /\ x.created \in Int /\ fields \subseteq DOMAIN x
    BY ExportsAssumption DEF Exporting, None
<1>1. CASE Ticked(x) = x
    BY <1>1
<1>2. CASE x.state = "ready" /\ Ticked(x) = [x EXCEPT !.archive = NoArchive]
    <2> DEFINE y == [x EXCEPT !.archive = NoArchive]
    <2>1. /\ DOMAIN y = DOMAIN x /\ y.case = x.case /\ y.created = x.created
          /\ y.state = x.state /\ y.ready = x.ready
        BY <1>0
    <2> HIDE DEF y
    <2>2. Exporting(y)
        BY <1>2, <2>1 DEF Exporting
    <2> QED
        BY <1>2, <2>1, <2>2 DEF y
<1>3. CASE x.state # "ready" /\ time - x.created >= Duration
    <2> DEFINE y == [x EXCEPT !.state = "ready", !.ready = time, !.archive = Archive(cases[x.case])]
    <2>1. /\ DOMAIN y = DOMAIN x /\ y.case = x.case /\ y.created = x.created
          /\ y.state = "ready" /\ y.ready = time
        BY <1>0
    <2>2. Ticked(x) = y
        BY <1>3 DEF Ticked
    <2> HIDE DEF y
    <2>3. x.created + Duration <= time
        BY <1>0, <1>3
    <2>4. Exporting(y)
        BY <2>1, <2>3 DEF Exporting
    <2> QED
        BY <2>1, <2>2, <2>4
<1>4. CASE x.state # "ready" /\ Ticked(x) = [x EXCEPT !.state = "running"]
    <2> DEFINE y == [x EXCEPT !.state = "running"]
    <2>1. /\ DOMAIN y = DOMAIN x /\ y.case = x.case /\ y.created = x.created
          /\ y.state = "running" /\ y.ready = x.ready /\ y.archive = x.archive
        BY <1>0
    <2> HIDE DEF y
    <2>2. Exporting(y)
        BY <1>4, <2>1 DEF Exporting
    <2> QED
        BY <1>4, <2>1, <2>2 DEF y
<1>5. \/ Ticked(x) = x
      \/ x.state = "ready" /\ Ticked(x) = [x EXCEPT !.archive = NoArchive]
      \/ x.state # "ready" /\ time - x.created >= Duration
      \/ x.state # "ready" /\ Ticked(x) = [x EXCEPT !.state = "running"]
    BY <1>0 DEF Ticked
<1> QED
    BY <1>1, <1>2, <1>3, <1>4, <1>5

\* What a step may do to the exports: it keeps those there are, up to ticks, and
\* what keys stand for, and cases stay.
LEMMA ExportsMove ==
    ASSUME ExportsInv, CasesInv', DOMAIN cases \subseteq DOMAIN cases', time <= time',
           Numbered', exportCount <= exportCount',
           \A e \in DOMAIN exports : \/ exports'[e] = exports[e]
                                     \/ exports'[e] = Ticked(exports[e]),
           \A e \in DOMAIN exports' \ DOMAIN exports : Exporting(exports[e])',
           \A k \in DOMAIN records' : \/ k \in DOMAIN records /\ records'[k] = records[k]
                                      \/ k \in Keys /\ Recorded(records[k])'
    PROVE  ExportsInv'
<1>0. time \in Nat /\ time' \in Nat
    BY DEF ExportsInv, CasesInv, Numbers
<1>1. ASSUME NEW e \in DOMAIN exports
      PROVE  /\ e \in DOMAIN exports' /\ Exporting(exports'[e])
             /\ exports'[e].case = exports[e].case /\ exports'[e].created = exports[e].created
    <2>1. Exporting(exports[e])
        BY DEF ExportsInv
    <2>2. e \in DOMAIN exports'
        BY DEF ExportsInv, Numbered
    <2> QED
        BY <1>0, <2>1, <2>2, TickedStays
<1>2. ASSUME NEW e \in DOMAIN exports' PROVE Exporting(exports[e])'
    <2>1. CASE e \in DOMAIN exports
        <3> DEFINE x == exports'[e]
        <3>1. Exporting(x)
            BY <1>1, <2>1
        <3>2. x.case \in DOMAIN cases' /\ x.created \in Int /\ x.created <= time'
            BY <1>0, <3>1 DEF Exporting
        <3> QED
            BY <3>1, <3>2 DEF Exporting
    <2> QED
        BY <2>1
<1>3. ASSUME NEW k \in DOMAIN records' PROVE k \in Keys /\ Recorded(records[k])'
    <2>1. CASE k \in DOMAIN records /\ records'[k] = records[k]
        <3>1. k \in Keys /\ Recorded(records[k])
            BY <2>1 DEF ExportsInv
        <3> QED
            BY <1>1, <2>1, <3>1 DEF Recorded
    <2> QED
        BY <2>1
<1> QED
    BY <1>2, <1>3 DEF ExportsInv

\* Edits of cases and time passing: no case goes.
LEMMA EditsKeepExports ==
    ASSUME ExportsInv, CaseStep \/ Pass, UNCHANGED exportVars
    PROVE  ExportsInv'
<1>1. CasesInv'
    BY CasesStepKeeps DEF ExportsInv, CasesNext
<1>2. count <= count' /\ time <= time'
    <2>1. count' \in {count, count + 1}
        BY DEF CaseStep, Get, Create, Patch, Pin, Unpin, AddNote, List, Follow, BotTick, Pass
    <2>2. time' \in {time, time + 1}
        BY DEF CaseStep, Get, Create, Patch, Pin, Unpin, AddNote, List, Follow, BotTick, Pass
    <2>3. count \in Nat /\ time \in Nat
        BY DEF ExportsInv, CasesInv, Numbers
    <2> QED
        BY <2>1, <2>2, <2>3
<1>3. DOMAIN cases \subseteq DOMAIN cases'
    BY <1>1, <1>2 DEF ExportsInv, CasesInv, Numbers, Versions
<1>4. /\ UNCHANGED <<exports, exportCount, records>> /\ Numbered' /\ exportCount <= exportCount'
      /\ \A k \in DOMAIN records' : k \in DOMAIN records
    BY DEF exportVars, ExportsInv, Numbered
<1> QED
    BY <1>1, <1>2, <1>3, <1>4, ExportsMove

\* A tick of all exports changes neither their number nor the cases.
LEMMA TicksKeepExports ==
    ASSUME ExportsInv, exports' = TickedAll, UNCHANGED <<casesVars, exportCount>>,
           \A k \in DOMAIN records' : k \in DOMAIN records /\ records'[k] = records[k]
    PROVE  ExportsInv'
<1>1. CasesInv' /\ UNCHANGED <<cases, time>>
    BY CasesStepKeeps DEF ExportsInv, casesVars
<1>2. Numbered' /\ exportCount <= exportCount' /\ DOMAIN exports' = DOMAIN exports
    BY DEF ExportsInv, Numbered, TickedAll
<1>3. \A e \in DOMAIN exports : exports'[e] = Ticked(exports[e])
    BY DEF TickedAll
<1>4. time <= time'
    BY <1>1 DEF CasesInv, Numbers
<1> QED
    BY <1>1, <1>2, <1>3, <1>4, ExportsMove

\* An export is asked for, by a key or not, for the first time or again.
LEMMA AskKeeps ==
    ASSUME ExportsInv, NEW c \in DOMAIN cases, NEW key \in Keys \cup {NoKey}, Ask(c, key)
    PROVE  ExportsInv'
<1>0. CasesInv' /\ UNCHANGED <<cases, time, casesVars>> /\ time \in Nat /\ time <= time'
    BY CasesStepKeeps DEF ExportsInv, casesVars, Ask, CasesInv, Numbers
<1>1. CASE key \in Fresh
    <2>1. /\ exports' = TickedAll \/ exports' = exports
          /\ exportCount' = exportCount /\ records' = Purged
        BY <1>1 DEF Ask
    <2>2. \A k \in DOMAIN records' : k \in DOMAIN records /\ records'[k] = records[k]
        BY <2>1 DEF Purged, Fresh
    <2>3. CASE exports' = TickedAll
        BY <1>0, <2>1, <2>2, <2>3, TicksKeepExports
    <2>4. CASE exports' = exports
        <3>1. Numbered' /\ exportCount <= exportCount'
            BY <2>1, <2>4 DEF ExportsInv, Numbered
        <3> QED
            BY <1>0, <2>2, <2>4, <3>1, ExportsMove
    <2> QED
        BY <2>1, <2>3, <2>4
<1>2. CASE key \notin Fresh
    <2>1. PICK n, new, note :
             /\ n = exportCount + 1
             /\ new = [case |-> c, created |-> time, title |-> cases[c].title,
                       state |-> "queued", ready |-> None, archive |-> NoArchive]
             /\ note = [case |-> c, value |-> n, created |-> time]
             /\ exportCount' = n
             /\ exports' = [e \in DOMAIN exports \cup {n} |-> IF e = n THEN new ELSE exports[e]]
             /\ records' = IF key = NoKey THEN records
                           ELSE [k \in Fresh \cup {key} |-> IF k = key THEN note ELSE records[k]]
        BY <1>2 DEF Ask
    <2>2. Exporting(new)'
        BY <1>0, <2>1 DEF Exporting
    <2>3. new.case = c /\ new.created = time
        BY <2>1
    <2>4. note.case = c /\ note.value = n /\ note.created = time
        BY <2>1
    <2>5. /\ exportCount \in Nat /\ DOMAIN exports = 1 .. exportCount /\ n \notin DOMAIN exports
          /\ Numbered' /\ exportCount <= exportCount'
        BY <2>1 DEF ExportsInv, Numbered
    <2>6. /\ \A e \in DOMAIN exports : exports'[e] = exports[e]
          /\ \A e \in DOMAIN exports' \ DOMAIN exports : e = n
          /\ n \in DOMAIN exports' /\ exports'[n] = new
        BY <2>1, <2>5
    <2>7. \A e \in DOMAIN exports' \ DOMAIN exports : Exporting(exports[e])'
        BY <2>2, <2>6 DEF Exporting
    <2>8. ASSUME NEW k \in DOMAIN records'
          PROVE  \/ k \in DOMAIN records /\ records'[k] = records[k]
                 \/ k \in Keys /\ Recorded(records[k])'
        <3>1. CASE k = key /\ key # NoKey
            <4>1. records'[k] = note /\ k \in Keys
                BY <2>1, <3>1
            <4>2. Recorded(records[k])'
                BY <1>0, <2>3, <2>4, <2>6, <4>1 DEF Recorded
            <4> QED
                BY <4>1, <4>2
        <3>2. CASE k # key \/ key = NoKey
            BY <2>1, <3>2 DEF Fresh
        <3> QED
            BY <3>1, <3>2
    <2> QED
        BY <1>0, <2>5, <2>6, <2>7, <2>8, ExportsMove
<1> QED
    BY <1>1, <1>2

\* The invariant holds throughout.
LEMMA ExportsInvariant == ExportsSpec => []ExportsInv
<1>1. ExportsInit => ExportsInv
    BY CasesInitially DEF ExportsInit, ExportsInv, Numbered
<1>2. ASSUME ExportsInv, ResetAll PROVE ExportsInv'
    <2>1. CasesInv' /\ exports' = <<>> /\ exportCount' = 0 /\ DOMAIN records' = {}
        BY <1>2, ResetKeeps DEF ResetAll, ExportsInv
    <2> QED
        BY <2>1 DEF ExportsInv, Numbered
<1>3. ASSUME ExportsInv, UNCHANGED <<casesVars, exportVars>> PROVE ExportsInv'
    BY <1>3 DEF casesVars, exportVars, ExportsInv, Numbered, Exporting, Recorded, CasesInv, Numbers, Versions,
                HeldBehind, Behind
<1>4. ASSUME ExportsInv, Poll PROVE ExportsInv'
    BY <1>4, TicksKeepExports DEF Poll
<1>5. ExportsInv /\ [ExportsNext]_<<casesVars, exportVars>> => ExportsInv'
    BY <1>2, <1>3, <1>4, AskKeeps, EditsKeepExports DEF ExportsNext
<1> QED
    BY <1>1, <1>5, PTL DEF ExportsSpec

\* A retry under a key is never answered with the 404 of an export that is gone
\* or has expired, because a record is forgotten before the export made with it
\* expires; and an export that has yet to finish finds its case (ExportStore.get,
\* _finish and the idempotency records of create_export).
THEOREM RetriesFindExports == ExportsSpec => []ReplaysAreServed
<1>1. ExportsInv => ReplaysAreServed
    <2> SUFFICES ASSUME ExportsInv PROVE ReplaysAreServed
        OBVIOUS
    <2>1. ASSUME NEW k \in Fresh PROVE ~Expired(exports[records[k].value])
        <3> DEFINE x == exports[records[k].value]
        <3>1. Recorded(records[k]) /\ Exporting(x)
            BY DEF Fresh, ExportsInv, Recorded
        <3>2. x.created \in Int /\ time \in Int /\ time - x.created < RecordTtl
            BY <3>1 DEF Fresh, Exporting, Recorded, ExportsInv, CasesInv, Numbers
        <3>3. x.ready # None => x.ready \in Nat /\ x.created + Duration <= x.ready
            BY <3>1 DEF Exporting
        <3>4. /\ RecordTtl \in Nat /\ Duration \in Nat /\ Ttl \in Nat
              /\ RecordTtl <= Duration + Ttl
            BY ExportsAssumption
        <3> HIDE DEF x
        <3>5. ~Expired(x)
            BY <3>2, <3>3, <3>4 DEF Expired
        <3> QED
            BY <3>5 DEF x
    <2>2. \A k \in Fresh : Recorded(records[k])
        BY DEF Fresh, ExportsInv
    <2> QED
        BY <2>1, <2>2 DEF ReplaysAreServed, ExportsInv, Recorded, Exporting
<1> QED
    BY <1>1, ExportsInvariant, PTL

\* The types, and what clients conclude from the percentage: 100 exactly when
\* the bundle is there, or was (ExportStore._percent).
THEOREM ExportsTyped == ExportsSpec => []ExportsTypeOK
<1>1. ASSUME NEW x, Exporting(x), time \in Nat
      PROVE  Percent(x) \in 0 .. Full /\ (Percent(x) = Full <=> x.state = "ready")
    <2> DEFINE elapsed == time - x.created
               share == ((elapsed - Queued) * Full) \div (Duration - Queued)
    <2>1. Full \in Nat \ {0} /\ Queued \in Nat /\ Duration - Queued \in Nat \ {0} /\ elapsed \in Int
        BY <1>1, ExportsAssumption DEF Exporting
    <2>2. elapsed > Queued => share \in Nat
        <3>1. ASSUME elapsed > Queued PROVE (elapsed - Queued) * Full \in Nat
            <4>1. elapsed - Queued \in Nat
                BY <2>1, <3>1
            <4>2. \A a, b \in Nat : a * b \in Nat
                OBVIOUS
            <4> QED
                BY <2>1, <4>1, <4>2
        <3>2. \A a \in Nat, b \in Nat \ {0} : a \div b \in Nat
            OBVIOUS
        <3> QED
            BY <2>1, <3>1, <3>2
    <2>3. /\ x.state = "ready" => Percent(x) = Full
          /\ x.state # "ready" /\ elapsed <= Queued => Percent(x) = 0
          /\ x.state # "ready" /\ ~ elapsed <= Queued => Percent(x) = IF share < Full THEN share ELSE Full - 1
        BY DEF Percent
    <2> HIDE DEF elapsed, share
    <2> QED
        BY <2>1, <2>2, <2>3
<1>2. ExportsInv => ExportsTypeOK
    <2> SUFFICES ASSUME ExportsInv PROVE ExportsTypeOK
        OBVIOUS
    <2>1. ASSUME NEW e \in DOMAIN exports
          PROVE  /\ Percent(exports[e]) \in 0 .. Full
                 /\ Percent(exports[e]) = Full <=> exports[e].state = "ready"
        BY <1>1 DEF ExportsInv, CasesInv, Numbers
    <2> QED
        BY <2>1 DEF ExportsInv, Numbered, Exporting, ExportsTypeOK, None
<1> QED
    BY <1>2, ExportsInvariant, PTL

-----------------------------------------------------------------------------
\* A set of numbers has a least one.
LEMMA LeastOf ==
    ASSUME NEW S \in SUBSET Nat, S # {}
    PROVE  \E n \in S : \A m \in S : n <= m
<1>1. \E R : IsWellFoundedOn(R, Nat) /\ \A a, b \in Nat : a < b => <<a, b>> \in R
    <2> DEFINE R == OpToRel(<, Nat)
    <2>1. IsWellFoundedOn(R, Nat)
        BY NatLessThanWellFounded
    <2>2. \A a, b \in Nat : a < b => <<a, b>> \in R
        <3>1. R = {ss \in Nat \X Nat : ss[1] < ss[2]}
            BY Zenon DEF OpToRel
        <3> HIDE DEF R
        <3> QED
            BY <3>1
    <2> HIDE DEF R
    <2> QED
        BY <2>1, <2>2
<1>2. PICK R : IsWellFoundedOn(R, Nat) /\ \A a, b \in Nat : a < b => <<a, b>> \in R
    BY <1>1
<1>3. PICK n \in S : \A m \in S : ~ (<<m, n>> \in R)
    <2>1. IsWellFoundedOn(R, Nat) /\ S \subseteq Nat
        BY <1>2
    <2> QED
        BY <2>1, WFMin, Zenon
<1>4. S \subseteq Nat /\ \A m \in S : m \in Nat /\ n \in Nat
    OBVIOUS
<1>5. \A m \in S : ~ m < n
    BY <1>2, <1>3, <1>4
<1> QED
    BY <1>4, <1>5

\* A walk of tick() over the records.
LEMMA WalkExists ==
    ASSUME NEW n \in Nat, Len(queue) = n
    PROVE  \E walk : /\ walk = [i \in 0 .. n |->
                                  IF i = 0 THEN Unwalked
                                  ELSE IF walk[i - 1].stop THEN walk[i - 1] ELSE Turn(walk[i - 1], i)]
                     /\ Walked = walk[n]
<1> DEFINE Next1(v, i) == IF v.stop THEN v ELSE Turn(v, i)
           Is(walk, m) == walk = [i \in 0 .. m |-> IF i = 0 THEN Unwalked ELSE Next1(walk[i - 1], i)]
           Bad == {m \in Nat : ~ \E walk : Is(walk, m)}
<1>1. \E walk : Is(walk, 0)
    <2>1. Is([i \in 0 .. 0 |-> Unwalked], 0)
        <3> HIDE DEF Next1
        <3> QED
            OBVIOUS
    <2> QED
        BY <2>1
<1>2. ASSUME NEW m \in Nat, NEW walk, Is(walk, m) PROVE \E more : Is(more, m + 1)
    <2> HIDE DEF Next1
    <2> DEFINE more == [i \in 0 .. m + 1 |-> IF i = m + 1 THEN Next1(walk[m], m + 1) ELSE walk[i]]
    <2>1. \A i \in 0 .. m : more[i] = walk[i]
        OBVIOUS
    <2>2. \A i \in 0 .. m : walk[i] = IF i = 0 THEN Unwalked ELSE Next1(walk[i - 1], i)
        BY <1>2
    <2>3. ASSUME NEW i \in 0 .. m + 1
          PROVE  more[i] = IF i = 0 THEN Unwalked ELSE Next1(more[i - 1], i)
        <3>1. CASE i = m + 1
            <4>1. i - 1 = m /\ i # 0 /\ more[i] = Next1(walk[m], m + 1) /\ more[m] = walk[m]
                BY <2>1, <3>1
            <4> QED
                BY <3>1, <4>1
        <3>2. CASE i = 0
            BY <2>1, <2>2, <3>2
        <3>3. CASE i \in 1 .. m
            <4>1. i - 1 \in 0 .. m /\ i \in 0 .. m /\ i # 0
                BY <3>3
            <4> QED
                BY <2>1, <2>2, <4>1
        <3> QED
            BY <3>1, <3>2, <3>3
    <2>4. Is(more, m + 1)
        <3>1. DOMAIN more = 0 .. m + 1 /\ more = [i \in 0 .. m + 1 |-> more[i]]
            OBVIOUS
        <3> HIDE DEF more
        <3> QED
            BY <2>3, <3>1
    <2> QED
        BY <2>4
<1>3. Bad = {}
    <2> SUFFICES ASSUME Bad # {} PROVE FALSE
        OBVIOUS
    <2>0. Bad \in SUBSET Nat
        OBVIOUS
    <2>1. PICK m \in Bad : \A k \in Bad : m <= k
        <3> HIDE DEF Bad
        <3> QED
            BY <2>0, LeastOf
    <2>2. m # 0
        BY <1>1
    <2>3. m - 1 \in Nat /\ m - 1 \notin Bad /\ (m - 1) + 1 = m
        <3>1. m \in Nat
            BY <2>0
        <3>2. m - 1 \in Nat /\ ~ (m <= m - 1)
            BY <2>2, <3>1
        <3> HIDE DEF Bad
        <3>3. m - 1 \notin Bad
            BY <2>1, <3>2
        <3> QED
            BY <3>1, <3>2, <3>3
    <2>4. PICK walk : Is(walk, m - 1)
        BY <2>3
    <2>5. \E more : Is(more, (m - 1) + 1)
        BY <1>2, <2>3, <2>4
    <2> QED
        BY <2>3, <2>5
<1>4. PICK walk : Is(walk, n)
    BY <1>3
<1> DEFINE W == CHOOSE walkw : walkw = [i \in 0 .. n |-> IF i = 0 THEN Unwalked
                                     ELSE IF walkw[i - 1].stop THEN walkw[i - 1] ELSE Turn(walkw[i - 1], i)]
<1>5. Is(W, n)
    BY <1>4, Zenon
<1>6. Walked = W[n]
    BY Zenon DEF Walked
<1> QED
    BY <1>5, <1>6

\* The parts of the invariant of imports: what the record at a place holds; that
\* those indexed are the first so many, and each is the sensor of its place;
\* and what keys stand for.
Entries ==
    [sha : {f.sha : f \in Files}, size : Nat, duration : Nat \ {0}, first : Int, last : Int,
     promised : Int, sensor : Int, created : Nat, started : Int,
     state : {"received", "indexing", "ready"}, indexed : Int]
Place(x, i) ==
    /\ x.promised = FirstImport + i - 1 /\ x.sensor = x.promised
    /\ x.first <= x.last /\ x.created <= clock
    /\ x.started = IF x.state = "received" THEN -1 ELSE x.created
FirstOnes(m, n) ==
    /\ \E k \in 0 .. n : DOMAIN m = 1 .. k
    /\ \A i \in DOMAIN m : m[i].sensor = FirstImport + i - 1
Standing(q, m) ==
    /\ q \in Seq(Entries)
    /\ \A i \in 1 .. Len(q) : Place(q[i], i) /\ (q[i].state = "ready" <=> i \in DOMAIN m)
    /\ FirstOnes(m, Len(q))
Distinct(q) == \A i, j \in 1 .. Len(q) : q[i].sha = q[j].sha => i = j
QueueInv ==
    /\ clock \in Nat
    /\ Standing(queue, imports) /\ Distinct(queue)
    /\ \A k \in DOMAIN importKeys : importKeys[k].value \in 1 .. Len(queue)

\* The next sensor is the one promised at the first place not indexed.
LEMMA NextIsPromised ==
    ASSUME NEW m, NEW i \in Nat \ {0}, DOMAIN m = 1 .. i - 1
    PROVE  NextSensor(m) = FirstImport + i - 1
<1>1. Cardinality(1 .. i - 1) = i - 1
    <2>1. i - 1 \in Nat /\ 1 \in Nat
        OBVIOUS
    <2>2. Cardinality(1 .. i - 1) = IF 1 > i - 1 THEN 0 ELSE (i - 1) - 1 + 1
        BY <2>1, FS_Interval
    <2> QED
        BY <2>1, <2>2
<1>2. FirstImport \in Nat
    BY WorldAssumption
<1> QED
    BY <1>1, <1>2 DEF NextSensor

\* The sessions an import counts are finitely many.
LEMMA CountedIsNumber ==
    ASSUME NEW sensor, NEW first, NEW last, NEW size \in Nat, NEW C,
           C \in SUBSET Synthesised(sensor, first, last, size)
    PROVE  Cardinality(C) \in Nat
<1> DEFINE many == IF size > MaxSessions THEN MaxSessions ELSE IF size < 1 THEN 1 ELSE size
           span == IF last - first < 1 THEN 1 ELSE last - first
           row(k) == [id |-> sensor * MaxSessions + k, sensor |-> sensor, rules |-> {},
                      start |-> first + (k * span) \div many]
           R == {row(k) : k \in 0 .. many - 1}
<1>1. many - 1 \in Int
    BY WorldAssumption
<1>2. IsFiniteSet(0 .. many - 1)
    BY <1>1, FS_Interval
<1>3. Synthesised(sensor, first, last, size) = R
    BY DEF Synthesised
<1> HIDE DEF many, row
<1>4. IsFiniteSet(R)
    <2> DEFINE I == 0 .. many - 1
               f == [k \in I |-> row(k)]
    <2>1. f \in Surjection(I, R)
        BY DEF Surjection
    <2> QED
        BY <1>2, <2>1, FS_Surjection
<1>5. IsFiniteSet(C)
    BY <1>3, <1>4, FS_Subset
<1> QED
    BY <1>5, FS_CardinalityType

\* What a walk hands on from place i: it stopped, or all up to i are indexed.
Handed(v, q, i) ==
    \E p, n, stop, r :
        /\ v = [queue |-> p, imports |-> n, stop |-> stop, raised |-> r]
        /\ stop \in BOOLEAN /\ r \in BOOLEAN /\ (stop \/ 1 .. i \subseteq DOMAIN n)
        /\ Standing(p, n) /\ Len(p) = Len(q) /\ \A j \in 1 .. Len(q) : p[j].sha = q[j].sha

\* One turn of a walk, at a place all places before which are indexed.
LEMMA TurnKeeps ==
    ASSUME NEW q, NEW m, Standing(q, m), clock \in Nat, NEW i \in 1 .. Len(q), 1 .. i - 1 \subseteq DOMAIN m,
           NEW raised \in BOOLEAN
    PROVE  Handed(Turn([queue |-> q, imports |-> m, stop |-> FALSE, raised |-> raised], i), q, i)
<1> DEFINE w == [queue |-> q, imports |-> m, stop |-> FALSE, raised |-> raised]
           x == q[i]
           start == IF x.started = -1 THEN x.created ELSE x.started
           elapsed == clock - start
           begun == [x EXCEPT !.started = start, !.state = "indexing"]
           expected == IF x.size > MaxSessions THEN MaxSessions ELSE IF x.size < 1 THEN 1 ELSE x.size
           partly == [begun EXCEPT !.indexed = (expected * elapsed) \div x.duration]
           done == Finished(begun, NextSensor(m))
           Put(y) == [q EXCEPT ![i] = y]
<1>0. x \in Entries /\ Place(x, i) /\ (x.state = "ready" <=> i \in DOMAIN m)
    BY DEF Standing
<1>1. begun \in Entries /\ begun.sha = x.sha /\ begun.state = "indexing" /\ Place(begun, i)
    <2>1. start = x.created
        BY <1>0 DEF Place, Entries
    <2>0. start \in Int
        BY <1>0, <2>1 DEF Entries
    <2> HIDE DEF start, x
    <2>2. begun \in Entries
        BY <1>0, <2>0 DEF Entries
    <2>3. /\ begun.sha = x.sha /\ begun.state = "indexing" /\ begun.started = start
          /\ begun.promised = x.promised /\ begun.sensor = x.sensor /\ begun.first = x.first
          /\ begun.last = x.last /\ begun.created = x.created
        BY <1>0 DEF Entries
    <2> HIDE DEF begun
    <2> QED
        BY <1>0, <2>1, <2>2, <2>3 DEF Place
<1>2. partly \in Entries /\ partly.sha = x.sha /\ partly.state = "indexing" /\ Place(partly, i)
    <2>1. (expected * elapsed) \div x.duration \in Int
        <3>1. expected \in Int /\ elapsed \in Int /\ x.duration \in Nat \ {0}
            <4>1. MaxSessions \in Nat /\ x.size \in Nat /\ x.duration \in Nat \ {0}
                  /\ x.created \in Nat /\ x.started \in Int
                BY <1>0, WorldAssumption DEF Entries
            <4> HIDE DEF x
            <4> QED
                BY <4>1
        <3>2. \A a \in Int, b \in Nat \ {0} : a \div b \in Int
            OBVIOUS
        <3>3. expected * elapsed \in Int
            BY <3>1
        <3> HIDE DEF expected, elapsed
        <3> QED
            BY <3>1, <3>2, <3>3
    <2> DEFINE v == (expected * elapsed) \div x.duration
    <2> HIDE DEF begun, x, v
    <2>2. v \in Int
        BY <2>1 DEF v, x, begun
    <2>3. partly = [begun EXCEPT !.indexed = v]
        BY DEF v, x, begun
    <2> HIDE DEF partly
    <2> QED
        BY <1>1, <2>2, <2>3 DEF Entries, Place
<1>3. DOMAIN m = 1 .. i - 1 \/ i \in DOMAIN m
    <2>1. PICK k \in 0 .. Len(q) : DOMAIN m = 1 .. k
        BY DEF Standing, FirstOnes
    <2> QED
        BY <2>1
<1>4. ASSUME x.state # "ready"
      PROVE  /\ done \in Entries /\ done.sha = x.sha /\ done.state = "ready" /\ Place(done, i)
             /\ NextSensor(m) = FirstImport + i - 1
    <2>1. NextSensor(m) = FirstImport + i - 1
        BY <1>0, <1>3, <1>4, NextIsPromised
    <2>2. FirstImport + i - 1 \in Int
        BY WorldAssumption DEF Standing
    <2> HIDE DEF begun
    <2> DEFINE rows == Synthesised(NextSensor(m), ClampedFirst(begun.first, begun.last),
                                   ClampedLast(begun.first, begun.last), begun.size)
               c == Cardinality({y \in rows : y.start >= DataStart /\ y.start \in begun.first .. begun.last})
    <2>3. c \in Nat
        <3>1. begun.size \in Nat
            BY <1>1 DEF Entries
        <3> QED
            BY <3>1, CountedIsNumber
    <2>4. done = [begun EXCEPT !.state = "ready", !.sensor = NextSensor(m), !.indexed = c]
        BY DEF Finished
    <2> HIDE DEF c, done, x
    <2>5. done \in Entries
        <3>1. NextSensor(m) \in Int /\ c \in Int
            BY <2>1, <2>2, <2>3
        <3> QED
            BY <1>1, <2>4, <3>1 DEF Entries
    <2>6. /\ done.sha = begun.sha /\ done.state = "ready" /\ done.started = begun.started
          /\ done.promised = begun.promised /\ done.sensor = NextSensor(m) /\ done.first = begun.first
          /\ done.last = begun.last /\ done.created = begun.created
        BY <1>1, <2>4 DEF Entries
    <2> QED
        BY <1>1, <2>1, <2>5, <2>6 DEF Place
<1>5. ASSUME NEW y \in Entries, y.sha = x.sha, Place(y, i), NEW n, FirstOnes(n, Len(q)),
             y.state = "ready" <=> i \in DOMAIN n,
             \A j \in 1 .. Len(q) : j # i => (j \in DOMAIN m <=> j \in DOMAIN n)
      PROVE  /\ Standing(Put(y), n) /\ Len(Put(y)) = Len(q)
             /\ \A j \in 1 .. Len(q) : Put(y)[j].sha = q[j].sha
    <2> DEFINE p == Put(y)
    <2>1. p \in Seq(Entries) /\ Len(p) = Len(q) /\ p[i] = y /\ \A j \in 1 .. Len(q) : j # i => p[j] = q[j]
        BY DEF Standing
    <2> HIDE DEF p
    <2> QED
        BY <1>5, <2>1 DEF Standing, p
<1>6. FirstOnes(m, Len(q))
    BY DEF Standing
<1>11. elapsed \in Int /\ x.duration \in Int
    <2>1. x.duration \in Int /\ x.created \in Int /\ x.started \in Int
        BY <1>0 DEF Entries
    <2> HIDE DEF x
    <2> QED
        BY <2>1
<1> HIDE DEF partly, done, begun, start, elapsed, expected
<1>7. CASE x.state = "ready"
    <2>1. Turn(w, i) = w
        BY <1>7 DEF Turn
    <2>2. 1 .. i \subseteq DOMAIN m
        BY <1>0, <1>7
    <2> QED
        BY <2>1, <2>2 DEF Handed
<1>8. CASE x.state # "ready" /\ elapsed < x.duration
    <2>1. Turn(w, i) = [queue |-> Put(partly), imports |-> m, stop |-> TRUE, raised |-> raised]
        <3>1. Turn(w, i) = [w EXCEPT !.stop = TRUE, !.queue = Put(partly)]
            <4>1. w.queue = q
                OBVIOUS
            <4> HIDE DEF w
            <4> QED
                BY <1>8, <1>11, <4>1 DEF Turn, partly, begun, elapsed, expected, start
        <3> QED
            BY <3>1
    <2>2. i \notin DOMAIN m
        BY <1>0, <1>8
    <2> QED
        BY <1>2, <1>5, <1>6, <2>1, <2>2 DEF Handed
<1>9. CASE x.state # "ready" /\ ~ elapsed < x.duration /\ NextSensor(m) > LastIndex
    <2>1. Turn(w, i) = [queue |-> Put(begun), imports |-> m, stop |-> TRUE, raised |-> TRUE]
        <3>1. Turn(w, i) = [w EXCEPT !.stop = TRUE, !.raised = TRUE, !.queue = Put(begun)]
            <4>1. w.queue = q /\ w.imports = m /\ elapsed >= x.duration
                BY <1>9, <1>11
            <4> HIDE DEF w
            <4> QED
                BY <1>9, <1>11, <4>1 DEF Turn, begun, elapsed, start
        <3> QED
            BY <3>1
    <2>2. i \notin DOMAIN m
        BY <1>0, <1>9
    <2> QED
        BY <1>1, <1>5, <1>6, <2>1, <2>2 DEF Handed
<1>10. CASE x.state # "ready" /\ ~ elapsed < x.duration /\ ~ NextSensor(m) > LastIndex
    <2> DEFINE n == WithImport(m, i, x.first, x.last, x.size)
    <2>1. Turn(w, i) = [queue |-> Put(done), imports |-> n, stop |-> FALSE, raised |-> raised]
        BY <1>10 DEF Turn, done, begun, elapsed, start
    <2>2. /\ DOMAIN n = 1 .. i /\ n[i].sensor = NextSensor(m)
          /\ \A j \in DOMAIN m : n[j] = m[j]
        <3>1. i \notin DOMAIN m /\ DOMAIN m = 1 .. i - 1 /\ DOMAIN m \cup {i} = 1 .. i
            BY <1>0, <1>3, <1>10
        <3>2. PICK entry : /\ entry.sensor = NextSensor(m)
                           /\ n = [j \in DOMAIN m \cup {i} |-> IF j = i THEN entry ELSE m[j]]
            BY <3>1 DEF WithImport
        <3> HIDE DEF n
        <3> QED
            BY <3>1, <3>2
    <2> HIDE DEF n
    <2>3. FirstOnes(n, Len(q))
        <3>1. \A j \in DOMAIN n : n[j].sensor = FirstImport + j - 1
            BY <1>0, <1>3, <1>4, <1>6, <1>10, <2>2 DEF FirstOnes
        <3> QED
            BY <2>2, <3>1 DEF FirstOnes
    <2>4. \A j \in 1 .. Len(q) : j # i => (j \in DOMAIN m <=> j \in DOMAIN n)
        BY <1>0, <1>3, <1>10, <2>2
    <2>5. i \in DOMAIN n /\ 1 .. i \subseteq DOMAIN n
        BY <2>2
    <2> QED
        BY <1>4, <1>5, <1>10, <2>1, <2>3, <2>4, <2>5 DEF Handed
<1> QED
    BY <1>7, <1>8, <1>9, <1>10

\* The whole walk: it leaves as many records, of the same contents.
LEMMA WalkKeeps ==
    ASSUME clock \in Nat, Standing(queue, imports)
    PROVE  /\ Standing(Walked.queue, Walked.imports) /\ Len(Walked.queue) = Len(queue)
           /\ \A j \in 1 .. Len(queue) : Walked.queue[j].sha = queue[j].sha
           /\ Walked.raised \in BOOLEAN
<1>0. Len(queue) \in Nat
    BY DEF Standing
<1> DEFINE n == Len(queue)
           Good(v, i) == Handed(v, queue, i)
<1>1. PICK walk : /\ walk = [i \in 0 .. n |->
                               IF i = 0 THEN Unwalked
                               ELSE IF walk[i - 1].stop THEN walk[i - 1] ELSE Turn(walk[i - 1], i)]
                  /\ Walked = walk[n]
    BY <1>0, WalkExists
<1>2. /\ walk[0] = Unwalked
      /\ \A i \in 1 .. n : walk[i] = IF walk[i - 1].stop THEN walk[i - 1] ELSE Turn(walk[i - 1], i)
    <2> HIDE DEF n
    <2> QED
        BY <1>0, <1>1 DEF n
<1>3. Good(walk[0], 0)
    <2>1. 1 .. 0 = {}
        OBVIOUS
    <2> QED
        BY <1>2, <2>1 DEF Unwalked, Handed
<1>4. ASSUME NEW i \in 1 .. n, Good(walk[i - 1], i - 1) PROVE Good(walk[i], i)
    <2>1. PICK p, m, stop, r :
             /\ walk[i - 1] = [queue |-> p, imports |-> m, stop |-> stop, raised |-> r]
             /\ stop \in BOOLEAN /\ r \in BOOLEAN /\ (stop \/ 1 .. i - 1 \subseteq DOMAIN m)
             /\ Standing(p, m) /\ Len(p) = n /\ \A j \in 1 .. n : p[j].sha = queue[j].sha
        BY <1>4 DEF Handed
    <2>2. walk[i - 1].stop = stop
        BY <2>1
    <2>3. CASE stop
        <3>1. walk[i] = walk[i - 1]
            BY <1>2, <2>2, <2>3
        <3> QED
            BY <2>1, <2>3, <3>1 DEF Handed
    <2>4. CASE ~stop
        <3>1. walk[i] = Turn([queue |-> p, imports |-> m, stop |-> FALSE, raised |-> r], i)
            <4>1. stop = FALSE
                BY <2>1, <2>4
            <4> QED
                BY <1>2, <2>1, <2>2, <4>1
        <3>2. i \in 1 .. Len(p) /\ 1 .. i - 1 \subseteq DOMAIN m
            BY <2>1, <2>4
        <3> HIDE DEF n
        <3>3. Handed(Turn([queue |-> p, imports |-> m, stop |-> FALSE, raised |-> r], i), p, i)
            <4>1. Standing(p, m) /\ r \in BOOLEAN
                BY <2>1
            <4> QED
                BY <3>2, <4>1, TurnKeeps
        <3>4. Len(p) = n /\ \A j \in 1 .. n : p[j].sha = queue[j].sha
            BY <2>1
        <3>5. PICK p2, m2, s2, r2 :
                 /\ walk[i] = [queue |-> p2, imports |-> m2, stop |-> s2, raised |-> r2]
                 /\ s2 \in BOOLEAN /\ r2 \in BOOLEAN /\ (s2 \/ 1 .. i \subseteq DOMAIN m2)
                 /\ Standing(p2, m2) /\ Len(p2) = Len(p)
                 /\ \A j \in 1 .. Len(p) : p2[j].sha = p[j].sha
            BY <3>1, <3>3 DEF Handed
        <3>6. Len(p2) = n /\ \A j \in 1 .. n : p2[j].sha = queue[j].sha
            BY <3>4, <3>5
        <3> QED
            BY <3>5, <3>6 DEF Handed, n
    <2> QED
        BY <2>1, <2>3, <2>4
<1>5. Good(walk[n], n)
    <2> DEFINE Bad == {i \in 0 .. n : ~Good(walk[i], i)}
    <2> HIDE DEF Good, n
    <2>1. Bad = {}
        <3> SUFFICES ASSUME Bad # {} PROVE FALSE
            OBVIOUS
        <3>1. Bad \in SUBSET Nat
            OBVIOUS
        <3>2. PICK i \in Bad : \A k \in Bad : i <= k
            <4> HIDE DEF Bad
            <4> QED
                BY <3>1, LeastOf
        <3>3. i \in 0 .. n /\ ~Good(walk[i], i)
            OBVIOUS
        <3>4. i # 0
            BY <1>3, <3>3
        <3>5. i \in 1 .. n /\ i - 1 \in 0 .. n /\ ~ i <= i - 1
            BY <1>0, <3>3, <3>4 DEF n
        <3>6. i - 1 \notin Bad
            <4> HIDE DEF Bad
            <4> QED
                BY <3>2, <3>5
        <3> QED
            BY <1>4, <3>3, <3>5, <3>6
    <2> QED
        BY <1>0, <2>1 DEF n
<1>6. PICK p, m, stop, r :
         /\ Walked = [queue |-> p, imports |-> m, stop |-> stop, raised |-> r]
         /\ r \in BOOLEAN
         /\ Standing(p, m) /\ Len(p) = n /\ \A j \in 1 .. n : p[j].sha = queue[j].sha
    BY <1>1, <1>5 DEF Handed
<1>7. Walked.queue = p /\ Walked.imports = m /\ Walked.raised = r
    BY <1>6
<1> QED
    BY <1>6, <1>7

\* So a tick preserves what is known of queue and imports.
LEMMA TickKeeps ==
    ASSUME QueueInv, Tick, \A k \in DOMAIN importKeys' : k \in DOMAIN importKeys /\ importKeys'[k] = importKeys[k]
    PROVE  QueueInv'
<1>1. PICK q, m : /\ queue' = q /\ imports' = m /\ clock' = clock
                  /\ Standing(q, m) /\ Len(q) = Len(queue) /\ \A j \in 1 .. Len(queue) : q[j].sha = queue[j].sha
    BY WalkKeeps DEF QueueInv, Tick
<1>2. Standing(queue, imports)'
    BY <1>1 DEF Standing, Place
<1>3. Distinct(queue)'
    BY <1>1 DEF Distinct, QueueInv
<1> QED
    BY <1>1, <1>2, <1>3 DEF QueueInv

\* An upload: replayed, known, or a new record at the next place.
LEMMA UploadKeeps ==
    ASSUME QueueInv, NEW f \in Files, NEW key \in ImportKeys \cup {NoImportKey}, Upload(f, key)
    PROVE  QueueInv'
<1>1. CASE key \in LiveKeys
    <2>1. \A k \in DOMAIN importKeys' : k \in DOMAIN importKeys /\ importKeys'[k] = importKeys[k]
        BY <1>1 DEF Upload, LiveKeys
    <2>2. CASE Tick
        BY <2>1, <2>2, TickKeeps
    <2>3. CASE UNCHANGED <<worldVars, queue>>
        BY <2>1, <2>3 DEF worldVars, QueueInv, Standing, Place, Distinct
    <2> QED
        BY <1>1, <2>2, <2>3 DEF Upload
<1>2. CASE key \notin LiveKeys /\ Seen(f) # {}
    <2>1. \A k \in DOMAIN importKeys' : k \in DOMAIN importKeys /\ importKeys'[k] = importKeys[k]
        BY <1>2 DEF Upload, LiveKeys
    <2>2. UNCHANGED <<worldVars, queue>>
        BY <1>2 DEF Upload
    <2> QED
        BY <2>1, <2>2 DEF worldVars, QueueInv, Standing, Place, Distinct
<1>3. CASE key \notin LiveKeys /\ Seen(f) = {}
    <2> DEFINE n == Len(queue)
               x == Record(f)
    <2>1. /\ queue' = Append(queue, x) /\ UNCHANGED <<clock, imports>>
          /\ \A k \in DOMAIN importKeys' : \/ k \in DOMAIN importKeys /\ importKeys'[k] = importKeys[k]
                                           \/ importKeys'[k].value = n + 1
        BY <1>3 DEF Upload, LiveKeys, worldVars
    <2>2. n \in Nat /\ queue \in Seq(Entries) /\ clock \in Nat
        BY DEF QueueInv, Standing
    <2>3. x \in Entries /\ Place(x, n + 1) /\ x.state = "received" /\ x.sha = f.sha
        <3> DEFINE first == IF f.stamped THEN f.first ELSE Epoch - HourBefore
                   last == IF f.stamped THEN f.last ELSE Epoch
        <3>1. first \in Int /\ last \in Int /\ FirstImport + n \in Int /\ FirstImport \in Nat
            <4>1. HourBefore \in Nat /\ Epoch \in Nat /\ FirstImport \in Nat /\ f.first \in Int /\ f.last \in Int
                BY ImportsAssumption, WorldAssumption
            <4> QED
                BY <2>2, <4>1
        <3>2. x = [sha |-> f.sha, size |-> f.size, duration |-> f.duration,
                   first |-> IF last < first THEN last ELSE first,
                   last |-> IF last < first THEN first ELSE last,
                   promised |-> FirstImport + n, sensor |-> FirstImport + n,
                   created |-> clock, started |-> -1, state |-> "received", indexed |-> 0]
            BY DEF Record
        <3>3. f.size \in Nat /\ f.duration \in Nat \ {0}
            BY ImportsAssumption
        <3> HIDE DEF first, last, n, x
        <3>4. x \in Entries
            BY <2>2, <3>1, <3>2, <3>3 DEF Entries
        <3>5. Place(x, n + 1)
            BY <2>2, <3>1, <3>2 DEF Place, n
        <3> QED
            BY <3>2, <3>4, <3>5
    <2>4. PICK r, q : r = x /\ q = queue
        OBVIOUS
    <2>5. /\ queue' \in Seq(Entries) /\ Len(queue') = n + 1 /\ queue'[n + 1] = r
          /\ \A i \in 1 .. n : queue'[i] = q[i]
        <3> HIDE DEF x
        <3> QED
            BY <2>1, <2>2, <2>3, <2>4
    <2>6. n + 1 \notin DOMAIN imports /\ FirstOnes(imports, n + 1)
        <3>1. PICK k \in 0 .. n : DOMAIN imports = 1 .. k
            BY DEF QueueInv, Standing, FirstOnes
        <3>2. k \in 0 .. n + 1 /\ n + 1 \notin 1 .. k
            BY <2>2, <3>1
        <3> QED
            BY <3>1, <3>2 DEF QueueInv, Standing, FirstOnes
    <2>7. Standing(queue, imports)'
        <3>1. ASSUME NEW i \in 1 .. n + 1
              PROVE  Place(queue[i], i)' /\ (queue'[i].state = "ready" <=> i \in DOMAIN imports')
            <4>1. CASE i = n + 1
                <5>1. queue'[i] = r /\ r = x /\ i \notin DOMAIN imports'
                    BY <2>1, <2>4, <2>5, <2>6, <4>1
                <5>2. Place(r, i) /\ r.state = "received"
                    BY <2>3, <4>1, <5>1
                <5> HIDE DEF x
                <5> QED
                    BY <2>1, <5>1, <5>2 DEF Place
            <4>2. CASE i \in 1 .. n
                <5>1. queue'[i] = q[i] /\ Place(q[i], i) /\ (q[i].state = "ready" <=> i \in DOMAIN imports)
                    BY <2>4, <2>5, <4>2 DEF QueueInv, Standing
                <5> QED
                    BY <2>1, <5>1 DEF Place
            <4> QED
                BY <2>2, <4>1, <4>2
        <3>2. FirstOnes(imports, Len(queue))'
            BY <2>1, <2>5, <2>6 DEF FirstOnes
        <3> QED
            BY <2>5, <3>1, <3>2 DEF Standing
    <2>8. Distinct(queue)'
        <3>1. \A i \in 1 .. n : queue'[i].sha = queue[i].sha /\ queue[i].sha # f.sha
            BY <1>3, <2>4, <2>5 DEF Seen
        <3>2. queue'[n + 1].sha = f.sha
            BY <2>3, <2>4, <2>5
        <3>3. \A i \in 1 .. n + 1 : i \in 1 .. n \/ i = n + 1
            BY <2>2
        <3> HIDE DEF x, n
        <3> QED
            BY <2>5, <3>1, <3>2, <3>3 DEF Distinct, QueueInv, n
    <2>9. \A k \in DOMAIN importKeys' : importKeys'[k].value \in 1 .. Len(queue')
        <3>1. \A v : v \in 1 .. n \/ v = n + 1 => v \in 1 .. n + 1
            BY <2>2
        <3> QED
            BY <2>1, <2>5, <3>1 DEF QueueInv
    <2> QED
        BY <2>1, <2>2, <2>7, <2>8, <2>9 DEF QueueInv
<1> QED
    BY <1>1, <1>2, <1>3

\* The invariant holds throughout.
LEMMA QueueInvariant == QueueSpec => []QueueInv
<1>1. ASSUME queue = <<>>, imports = NoImports, DOMAIN importKeys = {}, clock \in Nat PROVE QueueInv
    <2>1. queue \in Seq(Entries) /\ Len(queue) = 0 /\ 1 .. 0 = {} /\ DOMAIN imports = {}
        BY <1>1 DEF NoImports
    <2> QED
        BY <1>1, <2>1 DEF QueueInv, Standing, FirstOnes, Distinct
<1>2. QueueInit => QueueInv
    BY <1>1 DEF QueueInit, WorldInit
<1>3. QueueInv /\ [QueueNext]_importVars => QueueInv'
    <2> SUFFICES ASSUME QueueInv, [QueueNext]_importVars PROVE QueueInv'
        OBVIOUS
    <2>1. CASE PollImports \/ Look
        BY <2>1, TickKeeps DEF PollImports, Look
    <2>2. CASE ResetImports
        <3>1. queue' = <<>> /\ imports' = NoImports /\ DOMAIN importKeys' = {} /\ clock' \in Nat
            BY <2>2 DEF ResetImports, QueueInv
        <3>2. queue' \in Seq(Entries) /\ Len(queue') = 0 /\ 1 .. 0 = {} /\ DOMAIN imports' = {}
            BY <3>1 DEF NoImports
        <3> QED
            BY <3>1, <3>2 DEF QueueInv, Standing, FirstOnes, Distinct
    <2>3. CASE (AskLedger /\ UNCHANGED queueVars) \/ Wait \/ UNCHANGED importVars
        <3>1. UNCHANGED <<queue, imports, importKeys>> /\ clock' \in Nat /\ clock <= clock'
            BY <2>3 DEF AskLedger, Wait, importVars, queueVars, worldVars, QueueInv
        <3>2. Standing(queue, imports)'
            <4>1. \A i \in 1 .. Len(queue) : Place(queue[i], i)'
                <5>1. \A i \in 1 .. Len(queue) : Place(queue[i], i) /\ queue[i].created \in Nat
                    <6>1. \A i \in 1 .. Len(queue) : queue[i] \in Entries /\ Place(queue[i], i)
                        BY DEF QueueInv, Standing
                    <6> QED
                        BY <6>1 DEF Entries
                <5> QED
                    BY <3>1, <5>1 DEF Place, QueueInv
            <4> QED
                BY <3>1, <4>1 DEF QueueInv, Standing, FirstOnes
        <3> QED
            BY <3>1, <3>2 DEF QueueInv, Distinct
    <2> QED
        BY <2>1, <2>2, <2>3, UploadKeeps DEF QueueNext
<1> QED
    BY <1>2, <1>3, PTL DEF QueueSpec

\* The sensor named in the 202 of an import, and in the answer to a duplicate,
\* is the one it becomes: records are walked in order, up to the first that is
\* not done, so that the count of imports is the place of the next
\* (ImportStore.create, tick and SimWorld.register_import).
THEOREM PromisesAreKept == QueueSpec => []PromisedSensor
<1>1. QueueInv => PromisedSensor
    <2> SUFFICES ASSUME QueueInv, NEW i \in 1 .. Len(queue)
                 PROVE  /\ queue[i].sensor = queue[i].promised
                        /\ i \in DOMAIN imports => imports[i].sensor = queue[i].promised
        BY DEF PromisedSensor
    <2> QED
        BY DEF QueueInv, Standing, Place, FirstOnes
<1> QED
    BY <1>1, QueueInvariant, PTL

\* One record per content, whoever uploads it and under whatever key, and 100
\* percent exactly when it is ready (ImportStore.by_sha256, progress).
THEOREM QueueTyped == QueueSpec => []QueueTypeOK
<1>1. ASSUME NEW x \in Entries, NEW i, Place(x, i), clock \in Nat
      PROVE  Progress(x) \in 0 .. Percents /\ (Progress(x) = Percents <=> x.state = "ready")
    <2> DEFINE share == ((clock - x.started) * Percents) \div x.duration
    <2>1. Percents \in Nat \ {0} /\ x.duration \in Nat \ {0} /\ x.created \in Nat
          /\ x.state \in {"received", "indexing", "ready"}
        BY ImportsAssumption DEF Entries
    <2>2. x.state = "indexing" => share \in Nat
        <3>1. ASSUME x.state = "indexing" PROVE clock - x.started \in Nat
            BY <1>1, <2>1, <3>1 DEF Place
        <3>2. \A a, b \in Nat : a * b \in Nat
            OBVIOUS
        <3>3. \A a \in Nat, b \in Nat \ {0} : a \div b \in Nat
            OBVIOUS
        <3> QED
            BY <2>1, <3>1, <3>2, <3>3
    <2>3. /\ x.state = "ready" => Progress(x) = Percents
          /\ x.state = "received" => Progress(x) = 0
          /\ x.state = "indexing" => Progress(x) = IF share < Percents THEN share ELSE Percents - 1
        BY DEF Progress
    <2> HIDE DEF share
    <2> QED
        BY <2>1, <2>2, <2>3
<1>2. QueueInv => QueueTypeOK
    <2> SUFFICES ASSUME QueueInv PROVE QueueTypeOK
        OBVIOUS
    <2>1. ASSUME NEW i \in 1 .. Len(queue)
          PROVE  /\ queue[i] \in Entries /\ Place(queue[i], i)
                 /\ (queue[i].state = "ready" <=> i \in DOMAIN imports)
        BY DEF QueueInv, Standing
    <2>2. ASSUME NEW i \in 1 .. Len(queue)
          PROVE  /\ queue[i].state \in {"received", "indexing", "ready"}
                 /\ queue[i].first <= queue[i].last
                 /\ Progress(queue[i]) \in 0 .. Percents
                 /\ Progress(queue[i]) = Percents <=> queue[i].state = "ready"
                 /\ queue[i].state = "ready" <=> i \in DOMAIN imports
        <3>1. Progress(queue[i]) \in 0 .. Percents /\ (Progress(queue[i]) = Percents <=> queue[i].state = "ready")
            BY <1>1, <2>1 DEF QueueInv
        <3> QED
            BY <2>1, <3>1 DEF Entries, Place
    <2> QED
        BY <2>2 DEF QueueTypeOK, QueueInv, Distinct, LiveKeys
<1> QED
    BY <1>2, QueueInvariant, PTL

-----------------------------------------------------------------------------
\* The numbers a detection is ordered by, and when it is released.
Due(d) == Release(d.row, d.rule)
LEMMA DetectionNumbers ==
    ASSUME NEW d \in Detections
    PROVE  /\ d.row \in Rows /\ d.rule \in d.row.rules /\ d = [row |-> d.row, rule |-> d.rule]
           /\ Due(d) \in Nat /\ d.row.start \in Nat /\ d.row.start >= DataStart
           /\ d.row.sensor \in Sensors /\ Lag[d.row.sensor] \in Nat
           /\ d.row.start + Lag[d.row.sensor] < Due(d) /\ Due(d) <= d.row.start + Hour
           /\ d.row.sensor \in Int /\ d.row.id \in Int /\ d.rule \in Int
<1>1. PICK r, x : r \in Rows /\ d = [row |-> r, rule |-> x] /\ x \in r.rules
    BY DEF Detections
<1>2. /\ r.id \in Nat /\ r.start \in Nat /\ r.sensor \in Sensors /\ r.start >= DataStart
      /\ Lag[r.sensor] \in Nat /\ r.sensor \in Int /\ x \in Int
    <2>1. r.id \in Nat /\ r.start \in Nat /\ r.sensor \in Sensors /\ r.start >= DataStart
        BY <1>1, WorldAssumption
    <2>2. Lag \in [Sensors -> Nat] /\ Sensors \subseteq 1 .. FirstImport - 1 /\ FirstImport \in Nat
        BY WorldAssumption
    <2>3. r.rules \subseteq Int
        BY <1>1, WorldAssumption
    <2>4. r.sensor \in Int /\ Lag[r.sensor] \in Nat
        <3>1. \A i \in 1 .. FirstImport - 1 : i \in Int
            BY <2>2
        <3>2. Lag[r.sensor] \in Nat
            BY <2>1, <2>2
        <3>3. r.sensor \in 1 .. FirstImport - 1
            BY <2>1, <2>2
        <3> QED
            BY <3>1, <3>2, <3>3
    <2>5. x \in Int
        BY <1>1, <2>3
    <2> QED
        BY <2>1, <2>4, <2>5
<1>3. /\ Delay[<<r.id, x>>] \in 1 .. Hour /\ Lag[r.sensor] + Delay[<<r.id, x>>] <= Hour /\ Hour \in Nat
    BY <1>1, WorldAssumption
<1>4. Due(d) = r.start + Lag[r.sensor] + Delay[<<r.id, x>>]
    BY <1>1 DEF Due, Release
<1> QED
    BY <1>1, <1>2, <1>3, <1>4

\* The order of the ledger: by release, sensor, row and rule.
Earlier(d, e) ==
    \/ Due(d) < Due(e)
    \/ Due(d) = Due(e) /\ d.row.sensor < e.row.sensor
    \/ Due(d) = Due(e) /\ d.row.sensor = e.row.sensor /\ d.row.id < e.row.id
    \/ Due(d) = Due(e) /\ d.row.sensor = e.row.sensor /\ d.row.id = e.row.id /\ d.rule < e.rule
LEMMA BeforeIsSooner ==
    ASSUME NEW d, NEW e
    PROVE  Before(d, e) <=> Earlier(d, e)
<1>1. /\ Key(d)[1] = Due(d) /\ Key(d)[2] = d.row.sensor /\ Key(d)[3] = d.row.id /\ Key(d)[4] = d.rule
      /\ Key(e)[1] = Due(e) /\ Key(e)[2] = e.row.sensor /\ Key(e)[3] = e.row.id /\ Key(e)[4] = e.rule
    BY DEF Key, Due
<1>2. Before(d, e) <=>
        \/ Key(d)[1] < Key(e)[1]
        \/ Key(d)[1] = Key(e)[1] /\ Key(d)[2] < Key(e)[2]
        \/ Key(d)[1] = Key(e)[1] /\ Key(d)[2] = Key(e)[2] /\ Key(d)[3] < Key(e)[3]
        \/ Key(d)[1] = Key(e)[1] /\ Key(d)[2] = Key(e)[2] /\ Key(d)[3] = Key(e)[3] /\ Key(d)[4] < Key(e)[4]
    <2>1. 1 .. 4 = {1, 2, 3, 4} /\ 1 .. 1 - 1 = {} /\ 1 .. 2 - 1 = {1} /\ 1 .. 3 - 1 = {1, 2} /\ 1 .. 4 - 1 = {1, 2, 3}
        OBVIOUS
    <2> QED
        BY <2>1, Zenon DEF Before
<1> QED
    BY <1>1, <1>2 DEF Earlier
LEMMA SoonerOrders ==
    /\ \A d, e, f \in Detections : Earlier(d, e) /\ Earlier(e, f) => Earlier(d, f)
    /\ \A d \in Detections : ~ Earlier(d, d)
    /\ \A d, e \in Detections : d # e => Earlier(d, e) \/ Earlier(e, d)
<1>1. \A d \in Detections : Due(d) \in Int /\ d.row.sensor \in Int /\ d.row.id \in Int /\ d.rule \in Int
    BY DetectionNumbers
<1>2. ASSUME NEW d \in Detections, NEW e \in Detections, ~ Earlier(d, e), ~ Earlier(e, d) PROVE d = e
    <2>1. d.row.id = e.row.id /\ d.rule = e.rule
        BY <1>1, <1>2 DEF Earlier
    <2>2. d.row = e.row
        BY <2>1, DetectionNumbers, WorldAssumption
    <2> QED
        BY <2>1, <2>2, DetectionNumbers
<1>3. \A d, e, f \in Detections : Earlier(d, e) /\ Earlier(e, f) => Earlier(d, f)
    BY <1>1 DEF Earlier
<1>4. \A d \in Detections : ~ Earlier(d, d)
    BY <1>1 DEF Earlier
<1> QED
    BY <1>2, <1>3, <1>4

\* There are finitely many detections.
LEMMA FiniteDetections == IsFiniteSet(Detections)
<1> DEFINE Of(r) == {[row |-> r, rule |-> x] : x \in r.rules}
           All == {Of(r) : r \in Rows}
<1>1. ASSUME NEW r \in Rows PROVE IsFiniteSet(Of(r))
    <2> DEFINE f == [x \in r.rules |-> [row |-> r, rule |-> x]]
    <2>1. f \in Surjection(r.rules, Of(r))
        BY DEF Surjection
    <2>2. IsFiniteSet(r.rules)
        BY WorldAssumption
    <2> HIDE DEF f, Of
    <2> QED
        BY <2>1, <2>2, FS_Surjection
<1>2. IsFiniteSet(All)
    <2> DEFINE f == [r \in Rows |-> Of(r)]
    <2> HIDE DEF Of
    <2>1. f \in Surjection(Rows, All)
        BY DEF Surjection
    <2>2. IsFiniteSet(Rows)
        BY WorldAssumption
    <2> HIDE DEF f, All
    <2> QED
        BY <2>1, <2>2, FS_Surjection
<1>3. Detections = UNION All
    BY DEF Detections
<1>4. \A T \in All : IsFiniteSet(T)
    BY <1>1
<1> HIDE DEF All
<1> QED
    BY <1>2, <1>3, <1>4, FS_UNION

\* How many detections of a set come before one of them: no two have equally
\* many, and fewer come before an earlier one.
AheadIn(S, d) == {e \in S : Before(e, d)}
Nth(S, n) == {d \in S : Cardinality(AheadIn(S, d)) = n - 1}
LEMMA RanksDiffer ==
    ASSUME NEW S \in SUBSET Detections
    PROVE  /\ IsFiniteSet(S) /\ Cardinality(S) \in Nat
           /\ \A d \in S : /\ AheadIn(S, d) \in SUBSET S /\ IsFiniteSet(AheadIn(S, d))
                           /\ Cardinality(AheadIn(S, d)) \in 0 .. Cardinality(S) - 1
           /\ \A d, e \in S : Before(d, e) => Cardinality(AheadIn(S, d)) < Cardinality(AheadIn(S, e))
<1>1. IsFiniteSet(S) /\ Cardinality(S) \in Nat
    BY FiniteDetections, FS_Subset, FS_CardinalityType
<1>2. ASSUME NEW d \in S
      PROVE  /\ AheadIn(S, d) \in SUBSET S /\ IsFiniteSet(AheadIn(S, d))
             /\ Cardinality(AheadIn(S, d)) \in 0 .. Cardinality(S) - 1
    <2>1. AheadIn(S, d) \in SUBSET S /\ d \notin AheadIn(S, d)
        BY BeforeIsSooner, SoonerOrders DEF AheadIn
    <2>2. IsFiniteSet(AheadIn(S, d)) /\ Cardinality(AheadIn(S, d)) <= Cardinality(S)
          /\ (Cardinality(S) = Cardinality(AheadIn(S, d)) => S = AheadIn(S, d))
        BY <1>1, <2>1, FS_Subset
    <2>3. Cardinality(AheadIn(S, d)) \in Nat
        BY <2>2, FS_CardinalityType
    <2> QED
        BY <1>1, <2>1, <2>2, <2>3
<1>3. ASSUME NEW d \in S, NEW e \in S, Before(d, e)
      PROVE  Cardinality(AheadIn(S, d)) < Cardinality(AheadIn(S, e))
    <2>1. AheadIn(S, d) \in SUBSET AheadIn(S, e) /\ d \in AheadIn(S, e) /\ d \notin AheadIn(S, d)
        BY <1>3, BeforeIsSooner, SoonerOrders DEF AheadIn
    <2>2. Cardinality(AheadIn(S, d)) <= Cardinality(AheadIn(S, e))
          /\ (Cardinality(AheadIn(S, e)) = Cardinality(AheadIn(S, d)) => AheadIn(S, e) = AheadIn(S, d))
        BY <1>2, <2>1, FS_Subset
    <2> QED
        BY <1>2, <2>1, <2>2
<1> QED
    BY <1>1, <1>2, <1>3

\* Detections in order: each place is taken by one of them, and none is due
\* before the one at an earlier place.
LEMMA OrderIsList ==
    ASSUME NEW S \in SUBSET Detections
    PROVE  /\ DOMAIN InOrder(S) = 1 .. Cardinality(S)
           /\ InOrder(S) \in Seq({InOrder(S)[n] : n \in 1 .. Cardinality(S)})
           /\ \A n \in 1 .. Cardinality(S) :
                InOrder(S)[n] = CHOOSE d : d \in Nth(S, n)
<1> DEFINE C == Cardinality(S)
           At(n) == CHOOSE d : d \in Nth(S, n)
<1>1. C \in Nat
    BY RanksDiffer
<1>2. PICK ahead : ahead = [d \in S |-> Cardinality(AheadIn(S, d))]
    OBVIOUS
<1>3. InOrder(S) = [n \in 1 .. C |-> CHOOSE d \in S : ahead[d] = n - 1]
    BY <1>2 DEF InOrder, AheadIn
<1>4. \A n : (CHOOSE d \in S : ahead[d] = n - 1) = At(n)
    <2> TAKE n
    <2>1. \A d : d \in S /\ ahead[d] = n - 1 <=> d \in Nth(S, n)
        BY <1>2 DEF Nth
    <2> QED
        BY <2>1, Zenon
<1>5. PICK f : f = InOrder(S)
    OBVIOUS
<1>6. DOMAIN f = 1 .. C /\ f = [n \in 1 .. C |-> f[n]] /\ \A n \in 1 .. C : f[n] = At(n)
    BY <1>3, <1>4, <1>5
<1> HIDE DEF C, At
<1>7. f \in Seq({f[n] : n \in 1 .. C})
    BY <1>1, <1>6
<1> QED
    BY <1>5, <1>6, <1>7 DEF C, At
LEMMA OrderAscends ==
    ASSUME NEW S \in SUBSET Detections
    PROVE  /\ InOrder(S) \in Seq(S) /\ Len(InOrder(S)) = Cardinality(S)
           /\ \A m, n \in 1 .. Cardinality(S) : m < n => Due(InOrder(S)[m]) <= Due(InOrder(S)[n])
<1> DEFINE C == Cardinality(S)
           rank == [d \in S |-> Cardinality(AheadIn(S, d)) + 1]
<1>1. /\ C \in Nat /\ IsFiniteSet(S) /\ \A d \in S : Cardinality(AheadIn(S, d)) \in 0 .. C - 1
      /\ \A d, e \in S : Before(d, e) => Cardinality(AheadIn(S, d)) < Cardinality(AheadIn(S, e))
    BY RanksDiffer
<1>2. IsFiniteSet(1 .. C) /\ Cardinality(1 .. C) = C
    BY <1>1, FS_Interval
<1>3. rank \in [S -> 1 .. C] /\ \A d \in S : rank[d] = Cardinality(AheadIn(S, d)) + 1
    BY <1>1
<1>4. \A d, e \in S : d # e => Before(d, e) \/ Before(e, d)
    BY SoonerOrders, BeforeIsSooner
<1> HIDE DEF rank
<1>5. rank \in Injection(S, 1 .. C)
    <2>1. ASSUME NEW d \in S, NEW e \in S, rank[d] = rank[e] PROVE d = e
        <3>1. Cardinality(AheadIn(S, d)) = Cardinality(AheadIn(S, e))
              /\ Cardinality(AheadIn(S, d)) \in Int
            BY <1>1, <1>3, <2>1
        <3>2. ~ Before(d, e) /\ ~ Before(e, d)
            BY <1>1, <3>1
        <3> QED
            BY <1>4, <3>2
    <2> QED
        BY <1>3, <2>1 DEF Injection, IsInjective
<1>6. rank \in Surjection(S, 1 .. C)
    BY <1>1, <1>2, <1>5, FS_Injection
<1>7. PICK q : q = InOrder(S)
    OBVIOUS
<1>8. ASSUME NEW n \in 1 .. C PROVE q[n] \in S /\ Cardinality(AheadIn(S, q[n])) = n - 1
    <2>1. PICK d \in S : rank[d] = n
        BY <1>6 DEF Surjection
    <2>2. Cardinality(AheadIn(S, d)) = n - 1
        BY <1>1, <1>3, <2>1
    <2>3. q[n] = CHOOSE x : x \in Nth(S, n)
        BY <1>7, OrderIsList
    <2>4. d \in Nth(S, n)
        BY <2>2 DEF Nth
    <2>5. q[n] \in Nth(S, n)
        BY <2>3, <2>4
    <2> QED
        BY <2>5 DEF Nth
<1>9. DOMAIN q = 1 .. C /\ q \in Seq({q[n] : n \in 1 .. C})
    BY <1>7, OrderIsList
<1>10. q \in Seq(S) /\ Len(q) = C
    <2>1. {q[n] : n \in 1 .. C} \subseteq S
        BY <1>8
    <2> HIDE DEF C
    <2> QED
        BY <1>1, <1>9, <2>1, SeqMonotonic
<1>11. ASSUME NEW m \in 1 .. C, NEW n \in 1 .. C, m < n PROVE Due(q[m]) <= Due(q[n])
    <2>1. ~ Before(q[n], q[m])
        <3>1. ~ (n - 1 < m - 1)
            BY <1>11
        <3> QED
            BY <1>1, <1>8, <3>1
    <2>2. Due(q[m]) \in Int /\ Due(q[n]) \in Int
        BY <1>8, DetectionNumbers
    <2> QED
        BY <2>1, <2>2, BeforeIsSooner DEF Earlier
<1> HIDE DEF C
<1> QED
    BY <1>7, <1>10, <1>11 DEF C

\* Two sets in order, one after the other, if all of one come before the other.
LEMMA OrdersJoin ==
    ASSUME NEW A \in SUBSET Detections, NEW B \in SUBSET Detections,
           \A d \in A, e \in B : Due(d) < Due(e)
    PROVE  InOrder(A \cup B) = InOrder(A) \o InOrder(B)
<1>0. PICK S, a, b : S = A \cup B /\ a = Cardinality(A) /\ b = Cardinality(B)
    OBVIOUS
<1>1. A \cap B = {} /\ \A d \in A, e \in B : Before(d, e) /\ ~ Before(e, d)
    <2>1. \A d \in A, e \in B : Earlier(d, e) /\ ~ Earlier(e, d)
        <3>1. \A d \in Detections : Due(d) \in Int
            BY DetectionNumbers
        <3> QED
            BY <3>1 DEF Earlier
    <2>2. A \cap B = {}
        BY <2>1, SoonerOrders
    <2> QED
        BY <2>1, <2>2, BeforeIsSooner
<1>2. S \in SUBSET Detections
    BY <1>0
<1>3. a \in Nat /\ b \in Nat /\ IsFiniteSet(A) /\ IsFiniteSet(B)
    BY <1>0, RanksDiffer
<1>4. Cardinality(S) = a + b
    <2>1. Cardinality(S) = a + b - Cardinality(A \cap B)
        BY <1>0, <1>3, FS_Union
    <2>2. Cardinality(A \cap B) = 0
        BY <1>1, FS_EmptySet
    <2> QED
        BY <1>3, <2>1, <2>2
<1>5. ASSUME NEW d \in A PROVE Cardinality(AheadIn(S, d)) = Cardinality(AheadIn(A, d))
                                /\ Cardinality(AheadIn(A, d)) \in 0 .. a - 1
    <2>1. AheadIn(S, d) = AheadIn(A, d)
        BY <1>0, <1>1 DEF AheadIn
    <2> QED
        BY <1>0, <2>1, RanksDiffer
<1>6. ASSUME NEW d \in B PROVE Cardinality(AheadIn(S, d)) = a + Cardinality(AheadIn(B, d))
                                /\ Cardinality(AheadIn(B, d)) \in 0 .. b - 1
    <2>1. AheadIn(S, d) = A \cup AheadIn(B, d) /\ A \cap AheadIn(B, d) = {}
        BY <1>0, <1>1 DEF AheadIn
    <2>2. IsFiniteSet(AheadIn(B, d)) /\ Cardinality(AheadIn(B, d)) \in 0 .. b - 1
        BY <1>0, RanksDiffer
    <2>3. Cardinality(AheadIn(S, d)) = a + Cardinality(AheadIn(B, d)) - Cardinality(A \cap AheadIn(B, d))
        BY <1>0, <1>3, <2>1, <2>2, FS_Union
    <2>4. Cardinality(A \cap AheadIn(B, d)) = 0
        BY <2>1, FS_EmptySet
    <2> QED
        BY <1>3, <2>2, <2>3, <2>4
<1>7. PICK p, q, s : p = InOrder(A) /\ q = InOrder(B) /\ s = InOrder(S)
    OBVIOUS
<1>8. /\ DOMAIN p = 1 .. a /\ p \in Seq({p[n] : n \in 1 .. a})
      /\ DOMAIN q = 1 .. b /\ q \in Seq({q[n] : n \in 1 .. b})
      /\ DOMAIN s = 1 .. a + b /\ s \in Seq({s[n] : n \in 1 .. a + b})
    <2>1. DOMAIN p = 1 .. a /\ p \in Seq({p[n] : n \in 1 .. a})
        BY <1>0, <1>7, OrderIsList
    <2>2. DOMAIN q = 1 .. b /\ q \in Seq({q[n] : n \in 1 .. b})
        BY <1>0, <1>7, OrderIsList
    <2>3. DOMAIN s = 1 .. Cardinality(S) /\ s \in Seq({s[n] : n \in 1 .. Cardinality(S)})
        BY <1>2, <1>7, OrderIsList
    <2> QED
        BY <1>4, <2>1, <2>2, <2>3
<1>9. \A n \in 1 .. a : s[n] = p[n]
    <2> TAKE n \in 1 .. a
    <2>1. \A d \in S : Cardinality(AheadIn(S, d)) = n - 1 <=> d \in A /\ Cardinality(AheadIn(A, d)) = n - 1
        <3>1. \A d \in B : Cardinality(AheadIn(S, d)) # n - 1 /\ d \notin A
            BY <1>1, <1>3, <1>6
        <3> QED
            BY <1>0, <1>5, <3>1
    <2>2. s[n] = CHOOSE d : d \in Nth(S, n)
        <3>1. n \in 1 .. Cardinality(S)
            BY <1>3, <1>4
        <3> QED
            BY <1>2, <1>7, <3>1, OrderIsList
    <2>3. p[n] = CHOOSE d : d \in Nth(A, n)
        BY <1>0, <1>7, OrderIsList
    <2>4. Nth(S, n) = Nth(A, n)
        BY <1>0, <2>1 DEF Nth
    <2> QED
        BY <2>2, <2>3, <2>4
<1>10. \A n \in 1 .. b : s[a + n] = q[n]
    <2> TAKE n \in 1 .. b
    <2>1. \A d \in S : Cardinality(AheadIn(S, d)) = (a + n) - 1 <=> d \in B /\ Cardinality(AheadIn(B, d)) = n - 1
        <3>1. \A d \in A : Cardinality(AheadIn(S, d)) # (a + n) - 1 /\ d \notin B
            <4>1. \A c \in 0 .. a - 1 : c # (a + n) - 1
                BY <1>3
            <4> QED
                BY <1>1, <1>5, <4>1
        <3>2. \A d \in B : Cardinality(AheadIn(S, d)) = (a + n) - 1 <=> Cardinality(AheadIn(B, d)) = n - 1
            <4>1. \A c \in 0 .. b - 1 : a + c = (a + n) - 1 <=> c = n - 1
                BY <1>3
            <4> QED
                BY <1>6, <4>1
        <3> QED
            BY <1>0, <3>1, <3>2
    <2>2. a + n \in 1 .. Cardinality(S)
        BY <1>3, <1>4
    <2>3. s[a + n] = CHOOSE d : d \in Nth(S, a + n)
        BY <1>2, <1>7, <2>2, OrderIsList
    <2>4. q[n] = CHOOSE d : d \in Nth(B, n)
        BY <1>0, <1>7, OrderIsList
    <2>5. Nth(S, a + n) = Nth(B, n)
        <3>1. \A d \in B : d \in S
            BY <1>0
        <3>2. \A d : d \in S /\ Cardinality(AheadIn(S, d)) = (a + n) - 1
                 <=> d \in B /\ Cardinality(AheadIn(B, d)) = n - 1
            BY <2>1, <3>1
        <3>3. \A d : d \in Nth(S, a + n) <=> d \in Nth(B, n)
            BY <3>2 DEF Nth
        <3> QED
            BY <3>3
    <2> QED
        BY <2>3, <2>4, <2>5
<1>11. s = p \o q
    <2>1. PICK T : p \in Seq(T) /\ q \in Seq(T) /\ s \in Seq(T)
        <3>1. PICK T : T = {p[n] : n \in 1 .. a} \cup {q[n] : n \in 1 .. b} \cup {s[n] : n \in 1 .. a + b}
            OBVIOUS
        <3>2. p \in Seq(T) /\ q \in Seq(T) /\ s \in Seq(T)
            BY <1>8, <3>1, SeqMonotonic
        <3> QED
            BY <3>2
    <2>2. Len(p) = a /\ Len(q) = b /\ Len(s) = a + b
        BY <1>3, <1>8, <2>1
    <2>3. /\ p \o q \in Seq(T) /\ Len(p \o q) = a + b
          /\ \A n \in 1 .. a : (p \o q)[n] = p[n]
          /\ \A n \in 1 .. b : (p \o q)[a + n] = q[n]
        BY <1>3, <2>1, <2>2
    <2>4. \A n \in 1 .. a + b : n \in 1 .. a \/ (n - a \in 1 .. b /\ n = a + (n - a))
        BY <1>3
    <2>5. \A n \in 1 .. a + b : s[n] = (p \o q)[n]
        BY <1>9, <1>10, <2>3, <2>4
    <2> QED
        BY <2>1, <2>2, <2>3, <2>5, SeqEqual
<1> QED
    BY <1>0, <1>7, <1>11

\* What an hour of the ledger releases is what _build() finds for it, and all
\* that is released is past the start of the data.
HoursOf(h) == {d \in Detections : HourOf(Due(d)) < h}
LEMMA HourGrows ==
    ASSUME NEW a \in Nat, NEW b \in Nat, a <= b, b <= a + Hour
    PROVE  HourOf(a) \in Nat /\ HourOf(b) \in {HourOf(a), HourOf(a) + 1}
<1>1. Hour \in Nat \ {0}
    BY WorldAssumption
<1>2. PICK H, p, q : H = Hour /\ p = HourOf(a) /\ q = HourOf(b)
    OBVIOUS
<1>3. /\ p \in Int /\ q \in Int
      /\ p * H <= a /\ a < (p + 1) * H /\ q * H <= b /\ b < (q + 1) * H
    <2>1. \A x \in Nat, h \in Nat \ {0} : x \div h \in Int /\ (x \div h) * h <= x /\ x < (x \div h + 1) * h
        OBVIOUS
    <2> QED
        BY <1>1, <1>2, <2>1 DEF HourOf
<1>4. ~ (q < p) /\ ~ (q > p + 1) /\ p >= 0
    <2>1. \A x, y, h \in Int : h > 0 /\ x <= y => x * h <= y * h
        <3>1. \A z \in Nat, h \in Nat : z * h \in Nat
            OBVIOUS
        <3>2. ASSUME NEW x \in Int, NEW y \in Int, NEW h \in Int, h > 0, x <= y PROVE x * h <= y * h
            <4>1. (y - x) * h \in Nat
                BY <3>1, <3>2
            <4>2. (y - x) * h = y * h - x * h
                BY <3>2
            <4> QED
                BY <4>1, <4>2, <3>2
        <3> QED
            BY <3>2
    <2>2. ASSUME q < p PROVE FALSE
        <3>1. (q + 1) * H <= p * H
            BY <1>1, <1>2, <1>3, <2>1, <2>2
        <3> QED
            BY <1>1, <1>2, <1>3, <3>1
    <2>3. ASSUME q > p + 1 PROVE FALSE
        <3>1. (p + 2) * H <= q * H
            BY <1>1, <1>2, <1>3, <2>1, <2>3
        <3>2. (p + 2) * H = (p + 1) * H + H
            BY <1>1, <1>2, <1>3
        <3> QED
            BY <1>1, <1>2, <1>3, <3>1, <3>2
    <2>4. ASSUME p < 0 PROVE FALSE
        <3>1. (p + 1) * H <= 0 * H
            BY <1>1, <1>2, <1>3, <2>1, <2>4
        <3> QED
            BY <1>1, <1>2, <1>3, <3>1
    <2> QED
        BY <1>3, <2>2, <2>3, <2>4
<1> QED
    BY <1>2, <1>3, <1>4
LEMMA HoursRise ==
    ASSUME NEW a \in Nat, NEW b \in Nat, HourOf(a) < HourOf(b)
    PROVE  a < b
<1>1. Hour \in Nat \ {0}
    BY WorldAssumption
<1>2. \A x, y \in Nat, h \in Nat \ {0} : x <= y => x \div h <= y \div h
    OBVIOUS
<1> QED
    BY <1>1, <1>2 DEF HourOf
LEMMA HourReleases ==
    ASSUME NEW h \in Int, h >= HourOf(DataStart)
    PROVE  Candidates(h) = {d \in Detections : HourOf(Due(d)) = h}
<1>1. DataStart \in Nat /\ Hour \in Nat \ {0}
    BY WorldAssumption
<1>2. ASSUME NEW d \in Detections
      PROVE  /\ HourOf(d.row.start) \in Nat
             /\ HourOf(Due(d)) \in {HourOf(d.row.start), HourOf(d.row.start) + 1}
             /\ HourOf(d.row.start) >= HourOf(DataStart)
    <2>1. d.row.start \in Nat /\ Due(d) \in Nat /\ d.row.start <= Due(d) /\ Due(d) <= d.row.start + Hour
          /\ DataStart <= d.row.start
        BY <1>1, DetectionNumbers
    <2>2. \A x, y \in Nat, z \in Nat \ {0} : x <= y => x \div z <= y \div z
        OBVIOUS
    <2>3. HourOf(DataStart) <= HourOf(d.row.start)
        BY <1>1, <2>1, <2>2 DEF HourOf
    <2>4. HourOf(DataStart) \in Int
        BY <1>1 DEF HourOf
    <2> QED
        BY <2>1, <2>3, <2>4, HourGrows
<1>3. ASSUME NEW d \in Detections, HourOf(Due(d)) = h PROVE HourOf(d.row.start) \in {h - 1, h}
    BY <1>2, <1>3
<1> QED
    BY <1>2, <1>3 DEF Candidates, Due
LEMMA NothingEarlier == HoursOf(HourOf(DataStart)) = {}
<1> SUFFICES ASSUME NEW d \in Detections, HourOf(Due(d)) < HourOf(DataStart) PROVE FALSE
    BY DEF HoursOf
<1>1. DataStart \in Nat /\ Due(d) \in Nat /\ d.row.start \in Nat /\ DataStart <= d.row.start
      /\ d.row.start + Lag[d.row.sensor] < Due(d) /\ Lag[d.row.sensor] \in Nat
    BY DetectionNumbers, WorldAssumption
<1>2. Due(d) < DataStart
    BY <1>1, HoursRise
<1> QED
    BY <1>1, <1>2

\* A list of lists, laid end to end: what grows by one list at a time.
RunsOver(g, parts, n) == g = [i \in 1 .. n |-> IF i = 1 THEN parts[i] ELSE g[i - 1] \o parts[i]]
LEMMA FlattenGrows ==
    ASSUME NEW n \in Nat \ {0}, NEW parts, Len(parts) = n, NEW g, RunsOver(g, parts, n)
    PROVE  FlattenSeq(parts) = g[n]
<1> DEFINE F == CHOOSE flatten : flatten = [i \in 1 .. n |->
                    IF i = 1 THEN parts[i] ELSE flatten[i - 1] \o parts[i]]
<1>1. F = [i \in 1 .. n |-> IF i = 1 THEN parts[i] ELSE F[i - 1] \o parts[i]]
    BY Zenon DEF RunsOver
<1>2. FlattenSeq(parts) = F[n]
    <2>1. ~ Len(parts) = 0 /\ Len(parts) = n
        OBVIOUS
    <2> QED
        BY <2>1, Zenon DEF FlattenSeq
<1> HIDE DEF F
<1>3. \A i \in 1 .. n : /\ F[i] = IF i = 1 THEN parts[i] ELSE F[i - 1] \o parts[i]
                        /\ g[i] = IF i = 1 THEN parts[i] ELSE g[i - 1] \o parts[i]
    BY <1>1 DEF RunsOver
<1> DEFINE Bad == {i \in 1 .. n : F[i] # g[i]}
<1>4. Bad = {}
    <2> SUFFICES ASSUME Bad # {} PROVE FALSE
        OBVIOUS
    <2>1. Bad \in SUBSET Nat
        OBVIOUS
    <2>2. PICK m \in Bad : \A k \in Bad : m <= k
        <3> HIDE DEF Bad
        <3> QED
            BY <2>1, LeastOf
    <2>3. m \in 1 .. n /\ F[m] # g[m]
        BY <2>2
    <2>4. m # 1
        BY <1>3, <2>3
    <2>5. m - 1 \in 1 .. n /\ ~ (m <= m - 1)
        BY <2>3, <2>4
    <2>6. F[m - 1] = g[m - 1]
        BY <2>2, <2>5
    <2>7. F[m] = F[m - 1] \o parts[m] /\ g[m] = g[m - 1] \o parts[m]
        <3> HIDE DEF Bad
        <3> QED
            BY <1>3, <2>3, <2>4
    <2> HIDE DEF Bad
    <2> QED
        BY <2>3, <2>6, <2>7
<1>5. n \in 1 .. n
    OBVIOUS
<1> QED
    BY <1>2, <1>4, <1>5

\* The ledger holds what the hours up to its next have released, in order, and
\* asking it for later hours keeps it so.
LedgerInv ==
    /\ ledger.next \in Nat /\ ledger.next >= HourOf(DataStart)
    /\ ledger.all = InOrder(HoursOf(ledger.next))
LEMMA BuiltHolds ==
    ASSUME LedgerInv, NEW hour \in Int
    PROVE  /\ Built(hour).next \in Nat /\ Built(hour).next >= HourOf(DataStart)
           /\ Built(hour).all = InOrder(HoursOf(Built(hour).next))
<1>1. CASE ledger.next > hour
    BY <1>1 DEF Built, LedgerInv
<1>2. CASE ~ (ledger.next > hour)
    <2>1. PICK first, m : first = ledger.next /\ m = hour - first + 1
        OBVIOUS
    <2>2. /\ first \in Nat /\ m \in Nat \ {0} /\ first >= HourOf(DataStart) /\ HourOf(DataStart) \in Int
          /\ first + m = hour + 1 /\ ledger.all = InOrder(HoursOf(first))
        <3>1. HourOf(DataStart) \in Int
            BY WorldAssumption DEF HourOf
        <3> QED
            BY <1>2, <2>1, <3>1 DEF LedgerInv
    <2>3. PICK parts : parts = [i \in 1 .. m |-> InOrder(Candidates(first + i - 1))]
        OBVIOUS
    <2> DEFINE Later(i) == {d \in Detections : HourOf(Due(d)) \in first .. (first + i) - 1}
    <2>4. \A d \in Detections : HourOf(Due(d)) \in Int /\ Due(d) \in Nat
        <3>1. Hour \in Nat \ {0}
            BY WorldAssumption
        <3> QED
            BY <3>1, DetectionNumbers DEF HourOf
    <2>5. \A i \in 1 .. m : Candidates(first + i - 1) = {d \in Detections : HourOf(Due(d)) = (first + i) - 1}
        <3> TAKE i \in 1 .. m
        <3>1. PICK h : h = (first + i) - 1
            OBVIOUS
        <3>2. h \in Int /\ h >= HourOf(DataStart) /\ first + i - 1 = h
            BY <2>2, <3>1
        <3>3. Candidates(h) = {d \in Detections : HourOf(Due(d)) = h}
            BY <3>2, HourReleases
        <3> QED
            BY <3>1, <3>2, <3>3
    <2>6. PICK g : g = [i \in 1 .. m |-> InOrder(Later(i))]
        OBVIOUS
    <2>7. g = [i \in 1 .. m |-> IF i = 1 THEN parts[i] ELSE g[i - 1] \o parts[i]]
        <3>1. ASSUME NEW i \in 1 .. m PROVE g[i] = IF i = 1 THEN parts[i] ELSE g[i - 1] \o parts[i]
            <4>1. PICK A, B : A = Later(i - 1) /\ B = Candidates(first + i - 1)
                OBVIOUS
            <4>2. B = {d \in Detections : HourOf(Due(d)) = (first + i) - 1} /\ parts[i] = InOrder(B)
                BY <2>3, <2>5, <4>1
            <4>3. Later(i) = A \cup B
                BY <2>2, <2>4, <4>1, <4>2
            <4>4. CASE i = 1
                <5>1. A = {}
                    BY <2>2, <2>4, <4>1, <4>4
                <5> HIDE DEF Later
                <5> QED
                    BY <2>6, <4>2, <4>3, <4>4, <5>1
            <4>5. CASE i # 1
                <5>1. i - 1 \in 1 .. m /\ g[i - 1] = InOrder(A)
                    <6>1. i - 1 \in 1 .. m
                        BY <2>2, <4>5
                    <6> HIDE DEF Later
                    <6> QED
                        BY <2>6, <4>1, <6>1
                <5>2. A \in SUBSET Detections /\ B \in SUBSET Detections
                    BY <4>1, <4>2
                <5>3. \A d \in A, e \in B : Due(d) < Due(e)
                    <6>1. \A d \in A, e \in B : HourOf(Due(d)) < HourOf(Due(e)) /\ Due(d) \in Nat /\ Due(e) \in Nat
                        BY <2>2, <2>4, <4>1, <4>2
                    <6> QED
                        BY <6>1, HoursRise
                <5>4. InOrder(A \cup B) = InOrder(A) \o InOrder(B)
                    BY <5>2, <5>3, OrdersJoin
                <5> HIDE DEF Later
                <5> QED
                    BY <2>6, <4>2, <4>3, <4>5, <5>1, <5>4
            <4> QED
                BY <4>4, <4>5
        <3>2. g = [i \in 1 .. m |-> g[i]]
            BY <2>6
        <3> QED
            BY <3>1, <3>2
    <2>8. FlattenSeq(parts) = g[m]
        <3> HIDE DEF Later
        <3>1. Len(parts) = m
            BY <2>2, <2>3
        <3>2. m \in Nat \ {0}
            BY <2>2
        <3>3. RunsOver(g, parts, m)
            BY Zenon, <2>7 DEF RunsOver
        <3> QED
            BY <3>1, <3>2, <3>3, FlattenGrows
    <2>9. InOrder(HoursOf(hour + 1)) = ledger.all \o g[m]
        <3>1. PICK A, B, S : A = HoursOf(first) /\ B = Later(m) /\ S = HoursOf(hour + 1)
            OBVIOUS
        <3>2. A \in SUBSET Detections /\ B \in SUBSET Detections
            BY <3>1 DEF HoursOf
        <3>3. \A d \in A, e \in B : Due(d) < Due(e)
            <4>1. \A d \in A, e \in B : HourOf(Due(d)) < HourOf(Due(e)) /\ Due(d) \in Nat /\ Due(e) \in Nat
                BY <2>2, <2>4, <3>1 DEF HoursOf
            <4> QED
                BY <4>1, HoursRise
        <3>4. S = A \cup B
            BY <2>2, <2>4, <3>1 DEF HoursOf
        <3>5. InOrder(S) = InOrder(A) \o InOrder(B)
            BY <3>2, <3>3, <3>4, OrdersJoin
        <3>6. g[m] = InOrder(B)
            <4> HIDE DEF Later
            <4> QED
                BY <2>2, <2>6, <3>1
        <3> QED
            BY <2>2, <3>1, <3>5, <3>6
    <2>10. Built(hour) = [next |-> hour + 1, all |-> ledger.all \o FlattenSeq(parts)]
        BY <1>2, <2>1, <2>3 DEF Built
    <2>11. hour + 1 \in Nat /\ hour + 1 >= HourOf(DataStart)
        BY <2>2
    <2> HIDE DEF Later
    <2>12. Built(hour).next = hour + 1 /\ Built(hour).all = ledger.all \o FlattenSeq(parts)
        BY <2>10
    <2>13. Built(hour).all = InOrder(HoursOf(hour + 1))
        BY <2>8, <2>9, <2>12
    <2> QED
        BY <2>11, <2>12, <2>13
<1> QED
    BY <1>1, <1>2
LEMMA LedgerInvariant == QueueSpec => []LedgerInv
<1>1. QueueInit => LedgerInv
    <2> SUFFICES ASSUME QueueInit PROVE LedgerInv
        OBVIOUS
    <2>1. ledger.next = HourOf(DataStart) /\ ledger.all = <<>>
        BY DEF QueueInit, WorldInit
    <2>2. HourOf(DataStart) \in Nat
        BY WorldAssumption DEF HourOf
    <2>3. InOrder({}) = <<>>
        <3>1. Cardinality({}) = 0 /\ {} \in SUBSET Detections
            BY FS_EmptySet
        <3>2. PICK q : q = InOrder({})
            OBVIOUS
        <3>3. q \in Seq({}) /\ Len(q) = 0
            BY <3>1, <3>2, OrderAscends
        <3> QED
            BY <3>2, <3>3
    <2> QED
        BY <2>1, <2>2, <2>3, NothingEarlier DEF LedgerInv
<1>2. LedgerInv /\ clock \in Nat /\ [QueueNext]_importVars => LedgerInv'
    <2> SUFFICES ASSUME LedgerInv, clock \in Nat, [QueueNext]_importVars PROVE LedgerInv'
        OBVIOUS
    <2>1. UNCHANGED ledger \/ AskLedger
        BY DEF QueueNext, PollImports, Look, Tick, Upload, ResetImports, Wait, importVars, worldVars
    <2>2. CASE UNCHANGED ledger
        BY <2>2 DEF LedgerInv
    <2>3. CASE AskLedger
        <3>1. ledger' = Built(HourOf(Now)) /\ HourOf(Now) \in Int
            BY <2>3, WorldAssumption DEF AskLedger, HourOf, Now
        <3> QED
            BY <3>1, BuiltHolds DEF LedgerInv
    <2> QED
        BY <2>1, <2>2, <2>3
<1>3. QueueInv => clock \in Nat
    BY DEF QueueInv
<1> QED
    BY <1>1, <1>2, <1>3, QueueInvariant, PTL DEF QueueSpec

\* However late and at whatever hours the ledger was asked, it holds exactly
\* the detections released before its next hour, in the one order they are
\* numbered by (DetectionLedger._ensure, _build): one hour back is enough for
\* the rows an hour releases, because no release is held back for longer.
THEOREM LedgerNumbersAll == QueueSpec => []LedgerExact
<1>1. LedgerInv => LedgerExact
    BY DEF LedgerInv, LedgerExact, HoursOf, Due
<1> QED
    BY <1>1, LedgerInvariant, PTL

\* The first so many of an ascending list, as many as are not past a time, are
\* those not past it.
LEMMA CountedAreFirst ==
    ASSUME NEW S, NEW all \in Seq(S), NEW t \in Int, \A i \in 1 .. Len(all) : Due(all[i]) \in Int,
           \A i, j \in 1 .. Len(all) : i < j => Due(all[i]) <= Due(all[j])
    PROVE  /\ ReleasedBy(all, t) \in Seq(S)
           /\ \A i \in DOMAIN ReleasedBy(all, t) :
                i \in 1 .. Len(all) /\ ReleasedBy(all, t)[i] = all[i] /\ Due(all[i]) <= t
<1>1. PICK K, k, n : /\ n = Len(all) /\ k = Cardinality(K)
                     /\ K = {i \in DOMAIN all : Release(all[i].row, all[i].rule) <= t}
    OBVIOUS
<1>2. n \in Nat /\ DOMAIN all = 1 .. n /\ K = {i \in 1 .. n : Due(all[i]) <= t}
    BY <1>1 DEF Due
<1>3. IsFiniteSet(1 .. n) /\ Cardinality(1 .. n) = n
    BY <1>2, FS_Interval
<1>4. IsFiniteSet(K) /\ k \in Nat /\ k <= n
    <2>1. K \in SUBSET (1 .. n)
        BY <1>2
    <2> QED
        BY <1>1, <1>3, <2>1, FS_Subset, FS_CardinalityType
<1>5. ReleasedBy(all, t) = SubSeq(all, 1, k)
    BY <1>1 DEF ReleasedBy
<1>6. /\ SubSeq(all, 1, k) \in Seq(S) /\ Len(SubSeq(all, 1, k)) = k
      /\ \A i \in 1 .. k : SubSeq(all, 1, k)[i] = all[i]
    <2>1. k \in Nat /\ k <= Len(all) /\ \A i \in 1 .. k : (1 + i) - 1 = i
        BY <1>1, <1>4
    <2> QED
        BY <2>1
<1>7. ASSUME NEW i \in 1 .. k PROVE i \in 1 .. n /\ Due(all[i]) <= t
    <2>1. i \in 1 .. n
        BY <1>2, <1>4
    <2>2. ASSUME ~ (Due(all[i]) <= t) PROVE FALSE
        <3>1. K \in SUBSET (1 .. i - 1)
            <4>1. ASSUME NEW j \in K PROVE j \in 1 .. i - 1
                <5>1. j \in 1 .. n /\ Due(all[j]) <= t /\ Due(all[j]) \in Int /\ Due(all[i]) \in Int
                    BY <1>1, <1>2, <2>1
                <5>2. ~ (i < j) /\ j # i
                    BY <1>1, <2>1, <2>2, <5>1
                <5> QED
                    BY <2>1, <5>1, <5>2
            <4> QED
                BY <4>1
        <3>2. IsFiniteSet(1 .. i - 1) /\ Cardinality(1 .. i - 1) = i - 1
            BY <2>1, FS_Interval
        <3>3. Cardinality(K) <= i - 1
            BY <3>1, <3>2, FS_Subset
        <3> QED
            BY <1>1, <1>4, <3>3
    <2> QED
        BY <2>1, <2>2
<1>8. PICK p : p = ReleasedBy(all, t)
    OBVIOUS
<1>9. p \in Seq(S) /\ DOMAIN p = 1 .. k /\ \A i \in 1 .. k : p[i] = all[i]
    BY <1>4, <1>5, <1>6, <1>8
<1> QED
    BY <1>1, <1>7, <1>8, <1>9

\* A detection is never announced before the session it is about can be
\* opened: it is released the lag of the sensor after the row, and no import
\* takes the number of a built-in sensor (release_ms, SimWorld.row and
\* visible_until_ms, register_import).
THEOREM AnnouncedCanBeOpened == QueueSpec => []AnnouncedIsVisible
<1>1. ASSUME QueueInv, LedgerInv PROVE AnnouncedIsVisible
    <2>1. PICK all, S : all = ledger.all /\ S = HoursOf(ledger.next)
        OBVIOUS
    <2>2. S \in SUBSET Detections /\ Now \in Int /\ Now = Epoch + clock /\ Epoch \in Int /\ clock \in Int
        BY <1>1, <2>1, WorldAssumption DEF HoursOf, Now, QueueInv
    <2>3. /\ all \in Seq(S) /\ Len(all) = Cardinality(S) /\ Len(all) \in Nat
          /\ \A i, j \in 1 .. Len(all) : i < j => Due(all[i]) <= Due(all[j])
        <3>1. all = InOrder(S)
            BY <1>1, <2>1 DEF LedgerInv
        <3>2. all \in Seq(S) /\ Len(all) = Cardinality(S)
            BY <2>2, <3>1, OrderAscends
        <3>3. \A i, j \in 1 .. Len(all) : i < j => Due(all[i]) <= Due(all[j])
            BY <2>2, <3>1, <3>2, OrderAscends
        <3> QED
            BY <3>2, <3>3
    <2>4. \A i \in 1 .. Len(all) : all[i] \in Detections /\ Due(all[i]) \in Int
        <3>1. \A i \in 1 .. Len(all) : all[i] \in S
            BY <2>3
        <3> QED
            BY <2>2, <3>1, DetectionNumbers
    <2>5. ASSUME NEW i \in DOMAIN ReleasedBy(all, Now) PROVE RowVisible(ReleasedBy(all, Now)[i].row)
        <3>1. PICK d : d = ReleasedBy(all, Now)[i]
            OBVIOUS
        <3>2. d \in Detections /\ Due(d) <= Now
            BY <2>2, <2>3, <2>4, <3>1, CountedAreFirst
        <3>3. /\ d.row \in Rows /\ d.row.sensor \in Sensors /\ Lag[d.row.sensor] \in Nat
              /\ d.row.start + Lag[d.row.sensor] < Due(d) /\ Due(d) \in Nat /\ d.row.start \in Nat
            BY <3>2, DetectionNumbers
        <3>4. d.row.sensor \notin Imported
            <4>1. Sensors \subseteq 1 .. FirstImport - 1 /\ FirstImport \in Nat
                BY WorldAssumption
            <4>2. \A j \in DOMAIN imports : imports[j].sensor = FirstImport + j - 1 /\ j \in Nat \ {0}
                BY <1>1 DEF QueueInv, Standing, FirstOnes
            <4>3. \A s \in 1 .. FirstImport - 1 : \A j \in Nat \ {0} : s # FirstImport + j - 1
                BY <4>1
            <4> QED
                BY <3>3, <4>1, <4>2, <4>3 DEF Imported
        <3>5. d.row \in Stored(d.row.sensor) /\ VisibleUntil(d.row.sensor) = Now - Lag[d.row.sensor]
            BY <3>3, <3>4 DEF Stored, VisibleUntil
        <3>6. d.row.start <= Now - Lag[d.row.sensor]
            BY <2>2, <3>2, <3>3
        <3> QED
            BY <3>1, <3>5, <3>6 DEF RowVisible
    <2> QED
        BY <2>1, <2>5 DEF AnnouncedIsVisible
<1> QED
    BY <1>1, QueueInvariant, LedgerInvariant, PTL
=============================================================================
