----------------------------- MODULE SessionPages -----------------------------
(***************************************************************************)
(* Reading single sessions and the sessions related to one:                *)
(* api/sessions.py (get_session, list_related_sessions).                   *)
(*                                                                         *)
(* Related sessions are those of the same two hosts around a session, the  *)
(* newest first, by pages.  A page is read from the rows of that moment;   *)
(* all that is carried from one page to the next is the cursor, the place  *)
(* of the last session given, signed together with session and window.     *)
(***************************************************************************)
EXTENDS World

CONSTANTS
    Hosts,        \* row id: the set of the two addresses
    HalfWidths,   \* RELATED_WINDOW_MS
    RelatedPage,  \* RELATED_PAGE
    ForeignCursors, \* cursors of other servers, or made up: none has a valid signature
    MayNotRead    \* the sensors the reader may not read

ASSUME PagesAssumption ==
    /\ RelatedPage \in Nat \ {0} /\ HalfWidths \subseteq Nat \ {0} /\ MayNotRead \subseteq Sensors
    /\ \A c \in ForeignCursors, r \in Rows, half \in HalfWidths : c.for # <<r.id, half>>

VARIABLES
    opened, \* the ids of the sessions shown in full
    related \* what the reader is paging through, NoPages before

relatedVars == <<worldVars, opened, related>>
NoPages == [state |-> "none"]

-----------------------------------------------------------------------------
\* _row(): no such session, or none that may be seen yet; then the sensor.
Lookup(r) ==
    CASE ~RowVisible(r) -> "session_not_found"
      [] RowVisible(r) /\ r.sensor \in MayNotRead -> "forbidden_sensor"
      [] OTHER -> "found"

\* The place of a session in its sensor: by start, then by id.
PlaceOf(r) == <<r.start, r.id>>
Sooner(a, b) == a[1] < b[1] \/ (a[1] = b[1] /\ a[2] < b[2])

\* Mutant of Past: a cursor that forgets the id.
PastByStart(r, after) == after # <<>> /\ r.start >= after[1]

\* The sessions that were on the pages before.
Past(r, after) == after # <<>> /\ ~Sooner(PlaceOf(r), after)

\* rows_desc() in the window, less the session itself and other hosts.
RelatedTo(r, half) ==
    {c \in RowsIn(r.sensor, r.start - half, r.start + half + 1) : c.id # r.id /\ Hosts[c.id] = Hosts[r.id]}

\* A page, and the cursor where one more session is left.
PageOf(r, half, after) ==
    LET left == {c \in RelatedTo(r, half) : ~Past(c, after)}
        page == {c \in left : Cardinality({d \in left : Sooner(PlaceOf(c), PlaceOf(d))}) < RelatedPage}
    IN [items |-> page,
        next |-> IF page = left THEN <<>>
                 ELSE PlaceOf(CHOOSE c \in page : \A d \in page : d = c \/ Sooner(PlaceOf(c), PlaceOf(d)))]

\* _encode_cursor() and _read_cursor(): good only for what it was made for.
Cursor(r, half, place) == [for |-> <<r.id, half>>, place |-> place]
Genuine(cursor, r, half) == cursor.for = <<r.id, half>>

-----------------------------------------------------------------------------
RelatedInit == WorldInit /\ opened = {} /\ related = NoPages

\* GET /sessions/{id}
OpenSession(r) ==
    /\ opened' = IF Lookup(r) = "found" THEN opened \cup {r.id} ELSE opened
    /\ UNCHANGED <<worldVars, related>>

\* GET /sessions/{id}/related without a cursor.
FirstPage(r, half) ==
    /\ Lookup(r) = "found"
    /\ LET page == PageOf(r, half, <<>>)
       IN related' = [state |-> IF page.next = <<>> THEN "read" ELSE "reading", row |-> r, half |-> half,
                    cursor |-> Cursor(r, half, page.next), given |-> page.items, twice |-> {},
                    offered |-> RelatedTo(r, half)]
    /\ UNCHANGED <<worldVars, opened>>

\* The same with the cursor of the page before; a cursor of another session or
\* another window is refused.
NextPage(r, half, cursor) ==
    /\ related.state = "reading" /\ Lookup(r) = "found"
    /\ cursor \in {related.cursor} \cup ForeignCursors
    /\ LET page == PageOf(r, half, cursor.place)
       IN related' = IF ~Genuine(cursor, r, half) THEN [related EXCEPT !.state = "invalid_cursor"]
                   ELSE [related EXCEPT !.state = IF page.next = <<>> THEN "read" ELSE "reading",
                                      !.cursor = Cursor(r, half, page.next),
                                      !.given = @ \cup page.items,
                                      !.twice = @ \cup (related.given \cap page.items)]
    /\ UNCHANGED <<worldVars, opened>>

\* The clock moves between two pages, so younger sessions come into sight.
Passes ==
    /\ clock < MaxTime
    /\ clock' = clock + 1
    /\ UNCHANGED <<imports, ledger, opened, related>>

RelatedNext ==
    \/ \E r \in Rows : OpenSession(r)
    \/ \E r \in Rows, half \in HalfWidths : FirstPage(r, half)
    \/ related.state = "reading" /\ \E r \in Rows, half \in HalfWidths, cursor \in {related.cursor} \cup ForeignCursors :
           NextPage(r, half, cursor)
    \/ Passes
RelatedSpec == RelatedInit /\ [][RelatedNext]_relatedVars

-----------------------------------------------------------------------------
\* A reader who turns all the pages is given every session that was related
\* when the first page was asked for, each of them once, although younger ones
\* come into sight meanwhile and several may start at the same moment; and
\* whatever is given or was ever opened can be opened.
RelatedOnce ==
    /\ \A r \in Rows : r.id \in opened => Lookup(r) = "found"
    /\ related.state \in {"reading", "read"} =>
         /\ related.twice = {}
         /\ \A c \in related.given : Lookup(c) = "found"
    /\ related.state = "read" => related.offered \subseteq related.given
=============================================================================
