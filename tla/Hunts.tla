-------------------------------- MODULE Hunts --------------------------------
(***************************************************************************)
(* Saved hunts: workspace/hunts.py (HuntStore), its routes in api/hunts.py *)
(* and the administrator's touch.  Hunts belong to one owner, may be       *)
(* deleted, and carry a version as cases do.  A client is free to send     *)
(* any If-Match; the tabs say what it has seen, and which of it is from    *)
(* before a reset, after which numbers and versions start again.           *)
(***************************************************************************)
EXTENDS Integers, FiniteSets

CONSTANTS
    Owners,   \* the accounts
    Tabs,     \* browser tabs, several of them perhaps of one account
    OwnerOf,  \* tab -> the account signed in there
    Names,    \* names of hunts
    NameStrip, \* name -> the name without blanks around it
    NameFold, \* name -> its case-folded text
    Queries,  \* what a hunt looks for
    TagLists, \* the versions an If-Match may name, 0 for *; none if it is left out
    MaxHunts, MaxHuntVersion \* bounds: ids handed out, versions

NoHunt == [id |-> 0]

ASSUME HuntsAssumption ==
    /\ OwnerOf \in [Tabs -> Owners]
    /\ Names \subseteq DOMAIN NameFold /\ NameStrip \in [Names -> Names]
    /\ \A a, b \in Names : NameFold[a] = NameFold[b] /\ NameStrip[a] = a => NameStrip[b] = b
    /\ TagLists \subseteq SUBSET Nat
    /\ MaxHunts \in Nat /\ MaxHuntVersion \in Nat \ {0}

VARIABLES
    hunts,     \* _hunts: number -> owner, name, query, version
    huntCount, \* _counter
    tabs,      \* tab -> the hunt open there, as it was read, or NoHunt
    stale      \* tabs whose hunt was read before the last reset

huntVars == <<hunts, huntCount, tabs, stale>>

-----------------------------------------------------------------------------
\* list(): the owner's hunts, and _owned().
Own(o) == {h \in DOMAIN hunts : hunts[h].owner = o}

\* _name_taken(): among the owner's hunts only; the new name is stripped.
NameTaken(o, name, except) ==
    \E h \in Own(o) \ except : NameFold[hunts[h].name] = NameFold[NameStrip[name]]

\* The tab t shows the hunt it was answered.
Shows(t, h, hunt) ==
    /\ tabs' = [tabs EXCEPT ![t] = [id |-> h, hunt |-> hunt]]
    /\ stale' = stale \ {t}

\* matches_etag(): one of the tags is * (AnyVersion) or the current version.
AnyVersion == 0
TagsMatch(tags, h) == tags \cap {AnyVersion, hunts[h].version} # {}

\* Mutant of NextVersion: a change leaves the version alone.
NextVersionKept(hunt) == hunt

\* Whatever is changed, the version is one more.
NextVersion(hunt) == [hunt EXCEPT !.version = @ + 1]
NoHunts == [h \in {} |-> 0]

HuntsInit ==
    /\ hunts = NoHunts
    /\ huntCount = 0
    /\ tabs = [t \in Tabs |-> NoHunt] /\ stale = {}

\* GET /hunts/{id}: 404 for the hunt of somebody else.
GetHunt(t, h) ==
    /\ h \in Own(OwnerOf[t])
    /\ Shows(t, h, hunts[h])
    /\ UNCHANGED <<hunts, huntCount>>

\* POST /hunts.
CreateHunt(t, name, query) ==
    LET hunt == [owner |-> OwnerOf[t], name |-> name, query |-> query, version |-> 1]
    IN /\ huntCount < MaxHunts /\ ~NameTaken(OwnerOf[t], name, {})
       /\ huntCount' = huntCount + 1
       /\ hunts' = [h \in DOMAIN hunts \cup {huntCount + 1} |->
                      IF h = huntCount + 1 THEN hunt ELSE hunts[h]]
       /\ Shows(t, huntCount + 1, hunt)

\* Mutant of PatchHunt: the version is not compared.
PatchHuntAnyway(t, h, name, query, tags) ==
    /\ h \in Own(OwnerOf[t]) /\ hunts[h].version < MaxHuntVersion
    /\ name = hunts[h].name \/ ~NameTaken(OwnerOf[t], name, {h})
    /\ hunts' = [hunts EXCEPT ![h] = [NextVersion(@) EXCEPT !.name = name, !.query = query]]
    /\ Shows(t, h, hunts'[h])
    /\ UNCHANGED huntCount

\* PATCH /hunts/{id} under tags; without any it is 428 and nothing happens.  A
\* patch may leave the name or the query as it is; a 412 carries the current
\* hunt, which the tab then shows.
PatchHunt(t, h, name, query, tags) ==
    /\ h \in Own(OwnerOf[t])
    /\ IF TagsMatch(tags, h)
       THEN /\ hunts[h].version < MaxHuntVersion
            /\ name = hunts[h].name \/ ~NameTaken(OwnerOf[t], name, {h})
            /\ hunts' = [hunts EXCEPT ![h] =
                           [NextVersion(@) EXCEPT !.name = name, !.query = query]]
       ELSE UNCHANGED hunts
    /\ Shows(t, h, hunts'[h])
    /\ UNCHANGED huntCount

\* DELETE /hunts/{id}: If-Match may be left out (no tags).
DeleteHunt(t, h, tags) ==
    /\ h \in Own(OwnerOf[t])
    /\ tags = {} \/ TagsMatch(tags, h)
    /\ hunts' = [g \in DOMAIN hunts \ {h} |-> hunts[g]]
    /\ UNCHANGED <<huntCount, tabs, stale>>

\* POST /__admin/hunts/{id}/touch: another tab of the owner, so to speak.
TouchHunt(h) ==
    /\ hunts[h].version < MaxHuntVersion
    /\ hunts' = [hunts EXCEPT ![h] = NextVersion(@)]
    /\ UNCHANGED <<huntCount, tabs, stale>>

\* reset(): ids start again; the tabs, if they stay open, show what was.
ResetHunts ==
    /\ hunts' = NoHunts /\ huntCount' = 0
    /\ stale' = Tabs /\ UNCHANGED tabs

HuntsNext ==
    \/ \E t \in Tabs, h \in DOMAIN hunts : GetHunt(t, h)
    \/ \E t \in Tabs, name \in Names, query \in Queries : CreateHunt(t, name, query)
    \/ \E t \in Tabs, h \in DOMAIN hunts, name \in Names, query \in Queries, tags \in TagLists \ {{}} :
         PatchHunt(t, h, name, query, tags)
    \/ \E t \in Tabs, h \in DOMAIN hunts, tags \in TagLists : DeleteHunt(t, h, tags)
    \/ \E h \in DOMAIN hunts : TouchHunt(h)
    \/ ResetHunts

HuntsSpec == HuntsInit /\ [][HuntsNext]_huntVars

-----------------------------------------------------------------------------
Hunt == [owner : Owners, name : Names, query : Queries, version : 1 .. MaxHuntVersion]
NamesAlike(g, h) == NameFold[hunts[g].name] = NameFold[hunts[h].name]

\* Types, and no owner has two hunts of one name (but for blanks around it).
HuntsTypeOK ==
    /\ huntCount \in 0 .. MaxHunts /\ DOMAIN hunts \subseteq 1 .. huntCount
    /\ \A h \in DOMAIN hunts : hunts[h] \in Hunt
    /\ \A o \in Owners : \A g, h \in Own(o) :
         NamesAlike(g, h) /\ NameStrip[hunts[g].name] = hunts[g].name => g = h
    /\ \A t \in Tabs : tabs[t] # NoHunt => tabs[t].hunt \in Hunt

\* A tab whose version is the current one shows the hunt that is stored, and
\* ids are not used twice between resets, so that a tab cannot write a hunt
\* other than the one it was opened for.
TabsAreTrue ==
    \A t \in Tabs \ stale :
        tabs[t] # NoHunt /\ tabs[t].id \in DOMAIN hunts =>
            /\ hunts[tabs[t].id].owner = OwnerOf[t]
            /\ tabs[t].hunt.version <= hunts[tabs[t].id].version
            /\ tabs[t].hunt.version = hunts[tabs[t].id].version => tabs[t].hunt = hunts[tabs[t].id]

\* The owner edits what the tab t shows, under the version it shows.
EditShown(t, name, query) == PatchHunt(t, tabs[t].id, name, query, {tabs[t].hunt.version})

\* Nobody overwrites what he has not seen: when an edit from a tab, under the
\* version the tab shows, changes the name or the query of a hunt, the tab
\* showed the hunt as it was stored, whatever the other tabs of its owner did
\* to it meanwhile, with * or with tags of their own, and the administrator.
\* (Only a tab from before a reset may meet another hunt of that version.)
Rewritten(h) ==
    /\ h \in DOMAIN hunts \cap DOMAIN hunts'
    /\ <<hunts'[h].name, hunts'[h].query>> # <<hunts[h].name, hunts[h].query>>
EditsAreInformed ==
    [][\A t \in Tabs \ stale, name \in Names, query \in Queries :
         tabs[t] # NoHunt /\ EditShown(t, name, query) /\ Rewritten(tabs[t].id)
           => tabs[t].hunt = hunts[tabs[t].id]]_huntVars
=============================================================================
