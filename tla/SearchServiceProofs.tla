------------------------- MODULE SearchServiceProofs -------------------------
(***************************************************************************)
(* Idempotency, cancellation and answers of searches, for any sessions,    *)
(* keys, lifetimes and window.  The first invariant ties the records to    *)
(* the searches: a search held under a key is the one its record names,    *)
(* until a lifetime of the record has gone by since both were created.     *)
(* The second adds the shapes of the state and the order of _expired; from *)
(* it follow the types and that an answer never goes back.                 *)
(***************************************************************************)
EXTENDS SearchService, FiniteSetTheorems, SequenceTheorems, WellFoundedInduction, TLAPS

\* What the argument needs of a SearchJob object.
Parts == {"family", "key", "created", "touched", "state", "scanned", "fails", "task", "cancel"}
Dated(x, top) == x.created \in Nat /\ x.touched \in Nat /\ x.created <= x.touched /\ x.touched <= top

JobsNumbered ==
    /\ now \in Nat /\ counter \in Nat
    /\ held \subseteq DOMAIN job /\ DOMAIN job \subseteq 1 .. counter
    /\ \A id \in DOMAIN job : DOMAIN job[id] = Parts /\ Dated(job[id], now)
\* A search let go of has a task still, with its cancellation on the way.
LettingGo == \A id \in DOMAIN job \ held : job[id].cancel /\ job[id].task # "over"
\* A record and its search.
RecordsNamed ==
    \A x \in DOMAIN records :
        LET id == records[x].job IN
        /\ id \in 1 .. counter
        /\ id \in held => x = <<job[id].family, job[id].key>> /\ records[x].created = job[id].created
KeysKept ==
    \A id \in held : job[id].key # NoKey =>
        LET x == <<job[id].family, job[id].key>> IN
        now - job[id].created >= RecordTtl \/ (x \in DOMAIN records /\ records[x].job = id)
SearchInv == JobsNumbered /\ LettingGo /\ RecordsNamed /\ KeysKept /\ NoTwin

-----------------------------------------------------------------------------
\* The objects as a whole: each step keeps of them what identifies a search.
Same(x, y) ==
    /\ DOMAIN x = Parts /\ DOMAIN y = Parts
    /\ y.family = x.family /\ y.key = x.key /\ y.created = x.created

\* A step that lets go of searches, keeps what identifies the others, and
\* drops no record before its time.
LEMMA Keeping ==
    ASSUME SearchInv, counter' = counter, now' \in Nat, now <= now',
           held' \subseteq held, held' \subseteq DOMAIN job', DOMAIN job' \subseteq DOMAIN job,
           \A id \in DOMAIN job' : Same(job[id], job'[id]) /\ Dated(job'[id], now'),
           LettingGo',
           DOMAIN records' \subseteq DOMAIN records,
           \A x \in DOMAIN records' : records'[x] = records[x],
           \A x \in DOMAIN records \ DOMAIN records' :
              records[x].job \in held' => now' - records[x].created >= RecordTtl
    PROVE  SearchInv'
<1>1. JobsNumbered'
    BY DEF SearchInv, JobsNumbered, Same
<1>2. RecordsNamed'
    BY DEF SearchInv, RecordsNamed, Same, JobsNumbered
<1>3. KeysKept'
    <2> SUFFICES ASSUME NEW id \in held', job'[id].key # NoKey
                 PROVE  \/ now' - job'[id].created >= RecordTtl
                        \/ LET x == <<job'[id].family, job'[id].key>>
                           IN  x \in DOMAIN records' /\ records'[x].job = id
        BY DEF KeysKept
    <2> DEFINE x == <<job[id].family, job[id].key>>
    <2>1. /\ id \in held /\ Same(job[id], job'[id]) /\ Dated(job[id], now) /\ now \in Nat
        BY DEF SearchInv, JobsNumbered
    <2>2. now - job[id].created >= RecordTtl \/ (x \in DOMAIN records /\ records[x].job = id)
        BY <2>1 DEF SearchInv, KeysKept, Same
    <2>3. CASE now - job[id].created >= RecordTtl
        BY <2>1, <2>3, SearchAssumption DEF Same, Dated
    <2>4. CASE x \in DOMAIN records /\ records[x].job = id
        <3>1. records[x].created = job[id].created
            BY <2>1, <2>4 DEF SearchInv, RecordsNamed
        <3> QED
            BY <2>1, <2>4, <3>1 DEF Same
    <2> QED
        BY <2>2, <2>3, <2>4
<1>4. NoTwin'
    BY DEF SearchInv, NoTwin, Same
<1> QED
    BY <1>1, <1>2, <1>3, <1>4 DEF SearchInv

\* What letting go of searches leaves of the objects.
LEMMA AbortedLeaves ==
    ASSUME NEW dict, \A id \in DOMAIN dict : DOMAIN dict[id] = Parts, NEW S, NEW kept,
           NEW left, left = Reachable(Aborted(dict, S), kept)
    PROVE  /\ DOMAIN left \subseteq DOMAIN dict /\ DOMAIN dict \cap kept \subseteq DOMAIN left
           /\ \A id \in DOMAIN left :
                /\ Same(dict[id], left[id]) /\ left[id].touched = dict[id].touched
                /\ id \notin kept => left[id].task # "over"
                /\ id \notin S => left[id] = dict[id]
                /\ id \in S => left[id].cancel = (left[id].task # "over")
<1> DEFINE all == Aborted(dict, S)
<1>1. /\ DOMAIN all = DOMAIN dict
      /\ \A id \in DOMAIN dict :
           /\ Same(dict[id], all[id]) /\ all[id].touched = dict[id].touched
           /\ all[id].task = dict[id].task
           /\ id \notin S => all[id] = dict[id]
           /\ id \in S => all[id].cancel = (all[id].task # "over")
    BY DEF Aborted, Same, Parts
<1> HIDE DEF all
<1>2. left = [id \in {x \in DOMAIN all : x \in kept \/ all[x].task # "over"} |-> all[id]]
    BY DEF Reachable, all
<1> QED
    BY <1>1, <1>2

\* What a sweep leaves of them.
LEMMA SweepLeaves ==
    ASSUME SearchInv
    PROVE  /\ HeldAfterReap \subseteq held /\ HeldAfterReap \subseteq DOMAIN JobsAfterReap
           /\ DOMAIN JobsAfterReap \subseteq DOMAIN job
           /\ \A id \in DOMAIN JobsAfterReap :
                /\ Same(job[id], JobsAfterReap[id]) /\ Dated(JobsAfterReap[id], now)
                /\ id \notin HeldAfterReap => JobsAfterReap[id].cancel /\ JobsAfterReap[id].task # "over"
<1> DEFINE left == JobsAfterReap
<1>1. left = Reachable(Aborted(job, Idle), HeldAfterReap)
    BY DEF JobsAfterReap
<1> HIDE DEF left
<1>2. \A id \in DOMAIN job : DOMAIN job[id] = Parts /\ Dated(job[id], now)
    BY DEF SearchInv, JobsNumbered
<1>3. HeldAfterReap \subseteq held /\ held \subseteq DOMAIN job
      /\ \A id \in DOMAIN job \ HeldAfterReap : id \in Idle \/ id \notin held
    BY DEF SearchInv, JobsNumbered, HeldAfterReap
<1>4. /\ DOMAIN left \subseteq DOMAIN job /\ DOMAIN job \cap HeldAfterReap \subseteq DOMAIN left
      /\ \A id \in DOMAIN left :
           /\ Same(job[id], left[id]) /\ left[id].touched = job[id].touched
           /\ id \notin HeldAfterReap => left[id].task # "over"
           /\ id \notin Idle => left[id] = job[id]
           /\ id \in Idle => left[id].cancel = (left[id].task # "over")
    BY <1>1, <1>2, AbortedLeaves
<1>5. \A id \in DOMAIN left : Dated(left[id], now)
    BY <1>2, <1>4 DEF Same, Dated
<1>6. \A id \in DOMAIN left \ HeldAfterReap : left[id].cancel
    BY <1>3, <1>4 DEF SearchInv, LettingGo
<1> QED
    BY <1>3, <1>4, <1>5, <1>6 DEF left

\* A sweep alone, with the records purged or not.
LEMMA ReapKeeps ==
    ASSUME SearchInv, held' = HeldAfterReap, job' = JobsAfterReap, UNCHANGED <<now, counter>>,
           records' \in {records, Purged}
    PROVE  SearchInv'
<1>1. \A x \in DOMAIN records : records[x].job \in held => records[x].created \in Nat
    BY DEF SearchInv, RecordsNamed, JobsNumbered, Dated
<1>2. /\ DOMAIN records' \subseteq DOMAIN records
      /\ \A x \in DOMAIN records' : records'[x] = records[x]
      /\ \A x \in DOMAIN records \ DOMAIN records' : ~(now - records[x].created < RecordTtl)
    BY DEF Purged
<1>3. now \in Nat /\ RecordTtl \in Nat
    BY SearchAssumption DEF SearchInv, JobsNumbered
<1>4. \A x \in DOMAIN records \ DOMAIN records' :
         records[x].job \in held' => now - records[x].created >= RecordTtl
    BY <1>1, <1>2, <1>3, SweepLeaves
<1>5. LettingGo'
    BY SweepLeaves DEF LettingGo
<1> QED
    BY <1>2, <1>3, <1>4, <1>5, SweepLeaves, Keeping

\* A key that finds nothing to replay: what is held under it is that old.
LEMMA NothingToReplay ==
    ASSUME SearchInv, NEW f, NEW k, k # NoKey, ~Replays(f, k),
           NEW id \in held, job[id].family = f, job[id].key = k
    PROVE  now - job[id].created >= RecordTtl
<1> DEFINE x == <<f, k>>
<1>1. CASE x \in DOMAIN records /\ records[x].job = id
    <2>1. x \notin DOMAIN Purged
        BY <1>1 DEF Replays, Found, Purged
    <2>2. ~(now - records[x].created < RecordTtl) /\ records[x].created = job[id].created
        BY <1>1, <2>1 DEF Purged, SearchInv, RecordsNamed
    <2> QED
        BY <2>2, SearchAssumption DEF SearchInv, JobsNumbered, Dated
<1> QED
    BY <1>1 DEF SearchInv, KeysKept

\* A search is created, after the sweep.
LEMMA CreatedKeeps ==
    ASSUME SearchInv, NEW f, NEW k, NEW b, NEW fails \in BOOLEAN, ~Replays(f, k),
           Created(f, k, b, fails)
    PROVE  SearchInv'
<1> DEFINE id == counter + 1
           new == [family |-> f, key |-> k, created |-> now, touched |-> now, state |-> "queued",
                   scanned |-> 0, fails |-> fails, task |-> "new", cancel |-> FALSE]
           left == JobsAfterReap
           x == <<f, k>>
           record == [body |-> b, job |-> id, created |-> now]
<1>1. /\ counter' = id /\ now' = now /\ held' = HeldAfterReap \cup {id}
      /\ job' = [i \in DOMAIN left \cup {id} |-> IF i # id THEN left[i] ELSE new]
      /\ records' = IF k = NoKey THEN records
                    ELSE [y \in DOMAIN Purged \cup {x} |-> IF y = x THEN record ELSE Purged[y]]
    BY DEF Created, Admitted
<1>2. /\ DOMAIN new = Parts /\ new.family = f /\ new.key = k /\ new.created = now
      /\ new.touched = now
    BY DEF Parts
<1>3. now \in Nat /\ counter \in Nat /\ id \in Nat /\ id \notin DOMAIN job
      /\ \A i \in DOMAIN job : i \in 1 .. counter
    BY DEF SearchInv, JobsNumbered
<1>4. /\ HeldAfterReap \subseteq held /\ HeldAfterReap \subseteq DOMAIN left
      /\ DOMAIN left \subseteq DOMAIN job
      /\ \A i \in DOMAIN left :
           /\ Same(job[i], left[i]) /\ Dated(left[i], now)
           /\ i \notin HeldAfterReap => left[i].cancel /\ left[i].task # "over"
    BY SweepLeaves
<1>5. record.job = id /\ record.created = now
    OBVIOUS
<1> HIDE DEF id, new, left, record
<1>6. /\ job'[id] = new /\ \A i \in DOMAIN left : job'[i] = left[i]
      /\ DOMAIN job' = DOMAIN left \cup {id}
    BY <1>1, <1>3, <1>4
<1>7. JobsNumbered'
    BY <1>1, <1>2, <1>3, <1>4, <1>6 DEF JobsNumbered, Dated, Same, id
<1>8. LettingGo'
    BY <1>1, <1>4, <1>6 DEF LettingGo
<1> HIDE DEF x
<1>9. /\ \A y \in DOMAIN records' :
           \/ y \in DOMAIN records /\ records'[y] = records[y]
           \/ k # NoKey /\ y = x /\ records'[y] = record
      /\ k # NoKey => x \in DOMAIN records' /\ records'[x] = record
      /\ \A y \in DOMAIN records \ DOMAIN records' : ~(now - records[y].created < RecordTtl)
      /\ \A y \in DOMAIN records \cap DOMAIN records' : y = x \/ records'[y] = records[y]
    <2>1. CASE k = NoKey
        BY <1>1, <2>1
    <2>2. CASE k # NoKey
        <3>1. records' = [y \in DOMAIN Purged \cup {x} |-> IF y = x THEN record ELSE Purged[y]]
            BY <1>1, <2>2
        <3>2. /\ DOMAIN Purged \subseteq DOMAIN records
              /\ \A y \in DOMAIN Purged : Purged[y] = records[y]
              /\ \A y \in DOMAIN records \ DOMAIN Purged : ~(now - records[y].created < RecordTtl)
            BY DEF Purged
        <3> QED
            BY <2>2, <3>1, <3>2
    <2> QED
        BY <2>1, <2>2
<1>10. RecordsNamed'
    <2> SUFFICES ASSUME NEW y \in DOMAIN records', NEW i, i = records'[y].job
                 PROVE  /\ i \in 1 .. counter'
                        /\ i \in held' => /\ y = <<job'[i].family, job'[i].key>>
                                          /\ records'[y].created = job'[i].created
        BY DEF RecordsNamed
    <2>1. CASE y \in DOMAIN records /\ records'[y] = records[y]
        <3>1. i \in 1 .. counter /\ i # id
            BY <1>3, <2>1 DEF SearchInv, RecordsNamed, id
        <3>2. i \in held' => i \in held /\ i \in DOMAIN left /\ Same(job[i], job'[i])
            BY <1>1, <1>4, <1>6, <3>1
        <3>3. i \in held => y = <<job[i].family, job[i].key>> /\ records[y].created = job[i].created
            BY <2>1 DEF SearchInv, RecordsNamed
        <3>4. i \in 1 .. counter'
            BY <1>1, <1>3, <3>1 DEF id
        <3> QED
            BY <2>1, <3>2, <3>3, <3>4 DEF Same
    <2>2. CASE y = x /\ records'[y] = record
        BY <1>1, <1>2, <1>3, <1>5, <1>6, <2>2 DEF id, x
    <2> QED
        BY <1>9, <2>1, <2>2
<1>11. KeysKept'
    <2> SUFFICES ASSUME NEW i \in held', job'[i].key # NoKey
                 PROVE  \/ now - job'[i].created >= RecordTtl
                        \/ LET y == <<job'[i].family, job'[i].key>>
                           IN  y \in DOMAIN records' /\ records'[y].job = i
        BY <1>1 DEF KeysKept
    <2>1. CASE i = id
        BY <1>2, <1>5, <1>6, <1>9, <2>1 DEF x
    <2>2. CASE i # id
        <3> DEFINE y == <<job[i].family, job[i].key>>
        <3>1. i \in held /\ i \in DOMAIN left /\ Same(job[i], job'[i]) /\ Dated(job[i], now)
            BY <1>1, <1>4, <1>6, <2>2 DEF SearchInv, JobsNumbered
        <3>2. CASE y = x
            <4>1. now - job[i].created >= RecordTtl
                BY <3>1, <3>2, NothingToReplay DEF Same, x
            <4> QED
                BY <3>1, <4>1 DEF Same
        <3>3. CASE y # x /\ y \in DOMAIN records' 
            BY <1>9, <3>1, <3>3 DEF SearchInv, KeysKept, Same
        <3>4. CASE y # x /\ y \notin DOMAIN records'
            <4>1. y \in DOMAIN records /\ records[y].job = i => now - job[i].created >= RecordTtl
                BY <1>3, <1>9, <3>1, <3>4, SearchAssumption DEF SearchInv, RecordsNamed, Dated
            <4> QED
                BY <3>1, <4>1 DEF SearchInv, KeysKept, Same
        <3> QED
            BY <3>2, <3>3, <3>4
    <2> QED
        BY <2>1, <2>2
<1>12. NoTwin'
    <2> SUFFICES ASSUME NEW i \in held', NEW j \in held', i < j,
                        job'[i].family = job'[j].family, job'[i].key = job'[j].key,
                        job'[i].key # NoKey
                 PROVE  job'[j].created - job'[i].created >= RecordTtl
        BY DEF NoTwin
    <2>1. i \in held /\ i \in DOMAIN left /\ Same(job[i], job'[i])
        <3>1. i # id
            BY <1>1, <1>3, <1>4 DEF SearchInv, JobsNumbered, id
        <3> QED
            BY <1>1, <1>4, <1>6, <3>1
    <2>2. CASE j = id
        BY <1>2, <1>6, <2>1, <2>2, NothingToReplay DEF Same
    <2>3. CASE j # id
        <3>1. j \in held /\ Same(job[j], job'[j])
            BY <1>1, <1>4, <1>6, <2>3
        <3> QED
            BY <2>1, <3>1 DEF SearchInv, NoTwin, Same
    <2> QED
        BY <2>2, <2>3
<1> QED
    BY <1>7, <1>8, <1>10, <1>11, <1>12 DEF SearchInv

-----------------------------------------------------------------------------
\* The records of a call that changes nothing else of the searches.
LEMMA RecordsOnly ==
    ASSUME SearchInv, UNCHANGED <<now, counter, held, job>>, records' \in {records, Purged}
    PROVE  SearchInv'
<1>1. \A x \in DOMAIN records : records[x].job \in held => records[x].created \in Nat
    BY DEF SearchInv, RecordsNamed, JobsNumbered, Dated
<1>2. /\ DOMAIN records' \subseteq DOMAIN records
      /\ \A x \in DOMAIN records' : records'[x] = records[x]
      /\ \A x \in DOMAIN records \ DOMAIN records' : ~(now - records[x].created < RecordTtl)
    BY DEF Purged
<1>3. now \in Nat /\ RecordTtl \in Nat
    BY SearchAssumption DEF SearchInv, JobsNumbered
<1>4. \A x \in DOMAIN records \ DOMAIN records' :
         records[x].job \in held' => now - records[x].created >= RecordTtl
    BY <1>1, <1>2, <1>3
<1>5. LettingGo'
    BY DEF SearchInv, LettingGo
<1>6. held \subseteq DOMAIN job /\ \A id \in DOMAIN job : Same(job[id], job[id]) /\ Dated(job[id], now)
    BY DEF SearchInv, JobsNumbered, Same
<1> QED
    BY <1>2, <1>3, <1>4, <1>5, <1>6, Keeping

LEMMA CreateKeeps ==
    ASSUME SearchInv, NEW f, NEW k, NEW b, Create(f, k, b)
    PROVE  SearchInv'
<1>1. LookedUp(k) \in {records, Purged}
    BY DEF LookedUp
<1>2. CASE RateLimited(f) \/ NotCreated(f, k)
    <2>1. UNCHANGED <<now, counter, held, job>> /\ records' \in {records, Purged}
        BY <1>1, <1>2 DEF RateLimited, NotCreated, Admitted
    <2> QED
        BY <2>1, RecordsOnly
<1>3. CASE TooMany(f, k)
    <2>1. /\ held' = HeldAfterReap /\ job' = JobsAfterReap /\ UNCHANGED <<now, counter>>
          /\ records' \in {records, Purged}
        BY <1>1, <1>3 DEF TooMany, Admitted
    <2> QED
        BY <2>1, ReapKeeps
<1> QED
    BY <1>2, <1>3, CreatedKeeps DEF Create

\* A search is read, which touches it.
LEMMA GetKeeps ==
    ASSUME SearchInv, NEW id, Get(id)
    PROVE  SearchInv'
<1> DEFINE left == JobsAfterReap
<1>1. /\ id \in HeldAfterReap /\ held' = HeldAfterReap /\ UNCHANGED <<now, counter, records>>
      /\ job' = [left EXCEPT ![id].touched = now]
    BY DEF Get
<1>2. /\ HeldAfterReap \subseteq held /\ HeldAfterReap \subseteq DOMAIN left
      /\ DOMAIN left \subseteq DOMAIN job
      /\ \A i \in DOMAIN left :
           /\ Same(job[i], left[i]) /\ Dated(left[i], now)
           /\ i \notin HeldAfterReap => left[i].cancel /\ left[i].task # "over"
    BY SweepLeaves
<1> HIDE DEF left
<1>3. now \in Nat
    BY DEF SearchInv, JobsNumbered
<1>4. /\ DOMAIN job' = DOMAIN left /\ job'[id] = [left[id] EXCEPT !.touched = now]
      /\ \A i \in DOMAIN left \ {id} : job'[i] = left[i]
    BY <1>1, <1>2
<1>5. Same(job[id], job'[id]) /\ Dated(job'[id], now)
    BY <1>1, <1>2, <1>3, <1>4 DEF Same, Dated, Parts
<1>6. LettingGo'
    BY <1>1, <1>2, <1>4 DEF LettingGo
<1>7. \A i \in DOMAIN job' : Same(job[i], job'[i]) /\ Dated(job'[i], now)
    BY <1>2, <1>4, <1>5
<1> QED
    BY <1>1, <1>2, <1>3, <1>4, <1>6, <1>7, Keeping

\* A search is cancelled by its owner, after the sweep.
LEMMA CancelKeeps ==
    ASSUME SearchInv, NEW id, Cancel(id)
    PROVE  SearchInv'
<1> DEFINE swept == JobsAfterReap
           left == Reachable(Aborted(swept, {id}), held')
<1>1. /\ held' = HeldAfterReap \ {id} /\ UNCHANGED <<now, counter, records>> /\ job' = left
    BY DEF Cancel
<1>2. /\ HeldAfterReap \subseteq held /\ HeldAfterReap \subseteq DOMAIN swept
      /\ DOMAIN swept \subseteq DOMAIN job
      /\ \A i \in DOMAIN swept :
           /\ Same(job[i], swept[i]) /\ Dated(swept[i], now)
           /\ i \notin HeldAfterReap => swept[i].cancel /\ swept[i].task # "over"
    BY SweepLeaves
<1> HIDE DEF swept
<1>3. \A i \in DOMAIN swept : DOMAIN swept[i] = Parts
    BY <1>2 DEF Same
<1>4. /\ DOMAIN left \subseteq DOMAIN swept /\ DOMAIN swept \cap held' \subseteq DOMAIN left
      /\ \A i \in DOMAIN left :
           /\ Same(swept[i], left[i]) /\ left[i].touched = swept[i].touched
           /\ i \notin held' => left[i].task # "over"
           /\ i \notin {id} => left[i] = swept[i]
           /\ i \in {id} => left[i].cancel = (left[i].task # "over")
    BY <1>3, AbortedLeaves
<1> HIDE DEF left
<1>5. now \in Nat
    BY DEF SearchInv, JobsNumbered
<1>6. \A i \in DOMAIN job' : Same(job[i], job'[i]) /\ Dated(job'[i], now)
    BY <1>1, <1>2, <1>4 DEF Same, Dated
<1>7. LettingGo'
    BY <1>1, <1>2, <1>4 DEF LettingGo
<1> QED
    BY <1>1, <1>2, <1>4, <1>5, <1>6, <1>7, Keeping

\* All searches are let go of, and the records with them.
LEMMA ResetKeeps ==
    ASSUME SearchInv, Reset
    PROVE  SearchInv'
<1> DEFINE left == Reachable(Aborted(job, held), {})
<1>1. /\ held' = {} /\ UNCHANGED <<now, counter>> /\ DOMAIN records' = {} /\ job' = left
    BY DEF Reset
<1>2. /\ \A i \in DOMAIN job : DOMAIN job[i] = Parts /\ Dated(job[i], now)
      /\ now \in Nat
    BY DEF SearchInv, JobsNumbered
<1>3. /\ DOMAIN left \subseteq DOMAIN job
      /\ \A i \in DOMAIN left :
           /\ Same(job[i], left[i]) /\ left[i].touched = job[i].touched
           /\ left[i].task # "over"
           /\ i \notin held => left[i] = job[i]
           /\ i \in held => left[i].cancel = (left[i].task # "over")
    BY <1>2, AbortedLeaves
<1> HIDE DEF left
<1>4. \A i \in DOMAIN job' : Same(job[i], job'[i]) /\ Dated(job'[i], now)
    BY <1>1, <1>2, <1>3 DEF Same, Dated
<1>5. LettingGo'
    BY <1>1, <1>3 DEF SearchInv, LettingGo
<1> QED
    BY <1>1, <1>2, <1>3, <1>4, <1>5, Keeping

\* The task of a search runs: what it was started for does not change, and
\* the task of a search let go of can only end.
LEMMA TaskKeeps ==
    ASSUME SearchInv, NEW id, NEW late, RunTask(id, late)
    PROVE  SearchInv'
<1> DEFINE x == job[id]
           after == IF x.cancel THEN [x EXCEPT !.task = "over", !.cancel = FALSE,
                                               !.state = "cancelled"]
                    ELSE IF x.task = "after" THEN [x EXCEPT !.task = "over", !.state = "done"]
                    ELSE Scanned([x EXCEPT !.state = "running"], late)
           all == [job EXCEPT ![id] = after]
<1>1. /\ id \in DOMAIN job /\ job' = Reachable(all, held)
      /\ UNCHANGED <<now, counter, held, records>>
    BY DEF RunTask
<1>2. DOMAIN x = Parts /\ Dated(x, now) /\ now \in Nat /\ held \subseteq DOMAIN job
    BY <1>1 DEF SearchInv, JobsNumbered
<1> HIDE DEF x
<1>3. \A y : DOMAIN y = Parts => Same(y, Scanned(y, late)) /\ Scanned(y, late).touched = y.touched
    <2> SUFFICES ASSUME NEW y, DOMAIN y = Parts
                 PROVE  Same(y, Scanned(y, late)) /\ Scanned(y, late).touched = y.touched
        OBVIOUS
    <2> DEFINE n == NextStop(y.scanned, y.fails)
               z == [y EXCEPT !.scanned = n]
    <2>1. Same(y, z) /\ z.touched = y.touched
        <3> HIDE DEF n
        <3> QED
            BY DEF Same, Parts
    <2>2. Same(y, [y EXCEPT !.task = "after"]) /\ [y EXCEPT !.task = "after"].touched = y.touched
        BY DEF Same, Parts
    <2>3. \/ Scanned(y, late) = [y EXCEPT !.task = "after"]
          \/ Scanned(y, late) = [z EXCEPT !.state = "failed", !.task = "over"]
          \/ Scanned(y, late) = [z EXCEPT !.task = "inside"]
          \/ Scanned(y, late) = [z EXCEPT !.task = "after"]
        BY DEF Scanned
    <2> HIDE DEF z
    <2> QED
        BY <2>1, <2>2, <2>3 DEF Same, Parts
<1>4. Same(x, after) /\ after.touched = x.touched
    <2> DEFINE running == [x EXCEPT !.state = "running"]
    <2>1. Same(x, running) /\ running.touched = x.touched
        BY <1>2 DEF Same, Parts
    <2> HIDE DEF running
    <2>2. Same(running, Scanned(running, late)) /\ Scanned(running, late).touched = running.touched
        BY <1>3, <2>1 DEF Same
    <2>3. CASE x.cancel
        BY <1>2, <2>3 DEF Same, Parts
    <2>4. CASE ~x.cancel /\ x.task = "after"
        BY <1>2, <2>4 DEF Same, Parts
    <2>5. CASE ~x.cancel /\ x.task # "after"
        <3>1. after = Scanned(running, late)
            BY <2>5 DEF running
        <3> HIDE DEF after
        <3> QED
            BY <2>1, <2>2, <3>1 DEF Same
    <2> QED
        BY <2>3, <2>4, <2>5
<1>5. x.cancel => after.task = "over"
    BY <1>2 DEF Parts
<1> HIDE DEF after
<1>6. /\ DOMAIN all = DOMAIN job /\ all[id] = after
      /\ \A i \in DOMAIN job \ {id} : all[i] = job[i]
    BY <1>1
<1> HIDE DEF all
<1>7. /\ \A i \in DOMAIN job' : i \in DOMAIN job /\ job'[i] = all[i]
                                /\ (i \in held \/ all[i].task # "over")
      /\ held \subseteq DOMAIN job'
    BY <1>1, <1>2, <1>6 DEF Reachable
<1>8. \A i \in DOMAIN job' : Same(job[i], job'[i]) /\ Dated(job'[i], now)
    <2>1. \A i \in DOMAIN job : Same(job[i], job[i]) /\ Dated(job[i], now)
        BY DEF SearchInv, JobsNumbered, Same
    <2>2. Same(job[id], after) /\ Dated(after, now)
        BY <1>2, <1>4 DEF Same, Dated, x
    <2> QED
        BY <1>6, <1>7, <2>1, <2>2
<1>9. LettingGo'
    <2>1. id \notin held => x.cancel
        BY <1>1 DEF SearchInv, LettingGo, x
    <2> QED
        BY <1>1, <1>5, <1>6, <1>7, <2>1 DEF SearchInv, LettingGo
<1> QED
    BY <1>1, <1>2, <1>7, <1>8, <1>9, Keeping

LEMMA TickKeeps ==
    ASSUME SearchInv, Tick
    PROVE  SearchInv'
<1>1. now \in Nat /\ now' = now + 1 /\ UNCHANGED <<counter, job, held, records>>
    BY DEF Tick, SearchInv, JobsNumbered
<1>2. /\ held \subseteq DOMAIN job
      /\ \A i \in DOMAIN job : Same(job[i], job[i]) /\ Dated(job[i], now + 1)
    BY <1>1 DEF SearchInv, JobsNumbered, Same, Dated
<1>3. LettingGo'
    BY <1>1 DEF SearchInv, LettingGo
<1> QED
    BY <1>1, <1>2, <1>3, Keeping

-----------------------------------------------------------------------------
LEMMA SearchInitially == SearchInit => SearchInv
    BY DEF SearchInit, SearchInv, JobsNumbered, LettingGo, RecordsNamed, KeysKept, NoTwin

LEMMA SearchStepKeeps == SearchInv /\ [SearchNext]_searchVars => SearchInv'
<1> SUFFICES ASSUME SearchInv, [SearchNext]_searchVars PROVE SearchInv'
    OBVIOUS
<1>1. CASE \E f \in Families, k \in Keys \cup {NoKey}, b \in Bodies : Create(f, k, b)
    BY <1>1, CreateKeeps
<1>2. CASE \E id \in held : Get(id) \/ Cancel(id)
    BY <1>2, GetKeeps, CancelKeeps
<1>3. CASE \E id \in DOMAIN job, late \in BOOLEAN : RunTask(id, late)
    BY <1>3, TaskKeeps
<1>4. CASE Reap
    BY <1>4, ReapKeeps DEF Reap
<1>5. CASE Reset
    BY <1>5, ResetKeeps
<1>6. CASE Tick
    BY <1>6, TickKeeps
<1>7. CASE UNCHANGED searchVars
    BY <1>7, RecordsOnly DEF searchVars
<1> QED
    BY <1>1, <1>2, <1>3, <1>4, <1>5, <1>6, <1>7 DEF SearchNext

\* The invariant holds throughout.
LEMMA SearchInvariant == SearchSpec => []SearchInv
<1>1. SearchInit => SearchInv
    BY SearchInitially
<1>2. SearchInv /\ [SearchNext]_searchVars => SearchInv'
    BY SearchStepKeeps
<1> QED
    BY <1>1, <1>2, PTL DEF SearchSpec

\* A retry under its key starts no twin (POST /searches with the records of
\* the idempotency store): two searches held under one key were created a
\* whole lifetime of the record apart.
THEOREM RetriesStartNoTwin == SearchSpec => []NoTwin
<1>1. SearchInv => NoTwin
    BY DEF SearchInv
<1> QED
    BY <1>1, SearchInvariant, PTL

\* A search that is replayed, without a sweep or a touch, is one the next
\* read still finds: its record lives no longer than an idle search.
THEOREM ReplaysAreFresh == SearchSpec => []ReplayIsFresh
<1>1. SearchInv => ReplayIsFresh
    <2> SUFFICES ASSUME SearchInv, NEW f \in Families, NEW k \in Keys, Replays(f, k)
                 PROVE  now - job[Purged[<<f, k>>].job].touched < IdleTtl
        BY DEF ReplayIsFresh
    <2> DEFINE x == <<f, k>>
               id == records[x].job
    <2>1. /\ x \in DOMAIN records /\ now - records[x].created < RecordTtl /\ Purged[x] = records[x]
          /\ id \in held
        BY DEF Replays, Found, Purged
    <2>2. records[x].created = job[id].created /\ Dated(job[id], now) /\ now \in Nat
        BY <2>1 DEF SearchInv, RecordsNamed, JobsNumbered
    <2> HIDE DEF x
    <2>3. now - job[id].touched < IdleTtl
        BY <2>1, <2>2, SearchAssumption DEF Dated
    <2> QED
        BY <2>1, <2>3 DEF x
<1> QED
    BY <1>1, SearchInvariant, PTL

\* No scan goes on for a search that was cancelled, reaped or reset: its task
\* has its cancellation on the way (_abort).
THEOREM NoScanStrays == SearchSpec => []NoStrayScan
<1>1. SearchInv => NoStrayScan
    BY DEF SearchInv, LettingGo, NoStrayScan
<1> QED
    BY <1>1, SearchInvariant, PTL

-----------------------------------------------------------------------------
(***************************************************************************)
(* What the answers rest on: the objects are SearchJob objects, a held      *)
(* search is not cancelled and has a final state only when its task is     *)
(* over, and the dated set that stands for _expired tells its order: what  *)
(* was let go of just now has smaller numbers than what a sweep would find *)
(* next.                                                                   *)
(***************************************************************************)
ObjectsShaped ==
    /\ now \in 0 .. MaxNow /\ counter \in 0 .. MaxJobs
    /\ \A id \in DOMAIN job : job[id] \in Job
    /\ \A id \in held :
         /\ ~ job[id].cancel
         /\ job[id].task # "over" => job[id].state \in {"queued", "running"}
ExpiredShaped ==
    /\ DOMAIN expired \subseteq (1 .. counter) \ held /\ Cardinality(DOMAIN expired) <= MaxExpired
    /\ \A x \in DOMAIN expired : expired[x] \in 0 .. now
    /\ \A x \in DOMAIN expired, id \in held :
         expired[x] = now => x < id \/ now - job[id].touched < IdleTtl
RecordsShaped ==
    /\ DOMAIN records \subseteq Families \X Keys
    /\ \A x \in DOMAIN records : records[x] \in Record
HitsShaped ==
    /\ hits \in [Users -> Seq(Nat)]
    /\ \A u \in Users : Len(hits[u]) <= RateLimit
AnswersInv == SearchInv /\ ObjectsShaped /\ ExpiredShaped /\ RecordsShaped /\ HitsShaped

-----------------------------------------------------------------------------
\* The least of a set of naturals.
LEMMA LeastOf ==
    ASSUME NEW S \in SUBSET Nat, S # {}
    PROVE  \E n \in S : \A m \in S : n <= m
<1>1. \E R : IsWellFoundedOn(R, Nat) /\ \A a, b \in Nat : a < b => <<a, b>> \in R
    <2> DEFINE R == OpToRel(<, Nat)
    <2>1. IsWellFoundedOn(R, Nat)
        BY NatLessThanWellFounded
    <2>2. \A a, b \in Nat : a < b => <<a, b>> \in R
        <3>1. R = {ss \in Nat \X Nat : ss[1] < ss[2]}
            BY Zenon DEF OpToRel
        <3> HIDE DEF R
        <3> QED
            BY <3>1
    <2> HIDE DEF R
    <2> QED
        BY <2>1, <2>2
<1>2. PICK R : IsWellFoundedOn(R, Nat) /\ \A a, b \in Nat : a < b => <<a, b>> \in R
    BY <1>1
<1>3. PICK n \in S : \A m \in S : ~ (<<m, n>> \in R)
    <2>1. IsWellFoundedOn(R, Nat) /\ S \subseteq Nat
        BY <1>2
    <2> QED
        BY <2>1, WFMin, Zenon
<1>4. S \subseteq Nat /\ \A m \in S : m \in Nat /\ n \in Nat
    OBVIOUS
<1>5. \A m \in S : ~ m < n
    BY <1>2, <1>3, <1>4
<1> QED
    BY <1>4, <1>5

\* Where a scan stops: at a row after the one it was at.
LEMMA StopsLater ==
    ASSUME NEW s \in 0 .. Total - 1, NEW fails \in BOOLEAN
    PROVE  NextStop(s, fails) \in s + 1 .. Total
<1> DEFINE Stops == {n \in s + 1 .. Total : n % Chunk = 0 \/ (fails /\ FailsAt(n)) \/ n = Total}
<1>1. Total \in Nat /\ s \in Nat /\ s + 1 \in Nat /\ s + 1 <= Total
    BY SearchAssumption
<1>2. Stops \in SUBSET Nat /\ Total \in Stops
    BY <1>1
<1>3. PICK n \in Stops : \A m \in Stops : n <= m
    <2> HIDE DEF Stops
    <2> QED
        BY <1>2, LeastOf
<1>4. \A m \in s + 1 .. n - 1 : m \in s + 1 .. Total /\ ~ n <= m
    BY <1>1, <1>3
<1>5. \A m \in s + 1 .. n - 1 : m \notin Stops
    <2> HIDE DEF Stops
    <2> QED
        BY <1>3, <1>4
<1>6. /\ n \in s + 1 .. Total
      /\ n % Chunk = 0 \/ (fails /\ FailsAt(n)) \/ n = Total
      /\ \A m \in s + 1 .. n - 1 : m % Chunk # 0 /\ ~ (fails /\ FailsAt(m))
    BY <1>3, <1>4, <1>5
<1> QED
    BY <1>6 DEF NextStop

\* Of a dated set no more than cap are kept: the first of those kept has all
\* the others inserted after it.
LEMMA OldestForgotten ==
    ASSUME NEW all, IsFiniteSet(DOMAIN all), DOMAIN all \subseteq Nat,
           \A x \in DOMAIN all : all[x] \in Nat, NEW cap \in Nat \ {0},
           NEW kept, kept = {x \in DOMAIN all : Cardinality(InsertedAfter(all, x)) < cap}
    PROVE  IsFiniteSet(kept) /\ Cardinality(kept) <= cap
<1>1. IsFiniteSet(kept)
    <2>1. kept \in SUBSET DOMAIN all
        OBVIOUS
    <2> QED
        BY <2>1, FS_Subset
<1>2. CASE kept = {}
    BY <1>2, FS_EmptySet
<1>3. CASE kept # {}
    <2> DEFINE Dates == {all[x] : x \in kept}
    <2>1. Dates \in SUBSET Nat /\ Dates # {}
        BY <1>3
    <2>2. PICK d \in Dates : \A e \in Dates : d <= e
        <3> HIDE DEF Dates
        <3> QED
            BY <2>1, LeastOf
    <2> DEFINE Firsts == {x \in kept : all[x] = d}
    <2>3. Firsts \in SUBSET Nat /\ Firsts # {}
        BY <2>2
    <2>4. PICK o \in Firsts : \A x \in Firsts : o <= x
        <3> HIDE DEF Firsts
        <3> QED
            BY <2>3, LeastOf
    <2>5. o \in kept /\ all[o] = d /\ o \in DOMAIN all
        BY <2>4
    <2>6. \A x \in kept : d <= all[x] /\ (all[x] = d => o <= x)
        BY <2>2, <2>4
    <2>7. \A x \in kept : x \in Nat /\ all[x] \in Nat
        OBVIOUS
    <2> HIDE DEF Dates, Firsts
    <2>8. \A x \in kept \ {o} : all[x] > all[o] \/ (all[x] = all[o] /\ x > o)
        BY <2>5, <2>6, <2>7
    <2> DEFINE later == InsertedAfter(all, o)
    <2>9. kept \ {o} \in SUBSET later /\ later \in SUBSET DOMAIN all
        BY <2>8 DEF InsertedAfter
    <2>10. Cardinality(later) < cap
        BY <2>5
    <2> HIDE DEF later
    <2>11. IsFiniteSet(later) /\ Cardinality(later) \in Nat
        BY <2>9, FS_Subset, FS_CardinalityType
    <2>12. IsFiniteSet(kept \ {o}) /\ Cardinality(kept \ {o}) <= Cardinality(later)
           /\ Cardinality(kept \ {o}) \in Nat
        BY <2>9, <2>11, FS_Subset, FS_CardinalityType
    <2>13. Cardinality(kept \ {o}) = Cardinality(kept) - 1
        BY <1>1, <2>5, FS_RemoveElement
    <2>14. Cardinality(kept) \in Nat
        BY <1>1, FS_CardinalityType
    <2> QED
        BY <1>1, <2>10, <2>11, <2>12, <2>13, <2>14
<1> QED
    BY <1>1, <1>2, <1>3

\* More inserted after it, and what was forgotten stays forgotten.
LEMMA StaysForgotten ==
    ASSUME NEW all, NEW more, IsFiniteSet(DOMAIN more), NEW cap \in Nat \ {0}, NEW id,
           InsertedAfter(all, id) \subseteq InsertedAfter(more, id),
           Cardinality(InsertedAfter(more, id)) < cap
    PROVE  Cardinality(InsertedAfter(all, id)) < cap
<1> DEFINE S == InsertedAfter(all, id)
           T == InsertedAfter(more, id)
<1>1. T \in SUBSET DOMAIN more /\ S \in SUBSET T
    BY DEF InsertedAfter
<1> HIDE DEF S, T
<1>2. IsFiniteSet(T)
    BY <1>1, FS_Subset
<1>3. IsFiniteSet(S) /\ Cardinality(S) <= Cardinality(T) 
    BY <1>1, <1>2, FS_Subset
<1>4. Cardinality(S) \in Nat /\ Cardinality(T) \in Nat
    BY <1>2, <1>3, FS_CardinalityType
<1>5. Cardinality(T) < cap
    BY DEF T
<1> QED
    BY <1>3, <1>4, <1>5 DEF S

-----------------------------------------------------------------------------
\* What a sweep finds to remember, and what it remembers.
LEMMA SweepFinds ==
    ASSUME AnswersInv
    PROVE  /\ now \in Nat /\ counter \in Nat /\ held \subseteq 1 .. counter
           /\ \A id \in held : job[id].touched \in Nat /\ job[id].touched <= now
           /\ DOMAIN AllExpired = DOMAIN expired \cup Idle
           /\ \A x \in DOMAIN AllExpired :
                /\ x \in 1 .. counter /\ x \notin HeldAfterReap /\ AllExpired[x] \in 0 .. now
                /\ AllExpired[x] = IF x \in Idle THEN now ELSE expired[x]
           /\ IsFiniteSet(DOMAIN AllExpired)
<1>1. /\ now \in Nat /\ counter \in Nat /\ held \subseteq 1 .. counter
      /\ \A id \in held : job[id].touched \in Nat /\ job[id].touched <= now
    BY DEF AnswersInv, SearchInv, JobsNumbered, Dated
<1>2. DOMAIN AllExpired = DOMAIN expired \cup Idle
      /\ \A x \in DOMAIN AllExpired : AllExpired[x] = IF x \in Idle THEN now ELSE expired[x]
    BY DEF AllExpired
<1>3. Idle \subseteq held
    BY DEF Idle
<1>4. \A x \in DOMAIN AllExpired :
         x \in 1 .. counter /\ x \notin HeldAfterReap /\ AllExpired[x] \in 0 .. now
    <2> SUFFICES ASSUME NEW x \in DOMAIN AllExpired
                 PROVE  x \in 1 .. counter /\ x \notin HeldAfterReap /\ AllExpired[x] \in 0 .. now
        OBVIOUS
    <2>1. \A y \in DOMAIN expired : y \in 1 .. counter /\ y \notin held /\ expired[y] \in 0 .. now
        BY DEF AnswersInv, ExpiredShaped
    <2>2. CASE x \in Idle
        <3>1. AllExpired[x] = now
            BY <1>2, <2>2
        <3>2. x \in 1 .. counter /\ x \notin HeldAfterReap
            BY <1>1, <1>3, <2>2 DEF HeldAfterReap
        <3>3. now \in 0 .. now
            BY <1>1
        <3> QED
            BY <3>1, <3>2, <3>3
    <2>3. CASE x \notin Idle
        <3>1. x \in DOMAIN expired /\ AllExpired[x] = expired[x]
            BY <1>2, <2>3
        <3> QED
            BY <2>1, <3>1 DEF HeldAfterReap
    <2> QED
        BY <2>2, <2>3
<1>5. IsFiniteSet(DOMAIN AllExpired)
    <2>1. DOMAIN AllExpired \in SUBSET (1 .. counter) /\ IsFiniteSet(1 .. counter)
        BY <1>1, <1>4, FS_Interval
    <2> QED
        BY <2>1, FS_Subset
<1> QED
    BY <1>1, <1>2, <1>4, <1>5

LEMMA SweepRemembers ==
    ASSUME AnswersInv
    PROVE  /\ DOMAIN ExpiredAfterReap =
                {x \in DOMAIN AllExpired : Cardinality(InsertedAfter(AllExpired, x)) < MaxExpired}
           /\ \A x \in DOMAIN ExpiredAfterReap : ExpiredAfterReap[x] = AllExpired[x]
           /\ IsFiniteSet(DOMAIN ExpiredAfterReap)
           /\ Cardinality(DOMAIN ExpiredAfterReap) <= MaxExpired
<1> DEFINE all == AllExpired
           kept == {x \in DOMAIN all : Cardinality(InsertedAfter(all, x)) < MaxExpired}
<1>1. /\ DOMAIN ExpiredAfterReap = kept
      /\ \A x \in DOMAIN ExpiredAfterReap : ExpiredAfterReap[x] = all[x]
    BY DEF ExpiredAfterReap, Restrict
<1>2. /\ IsFiniteSet(DOMAIN all) /\ DOMAIN all \subseteq Nat
      /\ \A x \in DOMAIN all : all[x] \in Nat
    BY SweepFinds
<1>3. MaxExpired \in Nat \ {0}
    BY SearchAssumption
<1> HIDE DEF all
<1>4. IsFiniteSet(kept) /\ Cardinality(kept) <= MaxExpired
    BY <1>2, <1>3, OldestForgotten
<1> QED
    BY <1>1, <1>4 DEF all

\* No search let go of, or about to be, is held again, and none forgotten is
\* remembered again.
NoneRevived ==
    \A id \in 1 .. counter :
        /\ id \in HeldAfterReap' => id \in HeldAfterReap
        /\ id \in DOMAIN ExpiredAfterReap' =>
             id \in HeldAfterReap \/ id \in DOMAIN ExpiredAfterReap

\* A step with a sweep.
LEMMA Sweeping ==
    ASSUME AnswersInv, now' = now, counter' \in Nat, counter <= counter', held' \subseteq 1 .. counter',
           \A id \in held' : id \in 1 .. counter =>
              id \in HeldAfterReap /\ job'[id].touched \in {job[id].touched, now},
           DOMAIN expired' \subseteq DOMAIN ExpiredAfterReap,
           \A x \in DOMAIN expired' : expired'[x] = ExpiredAfterReap[x]
    PROVE  ExpiredShaped' /\ NoneRevived
<1>1. /\ now \in Nat /\ counter \in Nat /\ held \subseteq 1 .. counter
      /\ \A id \in held : job[id].touched \in Nat /\ job[id].touched <= now
    BY SweepFinds
<1>2. \A id \in held' : id \in 1 .. counter => now - job'[id].touched < IdleTtl
    <2> SUFFICES ASSUME NEW id \in held', id \in 1 .. counter
                 PROVE  now - job'[id].touched < IdleTtl
        OBVIOUS
    <2>1. id \in held /\ ~ (now - job[id].touched >= IdleTtl)
        BY DEF HeldAfterReap, Idle
    <2>2. job'[id].touched \in {job[id].touched, now} /\ job[id].touched \in Nat /\ job[id].touched <= now
        BY <1>1, <2>1
    <2> QED
        BY <1>1, <2>1, <2>2, SearchAssumption
<1>3. \A x \in DOMAIN expired' :
         /\ x \in DOMAIN ExpiredAfterReap /\ x \in 1 .. counter /\ x \notin HeldAfterReap
         /\ expired'[x] \in 0 .. now
    BY SweepFinds, SweepRemembers
<1>4. /\ DOMAIN expired' \subseteq (1 .. counter') \ held'
      /\ \A x \in DOMAIN expired' : expired'[x] \in 0 .. now'
    BY <1>1, <1>3
<1>5. Cardinality(DOMAIN expired') <= MaxExpired
    <2> DEFINE S == DOMAIN ExpiredAfterReap
               T == DOMAIN expired'
    <2>1. IsFiniteSet(S) /\ Cardinality(S) <= MaxExpired /\ T \in SUBSET S
        BY SweepRemembers
    <2> HIDE DEF S, T
    <2>2. IsFiniteSet(T) /\ Cardinality(T) <= Cardinality(S)
        BY <2>1, FS_Subset
    <2>3. Cardinality(T) \in Nat /\ Cardinality(S) \in Nat /\ MaxExpired \in Nat
        BY <2>1, <2>2, FS_CardinalityType, SearchAssumption
    <2>4. Cardinality(T) <= MaxExpired
        BY <2>1, <2>2, <2>3
    <2> QED
        BY <2>4 DEF T
<1>6. \A x \in DOMAIN expired', id \in held' : x < id \/ now' - job'[id].touched < IdleTtl
    <2> SUFFICES ASSUME NEW x \in DOMAIN expired', NEW id \in held'
                 PROVE  x < id \/ now' - job'[id].touched < IdleTtl
        OBVIOUS
    <2>1. CASE id \in 1 .. counter
        BY <1>2, <2>1
    <2>2. CASE id \notin 1 .. counter
        BY <1>1, <1>3, <2>2
    <2> QED
        BY <2>1, <2>2
<1>7. ExpiredShaped'
    BY <1>4, <1>5, <1>6 DEF ExpiredShaped
<1>8. NoneRevived
    <2> SUFFICES ASSUME NEW id \in 1 .. counter
                 PROVE  /\ id \in HeldAfterReap' => id \in HeldAfterReap
                        /\ id \in DOMAIN ExpiredAfterReap' =>
                             id \in HeldAfterReap \/ id \in DOMAIN ExpiredAfterReap
        BY DEF NoneRevived
    <2>1. id \in HeldAfterReap' => id \in HeldAfterReap
        BY DEF HeldAfterReap
    <2>2. id \in DOMAIN ExpiredAfterReap' => id \in DOMAIN expired' \/ id \in Idle'
        BY DEF ExpiredAfterReap, AllExpired, Restrict
    <2>3. id \in Idle' => id \in held' /\ now - job'[id].touched >= IdleTtl
        BY DEF Idle
    <2>4. id \in held' => id \in HeldAfterReap
        OBVIOUS
    <2> QED
        BY <2>1, <2>2, <2>3, <2>4, <1>3
<1> QED
    BY <1>7, <1>8

\* A step without one.
LEMMA Standing ==
    ASSUME AnswersInv, now' \in Nat, now <= now', UNCHANGED <<counter, held, expired>>,
           \A id \in held : job'[id].touched = job[id].touched
    PROVE  ExpiredShaped' /\ NoneRevived
<1>0. counter' = counter /\ held' = held /\ expired' = expired
    OBVIOUS
<1>1. /\ now \in Nat /\ counter \in Nat /\ held \subseteq 1 .. counter
      /\ \A id \in held : job[id].touched \in Nat /\ job[id].touched <= now
    BY SweepFinds
<1>2. ExpiredShaped
    BY DEF AnswersInv
<1>3. \A id \in held : now' - job'[id].touched >= now - job[id].touched
    BY <1>1
<1>4. \A x \in DOMAIN expired, id \in held :
         expired[x] = now' => x < id \/ now' - job'[id].touched < IdleTtl
    <2> SUFFICES ASSUME NEW x \in DOMAIN expired, NEW id \in held, expired[x] = now'
                 PROVE  x < id \/ now' - job'[id].touched < IdleTtl
        OBVIOUS
    <2>1. now' = now
        BY <1>1, <1>2 DEF ExpiredShaped
    <2> QED
        BY <1>2, <2>1 DEF ExpiredShaped
<1>5. ExpiredShaped'
    BY <1>0, <1>1, <1>2, <1>4 DEF ExpiredShaped
<1>6. Idle \subseteq Idle' /\ Idle' \subseteq held
    <2>1. \A id \in Idle : id \in held /\ now - job[id].touched >= IdleTtl
        BY DEF Idle
    <2>2. ASSUME NEW id \in Idle
          PROVE  now' - job'[id].touched >= IdleTtl
        <3>1. job'[id].touched = job[id].touched /\ job[id].touched \in Nat
              /\ now - job[id].touched >= IdleTtl
            BY <1>1, <2>1
        <3> QED
            BY <1>1, <3>1, SearchAssumption
    <2> QED
        BY <1>0, <2>1, <2>2 DEF Idle
<1>7. \A id \in held : id \in HeldAfterReap \/ id \in Idle
    BY DEF HeldAfterReap
<1>8. /\ DOMAIN AllExpired' = DOMAIN expired \cup Idle'
      /\ \A x \in DOMAIN AllExpired' : AllExpired'[x] = IF x \in Idle' THEN now' ELSE expired[x]
      /\ DOMAIN ExpiredAfterReap' =
           {x \in DOMAIN AllExpired' : Cardinality(InsertedAfter(AllExpired', x)) < MaxExpired}
      /\ HeldAfterReap' = held \ Idle'
    <2>1. /\ DOMAIN AllExpired' = DOMAIN expired \cup Idle'
          /\ \A x \in DOMAIN AllExpired' : AllExpired'[x] = IF x \in Idle' THEN now' ELSE expired[x]
        BY <1>0 DEF AllExpired
    <2>2. DOMAIN ExpiredAfterReap' =
            {x \in DOMAIN AllExpired' : Cardinality(InsertedAfter(AllExpired', x)) < MaxExpired}
        BY DEF ExpiredAfterReap, Restrict, InsertedAfter
    <2>3. HeldAfterReap' = held \ Idle'
        BY <1>0 DEF HeldAfterReap
    <2> QED
        BY <2>1, <2>2, <2>3
<1>9. IsFiniteSet(DOMAIN AllExpired')
    <2>1. DOMAIN AllExpired' \in SUBSET (1 .. counter) /\ IsFiniteSet(1 .. counter)
        <3>1. DOMAIN expired \subseteq 1 .. counter
            BY <1>2 DEF ExpiredShaped
        <3>2. IsFiniteSet(1 .. counter)
            BY <1>1, FS_Interval
        <3> QED
            BY <1>1, <1>6, <1>8, <3>1, <3>2
    <2> QED
        BY <2>1, FS_Subset
<1>10. /\ DOMAIN AllExpired = DOMAIN expired \cup Idle
       /\ \A x \in DOMAIN AllExpired : AllExpired[x] = IF x \in Idle THEN now ELSE expired[x]
       /\ DOMAIN ExpiredAfterReap =
            {x \in DOMAIN AllExpired : Cardinality(InsertedAfter(AllExpired, x)) < MaxExpired}
    BY SweepFinds, SweepRemembers
<1>11. NoneRevived
    <2> SUFFICES ASSUME NEW id \in 1 .. counter, id \notin HeldAfterReap
                 PROVE  /\ id \notin HeldAfterReap'
                        /\ id \in DOMAIN ExpiredAfterReap' => id \in DOMAIN ExpiredAfterReap
        BY DEF NoneRevived
    <2>1. id \notin HeldAfterReap'
        BY <1>6, <1>7, <1>8
    <2>2. ASSUME id \in DOMAIN ExpiredAfterReap'
          PROVE  id \in DOMAIN ExpiredAfterReap
        <3>1. /\ id \in DOMAIN AllExpired'
              /\ Cardinality(InsertedAfter(AllExpired', id)) < MaxExpired
            BY <1>8, <2>2
        <3>2. id \in DOMAIN AllExpired
            BY <1>6, <1>7, <1>8, <1>10, <3>1
        <3>3. \A x \in DOMAIN AllExpired : x \in DOMAIN AllExpired' /\ x \in 1 .. counter
            BY <1>1, <1>2, <1>6, <1>8, <1>10 DEF ExpiredShaped
        <3>4. \A x \in InsertedAfter(AllExpired, id) : x \in InsertedAfter(AllExpired', id)
            <4> SUFFICES ASSUME NEW x \in DOMAIN AllExpired,
                                \/ AllExpired[x] > AllExpired[id]
                                \/ AllExpired[x] = AllExpired[id] /\ x > id
                         PROVE  \/ AllExpired'[x] > AllExpired'[id]
                                \/ AllExpired'[x] = AllExpired'[id] /\ x > id
                BY <3>3 DEF InsertedAfter
            <4>1. CASE id \in Idle
                <5>1. AllExpired[id] = now /\ AllExpired'[id] = now' /\ id \in held
                    BY <1>6, <1>8, <1>10, <3>1, <3>2, <4>1
                <5>2. CASE x \in Idle
                    <6>1. AllExpired[x] = now /\ AllExpired'[x] = now'
                        BY <1>6, <1>8, <1>10, <3>3, <5>2
                    <6>2. x > id
                        BY <1>1, <5>1, <6>1
                    <6> QED
                        BY <5>1, <6>1, <6>2
                <5>3. CASE x \notin Idle
                    <6>1. x \in DOMAIN expired /\ AllExpired[x] = expired[x] /\ expired[x] \in 0 .. now
                        BY <1>2, <1>10, <5>3 DEF ExpiredShaped
                    <6>2. expired[x] = now /\ x > id
                        BY <1>1, <5>1, <6>1
                    <6>3. ~ (now - job[id].touched < IdleTtl)
                        BY <1>1, <4>1, SearchAssumption DEF Idle
                    <6>4. x < id
                        BY <1>2, <5>1, <6>1, <6>2, <6>3 DEF ExpiredShaped
                    <6> QED
                        BY <1>1, <3>3, <6>2, <6>4
                <5> QED
                    BY <5>2, <5>3
            <4>2. CASE id \notin Idle
                <5>1. id \in DOMAIN expired /\ id \notin held
                    BY <1>2, <1>10, <3>2, <4>2 DEF ExpiredShaped
                <5>2. AllExpired[id] = expired[id] /\ AllExpired'[id] = expired[id]
                      /\ expired[id] \in 0 .. now
                    BY <1>2, <1>6, <1>8, <1>10, <3>1, <3>2, <4>2, <5>1 DEF ExpiredShaped
                <5>3. CASE x \in Idle
                    <6>1. AllExpired[x] = now /\ AllExpired'[x] = now'
                        BY <1>6, <1>8, <1>10, <3>3, <5>3
                    <6> QED
                        BY <1>1, <5>2, <6>1
                <5>4. CASE x \notin Idle
                    <6>1. x \in DOMAIN expired /\ x \notin held
                        BY <1>2, <1>10, <5>4 DEF ExpiredShaped
                    <6>2. AllExpired[x] = expired[x] /\ AllExpired'[x] = expired[x]
                        BY <1>6, <1>8, <1>10, <3>3, <5>4, <6>1
                    <6> QED
                        BY <5>2, <6>2
                <5> QED
                    BY <5>3, <5>4
            <4> QED
                BY <4>1, <4>2
        <3>5. Cardinality(InsertedAfter(AllExpired, id)) < MaxExpired
            <4> DEFINE all == AllExpired
                       more == AllExpired'
            <4>1. /\ IsFiniteSet(DOMAIN more) /\ MaxExpired \in Nat \ {0}
                  /\ InsertedAfter(all, id) \subseteq InsertedAfter(more, id)
                  /\ Cardinality(InsertedAfter(more, id)) < MaxExpired
                BY <1>9, <3>1, <3>4, SearchAssumption
            <4> HIDE DEF all, more
            <4>2. Cardinality(InsertedAfter(all, id)) < MaxExpired
                BY <4>1, StaysForgotten
            <4> QED
                BY <4>2 DEF all
        <3> QED
            BY <1>10, <3>2, <3>5
    <2> QED
        BY <2>1, <2>2
<1> QED
    BY <1>5, <1>11

-----------------------------------------------------------------------------
\* The state of a search that stays held is what it was or a later one.
StatesAdvance ==
    \A id \in HeldAfterReap :
        id \in HeldAfterReap' =>
            job'[id].state = job[id].state \/ Stage(job'[id].state) > Stage(job[id].state)
AnswersKept ==
    ObjectsShaped' /\ ExpiredShaped' /\ RecordsShaped' /\ HitsShaped' /\ NoneRevived /\ StatesAdvance

LEMMA AbortedShaped ==
    ASSUME NEW dict, \A id \in DOMAIN dict : dict[id] \in Job, NEW S, NEW kept
    PROVE  \A id \in DOMAIN Reachable(Aborted(dict, S), kept) :
              Reachable(Aborted(dict, S), kept)[id] \in Job
<1> DEFINE all == Aborted(dict, S)
<1>1. DOMAIN all = DOMAIN dict
    BY DEF Aborted
<1>2. ASSUME NEW id \in DOMAIN dict
      PROVE  all[id] \in Job
    <2>1. CASE id \notin S
        BY <2>1 DEF Aborted
    <2>2. CASE id \in S
        <3> DEFINE x == dict[id]
                   c == x.task # "over"
                   s == IF x.state \in Finished THEN x.state ELSE "cancelled"
        <3>1. all[id] = [x EXCEPT !.cancel = c, !.state = s]
            BY <2>2 DEF Aborted
        <3>2. x \in Job
            OBVIOUS
        <3>3. s \in Finished
            BY DEF Finished
        <3>4. c \in BOOLEAN
            OBVIOUS
        <3> HIDE DEF c, s, x, all
        <3> QED
            BY <3>1, <3>2, <3>3, <3>4 DEF Job
    <2> QED
        BY <2>1, <2>2
<1> HIDE DEF all
<1> QED
    BY <1>1, <1>2 DEF Reachable, all

\* A sweep leaves the searches it spares as they were.
LEMMA SweptObjects ==
    ASSUME AnswersInv
    PROVE  /\ \A id \in DOMAIN JobsAfterReap : JobsAfterReap[id] \in Job
           /\ \A id \in HeldAfterReap : id \in DOMAIN JobsAfterReap /\ JobsAfterReap[id] = job[id]
<1>1. \A id \in DOMAIN job : job[id] \in Job
    BY DEF AnswersInv, ObjectsShaped
<1>2. \A id \in DOMAIN JobsAfterReap : JobsAfterReap[id] \in Job
    BY <1>1, AbortedShaped DEF JobsAfterReap
<1>3. \A id \in HeldAfterReap : id \in DOMAIN job /\ id \notin Idle
    BY DEF HeldAfterReap, AnswersInv, SearchInv, JobsNumbered
<1>4. \A id \in HeldAfterReap : id \in DOMAIN JobsAfterReap /\ JobsAfterReap[id] = job[id]
    BY <1>3 DEF JobsAfterReap, Reachable, Aborted
<1> QED
    BY <1>2, <1>4

\* What is left of the hits of an account.
LEMMA RecentHits ==
    ASSUME HitsShaped, NEW u \in Users
    PROVE  Recent(u) \in Seq(Nat) /\ Len(Recent(u)) <= Len(hits[u])
<1> DEFINE s == hits[u]
           old == {i \in DOMAIN s : \A j \in 1 .. i : now - s[j] >= RateWindow}
           n == Cardinality(old)
<1>1. s \in Seq(Nat) /\ Len(s) \in Nat /\ DOMAIN s = 1 .. Len(s)
    BY DEF HitsShaped
<1>2. Recent(u) = SubSeq(s, n + 1, Len(s))
    BY DEF Recent
<1> HIDE DEF s
<1>3. old \in SUBSET (1 .. Len(s))
    BY <1>1
<1> HIDE DEF old
<1>4. IsFiniteSet(old)
    <2>1. IsFiniteSet(1 .. Len(s))
        BY <1>1, FS_Interval
    <2> QED
        BY <1>3, <2>1, FS_Subset
<1>5. n \in Nat
    BY <1>4, FS_CardinalityType
<1> HIDE DEF n
<1>6. n + 1 \in Int /\ Len(s) \in Int /\ \A i \in n + 1 .. Len(s) : s[i] \in Nat
    BY <1>1, <1>5
<1>7. /\ SubSeq(s, n + 1, Len(s)) \in Seq(Nat)
      /\ Len(SubSeq(s, n + 1, Len(s))) = IF n + 1 <= Len(s) THEN Len(s) - (n + 1) + 1 ELSE 0
    BY <1>6, SubSeqProperties
<1>8. Len(SubSeq(s, n + 1, Len(s))) <= Len(s)
    BY <1>1, <1>5, <1>7
<1> QED
    BY <1>2, <1>7, <1>8 DEF s

LEMMA HitsRecorded ==
    ASSUME HitsShaped, now \in Nat, NEW f \in Families, RateLimited(f) \/ Admitted(f)
    PROVE  HitsShaped'
<1> DEFINE u == Owner[f]
           recent == Recent(u)
<1>1. u \in Users
    BY DEF Users
<1>2. /\ recent \in Seq(Nat) /\ Len(recent) <= Len(hits[u]) /\ Len(hits[u]) \in Nat
      /\ Len(hits[u]) <= RateLimit /\ Len(recent) \in Nat /\ RateLimit \in Nat
    BY <1>1, RecentHits, SearchAssumption DEF HitsShaped
<1>3. CASE RateLimited(f)
    <2>1. hits' = [hits EXCEPT ![u] = recent] /\ Len(recent) <= RateLimit
        BY <1>2, <1>3 DEF RateLimited
    <2> HIDE DEF recent
    <2> QED
        BY <1>1, <1>2, <2>1 DEF HitsShaped
<1>4. CASE Admitted(f)
    <2> DEFINE more == Append(recent, now)
    <2>1. hits' = [hits EXCEPT ![u] = more] /\ Len(recent) < RateLimit
        BY <1>4 DEF Admitted
    <2> HIDE DEF recent
    <2>2. more \in Seq(Nat) /\ Len(more) = Len(recent) + 1
        BY <1>2, AppendProperties
    <2> HIDE DEF more
    <2>3. Len(more) <= RateLimit
        BY <1>2, <2>1, <2>2
    <2> QED
        BY <1>1, <2>1, <2>2, <2>3 DEF HitsShaped
<1> QED
    BY <1>3, <1>4

\* A sweep that lets go of searches, with or without more of them, and
\* touches the one that is read.
LEMMA SweepAnswers ==
    ASSUME AnswersInv, UNCHANGED <<now, counter>>, held' \subseteq HeldAfterReap,
           \A id \in DOMAIN job' : job'[id] \in Job,
           \A id \in held' : job'[id] \in {job[id], [job[id] EXCEPT !.touched = now]},
           DOMAIN expired' \subseteq DOMAIN ExpiredAfterReap,
           \A x \in DOMAIN expired' : expired'[x] = ExpiredAfterReap[x],
           RecordsShaped', HitsShaped'
    PROVE  AnswersKept
<1>1. /\ now' = now /\ counter' = counter /\ counter \in Nat /\ held \subseteq 1 .. counter
    BY SweepFinds
<1>2. \A id \in held' : id \in HeldAfterReap /\ id \in held /\ id \in DOMAIN job /\ job[id] \in Job
    BY DEF HeldAfterReap, AnswersInv, SearchInv, JobsNumbered, ObjectsShaped
<1>3. ASSUME NEW id \in held'
      PROVE  /\ job'[id].touched \in {job[id].touched, now}
             /\ job'[id].state = job[id].state
             /\ job'[id].cancel = job[id].cancel /\ job'[id].task = job[id].task
    BY <1>2, <1>3 DEF Job
<1>4. ExpiredShaped' /\ NoneRevived
    <2>1. \A id \in held' : id \in 1 .. counter =>
             id \in HeldAfterReap /\ job'[id].touched \in {job[id].touched, now}
        BY <1>2, <1>3
    <2>2. held' \subseteq 1 .. counter' /\ counter' \in Nat /\ counter <= counter'
        BY <1>1, <1>2
    <2> QED
        BY <1>1, <2>1, <2>2, Sweeping
<1>5. ObjectsShaped'
    BY <1>1, <1>2, <1>3 DEF AnswersInv, ObjectsShaped
<1>6. StatesAdvance
    BY <1>3 DEF StatesAdvance, HeldAfterReap
<1> QED
    BY <1>4, <1>5, <1>6 DEF AnswersKept

\* A step that sweeps nothing, of which one task's search is the subject.
LEMMA StandingAnswers ==
    ASSUME AnswersInv, now' \in 0 .. MaxNow, now <= now', UNCHANGED <<counter, held, expired>>,
           \A id \in DOMAIN job' : job'[id] \in Job,
           \A id \in held :
              /\ job'[id].touched = job[id].touched
              /\ ~ job'[id].cancel
              /\ job'[id].task # "over" => job'[id].state \in {"queued", "running"}
              /\ job'[id].state = job[id].state \/ Stage(job'[id].state) > Stage(job[id].state),
           RecordsShaped', HitsShaped'
    PROVE  AnswersKept
<1>1. ExpiredShaped' /\ NoneRevived
    BY Standing
<1>2. ObjectsShaped'
    BY DEF AnswersInv, ObjectsShaped
<1>3. StatesAdvance
    BY DEF StatesAdvance, HeldAfterReap
<1> QED
    BY <1>1, <1>2, <1>3 DEF AnswersKept

LEMMA RecordsPurged ==
    ASSUME RecordsShaped, records' \in {records, Purged}
    PROVE  RecordsShaped'
BY DEF RecordsShaped, Purged

-----------------------------------------------------------------------------
LEMMA RefusedAnswers ==
    ASSUME AnswersInv, NEW f \in Families, NEW k, RateLimited(f) \/ NotCreated(f, k)
    PROVE  AnswersKept
<1>1. /\ UNCHANGED <<now, counter, job, held, expired>> /\ records' \in {records, Purged}
      /\ RateLimited(f) \/ Admitted(f)
    BY DEF RateLimited, NotCreated, Admitted, LookedUp
<1>2. /\ now \in Nat /\ now \in 0 .. MaxNow
      /\ HitsShaped /\ RecordsShaped /\ ObjectsShaped
    BY SweepFinds DEF AnswersInv, ObjectsShaped
<1>3. RecordsShaped' /\ HitsShaped'
    BY <1>1, <1>2, RecordsPurged, HitsRecorded
<1> QED
    BY <1>1, <1>2, <1>3, StandingAnswers DEF ObjectsShaped

LEMMA TooManyAnswers ==
    ASSUME AnswersInv, NEW f \in Families, NEW k, TooMany(f, k)
    PROVE  AnswersKept
<1>1. /\ UNCHANGED <<now, counter>> /\ records' \in {records, Purged} /\ Admitted(f)
      /\ job' = JobsAfterReap /\ held' = HeldAfterReap /\ expired' = ExpiredAfterReap
    BY DEF TooMany, Admitted, LookedUp
<1>2. now \in Nat /\ HitsShaped /\ RecordsShaped
    BY SweepFinds DEF AnswersInv
<1>3. RecordsShaped' /\ HitsShaped'
    BY <1>1, <1>2, RecordsPurged, HitsRecorded
<1>4. \A id \in held' : job'[id] \in {job[id], [job[id] EXCEPT !.touched = now]}
    BY <1>1, SweptObjects
<1>5. \A id \in DOMAIN job' : job'[id] \in Job
    BY <1>1, SweptObjects
<1> QED
    BY <1>1, <1>3, <1>4, <1>5, SweepAnswers

LEMMA ReapAnswers ==
    ASSUME AnswersInv, Reap
    PROVE  AnswersKept
<1>1. /\ UNCHANGED <<now, counter, records, hits>>
      /\ job' = JobsAfterReap /\ held' = HeldAfterReap /\ expired' = ExpiredAfterReap
    BY DEF Reap
<1>2. RecordsShaped' /\ HitsShaped'
    BY <1>1 DEF AnswersInv, RecordsShaped, HitsShaped
<1>3. \A id \in held' : job'[id] \in {job[id], [job[id] EXCEPT !.touched = now]}
    BY <1>1, SweptObjects
<1>4. \A id \in DOMAIN job' : job'[id] \in Job
    BY <1>1, SweptObjects
<1> QED
    BY <1>1, <1>2, <1>3, <1>4, SweepAnswers

LEMMA GetAnswers ==
    ASSUME AnswersInv, NEW id, Get(id)
    PROVE  AnswersKept
<1> DEFINE left == JobsAfterReap
<1>1. /\ UNCHANGED <<now, counter, records, hits>> /\ id \in HeldAfterReap
      /\ job' = [left EXCEPT ![id].touched = now]
      /\ held' = HeldAfterReap /\ expired' = ExpiredAfterReap
    BY DEF Get
<1>2. RecordsShaped' /\ HitsShaped' /\ now \in Nat
    BY <1>1, SweepFinds DEF AnswersInv, RecordsShaped, HitsShaped
<1>3. /\ \A i \in DOMAIN left : left[i] \in Job
      /\ \A i \in HeldAfterReap : i \in DOMAIN left /\ left[i] = job[i]
    BY SweptObjects
<1> HIDE DEF left
<1>4. /\ DOMAIN job' = DOMAIN left /\ job'[id] = [job[id] EXCEPT !.touched = now]
      /\ \A i \in DOMAIN left : i # id => job'[i] = left[i]
    BY <1>1, <1>3
<1>5. \A i \in held' : job'[i] \in {job[i], [job[i] EXCEPT !.touched = now]}
    BY <1>1, <1>3, <1>4
<1>6. job'[id] \in Job
    BY <1>1, <1>2, <1>3, <1>4 DEF Job
<1>7. \A i \in DOMAIN job' : job'[i] \in Job
    BY <1>3, <1>4, <1>6
<1> QED
    BY <1>1, <1>2, <1>5, <1>7, SweepAnswers

LEMMA CancelAnswers ==
    ASSUME AnswersInv, NEW id, Cancel(id)
    PROVE  AnswersKept
<1> DEFINE left == JobsAfterReap
<1>1. /\ UNCHANGED <<now, counter, records, hits>>
      /\ job' = Reachable(Aborted(left, {id}), held')
      /\ held' = HeldAfterReap \ {id}
      /\ expired' = Restrict(ExpiredAfterReap, DOMAIN ExpiredAfterReap \ {id})
    BY DEF Cancel
<1>2. RecordsShaped' /\ HitsShaped'
    BY <1>1 DEF AnswersInv, RecordsShaped, HitsShaped
<1>3. /\ \A i \in DOMAIN left : left[i] \in Job
      /\ \A i \in HeldAfterReap : i \in DOMAIN left /\ left[i] = job[i]
    BY SweptObjects
<1> HIDE DEF left
<1>4. \A i \in held' : job'[i] \in {job[i], [job[i] EXCEPT !.touched = now]}
    BY <1>1, <1>3 DEF Reachable, Aborted
<1>5. \A i \in DOMAIN job' : job'[i] \in Job
    BY <1>1, <1>3, AbortedShaped
<1>6. /\ DOMAIN expired' \subseteq DOMAIN ExpiredAfterReap
      /\ \A x \in DOMAIN expired' : expired'[x] = ExpiredAfterReap[x]
    BY <1>1 DEF Restrict
<1> QED
    BY <1>1, <1>2, <1>4, <1>5, <1>6, SweepAnswers

LEMMA ResetAnswers ==
    ASSUME AnswersInv, Reset
    PROVE  AnswersKept
<1>1. /\ UNCHANGED <<now, counter>> /\ DOMAIN records' = {} /\ hits' = [u \in Users |-> <<>>]
      /\ job' = Reachable(Aborted(job, held), {}) /\ held' = {} /\ DOMAIN expired' = {}
    BY DEF Reset
<1>2. RecordsShaped'
    BY <1>1 DEF RecordsShaped
<1>3. HitsShaped'
    <2>1. <<>> \in Seq(Nat) /\ Len(<<>>) = 0 /\ RateLimit \in Nat
        BY EmptySeq, SearchAssumption
    <2> QED
        BY <1>1, <2>1 DEF HitsShaped
<1>4. \A i \in DOMAIN job' : job'[i] \in Job
    BY <1>1, AbortedShaped DEF AnswersInv, ObjectsShaped
<1> QED
    BY <1>1, <1>2, <1>3, <1>4, SweepAnswers

LEMMA TickAnswers ==
    ASSUME AnswersInv, Tick
    PROVE  AnswersKept
<1>1. /\ now' = now + 1 /\ now < MaxNow /\ now \in Nat /\ MaxNow \in Nat
      /\ UNCHANGED <<counter, job, held, expired, records, hits>>
    BY SweepFinds, SearchAssumption DEF Tick
<1>2. now' \in 0 .. MaxNow /\ now <= now'
    BY <1>1
<1>3. RecordsShaped' /\ HitsShaped' /\ ObjectsShaped
    BY <1>1 DEF AnswersInv, RecordsShaped, HitsShaped
<1> QED
    BY <1>1, <1>2, <1>3, StandingAnswers DEF ObjectsShaped

LEMMA StutterAnswers ==
    ASSUME AnswersInv, UNCHANGED searchVars
    PROVE  AnswersKept
<1>1. UNCHANGED <<now, counter, job, held, expired, records, hits>>
    BY DEF searchVars
<1>2. now' \in 0 .. MaxNow /\ now <= now'
    BY <1>1, SweepFinds DEF AnswersInv, ObjectsShaped
<1>3. RecordsShaped' /\ HitsShaped' /\ ObjectsShaped
    BY <1>1 DEF AnswersInv, RecordsShaped, HitsShaped
<1> QED
    BY <1>1, <1>2, <1>3, StandingAnswers DEF ObjectsShaped

\* A search is created, after a sweep.
LEMMA CreatedAnswers ==
    ASSUME AnswersInv, NEW f \in Families, NEW k \in Keys \cup {NoKey}, NEW b \in Bodies,
           NEW fails \in BOOLEAN, Created(f, k, b, fails)
    PROVE  AnswersKept
<1> DEFINE id == counter + 1
           new == [family |-> f, key |-> k, created |-> now, touched |-> now, state |-> "queued",
                   scanned |-> 0, fails |-> fails, task |-> "new", cancel |-> FALSE]
           left == JobsAfterReap
           x == <<f, k>>
           record == [body |-> b, job |-> id, created |-> now]
<1>1. /\ counter' = id /\ now' = now /\ counter < MaxJobs /\ held' = HeldAfterReap \cup {id}
      /\ job' = [i \in DOMAIN left \cup {id} |-> IF i # id THEN left[i] ELSE new]
      /\ records' = IF k = NoKey THEN records
                    ELSE [y \in DOMAIN Purged \cup {x} |-> IF y = x THEN record ELSE Purged[y]]
      /\ expired' = ExpiredAfterReap /\ Admitted(f)
    BY DEF Created, Admitted
<1>2. /\ now \in Nat /\ counter \in Nat /\ held \subseteq 1 .. counter /\ HeldAfterReap \subseteq held
      /\ MaxJobs \in Nat
    BY SweepFinds, SearchAssumption DEF HeldAfterReap
<1>3. id \in JobId /\ id \in Nat /\ id \notin 1 .. counter /\ counter <= id
      /\ id \in 0 .. MaxJobs /\ 1 .. counter \subseteq 1 .. id /\ id \in 1 .. id
    BY <1>1, <1>2 DEF JobId
<1>4. new \in Job
    <2>1. 0 \in 0 .. Total
        BY SearchAssumption
    <2> QED
        BY <1>2, <2>1 DEF Job
<1>5. new.touched = now /\ new.state = "queued" /\ ~ new.cancel
    OBVIOUS
<1>6. record \in Record
    BY <1>2, <1>3 DEF Record
<1>7. /\ \A i \in DOMAIN left : left[i] \in Job
      /\ \A i \in HeldAfterReap : i \in DOMAIN left /\ left[i] = job[i]
    BY SweptObjects
<1>8. HitsShaped'
    BY <1>1, <1>2, HitsRecorded DEF AnswersInv
<1> HIDE DEF new, record, left, id
<1>9. RecordsShaped'
    <2>1. CASE k = NoKey
        BY <1>1, <2>1 DEF AnswersInv, RecordsShaped
    <2>2. CASE k # NoKey
        <3>1. x \in Families \X Keys
            BY <2>2
        <3>2. records' = [y \in DOMAIN Purged \cup {x} |-> IF y = x THEN record ELSE Purged[y]]
            BY <1>1, <2>2
        <3>3. /\ DOMAIN Purged \subseteq Families \X Keys
              /\ \A y \in DOMAIN Purged : Purged[y] \in Record
            BY DEF Purged, AnswersInv, RecordsShaped
        <3> HIDE DEF x
        <3> QED
            BY <1>6, <3>1, <3>2, <3>3 DEF RecordsShaped
    <2> QED
        BY <2>1, <2>2
<1> HIDE DEF x
<1>10. /\ DOMAIN job' = DOMAIN left \cup {id} /\ job'[id] = new
       /\ \A i \in DOMAIN left : i # id => job'[i] = left[i]
    BY <1>1
<1>11. \A i \in HeldAfterReap : i \in 1 .. counter /\ i # id /\ job'[i] = job[i]
    BY <1>2, <1>3, <1>7, <1>10
<1>12. ExpiredShaped' /\ NoneRevived
    <2>1. \A i \in held' : i \in 1 .. counter =>
             i \in HeldAfterReap /\ job'[i].touched \in {job[i].touched, now}
        BY <1>1, <1>3, <1>11
    <2>2. held' \subseteq 1 .. counter' /\ counter' \in Nat /\ counter <= counter'
        BY <1>1, <1>3, <1>11
    <2>3. /\ DOMAIN expired' \subseteq DOMAIN ExpiredAfterReap
          /\ \A y \in DOMAIN expired' : expired'[y] = ExpiredAfterReap[y]
        BY <1>1
    <2> QED
        BY <1>1, <2>1, <2>2, <2>3, Sweeping
<1>13. ObjectsShaped'
    <2>1. \A i \in DOMAIN job' : job'[i] \in Job
        BY <1>4, <1>7, <1>10
    <2>2. \A i \in held' : /\ ~ job'[i].cancel
                           /\ job'[i].task # "over" => job'[i].state \in {"queued", "running"}
        <3>1. \A i \in HeldAfterReap :
                 /\ ~ job[i].cancel
                 /\ job[i].task # "over" => job[i].state \in {"queued", "running"}
            BY <1>2 DEF AnswersInv, ObjectsShaped
        <3> QED
            BY <1>1, <1>5, <1>10, <1>11, <3>1
    <2>3. now' \in 0 .. MaxNow /\ counter' \in 0 .. MaxJobs
        BY <1>1, <1>3 DEF AnswersInv, ObjectsShaped
    <2> QED
        BY <2>1, <2>2, <2>3 DEF ObjectsShaped
<1>14. StatesAdvance
    BY <1>11 DEF StatesAdvance
<1> QED
    BY <1>8, <1>9, <1>12, <1>13, <1>14 DEF AnswersKept

LEMMA CreateAnswers ==
    ASSUME AnswersInv, NEW f \in Families, NEW k \in Keys \cup {NoKey}, NEW b \in Bodies,
           Create(f, k, b)
    PROVE  AnswersKept
BY RefusedAnswers, TooManyAnswers, CreatedAnswers DEF Create

\* A scan goes on to its next stop, or fails.
LEMMA ScannedShaped ==
    ASSUME NEW x \in Job, x.state = "running", NEW late \in BOOLEAN, NEW y, y = Scanned(x, late)
    PROVE  /\ y \in Job /\ y.touched = x.touched /\ y.cancel = x.cancel
           /\ (y.state = "failed" /\ y.task = "over") \/ y.state = "running"
<1>1. CASE x.scanned = Total
    BY <1>1 DEF Scanned, Job
<1>2. CASE x.scanned # Total
    <2> DEFINE n == NextStop(x.scanned, x.fails)
               z == [x EXCEPT !.scanned = n]
    <2>1. /\ x.scanned \in 0 .. Total /\ x.fails \in BOOLEAN /\ Total \in Nat
        BY SearchAssumption DEF Job
    <2>2. x.scanned \in 0 .. Total - 1
        BY <1>2, <2>1
    <2>3. n \in x.scanned + 1 .. Total
        BY <2>1, <2>2, StopsLater
    <2>4. n \in 0 .. Total
        BY <2>1, <2>3
    <2>5. y = IF (x.fails /\ FailsAt(n)) \/ (late /\ n % Chunk = 0)
              THEN [z EXCEPT !.state = "failed", !.task = "over"]
              ELSE [z EXCEPT !.task = IF n % Chunk = 0 THEN "inside" ELSE "after"]
        BY <1>2 DEF Scanned
    <2> HIDE DEF n
    <2>6. z \in Job /\ z.touched = x.touched /\ z.cancel = x.cancel /\ z.state = "running"
        BY <2>4 DEF Job
    <2>7. \/ y = [z EXCEPT !.state = "failed", !.task = "over"]
          \/ y = [z EXCEPT !.task = "inside"]
          \/ y = [z EXCEPT !.task = "after"]
        BY <2>5
    <2> HIDE DEF z
    <2> QED
        BY <2>6, <2>7 DEF Job, Finished
<1> QED
    BY <1>1, <1>2

\* The task of a search runs: a search still held goes from queued to
\* running, or from there to a final state once.
LEMMA TaskAnswers ==
    ASSUME AnswersInv, NEW id, NEW late \in BOOLEAN, RunTask(id, late)
    PROVE  AnswersKept
<1> DEFINE x == job[id]
           running == [x EXCEPT !.state = "running"]
           after == IF x.cancel THEN [x EXCEPT !.task = "over", !.cancel = FALSE,
                                               !.state = "cancelled"]
                    ELSE IF x.task = "after" THEN [x EXCEPT !.task = "over", !.state = "done"]
                    ELSE Scanned(running, late)
           all == [job EXCEPT ![id] = after]
<1>1. /\ id \in DOMAIN job /\ job' = Reachable(all, held) /\ x.task # "over"
      /\ UNCHANGED <<now, counter, held, expired, records, hits>>
    BY DEF RunTask
<1>2. x \in Job /\ \A i \in DOMAIN job : job[i] \in Job
    BY <1>1 DEF AnswersInv, ObjectsShaped
<1>3. id \in held => ~ x.cancel /\ x.state \in {"queued", "running"}
    BY <1>1 DEF AnswersInv, ObjectsShaped
<1> HIDE DEF x
<1>4. /\ after \in Job
      /\ ~ x.cancel =>
            /\ after.touched = x.touched /\ ~ after.cancel
            /\ after.state \in {"running", "failed", "done"}
            /\ after.state = "running" \/ after.task = "over"
    <2>1. running \in Job /\ running.state = "running" /\ running.touched = x.touched
          /\ running.cancel = x.cancel
        BY <1>2 DEF Job
    <2> HIDE DEF running
    <2>2. CASE x.cancel
        BY <1>2, <2>2 DEF Job, Finished
    <2>3. CASE ~ x.cancel /\ x.task = "after"
        BY <1>2, <2>3 DEF Job, Finished
    <2>4. CASE ~ x.cancel /\ x.task # "after"
        <3>1. after = Scanned(running, late)
            BY <2>4
        <3> HIDE DEF after
        <3>2. /\ after \in Job /\ after.touched = running.touched /\ after.cancel = running.cancel
              /\ (after.state = "failed" /\ after.task = "over") \/ after.state = "running"
            BY <2>1, <3>1, ScannedShaped
        <3> QED
            BY <2>1, <2>4, <3>2
    <2> QED
        BY <2>2, <2>3, <2>4
<1> HIDE DEF after, running
<1>5. /\ DOMAIN all = DOMAIN job /\ all[id] = after
      /\ \A i \in DOMAIN job \ {id} : all[i] = job[i]
    BY <1>1
<1> HIDE DEF all
<1>6. /\ \A i \in DOMAIN job' : i \in DOMAIN job /\ job'[i] = all[i]
      /\ \A i \in held : i \in DOMAIN job /\ i \in DOMAIN job'
    BY <1>1, <1>5 DEF Reachable, AnswersInv, SearchInv, JobsNumbered
<1>7. \A i \in DOMAIN job' : job'[i] \in Job
    BY <1>2, <1>4, <1>5, <1>6
<1>8. ASSUME NEW i \in held
      PROVE  /\ job'[i].touched = job[i].touched
             /\ ~ job'[i].cancel
             /\ job'[i].task # "over" => job'[i].state \in {"queued", "running"}
             /\ job'[i].state = job[i].state \/ Stage(job'[i].state) > Stage(job[i].state)
    <2>1. CASE i = id
        <3>1. job'[i] = after /\ job[i] = x
            BY <1>5, <1>6, <2>1 DEF x
        <3>2. /\ after.touched = x.touched /\ ~ after.cancel
              /\ after.state \in {"running", "failed", "done"}
              /\ after.state = "running" \/ after.task = "over"
              /\ x.state \in {"queued", "running"}
            BY <1>3, <1>4, <2>1
        <3>3. after.state = x.state \/ Stage(after.state) > Stage(x.state)
            BY <3>2 DEF Stage, Finished
        <3> QED
            BY <3>1, <3>2, <3>3
    <2>2. CASE i # id
        <3>1. job'[i] = job[i]
            BY <1>5, <1>6, <2>2
        <3> QED
            BY <3>1 DEF AnswersInv, ObjectsShaped
    <2> QED
        BY <2>1, <2>2
<1>9. RecordsShaped' /\ HitsShaped'
    BY <1>1 DEF AnswersInv, RecordsShaped, HitsShaped
<1>10. now' \in 0 .. MaxNow /\ now <= now'
    BY <1>1, SweepFinds DEF AnswersInv, ObjectsShaped
<1> QED
    BY <1>1, <1>7, <1>8, <1>9, <1>10, StandingAnswers

-----------------------------------------------------------------------------
LEMMA AnswersInitially == SearchInit => AnswersInv
<1> SUFFICES ASSUME SearchInit PROVE AnswersInv
    OBVIOUS
<1>1. /\ now = 0 /\ counter = 0 /\ DOMAIN job = {} /\ held = {} /\ DOMAIN expired = {}
      /\ DOMAIN records = {} /\ hits = [u \in Users |-> <<>>]
    BY DEF SearchInit
<1>2. SearchInv
    BY SearchInitially
<1>3. ObjectsShaped /\ RecordsShaped
    BY <1>1, SearchAssumption DEF ObjectsShaped, RecordsShaped
<1>4. ExpiredShaped
    <2>1. Cardinality(DOMAIN expired) = 0 /\ 0 <= MaxExpired
        BY <1>1, FS_EmptySet, SearchAssumption
    <2> QED
        BY <1>1, <2>1 DEF ExpiredShaped
<1>5. HitsShaped
    <2>1. <<>> \in Seq(Nat) /\ Len(<<>>) = 0 /\ RateLimit \in Nat
        BY EmptySeq, SearchAssumption
    <2> QED
        BY <1>1, <2>1 DEF HitsShaped
<1> QED
    BY <1>2, <1>3, <1>4, <1>5 DEF AnswersInv

LEMMA AnswersStep == AnswersInv /\ [SearchNext]_searchVars => AnswersInv' /\ AnswersKept
<1> SUFFICES ASSUME AnswersInv, [SearchNext]_searchVars PROVE AnswersInv' /\ AnswersKept
    OBVIOUS
<1>1. SearchInv'
    BY SearchStepKeeps DEF AnswersInv
<1>2. AnswersKept
    <2>1. CASE \E f \in Families, k \in Keys \cup {NoKey}, b \in Bodies : Create(f, k, b)
        BY <2>1, CreateAnswers
    <2>2. CASE \E id \in held : Get(id) \/ Cancel(id)
        BY <2>2, GetAnswers, CancelAnswers
    <2>3. CASE \E id \in DOMAIN job, late \in BOOLEAN : RunTask(id, late)
        BY <2>3, TaskAnswers
    <2>4. CASE Reap
        BY <2>4, ReapAnswers
    <2>5. CASE Reset
        BY <2>5, ResetAnswers
    <2>6. CASE Tick
        BY <2>6, TickAnswers
    <2>7. CASE UNCHANGED searchVars
        BY <2>7, StutterAnswers
    <2> QED
        BY <2>1, <2>2, <2>3, <2>4, <2>5, <2>6, <2>7 DEF SearchNext
<1> QED
    BY <1>1, <1>2 DEF AnswersInv, AnswersKept

LEMMA AnswersInvariant == SearchSpec => []AnswersInv
<1>1. AnswersInv /\ [SearchNext]_searchVars => AnswersInv'
    BY AnswersStep
<1> QED
    BY AnswersInitially, <1>1, PTL DEF SearchSpec

\* The objects, the dicts and the windows of the service keep their shapes:
\* _jobs and _expired share no search, no more than MAX_REMEMBERED_EXPIRED are
\* remembered, and no account is admitted more often than the limiter allows.
THEOREM SearchTyped == SearchSpec => []SearchTypeOK
<1>1. AnswersInv => SearchTypeOK
    <2> SUFFICES ASSUME AnswersInv PROVE SearchTypeOK
        OBVIOUS
    <2>1. held \subseteq DOMAIN job /\ DOMAIN job \subseteq 1 .. counter
        BY DEF AnswersInv, SearchInv, JobsNumbered
    <2>2. /\ now \in 0 .. MaxNow /\ counter \in 0 .. MaxJobs
          /\ \A id \in DOMAIN job : job[id] \in Job
        BY DEF AnswersInv, ObjectsShaped
    <2>3. /\ DOMAIN expired \subseteq (1 .. counter) \ held
          /\ Cardinality(DOMAIN expired) <= MaxExpired
          /\ \A id \in DOMAIN expired : expired[id] \in 0 .. now
        BY DEF AnswersInv, ExpiredShaped
    <2>4. /\ DOMAIN records \subseteq Families \X Keys
          /\ \A x \in DOMAIN records : records[x] \in Record
          /\ \A u \in Users : Len(hits[u]) <= RateLimit
        BY DEF AnswersInv, RecordsShaped, HitsShaped
    <2> QED
        BY <2>1, <2>2, <2>3, <2>4 DEF SearchTypeOK
<1> QED
    BY <1>1, AnswersInvariant, PTL

\* What GET /searches/{id} answers its owner only advances: queued, running,
\* one final state, 410 once it was let go of, 404 once that is forgotten.
THEOREM AnswersAdvance == SearchSpec => AnswersOnlyAdvance
<1> DEFINE Advance ==
               \A id \in 1 .. counter : Told(id)' = Told(id) \/ Stage(Told(id)') > Stage(Told(id))
           Apart == \A id \in HeldAfterReap : id \notin DOMAIN ExpiredAfterReap
<1>0. AnswersInv => Apart
    BY SweepFinds, SweepRemembers
<1>1. AnswersInv /\ Apart /\ Apart' /\ [SearchNext]_searchVars => Advance
    <2> SUFFICES ASSUME AnswersInv, Apart, Apart', [SearchNext]_searchVars, NEW id \in 1 .. counter
                 PROVE  Told(id)' = Told(id) \/ Stage(Told(id)') > Stage(Told(id))
        OBVIOUS
    <2>1. /\ id \in HeldAfterReap' => id \in HeldAfterReap
          /\ id \in DOMAIN ExpiredAfterReap' =>
               id \in HeldAfterReap \/ id \in DOMAIN ExpiredAfterReap
          /\ id \in HeldAfterReap /\ id \in HeldAfterReap' =>
               job'[id].state = job[id].state \/ Stage(job'[id].state) > Stage(job[id].state)
        BY AnswersStep DEF AnswersKept, NoneRevived, StatesAdvance
    <2>2. id \in HeldAfterReap => job[id].state \in Finished \cup {"queued", "running"}
        <3>1. id \in HeldAfterReap => id \in DOMAIN job
            BY DEF HeldAfterReap, AnswersInv, SearchInv, JobsNumbered
        <3> QED
            BY <3>1 DEF AnswersInv, ObjectsShaped, Job
    <2>3. /\ id \in HeldAfterReap => Told(id) = job[id].state
          /\ id \notin HeldAfterReap /\ id \in DOMAIN ExpiredAfterReap => Told(id) = "expired"
          /\ id \notin HeldAfterReap /\ id \notin DOMAIN ExpiredAfterReap => Told(id) = "unknown"
        BY DEF Told
    <2>4. /\ id \in HeldAfterReap' => Told(id)' = job'[id].state
          /\ id \notin HeldAfterReap' /\ id \in DOMAIN ExpiredAfterReap' => Told(id)' = "expired"
          /\ id \notin HeldAfterReap' /\ id \notin DOMAIN ExpiredAfterReap' => Told(id)' = "unknown"
        BY DEF Told
    <2>5. /\ Stage("expired") = 4 /\ Stage("unknown") = 5
          /\ \A s \in Finished \cup {"queued", "running"} : Stage(s) \in 1 .. 3
        BY DEF Stage, Finished
    <2> QED
        BY <2>1, <2>2, <2>3, <2>4, <2>5
<1>2. AnswersOnlyAdvance <=> [][Advance]_searchVars
    BY DEF AnswersOnlyAdvance
<1> QED
    BY <1>0, <1>1, <1>2, AnswersInvariant, PTL DEF SearchSpec
=============================================================================
