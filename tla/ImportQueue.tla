----------------------------- MODULE ImportQueue -----------------------------
(***************************************************************************)
(* Imports of capture files: workspace/imports.py (ImportStore) with the   *)
(* route of api/imports.py and its idempotency records.  Accepted files    *)
(* wait in a queue that a poll task walks; one that is indexed becomes a   *)
(* sensor of the world.  The upload itself awaits, but nothing read before *)
(* it is used afterwards except the family of the caller.                  *)
(***************************************************************************)
EXTENDS World

CONSTANTS
    Files,       \* captures: [sha, size, stamped, first, last, duration]
    ImportKeys,  \* <<family, Idempotency-Key>> pairs in use
    NoImportKey, \* a request without the header
    KeyTtl,      \* TTL_S of an idempotency record
    HourBefore,  \* the start of the default window before the epoch
    Percents,    \* what progress calls 100, in the unit of the model
    LastIndex,   \* MAX_SENSOR_INDEX: what fits in a session id
    MaxImports   \* bound: imports between two resets

ASSUME ImportsAssumption ==
    /\ {HourBefore, MaxImports, LastIndex} \subseteq Nat /\ {KeyTtl, Percents} \subseteq Nat \ {0}
    /\ \A f \in Files : f.duration \in Nat \ {0} /\ f.size \in Nat /\ f.first \in Int /\ f.last \in Int

VARIABLES
    queue,      \* _records in order of creation: ImportRecord
    importKeys, \* IdempotencyStore._records of the scope "imports"
    polling     \* whether the poll task is alive

queueVars == <<queue, importKeys, polling>>
importVars == <<worldVars, queueVars>>

-----------------------------------------------------------------------------
\* create(): the times of the capture or the default window; the sensor
\* promised is the next number after those of the records there are.
Record(f) ==
    LET first == IF f.stamped THEN f.first ELSE Epoch - HourBefore
        last == IF f.stamped THEN f.last ELSE Epoch
        promised == FirstImport + Len(queue)
    IN [sha |-> f.sha, size |-> f.size, duration |-> f.duration,
        first |-> IF last < first THEN last ELSE first,
        last |-> IF last < first THEN first ELSE last,
        promised |-> promised, sensor |-> promised,
        created |-> clock, started |-> -1, state |-> "received", indexed |-> 0]

\* _finish(): the import becomes a sensor; its sessions are counted in the
\* window of the capture, unclamped, and from the start of the data on.
Finished(r, sensor) ==
    LET rows == Synthesised(sensor, ClampedFirst(r.first, r.last),
                            ClampedLast(r.first, r.last), r.size)
        counted == {x \in rows : x.start >= DataStart /\ x.start \in r.first .. r.last}
    IN [r EXCEPT !.state = "ready", !.sensor = sensor, !.indexed = Cardinality(counted)]

\* One turn of tick(), on the record at i, given what the turns before it made
\* of queue and imports.  It ends the walk unless the record is ready or has
\* become so.  A sensor index that does not fit in a session id raises.
Turn(w, i) ==
    LET r == w.queue[i]
        start == IF r.started = -1 THEN r.created ELSE r.started
        elapsed == clock - start
        begun == [r EXCEPT !.started = start, !.state = "indexing"]
        expected == IF r.size > MaxSessions THEN MaxSessions ELSE IF r.size < 1 THEN 1 ELSE r.size
        Put(x) == [w.queue EXCEPT ![i] = x]
    IN CASE r.state = "ready" -> w
         [] r.state # "ready" /\ elapsed < r.duration ->
              [w EXCEPT !.stop = TRUE,
                        !.queue = Put([begun EXCEPT !.indexed = (expected * elapsed) \div r.duration])]
         [] r.state # "ready" /\ elapsed >= r.duration /\ NextSensor(w.imports) > LastIndex ->
              [w EXCEPT !.stop = TRUE, !.raised = TRUE, !.queue = Put(begun)]
         [] OTHER ->
              [w EXCEPT !.imports = WithImport(w.imports, i, r.first, r.last, r.size),
                        !.queue = Put(Finished(begun, NextSensor(w.imports)))]

Unwalked == [queue |-> queue, imports |-> imports, stop |-> FALSE, raised |-> FALSE]

\* Mutant of Walked: the walk goes on behind a record that is not done.
WalkedOn ==
    LET walk[i \in 0 .. Len(queue)] == IF i = 0 THEN Unwalked ELSE Turn(walk[i - 1], i)
    IN walk[Len(queue)]

\* tick(): the records in order, up to the first that is not done.
Walked ==
    LET walk[i \in 0 .. Len(queue)] ==
            IF i = 0 THEN Unwalked
            ELSE IF walk[i - 1].stop THEN walk[i - 1] ELSE Turn(walk[i - 1], i)
    IN walk[Len(queue)]

\* progress(): 100 only when ready.
Progress(r) ==
    LET share == ((clock - r.started) * Percents) \div r.duration
    IN CASE r.state = "ready" -> Percents
         [] r.state = "received" -> 0
         [] OTHER -> IF share < Percents THEN share ELSE Percents - 1

LiveKeys == {k \in DOMAIN importKeys : clock - importKeys[k].created < KeyTtl}
Seen(f) == {i \in 1 .. Len(queue) : queue[i].sha = f.sha}

-----------------------------------------------------------------------------
QueueInit ==
    /\ WorldInit
    /\ queue = <<>>
    /\ importKeys = [k \in {} |-> 0]
    /\ polling = TRUE

\* What tick() leaves behind, whoever calls it.
Tick ==
    /\ queue' = Walked.queue
    /\ imports' = Walked.imports
    /\ UNCHANGED <<clock, ledger>>

\* The poll task; an exception ends it.
PollImports ==
    /\ polling
    /\ Tick
    /\ polling' = ~Walked.raised
    /\ UNCHANGED importKeys

\* GET /imports/{id}, and the replay of a creation: imports.get() ticks too,
\* and an exception there is the caller's.
Look == Tick /\ UNCHANGED <<importKeys, polling>>

\* POST /imports, from the end of the upload on: a replay, a duplicate of a
\* file that is on record, indexed or not, or a new record.
Upload(f, key) ==
    IF key \in LiveKeys
    THEN /\ IF importKeys[key].sha = f.sha THEN Tick ELSE UNCHANGED <<worldVars, queue>>
         /\ importKeys' = [k \in LiveKeys |-> importKeys[k]]
         /\ UNCHANGED polling
    ELSE /\ IF Seen(f) # {}
            THEN /\ importKeys' = IF key = NoImportKey THEN importKeys
                                  ELSE [k \in LiveKeys |-> importKeys[k]]
                 /\ UNCHANGED queue
            ELSE /\ Len(queue) < MaxImports
                 /\ queue' = Append(queue, Record(f))
                 /\ importKeys' =
                      IF key = NoImportKey THEN importKeys
                      ELSE [k \in LiveKeys \cup {key} |->
                              IF k = key THEN [sha |-> f.sha, value |-> Len(queue) + 1,
                                               created |-> clock]
                              ELSE importKeys[k]]
         /\ UNCHANGED <<worldVars, polling>>

\* POST /__admin/reset: clear_imports() and the stores; the ledger and the
\* clock go on.
ResetImports ==
    /\ queue' = <<>>
    /\ imports' = NoImports
    /\ importKeys' = [k \in {} |-> 0]
    /\ UNCHANGED <<clock, ledger, polling>>

Wait ==
    /\ clock < MaxTime
    /\ clock' = clock + 1
    /\ UNCHANGED <<imports, ledger, queueVars>>

QueueNext ==
    \/ PollImports
    \/ Look
    \/ \E f \in Files, key \in ImportKeys \cup {NoImportKey} : Upload(f, key)
    \/ ResetImports
    \/ AskLedger /\ UNCHANGED queueVars
    \/ Wait

QueueSpec == QueueInit /\ [][QueueNext]_importVars

-----------------------------------------------------------------------------
\* Types; one record per content, and 100 percent exactly when it is ready.
QueueTypeOK ==
    /\ \A i \in 1 .. Len(queue) :
         /\ queue[i].state \in {"received", "indexing", "ready"}
         /\ queue[i].first <= queue[i].last
         /\ Progress(queue[i]) \in 0 .. Percents
         /\ Progress(queue[i]) = Percents <=> queue[i].state = "ready"
         /\ queue[i].state = "ready" <=> i \in DOMAIN imports
    /\ \A i, j \in 1 .. Len(queue) : queue[i].sha = queue[j].sha => i = j
    /\ \A k \in LiveKeys : importKeys[k].value \in 1 .. Len(queue)

\* The sensor named in the 202 and in the answers to duplicates is the one
\* the import becomes: files that take longer to index do not let later ones
\* take their number, whoever ticks and whenever.
PromisedSensor ==
    \A i \in 1 .. Len(queue) :
        /\ queue[i].sensor = queue[i].promised
        /\ i \in DOMAIN imports => imports[i].sensor = queue[i].promised
=============================================================================
