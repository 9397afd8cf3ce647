------------------------------ MODULE AuditLog ------------------------------
(***************************************************************************)
(* services/audit-log: a chain of entries, each with the hash of the one   *)
(* before it, in PostgreSQL with a copy in MinIO.  An append reads the     *)
(* last hash, stores the copy, inserts the row and commits; appends run in *)
(* as many threads as there are calls, with nothing locked between their   *)
(* steps.  A watchdog verifies the chain over and over and appends what it *)
(* finds to the same chain.  Damage to entries and its repair come from    *)
(* outside.  The hash of an entry is the number of the attempt that wrote  *)
(* it: no two attempts share timestamp, payload and predecessor.  A hash   *)
(* that somebody wrote over it is a number below 0, one for each row.      *)
(***************************************************************************)
EXTENDS Integers, FiniteSets, FiniteSetsExt

CONSTANTS
    Services,       \* the threads that answer /append
    Watchdog,       \* the thread of _verify_watchdog_loop
    MaxAppends,     \* bound of the model: calls of /append
    MaxDamage,      \* bound of the model: entries damaged or appended inexact
    MaxRestarts     \* bound of the model: restarts of the service

ASSUME BoundAssumption == MaxAppends \in Nat /\ MaxDamage \in Nat /\ MaxRestarts \in Nat

ASSUME WriterAssumption == IsFiniteSet(Services) /\ Watchdog \notin Services

Writers == Services \cup {Watchdog}

VARIABLES
    pc,         \* the step of _append_internal each writer is at
    draft,      \* the entry it writes: its event, hash and prev
    rowId,      \* the id its inserted row got from the sequence
    rows,       \* audit_log_chain: the committed rows, by id
    nextId,     \* the sequence of audit_log_chain.id
    copies,     \* the hashes of the entries stored in MinIO
    stamp,      \* the attempts to append so far
    altered,    \* rows that do not have the hash of what they hold
    forged,     \* rows whose entry_hash is not the one they were appended with
    shadowed,   \* rows whose copy is gone or no longer the newest version
    known,      \* _known_broken_ids
    snapshot,   \* what the tick read from PostgreSQL
    findings,   \* what the tick still has to append
    appends,    \* calls of /append so far
    damages,    \* entries damaged or appended inexact so far
    restarts,   \* restarts so far
    touched,    \* history: rows that were ever damaged
    falsified,  \* history: rows that were ever forged
    contended,  \* history: hashes of entries that were in flight together
    dropped,    \* history: rows whose finding was lost by a failed append
    forgotten   \* history: rows that a restart made the watchdog forget

log == <<rows, nextId, copies, stamp>>
append == <<pc, draft, rowId>>
tick == <<known, snapshot, findings>>
defects == <<altered, forged, shadowed, touched, falsified>>
damage == <<defects, damages>>
loss == <<dropped, forgotten>>
vars == <<append, log, tick, damage, appends, restarts, contended, loss>>

NoRows == [rows |-> <<>>, altered |-> {}, forged |-> {}]

\* An "inexact" event has a payload that jsonb does not return as it was hashed,
\* as 1e16 comes back as the integer.
EventKinds == {"event", "inexact"}

Kinds == EventKinds \cup {"detected", "resolved"}

Event == [kind : Kinds, of : Nat]

Entry == [event : Event, hash : Nat, prev : Int]

TypeOK ==
    /\ pc \in [Writers -> {"idle", "read", "stored", "inserted"}]
    /\ draft \in [Writers -> Entry]
    /\ rowId \in [Writers -> Nat]
    /\ DOMAIN rows \subseteq 1..(nextId - 1)
    /\ \A i \in DOMAIN rows : rows[i] \in Entry
    /\ nextId \in Nat \ {0}
    /\ copies \subseteq 1..stamp
    /\ stamp \in Nat
    /\ known \cup altered \cup forged \cup shadowed \cup touched \cup falsified
         \cup dropped \cup forgotten \subseteq DOMAIN rows
    /\ DOMAIN snapshot.rows \cup snapshot.altered \cup snapshot.forged \subseteq DOMAIN rows
    /\ findings \subseteq Event
    /\ contended \subseteq 1..stamp
    /\ appends \in 0..MaxAppends
    /\ damages \in 0..MaxDamage
    /\ restarts \in 0..MaxRestarts

Appended(kind) == [kind |-> kind, of |-> 0]

Blank == [event |-> Appended("event"), hash |-> 0, prev |-> 0]

Init ==
    /\ pc = [w \in Writers |-> "idle"]
    /\ draft = [w \in Writers |-> Blank]
    /\ rowId = [w \in Writers |-> 0]
    /\ rows = <<>>
    /\ nextId = 1
    /\ copies = {}
    /\ stamp = 0
    /\ altered = {}
    /\ forged = {}
    /\ shadowed = {}
    /\ known = {}
    /\ snapshot = NoRows
    /\ findings = {}
    /\ appends = 0
    /\ damages = 0
    /\ restarts = 0
    /\ touched = {}
    /\ falsified = {}
    /\ contended = {}
    /\ dropped = {}
    /\ forgotten = {}

-----------------------------------------------------------------------------
(* The rows *)

\* SELECT ... ORDER BY id ASC.
Stored == [rows |-> rows, altered |-> altered, forged |-> forged]

\* The row in front of row i in the order of the ids, 0 if there is none.
Before(s, i) ==
    LET before == {j \in DOMAIN s.rows : j < i}
    IN IF before = {} THEN 0 ELSE Max(before)

\* entry_hash of row i; 0 is the hash in front of the first.
StoredHash(s, i) ==
    IF i = 0 THEN 0 ELSE IF i \in s.forged THEN -i ELSE s.rows[i].hash

-----------------------------------------------------------------------------
(* _append_internal *)

Writing(w) == pc[w] # "idle"

\* The last committed row.
LastRow == IF DOMAIN rows = {} THEN 0 ELSE Max(DOMAIN rows)

\* SELECT entry_hash ... ORDER BY id DESC LIMIT 1.
LastHash == StoredHash(Stored, LastRow)

\* The entry is put together from the event and the last hash.
Read(w, event) ==
    LET others == {v \in Writers : Writing(v)}
    IN /\ ~Writing(w)
       /\ pc' = [pc EXCEPT ![w] = "read"]
       /\ stamp' = stamp + 1
       /\ draft' = [draft EXCEPT ![w] = [event |-> event, hash |-> stamp', prev |-> LastHash]]
       /\ contended' = IF others = {} THEN contended
                       ELSE contended \cup {draft[v].hash : v \in others} \cup {stamp'}
       /\ UNCHANGED <<rowId, rows, nextId, copies, restarts, loss>>

\* MinIO first.
StoreCopy(w) ==
    /\ pc[w] = "read"
    /\ pc' = [pc EXCEPT ![w] = "stored"]
    /\ copies' = copies \cup {draft[w].hash}
    /\ UNCHANGED <<draft, rowId, rows, nextId, stamp, tick, damage, appends, restarts,
                   contended, loss>>

InsertRow(w, step) ==
    /\ pc[w] = step
    /\ pc' = [pc EXCEPT ![w] = "inserted"]
    /\ rowId' = [rowId EXCEPT ![w] = nextId]
    /\ nextId' = nextId + 1
    /\ UNCHANGED <<draft, rows, copies, stamp, tick, damage, appends, restarts,
                   contended, loss>>

\* Deviation: the row is inserted without a copy.
InsertUncopied(w) == InsertRow(w, "read")

Insert(w) == InsertRow(w, "stored")

Commit(w) ==
    /\ pc[w] = "inserted"
    /\ pc' = [pc EXCEPT ![w] = "idle"]
    /\ rows' = [i \in DOMAIN rows \cup {rowId[w]} |->
                   IF i = rowId[w] THEN draft[w] ELSE rows[i]]
    /\ draft' = [draft EXCEPT ![w] = Blank]
    /\ rowId' = [rowId EXCEPT ![w] = 0]
    /\ UNCHANGED <<nextId, copies, stamp, tick, damage, appends, restarts,
                   contended, loss>>

Step(w) == StoreCopy(w) \/ Insert(w) \/ Commit(w)

\* Deviation: the id goes back to the sequence with the rollback.
AbortReturningId(w) ==
    /\ Writing(w)
    /\ pc' = [pc EXCEPT ![w] = "idle"]
    /\ draft' = [draft EXCEPT ![w] = Blank]
    /\ rowId' = [rowId EXCEPT ![w] = 0]
    /\ nextId' = IF pc[w] = "inserted" THEN nextId - 1 ELSE nextId
    /\ UNCHANGED <<rows, copies, stamp, damage, appends, restarts, contended>>

\* A statement or the put raises; the row is rolled back, the copy stays and
\* the id is gone.
Abort(w) ==
    /\ Writing(w)
    /\ pc' = [pc EXCEPT ![w] = "idle"]
    /\ draft' = [draft EXCEPT ![w] = Blank]
    /\ rowId' = [rowId EXCEPT ![w] = 0]
    /\ UNCHANGED <<log, damage, appends, restarts, contended>>

-----------------------------------------------------------------------------
(* /append *)

AppendEvent(s) ==
    /\ appends < MaxAppends
    /\ appends' = appends + 1
    /\ \/ /\ Read(s, Appended("event"))
          /\ UNCHANGED damages
       \/ /\ damages < MaxDamage
          /\ Read(s, Appended("inexact"))
          /\ damages' = damages + 1
    /\ UNCHANGED <<tick, defects>>

AppendFails(s) == Abort(s) /\ UNCHANGED <<tick, loss>>

-----------------------------------------------------------------------------
(* _compute_breaks and _watchdog_tick *)

\* Deviation: the hash to expect is not advanced past an altered row.
ExpectedPrevIntact(s, i) ==
    LET before == {j \in DOMAIN s.rows \ s.altered : j < i}
    IN IF before = {} THEN 0 ELSE StoredHash(s, Max(before))

\* The hash of the row before row i, in the order of the ids.
ExpectedPrev(s, i) == StoredHash(s, Before(s, i))

\* The rows of s that do not verify, with the copies as they are now.  The
\* payload is hashed again as jsonb returns it.
Breaks(s) ==
    {i \in DOMAIN s.rows :
        \/ i \in s.altered
        \/ s.rows[i].event.kind = "inexact"
        \/ s.rows[i].prev # ExpectedPrev(s, i)
        \/ s.rows[i].hash \notin copies
        \/ i \in shadowed}

Ticking == snapshot # NoRows \/ findings # {} \/ Writing(Watchdog)

\* A tick begins: the rows are read, then the connection is closed.
Query ==
    /\ ~Ticking
    /\ snapshot' = Stored
    /\ UNCHANGED <<append, log, known, findings, damage, appends, restarts, contended, loss>>

\* One finding for each id.
Finding(kind, ids) == {[kind |-> kind, of |-> i] : i \in ids}

\* Deviation: the breaks of this tick are added to those of the last.
RememberAll(current) == known' = known \cup current

\* The set becomes what is broken now, before anything is appended.
Remember(current) == known' = current

\* The copies are compared; new breaks and recoveries become findings.
Compare ==
    LET current == Breaks(snapshot)
    IN /\ snapshot # NoRows
       /\ Remember(current)
       /\ findings' = Finding("detected", current \ known) \cup Finding("resolved", known \ current)
       /\ snapshot' = NoRows
       /\ UNCHANGED <<append, log, damage, appends, restarts, contended, loss>>

\* Breaks come first, in the order of their ids; recoveries in that of a set.
Upcoming(f) ==
    \A g \in findings : g.kind = "detected" => f.kind = "detected" /\ f.of <= g.of

\* A finding is crossed off when its append begins.
AppendFinding ==
    /\ \E f \in findings :
          /\ Upcoming(f)
          /\ Read(Watchdog, f)
          /\ findings' = findings \ {f}
    /\ UNCHANGED <<known, snapshot, damage, appends>>

\* Rows the watchdog has still to report on.
Unwritten ==
    {f.of : f \in findings}
        \cup (IF Writing(Watchdog) THEN {draft[Watchdog].event.of} ELSE {})

\* An append of the tick raises: the rest of the tick is skipped.
FindingFails ==
    /\ Abort(Watchdog)
    /\ findings' = {}
    /\ dropped' = dropped \cup Unwritten
    /\ UNCHANGED <<known, snapshot, forgotten>>

\* Deviation: what is broken is remembered although the tick ends.
CompareFailsKnowing ==
    /\ snapshot # NoRows
    /\ Remember(Breaks(snapshot))
    /\ snapshot' = NoRows
    /\ UNCHANGED <<append, log, findings, damage, appends, restarts, contended, loss>>

\* PostgreSQL or MinIO cannot be read: the tick ends before it changed anything.
CompareFails ==
    /\ snapshot # NoRows
    /\ snapshot' = NoRows
    /\ UNCHANGED <<append, log, known, findings, damage, appends, restarts, contended, loss>>

-----------------------------------------------------------------------------
(* What happens to the entries and to the service *)

\* A column is changed, or the copy is, or the entry_hash: with the payload and
\* the copy, so that the entry verifies by itself, or without them.
Damage(i) ==
    /\ damages < MaxDamage
    /\ damages' = damages + 1
    /\ touched' = touched \cup {i}
    /\ \/ /\ i \notin altered
          /\ altered' = altered \cup {i}
          /\ UNCHANGED <<forged, shadowed, falsified>>
       \/ /\ i \notin shadowed
          /\ shadowed' = shadowed \cup {i}
          /\ UNCHANGED <<altered, forged, falsified>>
       \/ /\ i \notin forged
          /\ forged' = forged \cup {i}
          /\ falsified' = falsified \cup {i}
          /\ altered' \in {altered, altered \cup {i}}
          /\ UNCHANGED shadowed
    /\ UNCHANGED <<append, log, tick, appends, restarts, contended, loss>>

\* The row or the copy is put back as it was.
Repair(i) ==
    /\ \/ /\ i \in altered \cup forged
          /\ altered' = altered \ {i}
          /\ forged' = forged \ {i}
          /\ UNCHANGED shadowed
       \/ /\ i \in shadowed
          /\ shadowed' = shadowed \ {i}
          /\ UNCHANGED <<altered, forged>>
    /\ UNCHANGED <<append, log, tick, damages, touched, falsified, appends, restarts,
                   contended, loss>>

\* Appends in flight are rolled back, what is known broken is lost.
Restart ==
    /\ restarts < MaxRestarts
    /\ restarts' = restarts + 1
    /\ pc' = [w \in Writers |-> "idle"]
    /\ draft' = [w \in Writers |-> Blank]
    /\ rowId' = [w \in Writers |-> 0]
    /\ known' = {}
    /\ snapshot' = NoRows
    /\ findings' = {}
    /\ dropped' = {}
    /\ forgotten' = forgotten \cup known \cup Unwritten \cup dropped
    /\ UNCHANGED <<log, damage, appends, contended>>

Next ==
    \/ \E s \in Services : AppendEvent(s) \/ AppendFails(s)
    \/ \E w \in Writers : Step(w)
    \/ Query
    \/ Compare
    \/ CompareFails
    \/ AppendFinding
    \/ FindingFails
    \/ \E i \in DOMAIN rows : Damage(i) \/ Repair(i)
    \/ Restart

Spec == Init /\ [][Next]_vars

\* The loop goes on for ever, its statements end, and the databases it reads
\* are not down for ever.
FairSpec ==
    /\ Spec
    /\ WF_vars(Query)
    /\ SF_vars(Compare)
    /\ WF_vars(AppendFinding)
    /\ WF_vars(Step(Watchdog))

-----------------------------------------------------------------------------
(* Properties *)

Broken == Breaks(Stored)

Verdicts(i) == {j \in DOMAIN rows : rows[j].event.kind \notin EventKinds /\ rows[j].event.of = i}

\* A row in PostgreSQL has its copy in MinIO, wherever appends fail ("MinIO
\* first: if this fails, we haven't committed a Postgres row claiming a WORM
\* copy exists when it doesn't").
RowHasCopy == \A i \in DOMAIN rows : rows[i].hash \in copies

\* There is a reason to take row i for broken.
Excused ==
    {i \in DOMAIN rows :
        \/ i \in touched
        \/ rows[i].hash \in contended
        \/ rows[i].event.kind = "inexact"
        \/ Before(Stored, i) \in falsified}

\* What the watchdog takes for broken, reports or has reported was damaged, was
\* appended while another append was in flight, has a payload that jsonb does
\* not return as it was hashed, or comes right after a row whose entry_hash was
\* changed: failed appends, gaps in the ids, and rows in front that are broken
\* in any other way raise no alarm.
NoFalseAlarm ==
    Broken \cup known \cup Unwritten \cup {j \in DOMAIN rows : Verdicts(j) # {}}
        \subseteq Excused

\* An entry that nobody damaged verifies: the reasons of _compute_breaks read
\* "modified after the fact" and "inserted, deleted, or reordered".
UntouchedVerifies == Broken \subseteq touched

(***************************************************************************)
(* Only the transition into and out of a broken state gets its own entry:  *)
(* unless a finding on a row was lost, or forgotten with a restart, its    *)
(* findings are a detection, a resolution, a detection and so on, and the  *)
(* last one is what the watchdog knows of it.                              *)
(***************************************************************************)
FindingsAlternate ==
    \A i \in DOMAIN rows \ (dropped \cup forgotten) :
        /\ \A j \in Verdicts(i) :
              rows[j].event.kind = "detected"
                <=> Cardinality({k \in Verdicts(i) : k < j}) % 2 = 0
        /\ i \notin Unwritten => (i \in known <=> Cardinality(Verdicts(i)) % 2 = 1)

Recorded(i) == \E j \in Verdicts(i) : rows[j].event.kind = "detected"

\* An entry that stays broken gets its finding, after a restart again, unless
\* the append of the finding failed.
BreakRecorded == []<>(\A i \in Broken \ dropped : Recorded(i))

(***************************************************************************)
(* The inductive invariant behind RowHasCopy and NoFalseAlarm.  Two        *)
(* writers in flight are both contended; one that is not has the last hash *)
(* and, once inserted, the highest id; a row that gets in front of         *)
(* another's is contended, and so is the other.  The rows of a snapshot    *)
(* are linked as they were when it was taken.  All of this is said of the  *)
(* hashes rows were appended with, and where these were never changed.     *)
(***************************************************************************)
DraftsOK ==
    /\ \A w \in Writers : Writing(w) => draft[w].hash \in 1..stamp
    /\ \A w \in Writers : pc[w] = "inserted" => rowId[w] \in 1..(nextId - 1) \ DOMAIN rows
    /\ \A v, w \in Writers :
          v # w /\ pc[v] = "inserted" /\ pc[w] = "inserted" => rowId[v] # rowId[w]
    /\ \A w \in Writers : pc[w] \in {"stored", "inserted"} => draft[w].hash \in copies

WritersMet ==
    \A v, w \in Writers :
        v # w /\ Writing(v) /\ Writing(w) => draft[v].hash \in contended

\* The hash row i was appended with.
AppendedHash(s, i) == IF i = 0 THEN 0 ELSE s.rows[i].hash

LoneWriterIsLast ==
    \A w \in Writers : Writing(w) =>
        \/ draft[w].hash \in contended
        \/ /\ LastRow \in falsified \/ draft[w].prev = AppendedHash(Stored, LastRow)
           /\ pc[w] = "inserted" => \A i \in DOMAIN rows : i < rowId[w]

OvertakenIsContended ==
    \A w \in Writers : pc[w] = "inserted" =>
        \A i \in DOMAIN rows : i > rowId[w] => rows[i].hash \in contended

Linked(s) ==
    \A i \in DOMAIN s.rows :
        \/ s.rows[i].hash \in contended
        \/ Before(s, i) \in falsified
        \/ s.rows[i].prev = AppendedHash(s, Before(s, i))

\* A row that was committed in front of a row of s later: the latter is contended.
LaterInFront(s) ==
    \A i \in DOMAIN s.rows, j \in DOMAIN rows \ DOMAIN s.rows :
        j > i \/ s.rows[i].hash \in contended

SnapshotOK ==
    /\ LaterInFront(snapshot)
    /\ DOMAIN snapshot.rows \subseteq DOMAIN rows
    /\ \A i \in DOMAIN snapshot.rows : snapshot.rows[i] = rows[i]
    /\ snapshot.altered \cup altered \cup shadowed \subseteq touched
    /\ snapshot.forged \cup forged \subseteq falsified

FindingsExcused ==
    /\ known \cup {f.of : f \in findings} \subseteq Excused
    /\ Writing(Watchdog) => draft[Watchdog].event.of \in Excused
    /\ \A s \in Services : Writing(s) => draft[s].event.kind \in EventKinds
    /\ \A j \in DOMAIN rows : rows[j].event.kind \in EventKinds \/ rows[j].event.of \in Excused

AuditInv ==
    /\ TypeOK
    /\ DraftsOK
    /\ WritersMet
    /\ LoneWriterIsLast
    /\ OvertakenIsContended
    /\ Linked(Stored)
    /\ Linked(snapshot)
    /\ SnapshotOK
    /\ FindingsExcused
    /\ RowHasCopy

(***************************************************************************)
(* The one behind FindingsAlternate: a finding on its way agrees with what *)
(* the watchdog knows and is the next one of its row, is alone for its row *)
(* and, once inserted, is the newest; nothing is compared meanwhile.       *)
(***************************************************************************)
OnTheWay == findings \cup (IF Writing(Watchdog) THEN {draft[Watchdog].event} ELSE {})

FindingsDue ==
    \A f \in OnTheWay :
        /\ f.kind \notin EventKinds
        /\ f.kind = "detected" <=> f.of \in known
        /\ f.of \notin dropped \cup forgotten =>
              (f.kind = "detected" <=> Cardinality(Verdicts(f.of)) % 2 = 0)

OneFindingPerRow ==
    Writing(Watchdog) => \A f \in findings : f.of # draft[Watchdog].event.of

NewestFinding ==
    pc[Watchdog] = "inserted" =>
        \A j \in DOMAIN rows : rows[j].event.kind \notin EventKinds => j < rowId[Watchdog]

ComparedAlone == snapshot # NoRows => findings = {} /\ ~Writing(Watchdog)

FindingsInv ==
    /\ FindingsAlternate
    /\ FindingsDue
    /\ OneFindingPerRow
    /\ NewestFinding
    /\ ComparedAlone
=============================================================================
