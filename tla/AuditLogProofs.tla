--------------------------- MODULE AuditLogProofs ---------------------------
(***************************************************************************)
(* What TLAPS proves of AuditLog, for any number of service threads, of    *)
(* appends, of damaged entries and of restarts.                            *)
(***************************************************************************)
EXTENDS AuditLog, FiniteSetTheorems, WellFoundedInduction, TLAPS

-----------------------------------------------------------------------------
(* The newest row, and the row before another *)

\* A set of ids that is not empty has a largest one, which Max returns: of the
\* sets of the ids above some id of S, one has no other below it.
LEMMA MaxOf ==
    ASSUME NEW n \in Nat, NEW S \in SUBSET (1..n), S # {}
    PROVE  /\ Max(S) \in S
           /\ \A y \in S : y <= Max(S)
<1> DEFINE Above(x) == {y \in S : y > x}
           Tops == {Above(x) : x \in S}
<1>1. IsFiniteSet(S)
  <2>1. IsFiniteSet(1..n)
    BY FS_Interval
  <2> QED
    BY <2>1, FS_Subset
<1>2. Tops \subseteq FiniteSubsetsOf(S) /\ Tops # {}
  <2>1. FiniteSubsetsOf(S) = SUBSET S
    BY <1>1, FS_FiniteSubsetsOfFinite
  <2>2. Tops \subseteq SUBSET S
    OBVIOUS
  <2>3. Tops # {}
    <3>1. PICK x \in S : TRUE
      OBVIOUS
    <3>2. Above(x) \in Tops
      OBVIOUS
    <3> QED
      BY <3>2
  <2> QED
    BY <2>1, <2>2, <2>3
<1>3. \E T \in Tops : \A U \in Tops : ~(<<U, T>> \in StrictSubsetOrdering(S))
  <2> HIDE DEF Tops
  <2> QED
    BY <1>2, FS_StrictSubsetOrderingWellFounded, WFMin
<1>4. PICK x \in S : \A y \in S : <<Above(y), Above(x)>> \notin StrictSubsetOrdering(S)
  BY <1>3
<1>5. \A y \in S : x >= y
  <2> SUFFICES ASSUME NEW y \in S, y > x PROVE FALSE
    OBVIOUS
  <2>1. Above(y) \subseteq Above(x) /\ Above(y) # Above(x)
    <3>1. y \in Above(x) /\ y \notin Above(y)
      OBVIOUS
    <3>2. \A z \in S : z > y => z > x
      OBVIOUS
    <3>3. Above(y) \subseteq Above(x)
      BY <3>2
    <3> HIDE DEF Above
    <3> QED
      BY <3>1, <3>3
  <2>2. Above(y) \in SUBSET S /\ Above(x) \in SUBSET S
    OBVIOUS
  <2> HIDE DEF Above
  <2>3. <<Above(y), Above(x)>> \in StrictSubsetOrdering(S)
    BY <2>1, <2>2 DEF StrictSubsetOrdering
  <2> QED
    BY <1>4, <2>3
<1> QED
  BY <1>5 DEF Max

\* The row that precedes row i is 0 or one of those with a lower id.
LEMMA BeforeOf ==
    ASSUME TypeOK, NEW i
    PROVE  Before(Stored, i) \in {0} \cup {j \in DOMAIN rows : j < i}
<1> DEFINE before == {j \in DOMAIN rows : j < i}
<1>1. before \in SUBSET (1..(nextId - 1)) /\ nextId - 1 \in Nat
  BY DEF TypeOK
<1>2. Before(Stored, i) = IF before = {} THEN 0 ELSE Max(before)
  BY DEF Before, Stored
<1> HIDE DEF before
<1>3. before # {} => Max(before) \in before
  BY <1>1, MaxOf
<1> QED
  BY <1>2, <1>3 DEF before

\* The last row is 0 or one of the rows.
LEMMA LastRowType == TypeOK => LastRow \in {0} \cup DOMAIN rows
<1> SUFFICES ASSUME TypeOK PROVE LastRow \in {0} \cup DOMAIN rows
  OBVIOUS
<1>1. DOMAIN rows \in SUBSET (1..(nextId - 1)) /\ nextId - 1 \in Nat
  BY DEF TypeOK
<1> QED
  BY <1>1, MaxOf DEF LastRow

\* The hash an append continues is a number; where the last row was never forged,
\* it is the hash that row was appended with.
LEMMA LastHashIs ==
    ASSUME AuditInv
    PROVE  /\ LastHash \in Int
           /\ LastRow \in falsified \/ LastHash = AppendedHash(Stored, LastRow)
<1>1. TypeOK /\ forged \subseteq falsified
  BY DEF AuditInv, SnapshotOK
<1>2. LastRow \in {0} \cup DOMAIN rows
  BY <1>1, LastRowType
<1>3. \A i \in DOMAIN rows : i \in Nat /\ rows[i].hash \in Nat
  BY <1>1 DEF TypeOK, Entry
<1>4. LastHash = IF LastRow = 0 THEN 0 ELSE IF LastRow \in forged THEN -LastRow
                                                               ELSE rows[LastRow].hash
  BY DEF LastHash, StoredHash, Stored
<1>5. AppendedHash(Stored, LastRow) = IF LastRow = 0 THEN 0 ELSE rows[LastRow].hash
  BY DEF AppendedHash, Stored
<1> QED
  BY <1>1, <1>2, <1>3, <1>4, <1>5

\* Where no other row gets in front of row i, the row in front of it stays.
LEMMA BeforeStays ==
    ASSUME NEW s, NEW t, NEW i \in Nat, DOMAIN s.rows \subseteq DOMAIN t.rows,
           DOMAIN t.rows \subseteq Nat, \A j \in DOMAIN t.rows \ DOMAIN s.rows : j > i
    PROVE  Before(s, i) = Before(t, i)
<1>1. {j \in DOMAIN s.rows : j < i} = {j \in DOMAIN t.rows : j < i}
  OBVIOUS
<1> QED
  BY <1>1 DEF Before

-----------------------------------------------------------------------------
(* What the steps that add no row keep *)

\* As long as no row is added, the rows stay linked.
LEMMA LinkedKept ==
    ASSUME Linked(Stored), rows' = rows, contended \subseteq contended',
           falsified \subseteq falsified'
    PROVE  Linked(Stored)'
BY DEF Linked, Stored, Before, AppendedHash

\* A snapshot that is kept, dropped or taken anew is linked.
LEMMA SnapshotKept ==
    ASSUME Linked(snapshot), Linked(Stored), contended \subseteq contended',
           falsified \subseteq falsified', snapshot' \in {snapshot, NoRows, Stored}
    PROVE  Linked(snapshot)'
<1>1. CASE snapshot' = snapshot
  BY <1>1 DEF Linked, Before, AppendedHash
<1>2. CASE snapshot' = NoRows
  BY <1>2 DEF Linked, NoRows
<1>3. CASE snapshot' = Stored
  BY <1>3 DEF Linked, Before, AppendedHash
<1> QED
  BY <1>1, <1>2, <1>3

-----------------------------------------------------------------------------
(* The steps of a writer *)

LEMMA BlankType == Blank \in Entry
BY DEF Blank, Appended, Entry, Event, Kinds, EventKinds

\* The log is empty and nobody writes.
LEMMA InitInv == Init => AuditInv
<1> SUFFICES ASSUME Init PROVE AuditInv
  OBVIOUS
<1>1. DOMAIN rows = {}
  BY DEF Init
<1>2. snapshot.rows = <<>> /\ snapshot.altered = {} /\ snapshot.forged = {}
  BY DEF Init, NoRows
<1>3. DOMAIN snapshot.rows = {}
  BY <1>2
<1>4. Blank \in Entry
  BY BlankType
<1>5. TypeOK
  BY <1>1, <1>2, <1>3, <1>4, BoundAssumption DEF Init, TypeOK
<1>6. Linked(Stored) /\ Linked(snapshot)
  BY <1>1, <1>3 DEF Linked, Stored
<1>7. SnapshotOK
  BY <1>2, <1>3 DEF Init, SnapshotOK, LaterInFront
<1>8. FindingsExcused
  BY <1>1 DEF Init, FindingsExcused, Writing, Writers
<1> QED
  BY <1>1, <1>5, <1>6, <1>7, <1>8 DEF Init, AuditInv, DraftsOK, WritersMet, LoneWriterIsLast,
     OvertakenIsContended, RowHasCopy, Writing

\* What the invariant says of the chain and the writers, apart from the types
\* and the findings.
Chain ==
    /\ DraftsOK
    /\ WritersMet
    /\ LoneWriterIsLast
    /\ OvertakenIsContended
    /\ Linked(Stored)
    /\ RowHasCopy

\* An append begins: whoever is in flight already becomes contended with it.
LEMMA ReadChain ==
    ASSUME AuditInv, NEW w \in Writers, NEW event \in Event, Read(w, event), UNCHANGED defects
    PROVE  /\ Chain'
           /\ draft' \in [Writers -> Entry]
           /\ contended \subseteq contended' /\ contended' \subseteq 1..stamp'
           /\ copies' \subseteq 1..stamp'
<1> USE DEF AuditInv, Read, defects
<1>a. stamp \in Nat /\ stamp' = stamp + 1
  BY DEF TypeOK
<1>b. 1..stamp \subseteq 1..stamp' /\ stamp' \in 1..stamp'
  BY <1>a
<1>c. /\ draft' = [draft EXCEPT ![w] = [event |-> event, hash |-> stamp', prev |-> LastHash]]
      /\ draft \in [Writers -> Entry]
  BY DEF TypeOK
<1>d. /\ draft'[w].hash = stamp' /\ draft'[w].prev = LastHash
      /\ \A v \in Writers \ {w} : draft'[v] = draft[v]
  BY <1>c
<1>e. pc \in [Writers -> {"idle", "read", "stored", "inserted"}]
  BY DEF TypeOK
<1>f. pc'[w] = "read" /\ \A v \in Writers \ {w} : pc'[v] = pc[v]
  BY <1>e
<1>g. \A v \in Writers \ {w} : Writing(v) => draft[v].hash \in contended' /\ stamp' \in contended'
  OBVIOUS
<1>h. contended \subseteq contended' /\ contended' \subseteq 1..stamp'
  <2>1. contended \subseteq 1..stamp /\ \A v \in Writers : Writing(v) => draft[v].hash \in 1..stamp
    BY DEF DraftsOK, TypeOK
  <2>2. \A x \in contended' : x \in contended \/ x = stamp'
                               \/ \E v \in Writers : Writing(v) /\ x = draft[v].hash
    OBVIOUS
  <2> HIDE DEF Read, AuditInv
  <2>3. contended' \subseteq 1..stamp'
    BY <1>b, <2>1, <2>2
  <2>4. contended \subseteq contended'
    BY DEF Read
  <2> QED
    BY <2>3, <2>4
<1>i. rows' = rows /\ rowId' = rowId /\ nextId' = nextId /\ copies' = copies
  OBVIOUS
<1>j. LastRow' = LastRow /\ falsified' = falsified
      /\ AppendedHash(Stored, LastRow)' = AppendedHash(Stored, LastRow)
  BY <1>i DEF LastRow, AppendedHash, Stored
<1> HIDE DEF Read
<1>1. DraftsOK'
  BY <1>b, <1>d, <1>f, <1>i DEF DraftsOK, Writing
<1>2. WritersMet'
  BY <1>d, <1>f, <1>g, <1>h DEF WritersMet, Writing
<1>3. LoneWriterIsLast'
  BY <1>d, <1>f, <1>h, <1>i, <1>j, LastHashIs DEF LoneWriterIsLast, Writing
<1>4. OvertakenIsContended'
  BY <1>f, <1>h, <1>i DEF OvertakenIsContended
<1>5. Linked(Stored)'
  BY <1>h, <1>i, <1>j, LinkedKept
<1>6. RowHasCopy'
  BY <1>i DEF RowHasCopy
<1>7. draft' \in [Writers -> Entry]
  BY <1>a, <1>c, LastHashIs DEF Entry
<1>8. copies' \subseteq 1..stamp'
  BY <1>b, <1>i DEF TypeOK
<1> QED
  BY <1>1, <1>2, <1>3, <1>4, <1>5, <1>6, <1>7, <1>8, <1>h DEF Chain

\* A copy is stored: the log is as it was.
LEMMA StoreCopyChain ==
    ASSUME AuditInv, NEW w \in Writers, StoreCopy(w)
    PROVE  Chain' /\ copies' \subseteq 1..stamp'
<1> USE DEF AuditInv, StoreCopy
<1>a. /\ pc'[w] = "stored" /\ pc[w] = "read" /\ \A v \in Writers \ {w} : pc'[v] = pc[v]
      /\ copies' = copies \cup {draft[w].hash}
      /\ UNCHANGED <<draft, rowId, rows, nextId, stamp, contended, falsified>>
  BY DEF TypeOK, damage, defects
<1>b. draft[w].hash \in 1..stamp
  BY DEF DraftsOK, Writing
<1> HIDE DEF StoreCopy
<1>1. DraftsOK'
  BY <1>a DEF DraftsOK, Writing
<1>2. WritersMet'
  BY <1>a DEF WritersMet, Writing
<1>3. LoneWriterIsLast'
  BY <1>a DEF LoneWriterIsLast, Writing, LastRow, AppendedHash, Stored
<1>4. OvertakenIsContended'
  BY <1>a DEF OvertakenIsContended
<1>5. Linked(Stored)'
  BY <1>a, LinkedKept
<1>6. RowHasCopy'
  BY <1>a DEF RowHasCopy
<1>7. copies' \subseteq 1..stamp'
  BY <1>a, <1>b DEF TypeOK
<1> QED
  BY <1>1, <1>2, <1>3, <1>4, <1>5, <1>6, <1>7 DEF Chain

\* The id a row gets is above all ids so far.
LEMMA InsertChain ==
    ASSUME AuditInv, NEW w \in Writers, Insert(w)
    PROVE  Chain'
<1> USE DEF AuditInv, Insert, InsertRow
<1>a. /\ pc'[w] = "inserted" /\ pc[w] = "stored" /\ \A v \in Writers \ {w} : pc'[v] = pc[v]
      /\ rowId'[w] = nextId /\ \A v \in Writers \ {w} : rowId'[v] = rowId[v]
      /\ nextId' = nextId + 1
      /\ UNCHANGED <<draft, rows, copies, stamp, contended, falsified>>
  BY DEF TypeOK, damage, defects
<1>b. /\ nextId \in Nat \ {0}
      /\ \A i \in DOMAIN rows : i \in Nat /\ i < nextId
      /\ DOMAIN rows \subseteq 1..(nextId - 1)
  BY DEF TypeOK
<1> HIDE DEF Insert, InsertRow
<1>1. DraftsOK'
  BY <1>a, <1>b DEF DraftsOK, Writing
<1>2. WritersMet'
  BY <1>a DEF WritersMet, Writing
<1>3. LoneWriterIsLast'
  BY <1>a, <1>b DEF LoneWriterIsLast, Writing, LastRow, AppendedHash, Stored
<1>4. OvertakenIsContended'
  BY <1>a, <1>b DEF OvertakenIsContended
<1>5. Linked(Stored)'
  BY <1>a, LinkedKept
<1>6. RowHasCopy'
  BY <1>a DEF RowHasCopy
<1> QED
  BY <1>1, <1>2, <1>3, <1>4, <1>5, <1>6 DEF Chain

\* A row becomes visible: unless another writer was in flight with it, it comes
\* after all rows and continues the last one; a row it gets in front of is
\* contended.
LEMMA CommitChain ==
    ASSUME AuditInv, NEW w \in Writers, Commit(w)
    PROVE  Chain'
<1> DEFINE r == rowId[w]
<1> USE DEF AuditInv
<1>a. /\ pc'[w] = "idle" /\ pc[w] = "inserted" /\ \A v \in Writers \ {w} : pc'[v] = pc[v]
      /\ \A v \in Writers \ {w} : draft'[v] = draft[v] /\ rowId'[v] = rowId[v]
      /\ UNCHANGED <<nextId, copies, stamp, contended, falsified>>
  BY DEF TypeOK, Commit, damage, defects
<1>b. /\ DOMAIN rows' = DOMAIN rows \cup {r}
      /\ rows'[r] = draft[w]
      /\ \A i \in DOMAIN rows : rows'[i] = rows[i]
      /\ r \notin DOMAIN rows /\ r \in Nat \ {0} /\ DOMAIN rows \subseteq Nat \ {0}
  BY <1>a DEF Commit, DraftsOK, TypeOK
<1>c. \A v \in Writers : Writing(v)' => /\ v # w /\ Writing(v)
                                        /\ draft[v].hash \in contended /\ draft[w].hash \in contended
  BY <1>a DEF WritersMet, Writing
<1> HIDE DEF r
<1>1. DraftsOK'
  BY <1>a, <1>b DEF DraftsOK, Writing, r
<1>2. WritersMet'
  BY <1>a, <1>c DEF WritersMet
<1>3. LoneWriterIsLast'
  BY <1>a, <1>c DEF LoneWriterIsLast
<1>4. OvertakenIsContended'
  BY <1>a, <1>b, <1>c DEF OvertakenIsContended, Writing
<1>5. Linked(Stored)'
  <2> SUFFICES ASSUME NEW i \in DOMAIN rows', rows'[i].hash \notin contended,
                      Before(Stored, i)' \notin falsified
               PROVE  rows'[i].prev = AppendedHash(Stored, Before(Stored, i))'
    BY <1>a DEF Linked, Stored
  <2>1. \A k \in {0} \cup DOMAIN rows : AppendedHash(Stored, k)' = AppendedHash(Stored, k)
    BY <1>b DEF AppendedHash, Stored
  <2>2. CASE i = r
    <3>1. \A j \in DOMAIN rows : j < r
      BY <1>a, <1>b, <2>2 DEF LoneWriterIsLast, Writing, r
    <3>2. {j \in DOMAIN rows' : j < i} = DOMAIN rows
      BY <1>b, <2>2, <3>1
    <3>3. Before(Stored, i)' = LastRow
      BY <3>2 DEF Before, LastRow, Stored
    <3>4. draft[w].prev = AppendedHash(Stored, LastRow)
      BY <1>a, <1>b, <2>2, <3>3 DEF LoneWriterIsLast, Writing, r
    <3>5. PICK k \in {0} \cup DOMAIN rows : k = LastRow
      BY LastRowType
    <3>6. AppendedHash(Stored, Before(Stored, i))' = AppendedHash(Stored, k)'
      BY <3>3, <3>5 DEF AppendedHash, Stored
    <3>7. rows'[i].prev = AppendedHash(Stored, k)
      BY <1>b, <2>2, <3>4, <3>5
    <3> QED
      BY <2>1, <3>5, <3>6, <3>7
  <2>3. CASE i # r
    <3>1. i \in DOMAIN rows /\ ~(i > r) /\ i \in Nat
      BY <1>a, <1>b, <2>3 DEF OvertakenIsContended, r
    <3>2. {j \in DOMAIN rows' : j < i} = {j \in DOMAIN rows : j < i}
      BY <1>b, <2>3, <3>1
    <3>3. Before(Stored, i)' = Before(Stored, i)
      BY <3>2 DEF Before, Stored
    <3>4. rows[i].prev = AppendedHash(Stored, Before(Stored, i))
      BY <1>b, <3>1, <3>3 DEF Linked, Stored
    <3>5. Before(Stored, i) \in {0} \cup DOMAIN rows
      BY BeforeOf
    <3>6. AppendedHash(Stored, Before(Stored, i))' = AppendedHash(Stored, Before(Stored, i))
      BY <1>b, <3>3, <3>5 DEF AppendedHash, Stored
    <3> QED
      BY <1>b, <3>1, <3>4, <3>6
  <2> QED
    BY <2>2, <2>3
<1>6. RowHasCopy'
  BY <1>a, <1>b DEF RowHasCopy, DraftsOK
<1> QED
  BY <1>1, <1>2, <1>3, <1>4, <1>5, <1>6 DEF Chain

\* An append that fails, and a restart, leave the rows and free the writers.
LEMMA AbortChain ==
    ASSUME AuditInv, UNCHANGED <<log, contended>>, falsified \subseteq falsified',
           \A w \in Writers :
              pc'[w] = "idle" \/ (/\ pc'[w] = pc[w] /\ draft'[w] = draft[w]
                                 /\ rowId'[w] = rowId[w])
    PROVE  Chain'
<1> USE DEF AuditInv, log
<1>1. DraftsOK'
  BY DEF DraftsOK, Writing
<1>2. WritersMet'
  BY DEF WritersMet, Writing
<1>3. LoneWriterIsLast'
  BY DEF LoneWriterIsLast, Writing, LastRow, AppendedHash, Stored
<1>4. OvertakenIsContended'
  BY DEF OvertakenIsContended
<1>5. Linked(Stored)'
  BY LinkedKept
<1>6. RowHasCopy'
  BY DEF RowHasCopy
<1> QED
  BY <1>1, <1>2, <1>3, <1>4, <1>5, <1>6 DEF Chain

-----------------------------------------------------------------------------
(* The findings *)

\* What excuses a row stays: rows keep their content, what was ever damaged or
\* contended is remembered, and a row that another gets in front of is contended.
LEMMA ExcusedGrows ==
    ASSUME \A i \in DOMAIN rows : i \in DOMAIN rows' /\ rows'[i] = rows[i],
           touched \subseteq touched', contended \subseteq contended',
           falsified \subseteq falsified', DOMAIN rows' \subseteq Nat,
           \A i \in DOMAIN rows, j \in DOMAIN rows' \ DOMAIN rows :
               j > i \/ rows[i].hash \in contended
    PROVE  Excused \subseteq Excused'
<1> SUFFICES ASSUME NEW i \in Excused, rows[i].hash \notin contended,
                    Before(Stored, i) \in falsified
             PROVE  Before(Stored, i)' \in falsified'
  BY DEF Excused
<1>1. i \in DOMAIN rows /\ i \in Nat
  BY DEF Excused
<1>2. {j \in DOMAIN rows : j < i} = {j \in DOMAIN rows' : j < i}
  BY <1>1
<1>3. Before(Stored, i)' = Before(Stored, i)
  BY <1>2 DEF Before, Stored
<1> QED
  BY <1>3

\* A row that does not verify is excused: unless it was altered, is inexact or its
\* copy is gone, it does not continue the row before it, which then was forged.
LEMMA BreaksExcused ==
    ASSUME NEW s, s \in {snapshot, Stored}, AuditInv
    PROVE  Breaks(s) \subseteq Excused
<1>1. /\ DOMAIN s.rows \subseteq DOMAIN rows
      /\ \A i \in DOMAIN s.rows : s.rows[i] = rows[i]
      /\ s.altered \cup shadowed \subseteq touched
      /\ s.forged \subseteq falsified
      /\ Linked(s) /\ LaterInFront(s)
      /\ DOMAIN rows \subseteq Nat /\ falsified \subseteq DOMAIN rows
  BY DEF AuditInv, SnapshotOK, Stored, TypeOK, LaterInFront
<1>2. RowHasCopy
  BY DEF AuditInv
<1> SUFFICES ASSUME NEW i \in Breaks(s) PROVE i \in Excused
  OBVIOUS
<1>3. i \in DOMAIN rows /\ i \in DOMAIN s.rows /\ s.rows[i] = rows[i] /\ i \in Nat
  BY <1>1 DEF Breaks
<1>4. \/ i \in s.altered \/ i \in shadowed \/ rows[i].event.kind = "inexact"
      \/ rows[i].prev # ExpectedPrev(s, i)
  BY <1>2, <1>3 DEF Breaks, RowHasCopy
<1>5. ASSUME rows[i].prev # ExpectedPrev(s, i), rows[i].hash \notin contended
      PROVE  Before(Stored, i) \in falsified
  <2>1. Before(s, i) = Before(Stored, i)
    <3>1. DOMAIN Stored.rows = DOMAIN rows
      BY DEF Stored
    <3>2. \A j \in DOMAIN Stored.rows \ DOMAIN s.rows : j > i
      BY <1>3, <1>5, <1>1, <3>1 DEF LaterInFront
    <3> QED
      BY <1>1, <1>3, <3>1, <3>2, BeforeStays
  <2>2. Before(s, i) \in falsified \/ rows[i].prev = AppendedHash(s, Before(s, i))
    BY <1>1, <1>3, <1>5 DEF Linked
  <2>3. Before(s, i) \in s.forged \/ ExpectedPrev(s, i) = AppendedHash(s, Before(s, i))
    BY DEF ExpectedPrev, StoredHash, AppendedHash
  <2> QED
    BY <1>1, <1>5, <2>1, <2>2, <2>3
<1> QED
  BY <1>1, <1>3, <1>4, <1>5 DEF Excused

\* Rows the watchdog has still to report on are excused, and are rows.
LEMMA UnwrittenExcused == AuditInv => Unwritten \subseteq Excused /\ Excused \subseteq DOMAIN rows
BY DEF AuditInv, FindingsExcused, Unwritten, Excused

-----------------------------------------------------------------------------
(* Every action keeps the invariant *)

\* A service begins an append.
LEMMA AppendEventInv ==
    ASSUME AuditInv, NEW s \in Services, AppendEvent(s) PROVE AuditInv'
<1> USE DEF AppendEvent
<1>a. PICK kind \in EventKinds : Read(s, Appended(kind))
  BY DEF EventKinds
<1>d. s \in Writers /\ Appended(kind) \in Event /\ Appended(kind).kind = kind
  BY DEF Writers, Appended, Event, Kinds
<1>b. /\ Chain'
      /\ draft' \in [Writers -> Entry]
      /\ contended \subseteq contended' /\ contended' \subseteq 1..stamp'
      /\ copies' \subseteq 1..stamp'
  BY <1>a, <1>d, ReadChain
<1>c. UNCHANGED <<rowId, rows, nextId, copies, defects, tick, restarts, loss>>
  BY <1>a DEF Read
<1>1. TypeOK'
  <2>1. pc' \in [Writers -> {"idle", "read", "stored", "inserted"}]
    BY <1>a DEF AuditInv, TypeOK, Read
  <2>2. appends' \in 0..MaxAppends /\ damages' \in 0..MaxDamage
    BY BoundAssumption DEF AuditInv, TypeOK
  <2>3. stamp' \in Nat
    BY <1>a DEF AuditInv, TypeOK, Read
  <2> QED
    BY <1>b, <1>c, <2>1, <2>2, <2>3 DEF AuditInv, TypeOK, defects, tick, loss
<1>2. SnapshotOK'
  BY <1>b, <1>c DEF AuditInv, SnapshotOK, LaterInFront, defects, tick
<1>3. Linked(snapshot)'
  BY <1>b, <1>c, SnapshotKept DEF AuditInv, defects, tick
<1>4. FindingsExcused'
  <2>1. Excused \subseteq Excused'
    BY <1>b, <1>c, ExcusedGrows DEF defects, AuditInv, TypeOK
  <2>2. /\ draft'[s].event = Appended(kind)
        /\ \A v \in Writers \ {s} : draft'[v] = draft[v] /\ pc'[v] = pc[v]
    BY <1>a, <1>d DEF AuditInv, TypeOK, Read
  <2> QED
    BY <1>c, <1>d, <2>1, <2>2, WriterAssumption
       DEF AuditInv, FindingsExcused, Writing, Writers, tick
<1> QED
  BY <1>1, <1>2, <1>3, <1>4, <1>b DEF AuditInv, Chain

\* The steps of an append after its beginning, of services and watchdog.
LEMMA StepWriterInv ==
    ASSUME AuditInv, NEW w \in Writers, Step(w) PROVE AuditInv'
<1>a. /\ Chain' /\ copies' \subseteq 1..stamp'
      /\ UNCHANGED <<stamp, tick, damage, appends, restarts, contended, loss>>
  <2>1. CASE StoreCopy(w)
    BY <2>1, StoreCopyChain DEF StoreCopy
  <2>2. CASE Insert(w)
    BY <2>2, InsertChain DEF Insert, InsertRow, AuditInv, TypeOK
  <2>3. CASE Commit(w)
    BY <2>3, CommitChain DEF Commit, AuditInv, TypeOK
  <2> QED
    BY <2>1, <2>2, <2>3 DEF Step
<1>b. /\ Writing(w)
      /\ pc' \in [Writers -> {"idle", "read", "stored", "inserted"}]
      /\ \A v \in Writers : Writing(v)' => Writing(v) /\ draft'[v] = draft[v]
      /\ draft' \in [Writers -> Entry]
      /\ rowId' \in [Writers -> Nat] /\ nextId' \in Nat /\ nextId' >= nextId /\ nextId \in Nat \ {0}
  BY BlankType DEF Step, StoreCopy, Insert, InsertRow, Commit, AuditInv, TypeOK, Writing
<1>c. /\ \A i \in DOMAIN rows : i \in DOMAIN rows' /\ rows'[i] = rows[i]
      /\ \A i \in DOMAIN rows, j \in DOMAIN rows' \ DOMAIN rows :
            j > i \/ rows[i].hash \in contended
      /\ \A i \in DOMAIN rows' : \/ i \in DOMAIN rows
                                 \/ i \in 1..(nextId' - 1) /\ rows'[i] = draft[w]
  <2>1. CASE Commit(w)
    <3>1. /\ DOMAIN rows' = DOMAIN rows \cup {rowId[w]} /\ rowId[w] \notin DOMAIN rows
          /\ rowId[w] \in Nat /\ DOMAIN rows \subseteq Nat
      BY <2>1 DEF Commit, AuditInv, DraftsOK, TypeOK
    <3>2. \A i \in DOMAIN rows : rowId[w] > i \/ rows[i].hash \in contended
      BY <2>1, <3>1 DEF Commit, AuditInv, OvertakenIsContended
    <3> QED
      BY <2>1, <3>1, <3>2 DEF Commit, AuditInv, DraftsOK
  <2>2. CASE ~Commit(w)
    BY <2>2 DEF Step, StoreCopy, Insert, InsertRow
  <2> QED
    BY <2>1, <2>2
<1>1. TypeOK'
  <2>1. DOMAIN rows' \subseteq 1..(nextId' - 1)
    BY <1>b, <1>c DEF AuditInv, TypeOK
  <2>2. \A i \in DOMAIN rows' : rows'[i] \in Entry
    BY <1>c DEF AuditInv, TypeOK
  <2>3. DOMAIN rows \subseteq DOMAIN rows'
    BY <1>c
  <2> QED
    BY <1>a, <1>b, <2>1, <2>2, <2>3 DEF AuditInv, TypeOK, tick, damage, defects, loss
<1>2. SnapshotOK'
  <2>1. \A i \in DOMAIN snapshot.rows, j \in DOMAIN rows' \ DOMAIN snapshot.rows :
           j > i \/ snapshot.rows[i].hash \in contended
    BY <1>c DEF AuditInv, SnapshotOK, LaterInFront
  <2> QED
    BY <1>a, <1>c, <2>1 DEF AuditInv, SnapshotOK, LaterInFront, tick, damage, defects
<1>3. Linked(snapshot)'
  BY <1>a, SnapshotKept DEF AuditInv, tick, damage, defects
<1>4. FindingsExcused'
  <2>1. Excused \subseteq Excused'
    BY <1>1, <1>a, <1>c, ExcusedGrows DEF damage, defects, TypeOK
  <2>2. draft[w].event.kind \in EventKinds \/ draft[w].event.of \in Excused
    BY <1>b DEF AuditInv, FindingsExcused, Writers
  <2>3. \A j \in DOMAIN rows' : rows'[j].event.kind \in EventKinds \/ rows'[j].event.of \in Excused
    BY <1>c, <2>2 DEF AuditInv, FindingsExcused
  <2> QED
    BY <1>a, <1>b, <2>1, <2>3 DEF AuditInv, FindingsExcused, Writers, tick
<1> QED
  BY <1>1, <1>2, <1>3, <1>4, <1>a DEF AuditInv, Chain

\* A failed append leaves what an idle writer leaves.
LEMMA AbortInv ==
    ASSUME AuditInv, NEW w \in Writers, Abort(w), snapshot' = snapshot,
           findings' \in {findings, {}}, known' = known,
           dropped' \cup forgotten' \subseteq DOMAIN rows
    PROVE  AuditInv'
<1> USE DEF damage, defects, log
<1>a. /\ UNCHANGED <<log, damage, appends, restarts, contended>>
      /\ pc' \in [Writers -> {"idle", "read", "stored", "inserted"}]
      /\ draft' \in [Writers -> Entry] /\ rowId' \in [Writers -> Nat]
      /\ \A v \in Writers :
            pc'[v] = "idle" \/ (pc'[v] = pc[v] /\ draft'[v] = draft[v] /\ rowId'[v] = rowId[v])
  BY BlankType DEF Abort, AuditInv, TypeOK
<1>b. Chain'
  BY <1>a, AbortChain
<1>1. TypeOK'
  BY <1>a DEF AuditInv, TypeOK
<1>2. SnapshotOK'
  BY <1>a DEF AuditInv, SnapshotOK, LaterInFront
<1>3. Linked(snapshot)'
  BY <1>a, SnapshotKept DEF AuditInv
<1>4. FindingsExcused'
  <2>1. Excused \subseteq Excused'
    BY <1>a, ExcusedGrows DEF AuditInv, TypeOK
  <2> QED
    BY <1>a, <2>1 DEF AuditInv, FindingsExcused, Writing, Writers
<1> QED
  BY <1>1, <1>2, <1>3, <1>4, <1>b DEF AuditInv, Chain

\* A step of the watchdog that appends nothing leaves the chain.
LEMMA TickInv ==
    ASSUME AuditInv, UNCHANGED <<append, log, damage, appends, restarts, contended, loss>>,
           snapshot' \in {snapshot, NoRows, Stored}, known' \subseteq Excused,
           findings' \subseteq Event, \A f \in findings' : f.of \in Excused
    PROVE  AuditInv'
<1> USE DEF append, log, damage, defects, loss
<1>b. Chain'
  BY AbortChain
<1>s. \/ snapshot' = snapshot
      \/ DOMAIN snapshot'.rows = {} /\ snapshot'.altered = {} /\ snapshot'.forged = {}
      \/ snapshot'.rows = rows /\ snapshot'.altered = altered /\ snapshot'.forged = forged
  BY DEF NoRows, Stored
<1>e. Excused \subseteq DOMAIN rows
  BY DEF Excused
<1>1. TypeOK'
  BY <1>s, <1>e DEF AuditInv, TypeOK
<1>2. SnapshotOK'
  BY <1>s DEF AuditInv, SnapshotOK, LaterInFront
<1>3. Linked(snapshot)'
  BY SnapshotKept DEF AuditInv
<1>4. FindingsExcused'
  <2>1. Excused \subseteq Excused'
    BY ExcusedGrows DEF AuditInv, TypeOK
  <2> QED
    BY <2>1 DEF AuditInv, FindingsExcused, Writing, Writers
<1> QED
  BY <1>1, <1>2, <1>3, <1>4, <1>b DEF AuditInv, Chain

\* The watchdog compares: what it has to report on is excused.
LEMMA CompareInv == ASSUME AuditInv, Compare PROVE AuditInv'
<1> DEFINE current == Breaks(snapshot)
<1>1. current \subseteq Excused /\ known \subseteq Excused
  BY BreaksExcused DEF AuditInv, FindingsExcused
<1>2. Excused \subseteq Nat
  BY DEF AuditInv, TypeOK, Excused
<1>3. /\ known' = current /\ snapshot' = NoRows
      /\ findings' = Finding("detected", current \ known) \cup Finding("resolved", known \ current)
      /\ UNCHANGED <<append, log, damage, appends, restarts, contended, loss>>
  BY DEF Compare, Remember
<1> HIDE DEF current
<1>4. \A f \in findings' : f \in Event /\ f.of \in Excused
  BY <1>1, <1>2, <1>3 DEF Finding, Event, Kinds
<1> QED
  BY <1>1, <1>3, <1>4, TickInv

\* The watchdog begins the append of a finding.
LEMMA AppendFindingInv == ASSUME AuditInv, AppendFinding PROVE AuditInv'
<1>1. PICK f \in findings : Read(Watchdog, f) /\ findings' = findings \ {f}
  BY DEF AppendFinding
<1>a. Watchdog \in Writers /\ f \in Event /\ f.of \in Excused
  BY DEF Writers, AuditInv, TypeOK, FindingsExcused
<1>b. /\ Chain'
      /\ draft' \in [Writers -> Entry]
      /\ contended \subseteq contended' /\ contended' \subseteq 1..stamp'
      /\ copies' \subseteq 1..stamp'
  BY <1>1, <1>a, ReadChain DEF AppendFinding, damage
<1>c. UNCHANGED <<rowId, rows, nextId, copies, damage, known, snapshot, appends, restarts, loss>>
  BY <1>1 DEF Read, AppendFinding
<1>2. TypeOK'
  <2>1. pc' \in [Writers -> {"idle", "read", "stored", "inserted"}] /\ stamp' \in Nat
    BY <1>1, <1>a DEF AuditInv, TypeOK, Read
  <2> QED
    BY <1>1, <1>b, <1>c, <2>1 DEF AuditInv, TypeOK, damage, defects, loss
<1>3. SnapshotOK'
  BY <1>b, <1>c DEF AuditInv, SnapshotOK, LaterInFront, damage, defects
<1>4. Linked(snapshot)'
  BY <1>b, <1>c, SnapshotKept DEF AuditInv, damage, defects
<1>5. FindingsExcused'
  <2>1. Excused \subseteq Excused'
    BY <1>b, <1>c, ExcusedGrows DEF damage, defects, AuditInv, TypeOK
  <2>2. /\ draft'[Watchdog].event = f
        /\ \A v \in Writers \ {Watchdog} : draft'[v] = draft[v] /\ pc'[v] = pc[v]
    BY <1>1, <1>a DEF AuditInv, TypeOK, Read
  <2> QED
    BY <1>1, <1>a, <1>c, <2>1, <2>2, WriterAssumption
       DEF AuditInv, FindingsExcused, Writing, Writers
<1> QED
  BY <1>2, <1>3, <1>4, <1>5, <1>b DEF AuditInv, Chain

\* Damage is remembered, and no repair forgets it.
LEMMA DamageInv ==
    ASSUME AuditInv, NEW i \in DOMAIN rows, Damage(i) \/ Repair(i) PROVE AuditInv'
<1>a. /\ UNCHANGED <<append, log, tick, appends, restarts, contended, loss>>
      /\ touched \subseteq touched' /\ touched' \subseteq DOMAIN rows
      /\ altered' \cup shadowed' \subseteq touched'
      /\ falsified \subseteq falsified' /\ falsified' \subseteq DOMAIN rows
      /\ forged' \subseteq falsified'
      /\ damages' \in 0..MaxDamage
  BY BoundAssumption DEF Damage, Repair, AuditInv, TypeOK, SnapshotOK, append, log, tick, loss
<1> USE DEF append, log, tick, loss, defects
<1>b. Chain'
  BY <1>a, AbortChain
<1>1. TypeOK'
  BY <1>a DEF AuditInv, TypeOK
<1>2. SnapshotOK'
  BY <1>a DEF AuditInv, SnapshotOK, LaterInFront
<1>3. Linked(snapshot)'
  BY <1>a, SnapshotKept DEF AuditInv
<1>4. FindingsExcused'
  <2>1. Excused \subseteq Excused'
    BY <1>a, ExcusedGrows DEF AuditInv, TypeOK
  <2> QED
    BY <1>a, <2>1 DEF AuditInv, FindingsExcused, Writing, Writers
<1> QED
  BY <1>1, <1>2, <1>3, <1>4, <1>b DEF AuditInv, Chain

\* A restart frees all writers and forgets the findings.
LEMMA RestartInv == ASSUME AuditInv, Restart PROVE AuditInv'
<1>a. /\ UNCHANGED <<log, damage, appends, contended>>
      /\ draft' \in [Writers -> Entry] /\ rowId' \in [Writers -> Nat]
      /\ pc' = [w \in Writers |-> "idle"]
      /\ known' = {} /\ snapshot' = NoRows /\ findings' = {} /\ dropped' = {}
      /\ restarts' \in 0..MaxRestarts
      /\ forgotten' \subseteq DOMAIN rows
  BY BoundAssumption, BlankType, UnwrittenExcused DEF Restart, AuditInv, TypeOK
<1> USE DEF log, damage, defects
<1>b. Chain'
  BY <1>a, AbortChain
<1>s. DOMAIN snapshot'.rows = {} /\ snapshot'.altered = {} /\ snapshot'.forged = {}
  BY <1>a DEF NoRows
<1>1. TypeOK'
  BY <1>a, <1>s DEF AuditInv, TypeOK
<1>2. SnapshotOK'
  BY <1>a, <1>s DEF AuditInv, SnapshotOK, LaterInFront
<1>3. Linked(snapshot)'
  BY <1>a, SnapshotKept DEF AuditInv
<1>4. FindingsExcused'
  <2>1. Excused \subseteq Excused'
    BY <1>a, ExcusedGrows DEF AuditInv, TypeOK
  <2> QED
    BY <1>a, <2>1 DEF AuditInv, FindingsExcused, Writing, Writers
<1> QED
  BY <1>1, <1>2, <1>3, <1>4, <1>b DEF AuditInv, Chain

\* Every step keeps the invariant.
LEMMA StepInv == AuditInv /\ [Next]_vars => AuditInv'
<1> SUFFICES ASSUME AuditInv, [Next]_vars PROVE AuditInv'
  OBVIOUS
<1>t. /\ known \subseteq Excused /\ findings \subseteq Event
      /\ \A f \in findings : f.of \in Excused
      /\ dropped \cup forgotten \subseteq DOMAIN rows
  BY DEF AuditInv, TypeOK, FindingsExcused
<1>1. ASSUME NEW s \in Services, AppendEvent(s) \/ AppendFails(s) PROVE AuditInv'
  BY <1>1, <1>t, AppendEventInv, AbortInv DEF AppendFails, Writers, tick, loss
<1>2. ASSUME NEW w \in Writers, Step(w) PROVE AuditInv'
  BY <1>2, StepWriterInv
<1>3. CASE Query
  BY <1>3, <1>t, TickInv DEF Query
<1>4. CASE Compare
  BY <1>4, CompareInv
<1>5. CASE CompareFails
  BY <1>5, <1>t, TickInv DEF CompareFails
<1>6. CASE AppendFinding
  BY <1>6, AppendFindingInv
<1>7. CASE FindingFails
  BY <1>7, <1>t, UnwrittenExcused, AbortInv DEF FindingFails, Writers
<1>8. ASSUME NEW i \in DOMAIN rows, Damage(i) \/ Repair(i) PROVE AuditInv'
  BY <1>8, DamageInv
<1>9. CASE Restart
  BY <1>9, RestartInv
<1>10. CASE UNCHANGED vars
  BY <1>10, <1>t, TickInv DEF vars, append, log, tick, damage, loss
<1> QED
  BY <1>1, <1>2, <1>3, <1>4, <1>5, <1>6, <1>7, <1>8, <1>9, <1>10 DEF Next

-----------------------------------------------------------------------------
(* What the findings of a row say *)

LEMMA Parity ==
    ASSUME NEW n \in Nat
    PROVE  n % 2 \in {0, 1} /\ ((n + 1) % 2 = 1 <=> n % 2 = 0)
OBVIOUS

\* The findings on a row can be counted; only rows have any.
LEMMA VerdictsCounted ==
    ASSUME AuditInv, NEW i
    PROVE  /\ IsFiniteSet(Verdicts(i)) /\ Cardinality(Verdicts(i)) \in Nat
           /\ Verdicts(i) \subseteq DOMAIN rows
           /\ i \notin DOMAIN rows => Verdicts(i) = {}
<1>1. IsFiniteSet(1..(nextId - 1)) /\ Verdicts(i) \subseteq 1..(nextId - 1)
  <2>1. nextId - 1 \in Nat /\ DOMAIN rows \subseteq 1..(nextId - 1)
    BY DEF AuditInv, TypeOK
  <2> QED
    BY <2>1, FS_Interval DEF Verdicts
<1>2. IsFiniteSet(Verdicts(i))
  BY <1>1, FS_Subset
<1>3. i \notin DOMAIN rows => Verdicts(i) = {}
  BY UnwrittenExcused DEF AuditInv, FindingsExcused, Verdicts
<1> QED
  BY <1>2, <1>3, FS_CardinalityType DEF Verdicts

LEMMA OnTheWayRows ==
    /\ Unwritten = {f.of : f \in OnTheWay}
    /\ AuditInv => /\ \A f \in OnTheWay : f \in Event /\ f.of \in DOMAIN rows
                   /\ known \subseteq DOMAIN rows
<1>1. Unwritten = {f.of : f \in OnTheWay}
  BY DEF Unwritten, OnTheWay
<1>2. AuditInv => \A f \in OnTheWay : f \in Event
  BY DEF AuditInv, TypeOK, OnTheWay, Entry, Writers
<1>3. AuditInv => known \subseteq DOMAIN rows
  BY DEF AuditInv, TypeOK
<1> QED
  BY <1>1, <1>2, <1>3, UnwrittenExcused

\* Rows without a finding in them change no row's findings.
LEMMA VerdictsKept ==
    ASSUME \A i \in DOMAIN rows : i \in DOMAIN rows' /\ rows'[i] = rows[i],
           \A i \in DOMAIN rows' \ DOMAIN rows : rows'[i].event.kind \in EventKinds,
           NEW i
    PROVE  Verdicts(i)' = Verdicts(i)
BY DEF Verdicts

LEMMA InitFindings == Init => FindingsInv
BY DEF Init, FindingsInv, FindingsAlternate, FindingsDue, OneFindingPerRow, NewestFinding,
       ComparedAlone, OnTheWay, Writing, Writers

\* A step that adds no finding and takes none off the list: the rows it may add
\* are events, and no row of its own had a finding before.
LEMMA QuietFindings ==
    ASSUME AuditInv, FindingsInv, UNCHANGED <<known, findings>>,
           \A i \in DOMAIN rows : i \in DOMAIN rows' /\ rows'[i] = rows[i],
           \A i \in DOMAIN rows' \ DOMAIN rows : rows'[i].event.kind \in EventKinds,
           draft'[Watchdog] = draft[Watchdog], Writing(Watchdog)' <=> Writing(Watchdog),
           pc'[Watchdog] = "inserted" =>
              \/ pc[Watchdog] = "inserted" /\ rowId'[Watchdog] = rowId[Watchdog]
              \/ rowId'[Watchdog] = nextId /\ rows' = rows,
           dropped \cup forgotten \subseteq dropped' \cup forgotten',
           snapshot' \in {snapshot, NoRows} \/ (findings = {} /\ ~Writing(Watchdog))
    PROVE  FindingsInv'
<1>1. \A i : Verdicts(i)' = Verdicts(i)
  BY VerdictsKept
<1>2. OnTheWay' = OnTheWay /\ Unwritten' = Unwritten
  BY DEF OnTheWay, Unwritten
<1>3. FindingsAlternate'
  <2> SUFFICES ASSUME NEW i \in DOMAIN rows', i \notin dropped' \cup forgotten'
               PROVE  /\ \A j \in Verdicts(i)' : rows'[j].event.kind = "detected"
                            <=> Cardinality({k \in Verdicts(i)' : k < j}) % 2 = 0
                      /\ i \notin Unwritten' => (i \in known' <=> Cardinality(Verdicts(i)') % 2 = 1)
    BY DEF FindingsAlternate
  <2>1. CASE i \in DOMAIN rows
    <3> DEFINE V == Verdicts(i)
    <3>1. \A j \in V : rows'[j] = rows[j]
      BY DEF Verdicts
    <3>2. /\ \A j \in V : rows[j].event.kind = "detected"
                            <=> Cardinality({k \in V : k < j}) % 2 = 0
          /\ i \notin Unwritten => (i \in known <=> Cardinality(V) % 2 = 1)
      BY <2>1 DEF FindingsInv, FindingsAlternate
    <3>3. Verdicts(i)' = V
      BY <1>1
    <3> HIDE DEF V
    <3> QED
      BY <1>2, <3>1, <3>2, <3>3
  <2>2. CASE i \notin DOMAIN rows
    <3>1. Verdicts(i)' = {} /\ Cardinality(Verdicts(i)') = 0
      BY <1>1, <2>2, VerdictsCounted, FS_EmptySet
    <3>2. i \notin known'
      BY <2>2, OnTheWayRows
    <3> QED
      BY <3>1, <3>2
  <2> QED
    BY <2>1, <2>2
<1>4. FindingsDue'
  BY <1>1, <1>2 DEF FindingsInv, FindingsDue
<1>5. OneFindingPerRow'
  BY DEF FindingsInv, OneFindingPerRow
<1>6. NewestFinding'
  <2>1. \A i \in DOMAIN rows : i < nextId
    BY DEF AuditInv, TypeOK
  <2> QED
    BY <2>1 DEF FindingsInv, NewestFinding
<1>7. ComparedAlone'
  BY DEF FindingsInv, ComparedAlone
<1> QED
  BY <1>3, <1>4, <1>5, <1>6, <1>7 DEF FindingsInv

\* A step that loses all findings on their way: their rows are lost track of.
LEMMA LostFindings ==
    ASSUME AuditInv, FindingsInv, rows' = rows, findings' = {}, pc'[Watchdog] = "idle",
           dropped \cup forgotten \cup Unwritten \subseteq dropped' \cup forgotten',
           \A i \in DOMAIN rows \ (dropped' \cup forgotten') : i \in known' <=> i \in known
    PROVE  FindingsInv'
<1>1. \A i : Verdicts(i)' = Verdicts(i)
  BY DEF Verdicts
<1>2. OnTheWay' = {} /\ Unwritten' = {} /\ ~Writing(Watchdog)'
  BY DEF OnTheWay, Unwritten, Writing
<1>3. FindingsAlternate'
  BY <1>1 DEF FindingsInv, FindingsAlternate
<1> QED
  BY <1>2, <1>3 DEF FindingsInv, FindingsDue, OneFindingPerRow, NewestFinding, ComparedAlone

\* A comparison announces the rows that changed sides.
LEMMA CompareFindings == ASSUME AuditInv, FindingsInv, Compare PROVE FindingsInv'
<1> DEFINE current == Breaks(snapshot)
<1>1. /\ known' = current /\ snapshot' = NoRows
      /\ findings' = Finding("detected", current \ known) \cup Finding("resolved", known \ current)
      /\ UNCHANGED <<append, log, damage, appends, restarts, contended, loss>>
      /\ snapshot # NoRows
  BY DEF Compare, Remember
<1> HIDE DEF current
<1>2. findings = {} /\ ~Writing(Watchdog) /\ ~Writing(Watchdog)'
  BY <1>1 DEF FindingsInv, ComparedAlone, Writing, append
<1>3. OnTheWay = {} /\ Unwritten = {} /\ OnTheWay' = findings'
  BY <1>2 DEF OnTheWay, Unwritten
<1>4. \A f \in findings' :
        \/ f.kind = "detected" /\ f.of \in current \ known
        \/ f.kind = "resolved" /\ f.of \in known \ current
  BY <1>1 DEF Finding
<1>5. \A i : Verdicts(i)' = Verdicts(i)
  BY <1>1 DEF Verdicts, log
<1>6. \A i \in DOMAIN rows \ (dropped \cup forgotten) :
        i \in known <=> Cardinality(Verdicts(i)) % 2 = 1
  BY <1>3 DEF FindingsInv, FindingsAlternate
<1>7. \A i \in (current \ known) \cup (known \ current) : i \in Unwritten'
  <2>1. \A i \in current \ known : [kind |-> "detected", of |-> i] \in findings'
    BY <1>1 DEF Finding
  <2>2. \A i \in known \ current : [kind |-> "resolved", of |-> i] \in findings'
    BY <1>1 DEF Finding
  <2>3. \A f \in findings' : f.of \in Unwritten'
    BY DEF Unwritten
  <2> QED
    BY <2>1, <2>2, <2>3
<1>8. rows' = rows /\ dropped' = dropped /\ forgotten' = forgotten
  BY <1>1 DEF log, loss
<1>9. FindingsAlternate'
  BY <1>1, <1>5, <1>6, <1>7, <1>8 DEF FindingsInv, FindingsAlternate
<1>10. FindingsDue'
  <2> SUFFICES ASSUME NEW f \in findings'
               PROVE  /\ f.kind \notin EventKinds
                      /\ f.kind = "detected" <=> f.of \in known'
                      /\ f.of \notin dropped \cup forgotten =>
                            (f.kind = "detected" <=> Cardinality(Verdicts(f.of)) % 2 = 0)
    BY <1>3, <1>5, <1>8 DEF FindingsDue
  <2>1. f.of \in DOMAIN rows
    <3>1. current \subseteq DOMAIN rows /\ known \subseteq DOMAIN rows
      BY BreaksExcused, UnwrittenExcused, OnTheWayRows DEF current
    <3> QED
      BY <1>4, <3>1
  <2>2. Cardinality(Verdicts(f.of)) % 2 \in {0, 1}
    BY VerdictsCounted, Parity
  <2>3. f.of \notin dropped \cup forgotten =>
           (f.of \notin known <=> Cardinality(Verdicts(f.of)) % 2 = 0)
    BY <1>6, <2>1, <2>2
  <2>4. f.kind = "detected" <=> f.of \notin known
    BY <1>4
  <2>5. f.kind \notin EventKinds /\ (f.kind = "detected" <=> f.of \in current)
    BY <1>4 DEF EventKinds
  <2> QED
    BY <1>1, <2>3, <2>4, <2>5
<1> QED
  BY <1>1, <1>2, <1>9, <1>10
     DEF FindingsInv, OneFindingPerRow, NewestFinding, ComparedAlone, Writing

\* The finding that is appended next leaves the list, and stays on its way.
LEMMA AppendFindingFindings == ASSUME AuditInv, FindingsInv, AppendFinding PROVE FindingsInv'
<1>1. PICK f \in findings : Read(Watchdog, f) /\ findings' = findings \ {f}
  BY DEF AppendFinding
<1>2. /\ ~Writing(Watchdog) /\ Writing(Watchdog)' /\ pc'[Watchdog] = "read"
      /\ draft'[Watchdog].event = f
      /\ UNCHANGED <<rows, known, snapshot, loss>>
  BY <1>1 DEF AppendFinding, Read, Writing, AuditInv, TypeOK, Writers
<1>3. OnTheWay' = OnTheWay /\ Unwritten' = Unwritten
  BY <1>1, <1>2 DEF OnTheWay, Unwritten
<1>4. \A i : Verdicts(i)' = Verdicts(i)
  BY <1>2 DEF Verdicts
<1>5. FindingsAlternate'
  BY <1>2, <1>3, <1>4 DEF FindingsInv, FindingsAlternate, loss
<1>6. FindingsDue'
  BY <1>2, <1>3, <1>4 DEF FindingsInv, FindingsDue, loss
<1>7. OneFindingPerRow'
  <2> SUFFICES ASSUME NEW g \in findings, g # f PROVE g.of # f.of
    BY <1>1, <1>2 DEF OneFindingPerRow
  <2>1. f \in OnTheWay /\ g \in OnTheWay
    BY DEF OnTheWay
  <2>2. f \in Event /\ g \in Event
    BY <2>1, OnTheWayRows
  <2>3. f.of = g.of => f.kind = g.kind
    BY <2>1, <2>2 DEF FindingsInv, FindingsDue, Event, Kinds
  <2> QED
    BY <2>2, <2>3 DEF Event
<1>8. ComparedAlone'
  BY <1>1, <1>2 DEF FindingsInv, ComparedAlone
<1> QED
  BY <1>2, <1>5, <1>6, <1>7, <1>8 DEF FindingsInv, NewestFinding

\* A finding that is committed is the next of its row, and comes last.
LEMMA CommitFindings == ASSUME AuditInv, FindingsInv, Commit(Watchdog) PROVE FindingsInv'
<1>a. PICK f \in Event, r \in Nat : f = draft[Watchdog].event /\ r = rowId[Watchdog]
  BY DEF AuditInv, TypeOK, Entry, Writers
<1>1. /\ Watchdog \in Writers /\ Writing(Watchdog) /\ pc[Watchdog] = "inserted"
      /\ ~Writing(Watchdog)' /\ pc'[Watchdog] = "idle"
      /\ UNCHANGED <<known, findings, snapshot, dropped, forgotten>>
  BY DEF Commit, Writing, Writers, AuditInv, TypeOK, tick, loss
<1>2. /\ DOMAIN rows' = DOMAIN rows \cup {r} /\ r \notin DOMAIN rows
      /\ rows'[r].event = f
      /\ \A i \in DOMAIN rows : rows'[i] = rows[i]
  BY <1>a, <1>1 DEF Commit, AuditInv, DraftsOK
<1>3. /\ f \in OnTheWay /\ f.of \in DOMAIN rows /\ f.kind \notin EventKinds
      /\ f.of \notin dropped \cup forgotten =>
            (f.kind = "detected" <=> Cardinality(Verdicts(f.of)) % 2 = 0)
      /\ f.kind = "detected" <=> f.of \in known
  BY <1>a, <1>1, OnTheWayRows DEF FindingsInv, FindingsDue, OnTheWay
<1>4. /\ Verdicts(f.of)' = Verdicts(f.of) \cup {r}
      /\ \A i : i # f.of => Verdicts(i)' = Verdicts(i)
  BY <1>2, <1>3 DEF Verdicts
<1>5. r \notin Verdicts(f.of) /\ \A j \in Verdicts(f.of) : j \in Nat /\ j < r
  BY <1>a, <1>1, <1>2 DEF Verdicts, FindingsInv, NewestFinding, AuditInv, TypeOK
<1>6. OnTheWay' = findings /\ Unwritten' = {g.of : g \in findings}
  BY <1>1 DEF OnTheWay, Unwritten
<1>7. \A g \in findings : g.of # f.of
  BY <1>a, <1>1 DEF FindingsInv, OneFindingPerRow
<1>8. FindingsAlternate'
  <2> SUFFICES ASSUME NEW i \in DOMAIN rows', i \notin dropped \cup forgotten
               PROVE  /\ \A j \in Verdicts(i)' : rows'[j].event.kind = "detected"
                            <=> Cardinality({k \in Verdicts(i)' : k < j}) % 2 = 0
                      /\ i \notin Unwritten' => (i \in known <=> Cardinality(Verdicts(i)') % 2 = 1)
    BY <1>1 DEF FindingsAlternate
  <2>1. CASE i = r
    <3>1. Verdicts(i)' = {} /\ Cardinality(Verdicts(i)') = 0
      BY <1>2, <1>3, <1>4, <2>1, VerdictsCounted, FS_EmptySet
    <3>2. i \notin known
      BY <1>2, <2>1, OnTheWayRows
    <3> QED
      BY <3>1, <3>2
  <2>2. CASE i \in DOMAIN rows /\ i # f.of
    <3>1. \A j \in Verdicts(i) : rows'[j] = rows[j]
      BY <1>2 DEF Verdicts
    <3>2. i \notin Unwritten' => i \notin Unwritten
      BY <1>a, <1>6, <2>2 DEF Unwritten
    <3> QED
      BY <1>4, <2>2, <3>1, <3>2 DEF FindingsInv, FindingsAlternate
  <2>3. CASE i = f.of
    <3> DEFINE V == Verdicts(i)
    <3>1. IsFiniteSet(V) /\ Cardinality(V) \in Nat
      BY VerdictsCounted
    <3>2. \A j \in V : /\ rows'[j] = rows[j]
                       /\ rows[j].event.kind = "detected" <=> Cardinality({k \in V : k < j}) % 2 = 0
      BY <1>2, <1>3, <2>3 DEF FindingsInv, FindingsAlternate, Verdicts
    <3>3. /\ Verdicts(i)' = V \cup {r} /\ r \notin V
          /\ \A j \in V : j \in Nat /\ j < r
      BY <1>4, <1>5, <2>3
    <3>4. f.kind = "detected" <=> Cardinality(V) % 2 = 0
      BY <1>3, <2>3
    <3> HIDE DEF V
    <3>5. {k \in V \cup {r} : k < r} = V /\ \A j \in V : {k \in V \cup {r} : k < j} = {k \in V : k < j}
      BY <1>a, <3>3
    <3>6. Cardinality(V \cup {r}) = Cardinality(V) + 1
      BY <3>1, <3>3, FS_AddElement
    <3>7. (Cardinality(V) + 1) % 2 = 1 <=> Cardinality(V) % 2 = 0
      BY <3>1, Parity
    <3>8. ASSUME NEW j \in V \cup {r}
          PROVE  rows'[j].event.kind = "detected"
                   <=> Cardinality({k \in V \cup {r} : k < j}) % 2 = 0
      <4>1. CASE j = r
        BY <1>2, <3>4, <3>5, <4>1
      <4>2. CASE j \in V
        BY <3>2, <3>5, <4>2
      <4> QED
        BY <4>1, <4>2
    <3>9. i \in known <=> Cardinality(V \cup {r}) % 2 = 1
      BY <1>3, <2>3, <3>4, <3>6, <3>7
    <3> QED
      BY <3>3, <3>8, <3>9
  <2> QED
    BY <1>2, <2>1, <2>2, <2>3
<1>9. FindingsDue'
  <2>1. \A g \in findings : g \in OnTheWay
    BY DEF OnTheWay
  <2> QED
    BY <1>1, <1>4, <1>6, <1>7, <2>1 DEF FindingsInv, FindingsDue
<1> QED
  BY <1>1, <1>8, <1>9 DEF FindingsInv, OneFindingPerRow, NewestFinding, ComparedAlone

\* The steps of an append after its beginning.
LEMMA StepFindings ==
    ASSUME AuditInv, FindingsInv, NEW w \in Writers, Step(w) PROVE FindingsInv'
<1>a. Watchdog \in Writers /\ pc \in [Writers -> {"idle", "read", "stored", "inserted"}]
      /\ rowId \in [Writers -> Nat]
  BY DEF Writers, AuditInv, TypeOK
<1>1. CASE StoreCopy(w) \/ Insert(w)
  <2>1. /\ UNCHANGED <<draft, rows, known, findings, snapshot, dropped, forgotten>>
        /\ Writing(Watchdog)' <=> Writing(Watchdog)
        /\ pc'[Watchdog] = "inserted" =>
              \/ pc[Watchdog] = "inserted" /\ rowId'[Watchdog] = rowId[Watchdog]
              \/ rowId'[Watchdog] = nextId
    BY <1>a, <1>1 DEF StoreCopy, Insert, InsertRow, Writing, tick, loss
  <2> QED
    BY <2>1, QuietFindings
<1>2. CASE Commit(w) /\ w # Watchdog
  <2>1. /\ UNCHANGED <<known, findings, snapshot, dropped, forgotten>>
        /\ pc'[Watchdog] = pc[Watchdog] /\ draft'[Watchdog] = draft[Watchdog]
        /\ rowId'[Watchdog] = rowId[Watchdog]
        /\ DOMAIN rows' = DOMAIN rows \cup {rowId[w]} /\ rowId[w] \notin DOMAIN rows
        /\ rows'[rowId[w]] = draft[w]
        /\ \A i \in DOMAIN rows : rows'[i] = rows[i]
    BY <1>a, <1>2 DEF Commit, tick, loss, AuditInv, DraftsOK, TypeOK
  <2>2. draft[w].event.kind \in EventKinds
    BY <1>2 DEF AuditInv, FindingsExcused, Writers, Writing, Commit
  <2> QED
    BY <2>1, <2>2, QuietFindings DEF Writing
<1>3. CASE Commit(Watchdog)
  BY <1>3, CommitFindings
<1> QED
  BY <1>1, <1>2, <1>3 DEF Step

\* The appends of a service, damage and repair, and a tick that only reads.
LEMMA OtherFindings ==
    ASSUME AuditInv, FindingsInv,
           \/ \E s \in Services : AppendEvent(s) \/ AppendFails(s)
           \/ Query \/ CompareFails
           \/ \E i \in DOMAIN rows : Damage(i) \/ Repair(i)
           \/ UNCHANGED vars
    PROVE  FindingsInv'
<1>1. CASE \E s \in Services : AppendEvent(s) \/ AppendFails(s)
  <2>1. PICK s \in Services : AppendEvent(s) \/ AppendFails(s)
    BY <1>1
  <2>2. s # Watchdog /\ Watchdog \in Writers /\ s \in Writers
    BY WriterAssumption DEF Writers
  <2>3. /\ UNCHANGED <<rows, known, findings, snapshot, dropped, forgotten>>
        /\ draft'[Watchdog] = draft[Watchdog] /\ pc'[Watchdog] = pc[Watchdog]
        /\ rowId'[Watchdog] = rowId[Watchdog]
    BY <2>1, <2>2 DEF AppendEvent, AppendFails, Read, Abort, tick, loss, log, AuditInv, TypeOK
  <2> QED
    BY <2>3, QuietFindings DEF Writing
<1>2. CASE Query
  BY <1>2, QuietFindings DEF Query, Ticking, append, log, loss, Writing
<1>3. CASE ~Query /\ ~\E s \in Services : AppendEvent(s) \/ AppendFails(s)
  <2>1. /\ UNCHANGED <<rows, draft, pc, rowId, known, findings, dropped, forgotten>>
        /\ snapshot' \in {snapshot, NoRows}
    BY <1>3 DEF CompareFails, Damage, Repair, vars, append, log, tick, loss
  <2> QED
    BY <2>1, QuietFindings DEF Writing
<1> QED
  BY <1>1, <1>2, <1>3

LEMMA StepFindingsInv == AuditInv /\ FindingsInv /\ [Next]_vars => FindingsInv'
<1> SUFFICES ASSUME AuditInv, FindingsInv, [Next]_vars PROVE FindingsInv'
  OBVIOUS
<1>1. ASSUME NEW w \in Writers, Step(w) PROVE FindingsInv'
  BY <1>1, StepFindings
<1>2. CASE Compare
  BY <1>2, CompareFindings
<1>3. CASE AppendFinding
  BY <1>3, AppendFindingFindings
<1>4. CASE FindingFails
  <2>1. pc'[Watchdog] = "idle" /\ rows' = rows
    BY <1>4 DEF FindingFails, Abort, log, AuditInv, TypeOK, Writers
  <2> QED
    BY <1>4, <2>1, LostFindings DEF FindingFails
<1>5. CASE Restart
  <2>1. pc'[Watchdog] = "idle" /\ rows' = rows
    BY <1>5 DEF Restart, log, Writers
  <2> QED
    BY <1>5, <2>1, LostFindings DEF Restart
<1> QED
  BY <1>1, <1>2, <1>3, <1>4, <1>5, OtherFindings DEF Next

-----------------------------------------------------------------------------
(* The theorems *)

\* The strengthened invariant holds in every reachable state.
THEOREM Invariance == Spec => []AuditInv
BY InitInv, StepInv, PTL DEF Spec

\* The types hold in every reachable state; in particular what the watchdog knows
\* or read are rows of the table.
THEOREM TypeCorrect == Spec => []TypeOK
BY Invariance, PTL DEF AuditInv

\* However the appends of all threads interleave and fail, _append_internal leaves
\* no row without its copy.
THEOREM CopiesFirst == Spec => []RowHasCopy
BY Invariance, PTL DEF AuditInv

\* _compute_breaks and the watchdog accuse no row that was neither damaged nor
\* appended while another append was in flight, whose payload jsonb returns as it
\* was hashed and which does not follow a row whose entry_hash was changed.
THEOREM AlarmsExcused == Spec => []NoFalseAlarm
<1>1. AuditInv => NoFalseAlarm
  <2> SUFFICES ASSUME AuditInv,
                      NEW i \in Broken \cup known \cup Unwritten
                                  \cup {j \in DOMAIN rows : Verdicts(j) # {}}
               PROVE  i \in Excused
    BY DEF NoFalseAlarm, Excused
  <2>1. CASE i \in Broken
    BY <2>1, BreaksExcused DEF Broken, Stored
  <2>2. CASE i \in known \cup Unwritten
    BY <2>2, UnwrittenExcused DEF AuditInv, FindingsExcused
  <2>3. CASE Verdicts(i) # {}
    BY <2>3 DEF Verdicts, AuditInv, FindingsExcused
  <2> QED
    BY <2>1, <2>2, <2>3
<1> QED
  BY <1>1, Invariance, PTL

\* _watchdog_tick records only transitions into and out of a broken state: the
\* findings of a row alternate, unless an append failed or a restart forgot them.
THEOREM TransitionsOnly == Spec => []FindingsAlternate
<1>1. Init => FindingsInv
  BY InitFindings
<1>2. AuditInv /\ FindingsInv /\ [Next]_vars => FindingsInv'
  BY StepFindingsInv
<1>3. FindingsInv => FindingsAlternate
  BY DEF FindingsInv
<1> QED
  BY <1>1, <1>2, <1>3, Invariance, PTL DEF Spec
=============================================================================
