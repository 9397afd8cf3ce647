------------------------ MODULE VendorHistoryProofs ------------------------
(***************************************************************************)
(* What TLAPS proves of VendorHistory, for any payments, spellings and     *)
(* awards and any number of loads.                                         *)
(***************************************************************************)
EXTENDS VendorHistory, SumFacts

\* The loader may be between two runs, and between two awards.
LEMMA LoaderBounds ==
    /\ MaxLoads \in Nat
    /\ Len(Awards) \in Nat
    /\ 0 \in 0..Len(Awards)
    /\ 0 \in 0..MaxLoads
    /\ TRUE \in BOOLEAN /\ FALSE \in BOOLEAN
<1>1. Len(Awards) \in Nat /\ MaxLoads \in Nat
  BY LoaderAssumption
<1> QED
  BY <1>1

\* The award the loader is at is one of its list.
LEMMA AwardAt ==
    ASSUME LoaderOK, loading # 0
    PROVE  /\ loading \in DOMAIN Awards
           /\ Awards[loading] \in [id : STRING, name : Spellings, amount : Int]
           /\ Awards[loading].id \notin Payments
<1> DEFINE Award == [id : STRING, name : Spellings, amount : Int]
<1>1. Awards \in Seq(Award)
  BY LoaderAssumption
<1> HIDE DEF Award
<1>2. Len(Awards) \in Nat /\ DOMAIN Awards = 1..Len(Awards)
  BY <1>1
<1>3. loading \in 0..Len(Awards)
  BY DEF LoaderOK
<1>4. loading \in DOMAIN Awards
  BY <1>2, <1>3
<1>5. Awards[loading] \in Award
  BY <1>1, <1>4
<1> QED
  BY <1>4, <1>5, LoaderAssumption DEF Award

\* What a request leaves to the loader, and the loader to the requests.
LEMMA LoaderKept ==
    ASSUME VendorInv, UNCHANGED loader
    PROVE  LoaderOK' /\ NamedExists' /\ UpsertsCounted' /\ LoadedNames' = LoadedNames
BY DEF VendorInv, TypeOK, LoaderOK, NamedExists, UpsertsCounted, LoadedNames, loader

LEMMA RequestsKept ==
    ASSUME VendorInv, UNCHANGED request, raced' = raced
    PROVE  RequestsOK' /\ FirstsMet'
BY DEF VendorInv, TypeOK, RequestsOK, FirstsMet, Inserting, VendorOf, request

\* The tables are empty, the requests idle and no load has begun.
LEMMA InitInv == Init => VendorInv
<1> SUFFICES ASSUME Init PROVE VendorInv
  OBVIOUS
<1>1. DOMAIN vendors = {} /\ LoadedNames = {}
  BY DEF Init, LoadedNames
<1>2. TypeOK
  <2>1. TablesOK
    BY <1>1 DEF Init, TablesOK
  <2>2. RequestsOK
    BY PaymentAssumption DEF Init, RequestsOK, Summary, NothingRead
  <2>3. LoaderOK
    BY LoaderBounds DEF Init, LoaderOK
  <2> QED
    BY <2>1, <2>2, <2>3 DEF TypeOK
<1> QED
  BY <1>1, <1>2 DEF Init, VendorInv, FoundExists, NamedExists, LoadedExists, UpsertsCounted,
    Unrecorded, FlushedAlone, FirstsMet, Inserting, StillFirst, OneRowPerVendor, AwardsBooked

\* With another summary in it, the table is one of summaries.
LEMMA WithSummaryType ==
    ASSUME TypeOK, NEW name \in Spellings, NEW summary \in Summary
    PROVE  LET w == WithSummary(name, summary)
           IN /\ DOMAIN w = DOMAIN vendors \cup {name}
              /\ \A n \in DOMAIN w : w[n] \in Summary
BY DEF TypeOK, TablesOK, WithSummary

\* A step of a request that adds no row: it looks up, flushes or fails.
LEMMA RequestInv ==
    ASSUME VendorInv, NEW p \in Payments, Find(p) \/ Flush(p) \/ Fail(p)
    PROVE  VendorInv'
<1> USE PaymentAssumption DEF VendorInv
<1>a. /\ UNCHANGED <<vendors, history, loader, overlapped, overlaid, torn>>
      /\ raced \subseteq raced' /\ raced' \subseteq raced \cup {VendorOf(p)}
      /\ pc' \in [Payments -> {"new", "write", "insert", "flushed", "done"}]
      /\ found' \in [Payments -> Spellings] /\ read' \in [Payments -> Summary]
      /\ \A q \in Payments \ {p} : pc'[q] = pc[q] /\ found'[q] = found[q] /\ read'[q] = read[q]
      /\ pc[p] # "done"
  <2>1. NothingRead \in Summary
    BY DEF NothingRead, Summary
  <2>2. CASE Find(p)
    BY <2>1, <2>2 DEF Find, End, Matches, TypeOK, TablesOK, RequestsOK
  <2>3. CASE Flush(p) \/ Fail(p)
    BY <2>1, <2>3 DEF Flush, Fail, InFlight, End, notes, TypeOK, RequestsOK
  <2> QED
    BY <2>2, <2>3
<1>b. \/ pc'[p] = "done"
      \/ Find(p) /\ pc'[p] = "insert" /\ Matches(NameOf[p]) = {}
           /\ raced' = raced \cup {v \in {VendorOf(p)} : Inserting(v) # {}}
      \/ Find(p) /\ pc'[p] = "write" /\ found'[p] \in Matches(NameOf[p])
      \/ /\ pc[p] = "insert" /\ pc'[p] = "flushed" /\ raced' = raced
         /\ NameOf[p] \notin DOMAIN vendors /\ ~NameInFlight(NameOf[p])
  <2>1. CASE Find(p)
    BY <2>1 DEF Find, End, TypeOK, RequestsOK
  <2>2. CASE Flush(p) \/ Fail(p)
    BY <2>2 DEF Flush, Fail, End, notes, TypeOK, RequestsOK
  <2> QED
    BY <2>1, <2>2
<1>c. pc[p] = "new" \/ ~Find(p)
  BY DEF Find
<1>1. TypeOK'
  <2>1. TablesOK'
    BY <1>a DEF TypeOK, TablesOK, VendorOf
  <2> QED
    BY <1>a, <2>1, LoaderKept DEF TypeOK, RequestsOK
<1>2. FoundExists'
  BY <1>a, <1>b DEF FoundExists, VendorOf, Matches
<1>3. NamedExists' /\ UpsertsCounted' /\ LoadedNames' = LoadedNames
  BY <1>a, LoaderKept
<1>4. LoadedExists'
  BY <1>a, <1>3 DEF LoadedExists
<1>5. Unrecorded'
  BY <1>a DEF Unrecorded
<1>6. FlushedAlone'
  BY <1>a, <1>b DEF FlushedAlone, NameInFlight
<1>7. FirstsMet'
  BY <1>a, <1>b DEF FirstsMet, Inserting, VendorOf
<1>8. StillFirst'
  BY <1>a, <1>b, <1>3 DEF StillFirst, Matches, VendorOf
<1>9. OneRowPerVendor'
  BY <1>a, <1>3 DEF OneRowPerVendor
<1>10. AwardsBooked'
  BY <1>a DEF AwardsBooked, loader
<1> QED
  BY <1>1, <1>2, <1>3, <1>4, <1>5, <1>6, <1>7, <1>8, <1>9, <1>10

\* A step that writes a summary with the row of its payment.
LEMMA RecordedInv ==
    ASSUME VendorInv, NEW p \in Payments, NEW n \in Spellings, NEW summary \in Summary,
           pc[p] \in {"flushed", "write"}, n = IF pc[p] = "flushed" THEN NameOf[p] ELSE found[p],
           vendors' = WithSummary(n, summary), history' = history \cup {Live(p, n)}, End(p),
           overlapped \subseteq overlapped', overlapped' \subseteq overlapped \cup {p},
           UNCHANGED <<loader, overlaid, raced, torn>>
    PROVE  VendorInv'
<1> USE PaymentAssumption DEF VendorInv
<1>a. /\ pc' \in [Payments -> {"new", "write", "insert", "flushed", "done"}]
      /\ found' \in [Payments -> Spellings] /\ read' \in [Payments -> Summary]
      /\ \A q \in Payments \ {p} : pc'[q] = pc[q] /\ found'[q] = found[q] /\ read'[q] = read[q]
      /\ pc'[p] = "done"
  <2>1. NothingRead \in Summary
    BY DEF NothingRead, Summary
  <2> QED
    BY <2>1 DEF End, TypeOK, RequestsOK
<1>b. /\ DOMAIN vendors' = DOMAIN vendors \cup {n}
      /\ \A m \in DOMAIN vendors' : vendors'[m] \in Summary
  BY WithSummaryType
<1>c. /\ Normal[n] = VendorOf(p)
      /\ n \in DOMAIN vendors \/ (pc[p] = "flushed" /\ n = NameOf[p])
  BY DEF FoundExists, VendorOf
<1>d. /\ Live(p, n).id = p /\ Live(p, n).name = n
      /\ Live(p, n) \in [id : AwardIds, name : {n}, amount : Int]
      /\ \A h \in history : h.id # p
  BY DEF Live, AwardIds, Unrecorded
<1>1. TypeOK'
  <2>1. TablesOK'
    BY <1>b, <1>d DEF TypeOK, TablesOK
  <2> QED
    BY <1>a, <2>1, LoaderKept DEF TypeOK, RequestsOK
<1>2. FoundExists'
  BY <1>a, <1>b DEF FoundExists, VendorOf
<1>3. NamedExists' /\ UpsertsCounted' /\ LoadedNames' = LoadedNames
  BY LoaderKept
<1>4. LoadedExists'
  BY <1>b, <1>3 DEF LoadedExists
<1>5. Unrecorded'
  BY <1>a, <1>d DEF Unrecorded
<1>6. FlushedAlone'
  BY <1>a, <1>b, <1>c DEF FlushedAlone
<1>7. FirstsMet'
  BY <1>a DEF FirstsMet, Inserting, VendorOf
<1>8. StillFirst'
  <2> SUFFICES ASSUME NEW q \in Payments, pc'[q] \in {"insert", "flushed"},
                      VendorOf(q) \notin raced, NEW m \in Matches(NameOf[q])'
               PROVE  m \in LoadedNames
    BY <1>3 DEF StillFirst, VendorOf
  <2>1. q # p /\ pc[q] \in {"insert", "flushed"}
    BY <1>a
  <2>2. m \in DOMAIN vendors \/ m = n
    BY <1>b DEF Matches
  <2>3. Normal[m] = VendorOf(q)
    BY DEF Matches, VendorOf
  <2>4. CASE m \in DOMAIN vendors
    BY <2>1, <2>3, <2>4 DEF StillFirst, Matches, VendorOf
  <2>5. CASE m = n /\ pc[p] = "flushed"
    BY <1>c, <2>1, <2>3, <2>5 DEF FirstsMet, Inserting
  <2> QED
    BY <1>c, <2>2, <2>4, <2>5
<1>9. OneRowPerVendor'
  <2> SUFFICES ASSUME NEW l \in DOMAIN vendors', NEW m \in DOMAIN vendors', l # m,
                      Normal[l] = Normal[m], Normal[m] \notin raced
               PROVE  {l, m} \cap LoadedNames # {}
    BY <1>3 DEF OneRowPerVendor
  <2>1. CASE l \in DOMAIN vendors /\ m \in DOMAIN vendors
    BY <2>1 DEF OneRowPerVendor
  <2>2. CASE pc[p] = "flushed" /\ n = NameOf[p] /\ n \in {l, m}
    <3>1. Matches(NameOf[p]) \subseteq LoadedNames
      BY <1>c, <2>2 DEF StillFirst
    <3> QED
      BY <1>b, <1>c, <2>1, <2>2, <3>1 DEF Matches, VendorOf
  <2> QED
    BY <1>b, <1>c, <2>1, <2>2
<1>10. AwardsBooked'
  BY <1>d DEF AwardsBooked, loader
<1> QED
  BY <1>1, <1>2, <1>3, <1>4, <1>5, <1>6, <1>7, <1>8, <1>9, <1>10

\* The vendor's row and its first payment are committed together.
LEMMA CommitNewInv == ASSUME VendorInv, NEW p \in Payments, CommitNew(p) PROVE VendorInv'
<1>1. NameOf[p] \in Spellings /\ FirstSummary(p) \in Summary
  BY PaymentAssumption DEF FirstSummary, Summary
<1> QED
  BY <1>1, RecordedInv DEF CommitNew, notes

\* The totals a request computed replace those of the row it found.
LEMMA CommitUpdateInv == ASSUME VendorInv, NEW p \in Payments, CommitUpdate(p) PROVE VendorInv'
<1>1. /\ pc[p] = "write"
      /\ read[p] \in Summary /\ AmountOf[p] \in Int /\ found[p] \in Spellings
  BY PaymentAssumption DEF CommitUpdate, VendorInv, TypeOK, RequestsOK
<1>2. [total |-> read[p].total + AmountOf[p], count |-> read[p].count + 1] \in Summary
  BY <1>1 DEF Summary
<1> QED
  BY <1>1, <1>2, RecordedInv DEF CommitUpdate

\* The loader starts at its first award, or dies and leaves what it has committed.
LEMMA BetweenAwardsInv == ASSUME VendorInv, StartLoad \/ KillLoad PROVE VendorInv'
<1> USE DEF VendorInv
<1>a. /\ UNCHANGED <<vendors, history, request, upserts, overlapped, overlaid, raced>>
      /\ torn \subseteq torn'
      /\ \/ loading = 0 /\ loading' = 1 /\ ~named' /\ loads' = loads + 1 /\ loads < MaxLoads
            /\ Awards # <<>> /\ torn' = torn /\ named' = named
         \/ loading' = 0 /\ ~named' /\ loads' = loads /\ torn' = torn \cup {k \in {loading} : named}
            /\ loading # 0 /\ named' = FALSE
  BY DEF StartLoad, KillLoad, notes, NamedExists
<1>1. TypeOK'
  <2>1. TablesOK'
    <3>1. named => loading \in DOMAIN Awards
      BY AwardAt DEF NamedExists, TypeOK
    <3> QED
      BY <1>a, <3>1 DEF TypeOK, TablesOK
  <2>2. LoaderOK'
    <3>1. loading' \in 0..Len(Awards) /\ loads' \in 0..MaxLoads /\ named' \in BOOLEAN
      <4>1. Awards # <<>> => Len(Awards) > 0
        BY LoaderAssumption
      <4>2. loading' = 0 \/ (loading' = 1 /\ Len(Awards) > 0)
        BY <1>a, <4>1
      <4>3. loading' \in 0..Len(Awards)
        BY <4>2, LoaderBounds
      <4>4. loads \in 0..MaxLoads /\ named \in BOOLEAN
        BY DEF TypeOK, LoaderOK
      <4>5. loads' \in 0..MaxLoads
        BY <1>a, <4>4, LoaderBounds
      <4> QED
        BY <1>a, <4>3, <4>4, <4>5
    <3> QED
      BY <1>a, <3>1 DEF TypeOK, LoaderOK
  <2> QED
    BY <1>a, <2>1, <2>2, RequestsKept DEF TypeOK
<1>2. FoundExists' /\ FlushedAlone' /\ Unrecorded' /\ FirstsMet'
  BY <1>a, RequestsKept DEF FoundExists, FlushedAlone, Unrecorded, VendorOf, request
<1>3. NamedExists'
  BY <1>a DEF NamedExists
<1>4. LoadedNames' = LoadedNames
  BY <1>a DEF LoadedNames
<1>5. LoadedExists' /\ OneRowPerVendor'
  BY <1>a, <1>4 DEF LoadedExists, OneRowPerVendor
<1>6. StillFirst'
  BY <1>a, <1>4 DEF StillFirst, Matches, VendorOf, request
<1>7. UpsertsCounted'
  BY <1>a, LoaderBounds DEF UpsertsCounted, NamedExists, TypeOK, LoaderOK
<1>8. AwardsBooked'
  BY <1>a DEF AwardsBooked, NamedExists
<1> QED
  BY <1>1, <1>2, <1>3, <1>5, <1>6, <1>7, <1>8

\* The first transaction of an award: it adds to a vendor's row or inserts one.
LEMMA UpsertVendorInv == ASSUME VendorInv, UpsertVendor PROVE VendorInv'
<1> USE DEF VendorInv
<1> DEFINE a == Awards[loading]
           summary == IF a.name \in DOMAIN vendors
                      THEN [total |-> vendors[a.name].total + a.amount,
                            count |-> vendors[a.name].count + 1]
                      ELSE [total |-> a.amount, count |-> 1]
<1>a. /\ loading \in DOMAIN Awards
      /\ a.name \in Spellings /\ a.amount \in Int
  BY AwardAt DEF UpsertVendor, TypeOK
<1>b. /\ named' = TRUE /\ ~named /\ loading # 0
      /\ vendors' = WithSummary(a.name, summary)
      /\ upserts' = [upserts EXCEPT ![loading] = @ + 1]
      /\ overlaid' \subseteq overlaid \cup {loading}
      /\ UNCHANGED <<history, request, loading, loads, overlapped, raced, torn>>
      /\ ~NameInFlight(a.name)
  BY DEF UpsertVendor
<1>c. summary \in Summary
  BY <1>a DEF TypeOK, TablesOK, Summary
<1> HIDE DEF summary
<1>d. /\ DOMAIN vendors' = DOMAIN vendors \cup {a.name}
      /\ \A n \in DOMAIN vendors' : vendors'[n] \in Summary
  BY <1>a, <1>b, <1>c, WithSummaryType
<1>e. /\ upserts[loading] \in Nat /\ upserts'[loading] = upserts[loading] + 1
      /\ \A k \in DOMAIN Awards : upserts'[k] = upserts[k] \/ (k = loading /\ upserts'[k] > 0)
      /\ \A k \in DOMAIN Awards : upserts[k] > 0 => upserts'[k] > 0
  BY <1>a, <1>b, LoaderBounds DEF TypeOK, LoaderOK
<1>f. LoadedNames' = LoadedNames \cup {a.name}
  BY <1>a, <1>e DEF LoadedNames
<1>1. TypeOK'
  <2>1. TablesOK'
    BY <1>a, <1>b, <1>d DEF TypeOK, TablesOK
  <2>2. LoaderOK'
    <3>1. upserts[loading] + 1 <= loads
      BY <1>a, LoaderBounds DEF UpsertVendor, UpsertsCounted, TypeOK, LoaderOK
    <3>2. upserts[loading] + 1 \in 0..MaxLoads
      BY <1>e, <3>1, LoaderBounds DEF TypeOK, LoaderOK
    <3>3. upserts' \in [DOMAIN Awards -> 0..MaxLoads]
      BY <1>a, <1>b, <3>2 DEF TypeOK, LoaderOK
    <3> QED
      BY <1>b, <3>3, LoaderBounds DEF TypeOK, LoaderOK
  <2> QED
    BY <1>b, <2>1, <2>2, RequestsKept DEF TypeOK
<1>2. FoundExists' /\ Unrecorded' /\ FirstsMet'
  BY <1>b, <1>d, RequestsKept DEF FoundExists, Unrecorded, VendorOf, request
<1>3. FlushedAlone'
  BY <1>b, <1>d DEF FlushedAlone, NameInFlight, request
<1>4. NamedExists'
  BY <1>b, <1>e DEF NamedExists
<1>5. LoadedExists'
  BY <1>d, <1>f DEF LoadedExists
<1>6. StillFirst'
  BY <1>b, <1>d, <1>f DEF StillFirst, VendorOf, Matches, request
<1>7. OneRowPerVendor'
  BY <1>b, <1>d, <1>f DEF OneRowPerVendor
<1>8. UpsertsCounted'
  BY <1>a, <1>b, <1>e, LoaderBounds DEF UpsertVendor, UpsertsCounted, TypeOK, LoaderOK
<1>9. AwardsBooked'
  BY <1>a, <1>b, <1>e DEF AwardsBooked
<1> QED
  BY <1>1, <1>2, <1>3, <1>4, <1>5, <1>6, <1>7, <1>8, <1>9

\* The second one: the award is itemised, and the loader goes on.
LEMMA UpsertHistoryInv == ASSUME VendorInv, UpsertHistory PROVE VendorInv'
<1> USE DEF VendorInv
<1> DEFINE a == Awards[loading]
<1>a. /\ loading # 0 /\ named /\ upserts[loading] > 0
      /\ named' = FALSE /\ torn' = torn \ {loading}
      /\ loading' = IF loading = Len(Awards) THEN 0 ELSE loading + 1
      /\ UNCHANGED <<vendors, request, loads, upserts, overlapped, overlaid, raced>>
  BY DEF UpsertHistory, NextAward, NamedExists
<1>b. /\ loading \in DOMAIN Awards
      /\ a \in [id : STRING, name : Spellings, amount : Int]
      /\ a.id \notin Payments
  BY <1>a, AwardAt DEF TypeOK
<1>e. a.name \in DOMAIN vendors
  BY <1>a, <1>b DEF LoadedExists, LoadedNames
<1>c. \A h \in history' :
        /\ h \in [id : AwardIds, name : DOMAIN vendors, amount : Int]
        /\ h.id = a.id \/ h \in history
  <2>1. CASE \E h \in history : h.id = a.id
    BY <1>b, <2>1 DEF UpsertHistory, TypeOK, TablesOK
  <2>2. CASE ~\E h \in history : h.id = a.id
    BY <1>b, <1>e, <2>2 DEF UpsertHistory, TypeOK, TablesOK, AwardIds
  <2> QED
    BY <2>1, <2>2
<1>d. \A g, h \in history' : g.id = h.id => g = h
  BY <1>b DEF UpsertHistory, TypeOK, TablesOK
<1>f. /\ \E h \in history' : h.id = a.id
      /\ \A g \in history : \E h \in history' : h.id = g.id
      /\ \A h \in history' : \/ h = a
                             \/ \E g \in history : g.id = h.id /\ g.name = h.name
  <2>1. CASE \E h \in history : h.id = a.id
    <3>1. history' = {IF h.id = a.id THEN [h EXCEPT !.amount = a.amount] ELSE h : h \in history}
      BY <2>1 DEF UpsertHistory
    <3>2. \A g \in history : LET h == IF g.id = a.id THEN [g EXCEPT !.amount = a.amount] ELSE g
                             IN h \in history' /\ h.id = g.id /\ h.name = g.name
      BY <3>1 DEF TypeOK, TablesOK
    <3>3. \A g \in history : \E h \in history' : h.id = g.id
      BY <3>2
    <3>4. \E h \in history' : h.id = a.id
      BY <2>1, <3>3
    <3>5. \A h \in history' : \E g \in history :
              h = IF g.id = a.id THEN [g EXCEPT !.amount = a.amount] ELSE g
      BY <3>1
    <3>6. \A g \in history : LET h == IF g.id = a.id THEN [g EXCEPT !.amount = a.amount] ELSE g
                             IN g.id = h.id /\ g.name = h.name
      BY <3>2
    <3>7. ASSUME NEW h \in history'
          PROVE  \E g \in history : g.id = h.id /\ g.name = h.name
      <4>1. PICK g \in history : h = IF g.id = a.id THEN [g EXCEPT !.amount = a.amount] ELSE g
        BY <3>5
      <4> QED
        BY <3>6, <4>1
    <3> HIDE DEF a, VendorInv
    <3> QED
      BY <3>3, <3>4, <3>7
  <2>2. CASE ~\E h \in history : h.id = a.id
    BY <2>2 DEF UpsertHistory
  <2> QED
    BY <2>1, <2>2
<1>1. TypeOK'
  <2>1. TablesOK'
    BY <1>a, <1>c, <1>d DEF TypeOK, TablesOK
  <2>2. LoaderOK'
    <3>1. loading' \in 0..Len(Awards)
      BY <1>a, LoaderBounds DEF TypeOK, LoaderOK
    <3> QED
      BY <1>a, <3>1, LoaderBounds DEF TypeOK, LoaderOK
  <2> QED
    BY <1>a, <2>1, <2>2, RequestsKept DEF TypeOK
<1>2. FoundExists' /\ FlushedAlone' /\ FirstsMet'
  BY <1>a, RequestsKept DEF FoundExists, FlushedAlone, VendorOf, request
<1>3. NamedExists'
  BY <1>a DEF NamedExists
<1>4. LoadedNames' = LoadedNames
  BY <1>a DEF LoadedNames
<1>5. LoadedExists' /\ OneRowPerVendor'
  BY <1>a, <1>4 DEF LoadedExists, OneRowPerVendor
<1>6. Unrecorded'
  BY <1>a, <1>b, <1>c DEF Unrecorded, request
<1>7. StillFirst'
  BY <1>a, <1>4 DEF StillFirst, VendorOf, Matches, request
<1>8. UpsertsCounted'
  BY <1>a, <1>b, LoaderBounds DEF UpsertHistory, UpsertsCounted, TypeOK, LoaderOK
<1>9. AwardsBooked'
  <2>1. ASSUME NEW k \in DOMAIN Awards, upserts[k] > 0, k \notin torn'
        PROVE  \E h \in history' : h.id = Awards[k].id
    BY <1>a, <1>f, <2>1 DEF AwardsBooked
  <2>2. ASSUME NEW h \in history', h.id \notin Payments
        PROVE  \E k \in DOMAIN Awards :
                   Awards[k].id = h.id /\ Awards[k].name = h.name /\ upserts[k] > 0
    BY <1>a, <1>b, <1>f, <2>2 DEF AwardsBooked
  <2> QED
    BY <1>a, <2>1, <2>2 DEF AwardsBooked
<1> QED
  BY <1>1, <1>2, <1>3, <1>5, <1>6, <1>7, <1>8, <1>9

\* Every step of requests and loader keeps the invariant.
LEMMA StepInv == VendorInv /\ [Next]_vars => VendorInv'
<1> SUFFICES ASSUME VendorInv, [Next]_vars
             PROVE  VendorInv'
  OBVIOUS
<1>1. ASSUME NEW p \in Payments, Record(p)
      PROVE  VendorInv'
  BY <1>1, RequestInv, CommitNewInv, CommitUpdateInv DEF Record
<1>2. CASE Load
  BY <1>2, BetweenAwardsInv, UpsertVendorInv, UpsertHistoryInv DEF Load
<1>3. CASE UNCHANGED vars
  <2> USE <1>3 DEF VendorInv, vars, request, loader, notes
  <2>1. TypeOK'
    BY DEF TypeOK, TablesOK, RequestsOK, LoaderOK
  <2>2. NamedExists' /\ UpsertsCounted' /\ LoadedNames' = LoadedNames
    BY LoaderKept
  <2>3. FoundExists' /\ LoadedExists' /\ Unrecorded' /\ FlushedAlone'
    BY <2>2 DEF FoundExists, LoadedExists, Unrecorded, FlushedAlone, VendorOf
  <2>4. FirstsMet'
    BY RequestsKept
  <2>5. StillFirst'
    BY <2>2 DEF StillFirst, VendorOf, Matches
  <2>6. OneRowPerVendor'
    BY <2>2 DEF OneRowPerVendor
  <2>7. AwardsBooked'
    BY DEF AwardsBooked
  <2> QED
    BY <2>1, <2>2, <2>3, <2>4, <2>5, <2>6, <2>7
<1> QED
  BY <1>1, <1>2, <1>3 DEF Next

\* The strengthened invariant holds in every reachable state.
THEOREM Invariance == Spec => []VendorInv
BY InitInv, StepInv, PTL DEF Spec

\* The types hold in every reachable state: an itemised payment has its vendor's
\* summary, and no two payments share an award_id.
THEOREM TypeCorrect == Spec => []TypeOK
BY Invariance, PTL DEF VendorInv

\* record_vendor_payment and the loader leave one summary per vendor, except for
\* what OneRowPerVendor names: first payments that met, and spellings of the loader.
THEOREM VendorsStaySingle == Spec => []OneRowPerVendor
BY Invariance, PTL DEF VendorInv

\* The loader itemises what it counts, except where it was killed between the two
\* transactions of an award, and counts what it itemises.
THEOREM LoadsBooked == Spec => []AwardsBooked
BY Invariance, PTL DEF VendorInv

-----------------------------------------------------------------------------
(* What a summary says of the rows and the loads it counts *)

RowAmounts(S) == [h \in S |-> h.amount]

LoadAmounts(times) == [k \in DOMAIN Awards |-> times[k] * Awards[k].amount]

\* A vendor has finitely many awards, each of some amount.
LEMMA AwardsFinite ==
    ASSUME NEW n
    PROVE  /\ IsFiniteSet(AwardsOf(n)) /\ AwardsOf(n) \subseteq DOMAIN Awards
           /\ \A k \in DOMAIN Awards : Awards[k].amount \in Int /\ Awards[k].name \in Spellings
<1> DEFINE Award == [id : STRING, name : Spellings, amount : Int]
<1>1. Awards \in Seq(Award)
  BY LoaderAssumption
<1>2. \A b \in Award : b.amount \in Int /\ b.name \in Spellings
  OBVIOUS
<1> HIDE DEF Award
<1>3. DOMAIN Awards = 1..Len(Awards) /\ Len(Awards) \in Nat /\ \A k \in DOMAIN Awards : Awards[k] \in Award
  BY <1>1
<1>4. IsFiniteSet(DOMAIN Awards)
  BY <1>3, FS_Interval
<1>5. AwardsOf(n) \subseteq DOMAIN Awards
  BY DEF AwardsOf
<1> QED
  BY <1>2, <1>3, <1>4, <1>5, FS_Subset

\* Its parts are integers.
LEMMA SummaryParts ==
    ASSUME NEW n, NEW S, IsFiniteSet(S), \A h \in S : h.amount \in Int,
           NEW times \in [DOMAIN Awards -> Nat]
    PROVE  /\ Cardinality(S) \in Int
           /\ SumFunctionOnSet(times, AwardsOf(n)) \in Int
           /\ SumFunctionOnSet(RowAmounts(S), S) \in Int
           /\ SumFunctionOnSet(LoadAmounts(times), AwardsOf(n)) \in Int
           /\ SummaryOf(n, S, times) =
                 [total |-> SumFunctionOnSet(RowAmounts(S), S)
                              + SumFunctionOnSet(LoadAmounts(times), AwardsOf(n)),
                  count |-> Cardinality(S) + SumFunctionOnSet(times, AwardsOf(n))]
<1>1. /\ IsFiniteSet(AwardsOf(n)) /\ AwardsOf(n) \subseteq DOMAIN Awards
      /\ \A k \in DOMAIN Awards : Awards[k].amount \in Int
  BY AwardsFinite
<1>2. Cardinality(S) \in Int
  BY FS_CardinalityType
<1>3. SumFunctionOnSet(times, AwardsOf(n)) \in Int
  <2>1. \A k \in AwardsOf(n) : times[k] \in Int
    BY <1>1
  <2> QED
    BY <1>1, <2>1, SumType
<1>4. SumFunctionOnSet(RowAmounts(S), S) \in Int
  <2>1. \A h \in S : RowAmounts(S)[h] \in Int
    BY DEF RowAmounts
  <2> QED
    BY <2>1, SumType
<1>5. SumFunctionOnSet(LoadAmounts(times), AwardsOf(n)) \in Int
  <2>1. \A k \in AwardsOf(n) : LoadAmounts(times)[k] \in Int
    BY <1>1 DEF LoadAmounts
  <2> QED
    BY <1>1, <2>1, SumType
<1>6. SumFunction(RowAmounts(S)) = SumFunctionOnSet(RowAmounts(S), S)
  <2>1. DOMAIN RowAmounts(S) = S
    BY DEF RowAmounts
  <2> QED
    BY <2>1 DEF SumFunction
<1> QED
  BY <1>2, <1>3, <1>4, <1>5, <1>6 DEF SummaryOf, RowAmounts, LoadAmounts

\* Nothing is counted of a vendor without payments and loads.
LEMMA NoneCounted ==
    ASSUME NEW n, NEW times \in [DOMAIN Awards -> Nat], \A k \in AwardsOf(n) : times[k] = 0
    PROVE  SummaryOf(n, {}, times) = NothingRead
<1>1. /\ IsFiniteSet(AwardsOf(n)) /\ AwardsOf(n) \subseteq DOMAIN Awards
      /\ \A k \in DOMAIN Awards : Awards[k].amount \in Int
  BY AwardsFinite
<1>2. SumFunctionOnSet(times, AwardsOf(n)) = 0
  BY <1>1, SumZero
<1>3. SumFunctionOnSet(LoadAmounts(times), AwardsOf(n)) = 0
  <2>1. \A k \in AwardsOf(n) : LoadAmounts(times)[k] = 0
    BY <1>1 DEF LoadAmounts
  <2> QED
    BY <1>1, <2>1, SumZero
<1>4. SumFunctionOnSet(RowAmounts({}), {}) = 0
  BY SumEmpty
<1>5. Cardinality({}) = 0 /\ IsFiniteSet({})
  BY FS_EmptySet
<1>6. SummaryOf(n, {}, times) = [total |-> 0 + 0, count |-> 0 + 0]
  BY <1>2, <1>3, <1>4, <1>5, SummaryParts
<1> QED
  BY <1>6 DEF NothingRead

\* A row more adds its amount.
LEMMA RowCounts ==
    ASSUME NEW n, NEW S, IsFiniteSet(S), \A h \in S : h.amount \in Int,
           NEW times \in [DOMAIN Awards -> Nat],
           NEW row, row \notin S, row.amount \in Int
    PROVE  LET before == SummaryOf(n, S, times)
           IN SummaryOf(n, S \cup {row}, times) =
                 [total |-> before.total + row.amount, count |-> before.count + 1]
<1> DEFINE T == S \cup {row}
           loadTotal == SumFunctionOnSet(LoadAmounts(times), AwardsOf(n))
           loadCount == SumFunctionOnSet(times, AwardsOf(n))
<1>1. IsFiniteSet(T) /\ Cardinality(T) = Cardinality(S) + 1
  BY FS_AddElement
<1>2. \A h \in T : h.amount \in Int
  OBVIOUS
<1>3. SumFunctionOnSet(RowAmounts(T), T) = SumFunctionOnSet(RowAmounts(S), S) + row.amount
  <2>1. \A h \in T : RowAmounts(T)[h] \in Int
    BY <1>2 DEF RowAmounts
  <2>2. RowAmounts(T)[row] = row.amount /\ \A h \in S : RowAmounts(T)[h] = RowAmounts(S)[h]
    BY DEF RowAmounts
  <2>3. SumFunctionOnSet(RowAmounts(T), T) = SumFunctionOnSet(RowAmounts(T), S) + RowAmounts(T)[row]
    BY <2>1, SumAdd
  <2>4. SumFunctionOnSet(RowAmounts(T), S) = SumFunctionOnSet(RowAmounts(S), S)
    BY <2>2, SumAgree
  <2> QED
    BY <2>2, <2>3, <2>4
<1>4. /\ SummaryOf(n, S, times) = [total |-> SumFunctionOnSet(RowAmounts(S), S) + loadTotal,
                                   count |-> Cardinality(S) + loadCount]
      /\ Cardinality(S) \in Int /\ loadCount \in Int /\ loadTotal \in Int
      /\ SumFunctionOnSet(RowAmounts(S), S) \in Int
  BY SummaryParts
<1> HIDE DEF T
<1>5. SummaryOf(n, T, times) = [total |-> SumFunctionOnSet(RowAmounts(T), T) + loadTotal,
                                count |-> Cardinality(T) + loadCount]
  BY <1>1, <1>2, SummaryParts
<1> HIDE DEF loadTotal, loadCount
<1>6. SummaryOf(n, T, times) = [total |-> SummaryOf(n, S, times).total + row.amount,
                                count |-> SummaryOf(n, S, times).count + 1]
  BY <1>1, <1>3, <1>4, <1>5
<1> QED
  BY <1>6 DEF T

\* A load more adds that of its award.
LEMMA LoadCounts ==
    ASSUME NEW n, NEW S, IsFiniteSet(S), \A h \in S : h.amount \in Int,
           NEW times \in [DOMAIN Awards -> Nat], NEW k \in AwardsOf(n),
           NEW more \in [DOMAIN Awards -> Nat], more[k] = times[k] + 1,
           \A x \in DOMAIN Awards \ {k} : more[x] = times[x]
    PROVE  LET before == SummaryOf(n, S, times)
           IN SummaryOf(n, S, more) =
                 [total |-> before.total + Awards[k].amount, count |-> before.count + 1]
<1> DEFINE rowTotal == SumFunctionOnSet(RowAmounts(S), S)
           award == Awards[k].amount
           mine == AwardsOf(n)
<1>1. /\ IsFiniteSet(mine) /\ mine \subseteq DOMAIN Awards /\ k \in DOMAIN Awards
      /\ \A x \in DOMAIN Awards : Awards[x].amount \in Int
  BY AwardsFinite
<1>2. award \in Int /\ times[k] \in Nat
  BY <1>1
<1>3. SumFunctionOnSet(more, mine) = SumFunctionOnSet(times, mine) + 1
  <2>1. /\ \A x \in mine : times[x] \in Int
        /\ \A x \in mine \ {k} : more[x] = times[x]
        /\ 1 \in Int
    BY <1>1
  <2> QED
    BY <1>1, <2>1, SumRaise
<1>4. SumFunctionOnSet(LoadAmounts(more), mine) = SumFunctionOnSet(LoadAmounts(times), mine) + award
  <2>1. \A x \in DOMAIN Awards : /\ LoadAmounts(times)[x] = times[x] * Awards[x].amount
                                 /\ LoadAmounts(more)[x] = more[x] * Awards[x].amount
                                 /\ times[x] * Awards[x].amount \in Int
    BY <1>1 DEF LoadAmounts
  <2>2. LoadAmounts(more)[k] = LoadAmounts(times)[k] + award
    <3>1. (times[k] + 1) * award = times[k] * award + award
      BY <1>2
    <3> QED
      BY <1>1, <2>1, <3>1
  <2>3. /\ \A x \in mine : LoadAmounts(times)[x] \in Int
        /\ \A x \in mine \ {k} : LoadAmounts(more)[x] = LoadAmounts(times)[x]
    BY <1>1, <2>1
  <2> HIDE DEF mine, award
  <2> QED
    BY <1>1, <1>2, <2>2, <2>3, SumRaise DEF mine
<1>5. /\ SummaryOf(n, S, times) = [total |-> rowTotal + SumFunctionOnSet(LoadAmounts(times), mine),
                                   count |-> Cardinality(S) + SumFunctionOnSet(times, mine)]
      /\ SummaryOf(n, S, more) = [total |-> rowTotal + SumFunctionOnSet(LoadAmounts(more), mine),
                                  count |-> Cardinality(S) + SumFunctionOnSet(more, mine)]
      /\ Cardinality(S) \in Int /\ rowTotal \in Int /\ SumFunctionOnSet(times, mine) \in Int
      /\ SumFunctionOnSet(LoadAmounts(times), mine) \in Int
  BY SummaryParts
<1> HIDE DEF rowTotal, award, mine
<1>6. SummaryOf(n, S, more) = [total |-> SummaryOf(n, S, times).total + award,
                               count |-> SummaryOf(n, S, times).count + 1]
  BY <1>2, <1>3, <1>4, <1>5
<1> QED
  BY <1>6 DEF award

-----------------------------------------------------------------------------
(* The summaries and what they count, step by step *)

\* What a vendor has more of than before, nobody who has read its summary counts.
Grown(m) ==
    /\ LiveRows(m) \subseteq LiveRows(m)'
    /\ \A h \in LiveRows(m)' \ LiveRows(m) : h.id \in overlapped'
    /\ overlapped \subseteq overlapped'
    /\ overlaid \subseteq overlaid'
    /\ \A k \in AwardsOf(m) : /\ upserts[k] <= upserts'[k]
                              /\ upserts'[k] = upserts[k] \/ k \in overlaid'

\* The loader counts each award in natural numbers, and a row has an amount.
LEMMA CountedTypes ==
    ASSUME VendorInv
    PROVE  /\ \A k \in DOMAIN Awards : upserts[k] \in Nat
           /\ \A n : \A h \in LiveRows(n) : h.amount \in Int
           /\ [DOMAIN Awards -> 0..MaxLoads] \subseteq [DOMAIN Awards -> Nat]
           /\ MaxLoads \in Nat
<1>1. \A k \in DOMAIN Awards : upserts[k] \in Nat
  BY LoaderBounds DEF VendorInv, TypeOK, LoaderOK
<1>2. \A n : \A h \in LiveRows(n) : h.amount \in Int
  BY DEF VendorInv, TypeOK, TablesOK, LiveRows
<1>3. 0..MaxLoads \subseteq Nat
  BY LoaderBounds
<1> QED
  BY <1>1, <1>2, <1>3, LoaderBounds

\* A summary goes on adding up when the vendor grows in this way only.
LEMMA AddsUpKept ==
    ASSUME VendorInv, VendorInv', NEW n \in Spellings, NEW summary,
           AddsUp(n, summary), Grown(n)
    PROVE  AddsUp(n, summary)'
<1>1. PICK S \in SUBSET LiveRows(n), times \in [DOMAIN Awards -> 0..MaxLoads] :
        /\ \A h \in LiveRows(n) \ S : h.id \in overlapped
        /\ \A k \in AwardsOf(n) :
              /\ times[k] <= upserts[k]
              /\ k \notin overlaid => times[k] = upserts[k]
        /\ summary = SummaryOf(n, S, times)
  BY DEF AddsUp
<1>2. S \in SUBSET (LiveRows(n)')
  BY DEF Grown
<1>3. \A h \in LiveRows(n)' \ S : h.id \in overlapped'
  BY <1>1 DEF Grown
<1>4. ASSUME NEW k \in AwardsOf(n)
      PROVE  /\ times[k] <= upserts'[k]
             /\ k \notin overlaid' => times[k] = upserts'[k]
  <2>1. k \in DOMAIN Awards
    BY DEF AwardsOf
  <2>2. times[k] \in Nat /\ upserts[k] \in Nat
    BY <2>1, CountedTypes
  <2>3. upserts'[k] \in Nat
    BY <2>1, LoaderBounds DEF VendorInv, TypeOK, LoaderOK
  <2>4. /\ times[k] <= upserts[k] /\ upserts[k] <= upserts'[k]
        /\ k \notin overlaid => times[k] = upserts[k]
        /\ upserts'[k] = upserts[k] \/ k \in overlaid'
        /\ overlaid \subseteq overlaid'
    BY <1>1 DEF Grown
  <2> QED
    BY <2>2, <2>3, <2>4
<1> QED
  BY <1>1, <1>2, <1>3, <1>4 DEF AddsUp, AwardsOf

\* A vendor without a summary has nothing to count.
LEMMA AbsentAddsUp ==
    ASSUME VendorInv, NEW n \in Spellings, n \notin DOMAIN vendors
    PROVE  AddsUp(n, NothingRead)
<1> DEFINE none == [k \in DOMAIN Awards |-> 0]
<1>1. LiveRows(n) = {}
  BY DEF LiveRows, VendorInv, TypeOK, TablesOK
<1>2. AwardsOf(n) \subseteq DOMAIN Awards
  BY DEF AwardsOf
<1>3. \A k \in AwardsOf(n) : upserts[k] = 0 /\ none[k] = 0
  <2> SUFFICES ASSUME NEW k \in AwardsOf(n) PROVE upserts[k] = 0
    BY <1>2
  <2>1. Awards[k].name = n /\ upserts[k] \in Nat
    BY <1>2, CountedTypes DEF AwardsOf
  <2>2. ~(upserts[k] > 0)
    BY <1>2, <2>1 DEF VendorInv, LoadedExists, LoadedNames
  <2> QED
    BY <2>1, <2>2
<1>4. none \in [DOMAIN Awards -> Nat] /\ none \in [DOMAIN Awards -> 0..MaxLoads]
  BY LoaderBounds
<1> HIDE DEF none
<1>5. NothingRead = SummaryOf(n, {}, none)
  BY <1>3, <1>4, NoneCounted
<1>6. \A k \in AwardsOf(n) : none[k] <= upserts[k] /\ none[k] = upserts[k]
  BY <1>3
<1> QED
  BY <1>1, <1>4, <1>5, <1>6 DEF AddsUp

\* A payment that is recorded with a summary counts in it.
LEMMA RecordedAddsUp ==
    ASSUME VendorInv, NEW n \in Spellings, NEW p \in Payments, NEW before, NEW after,
           AddsUp(n, before), IsFiniteSet(LiveRows(n)), pc[p] # "done",
           history' = history \cup {Live(p, n)}, overlapped \subseteq overlapped',
           UNCHANGED <<upserts, overlaid>>,
           after = [total |-> before.total + AmountOf[p], count |-> before.count + 1]
    PROVE  AddsUp(n, after)'
<1>1. PICK S \in SUBSET LiveRows(n), times \in [DOMAIN Awards -> 0..MaxLoads] :
        /\ \A h \in LiveRows(n) \ S : h.id \in overlapped
        /\ \A k \in AwardsOf(n) :
              /\ times[k] <= upserts[k]
              /\ k \notin overlaid => times[k] = upserts[k]
        /\ before = SummaryOf(n, S, times)
  BY DEF AddsUp
<1>2. PICK row : row = Live(p, n)
  OBVIOUS
<1>3. row.id = p /\ row.name = n /\ row.amount = AmountOf[p] /\ row.amount \in Int
  BY <1>2, PaymentAssumption DEF Live
<1>4. row \notin LiveRows(n)
  BY <1>3 DEF VendorInv, Unrecorded, LiveRows
<1>5. LiveRows(n)' = LiveRows(n) \cup {row}
  BY <1>2, <1>3 DEF LiveRows
<1>6. IsFiniteSet(S) /\ \A h \in S : h.amount \in Int
  BY CountedTypes, FS_Subset
<1>7. times \in [DOMAIN Awards -> Nat]
  BY CountedTypes
<1>8. after = SummaryOf(n, S \cup {row}, times)
  BY <1>1, <1>3, <1>4, <1>6, <1>7, RowCounts
<1>9. S \cup {row} \in SUBSET (LiveRows(n)')
  BY <1>5
<1>10. \A h \in LiveRows(n)' \ (S \cup {row}) : h.id \in overlapped'
  BY <1>1, <1>5
<1>11. \A k \in AwardsOf(n) : /\ times[k] <= upserts'[k]
                              /\ k \notin overlaid' => times[k] = upserts'[k]
  BY <1>1
<1> QED
  BY <1>8, <1>9, <1>10, <1>11 DEF AddsUp, AwardsOf

\* So does an award that is upserted.
LEMMA LoadedAddsUp ==
    ASSUME VendorInv, VendorInv', NEW n \in Spellings, NEW k \in AwardsOf(n),
           NEW before, NEW after, AddsUp(n, before), IsFiniteSet(LiveRows(n)),
           upserts'[k] = upserts[k] + 1,
           \A x \in DOMAIN Awards \ {k} : upserts'[x] = upserts[x],
           overlaid \subseteq overlaid', UNCHANGED <<history, overlapped>>,
           after = [total |-> before.total + Awards[k].amount, count |-> before.count + 1]
    PROVE  AddsUp(n, after)'
<1>1. PICK S \in SUBSET LiveRows(n), times \in [DOMAIN Awards -> 0..MaxLoads] :
        /\ \A h \in LiveRows(n) \ S : h.id \in overlapped
        /\ \A x \in AwardsOf(n) :
              /\ times[x] <= upserts[x]
              /\ x \notin overlaid => times[x] = upserts[x]
        /\ before = SummaryOf(n, S, times)
  BY DEF AddsUp
<1>2. k \in DOMAIN Awards /\ AwardsOf(n) \subseteq DOMAIN Awards
  BY DEF AwardsOf
<1>3. \A x \in DOMAIN Awards : times[x] \in Nat /\ upserts[x] \in Nat
  BY CountedTypes
<1>4. upserts'[k] <= MaxLoads
  BY <1>2, LoaderBounds DEF VendorInv, TypeOK, LoaderOK
<1>5. PICK more : more = [times EXCEPT ![k] = @ + 1]
  OBVIOUS
<1>6. more[k] = times[k] + 1 /\ \A x \in DOMAIN Awards \ {k} : more[x] = times[x]
  BY <1>2, <1>5
<1>7. times[k] + 1 \in 0..MaxLoads
  BY <1>1, <1>2, <1>3, <1>4, CountedTypes
<1>8. more \in [DOMAIN Awards -> 0..MaxLoads]
  BY <1>5, <1>7
<1>9. IsFiniteSet(S) /\ \A h \in S : h.amount \in Int
  BY CountedTypes, FS_Subset
<1>10. times \in [DOMAIN Awards -> Nat] /\ more \in [DOMAIN Awards -> Nat]
  BY <1>8, CountedTypes
<1>11. after = SummaryOf(n, S, more)
  BY <1>1, <1>6, <1>9, <1>10, LoadCounts
<1>12. ASSUME NEW x \in AwardsOf(n)
       PROVE  /\ more[x] <= upserts'[x]
              /\ x \notin overlaid' => more[x] = upserts'[x]
  <2>1. /\ times[x] <= upserts[x]
        /\ x \notin overlaid => times[x] = upserts[x]
        /\ times[x] \in Nat /\ upserts[x] \in Nat
    BY <1>1, <1>2, <1>3
  <2>2. CASE x = k
    BY <1>6, <2>1, <2>2
  <2>3. CASE x # k
    BY <1>2, <1>6, <2>1, <2>3
  <2> QED
    BY <2>2, <2>3
<1>13. LiveRows(n)' = LiveRows(n)
  BY DEF LiveRows
<1>14. \A h \in LiveRows(n)' \ S : h.id \in overlapped'
  BY <1>1, <1>13
<1> QED
  BY <1>8, <1>11, <1>12, <1>13, <1>14 DEF AddsUp, AwardsOf

\* A step that leaves the summaries alone, and their vendors as they were or grown:
\* a request in flight has read what it had read, or what the row says.
LEMMA QuietSummary ==
    ASSUME VendorInv, VendorInv', SummaryInv, vendors' = vendors,
           UNCHANGED <<upserts, overlapped, overlaid>>,
           \A n \in Spellings : LiveRows(n)' = LiveRows(n),
           \A p \in Payments : pc'[p] = "write" =>
              \/ pc[p] = "write" /\ found'[p] = found[p] /\ read'[p] = read[p]
              \/ found'[p] \in DOMAIN vendors /\ read'[p] = vendors[found'[p]]
    PROVE  SummaryInv'
<1>1. \A n \in Spellings : Grown(n)
  <2> SUFFICES ASSUME NEW n \in Spellings PROVE Grown(n)
    OBVIOUS
  <2>1. \A k \in AwardsOf(n) : upserts[k] <= upserts'[k]
    BY CountedTypes DEF AwardsOf
  <2> QED
    BY <2>1 DEF Grown
<1>2. DOMAIN vendors \subseteq Spellings
  BY DEF VendorInv, TypeOK, TablesOK
<1>3. SummaryAddsUp'
  <2> SUFFICES ASSUME NEW n \in DOMAIN vendors'
               PROVE  AddsUp(n, vendors[n])'
    BY DEF SummaryAddsUp
  <2>1. PICK summary : summary = vendors[n]
    OBVIOUS
  <2>2. AddsUp(n, summary)
    BY <2>1 DEF SummaryInv, SummaryAddsUp
  <2>3. AddsUp(n, summary)'
    BY <1>1, <1>2, <2>2, AddsUpKept
  <2>4. summary = vendors'[n]
    BY <2>1
  <2> QED
    BY <2>3, <2>4 DEF AddsUp
<1>4. ReadAddsUp'
  <2> SUFFICES ASSUME NEW p \in Payments, NEW n \in Spellings, pc'[p] = "write", found'[p] = n
               PROVE  AddsUp(n, read[p])'
    BY DEF ReadAddsUp
  <2>1. PICK summary : summary = read'[p]
    OBVIOUS
  <2>2. AddsUp(n, summary)
    <3>1. CASE pc[p] = "write" /\ found'[p] = found[p] /\ read'[p] = read[p]
      <4>1. AddsUp(n, read[p])
        BY <3>1 DEF SummaryInv, ReadAddsUp
      <4> QED
        BY <2>1, <3>1, <4>1
    <3>2. CASE found'[p] \in DOMAIN vendors /\ read'[p] = vendors[found'[p]]
      <4>1. AddsUp(n, vendors[n])
        BY <3>2 DEF SummaryInv, SummaryAddsUp
      <4> QED
        BY <2>1, <3>2, <4>1
    <3> QED
      BY <3>1, <3>2
  <2>3. AddsUp(n, summary)'
    BY <1>1, <2>2, AddsUpKept
  <2> QED
    BY <2>1, <2>3 DEF AddsUp
<1>5. \A n \in Spellings : IsFiniteSet(LiveRows(n)')
  BY DEF SummaryInv
<1> QED
  BY <1>3, <1>4, <1>5 DEF SummaryInv

\* A step that writes one vendor's summary, which then adds up: whoever has read
\* it before does not count what came with it.
LEMMA WrittenSummary ==
    ASSUME VendorInv, VendorInv', SummaryInv, NEW n \in Spellings, NEW summary,
           vendors' = WithSummary(n, summary), AddsUp(n, summary)',
           \A m \in Spellings : IsFiniteSet(LiveRows(m)'),
           \A m \in Spellings \ {n} : Grown(m),
           \A q \in Payments : pc'[q] = "write" =>
              /\ pc[q] = "write" /\ found'[q] = found[q] /\ read'[q] = read[q]
              /\ found[q] = n => Grown(n)
    PROVE  SummaryInv'
<1>1. /\ DOMAIN vendors' = DOMAIN vendors \cup {n}
      /\ vendors'[n] = summary
      /\ \A m \in DOMAIN vendors \ {n} : vendors'[m] = vendors[m]
  BY DEF WithSummary
<1>2. DOMAIN vendors \subseteq Spellings
  BY DEF VendorInv, TypeOK, TablesOK
<1>3. SummaryAddsUp'
  <2> SUFFICES ASSUME NEW m \in DOMAIN vendors'
               PROVE  AddsUp(m, vendors[m])'
    BY DEF SummaryAddsUp
  <2>1. PICK now : now = vendors'[m]
    OBVIOUS
  <2>2. AddsUp(m, now)'
    <3>1. CASE m = n
      BY <1>1, <2>1, <3>1
    <3>2. CASE m # n
      <4>1. m \in DOMAIN vendors /\ now = vendors[m] /\ m \in Spellings
        BY <1>1, <1>2, <2>1, <3>2
      <4>2. AddsUp(m, now)
        BY <4>1 DEF SummaryInv, SummaryAddsUp
      <4> QED
        BY <3>2, <4>1, <4>2, AddsUpKept
    <3> QED
      BY <3>1, <3>2
  <2> QED
    BY <2>1, <2>2 DEF AddsUp
<1>4. ReadAddsUp'
  <2> SUFFICES ASSUME NEW q \in Payments, NEW m \in Spellings, pc'[q] = "write", found'[q] = m
               PROVE  AddsUp(m, read[q])'
    BY DEF ReadAddsUp
  <2>1. PICK was : was = read'[q]
    OBVIOUS
  <2>2. pc[q] = "write" /\ found[q] = m /\ was = read[q] /\ Grown(m)
    BY <2>1
  <2>3. AddsUp(m, was)
    BY <2>2 DEF SummaryInv, ReadAddsUp
  <2>4. AddsUp(m, was)'
    BY <2>2, <2>3, AddsUpKept
  <2> QED
    BY <2>1, <2>4 DEF AddsUp
<1> QED
  BY <1>3, <1>4 DEF SummaryInv

\* The tables are empty.
LEMMA InitSummary == Init => SummaryInv
<1> SUFFICES ASSUME Init PROVE SummaryInv
  OBVIOUS
<1>1. DOMAIN vendors = {} /\ \A p \in Payments : pc[p] # "write"
  BY DEF Init
<1>2. \A n \in Spellings : LiveRows(n) = {}
  BY DEF Init, LiveRows
<1>3. \A n \in Spellings : IsFiniteSet(LiveRows(n))
  BY <1>2, FS_EmptySet
<1> QED
  BY <1>1, <1>3 DEF SummaryInv, SummaryAddsUp, ReadAddsUp

\* A request that looks up, flushes or fails leaves the tables alone.
LEMMA RequestQuiet ==
    ASSUME VendorInv, VendorInv', SummaryInv, NEW p \in Payments,
           Find(p) \/ Flush(p) \/ Fail(p)
    PROVE  SummaryInv'
<1>1. /\ UNCHANGED <<vendors, history, upserts, overlapped, overlaid>>
      /\ \A q \in Payments : pc'[q] = "write" =>
            \/ pc[q] = "write" /\ found'[q] = found[q] /\ read'[q] = read[q]
            \/ found'[q] \in DOMAIN vendors /\ read'[q] = vendors[found'[q]]
  <2>1. CASE Find(p)
    BY <2>1 DEF Find, End, Matches, loader, VendorInv, TypeOK, RequestsOK
  <2>2. CASE Flush(p) \/ Fail(p)
    BY <2>2 DEF Flush, Fail, End, loader, notes, VendorInv, TypeOK, RequestsOK
  <2> QED
    BY <2>1, <2>2
<1>2. \A n \in Spellings : LiveRows(n)' = LiveRows(n)
  BY <1>1 DEF LiveRows
<1> QED
  BY <1>1, <1>2, QuietSummary

\* So do a loader that starts or dies, and one that itemises an award: a row of
\* an award is no payment's.
LEMMA LoaderQuiet ==
    ASSUME VendorInv, VendorInv', SummaryInv, StartLoad \/ KillLoad \/ UpsertHistory
    PROVE  SummaryInv'
<1>1. UNCHANGED <<vendors, pc, found, read, upserts, overlapped, overlaid>>
  BY DEF StartLoad, KillLoad, UpsertHistory, request, notes
<1>2. \A n \in Spellings : LiveRows(n)' = LiveRows(n)
  <2>1. CASE StartLoad \/ KillLoad
    BY <2>1 DEF StartLoad, KillLoad, LiveRows
  <2>2. CASE UpsertHistory
    <3>1. Awards[loading].id \notin Payments
      BY <2>2, AwardAt DEF UpsertHistory, VendorInv, TypeOK, NamedExists
    <3> SUFFICES ASSUME NEW n \in Spellings, NEW h
                 PROVE  h \in LiveRows(n)' <=> h \in LiveRows(n)
      OBVIOUS
    <3> DEFINE a == Awards[loading]
    <3>2. CASE \E g \in history : g.id = a.id
      <4>1. history' = {IF g.id = a.id THEN [g EXCEPT !.amount = a.amount] ELSE g : g \in history}
        BY <2>2, <3>2 DEF UpsertHistory
      <4>2. \A g \in history : g.id = a.id => [g EXCEPT !.amount = a.amount].id = a.id
        BY DEF VendorInv, TypeOK, TablesOK
      <4> HIDE DEF a
      <4>3. h.id \in Payments => h.id # a.id
        BY <3>1 DEF a
      <4> QED
        BY <4>1, <4>2, <4>3 DEF LiveRows
    <3>3. CASE ~\E g \in history : g.id = a.id
      <4>1. history' = history \cup {a}
        BY <2>2, <3>3 DEF UpsertHistory
      <4> QED
        BY <3>1, <4>1 DEF LiveRows
    <3> QED
      BY <3>2, <3>3
  <2> QED
    BY <2>1, <2>2
<1> QED
  BY <1>1, <1>2, QuietSummary

\* What recording a payment under a vendor does to every vendor.
LEMMA RecordedGrows ==
    ASSUME VendorInv, SummaryInv, NEW p \in Payments, NEW n \in Spellings,
           history' = history \cup {Live(p, n)}, overlapped \subseteq overlapped',
           UNCHANGED <<upserts, overlaid>>
    PROVE  /\ \A m \in Spellings : IsFiniteSet(LiveRows(m)')
           /\ \A m \in Spellings \ {n} : Grown(m)
           /\ p \in overlapped' => Grown(n)
<1>1. PICK row : row = Live(p, n)
  OBVIOUS
<1>2. row.id = p /\ row.name = n
  BY <1>1 DEF Live
<1>3. \A m \in Spellings : LiveRows(m)' = IF m = n THEN LiveRows(m) \cup {row} ELSE LiveRows(m)
  BY <1>1, <1>2 DEF LiveRows
<1>4. \A m \in Spellings : IsFiniteSet(LiveRows(m)')
  <2> SUFFICES ASSUME NEW m \in Spellings PROVE IsFiniteSet(LiveRows(m)')
    OBVIOUS
  <2>1. IsFiniteSet(LiveRows(m)) /\ IsFiniteSet(LiveRows(m) \cup {row})
    BY FS_AddElement DEF SummaryInv
  <2> QED
    BY <1>3, <2>1
<1>5. \A m : \A k \in AwardsOf(m) : upserts[k] <= upserts'[k] /\ upserts'[k] = upserts[k]
  BY CountedTypes DEF AwardsOf
<1> QED
  BY <1>2, <1>3, <1>4, <1>5 DEF Grown

\* A first payment: its vendor had no summary, and nobody has read one.
LEMMA CommitNewSummary ==
    ASSUME VendorInv, VendorInv', SummaryInv, NEW p \in Payments, CommitNew(p)
    PROVE  SummaryInv'
<1>1. PICK n \in Spellings : n = NameOf[p]
  BY PaymentAssumption
<1>2. PICK summary : summary = FirstSummary(p)
  OBVIOUS
<1>3. /\ pc[p] = "flushed" /\ n \notin DOMAIN vendors
      /\ vendors' = WithSummary(n, summary) /\ history' = history \cup {Live(p, n)}
      /\ UNCHANGED <<upserts, overlapped, overlaid>>
  BY <1>1, <1>2 DEF CommitNew, loader, notes, VendorInv, FlushedAlone
<1>4. \A q \in Payments : pc'[q] = "write" =>
         /\ pc[q] = "write" /\ found'[q] = found[q] /\ read'[q] = read[q]
         /\ found[q] # n
  <2>1. \A q \in Payments : pc[q] = "write" => found[q] # n
    BY <1>3 DEF VendorInv, FoundExists
  <2> QED
    BY <2>1 DEF CommitNew, End, VendorInv, TypeOK, RequestsOK
<1>5. AddsUp(n, summary)'
  <2>1. AddsUp(n, NothingRead) /\ IsFiniteSet(LiveRows(n))
    BY <1>3, AbsentAddsUp DEF SummaryInv
  <2>2. PICK before : before = NothingRead
    OBVIOUS
  <2>3. summary = [total |-> before.total + AmountOf[p], count |-> before.count + 1]
    BY <1>2, <2>2, PaymentAssumption DEF FirstSummary, NothingRead
  <2> QED
    BY <1>3, <2>1, <2>2, <2>3, RecordedAddsUp
<1>6. /\ \A m \in Spellings : IsFiniteSet(LiveRows(m)')
      /\ \A m \in Spellings \ {n} : Grown(m)
  BY <1>3, RecordedGrows
<1> QED
  BY <1>3, <1>4, <1>5, <1>6, WrittenSummary

\* A further payment adds to what the request read; another request that has read
\* the same summary makes it an overlapped one.
LEMMA CommitUpdateSummary ==
    ASSUME VendorInv, VendorInv', SummaryInv, NEW p \in Payments, CommitUpdate(p)
    PROVE  SummaryInv'
<1>1. PICK n \in Spellings : n = found[p]
  BY DEF VendorInv, TypeOK, RequestsOK
<1>2. PICK before, summary :
        /\ before = read[p]
        /\ summary = [total |-> before.total + AmountOf[p], count |-> before.count + 1]
  OBVIOUS
<1>3. /\ pc[p] = "write"
      /\ vendors' = WithSummary(n, summary) /\ history' = history \cup {Live(p, n)}
      /\ overlapped' = overlapped \cup {q \in {p} : Updating(n) # {p}}
      /\ UNCHANGED <<upserts, overlaid>>
  BY <1>1, <1>2 DEF CommitUpdate, loader
<1>4. AddsUp(n, summary)'
  <2>1. AddsUp(n, before) /\ IsFiniteSet(LiveRows(n))
    BY <1>1, <1>2, <1>3 DEF SummaryInv, ReadAddsUp
  <2> QED
    BY <1>2, <1>3, <2>1, RecordedAddsUp
<1>5. /\ \A m \in Spellings : IsFiniteSet(LiveRows(m)')
      /\ \A m \in Spellings \ {n} : Grown(m)
      /\ p \in overlapped' => Grown(n)
  BY <1>3, RecordedGrows
<1>6. \A q \in Payments : pc'[q] = "write" =>
         /\ pc[q] = "write" /\ found'[q] = found[q] /\ read'[q] = read[q]
         /\ found[q] = n => p \in overlapped'
  <2> SUFFICES ASSUME NEW q \in Payments, pc'[q] = "write"
               PROVE  /\ pc[q] = "write" /\ found'[q] = found[q] /\ read'[q] = read[q]
                      /\ found[q] = n => p \in overlapped'
    OBVIOUS
  <2>1. q # p /\ pc[q] = "write" /\ found'[q] = found[q] /\ read'[q] = read[q]
    BY DEF CommitUpdate, End, VendorInv, TypeOK, RequestsOK
  <2>2. found[q] = n => q \in Updating(n)
    BY <2>1 DEF Updating
  <2>3. found[q] = n => p \in overlapped'
    BY <1>3, <2>1, <2>2
  <2> QED
    BY <2>1, <2>3
<1> QED
  BY <1>3, <1>4, <1>5, <1>6, WrittenSummary

\* The loader adds to the row of the award's spelling as it stands.
LEMMA UpsertVendorSummary ==
    ASSUME VendorInv, VendorInv', SummaryInv, UpsertVendor
    PROVE  SummaryInv'
<1>1. PICK k \in DOMAIN Awards : k = loading
  BY AwardAt DEF UpsertVendor, VendorInv, TypeOK
<1>2. PICK n \in Spellings : n = Awards[k].name
  BY AwardsFinite
<1>3. Awards[k].amount \in Int /\ k \in AwardsOf(n)
  BY <1>2, AwardsFinite DEF AwardsOf
<1>4. PICK before, summary :
        /\ before = IF n \in DOMAIN vendors THEN vendors[n] ELSE NothingRead
        /\ summary = [total |-> before.total + Awards[k].amount, count |-> before.count + 1]
  OBVIOUS
<1>5. /\ vendors' = WithSummary(n, summary)
      /\ upserts' = [upserts EXCEPT ![k] = @ + 1]
      /\ overlaid' = overlaid \cup {x \in {k} : Updating(n) # {}}
      /\ UNCHANGED <<history, pc, found, read, overlapped>>
  <2>1. vendors' = WithSummary(n, IF n \in DOMAIN vendors
                                  THEN [total |-> vendors[n].total + Awards[k].amount,
                                        count |-> vendors[n].count + 1]
                                  ELSE [total |-> Awards[k].amount, count |-> 1])
    BY <1>1, <1>2 DEF UpsertVendor
  <2>2. summary = IF n \in DOMAIN vendors
                  THEN [total |-> vendors[n].total + Awards[k].amount,
                        count |-> vendors[n].count + 1]
                  ELSE [total |-> Awards[k].amount, count |-> 1]
    BY <1>3, <1>4 DEF NothingRead
  <2> QED
    BY <1>1, <1>2, <2>1, <2>2 DEF UpsertVendor, request
<1>6. /\ upserts'[k] = upserts[k] + 1
      /\ \A x \in DOMAIN Awards \ {k} : upserts'[x] = upserts[x]
  BY <1>5 DEF VendorInv, TypeOK, LoaderOK
<1>7. AddsUp(n, before)
  <2>1. CASE n \in DOMAIN vendors
    <3>1. AddsUp(n, vendors[n])
      BY <2>1 DEF SummaryInv, SummaryAddsUp
    <3> QED
      BY <1>4, <2>1, <3>1
  <2>2. CASE n \notin DOMAIN vendors
    BY <1>4, <2>2, AbsentAddsUp
  <2> QED
    BY <2>1, <2>2
<1>8. AddsUp(n, summary)'
  <2>1. IsFiniteSet(LiveRows(n)) /\ overlaid \subseteq overlaid'
    BY <1>5 DEF SummaryInv
  <2> QED
    BY <1>3, <1>4, <1>5, <1>6, <1>7, <2>1, LoadedAddsUp
<1>9. \A m \in Spellings : LiveRows(m)' = LiveRows(m)
  BY <1>5 DEF LiveRows
<1>10. \A m \in Spellings : \A x \in AwardsOf(m) :
         upserts[x] <= upserts'[x] /\ (upserts'[x] = upserts[x] \/ (x = k /\ m = n))
  <2> SUFFICES ASSUME NEW m \in Spellings, NEW x \in AwardsOf(m)
               PROVE  upserts[x] <= upserts'[x] /\ (upserts'[x] = upserts[x] \/ (x = k /\ m = n))
    OBVIOUS
  <2>1. x \in DOMAIN Awards /\ Awards[x].name = m /\ upserts[x] \in Nat
    BY CountedTypes DEF AwardsOf
  <2> QED
    BY <1>2, <1>6, <2>1
<1>11. /\ \A m \in Spellings \ {n} : Grown(m)
       /\ k \in overlaid' => Grown(n)
  BY <1>5, <1>9, <1>10 DEF Grown
<1>12. \A q \in Payments : pc'[q] = "write" =>
          /\ pc[q] = "write" /\ found'[q] = found[q] /\ read'[q] = read[q]
          /\ found[q] = n => Grown(n)
  BY <1>5, <1>11 DEF Updating
<1>13. \A m \in Spellings : IsFiniteSet(LiveRows(m)')
  BY <1>9 DEF SummaryInv
<1> QED
  BY <1>5, <1>8, <1>11, <1>12, <1>13, WrittenSummary

\* Every step keeps the summaries and what they count together.
LEMMA StepSummary == VendorInv /\ VendorInv' /\ SummaryInv /\ [Next]_vars => SummaryInv'
<1> SUFFICES ASSUME VendorInv, VendorInv', SummaryInv, [Next]_vars
             PROVE  SummaryInv'
  OBVIOUS
<1>1. ASSUME NEW p \in Payments, Record(p)
      PROVE  SummaryInv'
  BY <1>1, RequestQuiet, CommitNewSummary, CommitUpdateSummary DEF Record
<1>2. CASE Load
  BY <1>2, LoaderQuiet, UpsertVendorSummary DEF Load
<1>3. CASE UNCHANGED vars
  <2>1. UNCHANGED <<vendors, history, pc, found, read, upserts, overlapped, overlaid>>
    BY <1>3 DEF vars, request, loader, notes
  <2>2. \A n \in Spellings : LiveRows(n)' = LiveRows(n)
    BY <2>1 DEF LiveRows
  <2> QED
    BY <2>1, <2>2, QuietSummary
<1> QED
  BY <1>1, <1>2, <1>3 DEF Next

\* record_vendor_payment and the loader keep the two grains of the history of one
\* set of payments: a summary's count and total are those of itemised payments and
\* of loads of its awards, of all that no request in flight could go over.
THEOREM SummariesAddUp == Spec => []SummaryAddsUp
<1>1. Init => SummaryInv
  BY InitSummary
<1>2. VendorInv /\ VendorInv' /\ SummaryInv /\ [Next]_vars => SummaryInv'
  BY StepSummary
<1>3. SummaryInv => SummaryAddsUp
  BY DEF SummaryInv
<1> QED
  BY <1>1, <1>2, <1>3, Invariance, PTL DEF Spec
=============================================================================
