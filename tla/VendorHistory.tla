--------------------------- MODULE VendorHistory ---------------------------
(***************************************************************************)
(* The ledger's vendor history: a summary row per vendor and a row per     *)
(* payment.  Each settled payment is recorded once, in a transaction of    *)
(* its own: it looks the vendor up under its normalised name, inserts a    *)
(* summary or adds in memory to the one it read, and writes both rows.     *)
(* Nothing is locked between the read and the write.  The data-loader      *)
(* seeds the same two tables from a list of awards, in two transactions    *)
(* per award, and may be killed and run again.                             *)
(***************************************************************************)
EXTENDS Integers, FiniteSets, Functions, Sequences

CONSTANTS
    Payments,   \* the settled payments, one request each
    Spellings,  \* vendor names as they are stored
    Normal,     \* [Spellings -> STRING], trimmed and in lower case
    NameOf,     \* [Payments -> Spellings], the vendor as the invoice has it
    AmountOf,   \* [Payments -> Int], as neither the invoice nor the request bounds it
    Awards,     \* sequence of [id, name, amount]: what the loader fetches
    MaxLoads    \* bound of the model: runs of the loader

ASSUME PaymentAssumption ==
    /\ IsFiniteSet(Payments)
    /\ NameOf \in [Payments -> Spellings]
    /\ AmountOf \in [Payments -> Int]
    /\ DOMAIN Normal = Spellings

ASSUME LoaderAssumption ==
    /\ Awards \in Seq([id : STRING, name : Spellings, amount : Int])
    /\ \A k \in DOMAIN Awards : Awards[k].id \notin Payments  \* "verisettle-" in front of a key
    /\ MaxLoads \in Nat

VARIABLES
    vendors,    \* the committed summaries: spelling -> [total, count]
    history,    \* historical_payments: {[id, name, amount]}
    pc,         \* the step each request is at
    found,      \* the spelling of the summary a request read
    read,       \* what it read there
    loading,    \* the award the loader is at, 0 when it does not run
    named,      \* the loader has upserted the vendor of that award
    loads,      \* runs of the loader so far
    upserts,    \* history: vendor upserts of each award so far
    overlapped, \* history: payments committed while another request had read the
                \* summary and not ended
    overlaid,   \* history: awards upserted while a request had
    raced,      \* history: vendors of which two payments found no summary at once
    torn        \* history: awards whose last load was killed before their row

request == <<pc, found, read>>
loader == <<loading, named, loads, upserts>>
notes == <<overlapped, overlaid, raced, torn>>
vars == <<vendors, history, request, loader, notes>>

Summary == [total : Int, count : Nat]

NothingRead == [total |-> 0, count |-> 0]

AwardIds == Payments \cup {Awards[k].id : k \in DOMAIN Awards}

TablesOK ==
    /\ DOMAIN vendors \subseteq Spellings
    /\ \A n \in DOMAIN vendors : vendors[n] \in Summary
    /\ history \subseteq [id : AwardIds, name : DOMAIN vendors, amount : Int]
    /\ \A g, h \in history : g.id = h.id => g = h
    /\ overlapped \subseteq Payments
    /\ overlaid \cup torn \subseteq DOMAIN Awards
    /\ raced \subseteq {Normal[n] : n \in Spellings}

RequestsOK ==
    /\ pc \in [Payments -> {"new", "write", "insert", "flushed", "done"}]
    /\ found \in [Payments -> Spellings]
    /\ read \in [Payments -> Summary]

LoaderOK ==
    /\ loading \in 0..Len(Awards)
    /\ named \in BOOLEAN
    /\ loads \in 0..MaxLoads
    /\ upserts \in [DOMAIN Awards -> 0..MaxLoads]

TypeOK == TablesOK /\ RequestsOK /\ LoaderOK

Init ==
    /\ vendors = <<>>
    /\ history = {}
    /\ pc = [p \in Payments |-> "new"]
    /\ found = NameOf
    /\ read = [p \in Payments |-> NothingRead]
    /\ loading = 0
    /\ named = FALSE
    /\ loads = 0
    /\ upserts = [k \in DOMAIN Awards |-> 0]
    /\ overlapped = {}
    /\ overlaid = {}
    /\ raced = {}
    /\ torn = {}

-----------------------------------------------------------------------------
(* record_vendor_payment *)

VendorOf(p) == Normal[NameOf[p]]

InFlight(p) == pc[p] \in {"write", "insert", "flushed"}

\* Deviation: names are compared as they are written.
MatchesExact(name) == DOMAIN vendors \cap {name}

\* The summaries whose normalised name is that of name.
Matches(name) == {n \in DOMAIN vendors : Normal[n] = Normal[name]}

\* The requests that found no summary of the vendor and have not yet ended.
Inserting(vendor) == {p \in Payments : pc[p] \in {"insert", "flushed"} /\ VendorOf(p) = vendor}

\* The requests that have read the summary n and not yet written it.
Updating(n) == {p \in Payments : pc[p] = "write" /\ found[p] = n}

\* The caller ignores the answer, and goes on after an error as well.
End(p) ==
    /\ pc' = [pc EXCEPT ![p] = "done"]
    /\ found' = [found EXCEPT ![p] = NameOf[p]]
    /\ read' = [read EXCEPT ![p] = NothingRead]

\* scalar_one_or_none; two rows raise.
Find(p) ==
    /\ pc[p] = "new"
    /\ \/ /\ Matches(NameOf[p]) = {}
          /\ pc' = [pc EXCEPT ![p] = "insert"]
          /\ raced' = raced \cup {v \in {VendorOf(p)} : Inserting(v) # {}}
          /\ UNCHANGED <<found, read>>
       \/ \E n \in Matches(NameOf[p]) :
             /\ Matches(NameOf[p]) = {n}
             /\ pc' = [pc EXCEPT ![p] = "write"]
             /\ found' = [found EXCEPT ![p] = n]
             /\ read' = [read EXCEPT ![p] = vendors[n]]
             /\ UNCHANGED raced
       \/ /\ Cardinality(Matches(NameOf[p])) > 1
          /\ End(p)
          /\ UNCHANGED raced
    /\ UNCHANGED <<vendors, history, loader, overlapped, overlaid, torn>>

\* Another transaction has inserted this spelling and not ended.
NameInFlight(name) == \E q \in Payments : pc[q] = "flushed" /\ NameOf[q] = name

\* The unique index: the insert waits for one in flight and fails on one that
\* is committed.
Flush(p) ==
    /\ pc[p] = "insert"
    /\ ~NameInFlight(NameOf[p])
    /\ IF NameOf[p] \in DOMAIN vendors
       THEN End(p)
       ELSE /\ pc' = [pc EXCEPT ![p] = "flushed"]
            /\ UNCHANGED <<found, read>>
    /\ UNCHANGED <<vendors, history, loader, notes>>

WithSummary(name, summary) ==
    [n \in DOMAIN vendors \cup {name} |-> IF n = name THEN summary ELSE vendors[n]]

\* Deviation: the row names the vendor as its invoice does.
LiveAsWritten(p, name) == [id |-> p, name |-> NameOf[p], amount |-> AmountOf[p]]

Live(p, name) == [id |-> p, name |-> name, amount |-> AmountOf[p]]

FirstSummary(p) == [total |-> AmountOf[p], count |-> 1]

CommitNew(p) ==
    /\ pc[p] = "flushed"
    /\ vendors' = WithSummary(NameOf[p], FirstSummary(p))
    /\ history' = history \cup {Live(p, NameOf[p])}
    /\ End(p)
    /\ UNCHANGED <<loader, notes>>

\* The totals are those the request read, plus its own payment.
CommitUpdate(p) ==
    /\ pc[p] = "write"
    /\ vendors' = WithSummary(found[p], [total |-> read[p].total + AmountOf[p],
                                         count |-> read[p].count + 1])
    /\ history' = history \cup {Live(p, found[p])}
    /\ overlapped' = overlapped \cup {q \in {p} : Updating(found[p]) # {p}}
    /\ End(p)
    /\ UNCHANGED <<loader, overlaid, raced, torn>>

\* Deviation: the summary was committed by itself, not only flushed.
FailAfterSummary(p) ==
    /\ InFlight(p)
    /\ vendors' = IF pc[p] = "flushed" THEN WithSummary(NameOf[p], FirstSummary(p)) ELSE vendors
    /\ End(p)
    /\ UNCHANGED <<history, loader, notes>>

\* The connection breaks or the ledger dies: both rows are rolled back, and
\* payment_execution goes on without them.
Fail(p) ==
    /\ InFlight(p)
    /\ End(p)
    /\ UNCHANGED <<vendors, history, loader, notes>>

-----------------------------------------------------------------------------
(* The data-loader *)

StartLoad ==
    /\ loading = 0
    /\ loads < MaxLoads
    /\ Awards # <<>>
    /\ loading' = 1
    /\ loads' = loads + 1
    /\ UNCHANGED <<vendors, history, request, named, upserts, notes>>

\* upsert_vendor adds in the database, to the row of exactly this spelling.
UpsertVendor ==
    LET a == Awards[loading]
    IN /\ loading # 0 /\ ~named
       /\ ~NameInFlight(a.name)
       /\ vendors' = WithSummary(a.name,
             IF a.name \in DOMAIN vendors
             THEN [total |-> vendors[a.name].total + a.amount,
                   count |-> vendors[a.name].count + 1]
             ELSE [total |-> a.amount, count |-> 1])
       /\ named' = TRUE
       /\ upserts' = [upserts EXCEPT ![loading] = @ + 1]
       /\ overlaid' = overlaid \cup {k \in {loading} : Updating(a.name) # {}}
       /\ UNCHANGED <<history, request, loading, loads, overlapped, raced, torn>>

NextAward == loading' = IF loading = Len(Awards) THEN 0 ELSE loading + 1

\* Deviation: a further run takes the rows of the awards for there.
UpsertHistoryOnce ==
    /\ named
    /\ history' = IF loads = 1 THEN history \cup {Awards[loading]} ELSE history
    /\ named' = FALSE
    /\ torn' = torn \ {loading}
    /\ NextAward
    /\ UNCHANGED <<vendors, request, loads, upserts, overlapped, overlaid, raced>>

\* upsert_historical_payment: one row per award, however often it is loaded; a
\* row that is there keeps its vendor.
UpsertHistory ==
    LET a == Awards[loading]
    IN /\ named
       /\ history' = IF \E h \in history : h.id = a.id
                     THEN {IF h.id = a.id THEN [h EXCEPT !.amount = a.amount] ELSE h :
                              h \in history}
                     ELSE history \cup {a}
       /\ named' = FALSE
       /\ torn' = torn \ {loading}
       /\ NextAward
       /\ UNCHANGED <<vendors, request, loads, upserts, overlapped, overlaid, raced>>

KillLoad ==
    /\ loading # 0
    /\ loading' = 0
    /\ named' = FALSE
    /\ torn' = torn \cup {k \in {loading} : named}
    /\ UNCHANGED <<vendors, history, request, loads, upserts, overlapped, overlaid, raced>>

Record(p) == Find(p) \/ Flush(p) \/ CommitNew(p) \/ CommitUpdate(p) \/ Fail(p)

Load == StartLoad \/ UpsertVendor \/ UpsertHistory \/ KillLoad

Next == Load \/ \E p \in Payments : Record(p)

Spec == Init /\ [][Next]_vars

-----------------------------------------------------------------------------
(* Properties *)

LiveRows(n) == {h \in history : h.name = n /\ h.id \in Payments}

AwardsOf(n) == {k \in DOMAIN Awards : Awards[k].name = n}

\* What a summary says that counts the rows S and each award of n some times.
SummaryOf(n, S, times) ==
    [total |-> SumFunction([h \in S |-> h.amount])
                 + SumFunctionOnSet([k \in DOMAIN Awards |-> times[k] * Awards[k].amount],
                                    AwardsOf(n)),
     count |-> Cardinality(S) + SumFunctionOnSet(times, AwardsOf(n))]

\* The summary counts once what nobody's later write can have gone over, some of
\* the rest, and nothing else.
AddsUp(n, summary) ==
    \E S \in SUBSET LiveRows(n), times \in [DOMAIN Awards -> 0..MaxLoads] :
        /\ \A h \in LiveRows(n) \ S : h.id \in overlapped
        /\ \A k \in AwardsOf(n) :
              /\ times[k] <= upserts[k]
              /\ k \notin overlaid => times[k] = upserts[k]
        /\ summary = SummaryOf(n, S, times)

(***************************************************************************)
(* "The same real payment, recorded at both grains": the count and the     *)
(* total of a vendor are those of the same payments and loads.  All of its *)
(* itemised payments are among them and every load of its awards, save     *)
(* those that were committed while another request had read the summary    *)
(* and not yet written it.  No failure and no kill counts anything else.   *)
(***************************************************************************)
SummaryAddsUp == \A n \in DOMAIN vendors : AddsUp(n, vendors[n])

\* Spellings that the loader brought.
LoadedNames == {Awards[k].name : k \in {j \in DOMAIN Awards : upserts[j] > 0}}

\* A vendor has one summary, whatever the case its invoices write it in, unless
\* two of its payments found none at the same time or the loader brought a
\* spelling of its own.
OneRowPerVendor ==
    \A m, n \in DOMAIN vendors : m # n /\ Normal[m] = Normal[n] =>
        Normal[n] \in raced \/ {m, n} \cap LoadedNames # {}

\* An award that counts in its vendor's summary is itemised, unless the last load
\* that got to it was killed in between; and one that is itemised was counted.
AwardsBooked ==
    /\ \A k \in DOMAIN Awards : upserts[k] > 0 =>
          \/ \E h \in history : h.id = Awards[k].id
          \/ k \in torn
          \/ named /\ loading = k
    /\ \A h \in history : h.id \notin Payments =>
          \E k \in DOMAIN Awards :
              Awards[k].id = h.id /\ Awards[k].name = h.name /\ upserts[k] > 0

(***************************************************************************)
(* The inductive invariant behind OneRowPerVendor, AwardsBooked and the    *)
(* types: a request in flight adds to a row that is still there, or        *)
(* inserts a first one unless another writer got in its way; its payment   *)
(* has no row yet.                                                         *)
(***************************************************************************)
FoundExists ==
    \A p \in Payments : pc[p] = "write" =>
        found[p] \in DOMAIN vendors /\ Normal[found[p]] = VendorOf(p)

NamedExists == named => loading # 0 /\ upserts[loading] > 0

LoadedExists == LoadedNames \subseteq DOMAIN vendors

\* A run of the loader upserts each award at most once.
UpsertsCounted ==
    \A k \in DOMAIN Awards :
        upserts[k] + (IF loading # 0 /\ (k > loading \/ (k = loading /\ ~named)) THEN 1 ELSE 0)
            <= loads

Unrecorded == \A p \in Payments : pc[p] # "done" => \A h \in history : h.id # p

\* The unique index: nobody else has what is flushed.
FlushedAlone ==
    \A p \in Payments : pc[p] = "flushed" =>
        /\ NameOf[p] \notin DOMAIN vendors
        /\ \A q \in Payments \ {p} : pc[q] = "flushed" => NameOf[q] # NameOf[p]

FirstsMet ==
    \A p, q \in Payments :
        p # q /\ {p, q} \subseteq Inserting(VendorOf(p)) => VendorOf(p) \in raced

StillFirst ==
    \A p \in Payments : pc[p] \in {"insert", "flushed"} =>
        Matches(NameOf[p]) \subseteq LoadedNames \/ VendorOf(p) \in raced

VendorInv ==
    /\ TypeOK
    /\ FoundExists
    /\ NamedExists
    /\ LoadedExists
    /\ UpsertsCounted
    /\ Unrecorded
    /\ FlushedAlone
    /\ FirstsMet
    /\ StillFirst
    /\ OneRowPerVendor
    /\ AwardsBooked

(***************************************************************************)
(* The one behind SummaryAddsUp: what a request read adds up just as the   *)
(* row does, since whatever was committed after it read was overlapped.    *)
(***************************************************************************)
ReadAddsUp ==
    \A p \in Payments, n \in Spellings :
        pc[p] = "write" /\ found[p] = n => AddsUp(n, read[p])

SummaryInv ==
    /\ SummaryAddsUp
    /\ ReadAddsUp
    /\ \A n \in Spellings : IsFiniteSet(LiveRows(n))
=============================================================================
