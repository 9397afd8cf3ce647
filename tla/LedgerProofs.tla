---------------------------- MODULE LedgerProofs ----------------------------
(***************************************************************************)
(* What TLAPS proves of Ledger, for any number of requests and accounts.   *)
(***************************************************************************)
EXTENDS Ledger, SequenceTheorems, SumFacts

-----------------------------------------------------------------------------
(* Facts about the operators *)

\* NUMERIC(18,2) yields whole cents, keeps the sign of an amount, and leaves
\* whole cents alone.
LEMMA ToCentsFacts ==
    ASSUME NEW x \in Int
    PROVE  /\ ToCents(x) \in Int
           /\ WholeCents(ToCents(x))
           /\ x >= 0 => ToCents(x) >= 0
           /\ WholeCents(x) => ToCents(x) = x
BY DEF ToCents, WholeCents

\* Whole cents stay whole when added or taken away.
LEMMA WholeSums ==
    ASSUME NEW x \in Int, NEW y \in Int, WholeCents(x), WholeCents(y)
    PROVE  WholeCents(x + y) /\ WholeCents(x + (-y))
BY DEF WholeCents

\* Some entry is the last one of an account that has any.
LEMMA LastExists ==
    ASSUME NEW n \in Nat, NEW at \in SUBSET (1..n), at # {}
    PROVE  \E i \in at : \A j \in at : j <= i
<1> DEFINE gaps == {n - i : i \in at}
<1>1. gaps \subseteq Nat /\ gaps # {}
  <2>1. gaps \subseteq Nat
    OBVIOUS
  <2>2. PICK i \in at : TRUE
    OBVIOUS
  <2>3. n - i \in gaps
    OBVIOUS
  <2> QED
    BY <2>1, <2>3
<1>2. PICK g \in gaps : \A h \in gaps : ~(<<h, g>> \in OpToRel(<, Nat))
  BY <1>1, NatLessThanWellFounded, WFMin
<1>3. \A h \in gaps : ~(h < g)
  BY <1>1, <1>2 DEF OpToRel
<1>4. PICK i \in at : g = n - i
  OBVIOUS
<1>5. ASSUME NEW j \in at
      PROVE  j <= i
  <2>1. n - j \in gaps
    OBVIOUS
  <2>2. ~(n - j < n - i)
    BY <1>3, <1>4, <2>1
  <2> QED
    BY <2>2
<1> QED
  BY <1>5

\* What a request is made of.
LEMMA RequestTypes ==
    ASSUME NEW r \in Requests
    PROVE  /\ r.op \in {"post", "dry_run"}
           /\ r.key \in Keys
           /\ r.entries \in Seq(Entry)
           /\ Len(r.entries) \in Nat
           /\ DOMAIN r.entries = 1..Len(r.entries)
           /\ \A i \in DOMAIN r.entries : r.entries[i] \in Entry
BY RequestAssumption DEF Request

\* An entry moves a known account by a whole number of units.
LEMMA DeltaType ==
    ASSUME NEW e \in Entry, e.account \in Accounts
    PROVE  Delta(e) \in Int
BY ChartAssumption DEF Delta, SignedDelta, Entry

\* After a commit an account holds what its last entry computed, or is as before.
LEMMA AssignedFacts ==
    ASSUME NEW entries \in Seq(Entry), NEW news, NEW a \in Accounts
    PROVE  /\ (\A i \in DOMAIN entries : entries[i].account # a)
                => Assigned(entries, news)[a] = balance[a]
           /\ (\E i \in DOMAIN entries : entries[i].account = a)
                => \E i \in DOMAIN entries :
                      /\ entries[i].account = a
                      /\ Assigned(entries, news)[a] = ToCents(news[i])
<1> DEFINE at == {i \in DOMAIN entries : entries[i].account = a}
<1>1. Assigned(entries, news)[a] =
        IF at = {} THEN balance[a]
        ELSE ToCents(news[CHOOSE i \in at : \A j \in at : j <= i])
  BY DEF Assigned
<1>2. ASSUME at # {}
      PROVE  (CHOOSE i \in at : \A j \in at : j <= i) \in at
  <2>1. at \in SUBSET (1..Len(entries)) /\ Len(entries) \in Nat
    OBVIOUS
  <2>2. \E i \in at : \A j \in at : j <= i
    BY <1>2, <2>1, LastExists
  <2> QED
    BY <2>2
<1> QED
  BY <1>1, <1>2

-----------------------------------------------------------------------------
(* Type correctness *)

LEMMA InitType == Init => TypeOK
BY ChartAssumption DEF Init, TypeOK, Steps, Outcomes

\* Ending a request without a commit keeps every variable in its type.
LEMMA AbandonType ==
    ASSUME TypeOK, NEW s \in Sessions, NEW o \in Outcomes, Abandon(s, o)
    PROVE  TypeOK'
BY DEF TypeOK, Abandon, Unlocked, Steps

LEMMA LockEntryType ==
    ASSUME TypeOK, NEW s \in Sessions, LockEntry(s)
    PROVE  TypeOK'
<1> DEFINE a == Current(s).account
           new == balance[a] + Delta(Current(s))
<1>1. Current(s) \in Entry /\ a \in Accounts
  BY RequestTypes DEF TypeOK, LockEntry, Validating, Current
<1>2. new \in Int
  BY <1>1, DeltaType DEF TypeOK
<1>3. CASE Abandon(s, "insufficient_funds")
  BY <1>3, AbandonType DEF Outcomes
<1>4. CASE /\ lock' = [lock EXCEPT ![a] = s]
           /\ results' = [results EXCEPT ![s] = Append(@, new)]
           /\ UNCHANGED <<balance, txns, pc, req, reply>>
  <2>1. Append(results[s], new) \in Seq(Int)
    BY <1>2, AppendProperties DEF TypeOK
  <2> QED
    BY <1>1, <1>4, <2>1 DEF TypeOK
<1> QED
  BY <1>3, <1>4 DEF LockEntry

LEMMA CommitType ==
    ASSUME TypeOK, FlushedReady, NEW s \in Sessions, Commit(s)
    PROVE  TypeOK'
<1>1. CASE Abandon(s, "duplicate_transaction")
  BY <1>1, AbandonType DEF Outcomes
<1>2. CASE ~EntriesClash(req[s].entries)
  <2>1. req[s].entries \in Seq(Entry) /\ Len(results[s]) = Len(req[s].entries)
    BY RequestTypes DEF TypeOK, FlushedReady, Commit
  <2>2. \A i \in DOMAIN req[s].entries : results[s][i] \in Int
    BY <2>1 DEF TypeOK
  <2>3. ASSUME NEW a \in Accounts
        PROVE  Assigned(req[s].entries, results[s])[a] \in Int
    <3>1. CASE \A i \in DOMAIN req[s].entries : req[s].entries[i].account # a
      <4>1. Assigned(req[s].entries, results[s])[a] = balance[a]
        BY <2>1, <3>1, AssignedFacts
      <4> QED
        BY <4>1 DEF TypeOK
    <3>2. CASE \E i \in DOMAIN req[s].entries : req[s].entries[i].account = a
      <4>1. PICK i \in DOMAIN req[s].entries :
                   Assigned(req[s].entries, results[s])[a] = ToCents(results[s][i])
        BY <2>1, <3>2, AssignedFacts
      <4> QED
        BY <2>2, <4>1, ToCentsFacts
    <3> QED
      BY <3>1, <3>2
  <2>4. Assigned(req[s].entries, results[s]) \in [Accounts -> Int]
    BY <2>3 DEF Assigned
  <2>5. Draft(s, req[s]) \in Drafts
    BY DEF Drafts, TypeOK, FlushedReady, Commit
  <2>6. /\ balance' = Assigned(req[s].entries, results[s])
        /\ txns' = txns \cup {Draft(s, req[s])}
        /\ lock' = Unlocked(s)
        /\ pc' = [pc EXCEPT ![s] = "committed"]
        /\ results' = [results EXCEPT ![s] = <<>>]
        /\ UNCHANGED <<req, reply>>
    BY <1>2 DEF Commit
  <2>7. balance' \in [Accounts -> Int] /\ txns' \subseteq Drafts
    BY <2>4, <2>5, <2>6 DEF TypeOK
  <2>8. lock' \in [Accounts -> Sessions \cup {NoSession}]
    BY <2>6 DEF TypeOK, Unlocked
  <2>9. results' \in [Sessions -> Seq(Int)]
    BY <2>6, EmptySeq DEF TypeOK
  <2> QED
    BY <2>6, <2>7, <2>8, <2>9 DEF TypeOK, Steps
<1> QED
  BY <1>1, <1>2 DEF Commit

-----------------------------------------------------------------------------
(* The inductive invariant *)

\* A posted draft names the session that posted it.
LEMMA DraftOwner ==
    ASSUME NEW t \in Drafts
    PROVE  t.id \in Sessions
BY DEF Drafts, Draft

LEMMA InitInv == Init => LedgerInv
<1> SUFFICES ASSUME Init PROVE LedgerInv
  OBVIOUS
<1>1. TypeOK
  BY InitType
<1>2. NoOverdraft
  BY ChartAssumption DEF Init, NoOverdraft
<1>3. KeyPostedOnce /\ LocksHeld
  BY DEF Init, KeyPostedOnce, LocksHeld
<1>4. ResultsCurrent
  BY DEF Init, ResultsCurrent
<1>5. FlushedReady /\ OwnersDone
  BY DEF Init, FlushedReady, OwnersDone
<1> QED
  BY <1>1, <1>2, <1>3, <1>4, <1>5 DEF LedgerInv

\* Ending a request without a commit keeps the invariant.
LEMMA AbandonInv ==
    ASSUME LedgerInv, NEW s \in Sessions,
           pc[s] \in {"check", "validate", "flushed", "committed"},
           NEW o \in Outcomes \ {"none", "posted", "lost"},
           pc[s] = "committed" => o = "internal_error",
           Abandon(s, o)
    PROVE  LedgerInv'
<1> USE DEF LedgerInv
<1>1. TypeOK'
  BY AbandonType
<1>2. NoOverdraft' /\ KeyPostedOnce'
  BY DEF Abandon, NoOverdraft, KeyPostedOnce
<1>3. LocksHeld'
  BY DEF Abandon, Unlocked, LocksHeld, TypeOK
<1>4. ResultsCurrent'
  <2> SUFFICES ASSUME NEW u \in Sessions, NEW i \in DOMAIN results'[u]
               PROVE  LET e == req'[u].entries[i]
                      IN /\ pc'[u] \in {"validate", "flushed"}
                         /\ i \in DOMAIN req'[u].entries
                         /\ e.account \in Accounts
                         /\ lock'[e.account] = u
                         /\ results'[u][i] = balance'[e.account] + Delta(e)
                         /\ results'[u][i] >= 0 \/ AllowNegative[e.account]
    BY DEF ResultsCurrent, Delta
  <2>1. u # s
    BY DEF Abandon, TypeOK
  <2>2. results'[u] = results[u] /\ pc'[u] = pc[u] /\ req' = req /\ balance' = balance
    BY <2>1 DEF Abandon, TypeOK
  <2> QED
    BY <2>1, <2>2, SessionAssumption DEF Abandon, ResultsCurrent, Unlocked, TypeOK
<1>5. FlushedReady'
  BY DEF Abandon, FlushedReady, TypeOK, KeyPosted, KeyInFlight
<1>6. OwnersDone'
  BY DraftOwner DEF Abandon, OwnersDone, OwnPosted, Refused, TypeOK
<1> QED
  BY <1>1, <1>2, <1>3, <1>4, <1>5, <1>6

\* Moving on without touching locks, results or the database.
LEMMA AdvanceInv ==
    ASSUME LedgerInv, NEW s \in Sessions, NEW p \in {"check", "validate"},
           pc[s] \in {"idle", "check"},
           pc' = [pc EXCEPT ![s] = p],
           UNCHANGED <<balance, txns, lock, req, results, reply>>
    PROVE  LedgerInv'
<1> USE DEF LedgerInv
<1>1. TypeOK'
  BY DEF TypeOK, Steps
<1>2. NoOverdraft' /\ KeyPostedOnce' /\ LocksHeld'
  BY DEF NoOverdraft, KeyPostedOnce, LocksHeld, TypeOK
<1>3. ResultsCurrent'
  BY DEF ResultsCurrent, Delta, TypeOK
<1>4. FlushedReady'
  BY DEF FlushedReady, TypeOK, KeyPosted, KeyInFlight
<1>5. OwnersDone'
  BY DraftOwner DEF OwnersDone, OwnPosted, Refused, TypeOK
<1> QED
  BY <1>1, <1>2, <1>3, <1>4, <1>5

\* Locking one more account and computing its balance keeps the invariant.
LEMMA LockEntryInv ==
    ASSUME LedgerInv, NEW s \in Sessions, LockEntry(s)
    PROVE  LedgerInv'
<1> USE DEF LedgerInv
<1> DEFINE e == Current(s)
           a == e.account
           new == balance[a] + Delta(e)
           n == Len(results[s])
<1>1. /\ pc[s] = "validate"
      /\ n \in Nat
      /\ n + 1 \in DOMAIN req[s].entries
      /\ e = req[s].entries[n + 1]
      /\ e \in Entry
      /\ a \in Accounts
  BY RequestTypes DEF LockEntry, Validating, Current, TypeOK
<1>2. CASE Abandon(s, "insufficient_funds")
  BY <1>1, <1>2, AbandonInv DEF Outcomes
<1>3. CASE /\ Lockable(s, a)
           /\ ~Overdrawn(a, new)
           /\ lock' = [lock EXCEPT ![a] = s]
           /\ results' = [results EXCEPT ![s] = Append(@, new)]
           /\ UNCHANGED <<balance, txns, pc, req, reply>>
  <2>1. TypeOK'
    BY LockEntryType
  <2>2. NoOverdraft' /\ KeyPostedOnce'
    BY <1>3 DEF NoOverdraft, KeyPostedOnce
  <2>3. LocksHeld'
    BY <1>1, <1>3 DEF LocksHeld, TypeOK
  <2>4. new \in Int /\ (new >= 0 \/ AllowNegative[a])
    BY <1>1, <1>3, DeltaType DEF Overdrawn, TypeOK
  <2>5. /\ DOMAIN results'[s] = 1..(n + 1)
        /\ \A i \in 1..n : results'[s][i] = results[s][i]
        /\ results'[s][n + 1] = new
        /\ DOMAIN results[s] = 1..n
    <3>1. results'[s] = Append(results[s], new) /\ results[s] \in Seq(Int)
      BY <1>3 DEF TypeOK
    <3>2. /\ Append(results[s], new) \in Seq(Int)
          /\ Len(Append(results[s], new)) = n + 1
          /\ \A i \in 1..n : Append(results[s], new)[i] = results[s][i]
          /\ Append(results[s], new)[n + 1] = new
      BY <2>4, <3>1, AppendProperties
    <3> QED
      BY <3>1, <3>2
  <2>6. ResultsCurrent'
    <3> SUFFICES ASSUME NEW u \in Sessions, NEW i \in DOMAIN results'[u]
                 PROVE  LET f == req[u].entries[i]
                        IN /\ pc[u] \in {"validate", "flushed"}
                           /\ i \in DOMAIN req[u].entries
                           /\ f.account \in Accounts
                           /\ lock'[f.account] = u
                           /\ results'[u][i] = balance[f.account] + Delta(f)
                           /\ results'[u][i] >= 0 \/ AllowNegative[f.account]
      BY <1>3 DEF ResultsCurrent, Delta
    <3>1. CASE u # s
      <4>1. results'[u] = results[u]
        BY <1>3, <3>1 DEF TypeOK
      <4>2. lock[req[u].entries[i].account] = u /\ req[u].entries[i].account \in Accounts
        BY <4>1 DEF ResultsCurrent
      <4>3. req[u].entries[i].account # a
        BY <1>3, <3>1, <4>2, SessionAssumption DEF Lockable
      <4> QED
        BY <1>3, <4>1, <4>2, <4>3 DEF ResultsCurrent, TypeOK
    <3>2. CASE u = s /\ i \in 1..n
      <4>1. i \in DOMAIN results[s] /\ results'[s][i] = results[s][i]
        BY <2>5, <3>2
      <4>2. lock[req[s].entries[i].account] = s /\ req[s].entries[i].account \in Accounts
        BY <4>1 DEF ResultsCurrent
      <4>3. lock'[req[s].entries[i].account] = s
        BY <1>3, <4>2 DEF TypeOK
      <4> QED
        BY <3>2, <4>1, <4>2, <4>3 DEF ResultsCurrent
    <3>3. CASE u = s /\ i = n + 1
      <4>1. lock'[a] = s
        BY <1>1, <1>3 DEF TypeOK
      <4> QED
        BY <1>1, <2>4, <2>5, <3>3, <4>1
    <3> QED
      BY <1>1, <2>5, <3>1, <3>2, <3>3
  <2>7. FlushedReady'
    <3>1. \A u \in Sessions : pc[u] = "flushed" => results'[u] = results[u]
      BY <1>1, <1>3 DEF TypeOK
    <3> QED
      BY <1>3, <3>1 DEF FlushedReady, KeyPosted, KeyInFlight
  <2>8. OwnersDone'
    BY <1>3 DEF OwnersDone, OwnPosted, Refused
  <2> QED
    BY <2>1, <2>2, <2>3, <2>6, <2>7, <2>8
<1> QED
  BY <1>2, <1>3 DEF LockEntry

\* Inserting the transaction row keeps the invariant.
LEMMA FlushInv ==
    ASSUME LedgerInv, NEW s \in Sessions, Flush(s)
    PROVE  LedgerInv'
<1> USE DEF LedgerInv
<1>1. CASE Abandon(s, "internal_error")
  BY <1>1, AbandonInv DEF Flush, Validated, Outcomes
<1>2. CASE /\ ~KeyPosted(req[s].key)
           /\ pc' = [pc EXCEPT ![s] = "flushed"]
           /\ UNCHANGED <<balance, txns, lock, req, results, reply>>
  <2>1. TypeOK'
    BY <1>2 DEF TypeOK, Steps
  <2>2. NoOverdraft' /\ KeyPostedOnce' /\ LocksHeld'
    BY <1>2 DEF NoOverdraft, KeyPostedOnce, LocksHeld, TypeOK
  <2>3. ResultsCurrent'
    BY <1>2 DEF ResultsCurrent, Delta, TypeOK
  <2>4. FlushedReady'
    BY <1>2 DEF Flush, Validated, FlushedReady, TypeOK, KeyPosted, KeyInFlight
  <2>5. OwnersDone'
    BY <1>2, DraftOwner DEF Flush, Validated, OwnersDone, OwnPosted, Refused, TypeOK
  <2> QED
    BY <2>1, <2>2, <2>3, <2>4, <2>5
<1> QED
  BY <1>1, <1>2 DEF Flush

\* Committing keeps the invariant: the accounts it writes are the ones it has
\* locked, so nobody else's computed balances go stale.
LEMMA CommitInv ==
    ASSUME LedgerInv, NEW s \in Sessions, Commit(s)
    PROVE  LedgerInv'
<1> USE DEF LedgerInv
<1> DEFINE E == req[s].entries
           R == results[s]
<1>1. CASE Abandon(s, "duplicate_transaction")
  BY <1>1, AbandonInv DEF Commit, Outcomes
<1>2. CASE ~EntriesClash(E)
  <2>1. /\ pc[s] = "flushed"
        /\ balance' = Assigned(E, R)
        /\ txns' = txns \cup {Draft(s, req[s])}
        /\ lock' = Unlocked(s)
        /\ pc' = [pc EXCEPT ![s] = "committed"]
        /\ results' = [results EXCEPT ![s] = <<>>]
        /\ UNCHANGED <<req, reply>>
    BY <1>2 DEF Commit
  <2>2. TypeOK'
    BY CommitType
  <2>3. /\ E \in Seq(Entry)
        /\ DOMAIN R = DOMAIN E
    BY <2>1, RequestTypes DEF TypeOK, FlushedReady
  <2>4. ASSUME NEW i \in DOMAIN E
        PROVE  /\ lock[E[i].account] = s
               /\ R[i] \in Int
               /\ R[i] >= 0 \/ AllowNegative[E[i].account]
    BY <2>3 DEF ResultsCurrent, TypeOK
  <2>5. ASSUME NEW a \in Accounts, lock[a] # s
        PROVE  balance'[a] = balance[a]
    <3>1. \A i \in DOMAIN E : E[i].account # a
      BY <2>4, <2>5
    <3>2. Assigned(E, R)[a] = balance[a]
      BY <2>3, <3>1, AssignedFacts
    <3> QED
      BY <2>1, <3>2
  <2>6. NoOverdraft'
    <3> SUFFICES ASSUME NEW a \in Accounts
                 PROVE  balance'[a] >= 0 \/ AllowNegative[a]
      BY DEF NoOverdraft
    <3>1. CASE \A i \in DOMAIN E : E[i].account # a
      <4>1. Assigned(E, R)[a] = balance[a]
        BY <2>3, <3>1, AssignedFacts
      <4> QED
        BY <2>1, <4>1 DEF NoOverdraft
    <3>2. CASE \E i \in DOMAIN E : E[i].account = a
      <4>1. PICK i \in DOMAIN E : /\ E[i].account = a
                                  /\ Assigned(E, R)[a] = ToCents(R[i])
        BY <2>3, <3>2, AssignedFacts
      <4>2. R[i] \in Int /\ (R[i] >= 0 \/ AllowNegative[a])
        BY <2>4, <4>1
      <4> QED
        BY <2>1, <4>1, <4>2, ToCentsFacts
    <3> QED
      BY <3>1, <3>2
  <2>7. KeyPostedOnce'
    BY <2>1 DEF KeyPostedOnce, FlushedReady, KeyPosted, Draft
  <2>8. LocksHeld'
    BY <2>1 DEF LocksHeld, Unlocked, TypeOK
  <2>9. ResultsCurrent'
    <3> SUFFICES ASSUME NEW u \in Sessions, NEW i \in DOMAIN results'[u]
                 PROVE  LET f == req[u].entries[i]
                        IN /\ pc'[u] \in {"validate", "flushed"}
                           /\ i \in DOMAIN req[u].entries
                           /\ f.account \in Accounts
                           /\ lock'[f.account] = u
                           /\ results'[u][i] = balance'[f.account] + Delta(f)
                           /\ results'[u][i] >= 0 \/ AllowNegative[f.account]
      BY <2>1 DEF ResultsCurrent, Delta
    <3>1. u # s
      BY <2>1 DEF TypeOK
    <3>2. results'[u] = results[u] /\ pc'[u] = pc[u]
      BY <2>1, <3>1 DEF TypeOK
    <3>3. lock[req[u].entries[i].account] = u /\ req[u].entries[i].account \in Accounts
      BY <3>2 DEF ResultsCurrent
    <3>4. /\ balance'[req[u].entries[i].account] = balance[req[u].entries[i].account]
          /\ lock'[req[u].entries[i].account] = u
      BY <2>1, <2>5, <3>1, <3>3 DEF Unlocked
    <3> QED
      BY <3>2, <3>3, <3>4 DEF ResultsCurrent
  <2>10. FlushedReady'
    <3> SUFFICES ASSUME NEW u \in Sessions, pc'[u] = "flushed"
                 PROVE  /\ req[u].op = "post"
                        /\ Len(results'[u]) = Len(req[u].entries)
                        /\ Balanced(req[u].entries)
                        /\ ~KeyPosted(req[u].key)'
                        /\ ~KeyInFlight(u)'
      BY <2>1 DEF FlushedReady, KeyPosted, KeyInFlight
    <3>1. u # s /\ pc[u] = "flushed" /\ results'[u] = results[u]
      BY <2>1 DEF TypeOK
    <3>2. req[u].key # req[s].key
      BY <2>1, <3>1 DEF FlushedReady, KeyInFlight
    <3>3. ~KeyPosted(req[u].key)'
      BY <2>1, <3>1, <3>2 DEF FlushedReady, KeyPosted, Draft
    <3>4. ~KeyInFlight(u)'
      BY <2>1, <3>1 DEF FlushedReady, KeyInFlight, TypeOK
    <3> QED
      BY <3>1, <3>3, <3>4 DEF FlushedReady
  <2>11. OwnersDone'
    <3>1. reply[s] = "none" /\ Draft(s, req[s]).id = s
      BY <2>1 DEF OwnersDone, Draft
    <3>2. \A t \in txns' : /\ pc'[t.id] \in {"committed", "done"}
                           /\ t = Draft(t.id, req'[t.id])
                           /\ ~Refused(t.id)'
      BY <2>1, <3>1, DraftOwner DEF OwnersDone, Refused, TypeOK
    <3>3. \A u \in Sessions :
            /\ reply'[u] # "none" => pc'[u] = "done"
            /\ pc'[u] = "committed" \/ reply'[u] = "posted" => OwnPosted(u)'
      BY <2>1, <3>1 DEF OwnersDone, OwnPosted, TypeOK
    <3> QED
      BY <3>2, <3>3 DEF OwnersDone
  <2> QED
    BY <2>2, <2>6, <2>7, <2>8, <2>9, <2>10, <2>11
<1> QED
  BY <1>1, <1>2 DEF Commit

LEMMA RespondInv ==
    ASSUME LedgerInv, NEW s \in Sessions, Respond(s)
    PROVE  LedgerInv'
<1> USE DEF LedgerInv
<1>1. TypeOK'
  BY DEF Respond, TypeOK, Steps, Outcomes
<1>2. NoOverdraft' /\ KeyPostedOnce' /\ LocksHeld'
  BY DEF Respond, NoOverdraft, KeyPostedOnce, LocksHeld, TypeOK
<1>3. ResultsCurrent'
  BY DEF Respond, ResultsCurrent, Delta, TypeOK
<1>4. FlushedReady'
  BY DEF Respond, FlushedReady, TypeOK, KeyPosted, KeyInFlight
<1>5. OwnersDone'
  BY DraftOwner DEF Respond, OwnersDone, OwnPosted, Refused, TypeOK
<1> QED
  BY <1>1, <1>2, <1>3, <1>4, <1>5

LEMMA CrashInv ==
    ASSUME LedgerInv, Crash
    PROVE  LedgerInv'
<1> USE DEF LedgerInv
<1>1. TypeOK'
  BY DEF Crash, TypeOK, Steps, Outcomes
<1>2. NoOverdraft' /\ KeyPostedOnce' /\ LocksHeld' /\ ResultsCurrent'
  BY DEF Crash, NoOverdraft, KeyPostedOnce, LocksHeld, ResultsCurrent
<1>3. FlushedReady'
  BY DEF Crash, FlushedReady, TypeOK
<1>4. OwnersDone'
  <2>1. \A t \in txns' : /\ pc'[t.id] \in {"committed", "done"}
                         /\ t = Draft(t.id, req'[t.id])
                         /\ ~Refused(t.id)'
    BY DraftOwner DEF Crash, OwnersDone, Refused, TypeOK
  <2>2. \A u \in Sessions :
          /\ reply'[u] # "none" => pc'[u] = "done"
          /\ pc'[u] = "committed" \/ reply'[u] = "posted" => OwnPosted(u)'
    BY DEF Crash, OwnersDone, OwnPosted, TypeOK
  <2> QED
    BY <2>1, <2>2 DEF OwnersDone
<1> QED
  BY <1>1, <1>2, <1>3, <1>4

LEMMA StepInv == LedgerInv /\ [Next]_vars => LedgerInv'
<1> SUFFICES ASSUME LedgerInv, [Next]_vars
             PROVE  LedgerInv'
  OBVIOUS
<1>1. ASSUME NEW s \in Sessions, Submit(s)
      PROVE  LedgerInv'
  BY <1>1, AdvanceInv DEF Submit
<1>2. ASSUME NEW s \in Sessions, CheckKey(s)
      PROVE  LedgerInv'
  BY <1>2, AbandonInv, AdvanceInv DEF CheckKey, Outcomes
<1>3. ASSUME NEW s \in Sessions,
             RejectUnbalanced(s) \/ RejectUnknown(s) \/ FinishDryRun(s) \/ DeadlockAbort(s)
             \/ Fail(s)
      PROVE  LedgerInv'
  <2>1. CASE RejectUnbalanced(s)
    BY <2>1, AbandonInv DEF RejectUnbalanced, Outcomes
  <2>2. CASE RejectUnknown(s)
    BY <2>2, AbandonInv DEF RejectUnknown, Validating, Outcomes
  <2>3. CASE FinishDryRun(s)
    BY <2>3, AbandonInv DEF FinishDryRun, Validated, Outcomes
  <2>4. CASE DeadlockAbort(s)
    BY <2>4, AbandonInv DEF DeadlockAbort, LockCycle, Waiting, Validating, Outcomes
  <2>5. CASE Fail(s)
    BY <2>5, AbandonInv DEF Fail, Outcomes
  <2> QED
    BY <1>3, <2>1, <2>2, <2>3, <2>4, <2>5
<1>4. ASSUME UNCHANGED vars
      PROVE  LedgerInv'
  BY <1>4 DEF vars, LedgerInv, TypeOK, NoOverdraft, KeyPostedOnce, LocksHeld,
              ResultsCurrent, FlushedReady, OwnersDone, KeyPosted, KeyInFlight, OwnPosted, Refused, Delta
<1> QED
  BY <1>1, <1>2, <1>3, <1>4, LockEntryInv, FlushInv, CommitInv, RespondInv, CrashInv
  DEF Next, Handle, Quiet

-----------------------------------------------------------------------------
(* Theorems *)

\* The inductive invariant holds in every reachable state.
THEOREM Invariance == Spec => []LedgerInv
<1>1. Init => LedgerInv
  BY InitInv
<1>2. LedgerInv /\ [Next]_vars => LedgerInv'
  BY StepInv
<1> QED
  BY <1>1, <1>2, PTL DEF Spec

\* Every variable keeps its type.
THEOREM TypeCorrect == Spec => []TypeOK
<1>1. LedgerInv => TypeOK
  BY DEF LedgerInv
<1> QED
  BY <1>1, Invariance, PTL

\* No account that may not go negative ever does, for any number of concurrent
\* payments over any chart of accounts.
THEOREM NoOverdraftEver == Spec => []NoOverdraft
<1>1. LedgerInv => NoOverdraft
  BY DEF LedgerInv
<1> QED
  BY <1>1, Invariance, PTL

\* No idempotency key is ever posted twice, however requests, retries and
\* crashes interleave.
THEOREM KeysPostedOnce == Spec => []KeyPostedOnce
<1>1. LedgerInv => KeyPostedOnce
  BY DEF LedgerInv
<1> QED
  BY <1>1, Invariance, PTL

-----------------------------------------------------------------------------
(* The answers callers get *)

DuplicatesPosted ==
    \A s \in Sessions :
        reply[s] = "duplicate_transaction" => KeyPosted(req[s].key)

\* What the caller was told is what happened, if no request names an account
\* twice in the same direction.
THEOREM RepliesTruthful ==
    ASSUME \A r \in Requests : ~EntriesClash(r.entries)
    PROVE  Spec => []ReplyTruthful
<1>1. Init => DuplicatesPosted
  BY DEF Init, DuplicatesPosted
<1>2. LedgerInv /\ DuplicatesPosted /\ [Next]_vars => DuplicatesPosted'
  <2> SUFFICES ASSUME LedgerInv, DuplicatesPosted, [Next]_vars,
                      NEW s \in Sessions, reply'[s] = "duplicate_transaction"
               PROVE  KeyPosted(req[s].key)' /\ req' = req
    BY DEF DuplicatesPosted
  <2> USE DEF LedgerInv
  <2>1. txns \subseteq txns' /\ req' = req
    BY DEF Next, Handle, Submit, CheckKey, RejectUnbalanced, RejectUnknown, LockEntry,
           FinishDryRun, Flush, Commit, Respond, DeadlockAbort, Fail, Crash, Quiet, Abandon, vars
  <2>2. CASE reply[s] = "duplicate_transaction"
    BY <2>1, <2>2 DEF DuplicatesPosted, KeyPosted
  <2>3. CASE reply[s] # "duplicate_transaction"
    <3>1. \A u \in Sessions : ~EntriesClash(req[u].entries)
      BY DEF TypeOK
    <3>2. CheckKey(s) /\ KeyPosted(req[s].key)
      BY <2>3, <3>1
      DEF Next, Handle, Submit, CheckKey, RejectUnbalanced, RejectUnknown, LockEntry,
          FinishDryRun, Flush, Commit, Respond, DeadlockAbort, Fail, Crash, Quiet, Abandon, vars,
          TypeOK
    <3> QED
      BY <2>1, <3>2 DEF KeyPosted
  <2> QED
    BY <2>2, <2>3
<1>3. LedgerInv /\ DuplicatesPosted => ReplyTruthful
  BY DEF LedgerInv, OwnersDone, OwnPosted, Refused, DuplicatesPosted, ReplyTruthful, Draft
<1> QED
  BY <1>1, <1>2, <1>3, Invariance, PTL DEF Spec

-----------------------------------------------------------------------------
(* Refinement *)

BalancesWhole == \A a \in Accounts : WholeCents(balance[a])

\* Amounts in whole cents are stored as they are.
LEMMA StoredWhole ==
    ASSUME NEW r \in Requests, SimpleRequests
    PROVE  StoredEntries(r.entries) = r.entries
<1>1. \A i \in 1..Len(r.entries) : r.entries[i] \in Entry /\ WholeCents(r.entries[i].amount)
  BY RequestTypes DEF SimpleRequests
<1>2. \A i \in 1..Len(r.entries) :
        [r.entries[i] EXCEPT !.amount = ToCents(@)] = r.entries[i]
  BY <1>1, ToCentsFacts DEF Entry
<1>3. r.entries \in [1..Len(r.entries) -> Entry]
  BY RequestTypes, LenProperties
<1>4. StoredEntries(r.entries) = [i \in 1..Len(r.entries) |-> r.entries[i]]
  BY <1>2 DEF StoredEntries
<1> QED
  BY <1>3, <1>4

\* A commit is a Post of the abstract book.
LEMMA CommitPosts ==
    ASSUME SimpleRequests, LedgerInv, BalancesWhole, NEW s \in Sessions, Commit(s)
    PROVE  Book!Post(Draft(s, req[s])) /\ Draft(s, req[s]) \in Drafts
<1> USE DEF LedgerInv
<1> DEFINE E == req[s].entries
           R == results[s]
<1>1. ~EntriesClash(E)
  BY DEF SimpleRequests, EntriesClash, TypeOK
<1>2. /\ pc[s] = "flushed"
      /\ balance' = Assigned(E, R)
      /\ txns' = txns \cup {Draft(s, req[s])}
  BY <1>1 DEF Commit
<1>3. /\ E \in Seq(Entry)
      /\ DOMAIN R = DOMAIN E
      /\ req[s].op = "post"
      /\ Balanced(E)
      /\ ~KeyPosted(req[s].key)
  BY <1>2, RequestTypes DEF TypeOK, FlushedReady
<1>4. Draft(s, req[s]).entries = E /\ Draft(s, req[s]).key = req[s].key
  BY StoredWhole DEF Draft, TypeOK
<1>5. ASSUME NEW i \in DOMAIN E
      PROVE  /\ E[i].account \in Accounts
             /\ balance'[E[i].account] = balance[E[i].account] + Delta(E[i])
  <2>1. /\ E[i] \in Entry
        /\ E[i].account \in Accounts
        /\ R[i] = balance[E[i].account] + Delta(E[i])
    BY <1>3 DEF ResultsCurrent
  <2>2. PICK j \in DOMAIN E : /\ E[j].account = E[i].account
                              /\ Assigned(E, R)[E[i].account] = ToCents(R[j])
    BY <1>3, <2>1, AssignedFacts
  <2>3. j = i
    BY <2>2 DEF SimpleRequests, TypeOK
  <2>4. WholeCents(E[i].amount) /\ E[i].amount \in Int
    BY <2>1 DEF SimpleRequests, TypeOK, Entry
  <2>5. WholeCents(R[i]) /\ R[i] \in Int
    <3>1. WholeCents(balance[E[i].account]) /\ balance[E[i].account] \in Int
      BY <2>1 DEF BalancesWhole, TypeOK
    <3>2. Delta(E[i]) = E[i].amount \/ Delta(E[i]) = -E[i].amount
      BY DEF Delta, SignedDelta
    <3>3. WholeCents(balance[E[i].account] + E[i].amount)
      BY <2>4, <3>1, WholeSums
    <3>4. WholeCents(balance[E[i].account] + (-E[i].amount))
      BY <2>4, <3>1, WholeSums
    <3> QED
      BY <2>1, <2>4, <3>1, <3>2, <3>3, <3>4
  <2> QED
    BY <1>2, <2>1, <2>2, <2>3, <2>5, ToCentsFacts
<1>6. ASSUME NEW a \in Accounts, \A i \in DOMAIN E : E[i].account # a
      PROVE  balance'[a] = balance[a]
  <2>1. Assigned(E, R)[a] = balance[a]
    BY <1>3, <1>6, AssignedFacts
  <2> QED
    BY <1>2, <2>1
<1>7. balance' \in [Accounts -> Int] /\ \A a \in Accounts : balance'[a] >= 0 \/ AllowNegative[a]
  BY CommitInv DEF TypeOK, NoOverdraft
<1>8. Book!Moves(E)
  BY <1>5, <1>6, <1>7 DEF Book!Moves
<1>9. Draft(s, req[s]) \in Drafts
  BY <1>3 DEF Drafts, TypeOK
<1> QED
  BY <1>2, <1>3, <1>4, <1>7, <1>8, <1>9 DEF Book!Post, KeyPosted

\* The steps other than a commit leave balances and transactions alone.
LEMMA OthersStutter ==
    ASSUME [Next]_vars, \A s \in Sessions : ~Commit(s)
    PROVE  UNCHANGED <<balance, txns>>
BY DEF Next, Handle, Submit, CheckKey, RejectUnbalanced, RejectUnknown, LockEntry,
       FinishDryRun, Flush, Respond, DeadlockAbort, Fail, Crash, Quiet, Abandon, vars

\* Balances stay in whole cents, whatever a commit adds up.
LEMMA BalancesStayWhole ==
    ASSUME LedgerInv, BalancesWhole, [Next]_vars
    PROVE  BalancesWhole'
<1>1. ASSUME NEW s \in Sessions, Commit(s)
      PROVE  BalancesWhole'
  <2>1. CASE Abandon(s, "duplicate_transaction")
    BY <2>1 DEF Abandon, BalancesWhole
  <2>2. CASE balance' = Assigned(req[s].entries, results[s])
    <3> SUFFICES ASSUME NEW a \in Accounts
                 PROVE  WholeCents(balance'[a])
      BY DEF BalancesWhole
    <3>1. req[s].entries \in Seq(Entry) /\ DOMAIN results[s] = DOMAIN req[s].entries
      BY <1>1, RequestTypes DEF LedgerInv, TypeOK, FlushedReady, Commit
    <3>2. CASE \A i \in DOMAIN req[s].entries : req[s].entries[i].account # a
      <4>1. Assigned(req[s].entries, results[s])[a] = balance[a]
        BY <3>1, <3>2, AssignedFacts
      <4> QED
        BY <2>2, <4>1 DEF BalancesWhole
    <3>3. CASE \E i \in DOMAIN req[s].entries : req[s].entries[i].account = a
      <4>1. PICK i \in DOMAIN req[s].entries :
                   Assigned(req[s].entries, results[s])[a] = ToCents(results[s][i])
        BY <3>1, <3>3, AssignedFacts
      <4>2. results[s][i] \in Int
        BY <3>1 DEF LedgerInv, TypeOK
      <4> QED
        BY <2>2, <4>1, <4>2, ToCentsFacts
    <3> QED
      BY <3>2, <3>3
  <2> QED
    BY <1>1, <2>1, <2>2 DEF Commit
<1>2. CASE UNCHANGED <<balance, txns>>
  BY <1>2 DEF BalancesWhole
<1> QED
  BY <1>1, <1>2, OthersStutter

\* The ledger implements the abstract book of payments: to everybody who looks
\* at balances and transactions only, requests run one after the other.
THEOREM LedgerImplementsBook ==
    ASSUME SimpleRequests
    PROVE  Spec => ImplementsBook
<1>1. Init => Book!Init /\ BalancesWhole
  BY ChartAssumption DEF Init, Book!Init, BalancesWhole
<1>2. ASSUME LedgerInv, BalancesWhole, [Next]_vars
      PROVE  [Book!Next]_(Book!vars) /\ BalancesWhole'
  <2>1. ASSUME NEW s \in Sessions, Commit(s)
        PROVE  Book!Next
    <3>1. Book!Post(Draft(s, req[s])) /\ Draft(s, req[s]) \in Drafts
      BY <1>2, <2>1, CommitPosts
    <3> QED
      BY <3>1 DEF Book!Next
  <2>2. CASE UNCHANGED <<balance, txns>>
    BY <1>2, <2>2, BalancesStayWhole DEF Book!vars
  <2> QED
    BY <1>2, <2>1, <2>2, OthersStutter, BalancesStayWhole
<1> QED
  BY <1>1, <1>2, Invariance, PTL DEF Spec, ImplementsBook, Book!Spec

-----------------------------------------------------------------------------
(* The cached balances and the entries *)

Amounts(a) == [p \in Posted(a) |-> Delta(p[1].entries[p[2]])]

PostedFinite == \A a \in Accounts : IsFiniteSet(Posted(a))

\* An entry is posted by its transaction, at its place.
LEMMA PostedPairs ==
    ASSUME NEW a \in Accounts
    PROVE  Posted(a) = UNION {{<<t, i>> : i \in {j \in DOMAIN t.entries :
                                                    t.entries[j].account = a}} : t \in txns}
BY DEF Posted

\* Posted entries move accounts by whole numbers of units.
LEMMA AmountsType ==
    ASSUME SimpleRequests, TypeOK, NEW a \in Accounts, NEW p \in Posted(a)
    PROVE  Amounts(a)[p] \in Int
<1>1. PICK t \in txns : \E i \in DOMAIN t.entries : p = <<t, i>> /\ t.entries[i].account = a
  BY PostedPairs
<1>2. PICK r \in Requests : t.entries = StoredEntries(r.entries)
  BY DEF TypeOK, Drafts, Draft
<1>3. t.entries = r.entries
  BY <1>2, StoredWhole
<1>4. PICK i \in DOMAIN t.entries : p = <<t, i>> /\ t.entries[i].account = a
  BY <1>1
<1>5. t.entries[i] \in Entry
  BY <1>3, RequestTypes
<1>6. Delta(t.entries[i]) \in Int
  BY <1>4, <1>5, DeltaType
<1> QED
  BY <1>4, <1>6 DEF Amounts

\* A commit posts to an account the entry that names it, if one does, and
\* nothing to any other.
LEMMA PostedGrows ==
    ASSUME SimpleRequests, LedgerInv, BalancesWhole, NEW s \in Sessions, Commit(s),
           NEW a \in Accounts
    PROVE  LET t == Draft(s, req[s])
               at == {i \in DOMAIN t.entries : t.entries[i].account = a}
           IN /\ Posted(a)' = Posted(a) \cup {<<t, i>> : i \in at}
              /\ \A i \in DOMAIN t.entries : <<t, i>> \notin Posted(a)
              /\ \A i, j \in at : i = j
              /\ t.entries = req[s].entries
<1> DEFINE t == Draft(s, req[s])
<1>1. Book!Post(t)
  BY CommitPosts
<1>2. txns' = txns \cup {t} /\ t \notin txns
  BY <1>1 DEF Book!Post
<1>3. t.entries = req[s].entries
  BY StoredWhole DEF Draft, LedgerInv, TypeOK
<1>4. \A i, j \in DOMAIN t.entries : t.entries[i].account = t.entries[j].account => i = j
  BY <1>3 DEF SimpleRequests, LedgerInv, TypeOK
<1> HIDE DEF t
<1>5. Posted(a)' = UNION {{<<u, i>> : i \in {j \in DOMAIN u.entries :
                                                u.entries[j].account = a}} : u \in txns'}
  BY DEF Posted
<1>6. Posted(a)' = Posted(a) \cup {<<t, i>> : i \in {j \in DOMAIN t.entries :
                                                       t.entries[j].account = a}}
  BY <1>2, <1>5, PostedPairs
<1>7. \A i \in DOMAIN t.entries : <<t, i>> \notin Posted(a)
  BY <1>2, PostedPairs
<1> QED
  BY <1>3, <1>4, <1>6, <1>7 DEF t

\* A commit keeps the balance of an account the sum of its entries.
LEMMA CommitBalances ==
    ASSUME SimpleRequests, LedgerInv, BalancesWhole, NEW s \in Sessions, Commit(s),
           BalanceMatchesEntries, PostedFinite
    PROVE  BalanceMatchesEntries' /\ PostedFinite'
<1> SUFFICES ASSUME NEW a \in Accounts
             PROVE  /\ balance'[a] = Opening[a] + SumFunctionOnSet(Amounts(a)', Posted(a)')
                    /\ IsFiniteSet(Posted(a)')
  BY DEF BalanceMatchesEntries, PostedFinite, Amounts, SumFunction
<1> DEFINE t == Draft(s, req[s])
           at == {i \in DOMAIN t.entries : t.entries[i].account = a}
<1>0. TypeOK /\ TypeOK'
  BY CommitInv DEF LedgerInv
<1>1. Book!Moves(t.entries)
  BY CommitPosts DEF Book!Post
<1>2. /\ Posted(a)' = Posted(a) \cup {<<t, i>> : i \in at}
      /\ \A i \in DOMAIN t.entries : <<t, i>> \notin Posted(a)
      /\ \A i, j \in at : i = j
      /\ t.entries = req[s].entries
  BY PostedGrows
<1>3. balance[a] = Opening[a] + SumFunctionOnSet(Amounts(a), Posted(a)) /\ IsFiniteSet(Posted(a))
  BY DEF BalanceMatchesEntries, PostedFinite, Amounts, SumFunction
<1>4. \A p \in Posted(a) : Amounts(a)[p] \in Int
  BY <1>0, AmountsType
<1>5. \A p \in Posted(a)' : Amounts(a)'[p] = Delta(p[1].entries[p[2]])
  BY DEF Amounts
<1>6. \A p \in Posted(a) : Amounts(a)[p] = Delta(p[1].entries[p[2]])
  BY DEF Amounts
<1>7. SumFunctionOnSet(Amounts(a)', Posted(a)) = SumFunctionOnSet(Amounts(a), Posted(a))
  BY <1>2, <1>3, <1>5, <1>6, SumAgree
<1>8. SumFunctionOnSet(Amounts(a), Posted(a)) \in Int
  BY <1>3, <1>4, SumType
<1>9. CASE at = {}
  <2>1. Posted(a)' = Posted(a)
    BY <1>2, <1>9
  <2>2. balance'[a] = balance[a]
    BY <1>1, <1>9 DEF Book!Moves
  <2> QED
    BY <1>3, <1>7, <2>1, <2>2
<1>10. CASE at # {}
  <2>1. PICK i \in DOMAIN t.entries : t.entries[i].account = a
    BY <1>10
  <2>2. at = {i}
    BY <1>2, <2>1
  <2>3. Posted(a)' = Posted(a) \cup {<<t, i>>} /\ <<t, i>> \notin Posted(a)
    BY <1>2, <2>2
  <2>4. t.entries[i] \in Entry
    BY <1>0, <1>2, RequestTypes DEF TypeOK
  <2>5. Delta(t.entries[i]) \in Int
    BY <2>1, <2>4, DeltaType
  <2>6. Amounts(a)'[<<t, i>>] = Delta(t.entries[i])
    BY <1>5, <2>3
  <2>7. \A p \in Posted(a) \cup {<<t, i>>} : Amounts(a)'[p] \in Int
    BY <1>2, <1>4, <1>5, <1>6, <2>3, <2>5, <2>6
  <2>8. SumFunctionOnSet(Amounts(a)', Posted(a)') =
          SumFunctionOnSet(Amounts(a)', Posted(a)) + Delta(t.entries[i])
    <3> HIDE DEF t, at
    <3> QED
      BY <1>3, <2>3, <2>6, <2>7, SumAdd
  <2>9. balance'[a] = balance[a] + Delta(t.entries[i])
    BY <1>1, <2>1 DEF Book!Moves
  <2>10. IsFiniteSet(Posted(a)')
    BY <1>3, <2>3, FS_AddElement
  <2>11. Opening[a] \in Int
    BY ChartAssumption
  <2> QED
    BY <1>3, <1>7, <1>8, <2>5, <2>8, <2>9, <2>10, <2>11
<1> QED
  BY <1>9, <1>10

\* The cached balance of every account is its opening balance plus what is
\* posted to it, for any number of sessions and of posted payments, if requests
\* name an account once and count whole cents.
THEOREM BooksBalance ==
    ASSUME SimpleRequests
    PROVE  Spec => []BalanceMatchesEntries
<1> DEFINE BooksInv == BalancesWhole /\ BalanceMatchesEntries /\ PostedFinite
<1>1. Init => BooksInv
  <2> SUFFICES ASSUME Init PROVE BooksInv
    OBVIOUS
  <2>1. \A a \in Accounts : Posted(a) = {}
    BY DEF Init, Posted
  <2>2. \A a \in Accounts : SumFunction(Amounts(a)) = 0 /\ Opening[a] \in Int
    BY <2>1, SumEmpty, ChartAssumption DEF SumFunction, Amounts
  <2>3. BalanceMatchesEntries
    BY <2>2 DEF Init, BalanceMatchesEntries, Amounts
  <2>4. PostedFinite
    BY <2>1, FS_EmptySet DEF PostedFinite
  <2> QED
    BY <2>3, <2>4, ChartAssumption DEF Init, BalancesWhole
<1>2. LedgerInv /\ BooksInv /\ [Next]_vars => BooksInv'
  <2> SUFFICES ASSUME LedgerInv, BooksInv, [Next]_vars PROVE BooksInv'
    OBVIOUS
  <2>1. BalancesWhole'
    BY BalancesStayWhole
  <2>2. CASE UNCHANGED <<balance, txns>>
    BY <2>1, <2>2 DEF BalanceMatchesEntries, PostedFinite, Posted
  <2>3. ASSUME NEW s \in Sessions, Commit(s) PROVE BooksInv'
    BY <2>1, <2>3, CommitBalances
  <2> QED
    BY <2>2, <2>3, OthersStutter
<1>3. BooksInv => BalanceMatchesEntries
  OBVIOUS
<1> HIDE DEF BooksInv
<1> QED
  BY <1>1, <1>2, <1>3, Invariance, PTL DEF Spec

-----------------------------------------------------------------------------
(* The trial balance *)

\* What an entry adds to its account's balance, each as a debit.
AsDebit(e) == IF e.direction = "debit" THEN e.amount ELSE -e.amount

LEMMA EntriesTyped ==
    ASSUME NEW E \in Seq(Entry)
    PROVE  /\ DOMAIN E = 1..Len(E)
           /\ Len(E) \in Nat
           /\ \A i \in DOMAIN E : E[i].amount \in Int /\ E[i].direction \in {"debit", "credit"}
<1>1. E \in [1..Len(E) -> Entry] /\ Len(E) \in Nat
  BY LenProperties
<1>2. \A e \in Entry : e.amount \in Int /\ e.direction \in {"debit", "credit"}
  BY DEF Entry, Directions
<1> QED
  BY <1>1, <1>2

\* The two sides of balanced entries cancel out.
LEMMA BalancedCancels ==
    ASSUME NEW E \in Seq(Entry), Balanced(E)
    PROVE  SumFunctionOnSet([i \in DOMAIN E |-> AsDebit(E[i])], DOMAIN E) = 0
<1> DEFINE amount == [i \in DOMAIN E |-> E[i].amount]
           moved == [i \in DOMAIN E |-> AsDebit(E[i])]
           D == {i \in DOMAIN E : E[i].direction = "debit"}
           C == {i \in DOMAIN E : E[i].direction = "credit"}
<1>1. /\ DOMAIN E = 1..Len(E)
      /\ Len(E) \in Nat
      /\ \A i \in DOMAIN E : E[i].amount \in Int /\ E[i].direction \in {"debit", "credit"}
  BY EntriesTyped
<1>2. IsFiniteSet(DOMAIN E)
  BY <1>1, FS_Interval
<1>3. IsFiniteSet(D) /\ IsFiniteSet(C) /\ D \cap C = {} /\ DOMAIN E = D \cup C
  BY <1>1, <1>2, FS_Subset
<1>4. \A i \in D \cup C : moved[i] \in Int
  BY <1>1 DEF AsDebit
<1>5. \A i \in D : moved[i] = amount[i] /\ amount[i] \in Int
  BY <1>1 DEF AsDebit
<1>6. \A i \in C : amount[i] \in Int /\ moved[i] = -amount[i]
  BY <1>1 DEF AsDebit
<1>7. SumFunctionOnSet(amount, D) = SumFunctionOnSet(amount, C)
  BY DEF Balanced, Total
<1> HIDE DEF amount, moved, D, C
<1>8. SumFunctionOnSet(moved, D) = SumFunctionOnSet(amount, D)
  BY <1>3, <1>5, SumAgree
<1>9. SumFunctionOnSet(moved, C) = -SumFunctionOnSet(amount, C)
  BY <1>3, <1>6, SumNegate
<1>10. SumFunctionOnSet(moved, DOMAIN E) =
         SumFunctionOnSet(moved, D) + SumFunctionOnSet(moved, C)
  BY <1>3, <1>4, SumUnion
<1>11. SumFunctionOnSet(amount, C) \in Int
  BY <1>3, <1>6, SumType
<1> QED
  BY <1>7, <1>8, <1>9, <1>10, <1>11 DEF moved

\* Entries that balance, each on an account of its own, leave the trial
\* balance as it is.
LEMMA MovesCancel ==
    ASSUME NEW E \in Seq(Entry), Balanced(E),
           NEW old \in [Accounts -> Int], NEW new \in [Accounts -> Int],
           \A i, j \in DOMAIN E : E[i].account = E[j].account => i = j,
           \A i \in DOMAIN E : /\ E[i].account \in Accounts
                               /\ new[E[i].account] = old[E[i].account] + Delta(E[i]),
           \A a \in Accounts : (\A i \in DOMAIN E : E[i].account # a) => new[a] = old[a]
    PROVE  SumFunction(AsDebits(new)) = SumFunction(AsDebits(old))
<1> DEFINE at == [i \in DOMAIN E |-> E[i].account]
           moved == [i \in DOMAIN E |-> AsDebit(E[i])]
<1>1. /\ DOMAIN E = 1..Len(E)
      /\ Len(E) \in Nat
      /\ \A i \in DOMAIN E : E[i].amount \in Int /\ E[i].direction \in {"debit", "credit"}
  BY EntriesTyped
<1>2. IsFiniteSet(DOMAIN E) /\ IsFiniteSet(Accounts)
  BY <1>1, FS_Interval, ChartAssumption
<1>3. at \in [DOMAIN E -> Accounts] /\ \A i, j \in DOMAIN E : at[i] = at[j] => i = j
  OBVIOUS
<1>4. moved \in [DOMAIN E -> Int]
  BY <1>1 DEF AsDebit
<1>5. \A a \in Accounts : AsDebits(old)[a] \in Int
  BY DEF AsDebits, SignedDelta
<1>6. \A i \in DOMAIN E : AsDebits(new)[at[i]] = AsDebits(old)[at[i]] + moved[i]
  <2> SUFFICES ASSUME NEW i \in DOMAIN E
               PROVE  AsDebits(new)[E[i].account] = AsDebits(old)[E[i].account] + AsDebit(E[i])
    OBVIOUS
  <2>1. /\ E[i].account \in Accounts
        /\ new[E[i].account] = old[E[i].account] + Delta(E[i])
        /\ old[E[i].account] \in Int
        /\ E[i].amount \in Int
        /\ E[i].direction \in {"debit", "credit"}
    BY <1>1
  <2> QED
    BY <2>1 DEF AsDebits, AsDebit, Delta, SignedDelta
<1>7. \A a \in Accounts : (\A i \in DOMAIN E : at[i] # a) => AsDebits(new)[a] = AsDebits(old)[a]
  BY DEF AsDebits
<1>8. SumFunctionOnSet(moved, DOMAIN E) = 0
  BY BalancedCancels
<1>9. DOMAIN AsDebits(new) = Accounts /\ DOMAIN AsDebits(old) = Accounts
  BY DEF AsDebits
<1> HIDE DEF at, moved
<1>10. SumFunctionOnSet(AsDebits(new), Accounts) =
         SumFunctionOnSet(AsDebits(old), Accounts) + SumFunctionOnSet(moved, DOMAIN E)
  <2>1. PICK f : f = AsDebits(old)
    OBVIOUS
  <2>2. PICK g : g = AsDebits(new)
    OBVIOUS
  <2>3. PICK I : I = DOMAIN E
    OBVIOUS
  <2>4. \A a \in Accounts : f[a] \in Int
    BY <1>5, <2>1
  <2>5. \A i \in I : g[at[i]] = f[at[i]] + moved[i]
    BY <1>6, <2>1, <2>2, <2>3
  <2>6. \A a \in Accounts : (\A i \in I : at[i] # a) => g[a] = f[a]
    BY <1>7, <2>1, <2>2, <2>3
  <2>7. /\ IsFiniteSet(I) /\ IsFiniteSet(Accounts)
        /\ at \in [I -> Accounts] /\ moved \in [I -> Int]
        /\ \A i, j \in I : at[i] = at[j] => i = j
    BY <1>2, <1>3, <1>4, <2>3
  <2>8. SumFunctionOnSet(g, Accounts) =
          SumFunctionOnSet(f, Accounts) + SumFunctionOnSet(moved, I)
    <3>1. Moves(f, g, Accounts, at, moved, I)
      BY ONLY <2>4, <2>5, <2>6, <2>7 DEF Moves
    <3> QED
      BY ONLY <3>1, SumMoves
  <2> QED
    BY <2>1, <2>2, <2>3, <2>8
<1>11. SumFunctionOnSet(AsDebits(old), Accounts) \in Int
  BY <1>2, <1>5, SumType
<1> QED
  BY <1>8, <1>9, <1>10, <1>11 DEF SumFunction

\* Debits and credits over all accounts differ by what they differed at the
\* opening, for any chart and any number of payments, if requests name an
\* account once and count whole cents.
THEOREM TrialBalanceKept ==
    ASSUME SimpleRequests
    PROVE  Spec => []TrialBalance
<1> DEFINE TrialInv == BalancesWhole /\ TrialBalance
<1>1. Init => TrialInv
  BY ChartAssumption DEF Init, BalancesWhole, TrialBalance
<1>2. LedgerInv /\ TrialInv /\ [Next]_vars => TrialInv'
  <2> SUFFICES ASSUME LedgerInv, TrialInv, [Next]_vars PROVE TrialInv'
    OBVIOUS
  <2>1. BalancesWhole'
    BY BalancesStayWhole
  <2>2. CASE UNCHANGED <<balance, txns>>
    BY <2>1, <2>2 DEF TrialBalance
  <2>3. ASSUME NEW s \in Sessions, Commit(s)
        PROVE  SumFunction(AsDebits(balance')) = SumFunction(AsDebits(balance))
    <3>1. Book!Post(Draft(s, req[s])) /\ Draft(s, req[s]).entries = req[s].entries
      BY <2>3, CommitPosts, StoredWhole DEF Draft, LedgerInv, TypeOK
    <3>2. Balanced(req[s].entries) /\ Book!Moves(req[s].entries)
      BY <3>1 DEF Book!Post
    <3>3. PICK E \in Seq(Entry) : E = req[s].entries
      BY <2>3, RequestTypes DEF LedgerInv, TypeOK
    <3>4. \A i, j \in DOMAIN E : E[i].account = E[j].account => i = j
      BY <2>3, <3>3 DEF SimpleRequests, LedgerInv, TypeOK
    <3>5. balance \in [Accounts -> Int] /\ balance' \in [Accounts -> Int]
      BY <3>2 DEF Book!Moves, LedgerInv, TypeOK
    <3>6. /\ \A i \in DOMAIN E :
                /\ E[i].account \in Accounts
                /\ balance'[E[i].account] = balance[E[i].account] + Delta(E[i])
          /\ \A a \in Accounts : (\A i \in DOMAIN E : E[i].account # a) => balance'[a] = balance[a]
      BY <3>2, <3>3 DEF Book!Moves
    <3>7. Balanced(E)
      BY <3>2, <3>3
    <3> QED
      BY <3>4, <3>5, <3>6, <3>7, MovesCancel
  <2> QED
    BY <2>1, <2>2, <2>3, OthersStutter DEF TrialBalance
<1>3. TrialInv => TrialBalance
  OBVIOUS
<1> HIDE DEF TrialInv
<1> QED
  BY <1>1, <1>2, <1>3, Invariance, PTL DEF Spec

-----------------------------------------------------------------------------
(* Lock cycles *)

\* Locks are taken with a result and given back with the results.
LEMMA LocksStayListed ==
    ASSUME LedgerInv, LocksListed, [Next]_vars
    PROVE  LocksListed'
<1> USE DEF LocksListed, LedgerInv
<1>0. TypeOK
  OBVIOUS
<1>1. ASSUME NEW s \in Sessions, NEW o, Abandon(s, o)
      PROVE  LocksListed'
  BY <1>0, <1>1 DEF Abandon, Unlocked, TypeOK
<1>2. ASSUME NEW s \in Sessions, LockEntry(s)
      PROVE  LocksListed'
  <2> DEFINE a == Current(s).account
             new == balance[a] + Delta(Current(s))
  <2>1. CASE Abandon(s, "insufficient_funds")
    BY <1>1, <2>1
  <2>2. CASE /\ lock' = [lock EXCEPT ![a] = s]
             /\ results' = [results EXCEPT ![s] = Append(@, new)]
             /\ UNCHANGED <<balance, txns, pc, req, reply>>
    <3>1. results[s] \in Seq(Int) /\ DOMAIN results[s] = 1..Len(results[s]) /\ Len(results[s]) \in Nat
      BY <1>0 DEF TypeOK
    <3>2. results'[s] = Append(results[s], new) /\ DOMAIN results'[s] = 1..(Len(results[s]) + 1)
      BY <1>0, <2>2, <3>1 DEF TypeOK
    <3>3. \A u \in Sessions : DOMAIN results[u] \subseteq DOMAIN results'[u]
      BY <1>0, <2>2, <3>1, <3>2 DEF TypeOK
    <3>4. Len(results[s]) + 1 \in DOMAIN results'[s]
      BY <3>1, <3>2
    <3>5. req[s].entries[Len(results[s]) + 1].account = a
      BY DEF Current
    <3> SUFFICES ASSUME NEW b \in Accounts, lock'[b] # NoSession
                 PROVE  \E i \in DOMAIN results'[lock'[b]] : req[lock'[b]].entries[i].account = b
      BY <2>2
    <3>6. CASE b = a
      <4>1. lock'[b] = s
        BY <1>0, <2>2, <3>6 DEF TypeOK
      <4> QED
        BY <3>4, <3>5, <3>6, <4>1
    <3>7. CASE b # a
      <4>1. lock'[b] = lock[b] /\ lock[b] \in Sessions
        BY <1>0, <2>2, <3>7 DEF TypeOK
      <4> QED
        BY <3>3, <4>1
    <3> QED
      BY <3>6, <3>7
  <2> QED
    BY <1>2, <2>1, <2>2 DEF LockEntry
<1>3. ASSUME NEW s \in Sessions, Commit(s)
      PROVE  LocksListed'
  <2>1. CASE Abandon(s, "duplicate_transaction")
    BY <1>1, <2>1
  <2>2. CASE /\ lock' = Unlocked(s)
             /\ results' = [results EXCEPT ![s] = <<>>]
             /\ req' = req
    BY <1>0, <2>2 DEF Unlocked, TypeOK
  <2> QED
    BY <1>3, <2>1, <2>2 DEF Commit
<1>4. CASE Crash
  BY <1>4 DEF Crash
<1>5. CASE UNCHANGED <<lock, results, req>>
  BY <1>5
<1> QED
  BY <1>1, <1>2, <1>3, <1>4, <1>5
  DEF Next, Handle, Submit, CheckKey, RejectUnbalanced, RejectUnknown, FinishDryRun,
      Flush, Respond, DeadlockAbort, Fail, Quiet, vars

\* Sessions that follow one order of the accounts never wait in a cycle: each
\* waits for an account further on than the one it is waited for.
LEMMA OrderedNeverCycle ==
    ASSUME LedgerInv, LocksListed, NEW C \in SUBSET Sessions, LockCycle(C), OneOrder(C)
    PROVE  FALSE
<1> DEFINE N == Cardinality(Accounts)
           wanted(s) == Current(s).account
<1>0. TypeOK /\ N \in Nat
  BY ChartAssumption, FS_CardinalityType DEF LedgerInv
<1>1. PICK rank \in [Accounts -> 1..N] :
        \A s \in C : \A i, j \in DOMAIN req[s].entries :
            LET a == req[s].entries[i].account
                b == req[s].entries[j].account
            IN i < j /\ a # b /\ {a, b} \subseteq Accounts => rank[a] < rank[b]
  BY DEF OneOrder
<1>2. \A s \in C : wanted(s) \in Accounts /\ rank[wanted(s)] \in 1..N
  BY DEF LockCycle, Waiting
<1> DEFINE ranks == {rank[wanted(s)] : s \in C}
<1>3. ranks \in SUBSET (1..N) /\ ranks # {}
  <2>1. C # {}
    BY DEF LockCycle
  <2> HIDE DEF wanted, N
  <2> QED
    BY <1>2, <2>1
<1>4. PICK m \in ranks : \A r \in ranks : r <= m
  <2> HIDE DEF ranks, N
  <2> QED
    BY <1>0, <1>3, LastExists
<1>5. PICK s \in C : m = rank[wanted(s)]
  OBVIOUS
<1> DEFINE t == Holder(s)
<1>6. t \in C /\ lock[wanted(s)] = t /\ t \in Sessions /\ t # NoSession
  BY SessionAssumption DEF LockCycle, Holder
<1>7. PICK i \in DOMAIN results[t] : req[t].entries[i].account = wanted(s)
  BY <1>2, <1>6 DEF LocksListed
<1> DEFINE j == Len(results[t]) + 1
<1>8. /\ wanted(t) = req[t].entries[j].account
      /\ i \in DOMAIN req[t].entries /\ j \in DOMAIN req[t].entries /\ i < j
  <2>1. Len(results[t]) < Len(req[t].entries)
    BY <1>6 DEF LockCycle, Waiting, Validating
  <2>2. DOMAIN results[t] = 1..Len(results[t]) /\ Len(results[t]) \in Nat
    BY <1>0, <1>6 DEF TypeOK
  <2>3. DOMAIN req[t].entries = 1..Len(req[t].entries) /\ Len(req[t].entries) \in Nat
    BY <1>0, <1>6, RequestTypes DEF TypeOK
  <2> QED
    BY <1>7, <2>1, <2>2, <2>3 DEF Current
<1>9. wanted(t) # wanted(s)
  BY <1>6 DEF LockCycle, Waiting, Lockable
<1>10. rank[wanted(s)] < rank[wanted(t)]
  <2> HIDE DEF t, j, wanted
  <2> QED
    BY <1>1, <1>2, <1>6, <1>7, <1>8, <1>9
<1>11. rank[wanted(t)] <= rank[wanted(s)]
  BY <1>4, <1>5, <1>6
<1>12. rank[wanted(t)] \in Int /\ rank[wanted(s)] \in Int
  BY <1>2, <1>6
<1> QED
  BY <1>10, <1>11, <1>12

\* Any number of sessions wait in a cycle only if their requests list the
\* accounts in orders that contradict each other.
THEOREM CyclesNeedDisorder == Spec => []NoLockCycle
<1>1. Init => LocksListed
  BY DEF Init, LocksListed
<1>2. LedgerInv /\ LocksListed /\ [Next]_vars => LocksListed'
  BY LocksStayListed
<1>3. LedgerInv /\ LocksListed => NoLockCycle
  BY OrderedNeverCycle DEF NoLockCycle
<1> QED
  BY <1>1, <1>2, <1>3, Invariance, PTL DEF Spec
=============================================================================
