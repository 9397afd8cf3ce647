------------------------------- MODULE Ledger -------------------------------
(***************************************************************************)
(* services/ledger: concurrent requests against one PostgreSQL database.   *)
(* FastAPI runs each request in a thread of its own with a database        *)
(* session of its own, so a session here is one request from its arrival   *)
(* to its reply.  The database runs at READ COMMITTED: a SELECT sees what  *)
(* is committed, SELECT ... FOR UPDATE waits for the row lock, an INSERT   *)
(* of a unique key waits for an uncommitted holder of the same key, and a  *)
(* cycle of lock waits is broken by aborting one waiter.                   *)
(***************************************************************************)
EXTENDS DoubleEntry, FiniteSets

CONSTANTS
    Sessions,       \* one per HTTP request ever made to the service
    Accounts,       \* the seeded accounts
    AccountType,    \* [Accounts -> AccountTypes]
    AllowNegative,  \* [Accounts -> BOOLEAN]
    Opening,        \* [Accounts -> Int]
    Keys,           \* idempotency keys
    Names,          \* account names a caller may write, known or not
    Requests,       \* the requests callers make
    NoSession       \* nobody holds the lock

Entry == [account : Names, direction : Directions, amount : Int]

Request == [op : {"post", "dry_run"}, key : Keys, entries : Seq(Entry)]

ASSUME SessionAssumption == NoSession \notin Sessions

ASSUME ChartAssumption ==
    /\ Accounts \subseteq Names
    /\ IsFiniteSet(Accounts)
    /\ AccountType \in [Accounts -> AccountTypes]
    /\ AllowNegative \in [Accounts -> BOOLEAN]
    /\ Opening \in [Accounts -> Int]
    /\ \A a \in Accounts : /\ Opening[a] >= 0 \/ AllowNegative[a]
                           /\ WholeCents(Opening[a])

ASSUME RequestAssumption == Requests \subseteq Request

VARIABLES
    balance,    \* committed accounts.balance
    txns,       \* committed transactions: [id, key, entries]
    lock,       \* row lock of each account: a session or NoSession
    pc,         \* where each request is in its handler
    req,        \* the request of each session
    results,    \* the list _validate_and_compute is building
    reply       \* what the caller was told

vars == <<balance, txns, lock, pc, req, results, reply>>

Outcomes == {"none", "posted", "valid", "duplicate_transaction",
             "unbalanced_entries", "account_not_found",
             "insufficient_funds", "internal_error", "lost"}

Steps == {"idle", "check", "validate", "flushed", "committed", "done"}

Draft(s, r) == [id |-> s, key |-> r.key, entries |-> StoredEntries(r.entries)]

Drafts == {Draft(s, r) : s \in Sessions, r \in {q \in Requests : q.op = "post"}}

TypeOK ==
    /\ balance \in [Accounts -> Int]
    /\ txns \subseteq Drafts
    /\ lock \in [Accounts -> Sessions \cup {NoSession}]
    /\ pc \in [Sessions -> Steps]
    /\ req \in [Sessions -> Requests]
    /\ results \in [Sessions -> Seq(Int)]
    /\ reply \in [Sessions -> Outcomes]

Init ==
    /\ balance = Opening
    /\ txns = {}
    /\ lock = [a \in Accounts |-> NoSession]
    /\ pc = [s \in Sessions |-> "idle"]
    /\ req \in [Sessions -> Requests]
    /\ results = [s \in Sessions |-> <<>>]
    /\ reply = [s \in Sessions |-> "none"]

-----------------------------------------------------------------------------
(* Shorthands *)

\* A committed transaction has this idempotency key.
KeyPosted(k) == \E t \in txns : t.key = k

\* Another session has inserted this key and not yet committed.
KeyInFlight(s) ==
    \E t \in Sessions \ {s} : pc[t] = "flushed" /\ req[t].key = req[s].key

\* There is an entry left for _validate_and_compute.
Validating(s) == pc[s] = "validate" /\ Len(results[s]) < Len(req[s].entries)

\* Deviation: dry runs take the entries from the last to the first.
CurrentBackwards(s) ==
    req[s].entries[IF req[s].op = "dry_run"
                   THEN Len(req[s].entries) - Len(results[s])
                   ELSE Len(results[s]) + 1]

\* The entry it is at.
Current(s) == req[s].entries[Len(results[s]) + 1]

Validated(s) ==
    /\ pc[s] = "validate"
    /\ Len(results[s]) = Len(req[s].entries)
    /\ Balanced(req[s].entries)

Delta(e) == SignedDelta(AccountType[e.account], e.direction, e.amount)

\* Deviation: the session is not closed, its row locks stay.
UnlockedNever(s) == [a \in Accounts |-> lock[a]]

\* The row locks once the transaction of s has ended.
Unlocked(s) == [a \in Accounts |-> IF lock[a] = s THEN NoSession ELSE lock[a]]

\* The request ends without a commit: the transaction is rolled back, its
\* row locks go, and the caller gets this answer.
Abandon(s, outcome) ==
    /\ pc' = [pc EXCEPT ![s] = "done"]
    /\ reply' = [reply EXCEPT ![s] = outcome]
    /\ results' = [results EXCEPT ![s] = <<>>]
    /\ lock' = Unlocked(s)
    /\ UNCHANGED <<balance, txns, req>>

-----------------------------------------------------------------------------
(* The steps of a request *)

Submit(s) ==
    /\ pc[s] = "idle"
    /\ pc' = [pc EXCEPT ![s] = IF req[s].op = "post" THEN "check" ELSE "validate"]
    /\ UNCHANGED <<balance, txns, lock, req, results, reply>>

\* Deviation: a key that is being posted already counts as posted.
CheckKeyInFlight(s) ==
    /\ pc[s] = "check"
    /\ IF KeyPosted(req[s].key) \/ KeyInFlight(s)
       THEN Abandon(s, "duplicate_transaction")
       ELSE /\ pc' = [pc EXCEPT ![s] = "validate"]
            /\ UNCHANGED <<balance, txns, lock, req, results, reply>>

\* post_transaction: SELECT by idempotency_key, without a lock.
CheckKey(s) ==
    /\ pc[s] = "check"
    /\ IF KeyPosted(req[s].key)
       THEN Abandon(s, "duplicate_transaction")
       ELSE /\ pc' = [pc EXCEPT ![s] = "validate"]
            /\ UNCHANGED <<balance, txns, lock, req, results, reply>>

RejectUnbalanced(s) ==
    /\ pc[s] = "validate"
    /\ ~Balanced(req[s].entries)
    /\ Abandon(s, "unbalanced_entries")

RejectUnknown(s) ==
    /\ Validating(s)
    /\ Balanced(req[s].entries)
    /\ Current(s).account \notin Accounts
    /\ Abandon(s, "account_not_found")

\* Deviation: a plain SELECT, as the balance endpoint does it.
LockableAlways(s, a) == a \in Accounts

\* The row can be locked: nobody else holds it.
Lockable(s, a) == lock[a] \in {NoSession, s}

\* Deviation: the balance before the entry is the one tested.
OverdrawnBefore(a, new) == balance[a] < 0 /\ ~AllowNegative[a]

Overdrawn(a, new) == new < 0 /\ ~AllowNegative[a]

\* SELECT ... FOR UPDATE of the next entry's account, then its new balance.
LockEntry(s) ==
    /\ Validating(s)
    /\ Balanced(req[s].entries)
    /\ Current(s).account \in Accounts
    /\ LET a == Current(s).account
           new == balance[a] + Delta(Current(s))
       IN /\ Lockable(s, a)
          /\ IF Overdrawn(a, new)
             THEN Abandon(s, "insufficient_funds")
             ELSE /\ lock' = [lock EXCEPT ![a] = s]
                  /\ results' = [results EXCEPT ![s] = Append(@, new)]
                  /\ UNCHANGED <<balance, txns, pc, req, reply>>

\* Deviation: a dry run that falls through to the write path.
FinishDryRunByFlushing(s) ==
    /\ Validated(s)
    /\ req[s].op = "dry_run"
    /\ pc' = [pc EXCEPT ![s] = "flushed"]
    /\ UNCHANGED <<balance, txns, lock, req, results, reply>>

\* dry_run: everything it computed is rolled back.
FinishDryRun(s) ==
    /\ Validated(s)
    /\ req[s].op = "dry_run"
    /\ Abandon(s, "valid")

\* Deviation: no unique constraint, the earlier SELECT is trusted.
FlushUnconstrained(s) ==
    /\ Validated(s)
    /\ req[s].op = "post"
    /\ pc' = [pc EXCEPT ![s] = "flushed"]
    /\ UNCHANGED <<balance, txns, lock, req, results, reply>>

\* db.flush(): INSERT of the transaction row.  A key committed meanwhile
\* raises IntegrityError here, outside the try block around the commit.
Flush(s) ==
    /\ Validated(s)
    /\ req[s].op = "post"
    /\ ~KeyInFlight(s)
    /\ IF KeyPosted(req[s].key)
       THEN Abandon(s, "internal_error")
       ELSE /\ pc' = [pc EXCEPT ![s] = "flushed"]
            /\ UNCHANGED <<balance, txns, lock, req, results, reply>>

\* UniqueConstraint(transaction_id, account_id, direction).
EntriesClash(entries) ==
    \E i, j \in DOMAIN entries :
        /\ i # j
        /\ entries[i].account = entries[j].account
        /\ entries[i].direction = entries[j].direction

\* Deviation: only the first entry's account is written.
AssignedFirst(entries, news) ==
    [a \in Accounts |->
        IF Len(entries) > 0 /\ entries[1].account = a THEN ToCents(news[1]) ELSE balance[a]]

\* account.balance = new_balance, entry by entry: the last one assigned stays.
Assigned(entries, news) ==
    [a \in Accounts |->
        LET at == {i \in DOMAIN entries : entries[i].account = a}
        IN IF at = {} THEN balance[a]
           ELSE ToCents(news[CHOOSE i \in at : \A j \in at : j <= i])]

\* db.commit(): the entries and balances are flushed and made durable.
Commit(s) ==
    /\ pc[s] = "flushed"
    /\ IF EntriesClash(req[s].entries)
       THEN Abandon(s, "duplicate_transaction")
       ELSE /\ balance' = Assigned(req[s].entries, results[s])
            /\ txns' = txns \cup {Draft(s, req[s])}
            /\ lock' = Unlocked(s)
            /\ pc' = [pc EXCEPT ![s] = "committed"]
            /\ results' = [results EXCEPT ![s] = <<>>]
            /\ UNCHANGED <<req, reply>>

Respond(s) ==
    /\ pc[s] = "committed"
    /\ pc' = [pc EXCEPT ![s] = "done"]
    /\ reply' = [reply EXCEPT ![s] = "posted"]
    /\ UNCHANGED <<balance, txns, lock, req, results>>

-----------------------------------------------------------------------------
(* PostgreSQL breaks a cycle of lock waits; a statement may fail and the   *)
(* service may die at any point.                                           *)

Waiting(s) ==
    /\ Validating(s)
    /\ Balanced(req[s].entries)
    /\ Current(s).account \in Accounts
    /\ ~Lockable(s, Current(s).account)

Holder(s) == lock[Current(s).account]

\* A set in which everybody waits for somebody of the set and everybody is
\* waited for: it is made of cycles.
LockCycle(C) ==
    /\ C # {}
    /\ \A s \in C : Waiting(s)
    /\ {Holder(s) : s \in C} = C

\* The deadlock detector cancels a statement: OperationalError, not a
\* LedgerError and not an IntegrityError, so the caller sees a 500.
DeadlockAbort(s) ==
    /\ \E C \in SUBSET Sessions : s \in C /\ LockCycle(C)
    /\ Abandon(s, "internal_error")

\* A statement fails, or the refresh of the transaction or a lazy load of the
\* answer's entries after the commit: nothing catches it, so the caller sees a
\* 500, and what is committed by then stays.
Fail(s) ==
    /\ pc[s] \in {"check", "validate", "flushed", "committed"}
    /\ Abandon(s, "internal_error")

\* The process dies: open transactions roll back, callers see a broken
\* connection whether or not their transaction had committed.
Crash ==
    /\ \E s \in Sessions : pc[s] \notin {"idle", "done"}
    /\ LET open == {s \in Sessions : pc[s] \notin {"idle", "done"}}
       IN /\ pc' = [s \in Sessions |-> IF s \in open THEN "done" ELSE pc[s]]
          /\ reply' = [s \in Sessions |-> IF s \in open THEN "lost" ELSE reply[s]]
    /\ lock' = [a \in Accounts |-> NoSession]
    /\ results' = [s \in Sessions |-> <<>>]
    /\ UNCHANGED <<balance, txns, req>>

Handle(s) ==
    \/ CheckKey(s)
    \/ RejectUnbalanced(s)
    \/ RejectUnknown(s)
    \/ LockEntry(s)
    \/ FinishDryRun(s)
    \/ Flush(s)
    \/ Commit(s)
    \/ Respond(s)
    \/ DeadlockAbort(s)

\* All requests have been answered.
Quiet == (\A s \in Sessions : pc[s] = "done") /\ UNCHANGED vars

Next ==
    \/ \E s \in Sessions : Submit(s) \/ Handle(s) \/ Fail(s)
    \/ Crash
    \/ Quiet

Spec == Init /\ [][Next]_vars

\* A thread that can run does, and the deadlock detector runs after
\* deadlock_timeout.  Nobody is obliged to submit, nothing obliges a failure or a crash.
Fairness == \A s \in Sessions : WF_vars(Handle(s))

FairSpec == Spec /\ Fairness

-----------------------------------------------------------------------------
(* Properties *)

\* The committed entries of an account, as pairs of a transaction and a place.
Posted(a) ==
    {p \in UNION {{t} \X DOMAIN t.entries : t \in txns} : p[1].entries[p[2]].account = a}

(***************************************************************************)
(* The cached running balance of every account is its opening balance plus *)
(* the signed sum of the entries posted to it, whatever posts, dry runs,   *)
(* aborts and crashes overlap: accounts.balance and the entries table are  *)
(* written by different statements and only the row locks keep them alike. *)
(***************************************************************************)
BalanceMatchesEntries ==
    \A a \in Accounts :
        balance[a] = Opening[a] +
            SumFunction([p \in Posted(a) |-> Delta(p[1].entries[p[2]])])

\* Balances of the accounts, each as a debit.
AsDebits(balances) == [a \in Accounts |-> SignedDelta(AccountType[a], "debit", balances[a])]

\* "a real double-entry transaction must balance": whatever is posted, refused,
\* aborted or lost, debits and credits over all accounts differ by what they
\* differed at the opening, so no money appears or disappears.
TrialBalance == SumFunction(AsDebits(balance)) = SumFunction(AsDebits(Opening))

\* An account that may not go negative never does, although each payment
\* checked the balance before others committed (the FOR UPDATE comment).
NoOverdraft == \A a \in Accounts : balance[a] >= 0 \/ AllowNegative[a]

\* An idempotency key moves money at most once, although the duplicate check
\* is made before the row locks are taken.
KeyPostedOnce == \A t, u \in txns : t.key = u.key => t = u

\* The committed transaction of a session's own request.
OwnPosted(s) == Draft(s, req[s]) \in txns

\* The caller was given a reason and no payment.
Refused(s) ==
    reply[s] \in {"valid", "duplicate_transaction", "unbalanced_entries",
                  "account_not_found", "insufficient_funds"}

(***************************************************************************)
(* What the caller was told is what happened: "posted" only for a          *)
(* transaction that is in the database, a refusal only for one that is     *)
(* not, and "duplicate" only for a key that is taken.  After a server      *)
(* error or a broken connection either may be the case: the statements     *)
(* after the commit can fail as the ones before it can.                    *)
(***************************************************************************)
ReplyTruthful ==
    \A s \in Sessions :
        /\ reply[s] = "posted" => OwnPosted(s)
        /\ Refused(s) => ~OwnPosted(s)
        /\ reply[s] = "duplicate_transaction" => KeyPosted(req[s].key)

\* There is an order of the accounts that all these sessions' requests follow.
OneOrder(C) ==
    \E rank \in [Accounts -> 1..Cardinality(Accounts)] :
        \A s \in C : \A i, j \in DOMAIN req[s].entries :
            LET a == req[s].entries[i].account
                b == req[s].entries[j].account
            IN i < j /\ a # b /\ {a, b} \subseteq Accounts => rank[a] < rank[b]

\* Transactions wait for each other in a cycle only if their requests list the
\* accounts in orders that contradict each other: the backend's payments, all
\* expense first and cash second, never do.
NoLockCycle == \A C \in SUBSET Sessions : LockCycle(C) => ~OneOrder(C)

\* Every request that is taken up is answered: lock waits end.
EveryRequestAnswered ==
    \A s \in Sessions : pc[s] \notin {"idle", "done"} ~> pc[s] = "done"

(***************************************************************************)
(* The inductive invariant behind the safety properties.  What a session   *)
(* has computed stays true until it commits, because the session holds the *)
(* lock of every account it computed from; a flushed key is unposted and   *)
(* flushed by nobody else; and a session leaves at most one transaction.   *)
(***************************************************************************)
LocksHeld ==
    \A a \in Accounts : lock[a] # NoSession => pc[lock[a]] \in {"validate", "flushed"}

ResultsCurrent ==
    \A s \in Sessions : \A i \in DOMAIN results[s] :
        LET e == req[s].entries[i]
        IN /\ pc[s] \in {"validate", "flushed"}
           /\ i \in DOMAIN req[s].entries
           /\ e.account \in Accounts
           /\ lock[e.account] = s
           /\ results[s][i] = balance[e.account] + Delta(e)
           /\ results[s][i] >= 0 \/ AllowNegative[e.account]

FlushedReady ==
    \A s \in Sessions : pc[s] = "flushed" =>
        /\ req[s].op = "post"
        /\ Len(results[s]) = Len(req[s].entries)
        /\ Balanced(req[s].entries)
        /\ ~KeyPosted(req[s].key)
        /\ ~KeyInFlight(s)

OwnersDone ==
    /\ \A t \in txns : /\ pc[t.id] \in {"committed", "done"}
                       /\ t = Draft(t.id, req[t.id])
                       /\ ~Refused(t.id)
    /\ \A s \in Sessions :
          /\ reply[s] # "none" => pc[s] = "done"
          /\ pc[s] = "committed" \/ reply[s] = "posted" => OwnPosted(s)

\* A lock is held for an entry its session is through with: what a session
\* waits for comes later in its request than all it holds.
LocksListed ==
    \A a \in Accounts : lock[a] # NoSession =>
        \E i \in DOMAIN results[lock[a]] : req[lock[a]].entries[i].account = a

LedgerInv ==
    /\ TypeOK
    /\ NoOverdraft
    /\ KeyPostedOnce
    /\ LocksHeld
    /\ ResultsCurrent
    /\ FlushedReady
    /\ OwnersDone

(***************************************************************************)
(* The ledger implements the book: each commit is one Post, every other    *)
(* step stutters.  True of requests that name an account once and count    *)
(* whole cents, as the ones payment_execution sends.                       *)
(***************************************************************************)
Book == INSTANCE PaymentBook WITH
    Drafts <- Drafts, balance <- balance, txns <- txns

ImplementsBook == Book!Spec

SimpleRequests ==
    \A r \in Requests : \A i, j \in DOMAIN r.entries :
        /\ WholeCents(r.entries[i].amount)
        /\ i # j => r.entries[i].account # r.entries[j].account
=============================================================================
