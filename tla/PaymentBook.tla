---------------------------- MODULE PaymentBook ----------------------------
(***************************************************************************)
(* What the ledger promises its callers: a book of posted transactions and *)
(* the balances that follow from it.  A transaction enters the book in one *)
(* step, whole, once per idempotency key, balanced, and never leaves an    *)
(* account below zero that may not go there.  There are no sessions, locks *)
(* or rejected requests here; Ledger is shown to implement this module.    *)
(***************************************************************************)
EXTENDS Integers

CONSTANTS
    Accounts,       \* the accounts of the chart
    AllowNegative,  \* [Accounts -> BOOLEAN]
    Opening,        \* [Accounts -> Int], the seeded balances
    Drafts,         \* the transactions that may be posted: [id, key, entries]
    Delta(_),       \* the signed amount by which an entry moves its account
    Balanced(_)     \* the two sides of a list of entries add up to the same

VARIABLES
    balance,        \* [Accounts -> Int]
    txns            \* the posted drafts

Init ==
    /\ balance = Opening
    /\ txns = {}

\* Every entry moves its own account by its own signed amount, and nothing
\* else moves.
Moves(entries) ==
    /\ balance' \in [Accounts -> Int]
    /\ \A i \in DOMAIN entries :
          /\ entries[i].account \in Accounts
          /\ balance'[entries[i].account] =
               balance[entries[i].account] + Delta(entries[i])
    /\ \A a \in Accounts :
          (\A i \in DOMAIN entries : entries[i].account # a)
             => balance'[a] = balance[a]

Post(d) ==
    /\ \A t \in txns : t.key # d.key
    /\ Balanced(d.entries)
    /\ Moves(d.entries)
    /\ \A a \in Accounts : balance'[a] >= 0 \/ AllowNegative[a]
    /\ txns' = txns \cup {d}

Next == \E d \in Drafts : Post(d)

vars == <<balance, txns>>

Spec == Init /\ [][Next]_vars
=============================================================================
