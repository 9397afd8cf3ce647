---------------------------- MODULE DoubleEntry ----------------------------
(***************************************************************************)
(* The arithmetic of the ledger: how an entry moves an account, what the   *)
(* two sides of a transaction add up to, and what PostgreSQL keeps of an   *)
(* amount.  An entry is a record [account, direction, amount]; amounts are *)
(* integers counted in HALF CENTS, the coarsest unit in which an amount    *)
(* that NUMERIC(18,2) has to round differs from one it stores exactly.     *)
(***************************************************************************)
EXTENDS Integers, Sequences, Functions

Directions == {"debit", "credit"}

AccountTypes == {"asset", "liability", "expense", "revenue", "equity"}

IncreasesOnDebit == {"asset", "expense"}

\* What an entry adds to the balance of an account of this type.
SignedDelta(type, direction, amount) ==
    IF (type \in IncreasesOnDebit) = (direction = "debit")
    THEN amount ELSE -amount

\* The sum of one side of a list of entries.
Total(entries, direction) ==
    SumFunctionOnSet([i \in DOMAIN entries |-> entries[i].amount],
                     {i \in DOMAIN entries : entries[i].direction = direction})

\* Deviation: only debits without a credit for them are refused.
BalancedCovered(entries) == Total(entries, "debit") <= Total(entries, "credit")

Balanced(entries) == Total(entries, "debit") = Total(entries, "credit")

\* NUMERIC(18,2): a third decimal is rounded half away from zero.
ToCents(x) == IF x >= 0 THEN 2 * ((x + 1) \div 2) ELSE -(2 * ((1 - x) \div 2))

WholeCents(x) == x % 2 = 0

\* The entries as the entries table keeps them.
StoredEntries(entries) ==
    [i \in 1..Len(entries) |-> [entries[i] EXCEPT !.amount = ToCents(@)]]
=============================================================================
