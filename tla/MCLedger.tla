------------------------------ MODULE MCLedger ------------------------------
(***************************************************************************)
(* Small ledgers for TLC.  Money is in half cents: operating cash opens    *)
(* with 10 cents, so that two payments of 6 cents cannot both be made.     *)
(***************************************************************************)
EXTENDS Ledger

MCAccounts == {"cash", "payable", "expense"}

MCNames == MCAccounts \cup {"petty-cash"}

MCAccountType == [a \in MCAccounts |->
    CASE a = "cash" -> "asset" [] a = "payable" -> "liability" [] a = "expense" -> "expense"]

MCAllowNegative == [a \in MCAccounts |-> a # "cash"]

MCOpening == [a \in MCAccounts |-> IF a = "cash" THEN 20 ELSE 0]

Line(a, d, x) == [account |-> a, direction |-> d, amount |-> x]

Make(o, k, e) == [op |-> o, key |-> k, entries |-> e]

\* payment_execution's two entries, in its order.
Payment(x) == <<Line("expense", "debit", x), Line("cash", "credit", x)>>

\* Other callers of the API are free to list entries in another order.
Refund(x) == <<Line("cash", "debit", x), Line("expense", "credit", x)>>

Split == <<Line("expense", "debit", 8), Line("payable", "debit", 4),
           Line("cash", "credit", 12)>>

MixedRequests == {
    Make("post", "inv1", Refund(4)),
    Make("post", "inv2", Payment(12)),
    Make("post", "inv3", Split),
    Make("post", "inv2", <<Line("expense", "debit", 4), Line("cash", "credit", 6)>>),
    Make("post", "inv3", <<Line("expense", "debit", 4), Line("petty-cash", "credit", 4)>>),
    Make("dry_run", "inv2", Refund(2))}
=============================================================================
