---------------------------- MODULE MCDenialWatch ----------------------------
(***************************************************************************)
(* A policy service and the watchdog's two checks of its log for TLC: a    *)
(* vendor with approvals, the canary, and an agent whose calls are refused *)
(* by policy.                                                              *)
(***************************************************************************)
EXTENDS DenialWatch, TLC

Call(id, tier, action, vendor) ==
    [principal |-> [type |-> "Agent", id |-> id, trustTier |-> tier, approvalAuthorityTier |-> 0],
     action |-> action,
     resource |-> [type |-> "Payment", name |-> "", vendor |-> vendor, amount |-> 50000,
                   vendorFirstSeen |-> FALSE, approvalCount |-> 0],
     given |-> {"trustTier", "amount", "vendor", "vendorFirstSeen", "approvalCount"}]

WatchRequests == {
    Call("approval", "read-and-flag", "ApprovePayment", "acme"),
    Call("approval", "read-and-flag", "ApprovePayment", "canary"),
    Call("extraction", "read-only", "CreateLedgerEntry", "acme")}

WatchHalts == {<<"global", "*">>, <<"agent", "approval">>, <<"agent", "extraction">>}
=============================================================================
