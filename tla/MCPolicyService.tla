-------------------------- MODULE MCPolicyService --------------------------
(***************************************************************************)
(* A policy service with two threads for TLC.  The requests are those of   *)
(* the backend's nodes, of sandbox-runner and of the authorization matrix  *)
(* in infra/scripts/validate-cedar-policies.py.                            *)
(***************************************************************************)
EXTENDS PolicyService, TLC

Agent(id, tier) ==
    [type |-> "Agent", id |-> id, trustTier |-> tier, approvalAuthorityTier |-> 0]

User(id, authority) ==
    [type |-> "User", id |-> id, trustTier |-> "", approvalAuthorityTier |-> authority]

Payment(vendor, amount, firstSeen) ==
    [type |-> "Payment", name |-> "", vendor |-> vendor, amount |-> amount,
     vendorFirstSeen |-> firstSeen, approvalCount |-> 0]

Tool(name) == [Payment("", 0, FALSE) EXCEPT !.type = "Tool", !.name = name]

Call(principal, action, resource) ==
    [principal |-> principal, action |-> action, resource |-> resource,
     given |-> (IF principal.type = "Agent" THEN {"trustTier"} ELSE {"approvalAuthorityTier"})
                 \cup (IF resource.type = "Tool" THEN {"name"}
                       ELSE {"amount", "vendor", "vendorFirstSeen", "approvalCount"})]

ApprovalAgent == Agent("approval", "read-and-flag")

Approval(vendor, amount, firstSeen) ==
    Call(ApprovalAgent, "ApprovePayment", Payment(vendor, amount, firstSeen))

\* Two vendors' routine payments: what the rate limit has to tell apart.
RoutineApprovals == {Approval("acme", 50000, FALSE), Approval("bolt", 50000, FALSE)}

\* A payment whose amount is not sent: the clauses that read it are errors.
Unpriced == [Approval("acme", 500051, FALSE) EXCEPT !.given = @ \ {"amount"}]

PolicyRequests == {
    Unpriced,
    Approval("acme", 500050, FALSE),
    Approval("acme", 500051, FALSE),
    Approval("acme", 50000, TRUE),
    Call(User("controller.demo", 2), "ApprovePayment", Payment("acme", 5000000, FALSE)),
    Call(User("clerk.demo", 1), "ApprovePayment", Payment("acme", 5000000, FALSE)),
    Call(Agent("payment-execution", "write-ledger"), "CreateLedgerEntry",
         Payment("acme", 500051, TRUE)),
    Call(ApprovalAgent, "CreateLedgerEntry", Payment("acme", 50000, FALSE)),
    Call(Agent("extraction", "read-only"), "InvokeTool", Tool("sandbox-ocr")),
    Call(Agent("risk-scoring", "read-and-flag"), "FlagForReview", Payment("acme", 50000, TRUE)),
    Call(Agent("risk-scoring", "read-and-flag"), "UpdateVendorRecord",
         Payment("acme", 50000, FALSE))}

PolicyHalts == {<<"global", "*">>, <<"agent", "approval">>, <<"tool", "sandbox-ocr">>}

NoHalts == {}

Symmetric == Permutations(Workers)
=============================================================================
