--------------------------- MODULE CedarPolicies ---------------------------
(***************************************************************************)
(* The policies/*.cedar files as policy-service evaluates them.  Cedar     *)
(* denies by default and a forbid overrides every permit.  A condition     *)
(* that reads an attribute the request did not send is an error, and a     *)
(* policy in error is skipped, be it a permit or a forbid.                 *)
(* A request is [principal, action, resource, given], where given names    *)
(* the attributes that were sent; amounts are integers counted in cents.   *)
(***************************************************************************)
EXTENDS Integers

FlaggingActions == {"FlagForReview", "RequestAdditionalDocumentation", "UpdateVendorRecord"}

Actions == FlaggingActions \cup {"ApprovePayment", "CreateLedgerEntry", "InvokeTool"}

Attributes == {"trustTier", "approvalAuthorityTier", "amount", "vendorFirstSeen",
               "approvalCount", "vendor", "name"}

\* Python's round(): to the nearest dollar, a half to the even one.
Rounded(cents) ==
    LET dollars == cents \div 100
        rest == cents % 100
    IN IF rest > 50 \/ (rest = 50 /\ dollars % 2 = 1) THEN dollars + 1 ELSE dollars

Sent(q, attribute) == attribute \in q.given

ByAgent(q) == q.principal.type = "Agent"

ByUser(q) == q.principal.type = "User"

OnPayment(q) == q.resource.type = "Payment"

Approves(q) == q.action = "ApprovePayment" /\ OnPayment(q)

AboveThreshold(q) == Sent(q, "amount") /\ Rounded(q.resource.amount) > 5000

WithinThreshold(q) == Sent(q, "amount") /\ Rounded(q.resource.amount) <= 5000

\* An approver of tier 2: a controller or a cfo-approver.
HasAuthority(q) ==
    Sent(q, "approvalAuthorityTier") /\ q.principal.approvalAuthorityTier >= 2

FirstSeenUnapproved(q) ==
    /\ Sent(q, "vendorFirstSeen") /\ q.resource.vendorFirstSeen
    /\ Sent(q, "approvalCount") /\ q.resource.approvalCount < 2

CreatesEntry(q) == q.action = "CreateLedgerEntry" /\ ByAgent(q)

WritesLedger(q) == Sent(q, "trustTier") /\ q.principal.trustTier = "write-ledger"

Tools(agent) ==
    CASE agent = "extraction" -> {"request-additional-documentation", "sandbox-ocr"}
      [] agent = "risk-scoring" -> {"flag-for-review", "request-additional-documentation"}
      [] agent = "approval" -> {"flag-for-review", "request-additional-documentation",
                                "update-vendor-record"}
      [] agent = "payment-execution" -> {"create-ledger-entry", "flag-for-review"}
      [] OTHER -> {}

FlaggingAgents(action) ==
    CASE action = "FlagForReview" -> {"risk-scoring", "approval", "payment-execution"}
      [] action = "RequestAdditionalDocumentation" -> {"extraction", "risk-scoring", "approval"}
      [] action = "UpdateVendorRecord" -> {"approval"}
      [] OTHER -> {}

Forbidden(q) ==
    \/ Approves(q) /\ ByAgent(q) /\ AboveThreshold(q)
    \/ Approves(q) /\ FirstSeenUnapproved(q)
    \/ CreatesEntry(q) /\ Sent(q, "trustTier") /\ ~WritesLedger(q)

Permitted(q) ==
    \/ Approves(q) /\ ByUser(q) /\ AboveThreshold(q) /\ HasAuthority(q)
    \/ Approves(q) /\ ByAgent(q) /\ WithinThreshold(q)
    \/ CreatesEntry(q) /\ WritesLedger(q)
    \/ q.action = "InvokeTool" /\ ByAgent(q) /\ Sent(q, "name")
         /\ q.resource.name \in Tools(q.principal.id)
    \/ OnPayment(q) /\ ByAgent(q) /\ q.principal.id \in FlaggingAgents(q.action)

\* Deviation: a permit is enough.
PermitSuffices(q) == Permitted(q)

\* The decision of cedarpy.is_authorized.
CedarAllows(q) == Permitted(q) /\ ~Forbidden(q)

-----------------------------------------------------------------------------
(* The independent second check: services/backend's capability manifests. *)

ManifestActions(agent) ==
    CASE agent = "extraction" -> {"RequestAdditionalDocumentation"}
      [] agent = "risk-scoring" -> {"FlagForReview", "RequestAdditionalDocumentation"}
      [] agent = "approval" -> FlaggingActions \cup {"ApprovePayment"}
      [] agent = "payment-execution" -> {"CreateLedgerEntry", "FlagForReview"}
      [] OTHER -> {}
=============================================================================
