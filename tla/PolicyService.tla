--------------------------- MODULE PolicyService ---------------------------
(***************************************************************************)
(* services/policy-service: the policy decision point.  Each authorize     *)
(* call runs in a worker thread: Cedar decides, then the vendor rate limit *)
(* is read from the decision log, then the kill switch from control-plane, *)
(* then the decision is logged, then the caller is answered.  Nothing is   *)
(* locked between these steps.  The kill switch itself and the network     *)
(* between the two services are this module's environment.                 *)
(***************************************************************************)
EXTENDS CedarPolicies, Sequences, FiniteSets

CONSTANTS
    Workers,        \* the threads that answer authorize calls
    Requests,       \* the calls that are made
    Halts,          \* the kill-switch entries that may be tripped: <<scope, target>>
    MaxApprovals,   \* RATE_LIMIT_MAX_APPROVALS, 3 in the code
    Window,         \* RATE_LIMIT_WINDOW_HOURS, in ticks of the clock
    MaxClock,       \* bound of the model: the last tick
    MaxDecisions    \* bound of the model: the length of the decision log

ASSUME LimitAssumption ==
    /\ MaxApprovals \in Nat \ {0}
    /\ Window \in Nat
    /\ MaxClock \in Nat
    /\ MaxDecisions \in Nat

ASSUME WorkerAssumption == IsFiniteSet(Workers)

ASSUME RequestAssumption ==
    /\ Requests # {}
    /\ \A q \in Requests : Sent(q, "amount") => q.resource.amount \in Int

\* global_stop is one flag, whatever target the trip names.
ASSUME HaltAssumption ==
    /\ Halts \subseteq {"global", "agent", "tool"} \X STRING
    /\ \A h \in Halts : h[1] = "global" => h[2] = "*"

VARIABLES
    pc,         \* the step each worker is at
    req,        \* the request it works on
    decision,   \* the decision so far
    row,        \* the position of its row in the decision log, 0 before
    log,        \* policy_decisions
    clock,      \* the hour, as now() tells it
    halts,      \* the kill-switch entries in force
    reachable,  \* control-plane answers
    clear       \* history: since the call arrived there was a moment at which
                \* no halt for it was in force or control-plane did not answer

vars == <<pc, req, decision, row, log, clock, halts, reachable, clear>>

Steps == {"idle", "rate", "switch", "record", "answer", "answered", "failed"}

Decisions == {"Allow", "Deny"}

Row == [req : Requests, decision : Decisions, at : 0..MaxClock]

TypeOK ==
    /\ pc \in [Workers -> Steps]
    /\ req \in [Workers -> Requests]
    /\ decision \in [Workers -> Decisions]
    /\ row \in [Workers -> Nat]
    /\ log \in Seq(Row)
    /\ clock \in 0..MaxClock
    /\ halts \subseteq Halts
    /\ reachable \in BOOLEAN
    /\ clear \in [Workers -> BOOLEAN]

Init ==
    /\ pc = [w \in Workers |-> "idle"]
    /\ req = [w \in Workers |-> CHOOSE q \in Requests : TRUE]
    /\ decision = [w \in Workers |-> "Deny"]
    /\ row = [w \in Workers |-> 0]
    /\ log = <<>>
    /\ clock = 0
    /\ halts = {}
    /\ reachable = TRUE
    /\ clear = [w \in Workers |-> FALSE]

-----------------------------------------------------------------------------
(* What the steps read *)

InFlight(w) == pc[w] \in {"rate", "switch", "record", "answer"}

VendorOf(q) == IF Sent(q, "vendor") THEN q.resource.vendor ELSE ""

Vendors == {VendorOf(q) : q \in Requests} \ {""}

\* The vendor's approvals in the window that ends now.
Approvals(vendor) ==
    {i \in DOMAIN log : /\ log[i].req.action = "ApprovePayment"
                        /\ VendorOf(log[i].req) = vendor
                        /\ log[i].decision = "Allow"
                        /\ log[i].at >= clock - Window}

\* Deviation: the limit is tested as if this approval were not one more.
OverLimitLate(vendor) ==
    vendor # "" /\ Cardinality(Approvals(vendor)) > MaxApprovals

\* check_vendor_rate_limit refuses.
OverLimit(vendor) ==
    vendor # "" /\ Cardinality(Approvals(vendor)) >= MaxApprovals

\* Deviation: a paused agent is not looked up.
KillSwitchDeniesButAgents(q) ==
    /\ reachable
    /\ \/ <<"global", "*">> \in halts
       \/ Sent(q, "name") /\ <<"tool", q.resource.name>> \in halts

\* What _kill_switch_denial finds; an outage finds nothing.
KillSwitchDenies(q) ==
    /\ reachable
    /\ \/ <<"global", "*">> \in halts
       \/ <<"agent", q.principal.id>> \in halts
       \/ Sent(q, "name") /\ <<"tool", q.resource.name>> \in halts

\* With these entries and the way to control-plane up, q is halted.
Halted(q, hs, up) ==
    up /\ \E h \in hs : \/ h[1] = "global"
                        \/ h[1] = "agent" /\ h[2] = q.principal.id
                        \/ h[1] = "tool" /\ Sent(q, "name") /\ h[2] = q.resource.name

-----------------------------------------------------------------------------
(* The steps of a call *)

\* A call arrives and Cedar decides it.
Authorize(w) ==
    /\ ~InFlight(w)
    /\ Len(log) + Cardinality({v \in Workers : InFlight(v)}) < MaxDecisions
    /\ \E q \in Requests :
          /\ req' = [req EXCEPT ![w] = q]
          /\ decision' = [decision EXCEPT ![w] = IF CedarAllows(q) THEN "Allow" ELSE "Deny"]
          /\ pc' = [pc EXCEPT ![w] =
                CASE ~CedarAllows(q) -> "record"
                  [] q.action = "ApprovePayment" -> "rate"
                  [] OTHER -> "switch"]
          /\ clear' = [clear EXCEPT ![w] = ~Halted(q, halts, reachable)]
    /\ row' = [row EXCEPT ![w] = 0]
    /\ UNCHANGED <<log, clock, halts, reachable>>

\* The step that may turn an Allow into a Deny.
Check(w, denies, next) ==
    /\ decision' = [decision EXCEPT ![w] = IF denies THEN "Deny" ELSE @]
    /\ pc' = [pc EXCEPT ![w] = IF denies THEN "record" ELSE next]
    /\ UNCHANGED <<req, row, log, clock, halts, reachable, clear>>

CheckRateLimit(w) ==
    /\ pc[w] = "rate"
    /\ Check(w, OverLimit(VendorOf(req[w])), "switch")

CheckKillSwitch(w) ==
    /\ pc[w] = "switch"
    /\ Check(w, KillSwitchDenies(req[w]), "record")

\* Deviation: only what Cedar and the rate limit say is logged, the kill
\* switch is asked afterwards.
RecordDecisionFirst(w) ==
    /\ pc[w] = "record"
    /\ log' = Append(log, [req |-> req[w], at |-> clock,
                           decision |-> IF CedarAllows(req[w]) THEN "Allow" ELSE "Deny"])
    /\ row' = [row EXCEPT ![w] = Len(log) + 1]
    /\ pc' = [pc EXCEPT ![w] = "answer"]
    /\ UNCHANGED <<req, decision, clock, halts, reachable, clear>>

RecordDecision(w) ==
    /\ pc[w] = "record"
    /\ log' = Append(log, [req |-> req[w], decision |-> decision[w], at |-> clock])
    /\ row' = [row EXCEPT ![w] = Len(log) + 1]
    /\ pc' = [pc EXCEPT ![w] = "answer"]
    /\ UNCHANGED <<req, decision, clock, halts, reachable, clear>>

Answer(w) ==
    /\ pc[w] = "answer"
    /\ pc' = [pc EXCEPT ![w] = "answered"]
    /\ UNCHANGED <<req, decision, row, log, clock, halts, reachable, clear>>

\* Deviation: a failed call is left with an error that is no decision.
FailUndecided(w) ==
    /\ InFlight(w)
    /\ pc' = [pc EXCEPT ![w] = "failed"]
    /\ decision' = [decision EXCEPT ![w] = "error"]
    /\ row' = [row EXCEPT ![w] = 0]
    /\ UNCHANGED <<req, log, clock, halts, reachable, clear>>

\* The database is unreachable, the process dies or the answer is lost: the
\* caller sees an error, which policy_client turns into a Deny.
Fail(w) ==
    /\ InFlight(w)
    /\ pc' = [pc EXCEPT ![w] = "failed"]
    /\ decision' = [decision EXCEPT ![w] = "Deny"]
    /\ row' = [row EXCEPT ![w] = 0]
    /\ UNCHANGED <<req, log, clock, halts, reachable, clear>>

-----------------------------------------------------------------------------
(* The environment *)

\* The kill switch and the way to it become hs and up.
SwitchTo(hs, up) ==
    /\ halts' = hs
    /\ reachable' = up
    /\ clear' = [w \in Workers |->
          clear[w] \/ (InFlight(w) /\ ~Halted(req[w], hs, up))]
    /\ UNCHANGED <<pc, req, decision, row, log, clock>>

Trip == \E h \in Halts : SwitchTo(halts \cup {h}, reachable)

\* An operator resets one entry, or a restart of control-plane all of them.
Reset == \E h \in Halts : SwitchTo(halts \ {h}, reachable)

Restart == SwitchTo({}, reachable)

Outage == SwitchTo(halts, ~reachable)

Tick ==
    /\ clock < MaxClock
    /\ clock' = clock + 1
    /\ UNCHANGED <<pc, req, decision, row, log, halts, reachable, clear>>

Handle(w) ==
    \/ CheckRateLimit(w)
    \/ CheckKillSwitch(w)
    \/ RecordDecision(w)
    \/ Answer(w)
    \/ Fail(w)

Next ==
    \/ \E w \in Workers : Authorize(w) \/ Handle(w)
    \/ Trip
    \/ Reset
    \/ Restart
    \/ Outage
    \/ Tick

Spec == Init /\ [][Next]_vars

-----------------------------------------------------------------------------
(* Properties *)

Allowed(w) == pc[w] = "answered" /\ decision[w] = "Allow"

\* No approval without a limit on the vendor: overlapping calls read the log
\* before the others wrote it, so the limit of policies/temporal can be
\* passed, but by no more than the number of calls that overlap.
ApprovalsBounded ==
    \A v \in Vendors :
        Cardinality(Approvals(v)) < MaxApprovals + Cardinality(Workers)

\* A tripped kill switch overrides Cedar and the rate limit: no call is
\* allowed that was halted, with control-plane answering, from its arrival on,
\* however its steps overlap with trips, resets and outages.
HaltRespected == \A w \in Workers : Allowed(w) => clear[w]

\* The log that the rate limit and control-plane's watchdog count in says of
\* every answered call what the caller was told.
AnswerIsLogged ==
    \A w \in Workers : pc[w] = "answered" =>
        /\ row[w] \in DOMAIN log
        /\ log[row[w]].req = req[w]
        /\ log[row[w]].decision = decision[w]

(***************************************************************************)
(* What an Allow means, in the words of the policy files' comments: an     *)
(* agent approves nothing that rounds to more than 5000 dollars, a human   *)
(* approves above that with tier 2, nobody approves a first-seen vendor    *)
(* before two approvals, only the write-ledger tier creates entries, and   *)
(* the actions of policy 05 are those of the agent's capability manifest.  *)
(***************************************************************************)
PolicyMeaning(q) ==
    /\ Approves(q) /\ ByAgent(q) => q.resource.amount <= 500050
    /\ Approves(q) /\ ByUser(q) => q.resource.amount > 500050 /\ HasAuthority(q)
    /\ Approves(q) => ~FirstSeenUnapproved(q)
    /\ q.action = "CreateLedgerEntry" => ByAgent(q) /\ WritesLedger(q)
    /\ q.action \in FlaggingActions => q.action \in ManifestActions(q.principal.id)

\* Every Allow that is given has that meaning.
AllowsMeanPolicy == \A w \in Workers : Allowed(w) => PolicyMeaning(req[w])

(***************************************************************************)
(* The inductive invariants behind them.  A worker's decision only ever    *)
(* goes from Allow to Deny, so an Allow has passed Cedar and found a       *)
(* moment without a halt; its row stays where it was put.  Of the calls    *)
(* that passed the rate limit and are not logged yet there are no more     *)
(* than workers, and the last to pass it saw less than the limit.          *)
(***************************************************************************)
CedarPassed == \A w \in Workers : decision[w] = "Allow" => CedarAllows(req[w])

ClearUnlessHalted ==
    \A w \in Workers :
        /\ InFlight(w) /\ ~Halted(req[w], halts, reachable) => clear[w]
        /\ pc[w] \in {"record", "answer", "answered"} /\ decision[w] = "Allow" => clear[w]

RowKept ==
    \A w \in Workers : pc[w] \in {"answer", "answered"} =>
        /\ row[w] \in DOMAIN log
        /\ log[row[w]].req = req[w]
        /\ log[row[w]].decision = decision[w]

PolicyInv == TypeOK /\ CedarPassed /\ ClearUnlessHalted /\ RowKept

\* The calls that passed the vendor's rate limit and are not logged yet.
Pending(vendor) ==
    {w \in Workers : /\ pc[w] \in {"switch", "record"}
                     /\ decision[w] = "Allow"
                     /\ req[w].action = "ApprovePayment"
                     /\ VendorOf(req[w]) = vendor}

PendingBounded ==
    \A v \in Vendors :
        Cardinality(Approvals(v)) + Cardinality(Pending(v)) < MaxApprovals + Cardinality(Workers)
=============================================================================
