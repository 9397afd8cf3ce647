------------------------ MODULE PolicyServiceProofs ------------------------
(***************************************************************************)
(* What TLAPS proves of PolicyService, for any number of workers, any      *)
(* requests, any limit and any window.                                     *)
(***************************************************************************)
EXTENDS PolicyService, FiniteSetTheorems, TLAPS

-----------------------------------------------------------------------------
(* What the policies allow *)

\* Rounding to whole dollars moves the threshold by half a dollar.
LEMMA RoundedThreshold ==
    ASSUME NEW cents \in Int
    PROVE  Rounded(cents) <= 5000 <=> cents <= 500050
BY DEF Rounded

\* Policy 05 gives an action of its own to nobody whose manifest lacks it, and
\* gives no other action to anybody.
LEMMA FlaggingMatchesManifests ==
    ASSUME NEW agent, NEW action, agent \in FlaggingAgents(action)
    PROVE  action \in FlaggingActions /\ action \in ManifestActions(agent)
<1>1. CASE action = "FlagForReview"
  BY <1>1 DEF FlaggingAgents, FlaggingActions, ManifestActions
<1>2. CASE action = "RequestAdditionalDocumentation"
  BY <1>2 DEF FlaggingAgents, FlaggingActions, ManifestActions
<1>3. CASE action = "UpdateVendorRecord"
  BY <1>3 DEF FlaggingAgents, FlaggingActions, ManifestActions
<1> QED
  BY <1>1, <1>2, <1>3 DEF FlaggingAgents

\* Of any request whose amount is a number: when Cedar allows it, it has the
\* meaning that the policy files' comments give it.
THEOREM AllowMeansPolicy ==
    ASSUME NEW q, Sent(q, "amount") => q.resource.amount \in Int, CedarAllows(q)
    PROVE  PolicyMeaning(q)
<1> DEFINE flags == OnPayment(q) /\ ByAgent(q) /\ q.principal.id \in FlaggingAgents(q.action)
<1>1. flags => q.action \in FlaggingActions /\ q.action \in ManifestActions(q.principal.id)
  BY FlaggingMatchesManifests
<1>2. Sent(q, "amount") => (WithinThreshold(q) <=> q.resource.amount <= 500050)
                           /\ (AboveThreshold(q) <=> q.resource.amount > 500050)
  <2> SUFFICES ASSUME Sent(q, "amount")
               PROVE  /\ WithinThreshold(q) <=> q.resource.amount <= 500050
                      /\ AboveThreshold(q) <=> q.resource.amount > 500050
    OBVIOUS
  <2>1. Rounded(q.resource.amount) <= 5000 <=> q.resource.amount <= 500050
    BY RoundedThreshold
  <2>2. Rounded(q.resource.amount) \in Int
    BY DEF Rounded
  <2> QED
    BY <2>1, <2>2 DEF WithinThreshold, AboveThreshold
<1>3. CASE Approves(q) /\ ByUser(q) /\ AboveThreshold(q) /\ HasAuthority(q)
  BY <1>2, <1>3 DEF PolicyMeaning, CedarAllows, Forbidden, Approves, ByAgent, ByUser,
                    AboveThreshold, FlaggingActions
<1>4. CASE Approves(q) /\ ByAgent(q) /\ WithinThreshold(q)
  BY <1>2, <1>4 DEF PolicyMeaning, CedarAllows, Forbidden, Approves, ByAgent, ByUser,
                    WithinThreshold, FlaggingActions
<1>5. CASE CreatesEntry(q) /\ WritesLedger(q)
  BY <1>5 DEF PolicyMeaning, CreatesEntry, Approves, FlaggingActions
<1>6. CASE q.action = "InvokeTool"
  BY <1>6 DEF PolicyMeaning, Approves, FlaggingActions
<1>7. CASE flags
  BY <1>1, <1>7 DEF PolicyMeaning, Approves, FlaggingActions
<1> QED
  BY <1>3, <1>4, <1>5, <1>6, <1>7 DEF CedarAllows, Permitted

-----------------------------------------------------------------------------
(* The steps preserve the invariant *)

\* What _kill_switch_denial looks up is whether the call is halted.
LEMMA SwitchSeesHalts ==
    ASSUME TypeOK, NEW q
    PROVE  KillSwitchDenies(q) <=> Halted(q, halts, reachable)
<1>1. \A h \in halts : /\ h = <<h[1], h[2]>>
                       /\ h[1] = "global" => h[2] = "*"
  BY HaltAssumption DEF TypeOK
<1>2. <<"global", "*">> \in halts <=> \E h \in halts : h[1] = "global"
  BY <1>1
<1>3. \A name : <<"agent", name>> \in halts <=> \E h \in halts : h[1] = "agent" /\ h[2] = name
  BY <1>1
<1>4. \A name : <<"tool", name>> \in halts <=> \E h \in halts : h[1] = "tool" /\ h[2] = name
  BY <1>1
<1> QED
  BY <1>2, <1>3, <1>4 DEF KillSwitchDenies, Halted

\* At the start nobody has decided anything.
LEMMA InitInv == Init => PolicyInv /\ PendingBounded
<1> SUFFICES ASSUME Init PROVE PolicyInv /\ PendingBounded
  OBVIOUS
<1>1. TypeOK
  BY RequestAssumption, LimitAssumption DEF Init, TypeOK, Steps, Decisions, Row
<1>2. CedarPassed /\ ClearUnlessHalted /\ RowKept
  BY DEF Init, CedarPassed, ClearUnlessHalted, RowKept, InFlight
<1>3. \A v : Approvals(v) = {} /\ Pending(v) = {}
  BY DEF Init, Approvals, Pending
<1>4. Cardinality(Workers) \in Nat
  BY WorkerAssumption, FS_CardinalityType
<1>5. \A v : Cardinality(Approvals(v)) = 0 /\ Cardinality(Pending(v)) = 0
  BY <1>3, FS_EmptySet
<1>6. 0 + 0 < MaxApprovals + Cardinality(Workers)
  BY <1>4, LimitAssumption
<1>7. PendingBounded
  BY <1>5, <1>6 DEF PendingBounded
<1> QED
  BY <1>1, <1>2, <1>7 DEF PolicyInv

LEMMA AuthorizeInv ==
    ASSUME PolicyInv, NEW w \in Workers, Authorize(w)
    PROVE  PolicyInv'
<1> USE DEF PolicyInv
<1>1. PICK q \in Requests :
          /\ req' = [req EXCEPT ![w] = q]
          /\ decision' = [decision EXCEPT ![w] = IF CedarAllows(q) THEN "Allow" ELSE "Deny"]
          /\ pc' = [pc EXCEPT ![w] =
                CASE ~CedarAllows(q) -> "record"
                  [] q.action = "ApprovePayment" -> "rate"
                  [] OTHER -> "switch"]
          /\ clear' = [clear EXCEPT ![w] = ~Halted(q, halts, reachable)]
  BY DEF Authorize
<1>2. /\ row' = [row EXCEPT ![w] = 0]
      /\ UNCHANGED <<log, clock, halts, reachable>>
  BY DEF Authorize
<1>3. /\ pc'[w] \in {"record", "rate", "switch"}
      /\ pc'[w] = "record" => decision'[w] = "Deny"
      /\ decision'[w] = "Allow" => CedarAllows(q)
  BY <1>1 DEF TypeOK
<1>4. TypeOK'
  BY <1>1, <1>2, <1>3 DEF TypeOK, Steps, Decisions, Row
<1>5. CedarPassed'
  BY <1>1, <1>3 DEF CedarPassed, TypeOK
<1>6. ClearUnlessHalted'
  <2> SUFFICES ASSUME NEW u \in Workers
               PROVE  /\ InFlight(u)' /\ ~Halted(req'[u], halts', reachable') => clear'[u]
                      /\ pc'[u] \in {"record", "answer", "answered"} /\ decision'[u] = "Allow"
                           => clear'[u]
    BY DEF ClearUnlessHalted
  <2>1. CASE u = w
    BY <1>1, <1>2, <1>3, <2>1 DEF TypeOK
  <2>2. CASE u # w
    BY <1>1, <1>2, <2>2 DEF TypeOK, ClearUnlessHalted, InFlight
  <2> QED
    BY <2>1, <2>2
<1>7. RowKept'
  BY <1>1, <1>2, <1>3 DEF RowKept, TypeOK
<1> QED
  BY <1>4, <1>5, <1>6, <1>7

LEMMA CheckInv ==
    ASSUME PolicyInv, NEW w \in Workers, CheckRateLimit(w) \/ CheckKillSwitch(w)
    PROVE  PolicyInv'
<1> USE DEF PolicyInv
<1>1. PICK denies \in BOOLEAN, next \in {"switch", "record"} :
          /\ Check(w, denies, next)
          /\ pc[w] \in {"rate", "switch"}
          /\ next = "record" => denies = KillSwitchDenies(req[w])
  <2>1. CASE CheckRateLimit(w)
    <3> DEFINE b == OverLimit(VendorOf(req[w]))
    <3>1. b \in BOOLEAN
      BY DEF OverLimit
    <3> QED
      BY <2>1, <3>1 DEF CheckRateLimit
  <2>2. CASE CheckKillSwitch(w)
    <3> DEFINE b == KillSwitchDenies(req[w])
    <3>1. b \in BOOLEAN
      BY DEF KillSwitchDenies
    <3> QED
      BY <2>2, <3>1 DEF CheckKillSwitch
  <2> QED
    BY <2>1, <2>2
<1>2. /\ decision' = [decision EXCEPT ![w] = IF denies THEN "Deny" ELSE @]
      /\ pc' = [pc EXCEPT ![w] = IF denies THEN "record" ELSE next]
      /\ UNCHANGED <<req, row, log, clock, halts, reachable, clear>>
  BY <1>1 DEF Check
<1>3. TypeOK'
  BY <1>2 DEF TypeOK, Steps, Decisions, Row
<1>4. CedarPassed'
  BY <1>2 DEF CedarPassed, TypeOK
<1>5. pc'[w] = "record" /\ decision'[w] = "Allow" => ~Halted(req[w], halts, reachable)
  BY <1>1, <1>2, SwitchSeesHalts DEF TypeOK
<1>6. ClearUnlessHalted'
  <2>1. \A u \in Workers : InFlight(u)' => InFlight(u)
    BY <1>1, <1>2 DEF InFlight, TypeOK
  <2>2. \A u \in Workers : u # w => pc'[u] = pc[u] /\ decision'[u] = decision[u]
    BY <1>2 DEF TypeOK
  <2>3. pc'[w] \in {"switch", "record"} /\ InFlight(w)
    BY <1>1, <1>2 DEF TypeOK, InFlight
  <2> QED
    BY <1>2, <1>5, <2>1, <2>2, <2>3 DEF ClearUnlessHalted
<1>7. RowKept'
  BY <1>1, <1>2 DEF RowKept, TypeOK
<1> QED
  BY <1>3, <1>4, <1>6, <1>7

LEMMA RecordInv ==
    ASSUME PolicyInv, NEW w \in Workers, RecordDecision(w)
    PROVE  PolicyInv'
<1> USE DEF PolicyInv
<1> DEFINE new == [req |-> req[w], decision |-> decision[w], at |-> clock]
<1>1. /\ pc[w] = "record"
      /\ log' = Append(log, new)
      /\ row' = [row EXCEPT ![w] = Len(log) + 1]
      /\ pc' = [pc EXCEPT ![w] = "answer"]
      /\ UNCHANGED <<req, decision, clock, halts, reachable, clear>>
  BY DEF RecordDecision
<1>2. log \in Seq(Row) /\ new \in Row
  BY DEF TypeOK, Row
<1>3. /\ log' \in Seq(Row)
      /\ Len(log') = Len(log) + 1
      /\ DOMAIN log = 1..Len(log) /\ DOMAIN log' = 1..(Len(log) + 1)
      /\ \A i \in DOMAIN log : log'[i] = log[i]
      /\ log'[Len(log) + 1] = new
      /\ Len(log) \in Nat
  BY <1>1, <1>2
<1>4. TypeOK'
  BY <1>1, <1>3 DEF TypeOK, Steps
<1>5. CedarPassed'
  BY <1>1 DEF CedarPassed
<1>6. ClearUnlessHalted'
  BY <1>1 DEF ClearUnlessHalted, InFlight, TypeOK
<1>7. RowKept'
  <2> SUFFICES ASSUME NEW u \in Workers, pc'[u] \in {"answer", "answered"}
               PROVE  /\ row'[u] \in DOMAIN log'
                      /\ log'[row'[u]].req = req'[u]
                      /\ log'[row'[u]].decision = decision'[u]
    BY DEF RowKept
  <2>1. CASE u = w
    <3>1. row'[u] = Len(log) + 1
      BY <1>1, <2>1 DEF TypeOK
    <3>2. row'[u] \in DOMAIN log' /\ log'[row'[u]] = new
      BY <1>3, <3>1
    <3> QED
      BY <1>1, <2>1, <3>2
  <2>2. CASE u # w
    <3>1. row'[u] = row[u] /\ pc'[u] = pc[u]
      BY <1>1, <2>2 DEF TypeOK
    <3>2. row[u] \in DOMAIN log /\ row[u] \in DOMAIN log'
      BY <1>3, <3>1 DEF RowKept
    <3> QED
      BY <1>1, <1>3, <3>1, <3>2 DEF RowKept
  <2> QED
    BY <2>1, <2>2
<1> QED
  BY <1>4, <1>5, <1>6, <1>7

LEMMA AnswerInv ==
    ASSUME PolicyInv, NEW w \in Workers, Answer(w)
    PROVE  PolicyInv'
<1> USE DEF PolicyInv
<1>1. TypeOK'
  BY DEF TypeOK, Answer, Steps
<1>2. CedarPassed'
  BY DEF CedarPassed, Answer
<1>3. ClearUnlessHalted'
  BY DEF ClearUnlessHalted, InFlight, Answer, TypeOK
<1>4. RowKept'
  BY DEF RowKept, Answer, TypeOK
<1> QED
  BY <1>1, <1>2, <1>3, <1>4

LEMMA FailInv ==
    ASSUME PolicyInv, NEW w \in Workers, Fail(w)
    PROVE  PolicyInv'
<1> USE DEF PolicyInv
<1>1. TypeOK'
  BY DEF TypeOK, Fail, Steps, Decisions
<1>2. CedarPassed'
  BY DEF CedarPassed, Fail, TypeOK
<1>3. ClearUnlessHalted'
  BY DEF ClearUnlessHalted, InFlight, Fail, TypeOK
<1>4. RowKept'
  BY DEF RowKept, Fail, TypeOK
<1> QED
  BY <1>1, <1>2, <1>3, <1>4

LEMMA SwitchInv ==
    ASSUME PolicyInv, NEW hs \in SUBSET Halts, NEW up \in BOOLEAN, SwitchTo(hs, up)
    PROVE  PolicyInv'
<1> USE DEF PolicyInv
<1>1. /\ halts' = hs /\ reachable' = up
      /\ clear' = [w \in Workers |-> clear[w] \/ (InFlight(w) /\ ~Halted(req[w], hs, up))]
      /\ UNCHANGED <<pc, req, decision, row, log, clock>>
  BY DEF SwitchTo
<1>2. clear' \in [Workers -> BOOLEAN]
  <2>1. \A w \in Workers : clear[w] \/ (InFlight(w) /\ ~Halted(req[w], hs, up)) \in BOOLEAN
    OBVIOUS
  <2> QED
    BY <1>1, <2>1
<1>3. TypeOK'
  BY <1>1, <1>2 DEF TypeOK
<1>4. CedarPassed' /\ RowKept'
  BY <1>1 DEF CedarPassed, RowKept
<1>5. \A w \in Workers : clear'[w] <=> clear[w] \/ (InFlight(w) /\ ~Halted(req[w], hs, up))
  BY <1>1
<1>6. ClearUnlessHalted'
  BY <1>1, <1>5 DEF ClearUnlessHalted, InFlight
<1> QED
  BY <1>3, <1>4, <1>6

\* Every step preserves the invariant.
LEMMA StepInv == PolicyInv /\ [Next]_vars => PolicyInv'
<1> SUFFICES ASSUME PolicyInv, [Next]_vars
             PROVE  PolicyInv'
  OBVIOUS
<1> USE DEF PolicyInv
<1>1. CASE UNCHANGED vars
  BY <1>1 DEF vars, TypeOK, CedarPassed, ClearUnlessHalted, RowKept, InFlight
<1>2. ASSUME NEW w \in Workers, Authorize(w)
      PROVE  PolicyInv'
  BY <1>2, AuthorizeInv
<1>3. ASSUME NEW w \in Workers, Handle(w)
      PROVE  PolicyInv'
  BY <1>3, CheckInv, RecordInv, AnswerInv, FailInv DEF Handle
<1>4. CASE Trip \/ Reset \/ Restart \/ Outage
  <2>1. halts \subseteq Halts /\ reachable \in BOOLEAN
    BY DEF TypeOK
  <2>2. PICK hs \in SUBSET Halts, up \in BOOLEAN : SwitchTo(hs, up)
    BY <1>4, <2>1 DEF Trip, Reset, Restart, Outage
  <2> QED
    BY <2>2, SwitchInv
<1>5. CASE Tick
  BY <1>5, LimitAssumption DEF Tick, TypeOK, CedarPassed, ClearUnlessHalted, RowKept, InFlight
<1> QED
  BY <1>1, <1>2, <1>3, <1>4, <1>5 DEF Next

-----------------------------------------------------------------------------
(* The theorems *)

\* The inductive invariant holds in every behaviour.
THEOREM Invariance == Spec => []PolicyInv
<1>1. Init => PolicyInv
  BY InitInv
<1>2. PolicyInv /\ [Next]_vars => PolicyInv'
  BY StepInv
<1> QED
  BY <1>1, <1>2, PTL DEF Spec

\* Every variable of the policy service keeps its type.
THEOREM TypeCorrect == Spec => []TypeOK
<1>1. PolicyInv => TypeOK
  BY DEF PolicyInv
<1> QED
  BY <1>1, Invariance, PTL

\* authorize's order of checks is enough: however trips, resets and outages
\* fall between its steps, a call that was halted all along is not allowed.
THEOREM HaltsRespected == Spec => []HaltRespected
<1>1. PolicyInv => HaltRespected
  BY DEF PolicyInv, ClearUnlessHalted, HaltRespected, Allowed
<1> QED
  BY <1>1, Invariance, PTL

\* What the decision log says of an answered call is what its caller was told.
THEOREM AnswersLogged == Spec => []AnswerIsLogged
<1>1. PolicyInv => AnswerIsLogged
  BY DEF PolicyInv, RowKept, AnswerIsLogged
<1> QED
  BY <1>1, Invariance, PTL

\* Every Allow the service gives has the meaning of the policy files.
THEOREM AllowsKeepPolicy == Spec => []AllowsMeanPolicy
<1>1. PolicyInv => AllowsMeanPolicy
  <2> SUFFICES ASSUME PolicyInv, NEW w \in Workers, Allowed(w)
               PROVE  PolicyMeaning(req[w])
    BY DEF AllowsMeanPolicy
  <2>1. CedarAllows(req[w]) /\ req[w] \in Requests
    BY DEF PolicyInv, CedarPassed, Allowed, TypeOK
  <2> QED
    BY <2>1, AllowMeansPolicy, RequestAssumption
<1> QED
  BY <1>1, Invariance, PTL

-----------------------------------------------------------------------------
(* The rate limit *)

\* A vendor's approvals are finitely many rows of the log, and its pending
\* calls finitely many workers.
LEMMA Counted ==
    ASSUME TypeOK, NEW v
    PROVE  /\ IsFiniteSet(Approvals(v)) /\ Cardinality(Approvals(v)) \in Nat
           /\ IsFiniteSet(Pending(v)) /\ Cardinality(Pending(v)) \in Nat
           /\ Cardinality(Pending(v)) <= Cardinality(Workers)
           /\ Cardinality(Workers) \in Nat
<1>1. DOMAIN log = 1..Len(log) /\ Len(log) \in Nat
  BY DEF TypeOK
<1>2. IsFiniteSet(DOMAIN log)
  BY <1>1, FS_Interval
<1>3. Approvals(v) \subseteq DOMAIN log
  BY DEF Approvals
<1>4. IsFiniteSet(Approvals(v))
  BY <1>2, <1>3, FS_Subset
<1>5. Pending(v) \subseteq Workers
  BY DEF Pending
<1>6. IsFiniteSet(Pending(v)) /\ Cardinality(Pending(v)) <= Cardinality(Workers)
  BY <1>5, WorkerAssumption, FS_Subset
<1> QED
  BY <1>4, <1>6, WorkerAssumption, FS_CardinalityType

\* A step after which there are no more approvals and no more pending calls
\* of any vendor than before keeps the bound.
LEMMA FewerKeepBound ==
    ASSUME TypeOK, PendingBounded, TypeOK',
           \A v : Approvals(v)' \subseteq Approvals(v) /\ Pending(v)' \subseteq Pending(v)
    PROVE  PendingBounded'
<1> SUFFICES ASSUME NEW v \in Vendors
             PROVE  Cardinality(Approvals(v)') + Cardinality(Pending(v)')
                      < MaxApprovals + Cardinality(Workers)
  BY DEF PendingBounded
<1>1. /\ Cardinality(Approvals(v)') <= Cardinality(Approvals(v))
      /\ Cardinality(Approvals(v)') \in Nat
  BY Counted, FS_Subset, FS_CardinalityType
<1>2. /\ Cardinality(Pending(v)') <= Cardinality(Pending(v))
      /\ Cardinality(Pending(v)') \in Nat
  BY Counted, FS_Subset, FS_CardinalityType
<1>3. Cardinality(Approvals(v)) + Cardinality(Pending(v)) < MaxApprovals + Cardinality(Workers)
  BY DEF PendingBounded
<1> QED
  BY <1>1, <1>2, <1>3, Counted, LimitAssumption

\* Passing the rate limit: the vendor had fewer approvals than the limit.
LEMMA CheckRateLimitBound ==
    ASSUME TypeOK, PendingBounded, TypeOK', NEW w \in Workers, CheckRateLimit(w)
    PROVE  PendingBounded'
<1> DEFINE vendor == VendorOf(req[w])
<1>1. /\ pc[w] = "rate"
      /\ decision' = [decision EXCEPT ![w] = IF OverLimit(vendor) THEN "Deny" ELSE @]
      /\ pc' = [pc EXCEPT ![w] = IF OverLimit(vendor) THEN "record" ELSE "switch"]
      /\ UNCHANGED <<req, row, log, clock, halts, reachable, clear>>
  BY DEF CheckRateLimit, Check
<1>2. \A v : Approvals(v)' = Approvals(v)
  BY <1>1 DEF Approvals
<1>3. \A u \in Workers : u # w => pc'[u] = pc[u] /\ decision'[u] = decision[u]
  BY <1>1 DEF TypeOK
<1>4. CASE OverLimit(vendor)
  <2>1. decision'[w] = "Deny"
    BY <1>1, <1>4 DEF TypeOK
  <2>2. \A v : Pending(v)' \subseteq Pending(v)
    BY <1>1, <1>3, <2>1 DEF Pending
  <2> QED
    BY <1>2, <2>2, FewerKeepBound
<1>5. CASE ~OverLimit(vendor)
  <2> SUFFICES ASSUME NEW v \in Vendors
               PROVE  Cardinality(Approvals(v)') + Cardinality(Pending(v)')
                        < MaxApprovals + Cardinality(Workers)
    BY DEF PendingBounded
  <2>1. CASE v = vendor
    <3>0. v # ""
      BY DEF Vendors
    <3>n. Cardinality(Approvals(v)) \in Nat
      BY Counted
    <3>1. Cardinality(Approvals(v)) < MaxApprovals
      <4>1. ~(v # "" /\ Cardinality(Approvals(v)) >= MaxApprovals)
        BY <1>5, <2>1 DEF OverLimit
      <4>2. ~(Cardinality(Approvals(v)) >= MaxApprovals)
        BY <3>0, <4>1, Zenon
      <4>3. MaxApprovals \in Nat
        BY LimitAssumption
      <4> QED
        BY <3>n, <4>2, <4>3
    <3>2. /\ Cardinality(Pending(v)') <= Cardinality(Workers)
          /\ Cardinality(Pending(v)') \in Nat
      <4>1. Pending(v)' \subseteq Workers
        BY DEF Pending
      <4> QED
        BY <4>1, WorkerAssumption, FS_Subset, FS_CardinalityType
    <3> QED
      BY <1>2, <3>1, <3>2, Counted, LimitAssumption
  <2>2. CASE v # vendor
    <3>1. Pending(v)' \subseteq Pending(v)
      BY <1>1, <1>3, <2>2 DEF Pending
    <3>2. /\ Cardinality(Pending(v)') <= Cardinality(Pending(v))
          /\ Cardinality(Pending(v)') \in Nat
      BY <3>1, Counted, FS_Subset, FS_CardinalityType
    <3>3. Cardinality(Approvals(v)) + Cardinality(Pending(v)) < MaxApprovals + Cardinality(Workers)
      BY DEF PendingBounded
    <3> QED
      BY <1>2, <3>2, <3>3, Counted, LimitAssumption
  <2> QED
    BY <2>1, <2>2
<1> QED
  BY <1>4, <1>5

\* Logging an approval: the call is no longer pending.
LEMMA RecordBound ==
    ASSUME TypeOK, PendingBounded, TypeOK', NEW w \in Workers, RecordDecision(w)
    PROVE  PendingBounded'
<1> DEFINE new == [req |-> req[w], decision |-> decision[w], at |-> clock]
           last == Len(log) + 1
<1>1. /\ pc[w] = "record"
      /\ log' = Append(log, new)
      /\ pc' = [pc EXCEPT ![w] = "answer"]
      /\ UNCHANGED <<req, decision, clock, halts, reachable, clear>>
  BY DEF RecordDecision
<1>c. clock' = clock
  BY <1>1
<1>2. log \in Seq(Row) /\ new \in Row
  BY DEF TypeOK, Row
<1>3. /\ DOMAIN log = 1..Len(log) /\ DOMAIN log' = 1..last
      /\ \A i \in DOMAIN log : log'[i] = log[i]
      /\ log'[last] = new
      /\ Len(log) \in Nat
  BY <1>1, <1>2
<1>4. \A u \in Workers : u # w => pc'[u] = pc[u]
  BY <1>1 DEF TypeOK
<1>5. pc'[w] = "answer"
  BY <1>1 DEF TypeOK
<1> SUFFICES ASSUME NEW v \in Vendors
             PROVE  Cardinality(Approvals(v)') + Cardinality(Pending(v)')
                      < MaxApprovals + Cardinality(Workers)
  BY DEF PendingBounded
<1>6. Cardinality(Approvals(v)) + Cardinality(Pending(v)) < MaxApprovals + Cardinality(Workers)
  BY DEF PendingBounded
<1>7. Pending(v)' = Pending(v) \ {w}
  BY <1>1, <1>4, <1>5 DEF Pending
<1> DEFINE A == Approvals(v)
           P == Pending(v)
<1>n. /\ IsFiniteSet(A) /\ Cardinality(A) \in Nat
      /\ IsFiniteSet(P) /\ Cardinality(P) \in Nat
      /\ Cardinality(Workers) \in Nat
  BY Counted
<1>r. \A i : i \in Approvals(v)' <=>
            /\ i \in 1..last
            /\ log'[i].req.action = "ApprovePayment"
            /\ VendorOf(log'[i].req) = v
            /\ log'[i].decision = "Allow"
            /\ log'[i].at >= clock - Window
  BY <1>3, <1>c DEF Approvals
<1>o. \A i : i \in A <=>
            /\ i \in 1..Len(log)
            /\ log[i].req.action = "ApprovePayment"
            /\ VendorOf(log[i].req) = v
            /\ log[i].decision = "Allow"
            /\ log[i].at >= clock - Window
  BY <1>3 DEF Approvals
<1>i. 1..last = 1..Len(log) \cup {last}
  BY <1>3
<1>8. CASE w \in Pending(v)
  <2>1. Approvals(v)' \subseteq Approvals(v) \cup {last}
    BY <1>3, <1>r, <1>o, <1>i
  <2>2. /\ Cardinality(Approvals(v)') <= Cardinality(Approvals(v)) + 1
        /\ Cardinality(Approvals(v)') \in Nat
    <3>1. /\ IsFiniteSet(Approvals(v) \cup {last})
          /\ Cardinality(Approvals(v) \cup {last}) <= Cardinality(Approvals(v)) + 1
          /\ Cardinality(Approvals(v) \cup {last}) \in Nat
      <4>1. IsFiniteSet(A \cup {last})
        BY <1>n, FS_AddElement
      <4>2. Cardinality(A \cup {last}) = Cardinality(A)
              \/ Cardinality(A \cup {last}) = Cardinality(A) + 1
        BY <1>n, FS_AddElement
      <4> QED
        BY <1>n, <4>1, <4>2
    <3>2. /\ IsFiniteSet(Approvals(v)')
          /\ Cardinality(Approvals(v)') <= Cardinality(Approvals(v) \cup {last})
      BY <2>1, <3>1, FS_Subset
    <3>3. Cardinality(Approvals(v)') \in Nat
      BY <3>2, FS_CardinalityType
    <3> QED
      BY <1>n, <3>1, <3>2, <3>3
  <2>3. Cardinality(Pending(v)') = Cardinality(Pending(v)) - 1
    BY <1>7, <1>8, <1>n, FS_RemoveElement
  <2> QED
    BY <1>6, <1>n, <2>2, <2>3, LimitAssumption
<1>9. CASE w \notin Pending(v)
  <2>1. ~(new.req.action = "ApprovePayment" /\ VendorOf(new.req) = v /\ new.decision = "Allow")
    BY <1>1, <1>9 DEF Pending
  <2>2. Approvals(v)' = Approvals(v)
    <3>1. last \notin Approvals(v)'
      BY <1>3, <1>r, <2>1
    <3>2. \A i \in 1..Len(log) : i \in Approvals(v)' <=> i \in A
      BY <1>3, <1>r, <1>o, <1>i
    <3>3. Approvals(v)' \subseteq 1..last /\ A \subseteq 1..Len(log)
      BY <1>r, <1>o
    <3> QED
      BY <1>i, <3>1, <3>2, <3>3
  <2>3. Pending(v)' = Pending(v)
    BY <1>7, <1>9
  <2> QED
    BY <1>6, <2>2, <2>3
<1> QED
  BY <1>8, <1>9

\* Every step keeps the bound.
LEMMA StepBound == PolicyInv /\ PendingBounded /\ [Next]_vars => PendingBounded'
<1> SUFFICES ASSUME PolicyInv, PendingBounded, [Next]_vars
             PROVE  PendingBounded'
  OBVIOUS
<1>1. TypeOK /\ TypeOK'
  BY StepInv DEF PolicyInv
<1>2. CASE UNCHANGED vars
  BY <1>1, <1>2, FewerKeepBound DEF vars, Approvals, Pending
<1>3. ASSUME NEW w \in Workers, Authorize(w)
      PROVE  PendingBounded'
  <2>1. PICK q \in Requests :
            /\ req' = [req EXCEPT ![w] = q]
            /\ decision' = [decision EXCEPT ![w] = IF CedarAllows(q) THEN "Allow" ELSE "Deny"]
            /\ pc' = [pc EXCEPT ![w] =
                  CASE ~CedarAllows(q) -> "record"
                    [] q.action = "ApprovePayment" -> "rate"
                    [] OTHER -> "switch"]
    BY <1>3 DEF Authorize
  <2>2. UNCHANGED <<log, clock>>
    BY <1>3 DEF Authorize
  <2>3. \A u \in Workers : u # w =>
            pc'[u] = pc[u] /\ decision'[u] = decision[u] /\ req'[u] = req[u]
    BY <1>1, <2>1 DEF TypeOK
  <2>4. ~(/\ pc'[w] \in {"switch", "record"}
          /\ decision'[w] = "Allow"
          /\ req'[w].action = "ApprovePayment")
    BY <1>1, <2>1 DEF TypeOK
  <2>5. \A v : Pending(v)' \subseteq Pending(v)
    BY <2>3, <2>4 DEF Pending
  <2>6. \A v : Approvals(v)' = Approvals(v)
    BY <2>2 DEF Approvals
  <2> QED
    BY <1>1, <2>5, <2>6, FewerKeepBound
<1>4. ASSUME NEW w \in Workers, CheckRateLimit(w)
      PROVE  PendingBounded'
  BY <1>1, <1>4, CheckRateLimitBound
<1>5. ASSUME NEW w \in Workers, CheckKillSwitch(w)
      PROVE  PendingBounded'
  <2>1. /\ pc[w] = "switch"
        /\ decision' = [decision EXCEPT ![w] = IF KillSwitchDenies(req[w]) THEN "Deny" ELSE @]
        /\ pc' = [pc EXCEPT ![w] = "record"]
        /\ UNCHANGED <<req, log, clock>>
    BY <1>5 DEF CheckKillSwitch, Check
  <2>2. \A u \in Workers :
            /\ decision'[u] = "Allow" => decision[u] = "Allow"
            /\ pc'[u] \in {"switch", "record"} => pc[u] \in {"switch", "record"}
    BY <1>1, <2>1 DEF TypeOK
  <2>3. \A v : Approvals(v)' = Approvals(v) /\ Pending(v)' \subseteq Pending(v)
    BY <2>1, <2>2 DEF Approvals, Pending
  <2> QED
    BY <1>1, <2>3, FewerKeepBound
<1>6. ASSUME NEW w \in Workers, RecordDecision(w)
      PROVE  PendingBounded'
  BY <1>1, <1>6, RecordBound
<1>7. ASSUME NEW w \in Workers, Answer(w) \/ Fail(w)
      PROVE  PendingBounded'
  <2>1. req' = req /\ log' = log /\ clock' = clock
    BY <1>7 DEF Answer, Fail
  <2>4. \A u \in Workers : decision'[u] = "Allow" => decision[u] = "Allow"
    BY <1>1, <1>7 DEF TypeOK, Answer, Fail
  <2>5. \A u \in Workers : pc'[u] \in {"switch", "record"} => pc'[u] = pc[u]
    BY <1>1, <1>7 DEF TypeOK, Answer, Fail
  <2>2. \A v : Approvals(v)' = Approvals(v)
    BY <2>1 DEF Approvals
  <2>3. ASSUME NEW v, NEW u \in Pending(v)'
        PROVE  u \in Pending(v)
    <3>1. /\ u \in Workers
          /\ pc'[u] \in {"switch", "record"}
          /\ decision'[u] = "Allow"
          /\ req'[u].action = "ApprovePayment"
          /\ VendorOf(req'[u]) = v
      BY DEF Pending
    <3>2. pc'[u] = pc[u] /\ decision[u] = "Allow" /\ req' = req
      BY <2>1, <2>4, <2>5, <3>1
    <3> QED
      BY <3>1, <3>2 DEF Pending
  <2> QED
    BY <1>1, <2>2, <2>3, FewerKeepBound
<1>8. CASE Trip \/ Reset \/ Restart \/ Outage
  BY <1>1, <1>8, FewerKeepBound
     DEF Trip, Reset, Restart, Outage, SwitchTo, Approvals, Pending
<1>9. CASE Tick
  <2>1. UNCHANGED <<pc, req, decision, log>> /\ clock' = clock + 1
    BY <1>9 DEF Tick
  <2>2. \A i \in DOMAIN log : log[i].at \in Int
    <3>1. \A i \in DOMAIN log : log[i] \in Row
      BY <1>1 DEF TypeOK
    <3> QED
      BY <3>1 DEF Row
  <2>3. \A i \in DOMAIN log : log[i].at >= clock' - Window => log[i].at >= clock - Window
    BY <1>1, <2>1, <2>2, LimitAssumption DEF TypeOK
  <2>4. \A v : Approvals(v)' \subseteq Approvals(v) /\ Pending(v)' = Pending(v)
    BY <2>1, <2>3 DEF Approvals, Pending
  <2> QED
    BY <1>1, <2>4, FewerKeepBound
<1> QED
  BY <1>2, <1>3, <1>4, <1>5, <1>6, <1>7, <1>8, <1>9 DEF Next, Handle

\* The vendor rate limit is passed by less than one approval per worker: only
\* calls that overlap can pass it, because each read the log before the others
\* wrote to it.
THEOREM ApprovalsStayBounded == Spec => []ApprovalsBounded
<1>1. Init => PolicyInv /\ PendingBounded
  BY InitInv
<1>2. PolicyInv /\ PendingBounded /\ [Next]_vars => (PolicyInv /\ PendingBounded)'
  BY StepInv, StepBound
<1>3. PolicyInv /\ PendingBounded => ApprovalsBounded
  <2> SUFFICES ASSUME PolicyInv, PendingBounded,
                      NEW v \in Vendors
               PROVE  Cardinality(Approvals(v)) < MaxApprovals + Cardinality(Workers)
    BY DEF ApprovalsBounded
  <2>1. Cardinality(Approvals(v)) + Cardinality(Pending(v)) < MaxApprovals + Cardinality(Workers)
    BY DEF PendingBounded
  <2>2. /\ Cardinality(Approvals(v)) \in Nat /\ Cardinality(Pending(v)) \in Nat
        /\ Cardinality(Workers) \in Nat
    BY Counted DEF PolicyInv
  <2> QED
    BY <2>1, <2>2, LimitAssumption
<1> QED
  BY <1>1, <1>2, <1>3, PTL DEF Spec
=============================================================================
