-------------------------- MODULE InvoiceRunProofs --------------------------
(***************************************************************************)
(* What TLAPS proves of InvoiceRun, for any number of executions of any    *)
(* threads, any amounts and any entries of the kill switch.                *)
(***************************************************************************)
EXTENDS InvoiceRun, TLAPS

\* An agent's approval is of a routine amount and of a known vendor: the two
\* policies on ApprovePayment that apply to an agent.
LEMMA AgentApprovalIsRoutine ==
    ASSUME NEW s, MayAllow(Ask("approval", "read-and-flag", "ApprovePayment", s)),
           s.firstSeen \in BOOLEAN
    PROVE  Rounded(s.amount) <= 5000 /\ ~s.firstSeen
<1> DEFINE q == Ask("approval", "read-and-flag", "ApprovePayment", s)
<1>1. /\ q.action = "ApprovePayment" /\ q.principal.type = "Agent" /\ q.resource.type = "Payment"
      /\ q.resource.amount = s.amount /\ q.resource.vendorFirstSeen = s.firstSeen
      /\ q.resource.approvalCount = 0
      /\ "amount" \in q.given /\ "vendorFirstSeen" \in q.given /\ "approvalCount" \in q.given
  BY DEF Ask
<1>2. CedarAllows(q)
  BY DEF MayAllow
<1> HIDE DEF q
<1>3. Approves(q) /\ ByAgent(q) /\ ~ByUser(q) /\ ~CreatesEntry(q) /\ q.action # "InvokeTool"
  BY <1>1 DEF Approves, ByAgent, ByUser, OnPayment, CreatesEntry
<1>4. FlaggingAgents(q.action) = {}
  BY <1>1 DEF FlaggingAgents
<1>5. WithinThreshold(q)
  BY <1>2, <1>3, <1>4 DEF CedarAllows, Permitted
<1>6. ~FirstSeenUnapproved(q)
  BY <1>2, <1>3 DEF CedarAllows, Forbidden
<1> QED
  BY <1>1, <1>5, <1>6 DEF WithinThreshold, FirstSeenUnapproved, Sent

\* The place after a heartbeat.
LEMMA WorkingPlaces ==
    ASSUME NEW p \in DOMAIN Working
    PROVE  /\ p \in {"extraction", "risk_scoring", "approval", "payment_execution"}
           /\ Working[p] \in {"extracting", "scoring", "approving", "authorizing"}
           /\ Working[p] = "authorizing" => p = "payment_execution"
BY DEF Working

\* Approvals are never taken back.
LEMMA BackedStays ==
    ASSUME NEW t, NEW amount, Backed(t, amount), approvals \subseteq approvals'
    PROVE  Backed(t, amount)'
BY DEF Backed

\* Whoever is entitled to approve leaves an approval of the amount at hand.
LEMMA ApprovalBacks ==
    ASSUME TypeOK, NEW e \in Executions, NEW by \in Executions \cup {Nobody}, Approve(e, by),
           NEW amount, amount = st[e].amount, UNCHANGED thread,
           by = Nobody => Rounded(amount) <= 5000 /\ ~st[e].firstSeen
    PROVE  /\ approvals \subseteq approvals' /\ approvals' \subseteq Approval
           /\ Backed(thread[e], amount)'
<1> DEFINE a == [thread |-> thread[e], amount |-> st[e].amount, firstSeen |-> st[e].firstSeen,
                 by |-> by]
<1>1. a \in Approval
  BY DEF TypeOK, Approval, State
<1>2. approvals' = approvals \cup {a}
  BY DEF Approve
<1>3. a.thread = thread'[e] /\ a.amount = amount
      /\ (a.by = Nobody => Rounded(a.amount) <= 5000 /\ ~a.firstSeen)
  OBVIOUS
<1> HIDE DEF a
<1> QED
  BY <1>1, <1>2, <1>3 DEF Backed, TypeOK

\* No request has come and nothing is posted.
LEMMA InitInv == Init => RunInv
<1> SUFFICES ASSUME Init PROVE RunInv
  OBVIOUS
<1>1. TypeOK
  BY FaultAssumption DEF Init, TypeOK, CPInit, CPTypeOK, Places, Nodes, Ages, State, TaskStates,
     Blank, Checkpoint
<1> QED
  BY <1>1, RunAssumption DEF Init, RunInv, CopiesBacked, CheckpointsBacked, PostedBacked,
     HoldsCleared, SettledIsPosted, PayerSettles, OutcomeTruthful, Paying, Blank

-----------------------------------------------------------------------------
(* The four ways an execution moves *)

\* A node ends with a checkpoint.
LEMMA NodeEnds ==
    ASSUME RunInv, NEW e \in Executions, NEW s \in State, NEW next \in Nodes \cup {"end"},
           FinishNode(e, s, next),
           UNCHANGED <<cpVars, thread, verdict, reply, posted, payer, clear>>,
           approvals \subseteq approvals', approvals' \subseteq Approval,
           at[e] # "done",
           next = "payment_execution" => Backed(thread[e], s.amount)',
           s.task = "settled" => posted[thread[e]] # -1,
           payer[thread[e]] = e => s.task = "settled" /\ next = "end"
    PROVE  RunInv'
<1> DEFINE place == IF next = "end" THEN "ending" ELSE next
<1> USE DEF RunInv
<1>a. /\ at' = [at EXCEPT ![e] = place]
      /\ st' = [st EXCEPT ![e] = s]
      /\ saved' = [saved EXCEPT ![thread[e]] = [state |-> s, next |-> next]]
      /\ place \in Nodes \cup {"ending"}
      /\ place = "payment_execution" => next = "payment_execution"
      /\ place = "ending" <=> next = "end"
  BY DEF FinishNode, Goto, Nodes
<1> HIDE DEF place
<1>b. /\ at \in [Executions -> Places] /\ st \in [Executions -> State]
      /\ saved \in [Threads -> Checkpoint] /\ thread \in [Executions -> Threads]
  BY DEF TypeOK
<1>c. /\ at'[e] = place /\ st'[e] = s
      /\ \A f \in Executions \ {e} : at'[f] = at[f] /\ st'[f] = st[f]
      /\ saved'[thread[e]] = [state |-> s, next |-> next]
      /\ \A t \in Threads \ {thread[e]} : saved'[t] = saved[t]
  BY <1>a, <1>b
<1>1. TypeOK'
  BY <1>a, <1>b DEF TypeOK, CPTypeOK, cpVars, Places, Checkpoint
<1>2. CopiesBacked'
  BY <1>a, <1>c, BackedStays DEF CopiesBacked, Paying, Nodes
<1>3. CheckpointsBacked'
  BY <1>c, BackedStays DEF CheckpointsBacked
<1>4. PostedBacked'
  BY BackedStays DEF PostedBacked
<1>5. HoldsCleared'
  BY <1>a, <1>c DEF HoldsCleared, Nodes, cpVars, Stopped
<1>6. SettledIsPosted'
  BY <1>a, <1>c DEF SettledIsPosted, Nodes
<1>7. PayerSettles'
  BY <1>a, <1>c DEF PayerSettles, Nodes
<1>8. OutcomeTruthful'
  BY <1>c DEF OutcomeTruthful
<1> QED
  BY <1>1, <1>2, <1>3, <1>4, <1>5, <1>6, <1>7, <1>8

\* The request is answered: at its own end, parked, refused or by an error.
LEMMA RequestEnds ==
    ASSUME RunInv, NEW e \in Executions, NEW answer \in TaskStates \cup {"halted", "error"},
           EndRequest(e, answer), CPTypeOK',
           UNCHANGED <<halts, up, thread, saved, posted, payer, approvals>>,
           answer = "settled" => posted[thread[e]] # -1,
           payer[thread[e]] = e => answer \in {"settled", "error"}
    PROVE  RunInv'
<1> USE DEF RunInv
<1>a. /\ at \in [Executions -> Places] /\ st \in [Executions -> State]
      /\ reply \in [Executions -> TaskStates \cup {"halted", "error"}]
  BY DEF TypeOK
<1>b. /\ at' = [at EXCEPT ![e] = "done"]
      /\ st' = [st EXCEPT ![e] = Blank]
      /\ reply' = [reply EXCEPT ![e] = answer]
      /\ verdict' = [verdict EXCEPT ![e] = "none"]
      /\ clear' = [clear EXCEPT ![e] = FALSE]
      /\ Blank \in State /\ Blank.task = "none"
  BY DEF EndRequest, Goto, State, Blank, TaskStates
<1>c. /\ at'[e] = "done" /\ st'[e] = Blank /\ reply'[e] = answer
      /\ \A f \in Executions \ {e} : /\ at'[f] = at[f] /\ st'[f] = st[f]
                                     /\ reply'[f] = reply[f] /\ clear'[f] = clear[f]
  BY <1>a, <1>b DEF TypeOK
<1>1. TypeOK'
  BY <1>a, <1>b DEF TypeOK, Places
<1>2. CopiesBacked'
  BY <1>c, BackedStays DEF CopiesBacked, Paying
<1>3. CheckpointsBacked'
  BY BackedStays DEF CheckpointsBacked
<1>4. PostedBacked'
  BY BackedStays DEF PostedBacked
<1>5. HoldsCleared'
  BY <1>c DEF HoldsCleared, Stopped
<1>6. SettledIsPosted'
  BY <1>b, <1>c DEF SettledIsPosted
<1>7. PayerSettles'
  BY <1>c DEF PayerSettles
<1>8. OutcomeTruthful'
  BY <1>c DEF OutcomeTruthful
<1> QED
  BY <1>1, <1>2, <1>3, <1>4, <1>5, <1>6, <1>7, <1>8

\* An execution goes on to another step, with the state it has or loads.
LEMMA StepTaken ==
    ASSUME RunInv, NEW e \in Executions, NEW place \in Places, NEW s \in State,
           Goto(e, place), st' = [st EXCEPT ![e] = s], CPTypeOK',
           verdict' \in [Executions -> {"none", "approve", "reject"}],
           clear' \in [Executions -> BOOLEAN],
           \A f \in Executions \ {e} : clear'[f] = clear[f],
           UNCHANGED <<halts, up, thread, reply, saved, posted, payer, approvals>>,
           at[e] # "done", place \notin {"recording", "done"},
           place \in Paying => Backed(thread[e], s.amount),
           place = "rechecking" => clear'[e] \/ Stopped(thread[e], halts, up),
           place = "committing" => clear'[e],
           s.task = "settled" => posted[thread[e]] # -1,
           payer[thread[e]] # e
    PROVE  RunInv'
<1> USE DEF RunInv
<1>a. /\ at \in [Executions -> Places] /\ st \in [Executions -> State]
      /\ at' = [at EXCEPT ![e] = place]
  BY DEF TypeOK, Goto
<1>c. /\ at'[e] = place /\ st'[e] = s
      /\ \A f \in Executions \ {e} : at'[f] = at[f] /\ st'[f] = st[f]
  BY <1>a
<1>1. TypeOK'
  BY <1>a DEF TypeOK
<1>2. CopiesBacked'
  BY <1>c, BackedStays DEF CopiesBacked
<1>3. CheckpointsBacked'
  BY BackedStays DEF CheckpointsBacked
<1>4. PostedBacked'
  BY BackedStays DEF PostedBacked
<1>5. HoldsCleared'
  BY <1>c DEF HoldsCleared, Stopped
<1>6. SettledIsPosted'
  BY <1>c DEF SettledIsPosted
<1>7. PayerSettles'
  BY <1>c DEF PayerSettles
<1>8. OutcomeTruthful'
  BY DEF OutcomeTruthful
<1> QED
  BY <1>1, <1>2, <1>3, <1>4, <1>5, <1>6, <1>7, <1>8

-----------------------------------------------------------------------------
(* Every action keeps the invariant *)

\* Calls of the runs to control-plane keep its types.
LEMMA CallsTyped ==
    ASSUME TypeOK, NEW t \in Threads, UNCHANGED <<halts, suspects, up>>,
           \/ Heartbeat(t) /\ UNCHANGED paused
           \/ Pause(t) /\ UNCHANGED seen
           \/ Unpause(t) /\ UNCHANGED seen
           \/ UNCHANGED <<paused, seen>>
    PROVE  CPTypeOK'
BY DEF TypeOK, CPTypeOK, Heartbeat, Pause, Unpause, Ages

\* Only an execution on its way from the commit to its answer is a payer.
LEMMA PayerIsLate ==
    ASSUME RunInv, NEW e \in Executions, at[e] \notin {"recording", "ending", "done"}
    PROVE  payer[thread[e]] # e
BY DEF RunInv, PayerSettles

\* A request arrives and loads its checkpoint, or is refused.
LEMMA RequestInv ==
    ASSUME RunInv, NEW e \in Executions, Request(e) PROVE RunInv'
<1> USE DEF RunInv
<1>a. thread[e] \in Threads /\ st[e] \in State /\ saved[thread[e]] \in Checkpoint
  BY DEF TypeOK
<1>b. payer[thread[e]] # e /\ at[e] = "idle"
  BY PayerIsLate DEF Request, Refuse, Start, Resume
<1>c. CPTypeOK'
  BY <1>a, CallsTyped DEF Request, Refuse, Start, Resume, FinishNode, EndRequest, cpVars
<1>1. CASE Refuse(e)
  BY <1>1, <1>b, <1>c, RequestEnds DEF Refuse, cpVars, TaskStates
<1>2. CASE Start(e)
  <2> DEFINE s == [saved[thread[e]].state EXCEPT !.task = "submitted"]
  <2>1. FinishNode(e, s, "extraction")
    BY <1>2 DEF Start
  <2>2. s \in State /\ s.task = "submitted"
    BY <1>a DEF Checkpoint, State, TaskStates
  <2> HIDE DEF s
  <2>3. UNCHANGED <<cpVars, thread, verdict, reply, posted, payer, clear, approvals>>
    BY <1>2 DEF Start
  <2>4. approvals' \subseteq Approval /\ "extraction" \in Nodes
    BY <2>3 DEF TypeOK, Nodes
  <2> QED
    BY <1>b, <2>1, <2>2, <2>3, <2>4, NodeEnds
<1>3. ASSUME NEW decision \in {"approve", "reject"}, Resume(e, decision) PROVE RunInv'
  <2> DEFINE from == saved[thread[e]]
             place == IF from.next = "end" THEN "ending" ELSE from.next
  <2>1. /\ st' = [st EXCEPT ![e] = from.state] /\ Goto(e, place) /\ from.next # "none"
        /\ verdict' = [verdict EXCEPT ![e] = IF from.next = "human_review" THEN decision ELSE @]
        /\ UNCHANGED <<cpVars, thread, reply, saved, posted, payer, approvals, clear>>
    BY <1>3 DEF Resume
  <2>2. from.state \in State /\ from.next \in Nodes \cup {"end"}
    BY <1>a, <2>1 DEF Checkpoint
  <2>3. place \in Nodes \cup {"ending"} /\ (place = "payment_execution" => from.next = place)
    BY <2>2 DEF Nodes
  <2>4. place \in Places /\ place \notin {"recording", "done", "rechecking", "committing"}
    BY <2>3 DEF Nodes, Places
  <2>5. place \in Paying => Backed(thread[e], from.state.amount)
    BY <1>a, <2>3 DEF CheckpointsBacked, Paying, Nodes
  <2>6. from.state.task = "settled" => posted[thread[e]] # -1
    BY <1>a DEF OutcomeTruthful
  <2>7. /\ verdict' \in [Executions -> {"none", "approve", "reject"}]
        /\ clear' \in [Executions -> BOOLEAN]
        /\ UNCHANGED <<halts, up>>
    BY <2>1, <1>3 DEF TypeOK, cpVars
  <2> HIDE DEF from, place
  <2> QED
    BY <1>b, <1>c, <2>1, <2>2, <2>4, <2>5, <2>6, <2>7, StepTaken
<1> QED
  BY <1>1, <1>2, <1>3 DEF Request

\* The agents before the payment.
LEMMA AgentsInv ==
    ASSUME RunInv, NEW e \in Executions,
           Enter(e) \/ FinishExtraction(e) \/ FinishRisk(e) \/ Escalate(e) \/ AgentRejects(e)
             \/ AgentApproves(e)
    PROVE  RunInv'
<1> USE DEF RunInv
<1>a. thread[e] \in Threads /\ st[e] \in State /\ verdict \in [Executions -> {"none", "approve", "reject"}]
      /\ clear \in [Executions -> BOOLEAN] /\ approvals \subseteq Approval /\ Firsts \subseteq BOOLEAN
  BY RunAssumption DEF TypeOK
<1>1. CASE Enter(e)
  <2>1. at[e] \in DOMAIN Working /\ Goto(e, Working[at[e]]) /\ Heartbeat(thread[e])
        /\ UNCHANGED <<halts, paused, suspects, up, thread, st, verdict, reply, saved, posted,
                       payer, approvals, clear>>
    BY <1>1 DEF Enter
  <2>2. /\ at[e] \in {"extraction", "risk_scoring", "approval", "payment_execution"}
        /\ Working[at[e]] \in {"extracting", "scoring", "approving", "authorizing"}
        /\ Working[at[e]] = "authorizing" => at[e] = "payment_execution"
    BY <2>1, WorkingPlaces
  <2>3. CPTypeOK'
    BY <1>a, <2>1, CallsTyped
  <2>4. Working[at[e]] \in Paying => Backed(thread[e], st[e].amount)
    BY <2>2 DEF CopiesBacked, Paying
  <2>5. st' = [st EXCEPT ![e] = st[e]]
    BY <2>1 DEF TypeOK
  <2>6. st[e].task = "settled" => posted[thread[e]] # -1
    BY DEF SettledIsPosted
  <2>7. payer[thread[e]] # e
    BY <2>2, PayerIsLate
  <2>8. Working[at[e]] \in Places \ {"recording", "done", "rechecking", "committing"} /\ at[e] # "done"
    BY <2>2 DEF Places
  <2> QED
    BY <1>a, <2>1, <2>3, <2>4, <2>5, <2>6, <2>7, <2>8, StepTaken
<1>2. ASSUME ~Enter(e)
      PROVE  /\ at[e] \in {"extracting", "scoring", "approving"}
             /\ payer[thread[e]] # e
             /\ UNCHANGED <<cpVars, thread, verdict, reply, posted, payer, clear>>
  BY <1>2, PayerIsLate DEF FinishExtraction, FinishRisk, Escalate, AgentRejects, AgentApproves
<1>3. CASE FinishExtraction(e)
  <2>0. PICK s, next : /\ FinishNode(e, s, next) /\ s \in State /\ s.task # "settled"
                       /\ next \in {"end", "risk_scoring"}
    BY <1>3, <1>a DEF FinishExtraction, State, TaskStates
  <2>1. approvals' = approvals /\ ~Enter(e)
    BY <1>3, WorkingPlaces DEF FinishExtraction, Enter
  <2> QED
    BY <1>2, <1>a, <2>0, <2>1, NodeEnds DEF Nodes
<1>4. CASE FinishRisk(e)
  <2>0. PICK s, next : /\ FinishNode(e, s, next) /\ s \in State /\ s.task # "settled"
                       /\ next \in {"human_review", "approval"}
    <3>1. PICK first \in Firsts, flagged \in BOOLEAN :
            LET s == [st[e] EXCEPT !.task = "risk_scored", !.firstSeen = first,
                                   !.human = @ \/ flagged]
            IN FinishNode(e, s, IF s.human THEN "human_review" ELSE "approval")
      BY <1>4 DEF FinishRisk
    <3> DEFINE s == [st[e] EXCEPT !.task = "risk_scored", !.firstSeen = first,
                                  !.human = @ \/ flagged]
    <3>2. s.task = "risk_scored" /\ s \in State
      <4>1. (st[e].human \/ flagged) \in BOOLEAN /\ first \in BOOLEAN
        BY <1>a DEF State
      <4> QED
        BY <1>a, <4>1 DEF State, TaskStates
    <3>3. FinishNode(e, s, IF s.human THEN "human_review" ELSE "approval")
      BY <3>1
    <3> HIDE DEF s
    <3> QED
      BY <3>2, <3>3
  <2>1. approvals' = approvals /\ ~Enter(e)
    BY <1>4, WorkingPlaces DEF FinishRisk, Enter
  <2> QED
    BY <1>2, <1>a, <2>0, <2>1, NodeEnds DEF Nodes
<1>5. CASE Escalate(e) \/ AgentRejects(e)
  <2>0. PICK s, next : /\ FinishNode(e, s, next) /\ s \in State /\ s.task # "settled"
                       /\ next \in {"human_review", "end"}
    BY <1>5, <1>a DEF Escalate, AgentRejects, State, TaskStates
  <2>1. approvals' = approvals /\ ~Enter(e)
    BY <1>5, WorkingPlaces DEF Escalate, AgentRejects, Enter
  <2> QED
    BY <1>2, <1>a, <2>0, <2>1, NodeEnds DEF Nodes
<1>6. CASE AgentApproves(e)
  <2>1. PICK s, next : /\ FinishNode(e, s, next) /\ s \in State /\ s.task = "approved"
                       /\ s.amount = st[e].amount
                       /\ next \in {"human_review", "payment_execution"}
    BY <1>6, <1>a DEF AgentApproves, State, TaskStates
  <2>2. Rounded(st[e].amount) <= 5000 /\ ~st[e].firstSeen
    BY <1>6, <1>a, AgentApprovalIsRoutine DEF AgentApproves, State
  <2>3. /\ approvals \subseteq approvals' /\ approvals' \subseteq Approval
        /\ Backed(thread[e], s.amount)'
    BY <1>6, <2>1, <2>2, ApprovalBacks DEF AgentApproves
  <2>4. ~Enter(e)
    BY <1>6, WorkingPlaces DEF AgentApproves, Enter
  <2> QED
    BY <1>2, <2>1, <2>3, <2>4, NodeEnds DEF Nodes
<1> QED
  BY <1>1, <1>3, <1>4, <1>5, <1>6

\* human_review.
LEMMA ReviewInv ==
    ASSUME RunInv, NEW e \in Executions, Park(e) \/ Unpark(e) \/ Decide(e)
    PROVE  RunInv'
<1> USE DEF RunInv
<1>a. /\ thread[e] \in Threads /\ st[e] \in State
      /\ verdict \in [Executions -> {"none", "approve", "reject"}]
      /\ clear \in [Executions -> BOOLEAN] /\ approvals \subseteq Approval
      /\ st = [st EXCEPT ![e] = st[e]]
  BY DEF TypeOK
<1>b. at[e] \in {"human_review", "unpausing", "deciding"}
  BY DEF Park, Unpark, Decide
<1>c. payer[thread[e]] # e
  BY <1>b, PayerIsLate
<1>d. st[e].task = "settled" => posted[thread[e]] # -1
  BY DEF SettledIsPosted
<1>1. CASE Park(e)
  <2>1. CPTypeOK'
    BY <1>1, <1>a, CallsTyped DEF Park
  <2>2. CASE verdict[e] = "none"
    <3>1. st[e].task \in TaskStates /\ EndRequest(e, st[e].task)
      BY <1>1, <1>a, <2>2 DEF Park, State
    <3> QED
      BY <1>1, <1>c, <1>d, <2>1, <3>1, RequestEnds DEF Park
  <2>3. CASE verdict[e] # "none"
    BY <1>1, <1>a, <1>c, <1>d, <2>1, <2>3, StepTaken DEF Park, Places, Paying
  <2> QED
    BY <2>2, <2>3
<1>2. CASE Unpark(e)
  <2>1. CPTypeOK'
    BY <1>2, <1>a, CallsTyped DEF Unpark
  <2> QED
    BY <1>2, <1>a, <1>c, <1>d, <2>1, StepTaken DEF Unpark, Places, Paying
<1>3. CASE Decide(e)
  <2>0. UNCHANGED <<cpVars, thread, verdict, reply, posted, payer, clear>> /\ at[e] = "deciding"
    BY <1>3 DEF Decide
  <2>1. CASE verdict[e] = "approve"
    <3>1. PICK s \in State : /\ Approve(e, e) /\ FinishNode(e, s, "payment_execution")
                             /\ s = st[e]
      BY <1>3, <1>a, <2>1 DEF Decide
    <3>2. /\ approvals \subseteq approvals' /\ approvals' \subseteq Approval
          /\ Backed(thread[e], s.amount)'
      BY <2>0, <3>1, ApprovalBacks, RunAssumption
    <3> QED
      BY <1>c, <1>d, <2>0, <3>1, <3>2, NodeEnds DEF Nodes
  <2>2. CASE verdict[e] # "approve"
    <3>1. UNCHANGED approvals /\ FinishNode(e, st[e], "end")
      BY <1>3, <2>2 DEF Decide
    <3> QED
      BY <1>a, <1>c, <1>d, <2>0, <3>1, NodeEnds
  <2> QED
    BY <2>1, <2>2
<1> QED
  BY <1>1, <1>2, <1>3

\* The payment is blocked before anything was posted by this execution.
LEMMA BlockInv ==
    ASSUME RunInv, NEW e \in Executions, Block(e), at[e] # "done", payer[thread[e]] # e
    PROVE  RunInv'
<1>1. PICK s \in State : FinishNode(e, s, "end") /\ s.task = "blocked"
  BY DEF Block, RunInv, TypeOK, State, TaskStates
<1>2. approvals' = approvals /\ approvals \subseteq Approval
  BY DEF Block, RunInv, TypeOK
<1> QED
  BY <1>1, <1>2, NodeEnds DEF Block

\* payment_execution up to the commit.
LEMMA HoldInv ==
    ASSUME RunInv, NEW e \in Executions, AuthorizePayment(e) \/ DryRun(e) \/ EndHold(e) \/ Recheck(e)
    PROVE  RunInv'
<1> USE DEF RunInv
<1>a. /\ st[e] \in State /\ st = [st EXCEPT ![e] = st[e]]
      /\ verdict \in [Executions -> {"none", "approve", "reject"}]
      /\ clear \in [Executions -> BOOLEAN]
  BY DEF TypeOK
<1>b. at[e] \in {"authorizing", "dry_running", "holding", "rechecking"}
  BY DEF AuthorizePayment, DryRun, EndHold, Recheck
<1>c. payer[thread[e]] # e
  BY <1>b, PayerIsLate
<1>d. /\ st[e].task = "settled" => posted[thread[e]] # -1
      /\ Backed(thread[e], st[e].amount)
  BY <1>b DEF SettledIsPosted, CopiesBacked, Paying
<1>1. CASE Block(e)
  BY <1>1, <1>b, <1>c, BlockInv
<1>2. ASSUME NEW place \in {"dry_running", "holding", "rechecking", "committing"}, Proceed(e, place),
             clear' \in [Executions -> BOOLEAN],
             \A f \in Executions \ {e} : clear'[f] = clear[f],
             place = "rechecking" => clear'[e] \/ Stopped(thread[e], halts, up),
             place = "committing" => clear'[e]
      PROVE  RunInv'
  <2>1. /\ Goto(e, place) /\ st' = [st EXCEPT ![e] = st[e]]
        /\ UNCHANGED <<cpVars, halts, up, thread, verdict, reply, saved, posted, payer, approvals>>
    BY <1>2, <1>a DEF Proceed, cpVars
  <2>2. CPTypeOK'
    BY <2>1 DEF TypeOK, CPTypeOK, cpVars
  <2>3. place \in Places /\ place \notin {"recording", "done"}
    BY <1>2 DEF Places
  <2> QED
    BY <1>2, <1>a, <1>b, <1>c, <1>d, <2>1, <2>2, <2>3, StepTaken
<1>3. CASE AuthorizePayment(e) /\ ~Block(e)
  BY <1>2, <1>3, <1>a DEF AuthorizePayment
<1>6. CASE DryRun(e) /\ ~Block(e)
  BY <1>2, <1>6, <1>a DEF DryRun
<1>4. CASE EndHold(e)
  <2>1. Proceed(e, "rechecking") /\ clear' = [clear EXCEPT ![e] = ~Stopped(thread[e], halts, up)]
    BY <1>4 DEF EndHold
  <2>2. (~Stopped(thread[e], halts, up)) \in BOOLEAN
    BY DEF Stopped
  <2>3. /\ clear' \in [Executions -> BOOLEAN]
        /\ clear'[e] = ~Stopped(thread[e], halts, up)
        /\ \A f \in Executions \ {e} : clear'[f] = clear[f]
    BY <1>a, <2>1, <2>2
  <2> QED
    BY <1>2, <2>1, <2>3
<1>5. CASE Recheck(e) /\ ~Block(e)
  <2>1. /\ at[e] = "rechecking" /\ ~Frozen(thread[e])
        /\ Proceed(e, "committing") /\ clear' = clear
    BY <1>5 DEF Recheck
  <2>2. ~Stopped(thread[e], halts, up)
    BY <2>1 DEF Frozen, InForce, Stopped, Stops
  <2>3. clear'[e]
    BY <2>1, <2>2 DEF HoldsCleared
  <2> QED
    BY <1>2, <1>a, <2>1, <2>3
<1> QED
  BY <1>1, <1>3, <1>4, <1>5, <1>6

\* The ledger commits: the only step that writes posted and payer.
LEMMA CommitInv ==
    ASSUME RunInv, NEW e \in Executions, Commit(e) PROVE RunInv'
<1> USE DEF RunInv
<1>a. /\ at[e] = "committing" /\ thread[e] \in Threads /\ st[e] \in State
      /\ Backed(thread[e], st[e].amount)
  BY DEF Commit, TypeOK, CopiesBacked, Paying
<1>b. payer[thread[e]] # e
  BY <1>a, PayerIsLate
<1>1. CASE posted[thread[e]] # -1
  BY <1>1, <1>a, <1>b, BlockInv DEF Commit
<1>2. CASE posted[thread[e]] = -1
  <2>1. /\ posted' = [posted EXCEPT ![thread[e]] = st[e].amount]
        /\ payer' = [payer EXCEPT ![thread[e]] = e]
        /\ at' = [at EXCEPT ![e] = "recording"]
        /\ UNCHANGED <<cpVars, thread, st, verdict, reply, saved, approvals, clear>>
    BY <1>2 DEF Commit, Goto
  <2>2. st[e].amount \in Amounts \cup {0} /\ st[e].amount # -1
    BY <1>a, RunAssumption DEF State
  <2>3. /\ posted'[thread[e]] = st[e].amount /\ payer'[thread[e]] = e
        /\ \A t \in Threads \ {thread[e]} : posted'[t] = posted[t] /\ payer'[t] = payer[t]
        /\ at'[e] = "recording" /\ \A f \in Executions \ {e} : at'[f] = at[f]
    BY <1>a, <2>1 DEF TypeOK
  <2>4. \A t \in Threads : posted[t] # -1 => posted'[t] # -1
    BY <2>2, <2>3
  <2>t. \A f \in Executions : thread[f] \in Threads
    BY DEF TypeOK
  <2>5. TypeOK'
    BY <2>1, <2>2 DEF TypeOK, CPTypeOK, cpVars, Places
  <2>6. CopiesBacked'
    BY <2>1, <2>3, BackedStays DEF CopiesBacked, Paying
  <2>7. CheckpointsBacked'
    BY <2>1, BackedStays DEF CheckpointsBacked
  <2>8. PostedBacked'
    BY <1>a, <2>1, <2>3, BackedStays DEF PostedBacked
  <2>9. HoldsCleared'
    BY <2>1, <2>3 DEF HoldsCleared, Stopped, cpVars
  <2>10. SettledIsPosted'
    BY <2>1, <2>2, <2>3, <2>4, <2>t DEF SettledIsPosted
  <2>11. PayerSettles'
    BY <1>a, <2>1, <2>3, <2>t DEF PayerSettles
  <2>12. OutcomeTruthful'
    BY <1>a, <2>1, <2>3, <2>4, <2>t DEF OutcomeTruthful, PayerSettles
  <2> QED
    BY <2>5, <2>6, <2>7, <2>8, <2>9, <2>10, <2>11, <2>12
<1> QED
  BY <1>1, <1>2

\* After the commit, and any failure.
LEMMA EndInv ==
    ASSUME RunInv, NEW e \in Executions, Settle(e) \/ Return(e) \/ Fail(e)
    PROVE  RunInv'
<1> USE DEF RunInv
<1>a. /\ thread[e] \in Threads /\ st[e] \in State /\ approvals \subseteq Approval
      /\ st[e].task \in TaskStates
  BY DEF TypeOK, State
<1>1. CASE Settle(e)
  <2>1. PICK s \in State : FinishNode(e, s, "end") /\ s.task = "settled"
    BY <1>1, <1>a DEF Settle, State, TaskStates
  <2>2. at[e] = "recording" /\ posted[thread[e]] # -1
    BY <1>1 DEF Settle, SettledIsPosted
  <2> QED
    BY <1>1, <1>a, <2>1, <2>2, NodeEnds DEF Settle
<1>2. CASE Return(e)
  <2>1. CPTypeOK'
    BY <1>2, <1>a, CallsTyped DEF Return
  <2>2. /\ st[e].task = "settled" => posted[thread[e]] # -1
        /\ payer[thread[e]] = e => st[e].task = "settled"
    BY <1>2 DEF Return, SettledIsPosted, PayerSettles
  <2> QED
    BY <1>2, <1>a, <2>1, <2>2, RequestEnds DEF Return
<1>3. CASE Fail(e)
  <2>1. CPTypeOK'
    BY <1>3, <1>a, CallsTyped DEF Fail, cpVars
  <2> QED
    BY <1>3, <2>1, RequestEnds DEF Fail, cpVars
<1> QED
  BY <1>1, <1>2, <1>3

\* control-plane's own steps: an execution whose hold is over remembers a
\* moment without a halt.
LEMMA ControlInv == ASSUME RunInv, ControlStep PROVE RunInv'
<1> USE DEF RunInv
<1>a. /\ clear' = [e \in Executions |->
                     clear[e] \/ (at[e] = "rechecking" /\ ~Stopped(thread[e], halts', up'))]
      /\ UNCHANGED <<at, thread, st, verdict, reply, saved, posted, payer, approvals>>
  BY DEF ControlStep
<1>1. CPTypeOK'
  BY DEF ControlStep, Control, TypeOK, CPTypeOK, Watch, Select, HaltSuspect, FallSilent, Trip,
         Reset, Partition, Restart, Ages
<1>2. clear' \in [Executions -> BOOLEAN]
  <2>1. \A e \in Executions : (clear[e] \/ (at[e] = "rechecking" /\ ~Stopped(thread[e], halts', up')))
                                 \in BOOLEAN
    OBVIOUS
  <2> QED
    BY <1>a, <2>1
<1>3. TypeOK'
  BY <1>a, <1>1, <1>2 DEF TypeOK
<1>4. CopiesBacked' /\ CheckpointsBacked' /\ PostedBacked'
  BY <1>a, BackedStays DEF CopiesBacked, CheckpointsBacked, PostedBacked
<1>5. HoldsCleared'
  BY <1>a DEF HoldsCleared, Stopped
<1>6. SettledIsPosted' /\ PayerSettles' /\ OutcomeTruthful'
  BY <1>a DEF SettledIsPosted, PayerSettles, OutcomeTruthful
<1> QED
  BY <1>3, <1>4, <1>5, <1>6

\* Every step of the runs and of control-plane keeps the invariant.
LEMMA StepInv == RunInv /\ [Next]_vars => RunInv'
<1> SUFFICES ASSUME RunInv, [Next]_vars PROVE RunInv'
  OBVIOUS
<1>1. ASSUME NEW e \in Executions, Request(e) PROVE RunInv'
  BY <1>1, RequestInv
<1>2. ASSUME NEW e \in Executions, Run(e) PROVE RunInv'
  BY <1>2, AgentsInv, ReviewInv, HoldInv, CommitInv, EndInv DEF Run
<1>3. ASSUME NEW e \in Executions, Fail(e) PROVE RunInv'
  BY <1>3, EndInv
<1>4. CASE ControlStep
  BY <1>4, ControlInv
<1>5. CASE UNCHANGED vars
  <2> USE <1>5 DEF vars, runVars, cpVars
  <2>1. TypeOK'
    BY DEF RunInv, TypeOK, CPTypeOK
  <2>2. CopiesBacked' /\ CheckpointsBacked' /\ PostedBacked'
    BY BackedStays DEF RunInv, CopiesBacked, CheckpointsBacked, PostedBacked
  <2>3. HoldsCleared' /\ SettledIsPosted' /\ PayerSettles' /\ OutcomeTruthful'
    BY DEF RunInv, HoldsCleared, SettledIsPosted, PayerSettles, OutcomeTruthful, Stopped
  <2> QED
    BY <2>1, <2>2, <2>3 DEF RunInv
<1> QED
  BY <1>1, <1>2, <1>3, <1>4, <1>5 DEF Next, Quiet

-----------------------------------------------------------------------------
(* The theorems *)

\* The strengthened invariant holds in every reachable state.
THEOREM Invariance == Spec => []RunInv
BY InitInv, StepInv, PTL DEF Spec

\* The types hold in every reachable state, control-plane's among them.
THEOREM TypeCorrect == Spec => []TypeOK
BY Invariance, PTL DEF RunInv

\* There is no way to the ledger's commit around agent_approval and human_review:
\* what is posted was approved with that amount.
THEOREM PaymentsApproved == Spec => []PaidAsApproved
<1>1. RunInv => PaidAsApproved
  BY DEF RunInv, PostedBacked, Backed, PaidAsApproved, Backing
<1> QED
  BY <1>1, Invariance, PTL

\* What start_run and resume_run answer about the money is true.
THEOREM AnswersTruthful == Spec => []OutcomeTruthful
BY Invariance, PTL DEF RunInv

\* However late in its hold a payment is halted, payment_execution does not post
\* it unless the halt was gone again, or control-plane silent, after the hold.
THEOREM HoldsRespected == Spec => HaltBlocksSettlement
<1>1. RunInv /\ [Next]_vars
        => [\A t \in Threads : payer'[t] # payer[t] => clear[payer'[t]]]_vars
  <2> SUFFICES ASSUME RunInv, [Next]_vars, NEW t \in Threads, payer'[t] # payer[t]
               PROVE  clear[payer'[t]]
    OBVIOUS
  <2>1. PICK e \in Executions : Commit(e) /\ payer' = [payer EXCEPT ![thread[e]] = e]
    BY DEF Next, Request, Refuse, Start, Resume, Run, Enter, FinishExtraction, FinishRisk,
           Escalate, AgentRejects, AgentApproves, Park, Unpark, Decide, AuthorizePayment, DryRun,
           EndHold, Recheck, Proceed, Block, Commit, Settle, Return, Fail, ControlStep, Quiet, vars, runVars
  <2>2. payer'[t] = e
    BY <2>1 DEF RunInv, TypeOK
  <2>3. clear[e]
    BY <2>1 DEF Commit, RunInv, HoldsCleared
  <2> QED
    BY <2>2, <2>3
<1> QED
  BY <1>1, Invariance, PTL DEF Spec, HaltBlocksSettlement

-----------------------------------------------------------------------------
(* Ended runs are paused while control-plane answers *)

\* An execution that has not ended its graph and has not failed is nobody who
\* pauses; what it does leaves the others that do.
LEMMA OthersPause ==
    ASSUME NEW e \in Executions, NEW t, PauseComing(t), t # thread[e] \/ at[e] \notin {"deciding", "ending"},
           reply[e] # "error",
           UNCHANGED thread,
           \A f \in Executions \ {e} : at'[f] = at[f] /\ st'[f] = st[f] /\ reply'[f] = reply[f]
    PROVE  PauseComing(t)'
BY DEF PauseComing

\* While control-plane answers, every step keeps ended runs paused.
LEMMA EndsPausedStep ==
    ASSUME RunInv, EndsPaused, [Next]_vars, ~Outages
    PROVE  EndsPaused'
<1>o. \A e \in Executions : at[e] # "done" => reply[e] = "none"
  BY DEF RunInv, PayerSettles
<1>w. TypeOK
  BY DEF RunInv
\* A checkpoint is written.
<1>1. ASSUME NEW e \in Executions, NEW s, NEW next, FinishNode(e, s, next),
             at[e] # "done", UNCHANGED <<paused, up, thread, reply>>
      PROVE  EndsPaused'
  <2>1. /\ saved'[thread[e]] = [state |-> s, next |-> next]
        /\ \A t \in Threads \ {thread[e]} : saved'[t] = saved[t]
        /\ st'[e] = s /\ (next = "end" => at'[e] = "ending")
        /\ \A f \in Executions \ {e} : at'[f] = at[f] /\ st'[f] = st[f]
    BY <1>1, <1>w DEF FinishNode, Goto, TypeOK
  <2> SUFFICES ASSUME NEW t \in Threads, saved'[t].next = "end", saved'[t].state.task \in Terminal
               PROVE  t \in paused' \/ PauseComing(t)'
    BY <1>1 DEF EndsPaused
  <2>2. CASE t = thread[e]
    BY <1>1, <2>1, <2>2 DEF PauseComing
  <2>3. CASE t # thread[e]
    BY <1>o, <1>1, <2>1, <2>3, OthersPause DEF EndsPaused
  <2> QED
    BY <2>2, <2>3
\* An execution that is not about to pause moves on, and may pause its thread.
<1>2. ASSUME NEW e \in Executions, at[e] \notin {"deciding", "ending", "done"},
             UNCHANGED <<up, thread, saved>>, paused \subseteq paused',
             \A f \in Executions \ {e} : at'[f] = at[f] /\ st'[f] = st[f] /\ reply'[f] = reply[f]
      PROVE  EndsPaused'
  BY <1>o, <1>2, OthersPause DEF EndsPaused
<1>3. ASSUME NEW e \in Executions, Fail(e) PROVE EndsPaused'
  <2>1. /\ reply'[e] = "error"
        /\ \A f \in Executions \ {e} : at'[f] = at[f] /\ st'[f] = st[f] /\ reply'[f] = reply[f]
        /\ UNCHANGED <<up, paused, thread, saved>>
    BY <1>3, <1>w DEF Fail, EndRequest, Goto, TypeOK, cpVars
  <2> QED
    BY <2>1 DEF EndsPaused, PauseComing
<1>4. ASSUME NEW e \in Executions, Return(e) PROVE EndsPaused'
  <2>1. /\ \A f \in Executions \ {e} : at'[f] = at[f] /\ st'[f] = st[f] /\ reply'[f] = reply[f]
        /\ UNCHANGED <<up, thread, saved>>
        /\ at[e] = "ending" /\ reply[e] = "none" /\ thread[e] \in Threads
        /\ paused \subseteq paused'
        /\ up /\ st[e].task \in Terminal => thread[e] \in paused'
    BY <1>4, <1>w, <1>o DEF Return, EndRequest, Goto, TypeOK, Pause
  <2> SUFFICES ASSUME NEW t \in Threads, PauseComing(t), t \notin paused'
               PROVE  PauseComing(t)'
    BY <2>1 DEF EndsPaused
  <2> QED
    BY <2>1 DEF EndsPaused, PauseComing
<1>5. ASSUME NEW e \in Executions, Unpark(e) PROVE EndsPaused'
  <2>1. /\ \A f \in Executions \ {e} : at'[f] = at[f]
        /\ UNCHANGED <<up, thread, saved, st, reply>>
        /\ at[e] = "unpausing" /\ at'[e] = "deciding"
        /\ \A t \in Threads \ {thread[e]} : t \in paused => t \in paused'
    BY <1>5, <1>w DEF Unpark, Goto, TypeOK, Unpause
  <2> QED
    BY <2>1 DEF EndsPaused, PauseComing
<1>6. ASSUME NEW e \in Executions, Request(e) PROVE EndsPaused'
  <2>1. CASE Start(e)
    BY <1>1, <2>1 DEF Start, cpVars
  <2>2. CASE Refuse(e)
    <3>1. \A f \in Executions \ {e} : at'[f] = at[f] /\ st'[f] = st[f] /\ reply'[f] = reply[f]
      BY <1>w, <2>2 DEF Refuse, EndRequest, Goto, TypeOK
    <3> QED
      BY <1>2, <2>2, <3>1 DEF Refuse, cpVars
  <2>3. ASSUME NEW decision, Resume(e, decision) PROVE EndsPaused'
    <3>1. \A f \in Executions \ {e} : at'[f] = at[f] /\ st'[f] = st[f] /\ reply'[f] = reply[f]
      BY <1>w, <2>3 DEF Resume, Goto, TypeOK
    <3> QED
      BY <1>2, <2>3, <3>1 DEF Resume, cpVars
  <2> QED
    BY <1>6, <2>1, <2>2, <2>3 DEF Request
<1>7. ASSUME NEW e \in Executions,
             Enter(e) \/ Park(e) \/ AuthorizePayment(e) \/ DryRun(e) \/ EndHold(e)
               \/ Recheck(e) \/ Commit(e)
      PROVE  EndsPaused'
  <2>1. CASE Block(e)
    BY <1>1, <1>7, <2>1, WorkingPlaces
       DEF Block, Enter, Park, AuthorizePayment, DryRun, EndHold, Recheck, Commit, cpVars
  <2>2. CASE ~Block(e)
    <3>1. /\ at[e] \notin {"deciding", "ending", "done"}
          /\ UNCHANGED <<up, thread, saved>> /\ paused \subseteq paused'
      BY <1>7, <2>2, WorkingPlaces DEF Enter, Park, AuthorizePayment, DryRun, EndHold, Recheck, Commit,
         Proceed, Pause, cpVars
    <3>2. \A f \in Executions \ {e} : at'[f] = at[f] /\ st'[f] = st[f] /\ reply'[f] = reply[f]
      BY <1>7, <1>w, <2>2 DEF Enter, Park, AuthorizePayment, DryRun, EndHold, Recheck, Commit, Proceed,
         EndRequest, Goto, TypeOK
    <3> QED
      BY <1>2, <3>1, <3>2
  <2> QED
    BY <2>1, <2>2
<1>8. ASSUME NEW e \in Executions,
             FinishExtraction(e) \/ FinishRisk(e) \/ Escalate(e) \/ AgentRejects(e)
               \/ AgentApproves(e) \/ Decide(e) \/ Settle(e)
      PROVE  EndsPaused'
  <2>1. \E s, next : FinishNode(e, s, next)
    BY <1>8 DEF FinishExtraction, FinishRisk, Escalate, AgentRejects, AgentApproves, Decide, Settle
  <2>2. at[e] # "done" /\ UNCHANGED <<paused, up, thread, reply>>
    BY <1>8 DEF FinishExtraction, FinishRisk, Escalate, AgentRejects, AgentApproves, Decide,
       Settle, cpVars
  <2> QED
    BY <1>1, <2>1, <2>2
<1>9. CASE ControlStep
  <2>1. UNCHANGED <<at, thread, st, reply, saved, paused, up>>
    BY <1>9 DEF ControlStep, Control, Watch, Select, HaltSuspect, FallSilent, Trip, Reset,
       Partition, Restart
  <2> QED
    BY <2>1 DEF EndsPaused, PauseComing
<1>10. CASE UNCHANGED vars
  BY <1>10 DEF vars, runVars, cpVars, EndsPaused, PauseComing
<1> QED
  BY <1>3, <1>4, <1>5, <1>6, <1>7, <1>8, <1>9, <1>10 DEF Next, Run, Quiet

\* _pause_if_terminal does what it is for, for any number of overlapping requests:
\* unless a post was lost or a request failed, a finished run in a terminal state
\* is out of the watchdog's sight.
THEOREM EndedRunsPaused == ASSUME ~Outages PROVE Spec => []TerminalRunPaused
<1>1. Init => EndsPaused
  BY DEF Init, CPInit, EndsPaused
<1>2. RunInv /\ EndsPaused /\ [Next]_vars => EndsPaused'
  BY EndsPausedStep
<1>3. EndsPaused => TerminalRunPaused
  BY DEF EndsPaused, PauseComing, TerminalRunPaused, Finished, Idle, InFlight
<1> QED
  BY <1>1, <1>2, <1>3, Invariance, PTL DEF Spec
=============================================================================
