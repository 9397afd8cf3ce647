----------------------------- MODULE InvoiceRun -----------------------------
(***************************************************************************)
(* services/backend: the payment graph, composed with control-plane, with  *)
(* Cedar's policies and with the ledger's promise that a key is posted     *)
(* once.  Each POST /runs or /runs/{id}/resume is an execution: it loads   *)
(* the thread's newest checkpoint into a state of its own, runs node after *)
(* node, and saves a checkpoint after each.  Nothing keeps two executions  *)
(* of one thread apart, and either may die anywhere.                       *)
(***************************************************************************)
EXTENDS ControlPlane, CedarPolicies, FiniteSets

CONSTANTS
    Executions,     \* one per request that starts or resumes a run
    Starters,       \* those that are POST /runs, the others resume
    Amounts,        \* what extraction may read as the total, in cents
    Firsts,         \* what the vendor lookup may say of vendor_first_seen
    Nobody          \* no execution

ASSUME RunAssumption ==
    /\ Nobody \notin Executions
    /\ Starters \subseteq Executions
    /\ Amounts \subseteq Nat
    /\ Firsts \subseteq BOOLEAN

VARIABLES
    at,         \* the place of each execution in the graph
    thread,     \* the thread it runs
    st,         \* its copy of the run's state
    verdict,    \* the decision a resume carries
    reply,      \* what the caller was answered
    saved,      \* the newest checkpoint of each thread: its state and next node
    posted,     \* the ledger: the amount posted under the invoice's key, or -1
    payer,      \* history: the execution whose commit that was
    approvals,  \* history: who approved which reading of which invoice
    clear       \* history: since the settlement hold was over there was a
                \* moment at which no entry stopped the payment

runVars == <<at, thread, st, verdict, reply, saved, posted, payer, approvals, clear>>

vars == <<cpVars, runVars>>

Nodes == {"extraction", "risk_scoring", "approval", "human_review", "payment_execution"}

Places == Nodes \cup {"idle", "extracting", "scoring", "approving", "unpausing", "deciding",
                      "authorizing", "dry_running", "holding", "rechecking", "committing",
                      "recording", "ending", "done"}

TaskStates == {"none", "submitted", "extracted", "risk_scored", "pending_human", "approved",
               "settled", "rejected", "blocked", "failed"}

\* TERMINAL_TASK_STATES
Terminal == {"settled", "rejected", "blocked", "failed"}

State == [task : TaskStates, human : BOOLEAN, amount : Amounts \cup {0}, firstSeen : BOOLEAN]

Approval == [thread : Threads, amount : Amounts \cup {0}, firstSeen : BOOLEAN,
             by : Executions \cup {Nobody}]

Checkpoint == [state : State, next : Nodes \cup {"end", "none"}]

Blank == [task |-> "none", human |-> FALSE, amount |-> 0, firstSeen |-> FALSE]

TypeOK ==
    /\ CPTypeOK
    /\ at \in [Executions -> Places]
    /\ thread \in [Executions -> Threads]
    /\ st \in [Executions -> State]
    /\ verdict \in [Executions -> {"none", "approve", "reject"}]
    /\ reply \in [Executions -> TaskStates \cup {"halted", "error"}]
    /\ saved \in [Threads -> Checkpoint]
    /\ posted \in [Threads -> Amounts \cup {-1, 0}]
    /\ payer \in [Threads -> Executions \cup {Nobody}]
    /\ approvals \subseteq Approval
    /\ clear \in [Executions -> BOOLEAN]

Init ==
    /\ CPInit
    /\ at = [e \in Executions |-> "idle"]
    /\ thread \in [Executions -> Threads]
    /\ st = [e \in Executions |-> Blank]
    /\ verdict = [e \in Executions |-> "none"]
    /\ reply = [e \in Executions |-> "none"]
    /\ saved = [t \in Threads |-> [state |-> Blank, next |-> "none"]]
    /\ posted = [t \in Threads |-> -1]
    /\ payer = [t \in Threads |-> Nobody]
    /\ approvals = {}
    /\ clear = [e \in Executions |-> FALSE]

-----------------------------------------------------------------------------
(* What the nodes ask *)

\* The authorize() call of a node about the payment it has before it.
Ask(id, tier, action, s) ==
    [principal |-> [type |-> "Agent", id |-> id, trustTier |-> tier],
     action |-> action,
     resource |-> [type |-> "Payment", amount |-> s.amount,
                   vendorFirstSeen |-> s.firstSeen, approvalCount |-> 0],
     given |-> {"trustTier", "amount", "vendorFirstSeen", "approvalCount", "vendor"}]

\* policy-service may allow q; it may deny any request, see PolicyService.
MayAllow(q) ==
    /\ q.action \in ManifestActions(q.principal.id)
    /\ CedarAllows(q)
    /\ ~InForce(<<"global", "*">>)
    /\ ~InForce(<<"agent", q.principal.id>>)

\* The entries that stop the payment of t at the end of its hold.
Stops(t) == {<<"global", "*">>, <<"agent", "payment-execution">>,
             <<"tool", "create-ledger-entry">>, Session(t)}

Stopped(t, entries, answers) == answers /\ Stops(t) \cap entries # {}

\* What payment_execution finds in status().
Frozen(t) ==
    \/ InForce(<<"global", "*">>)
    \/ InForce(<<"agent", "payment-execution">>)
    \/ InForce(Session(t))
    \/ InForce(<<"tool", "create-ledger-entry">>)

-----------------------------------------------------------------------------
(* How an execution moves through the graph *)

Goto(e, place) == at' = [at EXCEPT ![e] = place]

\* A node returns state s: LangGraph saves a checkpoint and goes on to next.
FinishNode(e, s, next) ==
    /\ st' = [st EXCEPT ![e] = s]
    /\ saved' = [saved EXCEPT ![thread[e]] = [state |-> s, next |-> next]]
    /\ Goto(e, IF next = "end" THEN "ending" ELSE next)

\* The request is answered and what it had in memory is gone.
EndRequest(e, answer) ==
    /\ Goto(e, "done")
    /\ reply' = [reply EXCEPT ![e] = answer]
    /\ st' = [st EXCEPT ![e] = Blank]
    /\ verdict' = [verdict EXCEPT ![e] = "none"]
    /\ clear' = [clear EXCEPT ![e] = FALSE]

InFlight(e) == at[e] \notin {"idle", "done"}

Approve(e, by) ==
    approvals' = approvals \cup
        {[thread |-> thread[e], amount |-> st[e].amount, firstSeen |-> st[e].firstSeen, by |-> by]}

\* ensure_not_halted: a 423.
Refuse(e) ==
    /\ at[e] = "idle"
    /\ InForce(Session(thread[e]))
    /\ EndRequest(e, "halted")
    /\ UNCHANGED <<cpVars, thread, saved, posted, payer, approvals>>

\* POST /runs: the initial state overwrites its own keys of the newest
\* checkpoint, requires_human is not one of them.
Start(e) ==
    LET s == [saved[thread[e]].state EXCEPT !.task = "submitted"]
    IN /\ e \in Starters
       /\ at[e] = "idle"
       /\ ~InForce(Session(thread[e]))
       /\ FinishNode(e, s, "extraction")
       /\ UNCHANGED <<cpVars, thread, verdict, reply, posted, payer, approvals, clear>>

\* POST /runs/{id}/resume: whatever node the newest checkpoint has next is
\* run, also one that another execution is in, or that died.
Resume(e, decision) ==
    LET from == saved[thread[e]]
    IN /\ e \notin Starters
       /\ at[e] = "idle"
       /\ ~InForce(Session(thread[e]))
       /\ from.next # "none"
       /\ st' = [st EXCEPT ![e] = from.state]
       /\ Goto(e, IF from.next = "end" THEN "ending" ELSE from.next)
       /\ verdict' = [verdict EXCEPT ![e] = IF from.next = "human_review" THEN decision ELSE @]
       /\ UNCHANGED <<cpVars, thread, reply, saved, posted, payer, approvals, clear>>

Working == [extraction |-> "extracting", risk_scoring |-> "scoring",
            approval |-> "approving", payment_execution |-> "authorizing"]

\* An agent's node begins with its heartbeat.
Enter(e) ==
    /\ at[e] \in DOMAIN Working
    /\ Heartbeat(thread[e])
    /\ Goto(e, Working[at[e]])
    /\ UNCHANGED <<halts, paused, suspects, up, thread, st, verdict, reply, saved, posted,
                   payer, approvals, clear>>

FinishExtraction(e) ==
    /\ at[e] = "extracting"
    /\ \/ FinishNode(e, [st[e] EXCEPT !.task = "failed", !.human = TRUE], "end")
       \/ \E a \in Amounts \cup {0} :
            FinishNode(e, [st[e] EXCEPT !.task = "extracted", !.amount = a], "risk_scoring")
    /\ UNCHANGED <<cpVars, thread, verdict, reply, posted, payer, approvals, clear>>

\* A high risk asks for a human, if policy-service lets it flag the payment.
FinishRisk(e) ==
    /\ at[e] = "scoring"
    /\ \E first \in Firsts, flagged \in BOOLEAN :
          LET s == [st[e] EXCEPT !.task = "risk_scored", !.firstSeen = first,
                                 !.human = @ \/ flagged]
          IN /\ flagged => MayAllow(Ask("risk-scoring", "read-and-flag", "FlagForReview", s))
             /\ FinishNode(e, s, IF s.human THEN "human_review" ELSE "approval")
    /\ UNCHANGED <<cpVars, thread, verdict, reply, posted, payer, approvals, clear>>

\* Deviation: a task_state that nobody else knows.
EscalateUnnamed(e) ==
    /\ at[e] = "approving"
    /\ FinishNode(e, [st[e] EXCEPT !.task = "pending_review", !.human = TRUE], "human_review")
    /\ UNCHANGED <<cpVars, thread, verdict, reply, posted, payer, approvals, clear>>

\* Low confidence, an escalation, a critic who disagrees, or a denial.
Escalate(e) ==
    /\ at[e] = "approving"
    /\ FinishNode(e, [st[e] EXCEPT !.task = "pending_human", !.human = TRUE], "human_review")
    /\ UNCHANGED <<cpVars, thread, verdict, reply, posted, payer, approvals, clear>>

AgentRejects(e) ==
    /\ at[e] = "approving"
    /\ FinishNode(e, [st[e] EXCEPT !.task = "rejected", !.human = FALSE], "end")
    /\ UNCHANGED <<cpVars, thread, verdict, reply, posted, payer, approvals, clear>>

AgentApproves(e) ==
    /\ at[e] = "approving"
    /\ MayAllow(Ask("approval", "read-and-flag", "ApprovePayment", st[e]))
    /\ Approve(e, Nobody)
    /\ FinishNode(e, [st[e] EXCEPT !.task = "approved"],
                  IF st[e].human THEN "human_review" ELSE "payment_execution")
    /\ UNCHANGED <<cpVars, thread, verdict, reply, posted, payer, clear>>

-----------------------------------------------------------------------------
(* human_review: run again from its start when it is resumed *)

Park(e) ==
    /\ at[e] = "human_review"
    /\ Pause(thread[e])
    /\ IF verdict[e] = "none"
       THEN EndRequest(e, st[e].task)
       ELSE Goto(e, "unpausing") /\ UNCHANGED <<st, verdict, reply, clear>>
    /\ UNCHANGED <<halts, seen, suspects, up, thread, saved, posted, payer, approvals>>

Unpark(e) ==
    /\ at[e] = "unpausing"
    /\ Unpause(thread[e])
    /\ Goto(e, "deciding")
    /\ UNCHANGED <<halts, seen, suspects, up, thread, st, verdict, reply, saved, posted, payer,
                   approvals, clear>>

\* Deviation: any answer of a human lets the run go on.
DecideAnything(e) ==
    /\ at[e] = "deciding"
    /\ IF verdict[e] = "approve" THEN Approve(e, e) ELSE UNCHANGED approvals
    /\ FinishNode(e, st[e], "payment_execution")
    /\ UNCHANGED <<cpVars, thread, verdict, reply, posted, payer, clear>>

\* The human's decision is state; the task_state that route_after_human sets
\* is not, LangGraph hands a routing function a copy.
Decide(e) ==
    /\ at[e] = "deciding"
    /\ IF verdict[e] = "approve"
       THEN Approve(e, e) /\ FinishNode(e, st[e], "payment_execution")
       ELSE UNCHANGED approvals /\ FinishNode(e, st[e], "end")
    /\ UNCHANGED <<cpVars, thread, verdict, reply, posted, payer, clear>>

-----------------------------------------------------------------------------
(* payment_execution *)

Block(e) ==
    /\ FinishNode(e, [st[e] EXCEPT !.task = "blocked"], "end")
    /\ UNCHANGED <<cpVars, thread, verdict, reply, posted, payer, approvals, clear>>

\* The next step of the node, with nothing written but the place.
Proceed(e, place) ==
    /\ Goto(e, place)
    /\ UNCHANGED <<cpVars, thread, st, verdict, reply, saved, posted, payer, approvals>>

AuthorizePayment(e) ==
    /\ at[e] = "authorizing"
    /\ \/ Block(e)
       \/ /\ MayAllow(Ask("payment-execution", "write-ledger", "CreateLedgerEntry", st[e]))
          /\ Proceed(e, "dry_running")
          /\ UNCHANGED clear

DryRun(e) ==
    /\ at[e] = "dry_running"
    /\ \/ Block(e)
       \/ Proceed(e, "holding") /\ UNCHANGED clear

\* SETTLEMENT_HOLD_SECONDS have passed.
EndHold(e) ==
    /\ at[e] = "holding"
    /\ Proceed(e, "rechecking")
    /\ clear' = [clear EXCEPT ![e] = ~Stopped(thread[e], halts, up)]

\* Deviation: what authorize said before the hold is trusted after it.
RecheckSkipped(e) ==
    /\ at[e] = "rechecking"
    /\ Proceed(e, "committing")
    /\ UNCHANGED clear

\* Deviation: the hold goes on for as long as the payment is frozen.
RecheckWaiting(e) ==
    /\ at[e] = "rechecking"
    /\ ~Frozen(thread[e])
    /\ Proceed(e, "committing")
    /\ UNCHANGED clear

\* After the hold the kill switch is read again.
Recheck(e) ==
    /\ at[e] = "rechecking"
    /\ IF Frozen(thread[e])
       THEN Block(e)
       ELSE Proceed(e, "committing") /\ UNCHANGED clear

\* The ledger posts a key once and answers 409 afterwards.
Commit(e) ==
    /\ at[e] = "committing"
    /\ IF posted[thread[e]] # -1
       THEN Block(e)
       ELSE /\ posted' = [posted EXCEPT ![thread[e]] = st[e].amount]
            /\ payer' = [payer EXCEPT ![thread[e]] = e]
            /\ Goto(e, "recording")
            /\ UNCHANGED <<cpVars, thread, st, verdict, reply, saved, approvals, clear>>

\* Deviation: record_vendor_payment fails closed.
SettleOrBlock(e) ==
    /\ at[e] = "recording"
    /\ \/ Block(e)
       \/ /\ FinishNode(e, [st[e] EXCEPT !.task = "settled"], "end")
          /\ UNCHANGED <<cpVars, thread, verdict, reply, posted, payer, approvals, clear>>

\* record_vendor_payment fails open, the payment is settled either way.
Settle(e) ==
    /\ at[e] = "recording"
    /\ FinishNode(e, [st[e] EXCEPT !.task = "settled"], "end")
    /\ UNCHANGED <<cpVars, thread, verdict, reply, posted, payer, approvals, clear>>

\* Deviation: only settled runs are paused.
ReturnPausingSettled(e) ==
    /\ at[e] = "ending"
    /\ IF st[e].task = "settled" THEN Pause(thread[e]) ELSE UNCHANGED paused
    /\ EndRequest(e, st[e].task)
    /\ UNCHANGED <<halts, seen, suspects, up, thread, saved, posted, payer, approvals>>

\* _pause_if_terminal, then the answer.
Return(e) ==
    /\ at[e] = "ending"
    /\ IF st[e].task \in Terminal THEN Pause(thread[e]) ELSE UNCHANGED paused
    /\ EndRequest(e, st[e].task)
    /\ UNCHANGED <<halts, seen, suspects, up, thread, saved, posted, payer, approvals>>

\* A model, the ledger or the checkpointer raises, an answer is lost, or the
\* process dies: the caller sees an error.
Fail(e) ==
    /\ InFlight(e)
    /\ EndRequest(e, "error")
    /\ UNCHANGED <<cpVars, thread, saved, posted, payer, approvals>>

-----------------------------------------------------------------------------
Run(e) ==
    \/ Enter(e)
    \/ FinishExtraction(e)
    \/ FinishRisk(e)
    \/ Escalate(e)
    \/ AgentRejects(e)
    \/ AgentApproves(e)
    \/ Park(e)
    \/ Unpark(e)
    \/ Decide(e)
    \/ AuthorizePayment(e)
    \/ DryRun(e)
    \/ EndHold(e)
    \/ Recheck(e)
    \/ Commit(e)
    \/ Settle(e)
    \/ Return(e)

Request(e) ==
    \/ Refuse(e)
    \/ Start(e)
    \/ \E decision \in {"approve", "reject"} : Resume(e, decision)

Control ==
    \/ Watch
    \/ \E t \in Threads : FallSilent(t)
    \/ \E entry \in Entries : Trip(entry) \/ Reset(entry)
    \/ Partition
    \/ Restart

\* control-plane moves; clear remembers the moments without a halt.
ControlStep ==
    /\ Control
    /\ clear' = [e \in Executions |->
                   clear[e] \/ (at[e] = "rechecking" /\ ~Stopped(thread[e], halts', up'))]
    /\ UNCHANGED <<at, thread, st, verdict, reply, saved, posted, payer, approvals>>

\* Nobody is waiting for an answer.
Quiet == (\A e \in Executions : ~InFlight(e)) /\ UNCHANGED vars

Next ==
    \/ \E e \in Executions : Request(e) \/ Run(e) \/ Fail(e)
    \/ ControlStep
    \/ Quiet

Spec == Init /\ [][Next]_vars

\* Threads that can run do, calls to models and services time out, the hold
\* ends, time passes and the watchdog loops.  Nobody need send a request.
Fairness ==
    /\ \A e \in Executions : WF_vars(Run(e))
    /\ \A t \in Threads : WF_vars(ControlStep /\ FallSilent(t))
    /\ \A t \in Threads : WF_vars(ControlStep /\ HaltSuspect(t))
    /\ WF_vars(ControlStep /\ Select)

FairSpec == Spec /\ Fairness

-----------------------------------------------------------------------------
(* Properties *)

\* Nothing is executing on t.
Idle(t) == \A e \in Executions : thread[e] = t => ~InFlight(e)

\* The approvals of what was posted for t.
Backing(t) == {a \in approvals : a.thread = t /\ a.amount = posted[t]}

(***************************************************************************)
(* No path around the approval: whatever was posted for an invoice was     *)
(* approved with this very amount, by a human or, if it is routine and the *)
(* vendor known, by the agent; although runs are started again, resumed    *)
(* twice, resumed at the node another execution is in, or die half-way,    *)
(* and state of an earlier run lives on in the checkpoint.                 *)
(***************************************************************************)
PaidAsApproved ==
    \A t \in Threads : posted[t] # -1 =>
        \E a \in Backing(t) :
            a.by = Nobody => Rounded(a.amount) <= 5000 /\ ~a.firstSeen

\* "a trip during the hold blocks it": whenever in the hold the halt came,
\* nothing is posted by an execution that is stopped when its hold is over and
\* until it has asked control-plane again, if that answers.  A halt that is
\* reset, lost by a restart or first seen after the answer stops nothing.
HaltBlocksSettlement ==
    [][\A t \in Threads : payer'[t] # payer[t] => clear[payer'[t]]]_vars

\* What the caller is told of the money is true: settled only what is posted,
\* and no other answer but an error from the execution that posted it.
OutcomeTruthful ==
    /\ \A t \in Threads : saved[t].state.task = "settled" => posted[t] # -1
    /\ \A e \in Executions :
          /\ reply[e] = "settled" => posted[thread[e]] # -1
          /\ payer[thread[e]] = e => reply[e] \in {"none", "settled", "error"}

\* The graph is through with t, without an error on the way.
Finished(t) ==
    /\ Idle(t)
    /\ saved[t].next = "end"
    /\ \A e \in Executions : thread[e] = t => reply[e] # "error"

\* A finished run is out of the watchdog's sight, also when executions of the
\* same thread paused and unpaused it in turn.  This is what
\* _pause_if_terminal is for; it holds for the terminal task states.
TerminalRunPaused ==
    \A t \in Threads : Finished(t) /\ saved[t].state.task \in Terminal => t \in paused

\* The same for every finished run, as the comment on _pause_if_terminal has
\* it: the watchdog does not take a run that is done for one gone silent.
FinishedRunNotSuspected ==
    [][\A t \in Threads : Finished(t) /\ t \notin suspects => t \notin suspects']_vars

\* A first-seen vendor is paid only after two human approvals (policy 02).
FirstSeenDualApproval ==
    \A t \in Threads :
        (posted[t] # -1 /\ \A a \in Backing(t) : a.firstSeen) =>
            Cardinality({a \in Backing(t) : a.by # Nobody}) >= 2

\* Every request is answered.
EveryRequestReturns == \A e \in Executions : InFlight(e) ~> at[e] = "done"

\* Nobody works on t and nobody said that this is in order.
Abandoned(t) == Idle(t) /\ seen[t] # "none" /\ t \notin paused

\* A run that was abandoned, for one because its process died in the middle
\* of a node, is halted or taken up again.
AbandonedRunHalted ==
    \A t \in Threads : Abandoned(t) ~> (Session(t) \in halts \/ ~Abandoned(t))

(***************************************************************************)
(* The inductive invariant behind PaidAsApproved, HaltBlocksSettlement and *)
(* OutcomeTruthful.  Whoever is on the way to the payment, and whoever a   *)
(* checkpoint would send there, has an approval of the amount it carries;  *)
(* between its hold and its commit it saw a moment without a halt; who     *)
(* posted settles.                                                         *)
(***************************************************************************)
Backed(t, amount) ==
    \E a \in approvals :
        /\ a.thread = t
        /\ a.amount = amount
        /\ a.by = Nobody => Rounded(a.amount) <= 5000 /\ ~a.firstSeen

Paying == {"payment_execution", "authorizing", "dry_running", "holding", "rechecking",
           "committing"}

CopiesBacked == \A e \in Executions : at[e] \in Paying => Backed(thread[e], st[e].amount)

CheckpointsBacked ==
    \A t \in Threads : saved[t].next = "payment_execution" => Backed(t, saved[t].state.amount)

PostedBacked == \A t \in Threads : posted[t] # -1 => Backed(t, posted[t])

HoldsCleared ==
    \A e \in Executions :
        /\ at[e] = "rechecking" => clear[e] \/ Stopped(thread[e], halts, up)
        /\ at[e] = "committing" => clear[e]

SettledIsPosted ==
    \A e \in Executions : st[e].task = "settled" \/ at[e] = "recording" => posted[thread[e]] # -1

PayerSettles ==
    \A e \in Executions :
        /\ at[e] # "done" => reply[e] = "none"
        /\ payer[thread[e]] = e => at[e] \in {"recording", "ending", "done"}
        /\ payer[thread[e]] = e /\ at[e] = "ending" => st[e].task = "settled"

RunInv ==
    /\ TypeOK
    /\ CopiesBacked
    /\ CheckpointsBacked
    /\ PostedBacked
    /\ HoldsCleared
    /\ SettledIsPosted
    /\ PayerSettles
    /\ OutcomeTruthful

(***************************************************************************)
(* What TerminalRunPaused rests on while control-plane answers: a thread   *)
(* whose newest checkpoint is an end in a terminal state is paused, or     *)
(* somebody in flight will pause it or write a newer checkpoint, or a      *)
(* request failed.  Who takes a pause back has still to write its own.     *)
(***************************************************************************)
PauseComing(t) ==
    \E e \in Executions :
        /\ thread[e] = t
        /\ \/ at[e] = "deciding"
           \/ at[e] = "ending" /\ st[e].task \in Terminal
           \/ reply[e] = "error"

EndsPaused ==
    /\ up
    /\ \A t \in Threads :
          saved[t].next = "end" /\ saved[t].state.task \in Terminal =>
              t \in paused \/ PauseComing(t)
=============================================================================
