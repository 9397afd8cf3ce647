----------------------------- MODULE DenialWatch -----------------------------
(***************************************************************************)
(* The two checks of control-plane's watchdog that read the decision log   *)
(* of policy-service: an agent with repeated denials is paused, a decision *)
(* about the canary vendor stops everything.  A tick queries, then acts on *)
(* the result row by row, while calls are decided and logged and while     *)
(* operators reset entries.  It runs the heartbeat check first, which is   *)
(* ControlPlane's, and ends with the first query that raises.  What the    *)
(* watchdog remembers between ticks, and the entries themselves, are lost  *)
(* with a restart.  The key that is to keep an agent from being paused     *)
(* twice holds the time of the query and never matches, so it is no state. *)
(***************************************************************************)
EXTENDS PolicyService, FiniteSetsExt

CONSTANTS
    DenialThreshold,    \* DENIAL_THRESHOLD
    DenialWindow,       \* DENIAL_WINDOW_MINUTES, in ticks of the clock
    CanaryVendor,       \* CANARY_VENDOR
    MaxRestarts         \* bound of the model: restarts of control-plane

\* The entries it trips are among those that may be in force.
ASSUME WatchAssumption ==
    /\ DenialThreshold \in Nat \ {0}
    /\ DenialWindow \in Nat
    /\ MaxRestarts \in Nat
    /\ <<"global", "*">> \in Halts
    /\ \A q \in Requests : <<"agent", q.principal.id>> \in Halts

VARIABLES
    stage,      \* where the tick is: at one of its queries, or after one of this module's
    offenders,  \* principals the first query returned and the loop has left
    hits,       \* rows the second query returned and the loop has left
    watermark,  \* _last_canary_check_id
    restarts,   \* restarts so far
    skipped     \* history: canary rows that a restart went past

watch == <<stage, offenders, hits, watermark, restarts, skipped>>

watchVars == <<vars, watch>>

Principals == {q.principal.id : q \in Requests}

GlobalStop == <<"global", "*">>

Pause(a) == <<"agent", a>>

WatchTypeOK ==
    /\ TypeOK
    /\ stage \in {"heartbeats", "denials", "pausing", "canary", "stopping"}
    /\ offenders \subseteq Principals
    /\ offenders # {} => stage = "pausing"
    /\ hits \subseteq DOMAIN log
    /\ hits # {} => stage = "stopping" /\ \A i \in hits : i > watermark
    /\ watermark \in 0..Len(log)
    /\ restarts \in 0..MaxRestarts
    /\ skipped \subseteq 1..Len(log)

WatchInit ==
    /\ Init
    /\ stage = "heartbeats"
    /\ offenders = {}
    /\ hits = {}
    /\ watermark = 0
    /\ restarts = 0
    /\ skipped = {}

-----------------------------------------------------------------------------
(* _watchdog_loop *)

Goto(s) ==
    /\ stage' = s
    /\ UNCHANGED <<vars, offenders, hits, watermark, restarts, skipped>>

\* _check_stale_heartbeats returns; when its query raises, the next tick tries again.
CheckHeartbeats ==
    /\ stage = "heartbeats"
    /\ Goto("denials")

\* A query raises: what is left of the tick is skipped, the next one starts from
\* the top.
QueryFails ==
    /\ stage \in {"denials", "canary"}
    /\ Goto("heartbeats")

-----------------------------------------------------------------------------
(* _check_repeated_denials *)

\* Deviation: every denial counts, however long ago it was.
DenialsEver(a) ==
    {i \in DOMAIN log : log[i].req.principal.id = a /\ log[i].decision = "Deny"}

\* decision = 'Deny' AND decided_at >= since.
Denials(a) ==
    {i \in DOMAIN log : /\ log[i].req.principal.id = a
                        /\ log[i].decision = "Deny"
                        /\ log[i].at >= clock - DenialWindow}

\* Deviation: the threshold has to be passed, not reached.
OffendersLate == {a \in Principals : Cardinality(Denials(a)) > DenialThreshold}

Offenders == {a \in Principals : Cardinality(Denials(a)) >= DenialThreshold}

QueryDenials ==
    /\ stage = "denials"
    /\ stage' = "pausing"
    /\ offenders' = Offenders
    /\ UNCHANGED <<vars, hits, watermark, restarts, skipped>>

\* One round of the loop; one that is paused already stays so.
PauseOffender ==
    /\ \E a \in offenders :
          /\ offenders' = offenders \ {a}
          /\ SwitchTo(halts \cup {Pause(a)}, reachable)
    /\ UNCHANGED <<stage, hits, watermark, restarts, skipped>>

DenialsDone ==
    /\ stage = "pausing"
    /\ offenders = {}
    /\ Goto("canary")

-----------------------------------------------------------------------------
(* _check_canary_vendor *)

CanaryRows == {i \in DOMAIN log : VendorOf(log[i].req) = CanaryVendor}

\* Deviation: only refused decisions about the canary are looked at.
CanaryRefused == {i \in CanaryRows : i > watermark /\ log[i].decision = "Deny"}

NewCanaryRows == {i \in CanaryRows : i > watermark}

QueryCanary ==
    /\ stage = "canary"
    /\ stage' = "stopping"
    /\ hits' = NewCanaryRows
    /\ UNCHANGED <<vars, offenders, watermark, restarts, skipped>>

\* Deviation: the watermark goes to the end of the log with the first hit.
StopForHitJumping ==
    /\ hits # {}
    /\ hits' = hits \ {Min(hits)}
    /\ watermark' = Len(log)
    /\ SwitchTo(halts \cup {GlobalStop}, reachable)
    /\ UNCHANGED <<stage, offenders, restarts, skipped>>

StopForHit ==
    /\ hits # {}
    /\ hits' = hits \ {Min(hits)}
    /\ watermark' = Min(hits)
    /\ SwitchTo(halts \cup {GlobalStop}, reachable)
    /\ UNCHANGED <<stage, offenders, restarts, skipped>>

CanaryDone ==
    /\ stage = "stopping"
    /\ hits = {}
    /\ Goto("heartbeats")

-----------------------------------------------------------------------------
(* The service and its operators *)

\* The switch is empty again and the watermark is the last id there is.
WatchRestart ==
    /\ restarts < MaxRestarts
    /\ restarts' = restarts + 1
    /\ Restart
    /\ stage' = "heartbeats"
    /\ offenders' = {}
    /\ hits' = {}
    /\ watermark' = Len(log)
    /\ skipped' = skipped \cup NewCanaryRows

Serve ==
    \/ \E w \in Workers : Authorize(w) \/ Handle(w)
    \/ Reset
    \/ Outage
    \/ Tick

TickOn == CheckHeartbeats \/ PauseOffender \/ DenialsDone \/ StopForHit \/ CanaryDone

WatchNext ==
    \/ Serve /\ UNCHANGED watch
    \/ TickOn
    \/ QueryDenials
    \/ QueryCanary
    \/ QueryFails
    \/ WatchRestart

\* The loop goes on for ever, and each query is answered in some of its ticks.
WatchSpec ==
    /\ WatchInit /\ [][WatchNext]_watchVars
    /\ WF_watchVars(TickOn)
    /\ SF_watchVars(QueryDenials)
    /\ SF_watchVars(QueryCanary)

-----------------------------------------------------------------------------
(* Properties *)

\* a was denied as often as the threshold in the window that ends at t.
Repeated(a, t) ==
    Cardinality({i \in DOMAIN log : /\ log[i].req.principal.id = a
                                    /\ log[i].decision = "Deny"
                                    /\ log[i].at \in (t - DenialWindow)..t}) >= DenialThreshold

(***************************************************************************)
(* The watchdog stops nobody without cause, although it acts on a query    *)
(* whose rows have aged meanwhile: a paused agent had as many denials as   *)
(* the threshold in one window, and the global stop goes back to a         *)
(* decision about the canary.                                              *)
(***************************************************************************)
HaltsJustified ==
    \A h \in halts :
        \/ h[1] = "agent" /\ \E t \in 0..clock : Repeated(h[2], t)
        \/ h = GlobalStop /\ CanaryRows # {}

\* An agent with repeated denials is paused as long as the window holds them,
\* however often operators reset it or the service restarts.
RepeatedDenialsPaused ==
    \A a \in Principals : Repeated(a, clock) ~> (Pause(a) \in halts \/ ~Repeated(a, clock))

\* A decision about the canary vendor stops everything, allowed or denied,
\* unless a restart sets the watermark past its row first.
CanaryTrips ==
    \A i \in 1..MaxDecisions :
        (i \in CanaryRows /\ i > watermark) ~> (GlobalStop \in halts \/ i \in skipped)

(***************************************************************************)
(* The inductive invariant behind HaltsJustified: no row is of the future, *)
(* whoever is still to be paused had its denials when the query ran, and   *)
(* the rows still to be acted on are the canary's.                         *)
(***************************************************************************)
LogDated == \A i \in DOMAIN log : log[i].at <= clock

Justified(a) == \E t \in 0..clock : Repeated(a, t)

OffendersJustified == \A a \in offenders : Justified(a)

WatchInv ==
    /\ PolicyInv
    /\ WatchTypeOK
    /\ LogDated
    /\ OffendersJustified
    /\ hits \subseteq CanaryRows
    /\ HaltsJustified
=============================================================================
