------------------------- MODULE DenialWatchProofs -------------------------
(***************************************************************************)
(* What TLAPS proves of DenialWatch, for any requests, any threshold and   *)
(* window, and any number of threads and restarts.                         *)
(***************************************************************************)
EXTENDS DenialWatch, PolicyServiceProofs, WellFoundedInduction

\* A set of rows that is not empty has a first one, which Min returns: of the
\* sets of the rows below some row of S, one has no other below it.
LEMMA MinOf ==
    ASSUME NEW n \in Nat, NEW S \in SUBSET (1..n), S # {}
    PROVE  /\ Min(S) \in S
           /\ \A y \in S : Min(S) <= y
<1> DEFINE Below(x) == {y \in S : y < x}
           Bottoms == {Below(x) : x \in S}
<1>1. IsFiniteSet(S)
  <2>1. IsFiniteSet(1..n)
    BY FS_Interval
  <2> QED
    BY <2>1, FS_Subset
<1>2. Bottoms \subseteq FiniteSubsetsOf(S) /\ Bottoms # {}
  <2>1. FiniteSubsetsOf(S) = SUBSET S
    BY <1>1, FS_FiniteSubsetsOfFinite
  <2>2. Bottoms \subseteq SUBSET S
    OBVIOUS
  <2>3. Bottoms # {}
    <3>1. PICK x \in S : TRUE
      OBVIOUS
    <3>2. Below(x) \in Bottoms
      OBVIOUS
    <3> QED
      BY <3>2
  <2> QED
    BY <2>1, <2>2, <2>3
<1>3. \E T \in Bottoms : \A U \in Bottoms : ~(<<U, T>> \in StrictSubsetOrdering(S))
  <2> HIDE DEF Bottoms
  <2> QED
    BY <1>2, FS_StrictSubsetOrderingWellFounded, WFMin
<1>4. PICK x \in S : \A y \in S : <<Below(y), Below(x)>> \notin StrictSubsetOrdering(S)
  BY <1>3
<1>5. \A y \in S : x <= y
  <2> SUFFICES ASSUME NEW y \in S, y < x PROVE FALSE
    OBVIOUS
  <2>1. Below(y) \subseteq Below(x) /\ Below(y) # Below(x)
    <3>1. y \in Below(x) /\ y \notin Below(y)
      OBVIOUS
    <3>2. \A z \in S : z < y => z < x
      OBVIOUS
    <3>3. Below(y) \subseteq Below(x)
      BY <3>2
    <3> HIDE DEF Below
    <3> QED
      BY <3>1, <3>3
  <2>2. Below(y) \in SUBSET S /\ Below(x) \in SUBSET S
    OBVIOUS
  <2> HIDE DEF Below
  <2>3. <<Below(y), Below(x)>> \in StrictSubsetOrdering(S)
    BY <2>1, <2>2 DEF StrictSubsetOrdering
  <2> QED
    BY <1>4, <2>3
<1> QED
  BY <1>5 DEF Min

\* Times are numbers.
LEMMA Dates ==
    ASSUME TypeOK
    PROVE  /\ clock \in Nat /\ MaxClock \in Nat
           /\ \A i \in DOMAIN log : log[i].at \in Nat
<1>1. clock \in Nat /\ MaxClock \in Nat
  BY LimitAssumption DEF TypeOK
<1>2. log \in Seq(Row)
  BY DEF TypeOK
<1>3. ASSUME NEW i \in DOMAIN log PROVE log[i].at \in Nat
  <2>1. log[i] \in Row
    BY <1>2, <1>3
  <2>2. log[i].at \in 0..MaxClock
    BY <2>1 DEF Row
  <2> QED
    BY <1>1, <2>2
<1> QED
  BY <1>1, <1>3

\* The log and the clock only move on.
Onward ==
    /\ \A i \in DOMAIN log : i \in DOMAIN log' /\ log'[i] = log[i]
    /\ Len(log) <= Len(log')
    /\ clock <= clock'

\* What was a repetition of denials stays one as the log grows.
LEMMA JustifiedStays ==
    ASSUME TypeOK, TypeOK', Onward, NEW a, Justified(a)
    PROVE  Justified(a)'
<1>1. PICK t \in 0..clock : Repeated(a, t)
  BY DEF Justified
<1>2. t \in 0..clock'
  BY <1>1 DEF TypeOK, Onward
<1> DEFINE rows == {i \in DOMAIN log : /\ log[i].req.principal.id = a
                                       /\ log[i].decision = "Deny"
                                       /\ log[i].at \in (t - DenialWindow)..t}
           later == {i \in DOMAIN log' : /\ log'[i].req.principal.id = a
                                         /\ log'[i].decision = "Deny"
                                         /\ log'[i].at \in (t - DenialWindow)..t}
<1>3. rows \subseteq later
  BY DEF Onward
<1>4. IsFiniteSet(later)
  <2>1. DOMAIN log' = 1..Len(log') /\ Len(log') \in Nat
    BY DEF TypeOK
  <2>2. IsFiniteSet(DOMAIN log')
    BY <2>1, FS_Interval
  <2>3. later \in SUBSET (DOMAIN log')
    OBVIOUS
  <2> HIDE DEF later
  <2> QED
    BY <2>2, <2>3, FS_Subset
<1>5. /\ Cardinality(rows) <= Cardinality(later)
      /\ Cardinality(rows) \in Nat /\ Cardinality(later) \in Nat
  <2> HIDE DEF rows, later
  <2> QED
    BY <1>3, <1>4, FS_Subset, FS_CardinalityType
<1>6. Cardinality(rows) >= DenialThreshold
  BY <1>1 DEF Repeated
<1>7. Cardinality(later) >= DenialThreshold
  <2> HIDE DEF rows, later
  <2> QED
    BY <1>5, <1>6, WatchAssumption
<1> QED
  BY <1>2, <1>7 DEF Justified, Repeated

\* Rows about the canary stay in the log.
LEMMA CanaryStays == ASSUME Onward PROVE CanaryRows \subseteq CanaryRows'
BY DEF Onward, CanaryRows

\* An entry the watchdog trips, one an operator resets and a restart keep
\* HaltsJustified.
LEMMA HaltsStay ==
    ASSUME HaltsJustified, TypeOK, TypeOK', Onward,
           \A h \in halts' : \/ h \in halts
                             \/ h = GlobalStop /\ CanaryRows # {}
                             \/ h[1] = "agent" /\ Justified(h[2])
    PROVE  HaltsJustified'
<1>1. \A h \in halts' : \/ h[1] = "agent" /\ Justified(h[2])
                        \/ h = GlobalStop /\ CanaryRows # {}
  BY DEF HaltsJustified, Justified
<1>2. \A h \in halts' : \/ h[1] = "agent" /\ Justified(h[2])'
                        \/ h = GlobalStop /\ CanaryRows' # {}
  BY <1>1, JustifiedStays, CanaryStays
<1> QED
  BY <1>2 DEF HaltsJustified, Justified, GlobalStop

\* The log is empty and the tick has not begun.
LEMMA WatchInitInv == WatchInit => WatchInv
<1> SUFFICES ASSUME WatchInit PROVE WatchInv
  OBVIOUS
<1>1. PolicyInv /\ log = <<>> /\ halts = {}
  BY InitInv DEF WatchInit, Init
<1>2. DOMAIN log = {} /\ Len(log) = 0
  BY <1>1
<1>3. WatchTypeOK
  BY <1>1, <1>2, WatchAssumption DEF WatchInit, WatchTypeOK, PolicyInv
<1> QED
  BY <1>1, <1>2, <1>3 DEF WatchInit, WatchInv, LogDated, OffendersJustified, HaltsJustified

\* The steps of the policy service and its environment.
LEMMA ServeInv == ASSUME WatchInv, Serve, UNCHANGED watch PROVE WatchInv'
<1> USE DEF WatchInv
<1>1. PolicyInv'
  BY StepInv DEF Serve, Next
<1>2. TypeOK /\ TypeOK'
  BY <1>1 DEF PolicyInv
<1>3. halts' \subseteq halts
  BY DEF Serve, Authorize, Handle, CheckRateLimit, CheckKillSwitch, Check, RecordDecision, Answer,
     Fail, Reset, Outage, SwitchTo, Tick
<1>4. /\ Onward
      /\ \A i \in DOMAIN log' : i \in DOMAIN log \/ log'[i].at = clock
  <2>1. CASE \E w \in Workers : RecordDecision(w)
    <3>1. PICK w \in Workers : RecordDecision(w)
      BY <2>1
    <3>2. /\ log' = Append(log, [req |-> req[w], decision |-> decision[w], at |-> clock])
          /\ [req |-> req[w], decision |-> decision[w], at |-> clock] \in Row
          /\ clock' = clock
      BY <1>2, <3>1 DEF RecordDecision, TypeOK, Row
    <3>3. log \in Seq(Row) /\ clock \in Nat
      BY <1>2 DEF TypeOK
    <3> QED
      BY <3>2, <3>3 DEF Onward
  <2>2. CASE ~\E w \in Workers : RecordDecision(w)
    <3>1. log' = log /\ clock' \in {clock, clock + 1}
      BY <2>2 DEF Serve, Authorize, Handle, CheckRateLimit, CheckKillSwitch, Check, Answer, Fail,
         Reset, Outage, SwitchTo, Tick
    <3>2. clock \in Nat /\ Len(log) \in Nat
      BY <1>2 DEF TypeOK
    <3> QED
      BY <3>1, <3>2 DEF Onward
  <2> QED
    BY <2>1, <2>2
<1>5. LogDated'
  <2>1. clock \in Nat /\ clock' \in Nat /\ \A i \in DOMAIN log : log[i].at \in Nat
    BY <1>2, Dates DEF TypeOK
  <2> QED
    BY <1>4, <2>1 DEF LogDated, Onward
<1>6. WatchTypeOK'
  <2>1. Len(log) \in Nat /\ Len(log') \in Nat /\ Len(log) <= Len(log') /\ DOMAIN log \subseteq DOMAIN log'
    BY <1>2, <1>4 DEF TypeOK, Onward
  <2> QED
    BY <1>2, <2>1 DEF WatchTypeOK, watch
<1>7. OffendersJustified'
  BY <1>2, <1>4, JustifiedStays DEF OffendersJustified, watch
<1>8. hits' \subseteq CanaryRows'
  BY <1>4, CanaryStays DEF watch
<1>9. HaltsJustified'
  BY <1>2, <1>3, <1>4, HaltsStay
<1> QED
  BY <1>1, <1>5, <1>6, <1>7, <1>8, <1>9

\* The query returns agents that repeat denials now.
LEMMA QueryJustified == ASSUME WatchInv, NEW a \in Offenders PROVE Justified(a)
<1>1. clock \in Nat /\ clock \in 0..clock /\ \A i \in DOMAIN log : log[i].at \in Nat
  BY Dates DEF WatchInv, PolicyInv
<1>2. \A i \in DOMAIN log :
        log[i].at >= clock - DenialWindow <=> log[i].at \in (clock - DenialWindow)..clock
  BY <1>1, WatchAssumption DEF WatchInv, LogDated
<1>3. Denials(a) = {i \in DOMAIN log : /\ log[i].req.principal.id = a
                                       /\ log[i].decision = "Deny"
                                       /\ log[i].at \in (clock - DenialWindow)..clock}
  BY <1>2 DEF Denials
<1> QED
  BY <1>1, <1>3 DEF Offenders, Repeated, Justified

\* A step of the tick that trips nothing.
LEMMA TickInv ==
    ASSUME WatchInv, UNCHANGED vars, WatchTypeOK', \A a \in offenders' : Justified(a),
           hits' \subseteq CanaryRows
    PROVE  WatchInv'
<1>1. PolicyInv'
  BY StepInv DEF WatchInv
<1>2. LogDated' /\ HaltsJustified' /\ CanaryRows' = CanaryRows
  BY DEF WatchInv, vars, LogDated, HaltsJustified, Repeated, CanaryRows
<1>3. OffendersJustified'
  BY DEF OffendersJustified, Justified, Repeated, vars
<1> QED
  BY <1>1, <1>2, <1>3 DEF WatchInv

\* A step that changes the switch.
LEMMA SwitchedInv ==
    ASSUME WatchInv, NEW hs \in SUBSET Halts, SwitchTo(hs, reachable),
           \A h \in hs : \/ h \in halts
                         \/ h = GlobalStop /\ CanaryRows # {}
                         \/ h[1] = "agent" /\ Justified(h[2]),
           TypeOK' => WatchTypeOK', offenders' \subseteq offenders, hits' \subseteq hits
    PROVE  WatchInv'
<1> USE DEF WatchInv
<1>1. PolicyInv'
  BY SwitchInv DEF PolicyInv, TypeOK
<1>2. TypeOK /\ TypeOK'
  BY <1>1 DEF PolicyInv
<1>3. UNCHANGED <<log, clock>> /\ halts' = hs
  BY DEF SwitchTo
<1>4. Onward
  BY <1>2, <1>3 DEF Onward, TypeOK
<1>5. LogDated'
  BY <1>3 DEF LogDated
<1>6. OffendersJustified'
  BY <1>2, <1>4, JustifiedStays DEF OffendersJustified
<1>7. hits' \subseteq CanaryRows'
  BY <1>4, CanaryStays
<1>8. HaltsJustified'
  BY <1>2, <1>3, <1>4, HaltsStay
<1> QED
  BY <1>1, <1>2, <1>5, <1>6, <1>7, <1>8

\* An agent of the first query is paused: it had cause then.
LEMMA PauseInv == ASSUME WatchInv, PauseOffender PROVE WatchInv'
<1>1. PICK a \in offenders : /\ offenders' = offenders \ {a}
                             /\ SwitchTo(halts \cup {Pause(a)}, reachable)
  BY DEF PauseOffender
<1>2. halts \cup {Pause(a)} \in SUBSET Halts
  BY WatchAssumption DEF WatchInv, WatchTypeOK, TypeOK, Principals, Pause
<1>3. Pause(a)[1] = "agent" /\ Justified(Pause(a)[2])
  BY DEF Pause, WatchInv, OffendersJustified
<1>4. TypeOK' => WatchTypeOK'
  BY <1>1 DEF PauseOffender, SwitchTo, WatchInv, WatchTypeOK
<1>5. hits' = hits
  BY DEF PauseOffender
<1> QED
  BY <1>1, <1>2, <1>3, <1>4, <1>5, SwitchedInv

\* A row of the second query stops everything: it is still in the log.
LEMMA StopInv == ASSUME WatchInv, StopForHit PROVE WatchInv'
<1>1. /\ hits # {} /\ hits' = hits \ {Min(hits)} /\ watermark' = Min(hits)
      /\ SwitchTo(halts \cup {GlobalStop}, reachable)
      /\ UNCHANGED <<stage, offenders, restarts, skipped>>
  BY DEF StopForHit
<1>2. halts \cup {GlobalStop} \in SUBSET Halts
  BY WatchAssumption DEF WatchInv, WatchTypeOK, TypeOK, GlobalStop
<1>3. CanaryRows # {}
  BY <1>1 DEF WatchInv
<1>4. Len(log) \in Nat /\ DOMAIN log = 1..Len(log)
  BY DEF WatchInv, WatchTypeOK, TypeOK
<1>5. Min(hits) \in hits /\ \A i \in hits : Min(hits) <= i
  BY <1>1, <1>4, MinOf DEF WatchInv, WatchTypeOK
<1>6. log' = log
  BY <1>1 DEF SwitchTo
<1>7. TypeOK' => WatchTypeOK'
  <2>1. \A i \in hits' : i > watermark'
    BY <1>1, <1>4, <1>5 DEF WatchInv, WatchTypeOK
  <2>2. watermark' \in 0..Len(log')
    BY <1>1, <1>4, <1>5, <1>6 DEF WatchInv, WatchTypeOK
  <2> QED
    BY <1>1, <1>6, <2>1, <2>2 DEF WatchInv, WatchTypeOK
<1> QED
  BY <1>1, <1>2, <1>3, <1>7, SwitchedInv

\* A restart empties the switch and moves the watermark to the newest row.
LEMMA RestartInv == ASSUME WatchInv, WatchRestart PROVE WatchInv'
<1>1. SwitchTo({}, reachable) /\ offenders' = {} /\ hits' = {}
  BY DEF WatchRestart, Restart
<1>2. TypeOK' => WatchTypeOK'
  <2>1. Len(log) \in Nat /\ DOMAIN log = 1..Len(log) /\ log' = log
    BY <1>1 DEF WatchInv, WatchTypeOK, TypeOK, SwitchTo
  <2>2. NewCanaryRows \subseteq 1..Len(log)
    BY <2>1 DEF NewCanaryRows, CanaryRows
  <2> QED
    BY <1>1, <2>1, <2>2, WatchAssumption DEF WatchRestart, WatchInv, WatchTypeOK
<1> QED
  BY <1>1, <1>2, SwitchedInv

\* Every step of policy-service and watchdog keeps the invariant.
LEMMA WatchStepInv == WatchInv /\ [WatchNext]_watchVars => WatchInv'
<1> SUFFICES ASSUME WatchInv, [WatchNext]_watchVars PROVE WatchInv'
  OBVIOUS
<1>w. /\ WatchTypeOK /\ hits \subseteq CanaryRows
      /\ \A a \in offenders : Justified(a)
  BY DEF WatchInv, OffendersJustified
<1>u. UNCHANGED vars => TypeOK'
  BY StepInv DEF WatchInv, PolicyInv
<1>1. CASE Serve /\ UNCHANGED watch
  BY <1>1, ServeInv
<1>2. CASE QueryDenials
  <2>1. WatchTypeOK'
    BY <1>2, <1>u, <1>w DEF QueryDenials, WatchTypeOK, Offenders, vars
  <2> QED
    BY <1>2, <1>w, <2>1, QueryJustified, TickInv DEF QueryDenials
<1>3. CASE PauseOffender
  BY <1>3, PauseInv
<1>4. CASE CheckHeartbeats \/ DenialsDone \/ CanaryDone \/ QueryFails
  <2> USE DEF CheckHeartbeats, DenialsDone, CanaryDone, QueryFails, Goto
  <2>1. WatchTypeOK'
    BY <1>4, <1>u, <1>w DEF WatchTypeOK, vars
  <2> QED
    BY <1>4, <1>w, <2>1, TickInv
<1>5. CASE QueryCanary
  <2>1. WatchTypeOK'
    BY <1>5, <1>u, <1>w DEF QueryCanary, WatchTypeOK, NewCanaryRows, CanaryRows, vars
  <2> QED
    BY <1>5, <1>w, <2>1, TickInv DEF QueryCanary, NewCanaryRows
<1>6. CASE StopForHit
  BY <1>6, StopInv
<1>7. CASE WatchRestart
  BY <1>7, RestartInv
<1>8. CASE UNCHANGED watchVars
  <2>1. WatchTypeOK'
    BY <1>8, <1>u, <1>w DEF watchVars, watch, WatchTypeOK, vars
  <2> QED
    BY <1>8, <1>w, <2>1, TickInv DEF watchVars, watch
<1> QED
  BY <1>1, <1>2, <1>3, <1>4, <1>5, <1>6, <1>7, <1>8 DEF WatchNext, TickOn

\* The strengthened invariant holds in every reachable state.
THEOREM WatchInvariance == WatchSpec => []WatchInv
BY WatchInitInv, WatchStepInv, PTL DEF WatchSpec

\* The types hold in every reachable state; in particular the watermark is never
\* past the log, nor behind a row that is still to be acted on.
THEOREM WatchTypeCorrect == WatchSpec => []WatchTypeOK
BY WatchInvariance, PTL DEF WatchInv

\* _check_repeated_denials and _check_canary_vendor stop nobody without cause,
\* however long the rows of their queries have aged.
THEOREM HaltsHaveCause == WatchSpec => []HaltsJustified
BY WatchInvariance, PTL DEF WatchInv
=============================================================================
