---------------------------- MODULE ControlPlane ----------------------------
(***************************************************************************)
(* services/control-plane: the kill switch and the heartbeat watchdog.     *)
(* The kill switch is memory of the process, heartbeats and paused threads *)
(* are tables.  A watchdog tick selects the silent threads in one query    *)
(* and halts them one after another, with a call to the audit log between  *)
(* them, while requests go on.  The checks for repeated denials and for    *)
(* the canary vendor trip entries like an operator does: see Trip.         *)
(***************************************************************************)
CONSTANTS
    Threads,    \* invoice runs, named by their invoice
    Entries,    \* the <<scope, target>> entries that get tripped
    Silence,    \* a run may be silent for HEARTBEAT_STALE_SECONDS
    Outages     \* control-plane may be unreachable or restart

ASSUME FaultAssumption == Silence \in BOOLEAN /\ Outages \in BOOLEAN

VARIABLES
    halts,      \* state: the kill-switch entries in force
    paused,     \* paused_threads
    seen,       \* heartbeats: the newest one of each thread, whoever sent it
    suspects,   \* what is left of the watchdog's query result
    up          \* control-plane answers

cpVars == <<halts, paused, seen, suspects, up>>

Ages == {"none", "fresh", "stale"}

Session(t) == <<"session", t>>

CPTypeOK ==
    /\ halts \subseteq Entries \cup {Session(t) : t \in Threads}
    /\ paused \subseteq Threads
    /\ seen \in [Threads -> Ages]
    /\ suspects \subseteq Threads
    /\ up \in BOOLEAN

CPInit ==
    /\ halts = {}
    /\ paused = {}
    /\ seen = [t \in Threads |-> "none"]
    /\ suspects = {}
    /\ up = TRUE

-----------------------------------------------------------------------------
(* Calls that runs make; a call that is not answered changes nothing. *)

Heartbeat(t) == seen' = IF up THEN [seen EXCEPT ![t] = "fresh"] ELSE seen

Pause(t) == paused' = IF up THEN paused \cup {t} ELSE paused

Unpause(t) == paused' = IF up THEN paused \ {t} ELSE paused

\* status(), as its readers see it: unreachable is all-clear.
InForce(entry) == up /\ entry \in halts

-----------------------------------------------------------------------------
(* What control-plane does by itself, and what happens to it. *)

\* HEARTBEAT_STALE_SECONDS have passed since the newest heartbeat of t.
FallSilent(t) ==
    /\ Silence
    /\ seen[t] = "fresh"
    /\ seen' = [seen EXCEPT ![t] = "stale"]
    /\ UNCHANGED <<halts, paused, suspects, up>>

\* Deviation: the threads that are parked are the ones selected.
SelectParked ==
    /\ suspects = {}
    /\ suspects' = {t \in paused : seen[t] = "stale"}
    /\ suspects' # {}
    /\ UNCHANGED <<halts, paused, seen, up>>

\* _check_stale_heartbeats: the query.
Select ==
    /\ suspects = {}
    /\ suspects' = {t \in Threads \ paused : seen[t] = "stale"}
    /\ suspects' # {}
    /\ UNCHANGED <<halts, paused, seen, up>>

\* _check_stale_heartbeats: one round of the loop over its result.
HaltSuspect(t) ==
    /\ t \in suspects
    /\ suspects' = suspects \ {t}
    /\ halts' = halts \cup {Session(t)}
    /\ UNCHANGED <<paused, seen, up>>

Trip(entry) ==
    /\ up
    /\ halts' = halts \cup {entry}
    /\ UNCHANGED <<paused, seen, suspects, up>>

Reset(entry) ==
    /\ up
    /\ halts' = halts \ {entry}
    /\ UNCHANGED <<paused, seen, suspects, up>>

\* The network fails or heals; the process lives on and its watchdog too.
Partition ==
    /\ Outages
    /\ up' = ~up
    /\ UNCHANGED <<halts, paused, seen, suspects>>

\* The kill switch is not persisted.
Restart ==
    /\ Outages
    /\ halts' = {}
    /\ suspects' = {}
    /\ UNCHANGED <<paused, seen, up>>

Watch == Select \/ \E t \in Threads : HaltSuspect(t)
=============================================================================
