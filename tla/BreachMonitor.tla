--------------------------- MODULE BreachMonitor ---------------------------
(***************************************************************************)
(* The consecutive-breach state machine of watchdog/breach.py.             *)
(*                                                                         *)
(* One call of BreachMonitor.observe() is one step; there is one action    *)
(* for each way a call can end, so that a caller can attach its own effect *)
(* to each Outcome.  The verdict is abstracted to its `ok` field, the only *)
(* one the state machine reads.                                            *)
(***************************************************************************)
EXTENDS Integers

CONSTANTS breach_threshold,    \* failed checks in a row that confirm a failure
          recovery_threshold,  \* good checks in a row that close the incident
          CounterCap,          \* bound: both counters saturate here
          None                 \* Python's None

ASSUME ThresholdAssumption ==
  /\ breach_threshold \in Nat \ {0}
  /\ recovery_threshold \in Nat \ {0}

\* The counters are only ever compared with the thresholds, so saturating them
\* at or above both thresholds loses no behaviour of interest.
ASSUME CapAssumption ==
  /\ CounterCap \in Nat
  /\ CounterCap >= breach_threshold
  /\ CounterCap >= recovery_threshold

ASSUME NoneAssumption == None \notin Int

VARIABLES consecutive_failures, consecutive_successes,
          incident_open, incident_started_at

monitorVars ==
  <<consecutive_failures, consecutive_successes, incident_open, incident_started_at>>

MonitorTypeOK ==
  /\ consecutive_failures \in 0..CounterCap
  /\ consecutive_successes \in 0..CounterCap
  /\ incident_open \in BOOLEAN
  /\ incident_started_at \in Int \cup {None}

MonitorInit ==
  /\ consecutive_failures = 0
  /\ consecutive_successes = 0
  /\ incident_open = FALSE
  /\ incident_started_at = None

----------------------------------------------------------------------------
Bump(n) == IF n < CounterCap THEN n + 1 ELSE n

\* Mutants: a success that forgets to break the streak of failures, and one that
\* takes a failure off it instead, and does not stop at zero.
CountSuccess_KeepsFailures ==
  /\ consecutive_failures' = consecutive_failures
  /\ consecutive_successes' = Bump(consecutive_successes)
CountSuccess_TakesOneOff ==
  /\ consecutive_failures' = consecutive_failures - 1
  /\ consecutive_successes' = Bump(consecutive_successes)

\* Mutant: a failure that is not counted.
CountFailure_Lost ==
  /\ consecutive_successes' = 0
  /\ consecutive_failures' = consecutive_failures

CountFailure ==
  /\ consecutive_successes' = 0
  /\ consecutive_failures' = Bump(consecutive_failures)

CountSuccess ==
  /\ consecutive_failures' = 0
  /\ consecutive_successes' = Bump(consecutive_successes)

KeepIncident == UNCHANGED <<incident_open, incident_started_at>>

\* A failed check while the incident is open: no second confirmation.
FailureWhileOpen ==
  /\ incident_open
  /\ CountFailure
  /\ KeepIncident

\* A failed check under the threshold.
StillBreaching ==
  /\ ~incident_open
  /\ Bump(consecutive_failures) < breach_threshold
  /\ CountFailure
  /\ KeepIncident

\* Mutant: the latch is not set.
FailureConfirmed_NoLatch(now) ==
  /\ ~incident_open
  /\ Bump(consecutive_failures) >= breach_threshold
  /\ CountFailure
  /\ KeepIncident

\* The check that reaches the threshold latches the incident.
FailureConfirmed(now) ==
  /\ ~incident_open
  /\ Bump(consecutive_failures) >= breach_threshold
  /\ CountFailure
  /\ incident_open' = TRUE
  /\ incident_started_at' = now

\* A good check with no incident open.
StillHealthy ==
  /\ ~incident_open
  /\ CountSuccess
  /\ KeepIncident

\* A good check of an open incident, too few of them to close it.
RecoveryPending ==
  /\ incident_open
  /\ Bump(consecutive_successes) < recovery_threshold
  /\ CountSuccess
  /\ KeepIncident

\* The good check that closes the incident.
Recovered ==
  /\ incident_open
  /\ Bump(consecutive_successes) >= recovery_threshold
  /\ consecutive_failures' = 0
  /\ consecutive_successes' = 0
  /\ incident_open' = FALSE
  /\ incident_started_at' = None

\* Seconds the incident was open, reported with Recovered.
Downtime(now) ==
  IF incident_started_at = None THEN None
  ELSE IF now < incident_started_at THEN 0
  ELSE now - incident_started_at

Observe(ok, now) ==
  \/ /\ ~ok
     /\ FailureWhileOpen \/ StillBreaching \/ FailureConfirmed(now)
  \/ /\ ok
     /\ StillHealthy \/ RecoveryPending \/ Recovered
=============================================================================
