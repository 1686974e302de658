----------------------------- MODULE Pulsecheck -----------------------------
(***************************************************************************)
(* The feed service and the watchdog that polls and restarts it, together. *)
(* Watchdog leaves its target free to fail and to come back; here the      *)
(* target is FeedService: the container runs as long as the process does   *)
(* (no restart policy in docker-compose.yml), and /health answers 200 when *)
(* startup is over and a fresh connection to both servers succeeds.        *)
(* A watchdog restart begins startup anew, whatever the service was at.    *)
(*                                                                         *)
(* pc, vars, Init, Next and Spec are those of FeedService.                 *)
(***************************************************************************)
EXTENDS FeedService, FiniteSets

CONSTANTS breach_threshold, recovery_threshold, CounterCap, None,
          DryRunModes, slack_enabled, MaxFaults, MaxLogRows, MaxCrashes,
          MaxOutages,    \* bound: times a server goes down
          MaxKills,      \* bound: times the feed process is killed
          MaxRestartErrs,\* bound: restarts that raise
          MaxTroubles    \* bound: all of these and deaths of the watchdog together

ASSUME BoundAssumption ==
  /\ MaxFaults \in Nat /\ MaxOutages \in Nat /\ MaxKills \in Nat
  /\ MaxRestartErrs \in Nat /\ MaxTroubles \in Nat

VARIABLES
  \* of Watchdog; watchdog_pc is its pc
  consecutive_failures, consecutive_successes, incident_open, incident_started_at,
  rows, watchdog_pc, dry_run, verdict, incident_id, action_taken, docker, faults, crashes,
  open_id, attempts, restarted, posts,
  outages, kills

\* Mutant: servers that answer are taken for a service that does.
HealthOk_ServersOnly == pg_up /\ redis_up

\* GET /health (main.py): refused until the lifespan's startup is done, then
\* a fresh ping of each server.
HealthOk == Serving /\ pg_up /\ redis_up

Dog == INSTANCE Watchdog WITH
  pc <- watchdog_pc,
  container <- IF Exited THEN "stopped" ELSE "running",
  health <- HealthOk

dogOwnVars ==
  <<consecutive_failures, consecutive_successes, incident_open, incident_started_at,
    rows, watchdog_pc, dry_run, verdict, incident_id, action_taken, docker, crashes,
    open_id, attempts, restarted, posts>>
systemVars == <<vars, dogOwnVars, faults, outages, kills>>

SystemInit == Init /\ Dog!Init /\ outages = 0 /\ kills = 0

----------------------------------------------------------------------------
FailedRestarts == Len(attempts) - Cardinality(restarted)
MoreTrouble == outages + kills + crashes + FailedRestarts < MaxTroubles

\* What the watchdog takes for a fault: /health fails, or the container exits.
NoteFault ==
  faults' = IF (HealthOk /\ ~HealthOk') \/ (~Exited /\ Exited')
            THEN faults + 1 ELSE faults

FeedRuns == ServiceStep /\ NoteFault /\ UNCHANGED <<dogOwnVars, outages, kills>>

ServerDown ==
  /\ MoreTrouble /\ outages < MaxOutages /\ outages' = outages + 1
  /\ PgDown \/ RedisDown
  /\ NoteFault
  /\ UNCHANGED <<dogOwnVars, kills>>

ServerRecovers ==
  /\ PgUp \/ RedisUp \/ ConnectionDropped
  /\ UNCHANGED <<dogOwnVars, faults, outages, kills>>

Kill ==
  /\ MoreTrouble /\ kills < MaxKills /\ kills' = kills + 1
  /\ Exit
  /\ NoteFault
  /\ UNCHANGED <<dogOwnVars, outages>>

\* What the watchdog does without touching its target.
DogWatches ==
  /\ UNCHANGED <<vars, outages, kills>>
  /\ \/ Dog!ContainerCheck \/ Dog!HealthCheck
     \/ Dog!ObserveQuietly \/ Dog!ObserveFailureConfirmed \/ Dog!ObserveRecovered
     \/ Dog!OpenRow \/ Dog!RecordAction \/ Dog!IncidentAlert
     \/ Dog!SelectOpen \/ Dog!ResolveRow \/ Dog!RecoveryAlert

\* container.restart(): a new process, after the old one was ended.
DogRestarts ==
  /\ Restart
  /\ Dog!RestartSucceeds
  /\ UNCHANGED <<outages, kills>>

\* It raises after Docker did nothing, the stop, or all of it.
DogRestartErrs ==
  /\ MoreTrouble /\ FailedRestarts < MaxRestartErrs
  /\ Restart \/ Exit \/ UNCHANGED vars
  /\ Dog!RestartErrs
  /\ UNCHANGED <<outages, kills>>

DogRuns == DogWatches \/ DogRestarts \/ DogRestartErrs

DogDies ==
  /\ UNCHANGED <<vars, outages, kills>>
  /\ (MoreTrouble /\ Dog!Crash) \/ Dog!Start

SystemNext ==
  \/ FeedRuns \/ DogRuns
  \/ ServerDown \/ ServerRecovers \/ Kill \/ DogDies

SystemSpec == SystemInit /\ [][SystemNext]_systemVars

\* Both processes keep running (FeedService and Watchdog say why); nothing is
\* assumed of the servers.
SystemFairSpec == SystemSpec /\ WF_systemVars(FeedRuns) /\ WF_systemVars(DogRuns)

----------------------------------------------------------------------------
\* What Watchdog leaves to its target is no less than what the feed service
\* does: every step of the two together is a step of Watchdog, so that what is
\* proved of Watchdog for any target holds for this one.
IsWatchdog == Dog!Spec

\* A killed container is up and healthy again with its incident closed, and
\* with nobody's help, wherever in its startup or in a write the kill hit it
\* (README.md:164: "disappears, then reappears seconds later"), as long as no
\* earlier incident is open, whose one restart would be spent
\* (breach.py:156-160), and neither the servers nor the watchdog nor Docker
\* fail as well.
Undisturbed == pg_up /\ redis_up /\ crashes = 0 /\ FailedRestarts = 0
KillIsRecovered ==
  []Undisturbed =>
    (pc = "killed" /\ ~incident_open ~> HealthOk /\ ~incident_open /\ Dog!OpenRows = {})

\* "app self-heals via backoff; no restart needed" (README.md:142), with the
\* watchdog running: once the servers are back for good, so is the service.
OutageSelfHeals == <>[](pg_up /\ redis_up) => <>[]HealthOk
=============================================================================
