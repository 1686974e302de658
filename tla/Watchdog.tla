------------------------------ MODULE Watchdog ------------------------------
(***************************************************************************)
(* The watchdog process (watchdog/__main__.py, probes.py, notify.py) at    *)
(* work on the feed-service container, beside the log-watcher's writes to  *)
(* the shared incident table, faults of the target and of Docker, and      *)
(* deaths of the watchdog itself.                                          *)
(*                                                                         *)
(* The process is one loop; a step ends at each call that leaves it (a     *)
(* probe, the restart, a committed SQL statement, the alert), since the    *)
(* world may change, or the process die, between any two of them.  The     *)
(* sleep between polls is such a point too and needs no step of its own.   *)
(* The breach state machine is BreachMonitor; its clock is left out here.  *)
(***************************************************************************)
EXTENDS BreachMonitor, IncidentLog, FiniteSets

CONSTANTS DryRunModes,  \* how --dry-run may be given at each start
          slack_enabled,\* SLACK_WEBHOOK_URL is set
          MaxFaults,    \* bound: faults of the target, of Docker, of a restart
          MaxLogRows,   \* bound: rows the log-watcher opens
          MaxCrashes    \* bound: deaths of the watchdog process

ASSUME ModeAssumption ==
  /\ DryRunModes \subseteq BOOLEAN
  /\ DryRunModes # {}
  /\ slack_enabled \in BOOLEAN
ASSUME BoundAssumption == MaxFaults \in Nat /\ MaxLogRows \in Nat /\ MaxCrashes \in Nat

VARIABLES
  pc,            \* where the loop stands
  dry_run,       \* args.dry_run of the running process
  verdict,       \* what the last poll found
  incident_id,   \* local of the two handlers
  action_taken,  \* local of _handle_confirmed_failure
  container,     \* what Docker says of the container
  health,        \* GET /health would answer 200 within its timeout
  docker,        \* the Docker daemon answers
  faults, crashes,
  open_id,       \* history: the row opened for the incident now latched
  attempts,      \* history: the row of each restart issued, in order
  restarted,     \* history: the rows whose restart returned normally
  posts          \* history: the messages POSTed to Slack, delivered or not

processVars == <<pc, dry_run, verdict, incident_id, action_taken>>
targetVars == <<container, health, docker>>
historyVars == <<open_id, attempts, restarted, posts>>
vars == <<monitorVars, rows, processVars, targetVars, faults, crashes, historyVars>>

Running == pc # "stopped"

Init ==
  /\ MonitorInit
  /\ rows = <<>>
  /\ pc = "container_check"
  /\ dry_run \in DryRunModes
  /\ verdict = None /\ incident_id = None /\ action_taken = None
  /\ container = "running" /\ health \in BOOLEAN /\ docker = TRUE
  /\ faults = 0 /\ crashes = 0
  /\ open_id = None /\ attempts = <<>> /\ restarted = {} /\ posts = <<>>

----------------------------------------------------------------------------
\* One poll (probes.py): the container first, /health only if it looks fine.

ContainerSymptom == IF docker THEN container ELSE "docker unreachable"

KeepWorld ==
  UNCHANGED <<rows, targetVars, dry_run, faults, crashes, historyVars>>

ContainerCheck ==
  /\ pc = "container_check"
  /\ IF ContainerSymptom = "running"
     THEN pc' = "health_check" /\ UNCHANGED verdict
     ELSE pc' = "observe" /\ verdict' = ContainerSymptom
  /\ UNCHANGED <<monitorVars, incident_id, action_taken>>
  /\ KeepWorld

HealthCheck ==
  /\ pc = "health_check"
  /\ pc' = "observe"
  /\ verdict' = IF health THEN "ok" ELSE "health"
  /\ UNCHANGED <<monitorVars, incident_id, action_taken>>
  /\ KeepWorld

\* Mutant: the row is given the symptom, not the probe that saw it.
DetectedVia_Symptom == verdict
\* What goes into the row's detected_via.
DetectedVia == IF verdict = "health" THEN "health" ELSE "container"

----------------------------------------------------------------------------
\* monitor.observe(verdict) and the dispatch on its Outcome.

ObserveQuietly ==
  /\ pc = "observe"
  /\ IF verdict = "ok"
     THEN StillHealthy \/ RecoveryPending
     ELSE FailureWhileOpen \/ StillBreaching
  /\ pc' = "container_check"
  /\ UNCHANGED <<verdict, incident_id, action_taken>>
  /\ KeepWorld

\* Mutant: the restart comes before the row.
ObserveFailureConfirmed_RestartsFirst ==
  /\ pc = "observe"
  /\ verdict # "ok"
  /\ FailureConfirmed(0)
  /\ pc' = IF dry_run THEN "container_check" ELSE "restart"
  /\ UNCHANGED <<verdict, incident_id, action_taken>>
  /\ KeepWorld

\* With --dry-run neither handler does anything.
ObserveFailureConfirmed ==
  /\ pc = "observe"
  /\ verdict # "ok"
  /\ FailureConfirmed(0)
  /\ pc' = IF dry_run THEN "container_check" ELSE "open_incident"
  /\ UNCHANGED <<verdict, incident_id, action_taken>>
  /\ KeepWorld

\* Mutant: the flag is read the wrong way round.
ObserveRecovered_Inverted ==
  /\ pc = "observe"
  /\ verdict = "ok"
  /\ Recovered
  /\ pc' = IF dry_run THEN "select_open" ELSE "container_check"
  /\ UNCHANGED <<verdict, incident_id, action_taken>>
  /\ KeepWorld

ObserveRecovered ==
  /\ pc = "observe"
  /\ verdict = "ok"
  /\ Recovered
  /\ pc' = IF dry_run THEN "container_check" ELSE "select_open"
  /\ UNCHANGED <<verdict, incident_id, action_taken>>
  /\ KeepWorld

----------------------------------------------------------------------------
\* _handle_confirmed_failure: row, restart, action, alert.

OpenRow ==
  /\ pc = "open_incident"
  /\ pc' = "restart"
  /\ OpenIncident(DetectedVia, "NULL")
  /\ incident_id' = Len(rows) + 1
  /\ open_id' = Len(rows) + 1
  /\ UNCHANGED <<monitorVars, dry_run, verdict, action_taken, targetVars, faults, crashes,
                 attempts, restarted, posts>>

IssueRestart ==
  /\ pc = "restart"
  /\ pc' = "set_action"
  /\ attempts' = Append(attempts, incident_id)
  /\ UNCHANGED <<monitorVars, rows, dry_run, verdict, incident_id, docker, crashes,
                 open_id, posts>>

\* The container is up again, its service not yet.
RestartSucceeds ==
  /\ docker /\ container # "missing"
  /\ IssueRestart
  /\ container' = "running" /\ health' = FALSE
  /\ action_taken' = "restarted"
  /\ restarted' = restarted \cup {incident_id}
  /\ UNCHANGED faults

\* Mutant: the except branch does not replace action_taken.
FailedAction_Hidden == "restarted"
FailedAction == "restart FAILED"

\* Docker has no daemon or no such container to restart.
RestartRefused ==
  /\ ~docker \/ container = "missing"
  /\ IssueRestart
  /\ action_taken' = FailedAction
  /\ UNCHANGED <<container, health, faults, restarted>>

\* The API call raises (a timeout, a server error), and Docker may have done
\* nothing, only the stop, or all of it.
RestartErrs ==
  /\ docker /\ container # "missing"
  /\ faults < MaxFaults /\ faults' = faults + 1
  /\ IssueRestart
  /\ \/ UNCHANGED <<container, health>>
     \/ container' \in {"stopped", "running"} /\ health' = FALSE
  /\ action_taken' = FailedAction
  /\ UNCHANGED restarted

RecordAction ==
  /\ pc = "set_action"
  /\ pc' = "incident_alert"
  /\ SetAction(incident_id, action_taken)
  /\ UNCHANGED <<monitorVars, dry_run, verdict, incident_id, action_taken, targetVars,
                 faults, crashes, historyVars>>

\* SlackNotifier (notify.py).  The webhook's answer decides the wording of one
\* log line; an exception that _post does not name is a death, see Crash.
\* Mutant: an alert is sent only for a restart that worked.
Post_OnSuccess(message) ==
  posts' = IF slack_enabled /\ action_taken # FailedAction
           THEN Append(posts, message) ELSE posts
Post(message) == posts' = IF slack_enabled THEN Append(posts, message) ELSE posts

IncidentMessage ==
  [kind |-> "incident", id |-> incident_id,
   detected_via |-> DetectedVia, action_taken |-> action_taken]
RecoveryMessage == [kind |-> "recovery", id |-> incident_id]

IncidentAlert ==
  /\ pc = "incident_alert"
  /\ pc' = "container_check"
  /\ Post(IncidentMessage)
  /\ incident_id' = None /\ action_taken' = None
  /\ UNCHANGED <<monitorVars, rows, dry_run, verdict, targetVars, faults, crashes,
                 open_id, attempts, restarted>>

----------------------------------------------------------------------------
\* _handle_recovery: find the newest open row, close it, alert.

SelectOpen ==
  /\ pc = "select_open"
  /\ IF OpenRows = {}
     THEN pc' = "container_check" /\ UNCHANGED incident_id
     ELSE pc' = "resolve" /\ incident_id' = NewestOpen
  /\ UNCHANGED <<monitorVars, verdict, action_taken>>
  /\ KeepWorld

ResolveRow ==
  /\ pc = "resolve"
  /\ pc' = "recovery_alert"
  /\ ResolveIncident(incident_id)
  /\ open_id' = None
  /\ UNCHANGED <<monitorVars, dry_run, verdict, incident_id, action_taken, targetVars,
                 faults, crashes, attempts, restarted, posts>>

RecoveryAlert ==
  /\ pc = "recovery_alert"
  /\ pc' = "container_check"
  /\ Post(RecoveryMessage)
  /\ incident_id' = None
  /\ UNCHANGED <<monitorVars, rows, dry_run, verdict, action_taken, targetVars, faults,
                 crashes, open_id, attempts, restarted>>

----------------------------------------------------------------------------
\* Around the process.

\* An uncaught exception (a locked database, a client error no except names),
\* Ctrl-C or a reboot.  What the process knew is gone.
Crash ==
  /\ Running
  /\ crashes < MaxCrashes /\ crashes' = crashes + 1
  /\ pc' = "stopped"
  /\ consecutive_failures' = 0 /\ consecutive_successes' = 0
  /\ incident_open' = FALSE /\ incident_started_at' = None
  /\ verdict' = None /\ incident_id' = None /\ action_taken' = None
  /\ open_id' = None
  /\ UNCHANGED <<rows, dry_run, targetVars, faults, attempts, restarted, posts>>

\* main(): without a Docker daemon it gives up, otherwise a fresh monitor polls.
Start ==
  /\ pc = "stopped"
  /\ docker
  /\ pc' = "container_check"
  /\ dry_run' \in DryRunModes
  /\ UNCHANGED <<monitorVars, rows, verdict, incident_id, action_taken, targetVars,
                 faults, crashes, historyVars>>

\* A rule of the log-watcher fires (log_watcher/__main__.py).  Its row has no
\* action, and never gets one.
LogWatcherOpens ==
  /\ Cardinality({i \in Ids : rows[i].detected_via = "log-watcher"}) < MaxLogRows
  /\ OpenIncident("log-watcher", "NULL")
  /\ UNCHANGED <<monitorVars, processVars, targetVars, faults, crashes, historyVars>>

\* The container dies, is removed or turns unhealthy for Docker; /health fails
\* while the container runs; the Docker daemon goes away.
Fault ==
  /\ faults < MaxFaults /\ faults' = faults + 1
  /\ \/ /\ container \in {"running", "unhealthy"}
        /\ container' \in {"stopped", "missing"} /\ health' = FALSE
        /\ UNCHANGED docker
     \/ container = "running" /\ container' = "unhealthy" /\ UNCHANGED <<health, docker>>
     \/ health /\ health' = FALSE /\ UNCHANGED <<container, docker>>
     \/ docker /\ docker' = FALSE /\ UNCHANGED <<container, health>>
  /\ UNCHANGED <<monitorVars, rows, processVars, crashes, historyVars>>

\* The service comes up, Docker finds it healthy, an operator brings it back,
\* the Docker daemon returns.
Repair ==
  /\ \/ /\ container \in {"running", "unhealthy"} /\ ~health
        /\ health' = TRUE /\ UNCHANGED <<container, docker>>
     \/ container = "unhealthy" /\ container' = "running" /\ UNCHANGED <<health, docker>>
     \/ /\ container \in {"stopped", "missing"}
        /\ container' = "running" /\ UNCHANGED <<health, docker>>
     \/ ~docker /\ docker' = TRUE /\ UNCHANGED <<container, health>>
  /\ UNCHANGED <<monitorVars, rows, processVars, faults, crashes, historyVars>>

WatchdogStep ==
  \/ ContainerCheck \/ HealthCheck
  \/ ObserveQuietly \/ ObserveFailureConfirmed \/ ObserveRecovered
  \/ OpenRow \/ RestartSucceeds \/ RestartRefused \/ RestartErrs \/ RecordAction \/ IncidentAlert
  \/ SelectOpen \/ ResolveRow \/ RecoveryAlert

Environment == Crash \/ Start \/ LogWatcherOpens \/ Fault \/ Repair

Next == WatchdogStep \/ Environment

\* The loop is a single thread and each call it makes returns within a timeout
\* (3 s for /health, 5 s for Slack, docker-py's and sqlite3's own), so a step
\* that can be taken is taken.  Nothing is assumed of the target, nor of an
\* operator who might start the process again.
Fairness == WF_vars(WatchdogStep)

Spec == Init /\ [][Next]_vars
FairSpec == Spec /\ Fairness

----------------------------------------------------------------------------
Positions == {"stopped", "container_check", "health_check", "observe", "open_incident",
              "restart", "set_action", "incident_alert", "select_open", "resolve",
              "recovery_alert"}
Verdicts == {"ok", "health", "docker unreachable", "stopped", "missing", "unhealthy"}

Message ==
  [kind : {"incident"}, id : Nat, detected_via : Sources, action_taken : Actions]
    \cup [kind : {"recovery"}, id : Nat]

TypeOK ==
  /\ MonitorTypeOK
  /\ LogTypeOK
  /\ pc \in Positions
  /\ dry_run \in DryRunModes
  /\ verdict \in Verdicts \cup {None}
  /\ incident_id \in Nat \cup {None}
  /\ action_taken \in Actions \cup {None}
  /\ container \in {"running", "stopped", "missing", "unhealthy"}
  /\ health \in BOOLEAN /\ docker \in BOOLEAN
  /\ faults \in 0..MaxFaults /\ crashes \in 0..MaxCrashes
  /\ open_id \in Nat \cup {None}
  /\ attempts \in Seq(Nat)
  /\ restarted \subseteq Nat
  /\ posts \in Seq(Message)

OwnRows == {i \in Ids : rows[i].detected_via # "log-watcher"}
LogRows == Ids \ OwnRows
OpenOwnRows == OpenRows \cap OwnRows
TargetPasses == docker /\ container = "running" /\ health

\* The row is opened before the restart, so that a failure is on record even
\* if the restart throws (__main__.py:99-101), and one incident gets one
\* restart (breach.py:156-160): every restart issued belongs to a row of the
\* watchdog's own, and no two to the same row, across crashes too.
RestartIsOnRecord ==
  \A i \in DOMAIN attempts :
    /\ attempts[i] \in OwnRows
    /\ \A j \in 1..(i - 1) : attempts[j] < attempts[i]

\* "The row is never left claiming an action that failed" (incidents.py:110):
\* whatever a row says was done to the container was done on its behalf, and
\* with that result.
ActionTruthful ==
  \A i \in Ids :
    /\ rows[i].action_taken = "restarted" => i \in restarted
    /\ rows[i].action_taken = "restart FAILED" =>
         i \notin restarted /\ \E k \in DOMAIN attempts : attempts[k] = i

\* A row of the watchdog's own is closed only once it says what was done about
\* it: recovery never reaches back to a row whose handler died half-way
\* (_resolve_latest_open).  A row of the log-watcher says nothing, closed or not.
ClosedOwnRowHasAction == \A i \in OwnRows \ OpenRows : rows[i].action_taken # "NULL"

\* Rows of the watchdog left open with no process that will close them are
\* paid for one by one: by a death of the process that held the latch, or by a
\* recovery that closed a row of the log-watcher in its place.  Nothing else
\* loses an incident.
OrphansAccountedFor ==
  Cardinality(OpenOwnRows \ {open_id})
    <= crashes + Cardinality(LogRows \ OpenRows)

\* What is posted to Slack is what the table says (notify.py:66-101): an
\* incident alert names a row of the watchdog's own with the action and the
\* probe on record for it, a recovery alert a row that is closed, and if that is
\* the watchdog's own its incident alert came before.  No row is announced or
\* called recovered twice.
PostedBefore(k, kind) == {posts[j].id : j \in {i \in 1..(k - 1) : posts[i].kind = kind}}
AlertsPaired ==
  \A k \in DOMAIN posts :
    LET m == posts[k]
    IN  /\ m.id \in Ids /\ m.id \notin PostedBefore(k, m.kind)
        /\ m.kind = "incident" =>
             /\ m.id \in OwnRows
             /\ m.detected_via = rows[m.id].detected_via
             /\ m.action_taken = rows[m.id].action_taken
        /\ m.kind = "recovery" =>
             /\ m.id \notin OpenRows
             /\ m.id \in OwnRows => m.id \in PostedBefore(k, "incident")

\* "recovery with no open incident row to close" (__main__.py:168) is never
\* logged: a process that saw a recovery had opened a row, and only it closes
\* rows.
RecoveryFindsARow == pc = "select_open" => OpenRows # {}

\* Recovery never reaches past the incident of this process to a row that an
\* earlier process left behind: what it closes is its own row, or one that the
\* log-watcher has opened since (_resolve_latest_open).
RecoverySparesOrphans ==
  pc = "resolve" =>
    incident_id = open_id \/ (incident_id \in LogRows /\ incident_id > open_id)

\* Recovery closes the incident this process opened: "the state machine
\* guarantees at most one incident is open for the target at a time, so
\* 'newest open row' is unambiguous" (__main__.py:184-185).
RecoveryClosesOwnIncident == pc = "resolve" => incident_id = open_id

\* Two good polls later there is nothing to close: a target that has passed
\* its last checks has no incident of the watchdog on record as open
\* ("NULL means the incident is still open", incidents.py:17).
HealthyMeansClosed ==
  /\ pc = "container_check"
  /\ consecutive_successes >= recovery_threshold
  => OpenOwnRows = {}

\* The table is a history: rows are appended, an action is written over NULL
\* only, and a closed row is never opened again or changed (incidents.py).
RowsOnlyAdvance ==
  [][/\ Len(rows') >= Len(rows)
     /\ \A i \in Ids :
          /\ rows'[i].detected_via = rows[i].detected_via
          /\ rows[i].action_taken # "NULL" => rows'[i].action_taken = rows[i].action_taken
          /\ rows[i].resolved => rows'[i] = rows[i]]_vars

\* A fault that outlasts everything done about it ends as one latched incident
\* whose row says what was tried, and stays so.
PersistentFaultIsHandled ==
  <>[]~TargetPasses =>
    <>[](/\ incident_open
         /\ open_id # None
         /\ rows[open_id].action_taken # "NULL")

\* A target that is well from some time on has its incidents closed, for good.
RecoveryIsRecorded ==
  <>[]TargetPasses => <>[](~incident_open /\ OpenOwnRows = {})

----------------------------------------------------------------------------
\* The rows of the watchdog's own are incidents that are opened one at a time,
\* restarted for once, recorded and closed, or else lost: with the process that
\* opened them, or to a recovery that closed a row of the log-watcher instead.
Phase(i) ==
  IF rows[i].resolved THEN "closed"
  ELSE IF i # open_id THEN "lost"
  ELSE IF rows[i].action_taken # "NULL" THEN "recorded"
  ELSE IF \E k \in DOMAIN attempts : attempts[k] = i THEN "attempted"
  ELSE "open"

Incidents == [i \in OwnRows |-> Phase(i)]

Lifecycle == INSTANCE IncidentLifecycle WITH incidents <- Incidents

\* The watchdog implements the life cycle of an incident.
LifecycleSpec == Lifecycle!Spec
=============================================================================
