--------------------------- MODULE WatchdogProofs ---------------------------
(***************************************************************************)
(* Proofs about the watchdog, for every choice of thresholds and bounds:   *)
(* any number of faults, of rows of the log-watcher and of deaths of the   *)
(* process.                                                                *)
(*                                                                         *)
(* The properties of the table are not inductive: that no second restart   *)
(* is issued for a row, or that recovery finds one, depends on where the   *)
(* handlers stand.  Control relates the position of the loop, the latch    *)
(* and the row opened for it, Progress says how far that row has come, and *)
(* Records holds the properties themselves with what they need of the rows *)
(* no handler works on.  On these rest the second part, which counts the   *)
(* incidents that no process remembers and shows that the watchdog         *)
(* implements IncidentLifecycle, and the theorem about a watchdog that     *)
(* lives once and alone.                                                   *)
(***************************************************************************)
EXTENDS Watchdog, TLAPS, SequenceTheorems, FiniteSetTheorems, WellFoundedInduction

HandlingSteps == {"restart", "set_action", "incident_alert"}
ClosingSteps == {"select_open", "resolve"}

\* Where the handlers stand with the row they work on.
Control ==
  /\ open_id # None =>
       /\ open_id \in OpenOwnRows
       /\ \A i \in Ids : i > open_id => i \in LogRows
       /\ incident_open \/ pc \in ClosingSteps
       /\ ~dry_run
  /\ pc \in HandlingSteps => open_id # None /\ incident_id = open_id
  /\ pc \in ClosingSteps => open_id # None /\ ~incident_open
  /\ pc = "open_incident" => open_id = None /\ incident_open /\ ~dry_run
  /\ incident_open /\ ~dry_run /\ pc # "open_incident" => open_id # None
  /\ pc = "stopped" => open_id = None /\ ~incident_open
  /\ pc = "resolve" => incident_id \in OpenRows /\ incident_id >= open_id
  /\ pc = "recovery_alert" => incident_id \in Ids

\* How far the latched incident has come.
Progress ==
  /\ pc = "restart" =>
       /\ rows[open_id].action_taken = "NULL"
       /\ \A k \in DOMAIN attempts : attempts[k] < open_id
  /\ pc = "set_action" =>
       /\ rows[open_id].action_taken = "NULL"
       /\ \E k \in DOMAIN attempts : attempts[k] = open_id
       /\ \/ action_taken = "restarted" /\ open_id \in restarted
          \/ action_taken = "restart FAILED" /\ open_id \notin restarted
  /\ open_id # None /\ pc \notin {"restart", "set_action"} =>
       rows[open_id].action_taken # "NULL"
  /\ pc = "incident_alert" => action_taken = rows[open_id].action_taken

\* What the table and the histories have in common, whoever wrote last.
Records ==
  /\ \A i \in restarted : \E k \in DOMAIN attempts : attempts[k] = i
  /\ RestartIsOnRecord
  /\ ActionTruthful
  /\ ClosedOwnRowHasAction

IInv == TypeOK /\ Control /\ Progress /\ Records

----------------------------------------------------------------------------
\* A non-empty set of naturals with an upper bound has a largest element.
LEMMA MaxExists ==
  ASSUME NEW n \in Nat, NEW S \in SUBSET (0..n), S # {}
  PROVE  /\ Max(S) \in S
         /\ \A y \in S : Max(S) >= y
<1> DEFINE T == {m \in Nat : \A x \in S : x <= m}
<1>1. T \subseteq Nat /\ T # {}
  <2>1. n \in T
    OBVIOUS
  <2> QED
    BY <2>1
<1>2. PICK m \in T : \A k \in T : ~(<<k, m>> \in OpToRel(<, Nat))
  BY <1>1, NatLessThanWellFounded, WFMin
<1>3. \A k \in T : ~(k < m)
  BY <1>1, <1>2 DEF OpToRel
<1>4. m \in S
  <2>1. SUFFICES ASSUME m \notin S PROVE FALSE
    OBVIOUS
  <2>2. \A x \in S : x <= m - 1
    BY <2>1, <1>1
  <2>3. m - 1 \in Nat
    <3>1. PICK x \in S : TRUE
      OBVIOUS
    <3>2. x \in Nat /\ x <= m - 1 /\ m \in Nat
      BY <3>1, <2>2, <1>1
    <3> QED
      BY <3>2
  <2>4. m - 1 \in T /\ m - 1 < m
    BY <2>2, <2>3
  <2> QED
    BY <2>4, <1>3
<1>5. m \in S /\ \A y \in S : m >= y
  BY <1>1, <1>4
<1> QED
  BY <1>5 DEF Max

\* The rows as a sequence: positions, and what each statement does to them.
LEMMA RowFacts ==
  ASSUME LogTypeOK
  PROVE  /\ Len(rows) \in Nat /\ Ids = 1..Len(rows)
         /\ \A i \in Ids :
              /\ rows[i] \in Row
              /\ rows[i].detected_via \in Sources
              /\ rows[i].action_taken \in Actions
              /\ rows[i].resolved \in BOOLEAN
<1>1. /\ rows \in Seq(Row) /\ Len(rows) \in Nat /\ Ids = 1..Len(rows)
      /\ \A i \in Ids : rows[i] \in Row
  BY DEF LogTypeOK, Ids
<1>2. \A r \in Row : /\ r.detected_via \in Sources
                     /\ r.action_taken \in Actions
                     /\ r.resolved \in BOOLEAN
  BY DEF Row
<1> QED
  BY <1>1, <1>2

LEMMA OpenFacts ==
  ASSUME LogTypeOK, NEW via \in Sources, NEW action \in Actions, OpenIncident(via, action)
  PROVE  /\ LogTypeOK'
         /\ Ids' = Ids \cup {Len(rows) + 1}
         /\ Len(rows) + 1 \notin Ids /\ Len(rows) + 1 \in Nat
         /\ \A i \in Ids : i < Len(rows) + 1
         /\ \A i \in Ids : rows'[i] = rows[i]
         /\ rows'[Len(rows) + 1] =
              [detected_via |-> via, action_taken |-> action, resolved |-> FALSE]
<1> DEFINE r == [detected_via |-> via, action_taken |-> action, resolved |-> FALSE]
<1>1. r \in Row
  BY DEF Row
<1>2. rows \in Seq(Row) /\ rows' = Append(rows, r)
  BY DEF LogTypeOK, OpenIncident
<1> HIDE DEF r
<1>3. /\ rows' \in Seq(Row)
      /\ Len(rows') = Len(rows) + 1 /\ Len(rows) \in Nat
      /\ \A i \in 1..Len(rows) : rows'[i] = rows[i]
      /\ rows'[Len(rows) + 1] = r
  BY <1>1, <1>2
<1>4. Ids = 1..Len(rows) /\ Ids' = 1..Len(rows')
  BY <1>2, <1>3 DEF Ids
<1> QED
  BY <1>3, <1>4 DEF r, LogTypeOK

LEMMA SetFacts ==
  ASSUME LogTypeOK, NEW id \in Ids, NEW action \in Actions, SetAction(id, action)
  PROVE  /\ LogTypeOK'
         /\ Ids' = Ids
         /\ \A i \in Ids :
              /\ rows'[i].detected_via = rows[i].detected_via
              /\ rows'[i].resolved = rows[i].resolved
              /\ rows'[i].action_taken = IF i = id THEN action ELSE rows[i].action_taken
              /\ i # id => rows'[i] = rows[i]
<1> DEFINE r == [rows[id] EXCEPT !.action_taken = action]
<1>1. id \in 1..Len(rows) /\ rows \in Seq(Row) /\ rows[id] \in Row /\ Ids = 1..Len(rows)
  BY RowFacts DEF LogTypeOK
<1>2. /\ r \in Row /\ r.action_taken = action
      /\ r.detected_via = rows[id].detected_via /\ r.resolved = rows[id].resolved
  BY <1>1 DEF Row
<1>3. rows' = [rows EXCEPT ![id] = r]
  BY DEF SetAction
<1> HIDE DEF r
<1>4. /\ rows' \in Seq(Row) /\ Len(rows') = Len(rows)
      /\ \A j \in 1..Len(rows) : rows'[j] = IF j = id THEN r ELSE rows[j]
  BY <1>1, <1>2, <1>3, ExceptSeq
<1>5. Ids' = 1..Len(rows')
  BY <1>4 DEF Ids
<1> QED
  BY <1>1, <1>2, <1>4, <1>5 DEF LogTypeOK

LEMMA ResolveFacts ==
  ASSUME LogTypeOK, NEW id \in Ids, ResolveIncident(id)
  PROVE  /\ LogTypeOK'
         /\ Ids' = Ids
         /\ \A i \in Ids :
              /\ rows'[i].detected_via = rows[i].detected_via
              /\ rows'[i].resolved = IF i = id THEN TRUE ELSE rows[i].resolved
              /\ rows'[i].action_taken = rows[i].action_taken
              /\ i # id => rows'[i] = rows[i]
<1> DEFINE r == [rows[id] EXCEPT !.resolved = TRUE]
<1>1. id \in 1..Len(rows) /\ rows \in Seq(Row) /\ rows[id] \in Row /\ Ids = 1..Len(rows)
  BY RowFacts DEF LogTypeOK
<1>2. /\ r \in Row /\ r.action_taken = rows[id].action_taken
      /\ r.detected_via = rows[id].detected_via /\ r.resolved = TRUE
  BY <1>1 DEF Row
<1>3. rows' = [rows EXCEPT ![id] = r]
  BY DEF ResolveIncident
<1> HIDE DEF r
<1>4. /\ rows' \in Seq(Row) /\ Len(rows') = Len(rows)
      /\ \A j \in 1..Len(rows) : rows'[j] = IF j = id THEN r ELSE rows[j]
  BY <1>1, <1>2, <1>3, ExceptSeq
<1>5. Ids' = 1..Len(rows')
  BY <1>4 DEF Ids
<1> QED
  BY <1>1, <1>2, <1>4, <1>5 DEF LogTypeOK

\* The newest open row is an open row, and none is newer.
LEMMA NewestFacts ==
  ASSUME LogTypeOK, OpenRows # {}
  PROVE  NewestOpen \in OpenRows /\ \A i \in OpenRows : NewestOpen >= i
<1>1. Len(rows) \in Nat /\ OpenRows \in SUBSET (0..Len(rows))
  BY RowFacts DEF OpenRows
<1> QED
  BY <1>1, MaxExists DEF NewestOpen

----------------------------------------------------------------------------
LEMMA MonitorConstants ==
  /\ CounterCap \in Nat /\ 0 \in 0..CounterCap
  /\ \A n \in 0..CounterCap : Bump(n) \in 0..CounterCap
BY CapAssumption DEF Bump

\* The state machine keeps the types of its four fields.
LEMMA MonitorTypes ==
  ASSUME MonitorTypeOK,
         \/ FailureWhileOpen \/ StillBreaching \/ FailureConfirmed(0)
         \/ StillHealthy \/ RecoveryPending \/ Recovered
  PROVE  MonitorTypeOK'
<1> USE MonitorConstants DEF MonitorTypeOK, CountFailure, CountSuccess, KeepIncident
<1>1. CASE FailureWhileOpen
  BY <1>1 DEF FailureWhileOpen
<1>2. CASE StillBreaching
  BY <1>2 DEF StillBreaching
<1>3. CASE FailureConfirmed(0)
  BY <1>3 DEF FailureConfirmed
<1>4. CASE StillHealthy
  BY <1>4 DEF StillHealthy
<1>5. CASE RecoveryPending
  BY <1>5 DEF RecoveryPending
<1>6. CASE Recovered
  BY <1>6 DEF Recovered
<1> QED
  BY <1>1, <1>2, <1>3, <1>4, <1>5, <1>6

LEMMA MonitorStutters ==
  ASSUME MonitorTypeOK, UNCHANGED monitorVars
  PROVE  MonitorTypeOK'
BY DEF MonitorTypeOK, monitorVars

LEMMA InitIInv == Init => IInv
<1> SUFFICES ASSUME Init PROVE IInv
  OBVIOUS
<1> USE DEF Init, MonitorInit
<1>1. MonitorTypeOK
  BY MonitorConstants DEF MonitorTypeOK
<1>2. rows \in Seq(Row) /\ attempts \in Seq(Nat)
  OBVIOUS
<1>3. TypeOK
  BY <1>1, <1>2, BoundAssumption DEF TypeOK, LogTypeOK, Positions
<1>4. Ids = {} /\ DOMAIN attempts = {}
  BY DEF Ids
<1>5. Control /\ Progress
  BY DEF Control, Progress, HandlingSteps, ClosingSteps
<1>6. Records
  BY <1>4 DEF Records, OwnRows, RestartIsOnRecord, ActionTruthful, ClosedOwnRowHasAction
<1> QED
  BY <1>3, <1>5, <1>6 DEF IInv

\* What a handler posts is a message about the row it works on.
LEMMA MessageTypes ==
  /\ Progress /\ Control /\ TypeOK /\ pc = "incident_alert" =>
       IncidentMessage \in Message
  /\ incident_id \in Nat => RecoveryMessage \in Message
<1>1. ASSUME Progress, Control, TypeOK, pc = "incident_alert"
      PROVE  IncidentMessage \in Message
  <2>1. incident_id \in Ids /\ action_taken = rows[incident_id].action_taken
    BY <1>1 DEF Progress, Control, HandlingSteps, OpenOwnRows, OpenRows
  <2>2. incident_id \in Nat /\ action_taken \in Actions
    BY <1>1, <2>1, RowFacts DEF TypeOK
  <2>3. DetectedVia \in Sources
    BY DEF DetectedVia, Sources
  <2> QED
    BY <2>2, <2>3 DEF IncidentMessage, Message
<1>2. incident_id \in Nat => RecoveryMessage \in Message
  BY DEF RecoveryMessage, Message
<1> QED
  BY <1>1, <1>2

\* A message is put at the end of the history, or nowhere without a webhook.
LEMMA PostFacts ==
  ASSUME posts \in Seq(Message), NEW m \in Message, Post(m)
  PROVE  /\ posts' \in Seq(Message)
         /\ ~slack_enabled => posts' = posts
         /\ slack_enabled => /\ Len(posts') = Len(posts) + 1
                             /\ DOMAIN posts' = 1..(Len(posts) + 1)
                             /\ \A k \in 1..Len(posts) : posts'[k] = posts[k]
                             /\ posts'[Len(posts) + 1] = m
BY DEF Post

\* Every step keeps the types.
LEMMA NextTypes == IInv /\ [Next]_vars => TypeOK'
<1> SUFFICES ASSUME IInv, [Next]_vars PROVE TypeOK'
  OBVIOUS
<1> USE DEF TypeOK, KeepWorld, processVars, targetVars, historyVars
<1>0. TypeOK /\ Control
  BY DEF IInv
<1>1. LogTypeOK /\ Len(rows) + 1 \in Nat /\ (incident_id \in Ids => incident_id \in Nat)
  BY <1>0, RowFacts
<1>2. UNCHANGED rows => LogTypeOK'
  BY <1>0 DEF LogTypeOK
<1>3. CASE ContainerCheck
  BY <1>0, <1>2, <1>3, MonitorStutters
     DEF ContainerCheck, ContainerSymptom, Positions, Verdicts
<1>4. CASE HealthCheck
  BY <1>0, <1>2, <1>4, MonitorStutters DEF HealthCheck, Positions, Verdicts
<1>5. CASE ObserveQuietly
  BY <1>0, <1>2, <1>5, MonitorTypes DEF ObserveQuietly, Positions
<1>6. CASE ObserveFailureConfirmed
  BY <1>0, <1>2, <1>6, MonitorTypes DEF ObserveFailureConfirmed, Positions
<1>7. CASE ObserveRecovered
  BY <1>0, <1>2, <1>7, MonitorTypes DEF ObserveRecovered, Positions
<1>8. CASE OpenRow
  <2>1. DetectedVia \in Sources
    BY DEF DetectedVia, Sources
  <2>2. LogTypeOK'
    BY <1>0, <1>8, <2>1, OpenFacts DEF OpenRow, Actions
  <2> QED
    BY <1>0, <1>1, <1>8, <2>2, MonitorStutters DEF OpenRow, Positions
<1>9. CASE RestartSucceeds \/ RestartRefused \/ RestartErrs
  <2>1. incident_id \in Nat
    BY <1>0, <1>1, <1>9
       DEF RestartSucceeds, RestartRefused, RestartErrs, FailedAction, IssueRestart, Control, HandlingSteps,
           OpenOwnRows, OpenRows
  <2>2. /\ attempts' \in Seq(Nat) /\ pc' = "set_action" /\ UNCHANGED rows /\ UNCHANGED monitorVars
        /\ UNCHANGED <<dry_run, verdict, incident_id, docker, crashes,
                       open_id, posts>>
    <3>1. IssueRestart
      BY <1>9 DEF RestartSucceeds, RestartRefused, RestartErrs, FailedAction
    <3> QED
      BY <1>0, <2>1, <3>1 DEF IssueRestart
  <2>3. CASE RestartSucceeds
    BY <1>0, <1>2, <2>1, <2>2, <2>3, MonitorStutters
       DEF RestartSucceeds, IssueRestart, Positions, Actions
  <2>4. CASE RestartRefused
    BY <1>0, <1>2, <2>1, <2>2, <2>4, MonitorStutters
       DEF RestartRefused, FailedAction, IssueRestart, Positions, Actions
  <2>5. CASE RestartErrs
    <3>1. faults' \in 0..MaxFaults
      <4>1. faults < MaxFaults /\ faults' = faults + 1
        BY <2>5 DEF RestartErrs
      <4> QED
        BY <1>0, <4>1, BoundAssumption
    <3>2. container' \in {"running", "stopped", "missing", "unhealthy"} /\ health' \in BOOLEAN
      BY <1>0, <2>5 DEF RestartErrs
    <3> QED
      BY <1>0, <1>2, <2>1, <2>2, <2>5, <3>1, <3>2, MonitorStutters
         DEF RestartErrs, FailedAction, Positions, Actions
  <2> QED
    BY <1>9, <2>3, <2>4, <2>5
<1>10. CASE RecordAction
  <2>1. incident_id \in Ids /\ action_taken \in Actions
    BY <1>0, <1>10, RowFacts
       DEF RecordAction, IInv, Control, Progress, HandlingSteps, OpenOwnRows, OpenRows, Actions
  <2>2. LogTypeOK'
    BY <1>0, <1>10, <2>1, SetFacts DEF RecordAction
  <2> QED
    BY <1>0, <1>10, <2>2, MonitorStutters DEF RecordAction, Positions
<1>11. CASE IncidentAlert
  <2>1. IncidentMessage \in Message
    BY <1>0, <1>11, MessageTypes DEF IInv, IncidentAlert
  <2>2. posts' \in Seq(Message)
    BY <1>0, <1>11, <2>1, PostFacts DEF IncidentAlert
  <2> QED
    BY <1>0, <1>2, <1>11, <2>2, MonitorStutters DEF IncidentAlert, Positions
<1>12. CASE SelectOpen
  <2>1. OpenRows # {} => NewestOpen \in Nat
    BY <1>0, RowFacts, NewestFacts DEF OpenRows
  <2> QED
    BY <1>0, <1>2, <1>12, <2>1, MonitorStutters DEF SelectOpen, Positions
<1>13. CASE ResolveRow
  <2>1. incident_id \in Ids
    BY <1>0, <1>13 DEF ResolveRow, Control, OpenRows
  <2>2. LogTypeOK'
    BY <1>0, <1>13, <2>1, ResolveFacts DEF ResolveRow
  <2> QED
    BY <1>0, <1>13, <2>2, MonitorStutters DEF ResolveRow, Positions
<1>14. CASE RecoveryAlert
  <2>1. RecoveryMessage \in Message
    BY <1>0, <1>1, <1>14, MessageTypes DEF RecoveryAlert, Control
  <2>2. posts' \in Seq(Message)
    BY <1>0, <1>14, <2>1, PostFacts DEF RecoveryAlert
  <2> QED
    BY <1>0, <1>2, <1>14, <2>2, MonitorStutters DEF RecoveryAlert, Positions
<1>15. CASE Crash
  <2>1. MonitorTypeOK'
    BY <1>15, MonitorConstants DEF Crash, MonitorTypeOK
  <2> QED
    BY <1>0, <1>2, <1>15, <2>1, BoundAssumption DEF Crash, Positions
<1>16. CASE Start
  BY <1>0, <1>2, <1>16, MonitorStutters DEF Start, Positions
<1>17. CASE LogWatcherOpens
  <2>1. LogTypeOK'
    BY <1>0, <1>17, OpenFacts DEF LogWatcherOpens, Sources, Actions
  <2> QED
    BY <1>0, <1>17, <2>1, MonitorStutters DEF LogWatcherOpens
<1>18. CASE Fault
  <2>1. faults' \in 0..MaxFaults
    BY <1>0, <1>18, BoundAssumption DEF Fault
  <2>2. container' \in {"running", "stopped", "missing", "unhealthy"}
    BY <1>0, <1>18 DEF Fault
  <2>3. health' \in BOOLEAN /\ docker' \in BOOLEAN
    BY <1>0, <1>18 DEF Fault
  <2> QED
    BY <1>0, <1>2, <1>18, <2>1, <2>2, <2>3, MonitorStutters DEF Fault
<1>19. CASE Repair
  BY <1>0, <1>2, <1>19, MonitorStutters DEF Repair
<1>20. CASE UNCHANGED vars
  BY <1>0, <1>2, <1>20, MonitorStutters DEF vars
<1> QED
  BY <1>3, <1>4, <1>5, <1>6, <1>7, <1>8, <1>9, <1>10, <1>11, <1>12, <1>13, <1>14, <1>15, <1>16,
     <1>17, <1>18, <1>19, <1>20 DEF Next, WatchdogStep, Environment

----------------------------------------------------------------------------
\* The sets of rows after each statement.
LEMMA SameSets ==
  ASSUME UNCHANGED rows
  PROVE  UNCHANGED <<Ids, OpenRows, OwnRows, LogRows, OpenOwnRows>>
BY DEF Ids, OpenRows, OwnRows, LogRows, OpenOwnRows

LEMMA OpenSets ==
  ASSUME LogTypeOK, NEW via \in Sources, NEW action \in Actions, OpenIncident(via, action)
  PROVE  LET n == Len(rows) + 1 IN
         /\ Ids' = Ids \cup {n}
         /\ OpenRows' = OpenRows \cup {n}
         /\ OwnRows' = OwnRows \cup (IF via = "log-watcher" THEN {} ELSE {n})
         /\ LogRows' = LogRows \cup (IF via = "log-watcher" THEN {n} ELSE {})
<1> DEFINE n == Len(rows) + 1
<1>1. /\ Ids' = Ids \cup {n} /\ n \notin Ids
      /\ \A i \in Ids : rows'[i] = rows[i]
      /\ rows'[n].detected_via = via /\ rows'[n].resolved = FALSE
  <2>1. rows'[n] = [detected_via |-> via, action_taken |-> action, resolved |-> FALSE]
    BY OpenFacts
  <2>2. rows'[n].detected_via = via /\ rows'[n].resolved = FALSE
    BY <2>1
  <2> QED
    BY <2>2, OpenFacts
<1> HIDE DEF n
<1>2. OpenRows' = OpenRows \cup {n}
  BY <1>1 DEF OpenRows
<1>3. OwnRows' = OwnRows \cup (IF via = "log-watcher" THEN {} ELSE {n})
  BY <1>1 DEF OwnRows
<1>4. LogRows' = LogRows \cup (IF via = "log-watcher" THEN {n} ELSE {})
  BY <1>1, <1>3 DEF LogRows, OwnRows
<1> QED
  BY <1>1, <1>2, <1>3, <1>4 DEF n

LEMMA SetSets ==
  ASSUME LogTypeOK, NEW id \in Ids, NEW action \in Actions, SetAction(id, action)
  PROVE  UNCHANGED <<Ids, OpenRows, OwnRows, LogRows, OpenOwnRows>>
<1>1. Ids' = Ids
  BY SetFacts
<1>2. \A i \in Ids : rows'[i].detected_via = rows[i].detected_via /\ rows'[i].resolved = rows[i].resolved
  BY SetFacts
<1>3. OpenRows' = OpenRows /\ OwnRows' = OwnRows
  BY <1>1, <1>2 DEF OpenRows, OwnRows
<1> QED
  BY <1>1, <1>3 DEF LogRows, OpenOwnRows

LEMMA ResolveSets ==
  ASSUME LogTypeOK, NEW id \in Ids, ResolveIncident(id)
  PROVE  /\ UNCHANGED <<Ids, OwnRows, LogRows>>
         /\ OpenRows' = OpenRows \ {id}
<1>1. Ids' = Ids
  BY ResolveFacts
<1>2. \A i \in Ids : /\ rows'[i].detected_via = rows[i].detected_via
                     /\ rows'[i].resolved = IF i = id THEN TRUE ELSE rows[i].resolved
  BY ResolveFacts
<1>3. OpenRows' = OpenRows \ {id} /\ OwnRows' = OwnRows
  BY <1>1, <1>2 DEF OpenRows, OwnRows
<1> QED
  BY <1>1, <1>3 DEF LogRows

\* The latch after each outcome.
LEMMA Latch ==
  ASSUME TypeOK
  PROVE  /\ ObserveQuietly => incident_open' = incident_open
         /\ ObserveFailureConfirmed => ~incident_open /\ incident_open'
         /\ ObserveRecovered => incident_open /\ ~incident_open'
         /\ UNCHANGED monitorVars => incident_open' = incident_open
BY DEF TypeOK, MonitorTypeOK, ObserveQuietly, ObserveFailureConfirmed, ObserveRecovered, monitorVars,
       StillHealthy, RecoveryPending, FailureWhileOpen, StillBreaching, KeepIncident,
       FailureConfirmed, Recovered

\* Moving between the ordinary positions of the loop, or not at all, disturbs
\* nothing.
Ordinary == {"container_check", "health_check", "observe"}

LEMMA ControlKept ==
  ASSUME IInv, UNCHANGED <<rows, open_id, dry_run>>,
         incident_open' = incident_open,
         \/ pc' = pc /\ incident_id' = incident_id
         \/ pc' \in Ordinary /\ pc \notin ClosingSteps \cup {"open_incident"}
  PROVE  Control'
<1>1. Control
  BY DEF IInv
<1>2. /\ Ids' = Ids /\ OpenRows' = OpenRows /\ OwnRows' = OwnRows
      /\ LogRows' = LogRows /\ OpenOwnRows' = OpenOwnRows
  BY SameSets
<1>3. CASE pc' = pc /\ incident_id' = incident_id
  BY <1>1, <1>2, <1>3 DEF Control
<1>4. CASE pc' \in Ordinary /\ pc \notin ClosingSteps \cup {"open_incident"}
  BY <1>1, <1>2, <1>4 DEF Control, Ordinary, HandlingSteps, ClosingSteps
<1> QED
  BY <1>3, <1>4

LEMMA NextControl == IInv /\ [Next]_vars => Control'
<1> SUFFICES ASSUME IInv, [Next]_vars PROVE Control'
  OBVIOUS
<1> USE DEF Control, HandlingSteps, ClosingSteps
<1>0. /\ Control /\ TypeOK /\ LogTypeOK /\ dry_run \in BOOLEAN
      /\ OpenRows \subseteq Ids /\ Ids \subseteq Nat
      /\ OpenOwnRows = OpenRows \cap OwnRows /\ OpenOwnRows' = OpenRows' \cap OwnRows'
      /\ LogRows = Ids \ OwnRows
  BY RowFacts, ModeAssumption DEF IInv, TypeOK, OpenRows, OpenOwnRows, LogRows
<1>1. CASE ContainerCheck \/ HealthCheck
  BY <1>0, <1>1, ControlKept, Latch DEF ContainerCheck, HealthCheck, KeepWorld, historyVars, Ordinary
<1>2. CASE ObserveQuietly
  BY <1>0, <1>2, ControlKept, Latch DEF ObserveQuietly, KeepWorld, historyVars, Ordinary
<1>3. CASE ObserveFailureConfirmed
  BY <1>0, <1>3, SameSets, Latch DEF ObserveFailureConfirmed, KeepWorld, historyVars
<1>4. CASE ObserveRecovered
  <2>1. /\ pc = "observe" /\ pc' = IF dry_run THEN "container_check" ELSE "select_open"
        /\ UNCHANGED <<rows, dry_run, incident_id, open_id>>
    BY <1>4 DEF ObserveRecovered, KeepWorld, historyVars
  <2>2. incident_open /\ ~incident_open'
    BY <1>0, <1>4, Latch
  <2> QED
    BY <1>0, <2>1, <2>2, SameSets
<1>5. CASE OpenRow
  <2>1. /\ Ids' = Ids \cup {Len(rows) + 1} /\ OpenRows' = OpenRows \cup {Len(rows) + 1}
        /\ OwnRows' = OwnRows \cup {Len(rows) + 1} /\ LogRows' = LogRows
    BY <1>0, <1>5, OpenSets DEF OpenRow, DetectedVia, Sources, Actions
  <2>2. Len(rows) + 1 \in Nat /\ \A i \in Ids : ~(i > Len(rows) + 1)
    BY <1>0, RowFacts
  <2>3. Len(rows) + 1 # None
    BY <2>2, NoneAssumption
  <2>4. incident_open' = incident_open
    BY <1>0, <1>5, Latch DEF OpenRow
  <2> QED
    BY <1>0, <1>5, <2>1, <2>2, <2>3, <2>4 DEF OpenRow
<1>6. CASE RestartSucceeds \/ RestartRefused \/ RestartErrs
  <2>1. IssueRestart /\ UNCHANGED <<rows, monitorVars>>
    BY <1>6 DEF RestartSucceeds, RestartRefused, RestartErrs, FailedAction, IssueRestart
  <2> QED
    BY <1>0, <2>1, SameSets, Latch DEF IssueRestart
<1>7. CASE RecordAction
  <2>1. incident_id \in Ids /\ action_taken \in Actions
    BY <1>0, <1>7 DEF RecordAction, IInv, Progress, Actions
  <2>2. UNCHANGED <<Ids, OpenRows, OwnRows, LogRows, OpenOwnRows>>
    BY <1>0, <1>7, <2>1, SetSets DEF RecordAction
  <2> QED
    BY <1>0, <1>7, <2>2, Latch DEF RecordAction, historyVars
<1>8. CASE IncidentAlert
  BY <1>0, <1>8, SameSets, Latch DEF IncidentAlert
<1>9. CASE SelectOpen
  <2>1. open_id \in OpenRows
    BY <1>0, <1>9 DEF SelectOpen
  <2>2. NewestOpen \in OpenRows /\ NewestOpen >= open_id
    BY <1>0, <2>1, NewestFacts
  <2> QED
    <3>1. /\ pc = "select_open" /\ pc' = "resolve" /\ incident_id' = NewestOpen
          /\ UNCHANGED <<rows, dry_run, open_id, monitorVars>>
      BY <1>9, <2>1 DEF SelectOpen, KeepWorld, historyVars
    <3>2. incident_open' = incident_open
      BY <1>0, <3>1, Latch
    <3>3. /\ Ids' = Ids /\ OpenRows' = OpenRows /\ OwnRows' = OwnRows
          /\ LogRows' = LogRows /\ OpenOwnRows' = OpenOwnRows
      BY <3>1, SameSets
    <3> QED
      BY <1>0, <2>2, <3>1, <3>2, <3>3
<1>10. CASE ResolveRow
  <2>1. incident_id \in Ids
    BY <1>0, <1>10 DEF ResolveRow
  <2>2. UNCHANGED <<Ids, OwnRows, LogRows>>
    BY <1>0, <1>10, <2>1, ResolveSets DEF ResolveRow
  <2> QED
    BY <1>0, <1>10, <2>1, <2>2, Latch DEF ResolveRow
<1>11. CASE RecoveryAlert
  <2>1. UNCHANGED <<rows, dry_run, open_id, monitorVars>>
    BY <1>11 DEF RecoveryAlert
  <2> QED
    BY <1>0, <1>11, <2>1, ControlKept, Latch DEF RecoveryAlert, Ordinary
<1>12. CASE Crash
  BY <1>0, <1>12, SameSets DEF Crash
<1>13. CASE Start
  BY <1>0, <1>13, SameSets, Latch DEF Start, historyVars
<1>14. CASE LogWatcherOpens
  <2>1. /\ Ids' = Ids \cup {Len(rows) + 1} /\ OpenRows' = OpenRows \cup {Len(rows) + 1}
        /\ OwnRows' = OwnRows /\ LogRows' = LogRows \cup {Len(rows) + 1}
    BY <1>0, <1>14, OpenSets DEF LogWatcherOpens, Sources, Actions
  <2>2. Len(rows) + 1 \notin Ids
    BY <1>0, <1>14, OpenFacts DEF LogWatcherOpens, Sources, Actions
  <2>3. OwnRows \subseteq Ids
    BY DEF OwnRows
  <2> QED
    BY <1>0, <1>14, <2>1, <2>2, <2>3, Latch DEF LogWatcherOpens, processVars, historyVars
<1>15. CASE Fault \/ Repair
  BY <1>0, <1>15, ControlKept, Latch DEF Fault, Repair, processVars, historyVars
<1>16. CASE UNCHANGED vars
  BY <1>0, <1>16, ControlKept, Latch DEF vars, processVars, historyVars
<1> QED
  BY <1>1, <1>2, <1>3, <1>4, <1>5, <1>6, <1>7, <1>8, <1>9, <1>10, <1>11, <1>12, <1>13, <1>14,
     <1>15, <1>16 DEF Next, WatchdogStep, Environment

----------------------------------------------------------------------------
LEMMA ProgressKept ==
  ASSUME IInv, UNCHANGED <<rows, open_id, attempts, restarted>>,
         \/ pc' = pc /\ action_taken' = action_taken
         \/ pc' \in Ordinary \cup ClosingSteps \cup {"open_incident"} /\ pc \notin HandlingSteps
  PROVE  Progress'
<1>1. Progress
  BY DEF IInv
<1>2. CASE pc' = pc /\ action_taken' = action_taken
  BY <1>1, <1>2 DEF Progress
<1>3. CASE pc' \in Ordinary \cup ClosingSteps \cup {"open_incident"} /\ pc \notin HandlingSteps
  BY <1>1, <1>3 DEF Progress, Ordinary, ClosingSteps, HandlingSteps
<1> QED
  BY <1>2, <1>3

\* A restart is issued for the latched row, later than every restart before it.
LEMMA IssueFacts ==
  ASSUME IInv, IssueRestart
  PROVE  /\ incident_id = open_id /\ open_id \in OpenOwnRows /\ open_id \in Nat
         /\ rows[open_id].action_taken = "NULL"
         /\ attempts \in Seq(Nat) /\ Len(attempts) \in Nat
         /\ DOMAIN attempts = 1..Len(attempts)
         /\ DOMAIN attempts' = 1..(Len(attempts) + 1)
         /\ attempts'[Len(attempts) + 1] = open_id
         /\ \A k \in DOMAIN attempts : attempts'[k] = attempts[k] /\ attempts[k] < open_id
<1>1. incident_id = open_id /\ open_id # None /\ open_id \in OpenOwnRows
  BY DEF IInv, Control, IssueRestart, HandlingSteps
<1>2. open_id \in Nat /\ attempts \in Seq(Nat)
  BY <1>1 DEF IInv, TypeOK
<1>3. /\ rows[open_id].action_taken = "NULL"
      /\ \A k \in DOMAIN attempts : attempts[k] < open_id
  BY DEF IInv, Progress, IssueRestart
<1>4. attempts' = Append(attempts, open_id)
  BY <1>1 DEF IssueRestart
<1> QED
  BY <1>1, <1>2, <1>3, <1>4

LEMMA NextProgress == IInv /\ [Next]_vars => Progress'
<1> SUFFICES ASSUME IInv, [Next]_vars PROVE Progress'
  OBVIOUS
<1>0. /\ Progress /\ Control /\ TypeOK /\ LogTypeOK
      /\ OpenOwnRows \subseteq Ids /\ Ids \subseteq Nat
  BY RowFacts DEF IInv, TypeOK, OpenOwnRows, OpenRows
<1>1. CASE ContainerCheck \/ HealthCheck
  BY <1>1, ProgressKept DEF ContainerCheck, HealthCheck, KeepWorld, historyVars, Ordinary, HandlingSteps
<1>2. CASE ObserveQuietly \/ ObserveFailureConfirmed \/ ObserveRecovered
  <2>1. /\ UNCHANGED <<rows, open_id, attempts, restarted>>
        /\ pc = "observe" /\ pc' \in {"container_check", "open_incident", "select_open"}
    BY <1>2 DEF ObserveQuietly, ObserveFailureConfirmed, ObserveRecovered, KeepWorld, historyVars
  <2> QED
    BY <2>1, ProgressKept DEF Ordinary, HandlingSteps, ClosingSteps
<1>3. CASE OpenRow
  <2>1. DetectedVia \in Sources /\ "NULL" \in Actions
    BY DEF DetectedVia, Sources, Actions
  <2>2. /\ \A i \in Ids : i < Len(rows) + 1
        /\ rows'[Len(rows) + 1].action_taken = "NULL"
    <3>1. rows'[Len(rows) + 1] =
            [detected_via |-> DetectedVia, action_taken |-> "NULL", resolved |-> FALSE]
      BY <1>0, <1>3, <2>1, OpenFacts DEF OpenRow
    <3>2. \A i \in Ids : i < Len(rows) + 1
      BY <1>0, <1>3, <2>1, OpenFacts DEF OpenRow
    <3> QED
      BY <3>1, <3>2
  <2>3. \A k \in DOMAIN attempts : attempts[k] \in Ids
    BY DEF IInv, Records, RestartIsOnRecord, OwnRows
  <2> QED
    BY <1>3, <2>2, <2>3 DEF OpenRow, Progress
<1>4. CASE RestartSucceeds \/ RestartRefused \/ RestartErrs
  <2>1. IssueRestart
    BY <1>4 DEF RestartSucceeds, RestartRefused, RestartErrs, FailedAction
  <2>2. \/ action_taken' = "restarted" /\ restarted' = restarted \cup {incident_id}
        \/ action_taken' = "restart FAILED" /\ restarted' = restarted
    BY <1>4 DEF RestartSucceeds, RestartRefused, RestartErrs, FailedAction
  <2>3. open_id \notin restarted
    <3>1. \A i \in restarted : \E k \in DOMAIN attempts : attempts[k] = i
      BY DEF IInv, Records
    <3>2. \A k \in DOMAIN attempts : attempts[k] < open_id
      BY <2>1, IssueFacts
    <3>3. open_id \in Nat
      BY <2>1, IssueFacts
    <3> QED
      BY <3>1, <3>2, <3>3
  <2>4. \E k \in DOMAIN attempts' : attempts'[k] = open_id
    BY <2>1, IssueFacts
  <2>5. /\ pc' = "set_action" /\ UNCHANGED <<rows, open_id>> /\ incident_id = open_id
        /\ rows[open_id].action_taken = "NULL"
    BY <2>1, IssueFacts DEF IssueRestart
  <2> QED
    BY <2>2, <2>3, <2>4, <2>5 DEF Progress
<1>5. CASE RecordAction
  <2>1. /\ incident_id = open_id /\ open_id \in Ids
        /\ action_taken \in {"restarted", "restart FAILED"}
    BY <1>0, <1>5 DEF RecordAction, Control, Progress, HandlingSteps
  <2>2. rows'[open_id].action_taken = action_taken
    <3>1. SetAction(open_id, action_taken)
      BY <1>5, <2>1 DEF RecordAction
    <3>2. action_taken \in Actions
      BY <2>1 DEF Actions
    <3> QED
      BY <1>0, <2>1, <3>1, <3>2, SetFacts
  <2> QED
    BY <1>5, <2>1, <2>2 DEF RecordAction, Progress, historyVars
<1>6. CASE IncidentAlert
  <2>1. incident_id = open_id /\ open_id # None /\ rows[open_id].action_taken # "NULL"
    BY <1>0, <1>6 DEF IncidentAlert, Control, Progress, HandlingSteps
  <2> QED
    BY <1>6, <2>1 DEF IncidentAlert, Progress
<1>7. CASE SelectOpen
  <2>1. /\ UNCHANGED <<rows, open_id, attempts, restarted>>
        /\ pc = "select_open" /\ pc' \in {"container_check", "resolve"}
    BY <1>7 DEF SelectOpen, KeepWorld, historyVars
  <2> QED
    BY <2>1, ProgressKept DEF Ordinary, ClosingSteps, HandlingSteps
<1>8. CASE ResolveRow
  BY <1>8 DEF ResolveRow, Progress
<1>9. CASE RecoveryAlert
  BY <1>9, ProgressKept DEF RecoveryAlert, Ordinary, HandlingSteps
<1>10. CASE Crash
  BY <1>10 DEF Crash, Progress
<1>11. CASE Start
  BY <1>11, ProgressKept DEF Start, historyVars, Ordinary, HandlingSteps
<1>12. CASE LogWatcherOpens
  <2>1. \A i \in Ids : rows'[i] = rows[i]
    BY <1>0, <1>12, OpenFacts DEF LogWatcherOpens, Sources, Actions
  <2>2. UNCHANGED <<pc, action_taken, open_id, attempts, restarted>>
    BY <1>12 DEF LogWatcherOpens, processVars, historyVars
  <2>3. open_id # None => rows'[open_id] = rows[open_id]
    BY <1>0, <2>1 DEF Control
  <2>4. pc \in HandlingSteps => open_id # None
    BY <1>0 DEF Control
  <2> QED
    BY <1>0, <2>2, <2>3, <2>4 DEF Progress, HandlingSteps
<1>13. CASE Fault \/ Repair
  BY <1>13, ProgressKept DEF Fault, Repair, processVars, historyVars
<1>14. CASE UNCHANGED vars
  BY <1>14, ProgressKept DEF vars, processVars, historyVars
<1> QED
  BY <1>1, <1>2, <1>3, <1>4, <1>5, <1>6, <1>7, <1>8, <1>9, <1>10, <1>11, <1>12, <1>13, <1>14
     DEF Next, WatchdogStep, Environment

----------------------------------------------------------------------------
LEMMA RecordsKept ==
  ASSUME IInv, UNCHANGED <<rows, attempts, restarted>>
  PROVE  Records'
<1>1. Records
  BY DEF IInv
<1> QED
  BY <1>1, SameSets
     DEF Records, RestartIsOnRecord, ActionTruthful, ClosedOwnRowHasAction

\* A new row says nothing yet.
LEMMA RecordsOpen ==
  ASSUME IInv, NEW via \in Sources, OpenIncident(via, "NULL"),
         UNCHANGED <<attempts, restarted>>
  PROVE  Records'
<1> DEFINE n == Len(rows) + 1
<1>1. LogTypeOK /\ Records /\ "NULL" \in Actions
  BY DEF IInv, TypeOK, Actions
<1>2. /\ Ids' = Ids \cup {n} /\ OpenRows' = OpenRows \cup {n}
      /\ OwnRows' = OwnRows \cup (IF via = "log-watcher" THEN {} ELSE {n})
      /\ LogRows' = LogRows \cup (IF via = "log-watcher" THEN {n} ELSE {})
  BY <1>1, OpenSets
<1>3. n \notin Ids /\ \A i \in Ids : rows'[i] = rows[i]
  BY <1>1, OpenFacts
<1>4. rows'[n].action_taken = "NULL"
  <2>1. rows'[n] = [detected_via |-> via, action_taken |-> "NULL", resolved |-> FALSE]
    BY <1>1, OpenFacts
  <2> QED
    BY <2>1
<1> HIDE DEF n
<1>5. LogRows \subseteq Ids /\ OwnRows \subseteq Ids /\ OpenRows \subseteq Ids
  BY DEF LogRows, OwnRows, OpenRows
<1>6. RestartIsOnRecord'
  BY <1>1, <1>2 DEF Records, RestartIsOnRecord
<1>7. ActionTruthful'
  BY <1>1, <1>2, <1>3, <1>4 DEF Records, ActionTruthful
<1>8. ClosedOwnRowHasAction'
  BY <1>1, <1>2, <1>3, <1>5 DEF Records, ClosedOwnRowHasAction
<1>9. \A i \in restarted' : \E k \in DOMAIN attempts' : attempts'[k] = i
  BY <1>1 DEF Records
<1> QED
  BY <1>6, <1>7, <1>8, <1>9 DEF Records

LEMMA NextRecords == IInv /\ [Next]_vars => Records'
<1> SUFFICES ASSUME IInv, [Next]_vars PROVE Records'
  OBVIOUS
<1>0. /\ Progress /\ Control /\ TypeOK /\ LogTypeOK /\ Records
      /\ OpenOwnRows = OpenRows \cap OwnRows /\ OpenOwnRows \subseteq Ids /\ Ids \subseteq Nat
      /\ LogRows = Ids \ OwnRows /\ OwnRows \subseteq Ids /\ OpenRows \subseteq Ids
  BY RowFacts DEF IInv, TypeOK, OpenOwnRows, OpenRows, LogRows, OwnRows
<1>1. CASE \/ ContainerCheck \/ HealthCheck
           \/ ObserveQuietly \/ ObserveFailureConfirmed \/ ObserveRecovered \/ SelectOpen
  BY <1>1, RecordsKept
     DEF ContainerCheck, HealthCheck, ObserveQuietly, ObserveFailureConfirmed, ObserveRecovered,
         SelectOpen, KeepWorld, historyVars
<1>2. CASE OpenRow
  <2>1. DetectedVia \in Sources /\ DetectedVia # "log-watcher"
    BY DEF DetectedVia, Sources
  <2> QED
    BY <1>2, <2>1, RecordsOpen DEF OpenRow
<1>3. CASE RestartSucceeds \/ RestartRefused \/ RestartErrs
  <2>1. IssueRestart
    BY <1>3 DEF RestartSucceeds, RestartRefused, RestartErrs, FailedAction
  <2>2. restarted' \in {restarted, restarted \cup {open_id}}
    BY <1>3, <2>1, IssueFacts DEF RestartSucceeds, RestartRefused, RestartErrs, FailedAction
  <2>3. UNCHANGED rows
    BY <2>1 DEF IssueRestart
  <2>4. /\ Ids' = Ids /\ OpenRows' = OpenRows /\ OwnRows' = OwnRows /\ LogRows' = LogRows
    BY <2>3, SameSets
  <2>5. /\ open_id \in OwnRows /\ open_id \in Nat /\ rows[open_id].action_taken = "NULL"
        /\ Len(attempts) \in Nat
        /\ DOMAIN attempts = 1..Len(attempts)
        /\ DOMAIN attempts' = 1..(Len(attempts) + 1)
        /\ attempts'[Len(attempts) + 1] = open_id
        /\ \A k \in DOMAIN attempts : attempts'[k] = attempts[k] /\ attempts[k] < open_id
    BY <1>0, <2>1, IssueFacts
  <2>6. RestartIsOnRecord'
    <3>1. SUFFICES ASSUME NEW i \in 1..(Len(attempts) + 1)
                   PROVE  /\ attempts'[i] \in OwnRows
                          /\ \A j \in 1..(i - 1) : attempts'[j] < attempts'[i]
      BY <2>4, <2>5 DEF RestartIsOnRecord
    <3>2. RestartIsOnRecord
      BY <1>0 DEF Records
    <3>3. CASE i = Len(attempts) + 1
      BY <2>5, <3>3
    <3>4. CASE i # Len(attempts) + 1
      <4>1. i \in DOMAIN attempts /\ \A j \in 1..(i - 1) : j \in DOMAIN attempts
        BY <2>5, <3>4
      <4> QED
        BY <2>5, <3>2, <4>1 DEF RestartIsOnRecord
    <3> QED
      BY <3>3, <3>4
  <2>7. \A i : (\E k \in DOMAIN attempts : attempts[k] = i)
              => \E k \in DOMAIN attempts' : attempts'[k] = i
    BY <2>5
  <2>8. \E k \in DOMAIN attempts' : attempts'[k] = open_id
    BY <2>5
  <2>9. ActionTruthful'
    <3>1. ActionTruthful
      BY <1>0 DEF Records
    <3> QED
      BY <2>2, <2>3, <2>4, <2>5, <2>7, <3>1 DEF ActionTruthful
  <2>10. ClosedOwnRowHasAction'
    BY <1>0, <2>3, <2>4 DEF Records, ClosedOwnRowHasAction
  <2>11. \A i \in restarted' : \E k \in DOMAIN attempts' : attempts'[k] = i
    BY <1>0, <2>2, <2>7, <2>8 DEF Records
  <2> QED
    BY <2>6, <2>9, <2>10, <2>11 DEF Records
<1>4. CASE RecordAction
  <2>1. /\ incident_id = open_id /\ open_id \in OpenOwnRows /\ open_id \in Ids
        /\ \E k \in DOMAIN attempts : attempts[k] = open_id
        /\ \/ action_taken = "restarted" /\ open_id \in restarted
           \/ action_taken = "restart FAILED" /\ open_id \notin restarted
    BY <1>0, <1>4 DEF RecordAction, Control, Progress, HandlingSteps
  <2>2. SetAction(open_id, action_taken) /\ action_taken \in Actions
    BY <1>4, <2>1 DEF RecordAction, Actions
  <2>3. /\ Ids' = Ids /\ OpenRows' = OpenRows /\ OwnRows' = OwnRows /\ LogRows' = LogRows
    BY <1>0, <2>1, <2>2, SetSets
  <2>4. \A i \in Ids : rows'[i].action_taken =
                        IF i = open_id THEN action_taken ELSE rows[i].action_taken
    BY <1>0, <2>1, <2>2, SetFacts
  <2>5. UNCHANGED <<attempts, restarted>>
    BY <1>4 DEF RecordAction, historyVars
  <2>6. RestartIsOnRecord'
    BY <1>0, <2>3, <2>5 DEF Records, RestartIsOnRecord
  <2>7. ActionTruthful'
    BY <1>0, <2>1, <2>3, <2>4, <2>5 DEF Records, ActionTruthful
  <2>8. ClosedOwnRowHasAction'
    BY <1>0, <2>1, <2>3, <2>4 DEF Records, ClosedOwnRowHasAction
  <2>9. \A i \in restarted' : \E k \in DOMAIN attempts' : attempts'[k] = i
    BY <1>0, <2>5 DEF Records
  <2> QED
    BY <2>6, <2>7, <2>8, <2>9 DEF Records
<1>5. CASE IncidentAlert \/ RecoveryAlert
  BY <1>5, RecordsKept DEF IncidentAlert, RecoveryAlert
<1>6. CASE ResolveRow
  <2>1. incident_id \in OpenRows /\ incident_id \in Ids /\ ResolveIncident(incident_id)
    BY <1>0, <1>6 DEF ResolveRow, Control
  <2>2. /\ Ids' = Ids /\ OwnRows' = OwnRows /\ LogRows' = LogRows
        /\ OpenRows' = OpenRows \ {incident_id}
    BY <1>0, <2>1, ResolveSets
  <2>3. \A i \in Ids : rows'[i].action_taken = rows[i].action_taken
    BY <1>0, <2>1, ResolveFacts
  <2>4. UNCHANGED <<attempts, restarted>>
    BY <1>6 DEF ResolveRow
  <2>5. incident_id \in OwnRows => rows[incident_id].action_taken # "NULL"
    <3>1. /\ open_id # None /\ open_id \in Nat /\ incident_id >= open_id
          /\ incident_id > open_id => incident_id \in LogRows
      BY <1>0, <1>6, <2>1 DEF ResolveRow, Control, ClosingSteps
    <3>2. incident_id \in OwnRows => incident_id = open_id
      BY <1>0, <2>1, <3>1
    <3> QED
      BY <1>0, <1>6, <3>1, <3>2 DEF ResolveRow, Progress
  <2>6. ClosedOwnRowHasAction'
    BY <1>0, <2>2, <2>3, <2>5 DEF Records, ClosedOwnRowHasAction
  <2>7. RestartIsOnRecord'
    BY <1>0, <2>2, <2>4 DEF Records, RestartIsOnRecord
  <2>8. ActionTruthful'
    BY <1>0, <2>2, <2>3, <2>4 DEF Records, ActionTruthful
  <2>9. \A i \in restarted' : \E k \in DOMAIN attempts' : attempts'[k] = i
    BY <1>0, <2>4 DEF Records
  <2> QED
    BY <2>6, <2>7, <2>8, <2>9 DEF Records
<1>8. CASE Crash \/ Start \/ Fault \/ Repair
  BY <1>8, RecordsKept DEF Crash, Start, Fault, Repair, historyVars
<1>9. CASE LogWatcherOpens
  BY <1>9, RecordsOpen DEF LogWatcherOpens, Sources, historyVars
<1>10. CASE UNCHANGED vars
  BY <1>10, RecordsKept DEF vars, historyVars
<1> QED
  BY <1>1, <1>2, <1>3, <1>4, <1>5, <1>6, <1>8, <1>9, <1>10
     DEF Next, WatchdogStep, Environment

LEMMA NextIInv == IInv /\ [Next]_vars => IInv'
BY NextTypes, NextControl, NextProgress, NextRecords DEF IInv

----------------------------------------------------------------------------
\* Types are preserved, for every value of the constants.
THEOREM TypeCorrect == Spec => []TypeOK
<1>1. IInv => TypeOK
  BY DEF IInv
<1> QED
  BY <1>1, InitIInv, NextIInv, PTL DEF Spec

\* No restart without a row of its own, and never two for one row
\* (_handle_confirmed_failure and the latch of BreachMonitor).
THEOREM RestartsAreOnRecord == Spec => []RestartIsOnRecord
<1>1. IInv => RestartIsOnRecord
  BY DEF IInv, Records
<1> QED
  BY <1>1, InitIInv, NextIInv, PTL DEF Spec

\* A row claims no more and nothing else than what happened (set_action).
THEOREM RowsTellTheTruth == Spec => []ActionTruthful
<1>1. IInv => ActionTruthful
  BY DEF IInv, Records
<1> QED
  BY <1>1, InitIInv, NextIInv, PTL DEF Spec

\* No row of the watchdog's own is closed before it says what was done about it
\* (_resolve_latest_open).
THEOREM ClosedRowsSayWhatWasDone == Spec => []ClosedOwnRowHasAction
<1>1. IInv => ClosedOwnRowHasAction
  BY DEF IInv, Records
<1> QED
  BY <1>1, InitIInv, NextIInv, PTL DEF Spec

\* The branch of _handle_recovery for a missing row is dead code.
THEOREM RecoveryNeverEmpty == Spec => []RecoveryFindsARow
<1>1. IInv => RecoveryFindsARow
  BY DEF IInv, Control, ClosingSteps, RecoveryFindsARow, OpenOwnRows
<1> QED
  BY <1>1, InitIInv, NextIInv, PTL DEF Spec

----------------------------------------------------------------------------
\* Every statement appends a row, or fills in what was empty.
LEMMA StepAdvances ==
  ASSUME IInv, [Next]_vars
  PROVE  /\ Len(rows') >= Len(rows)
         /\ \A i \in Ids :
              /\ rows'[i].detected_via = rows[i].detected_via
              /\ rows[i].action_taken # "NULL" => rows'[i].action_taken = rows[i].action_taken
              /\ rows[i].resolved => rows'[i] = rows[i]
<1>0. /\ Progress /\ Control /\ TypeOK /\ LogTypeOK
      /\ OpenOwnRows \subseteq OpenRows /\ OpenRows \subseteq Ids
      /\ Ids = 1..Len(rows) /\ Len(rows) \in Nat
  BY RowFacts DEF IInv, TypeOK, OpenOwnRows, OpenRows
<1>1. CASE UNCHANGED rows
  BY <1>0, <1>1
<1>2. ASSUME NEW via \in Sources, NEW action \in Actions, OpenIncident(via, action)
      PROVE  Len(rows') >= Len(rows) /\ \A i \in Ids : rows'[i] = rows[i]
  <2>1. Len(rows') = Len(rows) + 1
    BY <1>0, <1>2 DEF OpenIncident, LogTypeOK
  <2>2. \A i \in Ids : rows'[i] = rows[i]
    BY <1>0, <1>2, OpenFacts
  <2> QED
    BY <1>0, <2>1, <2>2
<1>3. CASE OpenRow
  <2>1. DetectedVia \in Sources /\ "NULL" \in Actions
    BY DEF DetectedVia, Sources, Actions
  <2> QED
    BY <1>2, <1>3, <2>1 DEF OpenRow
<1>4. CASE LogWatcherOpens
  BY <1>2, <1>4 DEF LogWatcherOpens, Sources, Actions
<1>5. CASE RecordAction
  <2>1. /\ incident_id \in OpenRows /\ incident_id \in Ids
        /\ rows[incident_id].action_taken = "NULL"
        /\ action_taken \in Actions /\ SetAction(incident_id, action_taken)
    BY <1>0, <1>5 DEF RecordAction, Control, Progress, HandlingSteps, Actions
  <2>2. Ids' = Ids /\ LogTypeOK'
    BY <1>0, <2>1, SetFacts
  <2>3. Len(rows') = Len(rows)
    <3>1. Ids' = 1..Len(rows') /\ Len(rows') \in Nat
      BY <2>2 DEF LogTypeOK, Ids
    <3> QED
      BY <1>0, <2>2, <3>1
  <2>4. ~rows[incident_id].resolved
    BY <2>1 DEF OpenRows
  <2>5. \A i \in Ids :
          /\ rows'[i].detected_via = rows[i].detected_via
          /\ i # incident_id => rows'[i].action_taken = rows[i].action_taken
          /\ i # incident_id => rows'[i] = rows[i]
    BY <1>0, <2>1, SetFacts
  <2> QED
    BY <1>0, <2>1, <2>3, <2>4, <2>5
<1>6. CASE ResolveRow
  <2>1. incident_id \in OpenRows /\ incident_id \in Ids /\ ResolveIncident(incident_id)
    BY <1>0, <1>6 DEF ResolveRow, Control
  <2>2. Ids' = Ids /\ LogTypeOK'
    BY <1>0, <2>1, ResolveFacts
  <2>3. Len(rows') = Len(rows)
    <3>1. Ids' = 1..Len(rows') /\ Len(rows') \in Nat
      BY <2>2 DEF LogTypeOK, Ids
    <3> QED
      BY <1>0, <2>2, <3>1
  <2>4. ~rows[incident_id].resolved
    BY <2>1 DEF OpenRows
  <2>5. \A i \in Ids :
          /\ rows'[i].detected_via = rows[i].detected_via
          /\ rows'[i].action_taken = rows[i].action_taken
          /\ i # incident_id => rows'[i] = rows[i]
    BY <1>0, <2>1, ResolveFacts
  <2> QED
    BY <1>0, <2>3, <2>4, <2>5
<1>7. UNCHANGED rows \/ OpenRow \/ LogWatcherOpens \/ RecordAction \/ ResolveRow
  BY DEF Next, WatchdogStep, Environment, ContainerCheck, HealthCheck, ObserveQuietly,
     ObserveFailureConfirmed, ObserveRecovered, KeepWorld, RestartSucceeds, RestartRefused,
     RestartErrs, IssueRestart, IncidentAlert, SelectOpen, RecoveryAlert, Crash, Start, Fault,
     Repair, vars
<1> QED
  BY <1>1, <1>3, <1>4, <1>5, <1>6, <1>7

\* The incident table is a history (incidents.py).
THEOREM TableIsHistory == Spec => RowsOnlyAdvance
<1>1. IInv /\ [Next]_vars =>
        [/\ Len(rows') >= Len(rows)
         /\ \A i \in Ids :
              /\ rows'[i].detected_via = rows[i].detected_via
              /\ rows[i].action_taken # "NULL" => rows'[i].action_taken = rows[i].action_taken
              /\ rows[i].resolved => rows'[i] = rows[i]]_vars
  BY StepAdvances
<1> QED
  BY <1>1, InitIInv, NextIInv, PTL DEF Spec, RowsOnlyAdvance

----------------------------------------------------------------------------
\* The rows that a kind of message has been posted about.
Posted(kind) == PostedBefore(Len(posts) + 1, kind)

\* How the messages stand to the row the handlers work on.
Alerts ==
  /\ AlertsPaired
  /\ \A k \in DOMAIN posts : posts[k].kind = "incident" => posts[k].action_taken # "NULL"
  /\ pc \in HandlingSteps =>
       open_id \notin Posted("incident") /\ rows[open_id].detected_via = DetectedVia
  /\ open_id # None /\ pc \notin HandlingSteps /\ slack_enabled =>
       open_id \in Posted("incident")
  /\ pc = "recovery_alert" =>
       /\ incident_id \notin OpenRows \cup Posted("recovery")
       /\ slack_enabled /\ incident_id \in OwnRows => incident_id \in Posted("incident")

\* Messages are about rows, and those called recovered are closed.
LEMMA PostedFacts ==
  ASSUME posts \in Seq(Message), AlertsPaired
  PROVE  /\ \A kind : Posted(kind) \subseteq Ids
         /\ Posted("recovery") \cap OpenRows = {}
<1>1. Len(posts) \in Nat /\ DOMAIN posts = 1..Len(posts)
  OBVIOUS
<1>2. \A kind : \A id \in Posted(kind) :
        \E j \in DOMAIN posts : posts[j].kind = kind /\ posts[j].id = id
  BY <1>1 DEF Posted, PostedBefore
<1> QED
  BY <1>2 DEF AlertsPaired

\* What one more message adds, and what it leaves alone.
LEMMA PostedStep ==
  ASSUME posts \in Seq(Message), NEW m \in Message, slack_enabled, Post(m)
  PROVE  /\ \A kind : Posted(kind)' = Posted(kind) \cup (IF m.kind = kind THEN {m.id} ELSE {})
         /\ \A kind : \A k \in 1..(Len(posts) + 1) :
              PostedBefore(k, kind)' = PostedBefore(k, kind)
<1>1. /\ Len(posts) \in Nat /\ Len(posts') = Len(posts) + 1
      /\ \A k \in 1..Len(posts) : posts'[k] = posts[k]
      /\ posts'[Len(posts) + 1] = m
  BY PostFacts
<1>2. ASSUME NEW kind, NEW k \in 1..(Len(posts) + 1)
      PROVE  PostedBefore(k, kind)' = PostedBefore(k, kind)
  <2>1. \A j \in 1..(k - 1) : j \in 1..Len(posts) /\ posts'[j] = posts[j]
    BY <1>1, <1>2
  <2> QED
    BY <2>1 DEF PostedBefore
<1>3. ASSUME NEW kind
      PROVE  Posted(kind)' = Posted(kind) \cup (IF m.kind = kind THEN {m.id} ELSE {})
  <2> DEFINE J == {j \in 1..Len(posts) : posts[j].kind = kind}
             K == {j \in 1..(Len(posts) + 1) : posts'[j].kind = kind}
  <2>1. K = J \cup (IF m.kind = kind THEN {Len(posts) + 1} ELSE {})
    BY <1>1
  <2>2. Posted(kind) = {posts[j].id : j \in J} /\ Posted(kind)' = {posts'[j].id : j \in K}
    BY <1>1 DEF Posted, PostedBefore
  <2>3. \A j \in J : posts'[j] = posts[j]
    BY <1>1
  <2> HIDE DEF J, K
  <2> QED
    BY <1>1, <2>1, <2>2, <2>3
<1> QED
  BY <1>2, <1>3

\* Rows are never taken away.
LEMMA NextIds ==
  ASSUME IInv, [Next]_vars
  PROVE  Ids \subseteq Ids'
<1>1. Ids = 1..Len(rows) /\ Len(rows) \in Nat
  BY RowFacts DEF IInv, TypeOK
<1>2. Ids' = 1..Len(rows') /\ Len(rows') \in Nat
  BY NextTypes DEF TypeOK, LogTypeOK, Ids
<1> QED
  BY <1>1, <1>2, StepAdvances

\* The messages posted so far stay true of the table.
LEMMA OldMessages ==
  ASSUME IInv, Alerts, [Next]_vars, NEW k \in DOMAIN posts
  PROVE  LET m == posts[k]
         IN  /\ m.id \in Ids'
             /\ m.kind = "incident" =>
                  /\ m.id \in OwnRows'
                  /\ m.detected_via = rows'[m.id].detected_via
                  /\ m.action_taken = rows'[m.id].action_taken
             /\ m.kind = "recovery" =>
                  /\ m.id \notin OpenRows'
                  /\ m.id \in OwnRows' => m.id \in PostedBefore(k, "incident")
<1> DEFINE m == posts[k]
<1>1. /\ m.id \in Ids
      /\ m.kind = "incident" => /\ m.id \in OwnRows
                                /\ m.detected_via = rows[m.id].detected_via
                                /\ m.action_taken = rows[m.id].action_taken
                                /\ m.action_taken # "NULL"
      /\ m.kind = "recovery" => /\ m.id \notin OpenRows
                                /\ m.id \in OwnRows => m.id \in PostedBefore(k, "incident")
  BY DEF Alerts, AlertsPaired
<1> HIDE DEF m
<1>2. /\ Ids \subseteq Ids'
      /\ rows'[m.id].detected_via = rows[m.id].detected_via
      /\ rows[m.id].action_taken # "NULL" => rows'[m.id].action_taken = rows[m.id].action_taken
      /\ rows[m.id].resolved => rows'[m.id] = rows[m.id]
  BY <1>1, NextIds, StepAdvances
<1>3. m.id \in OwnRows <=> m.id \in OwnRows'
  BY <1>1, <1>2 DEF OwnRows
<1>4. m.id \notin OpenRows => m.id \notin OpenRows'
  BY <1>1, <1>2 DEF OpenRows
<1> QED
  BY <1>1, <1>2, <1>3, <1>4 DEF m

\* Steps that post nothing, and neither open nor leave a handler.
LEMMA AlertsKept ==
  ASSUME IInv, Alerts, [Next]_vars, UNCHANGED <<posts, open_id>>,
         pc \in HandlingSteps <=> pc' \in HandlingSteps,
         pc \in HandlingSteps => verdict' = verdict,
         pc' = "recovery_alert" => pc = "recovery_alert" /\ incident_id' = incident_id
  PROVE  Alerts'
<1>1. AlertsPaired'
  BY OldMessages DEF Alerts, AlertsPaired, PostedBefore
<1>2. Posted("incident")' = Posted("incident") /\ Posted("recovery")' = Posted("recovery")
  BY DEF Posted, PostedBefore
<1>3. open_id # None => open_id \in Ids /\ rows'[open_id].detected_via = rows[open_id].detected_via
  BY StepAdvances DEF IInv, Control, OpenOwnRows, OpenRows
<1>4. pc \in HandlingSteps => open_id # None
  BY DEF IInv, Control
<1>5. pc = "recovery_alert" /\ incident_id \notin OpenRows =>
        incident_id \notin OpenRows' /\ (incident_id \in OwnRows' => incident_id \in OwnRows)
  <2>1. pc = "recovery_alert" => incident_id \in Ids
    BY DEF IInv, Control
  <2>2. incident_id \in Ids =>
          /\ rows'[incident_id].detected_via = rows[incident_id].detected_via
          /\ rows[incident_id].resolved => rows'[incident_id] = rows[incident_id]
    BY StepAdvances
  <2> QED
    BY <2>1, <2>2 DEF OpenRows, OwnRows
<1> QED
  BY <1>1, <1>2, <1>3, <1>4, <1>5 DEF Alerts, DetectedVia

\* A message that is true of the table may be added to those before it.
LEMMA NewMessage ==
  ASSUME IInv, Alerts, [Next]_vars, UNCHANGED rows, slack_enabled,
         NEW m \in Message, Post(m),
         m.id \in Ids, m.id \notin Posted(m.kind),
         m.kind = "incident" => /\ m.id \in OwnRows /\ m.action_taken # "NULL"
                                /\ m.detected_via = rows[m.id].detected_via
                                /\ m.action_taken = rows[m.id].action_taken,
         m.kind = "recovery" => /\ m.id \notin OpenRows
                                /\ m.id \in OwnRows => m.id \in Posted("incident")
  PROVE  /\ AlertsPaired'
         /\ \A k \in DOMAIN posts' :
              posts'[k].kind = "incident" => posts'[k].action_taken # "NULL"
<1>1. posts \in Seq(Message) /\ Len(posts) \in Nat /\ DOMAIN posts = 1..Len(posts)
  BY DEF IInv, TypeOK
<1>2. /\ DOMAIN posts' = 1..(Len(posts) + 1)
      /\ \A k \in 1..Len(posts) : posts'[k] = posts[k]
      /\ posts'[Len(posts) + 1] = m
  BY <1>1, PostFacts
<1>3. \A kind : \A k \in 1..(Len(posts) + 1) : PostedBefore(k, kind)' = PostedBefore(k, kind)
  BY <1>1, PostedStep
<1>4. UNCHANGED <<Ids, OpenRows, OwnRows>>
  BY SameSets
<1>5. ASSUME NEW k \in 1..Len(posts)
      PROVE  /\ posts[k].id \in Ids'
             /\ \A kind : kind = posts[k].kind => posts[k].id \notin PostedBefore(k, kind)'
             /\ posts[k].kind = "incident" =>
                  /\ posts[k].id \in OwnRows'
                  /\ posts[k].detected_via = rows'[posts[k].id].detected_via
                  /\ posts[k].action_taken = rows'[posts[k].id].action_taken
             /\ posts[k].kind = "recovery" =>
                  /\ posts[k].id \notin OpenRows'
                  /\ posts[k].id \in OwnRows' => posts[k].id \in PostedBefore(k, "incident")'
  <2>1. k \in DOMAIN posts /\ k \in 1..(Len(posts) + 1)
    BY <1>1
  <2>2. \A kind : PostedBefore(k, kind)' = PostedBefore(k, kind)
    BY <1>3, <2>1
  <2>3. posts[k].id \notin PostedBefore(k, posts[k].kind)
    BY <2>1 DEF Alerts, AlertsPaired
  <2> QED
    BY <2>1, <2>2, <2>3, OldMessages
<1>6. \A n : n = Len(posts) + 1 => \A kind : PostedBefore(n, kind)' = Posted(kind)
  BY <1>1, <1>3 DEF Posted
<1>7. AlertsPaired'
  <2>1. SUFFICES ASSUME NEW k \in 1..(Len(posts) + 1)
                 PROVE  LET p == posts'[k]
                        IN  /\ p.id \in Ids'
                            /\ \A kind : kind = p.kind => p.id \notin PostedBefore(k, kind)'
                            /\ p.kind = "incident" =>
                                 /\ p.id \in OwnRows'
                                 /\ p.detected_via = rows'[p.id].detected_via
                                 /\ p.action_taken = rows'[p.id].action_taken
                            /\ p.kind = "recovery" =>
                                 /\ p.id \notin OpenRows'
                                 /\ p.id \in OwnRows' => p.id \in PostedBefore(k, "incident")'
    BY <1>2 DEF AlertsPaired
  <2>2. CASE k = Len(posts) + 1
    BY <1>2, <1>4, <1>6, <2>2
  <2>3. CASE k # Len(posts) + 1
    <3>1. k \in 1..Len(posts) /\ posts'[k] = posts[k]
      BY <1>1, <1>2, <2>3
    <3> QED
      BY <1>5, <3>1
  <2> QED
    BY <2>2, <2>3
<1>8. \A k \in DOMAIN posts' : posts'[k].kind = "incident" => posts'[k].action_taken # "NULL"
  BY <1>1, <1>2 DEF Alerts
<1> QED
  BY <1>7, <1>8

LEMMA NextAlerts ==
  ASSUME IInv, Alerts, [Next]_vars
  PROVE  Alerts'
<1>0. /\ TypeOK /\ LogTypeOK /\ posts \in Seq(Message) /\ Control /\ Progress
      /\ OpenOwnRows = OpenRows \cap OwnRows /\ OpenRows \subseteq Ids /\ Ids \subseteq Nat
      /\ LogRows = Ids \ OwnRows
  BY RowFacts DEF IInv, TypeOK, OpenOwnRows, OpenRows, LogRows
<1>1. CASE \/ ContainerCheck \/ HealthCheck \/ ObserveQuietly
           \/ ObserveFailureConfirmed \/ ObserveRecovered \/ SelectOpen
  BY <1>1, AlertsKept
     DEF ContainerCheck, HealthCheck, ObserveQuietly, ObserveFailureConfirmed, ObserveRecovered,
         SelectOpen, KeepWorld, historyVars, HandlingSteps
<1>2. CASE RestartSucceeds \/ RestartRefused \/ RestartErrs
  <2>1. IssueRestart
    BY <1>2 DEF RestartSucceeds, RestartRefused, RestartErrs
  <2> QED
    BY <2>1, AlertsKept DEF IssueRestart, HandlingSteps
<1>3. CASE RecordAction
  BY <1>3, AlertsKept DEF RecordAction, historyVars, HandlingSteps
<1>4. CASE Start \/ LogWatcherOpens \/ Fault \/ Repair \/ UNCHANGED vars
  BY <1>4, AlertsKept
     DEF Start, LogWatcherOpens, Fault, Repair, processVars, historyVars, vars, HandlingSteps
<1>5. CASE OpenRow
  <2>1. AlertsPaired'
    BY <1>5, OldMessages DEF OpenRow, Alerts, AlertsPaired, PostedBefore
  <2>2. Posted("incident")' = Posted("incident")
    BY <1>5 DEF OpenRow, Posted, PostedBefore
  <2>3. /\ Len(rows) + 1 \notin Ids
        /\ rows'[Len(rows) + 1] =
             [detected_via |-> DetectedVia, action_taken |-> "NULL", resolved |-> FALSE]
    BY <1>0, <1>5, OpenFacts DEF OpenRow, DetectedVia, Sources, Actions
  <2>4. rows'[Len(rows) + 1].detected_via = DetectedVia /\ DetectedVia' = DetectedVia
    BY <1>5, <2>3 DEF OpenRow, DetectedVia
  <2>5. Len(rows) + 1 \notin Posted("incident")
    BY <1>0, <2>3, PostedFacts DEF Alerts
  <2> QED
    BY <1>5, <2>1, <2>2, <2>4, <2>5 DEF Alerts, OpenRow, HandlingSteps
<1>6. CASE IncidentAlert
  <2> DEFINE m == IncidentMessage
  <2>1. m \in Message /\ m.kind = "incident" /\ m.id = open_id
        /\ m.detected_via = rows[open_id].detected_via
        /\ m.action_taken = rows[open_id].action_taken /\ m.action_taken # "NULL"
    BY <1>0, <1>6, MessageTypes
       DEF IncidentAlert, IncidentMessage, Alerts, Control, Progress, HandlingSteps
  <2>2. /\ Post(m) /\ UNCHANGED <<rows, open_id>> /\ pc' = "container_check"
        /\ open_id \in OwnRows /\ open_id \in Ids
        /\ open_id \notin Posted("incident")
    BY <1>0, <1>6 DEF IncidentAlert, Alerts, Control, HandlingSteps
  <2> HIDE DEF m
  <2>3. CASE ~slack_enabled
    <3>1. posts' = posts
      BY <1>0, <2>1, <2>2, <2>3, PostFacts
    <3> QED
      BY <2>2, <2>3, <3>1, OldMessages
         DEF Alerts, AlertsPaired, Posted, PostedBefore, HandlingSteps
  <2>4. CASE slack_enabled
    <3>1. AlertsPaired' /\ \A k \in DOMAIN posts' :
                             posts'[k].kind = "incident" => posts'[k].action_taken # "NULL"
      BY <1>0, <2>1, <2>2, <2>4, NewMessage, SameSets
    <3>2. Posted("incident")' = Posted("incident") \cup {open_id}
      BY <1>0, <2>1, <2>2, <2>4, PostedStep
    <3> QED
      BY <2>2, <3>1, <3>2 DEF Alerts, HandlingSteps
  <2> QED
    BY <2>3, <2>4
<1>7. CASE ResolveRow
  <2>1. AlertsPaired'
    BY <1>7, OldMessages DEF ResolveRow, Alerts, AlertsPaired, PostedBefore
  <2>2. Posted("incident")' = Posted("incident") /\ Posted("recovery")' = Posted("recovery")
    BY <1>7 DEF ResolveRow, Posted, PostedBefore
  <2>3. /\ incident_id \in OpenRows /\ incident_id \in Ids
        /\ open_id # None /\ incident_id >= open_id
        /\ incident_id > open_id => incident_id \in LogRows
        /\ slack_enabled => open_id \in Posted("incident")
    BY <1>0, <1>7 DEF ResolveRow, Alerts, Control, ClosingSteps, HandlingSteps
  <2>4. OwnRows' = OwnRows /\ OpenRows' = OpenRows \ {incident_id}
    BY <1>0, <1>7, <2>3, ResolveSets DEF ResolveRow
  <2>5. incident_id \notin Posted("recovery")
    BY <1>0, <2>3, PostedFacts DEF Alerts
  <2>6. slack_enabled /\ incident_id \in OwnRows => incident_id \in Posted("incident")
    <3>1. open_id \in Nat /\ incident_id \in Nat
      BY <1>0, <2>3 DEF Control
    <3> QED
      BY <1>0, <2>3, <3>1
  <2> QED
    BY <1>7, <2>1, <2>2, <2>4, <2>5, <2>6 DEF Alerts, ResolveRow, HandlingSteps
<1>8. CASE RecoveryAlert
  <2> DEFINE m == RecoveryMessage
  <2>1. m \in Message /\ m.kind = "recovery" /\ m.id = incident_id
    BY <1>0, <1>8, MessageTypes DEF RecoveryAlert, RecoveryMessage, Control
  <2>2. /\ Post(m) /\ UNCHANGED <<rows, open_id>> /\ pc' = "container_check"
        /\ pc \notin HandlingSteps /\ incident_id \in Ids
        /\ incident_id \notin OpenRows \cup Posted("recovery")
        /\ slack_enabled /\ incident_id \in OwnRows => incident_id \in Posted("incident")
    BY <1>0, <1>8 DEF RecoveryAlert, Alerts, Control, HandlingSteps
  <2> HIDE DEF m
  <2>3. CASE ~slack_enabled
    <3>1. posts' = posts
      BY <1>0, <2>1, <2>2, <2>3, PostFacts
    <3> QED
      BY <2>2, <2>3, <3>1, OldMessages
         DEF Alerts, AlertsPaired, Posted, PostedBefore, HandlingSteps
  <2>4. CASE slack_enabled
    <3>1. AlertsPaired' /\ \A k \in DOMAIN posts' :
                             posts'[k].kind = "incident" => posts'[k].action_taken # "NULL"
      BY <1>0, <2>1, <2>2, <2>4, NewMessage, SameSets
    <3>2. Posted("incident")' = Posted("incident")
      <4>1. Posted("incident")' =
              Posted("incident") \cup (IF m.kind = "incident" THEN {m.id} ELSE {})
        BY <1>0, <2>1, <2>2, <2>4, PostedStep
      <4> QED
        BY <2>1, <4>1
    <3> QED
      BY <2>2, <3>1, <3>2 DEF Alerts, HandlingSteps
  <2> QED
    BY <2>3, <2>4
<1>9. CASE Crash
  <2>1. AlertsPaired' /\ posts' = posts
    BY <1>9, OldMessages DEF Crash, Alerts, AlertsPaired, PostedBefore
  <2> QED
    BY <1>9, <2>1 DEF Alerts, Crash, HandlingSteps
<1> QED
  BY <1>1, <1>2, <1>3, <1>4, <1>5, <1>6, <1>7, <1>8, <1>9 DEF Next, WatchdogStep, Environment

\* Slack is told what the table says, and a recovery only after its incident
\* (notify.py, and the two handlers of __main__.py).
THEOREM AlertsComeInPairs == Spec => []AlertsPaired
<1>1. Init => Alerts
  BY DEF Init, Alerts, AlertsPaired, HandlingSteps
<1>2. IInv /\ Alerts /\ [Next]_vars => Alerts'
  BY NextAlerts
<1>3. Alerts => AlertsPaired
  BY DEF Alerts
<1> QED
  BY <1>1, <1>2, <1>3, InitIInv, NextIInv, PTL DEF Spec

----------------------------------------------------------------------------
\* What becomes of the incidents.

Orphans == OpenOwnRows \ {open_id}
ClosedLogRows == LogRows \ OpenRows

LEMMA RowSetsFinite ==
  ASSUME LogTypeOK
  PROVE  \A S \in SUBSET Ids : IsFiniteSet(S) /\ Cardinality(S) \in Nat
<1>1. Len(rows) \in Nat /\ Ids = 1..Len(rows)
  BY RowFacts
<1>2. IsFiniteSet(Ids)
  BY <1>1, FS_Interval
<1> QED
  BY <1>2, FS_Subset, FS_CardinalityType

LEMMA NoneIsNoId == None \notin Nat
<1>1. Nat \subseteq Int
  OBVIOUS
<1> QED
  BY <1>1, NoneAssumption

\* How a step changes the two sets that are counted.
LEMMA OrphanStep ==
  ASSUME IInv, [Next]_vars
  PROVE  \/ /\ Orphans' = Orphans /\ ClosedLogRows' = ClosedLogRows /\ crashes' = crashes
         \/ /\ Orphans' \subseteq Orphans \cup {open_id} /\ ClosedLogRows' = ClosedLogRows
            /\ crashes' = crashes + 1
         \/ /\ Orphans' \subseteq Orphans \cup {open_id} /\ crashes' = crashes
            /\ \E i \in Ids \ ClosedLogRows : ClosedLogRows' = ClosedLogRows \cup {i}
<1>0. /\ Control /\ TypeOK /\ LogTypeOK
      /\ OpenOwnRows = OpenRows \cap OwnRows /\ OpenOwnRows' = OpenRows' \cap OwnRows'
      /\ OpenRows \subseteq Ids /\ OwnRows \subseteq Ids /\ Ids \subseteq Nat
      /\ LogRows = Ids \ OwnRows
  BY RowFacts DEF IInv, TypeOK, OpenOwnRows, OpenRows, OwnRows, LogRows
<1> USE DEF Orphans, ClosedLogRows
<1>1. CASE UNCHANGED <<rows, open_id, crashes>>
  BY <1>1, SameSets
<1>2. CASE OpenRow
  <2>1. /\ OpenRows' = OpenRows \cup {Len(rows) + 1}
        /\ OwnRows' = OwnRows \cup {Len(rows) + 1} /\ LogRows' = LogRows
    BY <1>0, <1>2, OpenSets DEF OpenRow, DetectedVia, Sources, Actions
  <2>2. Len(rows) + 1 \notin Ids
    BY <1>0, RowFacts
  <2>3. open_id = None /\ open_id' = Len(rows) + 1 /\ crashes' = crashes
    BY <1>0, <1>2 DEF OpenRow, Control
  <2>4. None \notin Ids
    BY <1>0, NoneIsNoId
  <2> QED
    BY <1>0, <2>1, <2>2, <2>3, <2>4
<1>3. CASE RecordAction
  <2>1. incident_id \in Ids /\ action_taken \in Actions
    BY <1>0, <1>3 DEF RecordAction, IInv, Control, Progress, HandlingSteps, Actions
  <2>2. UNCHANGED <<OpenRows, LogRows, OpenOwnRows>>
    BY <1>0, <1>3, <2>1, SetSets DEF RecordAction
  <2> QED
    BY <1>3, <2>2 DEF RecordAction, historyVars
<1>4. CASE ResolveRow
  <2>1. /\ incident_id \in OpenRows /\ incident_id \in Ids /\ ResolveIncident(incident_id)
        /\ open_id' = None /\ crashes' = crashes
        /\ open_id \in OpenOwnRows /\ incident_id >= open_id
        /\ \A i \in Ids : i > open_id => i \in LogRows
    BY <1>0, <1>4 DEF ResolveRow, Control, ClosingSteps
  <2>2. /\ OwnRows' = OwnRows /\ LogRows' = LogRows /\ OpenRows' = OpenRows \ {incident_id}
    BY <1>0, <2>1, ResolveSets
  <2>3. None \notin Ids
    BY <1>0, NoneIsNoId
  <2>4. CASE incident_id = open_id
    BY <1>0, <2>1, <2>2, <2>3, <2>4
  <2>5. CASE incident_id # open_id
    <3>1. incident_id \in LogRows
      BY <1>0, <2>1, <2>5
    <3>2. ClosedLogRows' = ClosedLogRows \cup {incident_id} /\ incident_id \notin ClosedLogRows
      BY <1>0, <2>1, <2>2, <3>1
    <3>3. OpenOwnRows' = OpenOwnRows
      BY <1>0, <2>2, <3>1
    <3> QED
      BY <2>1, <3>2, <3>3
  <2> QED
    BY <2>4, <2>5
<1>5. CASE Crash
  <2>1. OpenOwnRows' = OpenOwnRows /\ OpenRows' = OpenRows /\ LogRows' = LogRows
    BY <1>5, SameSets DEF Crash
  <2> QED
    BY <1>5, <2>1 DEF Crash
<1>6. CASE LogWatcherOpens
  <2>1. /\ OpenRows' = OpenRows \cup {Len(rows) + 1}
        /\ OwnRows' = OwnRows /\ LogRows' = LogRows \cup {Len(rows) + 1}
    BY <1>0, <1>6, OpenSets DEF LogWatcherOpens, Sources, Actions
  <2>2. Len(rows) + 1 \notin Ids
    BY <1>0, RowFacts
  <2>3. open_id' = open_id /\ crashes' = crashes
    BY <1>6 DEF LogWatcherOpens, historyVars
  <2> QED
    BY <1>0, <2>1, <2>2, <2>3
<1>7. \/ UNCHANGED <<rows, open_id, crashes>> \/ OpenRow \/ RecordAction \/ ResolveRow
      \/ Crash \/ LogWatcherOpens
  BY DEF Next, WatchdogStep, Environment, ContainerCheck, HealthCheck, ObserveQuietly,
     ObserveFailureConfirmed, ObserveRecovered, KeepWorld, RestartSucceeds, RestartRefused,
     RestartErrs, IssueRestart, IncidentAlert, SelectOpen, RecoveryAlert, Start, Fault,
     Repair, vars, historyVars
<1> QED
  BY <1>1, <1>2, <1>3, <1>4, <1>5, <1>6, <1>7

\* Incidents are orphaned by deaths of the process and by recoveries that close
\* a row of the log-watcher, and by nothing else.
THEOREM OrphansCounted == Spec => []OrphansAccountedFor
<1>1. Init => OrphansAccountedFor
  <2>1. SUFFICES ASSUME Init PROVE OrphansAccountedFor
    OBVIOUS
  <2>2. Ids = {}
    BY <2>1 DEF Init, Ids
  <2>3. OpenOwnRows \ {open_id} = {} /\ LogRows \ OpenRows = {} /\ crashes = 0
    BY <2>1, <2>2 DEF Init, OpenOwnRows, OpenRows, LogRows
  <2> QED
    BY <2>3, FS_EmptySet DEF OrphansAccountedFor
<1>2. IInv /\ IInv' /\ OrphansAccountedFor /\ [Next]_vars => OrphansAccountedFor'
  <2> SUFFICES ASSUME IInv, IInv', OrphansAccountedFor, [Next]_vars
               PROVE  OrphansAccountedFor'
    OBVIOUS
  <2>1. /\ Orphans \in SUBSET Ids /\ ClosedLogRows \in SUBSET Ids
        /\ Orphans' \in SUBSET Ids' /\ ClosedLogRows' \in SUBSET Ids'
    BY DEF Orphans, ClosedLogRows, OpenOwnRows, OpenRows, LogRows
  <2>2. LogTypeOK /\ LogTypeOK' /\ crashes \in Nat /\ crashes' \in Nat
    BY BoundAssumption DEF IInv, TypeOK
  <2>3. /\ IsFiniteSet(Orphans) /\ Cardinality(Orphans) \in Nat
        /\ IsFiniteSet(ClosedLogRows) /\ Cardinality(ClosedLogRows) \in Nat
    BY <2>1, <2>2, RowSetsFinite
  <2>4. Cardinality(Orphans) <= crashes + Cardinality(ClosedLogRows)
    BY DEF OrphansAccountedFor, Orphans, ClosedLogRows
  <2>5. ASSUME Orphans' \subseteq Orphans \cup {open_id}
        PROVE  Cardinality(Orphans') \in Nat /\ Cardinality(Orphans') <= Cardinality(Orphans) + 1
    <3>1. IsFiniteSet(Orphans \cup {open_id})
          /\ Cardinality(Orphans \cup {open_id}) \in {Cardinality(Orphans), Cardinality(Orphans) + 1}
      BY <2>3, FS_AddElement
    <3>2. /\ IsFiniteSet(Orphans') /\ Cardinality(Orphans') <= Cardinality(Orphans \cup {open_id})
      BY <2>5, <3>1, FS_Subset
    <3>3. Cardinality(Orphans') \in Nat
      BY <3>2, FS_CardinalityType
    <3> QED
      BY <2>3, <3>1, <3>2, <3>3
  <2>6. Cardinality(Orphans') <= crashes' + Cardinality(ClosedLogRows')
    <3>1. CASE Orphans' = Orphans /\ ClosedLogRows' = ClosedLogRows /\ crashes' = crashes
      BY <2>4, <3>1
    <3>2. CASE /\ Orphans' \subseteq Orphans \cup {open_id} /\ ClosedLogRows' = ClosedLogRows
               /\ crashes' = crashes + 1
      BY <2>2, <2>3, <2>4, <2>5, <3>2
    <3>3. CASE /\ Orphans' \subseteq Orphans \cup {open_id} /\ crashes' = crashes
               /\ \E i \in Ids \ ClosedLogRows : ClosedLogRows' = ClosedLogRows \cup {i}
      <4>1. Cardinality(ClosedLogRows') = Cardinality(ClosedLogRows) + 1
        BY <2>3, <3>3, FS_AddElement
      <4> QED
        BY <2>2, <2>3, <2>4, <2>5, <3>3, <4>1
    <3> QED
      BY <3>1, <3>2, <3>3, OrphanStep
  <2> QED
    BY <2>6 DEF OrphansAccountedFor, Orphans, ClosedLogRows
<1> QED
  BY <1>1, <1>2, InitIInv, NextIInv, PTL DEF Spec

----------------------------------------------------------------------------
LEMMA RowClosed ==
  ASSUME IInv, pc = "resolve"
  PROVE  /\ open_id \in OpenOwnRows
         /\ incident_id \in OpenRows
         /\ incident_id = open_id \/ (incident_id \in LogRows /\ incident_id > open_id)
<1>1. /\ open_id # None /\ incident_id \in OpenRows /\ incident_id >= open_id
      /\ open_id \in OpenOwnRows /\ \A i \in Ids : i > open_id => i \in LogRows
  BY DEF IInv, Control, ClosingSteps
<1>2. incident_id \in Ids /\ incident_id \in Nat /\ open_id \in Nat
  BY <1>1, RowFacts DEF IInv, TypeOK, OpenOwnRows, OpenRows
<1> QED
  BY <1>1, <1>2

\* Recovery closes the row of its own process or a newer one of the
\* log-watcher, so what earlier processes left behind stays as they left it.
THEOREM OrphansSpared == Spec => []RecoverySparesOrphans
<1>1. IInv => RecoverySparesOrphans
  BY RowClosed DEF RecoverySparesOrphans
<1> QED
  BY <1>1, InitIInv, NextIInv, PTL DEF Spec

----------------------------------------------------------------------------
\* Without a log-watcher no row is its.
Alone == LogRows = {}

LEMMA AloneInvariant ==
  ASSUME MaxLogRows = 0
  PROVE  /\ Init => Alone
         /\ IInv /\ Alone /\ [Next]_vars => Alone'
<1>1. Init => Alone
  BY DEF Init, Alone, LogRows, Ids
<1>2. ASSUME IInv, Alone, [Next]_vars PROVE Alone'
  <2>0. TypeOK /\ LogTypeOK /\ Control /\ Progress
    BY <1>2 DEF IInv, TypeOK
  <2>1. ~LogWatcherOpens
    <3>1. {i \in Ids : rows[i].detected_via = "log-watcher"} \in SUBSET Ids
      OBVIOUS
    <3>2. Cardinality({i \in Ids : rows[i].detected_via = "log-watcher"}) \in Nat
      BY <2>0, <3>1, RowSetsFinite
    <3> QED
      BY <3>2 DEF LogWatcherOpens
  <2>2. CASE UNCHANGED rows
    BY <1>2, <2>2, SameSets DEF Alone
  <2>3. CASE OpenRow
    BY <1>2, <2>0, <2>3, OpenSets DEF OpenRow, DetectedVia, Sources, Actions, Alone
  <2>4. CASE RecordAction
    <3>1. incident_id \in Ids /\ action_taken \in Actions
      BY <2>0, <2>4 DEF RecordAction, Control, Progress, HandlingSteps, Actions,
                        OpenOwnRows, OpenRows
    <3> QED
      BY <1>2, <2>0, <2>4, <3>1, SetSets DEF RecordAction, Alone
  <2>5. CASE ResolveRow
    <3>1. incident_id \in Ids
      BY <2>0, <2>5 DEF ResolveRow, Control, OpenRows
    <3> QED
      BY <1>2, <2>0, <2>5, <3>1, ResolveSets DEF ResolveRow, Alone
  <2>6. UNCHANGED rows \/ OpenRow \/ RecordAction \/ ResolveRow
    BY <1>2, <2>1
       DEF Next, WatchdogStep, Environment, ContainerCheck, HealthCheck, ObserveQuietly,
       ObserveFailureConfirmed, ObserveRecovered, KeepWorld, RestartSucceeds, RestartRefused,
       RestartErrs, IssueRestart, IncidentAlert, SelectOpen, RecoveryAlert, Crash, Start, Fault,
       Repair, vars
  <2> QED
    BY <2>2, <2>3, <2>4, <2>5, <2>6
<1> QED
  BY <1>1, <1>2

LEMMA OwnRowIsNewest ==
  ASSUME IInv, Alone
  PROVE  RecoveryClosesOwnIncident
<1>1. SUFFICES ASSUME pc = "resolve" PROVE incident_id = open_id
  BY DEF RecoveryClosesOwnIncident
<1>2. /\ open_id \in Nat /\ incident_id \in Ids /\ incident_id >= open_id /\ incident_id \in Nat
      /\ ~(incident_id > open_id)
  BY <1>1, RowFacts DEF IInv, TypeOK, Control, Alone, ClosingSteps, OpenOwnRows, OpenRows
<1> QED
  BY <1>2

\* With the watchdog as the only writer, however often it dies, a recovery
\* closes the incident its own process opened: the claim of
\* _resolve_latest_open, under the assumption it needs.
THEOREM RecoveryIsOwn ==
  ASSUME MaxLogRows = 0
  PROVE  Spec => []RecoveryClosesOwnIncident
<1>1. Init => Alone
  BY AloneInvariant
<1>2. IInv /\ Alone /\ [Next]_vars => Alone'
  BY AloneInvariant
<1>3. IInv /\ Alone => RecoveryClosesOwnIncident
  BY OwnRowIsNewest
<1> QED
  BY <1>1, <1>2, <1>3, InitIInv, NextIInv, PTL DEF Spec

\* An incident is closed by the good poll that reaches the threshold.
Pending == incident_open => consecutive_successes < recovery_threshold

LEMMA NextPending ==
  ASSUME Pending, [Next]_vars
  PROVE  Pending'
<1> USE ThresholdAssumption DEF Pending
<1>1. CASE ObserveQuietly
  <2>1. incident_open' = incident_open
    BY <1>1 DEF ObserveQuietly, StillHealthy, RecoveryPending, FailureWhileOpen, StillBreaching,
                KeepIncident
  <2>2. CASE FailureWhileOpen
    BY <2>2 DEF FailureWhileOpen, CountFailure
  <2>3. CASE RecoveryPending
    BY <2>3 DEF RecoveryPending, CountSuccess
  <2>4. CASE StillHealthy \/ StillBreaching
    BY <2>1, <2>4 DEF StillHealthy, StillBreaching
  <2> QED
    BY <1>1, <2>2, <2>3, <2>4 DEF ObserveQuietly
<1>2. CASE ObserveFailureConfirmed
  BY <1>2 DEF ObserveFailureConfirmed, FailureConfirmed, CountFailure
<1>3. CASE ObserveRecovered
  BY <1>3 DEF ObserveRecovered, Recovered
<1>4. CASE Crash
  BY <1>4 DEF Crash
<1>5. CASE UNCHANGED monitorVars
  BY <1>5 DEF monitorVars
<1>6. \/ ObserveQuietly \/ ObserveFailureConfirmed \/ ObserveRecovered \/ Crash
      \/ UNCHANGED monitorVars
  BY DEF Next, WatchdogStep, Environment, ContainerCheck, HealthCheck, OpenRow, RestartSucceeds,
         RestartRefused, RestartErrs, IssueRestart, RecordAction, IncidentAlert, SelectOpen,
         ResolveRow, RecoveryAlert, Start, LogWatcherOpens, Fault, Repair, vars
<1> QED
  BY <1>1, <1>2, <1>3, <1>4, <1>5, <1>6

\* In one life of a watchdog that is the only writer, what the monitor takes
\* for healthy has no open incident (observe() and the two handlers).
THEOREM HealthyIsClosed ==
  ASSUME MaxLogRows = 0, MaxCrashes = 0
  PROVE  Spec => []HealthyMeansClosed
<1>1. Init => Pending
  BY DEF Init, MonitorInit, Pending
<1>2. Pending /\ [Next]_vars => Pending'
  BY NextPending
<1>3. Init => Alone
  BY AloneInvariant
<1>4. IInv /\ Alone /\ [Next]_vars => Alone'
  BY AloneInvariant
<1>5. IInv /\ Pending /\ Alone /\ OrphansAccountedFor => HealthyMeansClosed
  <2>1. SUFFICES ASSUME IInv, Pending, Alone, OrphansAccountedFor,
                        pc = "container_check", consecutive_successes >= recovery_threshold
                 PROVE  OpenOwnRows = {}
    BY DEF HealthyMeansClosed
  <2>2. consecutive_successes \in Nat /\ LogTypeOK /\ crashes = 0
    BY <2>1, CapAssumption DEF IInv, TypeOK, MonitorTypeOK
  <2>3. open_id = None
    BY <2>1, <2>2, ThresholdAssumption DEF IInv, Control, ClosingSteps, Pending
  <2>4. OpenOwnRows \subseteq Ids /\ Ids \subseteq Nat
    BY <2>2, RowFacts DEF OpenOwnRows, OpenRows
  <2>5. OpenOwnRows \ {open_id} = OpenOwnRows
    BY <2>3, <2>4, NoneIsNoId
  <2>6. IsFiniteSet(OpenOwnRows) /\ Cardinality(OpenOwnRows) \in Nat
    BY <2>2, <2>4, RowSetsFinite
  <2>7. LogRows \ OpenRows = {}
    BY <2>1 DEF Alone
  <2>8. Cardinality(OpenOwnRows) <= 0
    BY <2>1, <2>2, <2>5, <2>7, FS_EmptySet DEF OrphansAccountedFor
  <2> QED
    BY <2>6, <2>8, FS_EmptySet
<1> QED
  BY <1>1, <1>2, <1>3, <1>4, <1>5, InitIInv, NextIInv, OrphansCounted, PTL DEF Spec

----------------------------------------------------------------------------
\* The life cycle.  Incidents and their phases before and after a step.
LEMMA PhaseStutters ==
  ASSUME UNCHANGED <<rows, open_id, attempts>>
  PROVE  UNCHANGED Incidents
BY DEF Incidents, Phase, OwnRows, Ids

\* The phase of one incident changes and the others stand.
LEMMA MoveStep ==
  ASSUME NEW from, NEW to, NEW id, id = open_id, id \in OwnRows, OwnRows' = OwnRows,
         Phase(id) = from, \A i \in OwnRows : Phase(i)' = IF i = id THEN to ELSE Phase(i)
  PROVE  Lifecycle!Move(from, to)
<1>1. id \in DOMAIN Incidents /\ Incidents[id] = from
  BY DEF Incidents
<1>2. Incidents' = [i \in OwnRows |-> IF i = id THEN to ELSE Phase(i)]
  BY DEF Incidents
<1>3. [Incidents EXCEPT ![id] = to] = [i \in OwnRows |-> IF i = id THEN to ELSE Phase(i)]
  BY DEF Incidents
<1> QED
  BY <1>1, <1>2, <1>3 DEF Lifecycle!Move

LEMMA LifecycleInit == Init => Lifecycle!Init
BY DEF Init, Ids, OwnRows, Incidents, Lifecycle!Init

\* A row of the log-watcher is no incident of the watchdog.
LEMMA ForeignStep ==
  ASSUME IInv, LogWatcherOpens
  PROVE  UNCHANGED Incidents
<1>1. LogTypeOK /\ "log-watcher" \in Sources /\ "NULL" \in Actions
  BY DEF IInv, TypeOK, Sources, Actions
<1>2. OwnRows' = OwnRows /\ \A i \in Ids : rows'[i] = rows[i]
  BY <1>1, OpenSets, OpenFacts DEF LogWatcherOpens
<1>3. UNCHANGED <<open_id, attempts>>
  BY DEF LogWatcherOpens, historyVars
<1>4. \A i \in OwnRows : Phase(i)' = Phase(i)
  BY <1>2, <1>3 DEF Phase, OwnRows
<1> QED
  BY <1>2, <1>4 DEF Incidents

\* A new row is a new incident; none is in progress, since no row is latched.
LEMMA OpenStep ==
  ASSUME IInv, OpenRow
  PROVE  Lifecycle!Next
<1>0. PICK n : n = Len(rows) + 1
  OBVIOUS
<1>1. /\ LogTypeOK /\ Control /\ Records /\ open_id = None /\ open_id' = n
      /\ Ids \subseteq Nat /\ OwnRows \subseteq Ids
  BY <1>0, RowFacts DEF IInv, TypeOK, Control, OpenRow, OwnRows
<1>2. DetectedVia \in Sources /\ DetectedVia # "log-watcher" /\ "NULL" \in Actions
  BY DEF DetectedVia, Sources, Actions
<1>3. /\ n \notin Ids /\ OwnRows' = OwnRows \cup {n}
      /\ \A i \in Ids : rows'[i] = rows[i]
  BY <1>0, <1>1, <1>2, OpenFacts, OpenSets DEF OpenRow
<1>4. rows'[n].resolved = FALSE /\ rows'[n].action_taken = "NULL"
  <2>1. rows'[n] = [detected_via |-> DetectedVia, action_taken |-> "NULL", resolved |-> FALSE]
    BY <1>0, <1>1, <1>2, OpenFacts DEF OpenRow
  <2> QED
    BY <2>1
<1>5. UNCHANGED attempts /\ \A k \in DOMAIN attempts : attempts[k] # n
  <2>1. \A k \in DOMAIN attempts : attempts[k] \in Ids
    BY <1>1 DEF Records, RestartIsOnRecord
  <2> QED
    BY <1>3, <2>1 DEF OpenRow
<1>6. \A i \in OwnRows : i # open_id /\ i # open_id' /\ i # n
  BY <1>1, <1>3, NoneIsNoId
<1>7. \A i \in OwnRows : Phase(i) \in {"closed", "lost"} /\ Phase(i)' = Phase(i)
  BY <1>1, <1>3, <1>5, <1>6 DEF Phase
<1>8. Phase(n)' = "open"
  BY <1>1, <1>4, <1>5 DEF Phase
<1>9. Lifecycle!InProgress = {}
  BY <1>7 DEF Lifecycle!InProgress, Lifecycle!Done, Incidents
<1>10. Incidents' = [i \in DOMAIN Incidents \cup {n} |-> IF i = n THEN "open" ELSE Incidents[i]]
  <2>1. DOMAIN Incidents = OwnRows /\ \A i \in OwnRows : Incidents[i] = Phase(i)
    BY DEF Incidents
  <2>2. Incidents' = [i \in OwnRows' |-> Phase(i)']
    BY DEF Incidents
  <2>3. \A i \in OwnRows' : Phase(i)' = IF i = n THEN "open" ELSE Incidents[i]
    BY <1>3, <1>6, <1>7, <1>8, <2>1
  <2> QED
    BY <1>3, <2>1, <2>2, <2>3
<1>11. n \in DOMAIN Incidents' \ DOMAIN Incidents
  <2>1. DOMAIN Incidents' = OwnRows' /\ DOMAIN Incidents = OwnRows
    BY DEF Incidents
  <2> QED
    BY <1>1, <1>3, <2>1
<1>12. Lifecycle!Open
  BY <1>9, <1>10, <1>11 DEF Lifecycle!Open
<1> QED
  BY <1>12 DEF Lifecycle!Next

LEMMA AttemptStep ==
  ASSUME IInv, IssueRestart
  PROVE  Lifecycle!Next
<1>1. /\ open_id \in OwnRows /\ rows[open_id].action_taken = "NULL" /\ ~rows[open_id].resolved
      /\ Len(attempts) \in Nat
      /\ DOMAIN attempts = 1..Len(attempts)
      /\ DOMAIN attempts' = 1..(Len(attempts) + 1)
      /\ attempts'[Len(attempts) + 1] = open_id
      /\ \A k \in DOMAIN attempts : attempts'[k] = attempts[k] /\ attempts[k] < open_id
      /\ open_id \in Nat
  BY IssueFacts DEF OpenOwnRows, OpenRows
<1>2. UNCHANGED <<rows, open_id>> /\ OwnRows' = OwnRows
  BY DEF IssueRestart, OwnRows, Ids
<1>3. \A k \in DOMAIN attempts : attempts[k] # open_id
  BY <1>1
<1>4. Phase(open_id) = "open"
  BY <1>1, <1>3 DEF Phase
<1>5. Phase(open_id)' = "attempted"
  <2>1. \E k \in DOMAIN attempts' : attempts'[k] = open_id
    BY <1>1
  <2> QED
    BY <1>1, <1>2, <2>1 DEF Phase
<1>6. \A i \in OwnRows : Phase(i)' = IF i = open_id THEN "attempted" ELSE Phase(i)
  BY <1>2, <1>5 DEF Phase
<1>7. Lifecycle!Move("open", "attempted")
  BY <1>1, <1>2, <1>4, <1>6, MoveStep
<1> QED
  BY <1>7 DEF Lifecycle!Next

LEMMA RecordStep ==
  ASSUME IInv, RecordAction
  PROVE  Lifecycle!Next
<1>1. /\ incident_id = open_id /\ open_id \in OwnRows /\ ~rows[open_id].resolved
      /\ rows[open_id].action_taken = "NULL"
      /\ \E k \in DOMAIN attempts : attempts[k] = open_id
      /\ action_taken \in {"restarted", "restart FAILED"}
      /\ LogTypeOK /\ OwnRows \subseteq Ids
  BY DEF IInv, TypeOK, Control, Progress, RecordAction, HandlingSteps, OpenOwnRows, OpenRows, OwnRows
<1>2. SetAction(open_id, action_taken) /\ action_taken \in Actions
  BY <1>1 DEF RecordAction, Actions
<1>3. /\ OwnRows' = OwnRows
      /\ \A i \in Ids :
           /\ rows'[i].resolved = rows[i].resolved
           /\ rows'[i].action_taken = IF i = open_id THEN action_taken ELSE rows[i].action_taken
  BY <1>1, <1>2, SetFacts, SetSets
<1>4. UNCHANGED <<open_id, attempts>>
  BY DEF RecordAction, historyVars
<1>5. PICK n \in OwnRows : n = open_id
  BY <1>1
<1>6. Phase(n) = "attempted"
  BY <1>1, <1>5 DEF Phase
<1>7. Phase(n)' = "recorded"
  <2>1. ~rows'[n].resolved /\ rows'[n].action_taken # "NULL" /\ open_id' = n
    BY <1>1, <1>3, <1>4, <1>5
  <2> QED
    BY <2>1 DEF Phase
<1>8. \A i \in OwnRows : Phase(i)' = IF i = n THEN "recorded" ELSE Phase(i)
  <2>1. \A i \in OwnRows : i # n => Phase(i)' = Phase(i)
    BY <1>1, <1>3, <1>4, <1>5 DEF Phase
  <2> QED
    BY <1>7, <2>1
<1>9. Lifecycle!Move("attempted", "recorded")
  BY <1>3, <1>5, <1>6, <1>8, MoveStep
<1> QED
  BY <1>9 DEF Lifecycle!Next

\* Recovery closes the incident, or loses it to a newer row of the log-watcher.
LEMMA CloseStep ==
  ASSUME IInv, ResolveRow
  PROVE  Lifecycle!Next
<1>1. /\ open_id \in OwnRows /\ ~rows[open_id].resolved
      /\ rows[open_id].action_taken # "NULL"
      /\ LogTypeOK /\ Ids \subseteq Nat /\ OwnRows \subseteq Ids
      /\ incident_id \in Ids /\ (incident_id = open_id \/ incident_id \in LogRows)
  BY RowClosed, RowFacts
     DEF IInv, TypeOK, Control, Progress, ResolveRow, ClosingSteps, OpenOwnRows, OpenRows, OwnRows
<1>2. ResolveIncident(incident_id) /\ open_id' = None /\ UNCHANGED attempts
  BY DEF ResolveRow
<1>3. incident_id \in Ids
  BY RowClosed DEF ResolveRow, OpenRows
<1>4. /\ OwnRows' = OwnRows
      /\ \A i \in Ids :
           /\ rows'[i].resolved = IF i = incident_id THEN TRUE ELSE rows[i].resolved
           /\ rows'[i].action_taken = rows[i].action_taken
  BY <1>1, <1>2, <1>3, ResolveFacts, ResolveSets
<1>5. PICK n \in OwnRows : n = open_id
  BY <1>1
<1>6. Phase(n) = "recorded"
  BY <1>1, <1>5 DEF Phase
<1>7. \A i \in OwnRows : i # open_id'
  BY <1>1, <1>2, NoneIsNoId
<1>8. CASE incident_id = open_id
  <2>1. \A i \in OwnRows : Phase(i)' = IF i = n THEN "closed" ELSE Phase(i)
    <3>1. Phase(n)' = "closed"
      BY <1>1, <1>4, <1>5, <1>8 DEF Phase
    <3>2. \A i \in OwnRows : i # n => Phase(i)' = Phase(i)
      BY <1>1, <1>2, <1>4, <1>5, <1>7, <1>8 DEF Phase
    <3> QED
      BY <3>1, <3>2
  <2>2. Lifecycle!Move("recorded", "closed")
    BY <1>4, <1>5, <1>6, <2>1, MoveStep
  <2> QED
    BY <2>2 DEF Lifecycle!Next
<1>9. CASE incident_id \in LogRows
  <2>1. \A i \in OwnRows : rows'[i].resolved = rows[i].resolved
    BY <1>1, <1>4, <1>9 DEF LogRows
  <2>2. \A i \in OwnRows : Phase(i)' = IF i = n THEN "lost" ELSE Phase(i)
    <3>1. Phase(n)' = "lost"
      BY <1>1, <1>5, <1>7, <2>1 DEF Phase
    <3>2. \A i \in OwnRows : i # n => Phase(i)' = Phase(i)
      BY <1>1, <1>2, <1>4, <1>5, <1>7, <2>1 DEF Phase
    <3> QED
      BY <3>1, <3>2
  <2>3. Lifecycle!Move("recorded", "lost")
    BY <1>4, <1>5, <1>6, <2>2, MoveStep
  <2> QED
    BY <2>3 DEF Lifecycle!Next, Lifecycle!Stages, Lifecycle!Done
<1> QED
  BY <1>1, <1>8, <1>9, RowClosed DEF ResolveRow

\* The process dies: what it was handling is lost, the rest is as it was.
LEMMA CrashStep ==
  ASSUME IInv, Crash
  PROVE  [Lifecycle!Next]_Incidents
<1>1. UNCHANGED <<rows, attempts>> /\ OwnRows' = OwnRows /\ open_id' = None
  BY DEF Crash, OwnRows, Ids
<1>2. OwnRows \subseteq Nat
  BY RowFacts DEF IInv, TypeOK, OwnRows
<1>3. \A i \in OwnRows : i # open_id'
  BY <1>1, <1>2, NoneIsNoId
<1>4. CASE open_id = None
  BY <1>1, <1>4, PhaseStutters
<1>5. CASE open_id # None
  <2>1. open_id \in OwnRows /\ ~rows[open_id].resolved
    BY <1>5 DEF IInv, Control, OpenOwnRows, OpenRows
  <2>2. Phase(open_id) \in {"open", "attempted", "recorded"}
    BY <2>1 DEF Phase
  <2>3. \A i \in OwnRows : Phase(i)' = IF i = open_id THEN "lost" ELSE Phase(i)
    BY <1>1, <1>3, <2>1 DEF Phase
  <2>4. Lifecycle!Move(Phase(open_id), "lost")
    BY <1>1, <2>1, <2>3, MoveStep
  <2> QED
    BY <2>2, <2>4 DEF Lifecycle!Next, Lifecycle!Stages, Lifecycle!Done
<1> QED
  BY <1>4, <1>5

LEMMA LifecycleNext ==
  ASSUME IInv, [Next]_vars
  PROVE  [Lifecycle!Next]_Incidents
<1>1. CASE UNCHANGED <<rows, open_id, attempts>>
  BY <1>1, PhaseStutters
<1>2. \/ UNCHANGED <<rows, open_id, attempts>> \/ LogWatcherOpens
      \/ OpenRow \/ IssueRestart \/ RecordAction \/ ResolveRow \/ Crash
  BY DEF Next, WatchdogStep, Environment, ContainerCheck, HealthCheck, ObserveQuietly,
     ObserveFailureConfirmed, ObserveRecovered, KeepWorld, RestartSucceeds, RestartRefused,
     RestartErrs, IncidentAlert, SelectOpen, RecoveryAlert, Start, Fault,
     Repair, vars, historyVars
<1> QED
  BY <1>1, <1>2, ForeignStep, OpenStep, AttemptStep, RecordStep, CloseStep, CrashStep

\* The watchdog implements the life cycle of an incident, whoever else writes
\* to the table and however often the process dies.
THEOREM ImplementsLifecycle == Spec => LifecycleSpec
<1>1. IInv /\ [Next]_vars => [Lifecycle!Next]_Incidents
  BY LifecycleNext
<1> QED
  BY <1>1, LifecycleInit, InitIInv, NextIInv, PTL DEF Spec, LifecycleSpec, Lifecycle!Spec
=============================================================================
