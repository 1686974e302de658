--------------------------- MODULE OutageDetection ---------------------------
(***************************************************************************)
(* What the log-watcher makes of an outage: the lines the feed service     *)
(* logs while it retries one of its servers (generator.py, retry.py), in   *)
(* real time, fed to the three rules of default_rules (rules.py).  The     *)
(* other server stays up, so connecting to it takes no time.  A Postgres   *)
(* that takes an INSERT and never answers is left out: it logs nothing.    *)
(*                                                                         *)
(* Time is in seconds.  The generator sleeps until `wake` and then takes   *)
(* its step without delay; a server comes and goes in between.  The rounds *)
(* of good writes of one second are a single step, and the quarter of a    *)
(* second between two rounds is no time at all.                            *)
(***************************************************************************)
EXTENDS DetectionRules

CONSTANTS cap_seconds, max_attempts,
          connect_timeout,  \* seconds until a call that is not refused gives up
          error_burst_count, error_burst_window, conn_fail_count, conn_fail_window,
          MaxTime,          \* bound: seconds watched
          MaxOutages        \* bound: times the server goes down

ASSUME RetryAssumption ==
  cap_seconds \in Nat \ {0} /\ max_attempts \in Nat \ {0} /\ connect_timeout \in Nat
ASSUME ThresholdsAssumption ==
  /\ error_burst_count \in Nat \ {0} /\ error_burst_window \in Nat
  /\ conn_fail_count \in Nat \ {0} /\ conn_fail_window \in Nat
ASSUME BoundsAssumption == MaxTime \in Nat /\ MaxOutages \in Nat
\* The settings go together, as the defaults do: a backoff makes at least three
\* retries, and three in a row lie in the window even across a reconnect that
\* failed.
ASSUME SettingsAssumption ==
  /\ max_attempts >= 4 /\ conn_fail_count <= 3
  /\ 2 * cap_seconds + 4 * connect_timeout <= conn_fail_window
  /\ conn_fail_window <= cooldown

VARIABLES
  now,
  up,       \* the server answers
  call_time,\* how long a call fails: refused at once, or it times out
  since,    \* history: when it last came or went
  outages,
  pc, wake, \* what the generator does next, and when
  attempt,  \* local of connect_with_backoff
  rules,    \* the log-watcher's three rule objects
  rows      \* the incident rows it opened for each rule: their number, and when
            \* the last one was

generatorVars == <<pc, wake, attempt>>
serverVars == <<up, call_time, since, outages>>
vars == <<now, serverVars, generatorVars, rules, rows>>

RuleNames == {"error_burst", "connection_failures", "known_failure"}

Init ==
  /\ now = 0
  /\ up = TRUE /\ call_time = 0 /\ since = 0 /\ outages = 0
  /\ pc = "write" /\ wake = 0 /\ attempt = 0
  /\ rules = [r \in RuleNames |-> NewRule]
  /\ rows = [r \in RuleNames |-> [number |-> 0, at |-> 0]]

----------------------------------------------------------------------------
\* The log-watcher: every line is given to every rule.

FeedRule(r, line, state) ==
  CASE r = "error_burst" ->
         IF line.level = "ERROR"
         THEN FeedCount(state, error_burst_count, error_burst_window, now) ELSE state
    [] r = "connection_failures" ->
         IF line.event = "dependency_retry"
         THEN FeedCount(state, conn_fail_count, conn_fail_window, now) ELSE state
    [] r = "known_failure" ->
         IF line.event \in {"dependency_unreachable", "generator_reconnect_failed"}
         THEN FeedKnown(state, now) ELSE state

Logs(line) ==
  LET fed == [r \in RuleNames |-> FeedRule(r, line, rules[r])]
  IN  /\ rules' = fed
      /\ rows' = [r \in RuleNames |->
           IF fed[r].quiet_until # rules[r].quiet_until
           THEN [number |-> rows[r].number + 1, at |-> now]
           ELSE rows[r]]

LogsNothing == UNCHANGED <<rules, rows>>

----------------------------------------------------------------------------
\* The generator.

Goes(to, delay) == pc' = to /\ wake' = now + delay
Awake(at) == pc = at /\ now = wake

\* A good write, or one that starts to fail.
Write ==
  /\ Awake("write")
  /\ \/ up /\ Goes("write", 1)
     \/ ~up /\ Goes("write_error", call_time)
  /\ LogsNothing /\ UNCHANGED <<attempt, now, serverVars>>

WriteError ==
  /\ Awake("write_error")
  /\ Logs([level |-> "ERROR", event |-> "tick_write_error"])
  /\ Goes("connect", 0) /\ attempt' = 1
  /\ UNCHANGED <<now, serverVars>>

\* Mutant: the driver is not given its timeout, and has a longer one.
FailsAfter_Default == 5 * call_time
\* How long connecting to a server that is gone takes: psycopg2 and redis are
\* given connect_timeout_seconds.
FailsAfter == call_time

Connect ==
  /\ Awake("connect")
  /\ \/ up /\ Goes("write", 0) /\ attempt' = 0
     \/ ~up /\ Goes("failed", FailsAfter) /\ UNCHANGED attempt
  /\ LogsNothing /\ UNCHANGED <<now, serverVars>>

Delay == IF 2 ^ (attempt - 1) < cap_seconds THEN 2 ^ (attempt - 1) ELSE cap_seconds

\* Mutant: the loop has no last attempt.
LastAttempt_Never == FALSE
LastAttempt == attempt >= max_attempts

Retry ==
  /\ Awake("failed") /\ ~LastAttempt
  /\ Logs([level |-> "WARNING", event |-> "dependency_retry"])
  /\ Goes("connect", Delay) /\ attempt' = attempt + 1
  /\ UNCHANGED <<now, serverVars>>

\* The last attempt: the backoff says so, then _reconnect, and the generator
\* is back at its writes.
GiveUp ==
  /\ Awake("failed") /\ LastAttempt
  /\ Logs([level |-> "ERROR", event |-> "dependency_unreachable"])
  /\ Goes("reconnect_failed", 0) /\ attempt' = 0
  /\ UNCHANGED <<now, serverVars>>
ReconnectFailed ==
  /\ Awake("reconnect_failed")
  /\ Logs([level |-> "ERROR", event |-> "generator_reconnect_failed"])
  /\ Goes("write", 0)
  /\ UNCHANGED <<attempt, now, serverVars>>

----------------------------------------------------------------------------
\* A stopped server refuses, one that hangs or is cut off does not answer.
ServerGoes ==
  /\ up /\ up' = FALSE /\ since' = now
  /\ call_time' \in {0, connect_timeout}
  /\ outages < MaxOutages /\ outages' = outages + 1
  /\ UNCHANGED <<now, generatorVars, rules, rows>>

ServerReturns ==
  /\ ~up /\ up' = TRUE /\ since' = now /\ call_time' = 0
  /\ UNCHANGED <<now, outages, generatorVars, rules, rows>>

Second ==
  /\ now < wake /\ now < MaxTime
  /\ now' = now + 1
  /\ UNCHANGED <<serverVars, generatorVars, rules, rows>>

Next ==
  \/ Write \/ WriteError \/ Connect \/ Retry \/ GiveUp \/ ReconnectFailed
  \/ ServerGoes \/ ServerReturns \/ Second

Spec == Init /\ [][Next]_vars

----------------------------------------------------------------------------
TypeOK ==
  /\ now \in 0..MaxTime
  /\ up \in BOOLEAN /\ call_time \in {0, connect_timeout} /\ since \in 0..MaxTime /\ outages \in 0..MaxOutages
  /\ pc \in {"write", "write_error", "connect", "failed", "reconnect_failed"}
  /\ wake \in 0..(MaxTime + cap_seconds + connect_timeout)
  /\ attempt \in 0..max_attempts
  /\ rules \in [RuleNames -> [hits : Seq(Int), quiet_until : Int \cup {Never}]]
  /\ rows \in [RuleNames -> [number : Nat, at : 0..MaxTime]]

RowAt(r) == rows[r].number > 0 /\ rows[r].at = now

\* How late the third retry of an outage can be: the generator may be asleep
\* for another outage's last retry, give up, fail a write and start over.
DetectBy == cap_seconds + 1 + 2 + 5 * connect_timeout + 1

\* An outage that lasts is on record within DetectBy seconds, and again and
\* again for as long as it lasts, whatever outages came before it: a row of
\* connection_failures is never older than a cooldown and the time it takes
\* to collect its lines.
OutageStaysOnRecord ==
  ~up /\ now - since > DetectBy =>
    /\ rows["connection_failures"].number > 0
    /\ now - rows["connection_failures"].at <= cooldown + DetectBy

\* No row is opened for a server that is well: one is opened during an outage,
\* or by a call that was still waiting when it ended.
NoFalseAlarm ==
  \A r \in RuleNames : RowAt(r) => ~up \/ now - since <= connect_timeout

\* "log-watcher stdout: incident #N via error_burst: error burst: 5 ERROR log
\* lines within 20s", once Redis is stopped (README.md:199-200).
OutageIsAnErrorBurst ==
  ~up /\ now - since > DetectBy + error_burst_window => rows["error_burst"].number > 0
=============================================================================
