--------------------------- MODULE BreachHistory ---------------------------
(***************************************************************************)
(* BreachMonitor run against every stream of verdicts, beside a record of  *)
(* the stream.  The documentation describes the monitor by what it does    *)
(* with a run of checks ("N consecutive failed checks, with no successful  *)
(* check in between"); here that description is a predicate on the stream  *)
(* and the counters are shown to compute it.                               *)
(***************************************************************************)
EXTENDS BreachMonitor, Sequences

CONSTANTS Clock,     \* values time.time() may return; it may step back
          MaxPolls   \* bound: length of the stream of verdicts

ASSUME ClockAssumption == Clock \subseteq Int
ASSUME MaxPollsAssumption == MaxPolls \in Nat

VARIABLES polls,     \* history: every [ok, now] fed to observe(), in order
          outcome,   \* history: the Outcome of the last observe()
          downtime   \* history: downtime_seconds of the last Decision

vars == <<monitorVars, polls, outcome, downtime>>

Outcomes == {"nothing", "still_breaching", "failure_confirmed", "recovered"}

Init ==
  /\ MonitorInit
  /\ polls = <<>>
  /\ outcome = "nothing"
  /\ downtime = None

\* observe() returned a Decision for this check.
Decide(ok, now, result, seconds) ==
  /\ Len(polls) < MaxPolls
  /\ polls' = Append(polls, [ok |-> ok, now |-> now])
  /\ outcome' = result
  /\ downtime' = seconds

\* Mutants: every failed check of an incident restamps its start; and a latch
\* that does not stop the threshold from confirming again.
OnFailure_Restamps(now) ==
  \/ /\ incident_open
     /\ CountFailure
     /\ incident_open' = TRUE
     /\ incident_started_at' = now
     /\ Decide(FALSE, now, "nothing", None)
  \/ StillBreaching /\ Decide(FALSE, now, "still_breaching", None)
  \/ FailureConfirmed(now) /\ Decide(FALSE, now, "failure_confirmed", None)
OnFailure_NoLatch(now) ==
  \/ StillBreaching /\ Decide(FALSE, now, "still_breaching", None)
  \/ /\ Bump(consecutive_failures) >= breach_threshold
     /\ CountFailure
     /\ incident_open' = TRUE
     /\ incident_started_at' = IF incident_open THEN incident_started_at ELSE now
     /\ Decide(FALSE, now, "failure_confirmed", None)

OnFailure(now) ==
  \/ FailureWhileOpen /\ Decide(FALSE, now, "nothing", None)
  \/ StillBreaching /\ Decide(FALSE, now, "still_breaching", None)
  \/ FailureConfirmed(now) /\ Decide(FALSE, now, "failure_confirmed", None)

OnSuccess(now) ==
  \/ StillHealthy /\ Decide(TRUE, now, "nothing", None)
  \/ RecoveryPending /\ Decide(TRUE, now, "nothing", None)
  \/ Recovered /\ Decide(TRUE, now, "recovered", Downtime(now))

Next == \E now \in Clock : OnFailure(now) \/ OnSuccess(now)

Spec == Init /\ [][Next]_vars

----------------------------------------------------------------------------
\* The stream read declaratively.  The n checks ending at position i.
Failures(s, i, n) == i >= n /\ \A k \in (i - n + 1)..i : ~s[k].ok
Successes(s, i, n) == \A k \in (i - n + 1)..i : s[k].ok

\* Position i of s confirms a failure that no later run of good checks closed.
Confirms(s, i) ==
  /\ Failures(s, i, breach_threshold)
  /\ \A j \in (i + recovery_threshold)..Len(s) : ~Successes(s, j, recovery_threshold)

Unresolved(s) == {i \in 1..Len(s) : Confirms(s, i)}
DownAfter(s) == Unresolved(s) # {}

Before(s) == SubSeq(s, 1, Len(s) - 1)

----------------------------------------------------------------------------
TypeOK ==
  /\ MonitorTypeOK
  /\ polls \in Seq([ok : BOOLEAN, now : Clock])
  /\ outcome \in Outcomes
  /\ downtime \in Int \cup {None}

\* The latch is the stream's own verdict: an incident is open exactly when
\* breach_threshold failed checks in a row were seen with no success between
\* them and recovery_threshold good checks in a row have not followed.  A
\* stray success, however placed, neither keeps nor loses it
\* (breach.py _on_failure, _on_success).
OpenIffConfirmed == incident_open <=> DownAfter(polls)

\* The start of the incident, from which the downtime is reported, is the time
\* of the check that confirmed it: the first position of the stream that
\* confirms the failure still open, not a later failed check of the same
\* incident (breach.py:173).
StartIsConfirmingPoll ==
  IF incident_open
  THEN \E i \in Unresolved(polls) :
         /\ \A j \in Unresolved(polls) : i <= j
         /\ incident_started_at = polls[i].now
  ELSE incident_started_at = None

\* Each Decision is the edge it claims to be: FAILURE_CONFIRMED is returned
\* exactly on the check that takes the target down and RECOVERED, with its
\* downtime, exactly on the check that brings it back, so the caller restarts
\* once for each outage (breach.py observe).
DecisionsAreEdges ==
  polls # <<>> =>
    /\ outcome = "failure_confirmed"
         <=> ~DownAfter(Before(polls)) /\ DownAfter(polls)
    /\ outcome = "recovered"
         <=> DownAfter(Before(polls)) /\ ~DownAfter(polls)
    /\ outcome = "still_breaching"
         <=> ~DownAfter(polls) /\ ~polls[Len(polls)].ok
    /\ outcome = "recovered" => downtime \in Nat
=============================================================================
