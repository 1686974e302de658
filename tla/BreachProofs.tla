---------------------------- MODULE BreachProofs ----------------------------
(***************************************************************************)
(* Proofs about BreachHistory, for every pair of thresholds, every clock   *)
(* and every length of the stream.                                         *)
(*                                                                         *)
(* The invariant says what each counter knows of the stream: the failure   *)
(* counter measures the run of failed checks at its end (up to the bound), *)
(* and while an incident is open the success counter measures the run of   *)
(* good checks at its end, which is too short to close it.                 *)
(***************************************************************************)
EXTENDS BreachHistory, TLAPS

Poll == [ok : BOOLEAN, now : Clock]

\* The stream s ends in a run of n failed checks, and of no more unless n has
\* reached the bound.
FailureTail(s, n) ==
  /\ n <= Len(s)
  /\ \A k \in (Len(s) - n + 1)..Len(s) : ~s[k].ok
  /\ n < CounterCap /\ n < Len(s) => s[Len(s) - n].ok

FailureRun == FailureTail(polls, consecutive_failures)

BelowThreshold == ~incident_open => consecutive_failures < breach_threshold

\* The stream s ends in a failed check followed by n good ones, too few to
\* close the incident.
RecoveryTail(s, n) ==
  /\ n < recovery_threshold
  /\ n < Len(s)
  /\ ~s[Len(s) - n].ok
  /\ \A k \in (Len(s) - n + 1)..Len(s) : s[k].ok

SuccessRun == incident_open => RecoveryTail(polls, consecutive_successes)

IInv ==
  /\ TypeOK
  /\ FailureRun
  /\ BelowThreshold
  /\ SuccessRun
  /\ OpenIffConfirmed
  /\ StartIsConfirmingPoll

----------------------------------------------------------------------------
\* What one more check does to the positions already in the stream: a
\* confirmation stays one unless the new check completes a run of good checks.
LEMMA ConfirmsAppend ==
  ASSUME NEW s \in Seq(Poll), NEW e \in Poll, NEW i \in 1..Len(s)
  PROVE  Confirms(Append(s, e), i)
           <=> /\ Confirms(s, i)
               /\ i + recovery_threshold <= Len(s) + 1
                    => ~Successes(Append(s, e), Len(s) + 1, recovery_threshold)
<1> DEFINE t == Append(s, e)
<1>1. /\ Len(t) = Len(s) + 1 /\ Len(s) \in Nat
      /\ \A k \in 1..Len(s) : t[k] = s[k]
  OBVIOUS
<1>2. breach_threshold \in Nat \ {0} /\ recovery_threshold \in Nat \ {0}
  BY ThresholdAssumption
<1> HIDE DEF t
<1>3. Failures(t, i, breach_threshold) <=> Failures(s, i, breach_threshold)
  BY <1>1, <1>2 DEF Failures
<1>4. \A j \in (i + recovery_threshold)..Len(s) :
         Successes(t, j, recovery_threshold) <=> Successes(s, j, recovery_threshold)
  BY <1>1, <1>2 DEF Successes
<1>5. (i + recovery_threshold)..Len(t) =
        (i + recovery_threshold)..Len(s)
          \cup (IF i + recovery_threshold <= Len(s) + 1 THEN {Len(s) + 1} ELSE {})
  BY <1>1, <1>2
<1>6. Confirms(t, i)
        <=> /\ Confirms(s, i)
            /\ i + recovery_threshold <= Len(s) + 1
                 => ~Successes(t, Len(s) + 1, recovery_threshold)
  BY <1>3, <1>4, <1>5 DEF Confirms
<1> QED
  BY <1>6 DEF t

\* The new check confirms a failure exactly when it ends a run of failed ones:
\* nothing can have followed it yet.
LEMMA ConfirmsLast ==
  ASSUME NEW s \in Seq(Poll), NEW e \in Poll
  PROVE  Confirms(Append(s, e), Len(s) + 1)
           <=> Failures(Append(s, e), Len(s) + 1, breach_threshold)
BY ThresholdAssumption DEF Confirms

\* Without the end of a run of good checks nothing is resolved.
LEMMA UnresolvedAppend ==
  ASSUME NEW s \in Seq(Poll), NEW e \in Poll,
         ~Successes(Append(s, e), Len(s) + 1, recovery_threshold)
  PROVE  Unresolved(Append(s, e)) =
           Unresolved(s) \cup
             (IF Failures(Append(s, e), Len(s) + 1, breach_threshold)
              THEN {Len(s) + 1} ELSE {})
<1>1. Len(Append(s, e)) = Len(s) + 1 /\ Len(s) \in Nat
  OBVIOUS
<1>2. 1..Len(Append(s, e)) = (1..Len(s)) \cup {Len(s) + 1}
  BY <1>1
<1>3. \A i \in 1..Len(s) : Confirms(Append(s, e), i) <=> Confirms(s, i)
  BY ConfirmsAppend
<1>4. Len(s) + 1 \notin 1..Len(s)
  BY <1>1
<1> QED
  BY <1>2, <1>3, <1>4, ConfirmsLast DEF Unresolved

----------------------------------------------------------------------------
\* The bounded counter, facts the steps share.
LEMMA BumpFacts ==
  ASSUME NEW n \in 0..CounterCap
  PROVE  /\ Bump(n) \in 0..CounterCap
         /\ Bump(n) <= n + 1
         /\ Bump(n) < CounterCap => Bump(n) = n + 1
         /\ Bump(n) # n + 1 => n = CounterCap
         /\ Bump(n) >= 1 \/ CounterCap = 0
BY CapAssumption DEF Bump

LEMMA Thresholds ==
  /\ breach_threshold \in Nat \ {0} /\ recovery_threshold \in Nat \ {0}
  /\ CounterCap \in Nat
  /\ CounterCap >= breach_threshold /\ CounterCap >= recovery_threshold
BY ThresholdAssumption, CapAssumption

LEMMA InitIInv == Init => IInv
<1> SUFFICES ASSUME Init PROVE IInv
  OBVIOUS
<1> USE DEF Init, MonitorInit
<1>1. TypeOK
  <2>1. MonitorTypeOK
    <3>1. 0 \in 0..CounterCap
      BY Thresholds
    <3> QED
      BY <3>1 DEF MonitorTypeOK
  <2>2. polls \in Seq([ok : BOOLEAN, now : Clock])
    OBVIOUS
  <2> QED
    BY <2>1, <2>2 DEF TypeOK, Outcomes
<1>2. Len(polls) = 0
  OBVIOUS
<1>3. FailureRun /\ BelowThreshold /\ SuccessRun
  BY <1>2, Thresholds DEF FailureRun, FailureTail, BelowThreshold, SuccessRun
<1>4. Unresolved(polls) = {}
  BY <1>2 DEF Unresolved
<1>5. OpenIffConfirmed /\ StartIsConfirmingPoll
  BY <1>4 DEF OpenIffConfirmed, StartIsConfirmingPoll, DownAfter
<1> QED
  BY <1>1, <1>3, <1>5 DEF IInv

----------------------------------------------------------------------------
\* A failed check lengthens the run of failed checks at the end of the stream,
\* and the bounded counter with it.
LEMMA TailGrows ==
  ASSUME NEW s \in Seq(Poll), NEW e \in Poll, ~e.ok,
         NEW n \in 0..CounterCap, FailureTail(s, n)
  PROVE  FailureTail(Append(s, e), Bump(n))
<1> DEFINE t == Append(s, e)
           L == Len(s)
           m == Bump(n)
<1>1. /\ Len(t) = L + 1 /\ L \in Nat
      /\ \A k \in 1..L : t[k] = s[k]
      /\ ~t[L + 1].ok
  OBVIOUS
<1>2. /\ m \in 0..CounterCap /\ m <= n + 1 /\ CounterCap \in Nat
      /\ m < CounterCap => m = n + 1
  BY BumpFacts, Thresholds
<1>3. /\ n <= L
      /\ \A k \in (L - n + 1)..L : ~s[k].ok
      /\ n < CounterCap /\ n < L => s[L - n].ok
  BY DEF FailureTail
<1> HIDE DEF t, L, m
<1>4. m <= L + 1
  BY <1>1, <1>2, <1>3
<1>5. ASSUME NEW k \in (L + 1 - m + 1)..(L + 1) PROVE ~t[k].ok
  <2>1. CASE k = L + 1
    BY <2>1, <1>1
  <2>2. CASE k # L + 1
    <3>1. k \in (L - n + 1)..L /\ k \in 1..L
      BY <2>2, <1>1, <1>2, <1>3
    <3> QED
      BY <3>1, <1>1, <1>3
  <2> QED
    BY <2>1, <2>2
<1>6. ASSUME m < CounterCap, m < L + 1 PROVE t[L + 1 - m].ok
  <2>1. m = n + 1 /\ n < CounterCap /\ n < L /\ L + 1 - m = L - n
    BY <1>6, <1>1, <1>2
  <2>2. L - n \in 1..L
    BY <2>1, <1>1, <1>2
  <2> QED
    BY <2>1, <2>2, <1>1, <1>3
<1>7. FailureTail(t, m)
  <2>1. /\ m <= Len(t)
        /\ m < CounterCap /\ m < Len(t) => t[Len(t) - m].ok
    BY <1>1, <1>2, <1>4, <1>6
  <2>2. \A k \in (Len(t) - m + 1)..Len(t) : ~t[k].ok
    BY <1>1, <1>2, <1>5
  <2> QED
    BY <2>1, <2>2 DEF FailureTail
<1> QED
  BY <1>7 DEF t, m

\* The run that the counter measures reaches the threshold exactly when the
\* last breach_threshold checks failed.
LEMMA TailConfirms ==
  ASSUME NEW s \in Seq(Poll), NEW n \in 0..CounterCap, FailureTail(s, n)
  PROVE  Failures(s, Len(s), breach_threshold) <=> n >= breach_threshold
<1> DEFINE L == Len(s)
<1>1. L \in Nat
  OBVIOUS
<1>2. /\ n <= L
      /\ \A k \in (L - n + 1)..L : ~s[k].ok
      /\ n < CounterCap /\ n < L => s[L - n].ok
  BY DEF FailureTail
<1> HIDE DEF L
<1>3. CASE n >= breach_threshold
  <2>1. L >= breach_threshold
    BY <1>1, <1>2, <1>3, Thresholds
  <2>2. (L - breach_threshold + 1)..L \subseteq (L - n + 1)..L
    BY <1>1, <1>3, Thresholds
  <2>3. Failures(s, L, breach_threshold)
    BY <2>1, <2>2, <1>2 DEF Failures
  <2> QED
    BY <2>3, <1>3 DEF L
<1>4. CASE n < breach_threshold
  <2>1. n < CounterCap
    BY <1>4, Thresholds
  <2>2. CASE n = L
    <3>1. ~Failures(s, L, breach_threshold)
      BY <2>2, <1>4, Thresholds DEF Failures
    <3> QED
      BY <3>1, <1>4, Thresholds DEF L
  <2>3. CASE n < L
    <3>1. s[L - n].ok
      BY <2>1, <2>3, <1>2
    <3>2. L - n \in (L - breach_threshold + 1)..L
      BY <2>3, <1>1, <1>4, Thresholds
    <3>3. ~Failures(s, L, breach_threshold)
      BY <3>1, <3>2 DEF Failures
    <3> QED
      BY <3>3, <1>4, Thresholds DEF L
  <2> QED
    BY <2>2, <2>3, <1>1, <1>2
<1> QED
  BY <1>3, <1>4, Thresholds

\* A failed check: the counter goes on measuring the run, and the check
\* confirms a failure exactly when the counter reaches the threshold.
LEMMA FailureStep ==
  ASSUME IInv, NEW now \in Clock, CountFailure,
         polls' = Append(polls, [ok |-> FALSE, now |-> now])
  PROVE  /\ FailureRun'
         /\ consecutive_failures' = Bump(consecutive_failures)
         /\ consecutive_failures' \in 0..CounterCap
         /\ consecutive_successes' = 0
         /\ Unresolved(polls') =
              Unresolved(polls) \cup
                (IF Bump(consecutive_failures) >= breach_threshold
                 THEN {Len(polls) + 1} ELSE {})
<1> DEFINE e == [ok |-> FALSE, now |-> now]
           t == Append(polls, e)
           m == Bump(consecutive_failures)
<1>1. e \in Poll /\ ~e.ok /\ polls \in Seq(Poll) /\ consecutive_failures \in 0..CounterCap
  BY DEF IInv, TypeOK, MonitorTypeOK, Poll
<1>2. polls' = t /\ consecutive_failures' = m /\ consecutive_successes' = 0
  BY DEF CountFailure
<1>3. t \in Seq(Poll) /\ Len(t) = Len(polls) + 1 /\ Len(polls) \in Nat /\ ~t[Len(polls) + 1].ok
  BY <1>1
<1>4. m \in 0..CounterCap
  BY <1>1, BumpFacts
<1>5. FailureTail(t, m)
  BY <1>1, TailGrows DEF IInv, FailureRun
<1> HIDE DEF e, t, m
<1>6. Failures(t, Len(polls) + 1, breach_threshold) <=> m >= breach_threshold
  BY <1>3, <1>4, <1>5, TailConfirms
<1>7. ~Successes(t, Len(polls) + 1, recovery_threshold)
  BY <1>3, Thresholds DEF Successes
<1>8. Unresolved(t) =
        Unresolved(polls) \cup
          (IF m >= breach_threshold THEN {Len(polls) + 1} ELSE {})
  BY <1>1, <1>6, <1>7, UnresolvedAppend DEF t
<1>9. FailureRun'
  BY <1>2, <1>5 DEF FailureRun
<1> QED
  BY <1>2, <1>4, <1>8, <1>9 DEF m

----------------------------------------------------------------------------
\* A good check ends the run of failed checks, confirms nothing, and leaves
\* unconfirmed what was.
LEMMA SuccessStep ==
  ASSUME IInv, NEW now \in Clock, consecutive_failures' = 0,
         polls' = Append(polls, [ok |-> TRUE, now |-> now])
  PROVE  /\ FailureRun'
         /\ ~Failures(polls', Len(polls) + 1, breach_threshold)
         /\ Unresolved(polls') \subseteq Unresolved(polls)
<1> DEFINE e == [ok |-> TRUE, now |-> now]
           t == Append(polls, e)
<1>1. e \in Poll /\ e.ok /\ polls \in Seq(Poll)
  BY DEF IInv, TypeOK, Poll
<1>2. polls' = t
  OBVIOUS
<1>3. /\ Len(t) = Len(polls) + 1 /\ Len(polls) \in Nat /\ t[Len(polls) + 1].ok
      /\ Confirms(t, Len(polls) + 1) <=> Failures(t, Len(polls) + 1, breach_threshold)
      /\ \A i \in 1..Len(polls) : Confirms(t, i) => Confirms(polls, i)
  <2>1. Len(t) = Len(polls) + 1 /\ Len(polls) \in Nat /\ t[Len(polls) + 1].ok
    BY <1>1
  <2> HIDE DEF e
  <2> QED
    BY <1>1, <2>1, ConfirmsAppend, ConfirmsLast
<1> HIDE DEF e, t
<1>4. FailureTail(t, 0)
  BY <1>3 DEF FailureTail
<1>5. ~Failures(t, Len(polls) + 1, breach_threshold)
  BY <1>3, Thresholds DEF Failures
<1>6. 1..Len(t) = (1..Len(polls)) \cup {Len(polls) + 1}
  BY <1>3
<1>7. Unresolved(t) \subseteq Unresolved(polls)
  BY <1>3, <1>5, <1>6 DEF Unresolved
<1> QED
  BY <1>2, <1>4, <1>5, <1>7 DEF FailureRun

\* A good check that does not complete the run keeps every confirmation.
LEMMA PendingKeeps ==
  ASSUME NEW s \in Seq(Poll), NEW e \in Poll, e.ok,
         NEW n \in 0..CounterCap, RecoveryTail(s, n), Bump(n) < recovery_threshold
  PROVE  /\ RecoveryTail(Append(s, e), Bump(n))
         /\ ~Successes(Append(s, e), Len(s) + 1, recovery_threshold)
<1> DEFINE t == Append(s, e)
           L == Len(s)
<1>1. /\ Len(t) = L + 1 /\ L \in Nat
      /\ \A k \in 1..L : t[k] = s[k]
      /\ t[L + 1].ok
  OBVIOUS
<1>2. Bump(n) = n + 1 /\ n \in Nat
  BY BumpFacts, Thresholds
<1>3. /\ n < L /\ ~s[L - n].ok
      /\ \A k \in (L - n + 1)..L : s[k].ok
  BY DEF RecoveryTail
<1> HIDE DEF t, L
<1>4. ~t[Len(t) - (n + 1)].ok
  <2>1. Len(t) - (n + 1) = L - n /\ L - n \in 1..L
    BY <1>1, <1>2, <1>3
  <2> QED
    BY <2>1, <1>1, <1>3
<1>5. \A k \in (Len(t) - (n + 1) + 1)..Len(t) : t[k].ok
  <2>1. SUFFICES ASSUME NEW k \in (L - n + 1)..(L + 1) PROVE t[k].ok
    BY <1>1, <1>2
  <2>2. CASE k = L + 1
    BY <2>2, <1>1
  <2>3. CASE k # L + 1
    <3>1. k \in (L - n + 1)..L /\ k \in 1..L
      BY <2>3, <1>1, <1>2, <1>3
    <3> QED
      BY <3>1, <1>1, <1>3
  <2> QED
    BY <2>2, <2>3
<1>6. n + 1 < recovery_threshold /\ n + 1 < Len(t)
  BY <1>1, <1>2, <1>3, Thresholds
<1>7. RecoveryTail(t, Bump(n))
  BY <1>2, <1>4, <1>5, <1>6 DEF RecoveryTail
<1>8. Len(t) - (n + 1) \in (L + 1 - recovery_threshold + 1)..(L + 1)
  BY <1>1, <1>2, <1>6, Thresholds
<1>9. ~Successes(t, L + 1, recovery_threshold)
  BY <1>1, <1>4, <1>8, Thresholds DEF Successes
<1> QED
  BY <1>7, <1>9 DEF t, L

\* The good check that completes the run resolves every confirmation: each lies
\* before the run.
LEMMA RecoveryResolves ==
  ASSUME NEW s \in Seq(Poll), NEW e \in Poll, e.ok,
         NEW n \in 0..CounterCap, RecoveryTail(s, n), Bump(n) >= recovery_threshold
  PROVE  Unresolved(Append(s, e)) = {}
<1> DEFINE t == Append(s, e)
           L == Len(s)
<1>1. /\ Len(t) = L + 1 /\ L \in Nat
      /\ \A k \in 1..L : t[k] = s[k]
      /\ t[L + 1].ok
      /\ Confirms(t, L + 1) <=> Failures(t, L + 1, breach_threshold)
      /\ \A i \in 1..L : Confirms(t, i)
           => Confirms(s, i) /\ (i + recovery_threshold <= L + 1
                                  => ~Successes(t, L + 1, recovery_threshold))
  BY ConfirmsAppend, ConfirmsLast
<1>2. n \in Nat /\ n + 1 >= recovery_threshold /\ n < recovery_threshold
  BY BumpFacts, Thresholds DEF RecoveryTail
<1>3. /\ n < L
      /\ \A k \in (L - n + 1)..L : s[k].ok
  BY DEF RecoveryTail
<1> HIDE DEF t, L
<1>4. \A k \in (L + 1 - recovery_threshold + 1)..(L + 1) : t[k].ok
  <2>1. SUFFICES ASSUME NEW k \in (L + 1 - recovery_threshold + 1)..(L + 1) PROVE t[k].ok
    OBVIOUS
  <2>2. CASE k = L + 1
    BY <2>2, <1>1
  <2>3. CASE k # L + 1
    <3>1. k \in (L - n + 1)..L /\ k \in 1..L
      BY <2>3, <1>1, <1>2, <1>3, Thresholds
    <3> QED
      BY <3>1, <1>1, <1>3
  <2> QED
    BY <2>2, <2>3
<1>5. Successes(t, L + 1, recovery_threshold)
  BY <1>1, <1>4, Thresholds DEF Successes
<1>6. ASSUME NEW i \in 1..L, Confirms(t, i) PROVE FALSE
  <2>1. ~s[i].ok
    <3>1. Failures(s, i, breach_threshold)
      BY <1>1, <1>6 DEF Confirms
    <3>2. i \in (i - breach_threshold + 1)..i
      BY <1>1, Thresholds
    <3> QED
      BY <3>1, <3>2 DEF Failures
  <2>2. i <= L - n
    BY <2>1, <1>1, <1>2, <1>3
  <2>3. i + recovery_threshold <= L + 1
    BY <2>2, <1>1, <1>2, Thresholds
  <2> QED
    BY <2>3, <1>1, <1>5, <1>6
<1>7. ~Confirms(t, L + 1)
  BY <1>1, Thresholds DEF Failures
<1>8. 1..Len(t) = (1..L) \cup {L + 1}
  BY <1>1
<1> QED
  BY <1>6, <1>7, <1>8 DEF Unresolved, t

----------------------------------------------------------------------------
\* An incident that stays open keeps its start: the check that confirmed it is
\* still the first unresolved position.
LEMMA StartKept ==
  ASSUME IInv, incident_open, NEW e \in Poll, polls' = Append(polls, e),
         incident_open', incident_started_at' = incident_started_at,
         Unresolved(polls) \subseteq Unresolved(polls'),
         Unresolved(polls') \subseteq Unresolved(polls) \cup {Len(polls) + 1}
  PROVE  (OpenIffConfirmed /\ StartIsConfirmingPoll)'
<1>1. polls \in Seq(Poll)
  BY DEF IInv, TypeOK, Poll
<1>2. PICK i \in Unresolved(polls) :
        /\ \A j \in Unresolved(polls) : i <= j
        /\ incident_started_at = polls[i].now
  BY DEF IInv, StartIsConfirmingPoll
<1>3. i \in 1..Len(polls) /\ Len(polls) \in Nat
  BY <1>1 DEF Unresolved
<1>4. polls'[i] = polls[i]
  BY <1>1, <1>3
<1>5. \A j \in Unresolved(polls') : i <= j
  BY <1>2, <1>3
<1>6. i \in Unresolved(polls')
  OBVIOUS
<1> QED
  BY <1>2, <1>4, <1>5, <1>6 DEF OpenIffConfirmed, StartIsConfirmingPoll, DownAfter

\* With nothing confirmed and no incident the two properties hold trivially.
LEMMA ClosedKept ==
  ASSUME ~incident_open', incident_started_at' = None, Unresolved(polls') = {}
  PROVE  (OpenIffConfirmed /\ StartIsConfirmingPoll)'
BY DEF OpenIffConfirmed, StartIsConfirmingPoll, DownAfter

\* Every call of observe() preserves the invariant.
LEMMA NextIInv == IInv /\ [Next]_vars => IInv'
<1> SUFFICES ASSUME IInv, [Next]_vars PROVE IInv'
  OBVIOUS
<1> USE DEF OnFailure, OnSuccess, Decide
<1>1. /\ polls \in Seq(Poll) /\ Len(polls) \in Nat
      /\ consecutive_failures \in 0..CounterCap
      /\ consecutive_successes \in 0..CounterCap
      /\ incident_open \in BOOLEAN
      /\ incident_started_at \in Int \cup {None}
      /\ outcome \in Outcomes /\ downtime \in Int \cup {None}
      /\ 0 \in 0..CounterCap
  BY Thresholds DEF IInv, TypeOK, MonitorTypeOK, Poll
<1>2. \A now \in Clock, ok \in BOOLEAN :
         /\ [ok |-> ok, now |-> now] \in Poll
         /\ Append(polls, [ok |-> ok, now |-> now]) \in Seq([ok : BOOLEAN, now : Clock])
         /\ Append(polls, [ok |-> ok, now |-> now])[Len(polls) + 1].now = now
  BY <1>1 DEF Poll
<1>3. /\ OpenIffConfirmed /\ StartIsConfirmingPoll
      /\ FailureRun /\ BelowThreshold /\ SuccessRun
  BY DEF IInv
<1>4. ASSUME NEW now \in Clock, FailureWhileOpen, Decide(FALSE, now, "nothing", None)
      PROVE  IInv'
  <2>1. /\ FailureRun' /\ consecutive_failures' \in 0..CounterCap /\ consecutive_successes' = 0
        /\ Unresolved(polls') \subseteq Unresolved(polls) \cup {Len(polls) + 1}
        /\ Unresolved(polls) \subseteq Unresolved(polls')
    BY <1>4, FailureStep DEF FailureWhileOpen
  <2>2. TypeOK'
    BY <1>1, <1>2, <1>4, <2>1 DEF TypeOK, MonitorTypeOK, FailureWhileOpen, KeepIncident, Outcomes
  <2>3. SuccessRun'
    <3>1. RecoveryTail(Append(polls, [ok |-> FALSE, now |-> now]), 0)
      BY <1>1, Thresholds DEF RecoveryTail
    <3> QED
      BY <3>1, <2>1, <1>4 DEF SuccessRun
  <2>4. (OpenIffConfirmed /\ StartIsConfirmingPoll)'
    BY <1>2, <1>4, <2>1, StartKept DEF FailureWhileOpen, KeepIncident
  <2>5. BelowThreshold'
    BY <1>4 DEF FailureWhileOpen, KeepIncident, BelowThreshold
  <2> QED
    BY <2>1, <2>2, <2>3, <2>4, <2>5 DEF IInv
<1>5. ASSUME NEW now \in Clock, StillBreaching, Decide(FALSE, now, "still_breaching", None)
      PROVE  IInv'
  <2>1. /\ FailureRun' /\ consecutive_failures' \in 0..CounterCap /\ consecutive_successes' = 0
        /\ consecutive_failures' = Bump(consecutive_failures)
        /\ ~(Bump(consecutive_failures) >= breach_threshold)
        /\ Unresolved(polls') =
             Unresolved(polls) \cup (IF Bump(consecutive_failures) >= breach_threshold
                                     THEN {Len(polls) + 1} ELSE {})
    <3>1. Bump(consecutive_failures) \in 0..CounterCap
      BY <1>1, BumpFacts
    <3>2. ~(Bump(consecutive_failures) >= breach_threshold)
      BY <1>5, <3>1, Thresholds DEF StillBreaching
    <3> QED
      BY <1>5, <3>2, FailureStep DEF StillBreaching
  <2>2. TypeOK'
    BY <1>1, <1>2, <1>5, <2>1 DEF TypeOK, MonitorTypeOK, StillBreaching, KeepIncident, Outcomes
  <2>3. SuccessRun' /\ BelowThreshold'
    BY <1>5, <2>1 DEF StillBreaching, KeepIncident, SuccessRun, BelowThreshold
  <2>4. (OpenIffConfirmed /\ StartIsConfirmingPoll)'
    BY <1>3, <1>5, <2>1, ClosedKept
       DEF StillBreaching, KeepIncident, OpenIffConfirmed, StartIsConfirmingPoll, DownAfter
  <2> QED
    BY <2>1, <2>2, <2>3, <2>4 DEF IInv
<1>6. ASSUME NEW now \in Clock, FailureConfirmed(now), Decide(FALSE, now, "failure_confirmed", None)
      PROVE  IInv'
  <2>1. /\ FailureRun' /\ consecutive_failures' \in 0..CounterCap /\ consecutive_successes' = 0
        /\ Unresolved(polls') =
             Unresolved(polls) \cup (IF Bump(consecutive_failures) >= breach_threshold
                                     THEN {Len(polls) + 1} ELSE {})
    BY <1>6, FailureStep DEF FailureConfirmed
  <2>2. Unresolved(polls') = {Len(polls) + 1}
    BY <1>3, <1>6, <2>1 DEF FailureConfirmed, OpenIffConfirmed, DownAfter
  <2>3. now \in Int
    BY ClockAssumption
  <2>4. TypeOK'
    BY <1>1, <1>2, <1>6, <2>1, <2>3 DEF TypeOK, MonitorTypeOK, FailureConfirmed, Outcomes
  <2>5. SuccessRun'
    <3>1. RecoveryTail(Append(polls, [ok |-> FALSE, now |-> now]), 0)
      BY <1>1, Thresholds DEF RecoveryTail
    <3> QED
      BY <3>1, <2>1, <1>6 DEF SuccessRun
  <2>6. BelowThreshold'
    BY <1>6 DEF FailureConfirmed, BelowThreshold
  <2>7. polls'[Len(polls) + 1].now = now
    BY <1>2, <1>6
  <2>8. (OpenIffConfirmed /\ StartIsConfirmingPoll)'
    <3>1. Len(polls) + 1 <= Len(polls) + 1
      BY <1>1
    <3> QED
      BY <1>6, <2>2, <2>7, <3>1
         DEF FailureConfirmed, OpenIffConfirmed, StartIsConfirmingPoll, DownAfter
  <2> QED
    BY <2>1, <2>4, <2>5, <2>6, <2>8 DEF IInv
<1>7. ASSUME NEW now \in Clock, StillHealthy, Decide(TRUE, now, "nothing", None)
      PROVE  IInv'
  <2>1. FailureRun' /\ Unresolved(polls') \subseteq Unresolved(polls)
    BY <1>7, SuccessStep DEF StillHealthy, CountSuccess
  <2>2. consecutive_successes' \in 0..CounterCap /\ consecutive_failures' = 0
    BY <1>1, <1>7, BumpFacts DEF StillHealthy, CountSuccess
  <2>3. TypeOK'
    BY <1>1, <1>2, <1>7, <2>2 DEF TypeOK, MonitorTypeOK, StillHealthy, KeepIncident, Outcomes
  <2>4. SuccessRun' /\ BelowThreshold'
    BY <1>7, <2>2, Thresholds DEF StillHealthy, KeepIncident, SuccessRun, BelowThreshold
  <2>5. (OpenIffConfirmed /\ StartIsConfirmingPoll)'
    BY <1>3, <1>7, <2>1, ClosedKept
       DEF StillHealthy, KeepIncident, OpenIffConfirmed, StartIsConfirmingPoll, DownAfter
  <2> QED
    BY <2>1, <2>3, <2>4, <2>5 DEF IInv
<1>8. ASSUME NEW now \in Clock, RecoveryPending, Decide(TRUE, now, "nothing", None)
      PROVE  IInv'
  <2>1. FailureRun' /\ ~Failures(polls', Len(polls) + 1, breach_threshold)
    BY <1>8, SuccessStep DEF RecoveryPending, CountSuccess
  <2>2. consecutive_successes' = Bump(consecutive_successes) /\ consecutive_failures' = 0
    BY <1>8 DEF RecoveryPending, CountSuccess
  <2>3. Bump(consecutive_successes) \in 0..CounterCap
    BY <1>1, BumpFacts
  <2>4. /\ RecoveryTail(polls', Bump(consecutive_successes))
        /\ ~Successes(polls', Len(polls) + 1, recovery_threshold)
    BY <1>1, <1>2, <1>3, <1>8, PendingKeeps DEF RecoveryPending, SuccessRun
  <2>5. Unresolved(polls') = Unresolved(polls)
    BY <1>1, <1>2, <1>8, <2>1, <2>4, UnresolvedAppend
  <2>6. TypeOK'
    BY <1>1, <1>2, <1>8, <2>2, <2>3
       DEF TypeOK, MonitorTypeOK, RecoveryPending, KeepIncident, Outcomes
  <2>7. SuccessRun' /\ BelowThreshold'
    BY <2>2, <2>4, Thresholds DEF SuccessRun, BelowThreshold
  <2>8. (OpenIffConfirmed /\ StartIsConfirmingPoll)'
    BY <1>2, <1>8, <2>5, StartKept DEF RecoveryPending, KeepIncident
  <2> QED
    BY <2>1, <2>6, <2>7, <2>8 DEF IInv
<1>9. ASSUME NEW now \in Clock, Recovered, Decide(TRUE, now, "recovered", Downtime(now))
      PROVE  IInv'
  <2>1. FailureRun'
    BY <1>9, SuccessStep DEF Recovered
  <2>2. Unresolved(polls') = {}
    BY <1>1, <1>2, <1>3, <1>9, RecoveryResolves DEF Recovered, SuccessRun
  <2>3. Downtime(now) \in Int \cup {None}
    BY <1>1, ClockAssumption DEF Downtime
  <2>4. TypeOK'
    BY <1>1, <1>2, <1>9, <2>3 DEF TypeOK, MonitorTypeOK, Recovered, Outcomes
  <2>5. SuccessRun' /\ BelowThreshold'
    BY <1>9, Thresholds DEF Recovered, SuccessRun, BelowThreshold
  <2>6. (OpenIffConfirmed /\ StartIsConfirmingPoll)'
    BY <1>9, <2>2, ClosedKept DEF Recovered
  <2> QED
    BY <2>1, <2>4, <2>5, <2>6 DEF IInv
<1>10. CASE UNCHANGED vars
  BY <1>10 DEF vars, monitorVars, IInv, TypeOK, MonitorTypeOK, FailureRun, BelowThreshold,
     SuccessRun, OpenIffConfirmed, StartIsConfirmingPoll
<1> QED
  BY <1>4, <1>5, <1>6, <1>7, <1>8, <1>9, <1>10 DEF Next

\* Types are preserved, for every value of the constants.
THEOREM TypeCorrect == Spec => []TypeOK
<1>1. IInv => TypeOK
  BY DEF IInv
<1> QED
  BY <1>1, InitIInv, NextIInv, PTL DEF Spec

\* The incident latch of breach.py agrees with the documented description of
\* the stream of checks.
THEOREM LatchIsConfirmedFailure == Spec => []OpenIffConfirmed
<1>1. IInv => OpenIffConfirmed
  BY DEF IInv
<1> QED
  BY <1>1, InitIInv, NextIInv, PTL DEF Spec

\* The downtime is measured from the check that confirmed the failure.
THEOREM DowntimeFromConfirmation == Spec => []StartIsConfirmingPoll
<1>1. IInv => StartIsConfirmingPoll
  BY DEF IInv
<1> QED
  BY <1>1, InitIInv, NextIInv, PTL DEF Spec

----------------------------------------------------------------------------
\* An open incident has a start, so its downtime is a number of seconds.
LEMMA DowntimeIsNat ==
  ASSUME IInv, incident_open, NEW now \in Clock
  PROVE  Downtime(now) \in Nat
<1>1. PICK i \in Unresolved(polls) : incident_started_at = polls[i].now
  BY DEF IInv, StartIsConfirmingPoll
<1>2. polls \in Seq(Poll) /\ i \in 1..Len(polls)
  BY DEF IInv, TypeOK, Poll, Unresolved
<1>3. polls[i] \in Poll
  BY <1>2
<1>4. incident_started_at \in Int /\ now \in Int
  BY <1>1, <1>3, ClockAssumption DEF Poll
<1>5. incident_started_at # None
  BY <1>4, NoneAssumption
<1> QED
  BY <1>4, <1>5 DEF Downtime

\* What the latch says before and after a check, and the Decision returned.
LEMMA DecisionStep ==
  ASSUME IInv, IInv', NEW now \in Clock, OnFailure(now) \/ OnSuccess(now)
  PROVE  DecisionsAreEdges'
<1>1. PICK ok \in BOOLEAN :
        /\ polls' = Append(polls, [ok |-> ok, now |-> now])
        /\ ~ok => OnFailure(now)
        /\ ok => OnSuccess(now)
  BY DEF OnFailure, OnSuccess, Decide
<1>2. polls \in Seq(Poll) /\ [ok |-> ok, now |-> now] \in Poll
  BY DEF IInv, TypeOK, Poll
<1>3. /\ Len(polls') = Len(polls) + 1
      /\ polls'[Len(polls')] = [ok |-> ok, now |-> now]
      /\ SubSeq(polls', 1, Len(polls') - 1) = polls
  BY <1>1, <1>2
<1>4. Before(polls') = polls /\ (polls'[Len(polls')].ok <=> ok)
  BY <1>3 DEF Before
<1>5. (DownAfter(polls) <=> incident_open) /\ (DownAfter(polls') <=> incident_open')
  BY DEF IInv, OpenIffConfirmed
<1>6. CASE ~ok
  BY <1>1, <1>4, <1>5, <1>6
     DEF OnFailure, Decide, DecisionsAreEdges, FailureWhileOpen, StillBreaching,
         FailureConfirmed, KeepIncident
<1>7. CASE ok
  <2>1. incident_open => Downtime(now) \in Nat
    BY DowntimeIsNat
  <2> QED
    BY <1>1, <1>4, <1>5, <1>7, <2>1
       DEF OnSuccess, Decide, DecisionsAreEdges, StillHealthy, RecoveryPending,
           Recovered, KeepIncident
<1> QED
  BY <1>6, <1>7

\* FAILURE_CONFIRMED and RECOVERED are returned on the edges of the outage and
\* nowhere else, for every stream.
THEOREM EdgesOnly == Spec => []DecisionsAreEdges
<1>1. Init => DecisionsAreEdges
  BY DEF Init, DecisionsAreEdges
<1>2. IInv /\ IInv' /\ DecisionsAreEdges /\ [Next]_vars => DecisionsAreEdges'
  <2>1. CASE UNCHANGED vars
    BY <2>1 DEF vars, DecisionsAreEdges
  <2> QED
    BY <2>1, DecisionStep DEF Next
<1> QED
  BY <1>1, <1>2, InitIInv, NextIInv, PTL DEF Spec

=============================================================================
