---------------------------- MODULE OutageProofs ----------------------------
(***************************************************************************)
(* Proofs about OutageDetection for every backoff, timeout, threshold,     *)
(* window and cooldown, and any number of outages of any length: no row is *)
(* opened for a server that is well, and, with settings that go together   *)
(* as SettingsAssumption says, no outage stays off the record.             *)
(***************************************************************************)
EXTENDS OutageDetection, DetectionProofs, FiniteSetTheorems

\* When the generator wakes.
Waiting ==
  /\ now <= wake
  /\ pc \in {"connect", "failed"} => attempt > 0
  /\ pc = "write" => wake <= now + 1
  /\ pc \in {"write_error", "failed"} => wake <= now + connect_timeout
  /\ pc = "reconnect_failed" => wake = now
  /\ pc = "connect" =>
       /\ wake <= now + cap_seconds
       /\ attempt = 1 => wake = now
       /\ attempt = 2 => wake <= now + 1

\* What is about to be logged is the failure of a call to a server that was gone,
\* and may have come back in the meantime.
CallFailed ==
  pc \in {"write_error", "failed", "reconnect_failed"} =>
    ~up \/ wake <= since + connect_timeout

RowsArePast == \A r \in RuleNames : rows[r].number > 0 => rows[r].at <= now

TypeInv == TypeOK /\ Waiting
AlarmInv == CallFailed /\ RowsArePast /\ NoFalseAlarm

\* The rule that counts retries: its deque, and until when it is quiet.
Hits == rules["connection_failures"].hits
Quiet == rules["connection_failures"].quiet_until

\* The number of the next retry within its backoff, and the time by which it comes
\* if the server is gone until then.
NextAttempt ==
  IF pc \in {"connect", "failed"} /\ attempt < max_attempts THEN attempt ELSE 1
Ahead ==
  IF pc = "failed"
  THEN IF attempt < max_attempts THEN 0 ELSE 2 * connect_timeout
  ELSE IF pc = "connect"
  THEN IF attempt < max_attempts THEN connect_timeout ELSE 3 * connect_timeout
  ELSE IF pc = "write_error" THEN connect_timeout ELSE 2 * connect_timeout
NextRetry == wake + Ahead

\* At most so long before retry a of a backoff was the one before it, so long after
\* it is the next one, and the one after that.
Before(a) ==
  IF a = 1 THEN cap_seconds + 3 * connect_timeout ELSE cap_seconds + connect_timeout
After(a) ==
  IF a = 1 THEN 1 + connect_timeout
  ELSE IF a = 2 THEN (IF cap_seconds < 2 THEN cap_seconds ELSE 2) + connect_timeout
  ELSE cap_seconds + 3 * connect_timeout
TwoAfter(a) ==
  IF a = 1 THEN 3 + 2 * connect_timeout
  ELSE IF a = 2 THEN 2 + cap_seconds + 4 * connect_timeout
  ELSE 2 * cap_seconds + 4 * connect_timeout

\* In what follows retry a comes by time t, to a rule with this deque that is quiet
\* until q.  The retry before it is in the deque, and so is the one before that.
OneHit(hits, t, a) == Len(hits) >= 1 /\ hits[Len(hits)] >= t - Before(a)
TwoHits(hits, t, a) ==
  OneHit(hits, t, a) /\ Len(hits) >= 2 /\ hits[Len(hits) - 1] >= t - conn_fail_window

FiredSince(q, t) == q # Never /\ t + cooldown <= q

\* The retries of this backoff are in the deque, but for those a fire took out.
Counted(hits, q, t, a) ==
  /\ a = 2 => OneHit(hits, t, a) \/ FiredSince(q, t - Before(a))
  /\ a > 2 => \/ TwoHits(hits, t, a)
              \/ OneHit(hits, t, a) /\ FiredSince(q, t - conn_fail_window)
              \/ FiredSince(q, t - Before(a))

\* Not too late for an outage that began at time s, or for the last cooldown.
InTime(q, s, t) == t <= s + DetectBy \/ (q # Never /\ t <= q + DetectBy)

\* In an outage that began at time s, the retry that makes three comes in time.
OnItsWay(hits, q, s, t, a) ==
  \/ TwoHits(hits, t, a) /\ InTime(q, s, t)
  \/ OneHit(hits, t, a) /\ InTime(q, s, t + After(a))
  \/ InTime(q, s, t + TwoAfter(a))

\* A rule is quiet for a cooldown after its last row.
QuietSinceRow ==
  Quiet # Never =>
    /\ rows["connection_failures"].number > 0
    /\ Quiet = rows["connection_failures"].at + cooldown

RecordInv ==
  /\ Counted(Hits, Quiet, NextRetry, NextAttempt)
  /\ ~up => OnItsWay(Hits, Quiet, since, NextRetry, NextAttempt)
  /\ QuietSinceRow

----------------------------------------------------------------------------
LEMMA PowerPositive ==
  ASSUME NEW n \in Nat
  PROVE  2 ^ n \in Nat \ {0}
<1>1. IsFiniteSet(1..n) /\ Cardinality(1..n) = n
  BY FS_Interval
<1>2. IsFiniteSet(SUBSET (1..n)) /\ Cardinality(SUBSET (1..n)) = 2 ^ n
  BY <1>1, FS_SUBSET
<1>3. SUBSET (1..n) # {}
  OBVIOUS
<1> QED
  BY <1>2, <1>3, FS_EmptySet, FS_CardinalityType

\* The backoff sleeps at least a second, at most cap_seconds.
LEMMA DelayBounds ==
  ASSUME attempt \in Nat \ {0}
  PROVE  /\ Delay \in 1..cap_seconds
         /\ attempt = 1 => Delay = 1
         /\ attempt = 2 => Delay <= 2
<1>1. attempt - 1 \in Nat
  OBVIOUS
<1>2. 2 ^ (attempt - 1) \in Nat \ {0}
  BY <1>1, PowerPositive
<1>3. Delay \in 1..cap_seconds /\ Delay <= 2 ^ (attempt - 1)
  BY <1>2, RetryAssumption DEF Delay
<1>4. 2 ^ 0 = 1 /\ 2 ^ 1 = 2
  OBVIOUS
<1>5. attempt = 1 => 2 ^ (attempt - 1) = 1
  BY <1>4
<1>6. attempt = 2 => 2 ^ (attempt - 1) = 2
  BY <1>4
<1> QED
  BY <1>3, <1>5, <1>6

\* What HitsAt makes of a deque: the new time is its last, and its end stays as
\* far as it lies in the window.
LEMMA HitsFacts ==
  ASSUME NEW r, r.hits \in Seq(Int), NEW w \in Nat, NEW t \in Int
  PROVE  LET g == r.hits
             h == HitsAt(r, w, t)
         IN  /\ h \in Seq(Int) /\ Len(h) >= 1 /\ h[Len(h)] = t
             /\ Len(g) >= 1 /\ g[Len(g)] >= t - w =>
                  Len(h) >= 2 /\ h[Len(h) - 1] = g[Len(g)]
             /\ Len(g) >= 2 /\ g[Len(g)] >= t - w /\ g[Len(g) - 1] >= t - w =>
                  Len(h) >= 3
<1> DEFINE g == r.hits
           a == Append(g, t)
           h == HitsAt(r, w, t)
           c == t - w
<1>1. /\ a \in Seq(Int) /\ Len(a) = Len(g) + 1 /\ a[Len(a)] = t /\ Len(g) \in Nat
      /\ \A i \in 1..Len(g) : a[i] = g[i] /\ g[i] \in Int
      /\ c \in Int /\ Len(a) > 0 /\ a[Len(a)] >= c
  OBVIOUS
<1>2. h = Aged(a, c)
  BY DEF HitsAt
<1> HIDE DEF a, h, g, c
<1>3. PICK k \in 1..Len(a) :
        /\ h \in Seq(Int) /\ Len(h) = Len(a) - k + 1
        /\ \A j \in 1..Len(h) : h[j] = a[k + j - 1]
        /\ a[k] >= c
        /\ \A j \in 1..(k - 1) : a[j] < c
  BY <1>1, <1>2, AgedFacts
<1>4. Len(h) >= 1 /\ h[Len(h)] = t
  <2>1. Len(h) >= 1 /\ Len(h) \in 1..Len(h) /\ k + Len(h) - 1 = Len(a)
    BY <1>1, <1>3
  <2>2. h[Len(h)] = a[k + Len(h) - 1]
    BY <1>3, <2>1
  <2> QED
    BY <1>1, <2>1, <2>2
<1>5. ASSUME Len(g) >= 1, g[Len(g)] >= c
      PROVE  Len(h) >= 2 /\ h[Len(h) - 1] = g[Len(g)] /\ k <= Len(g)
  <2>1. Len(g) \in 1..Len(g) /\ a[Len(g)] = g[Len(g)] /\ g[Len(g)] \in Int
    BY <1>1, <1>5
  <2>2. k <= Len(g)
    <3>1. SUFFICES ASSUME Len(g) \in 1..(k - 1)  PROVE FALSE
      BY <1>1, <2>1
    <3> QED
      BY <1>1, <1>3, <1>5, <2>1, <3>1
  <2>3. Len(h) - 1 \in 1..Len(h) /\ k + (Len(h) - 1) - 1 = Len(g)
    BY <1>1, <1>3, <2>2
  <2> QED
    BY <1>3, <2>1, <2>2, <2>3
<1>6. ASSUME Len(g) >= 2, g[Len(g)] >= c, g[Len(g) - 1] >= c
      PROVE  Len(h) >= 3
  <2>1. Len(g) - 1 \in 1..Len(g) /\ a[Len(g) - 1] = g[Len(g) - 1] /\ g[Len(g) - 1] \in Int
    BY <1>1, <1>6
  <2>2. k <= Len(g) - 1
    <3>1. SUFFICES ASSUME Len(g) - 1 \in 1..(k - 1)  PROVE FALSE
      BY <1>1, <2>1
    <3> QED
      BY <1>1, <1>3, <1>6, <2>1, <3>1
  <2> QED
    BY <1>1, <1>3, <2>2
<1> QED
  BY <1>3, <1>4, <1>5, <1>6 DEF g, h, c

\* A rule keeps its type, whatever line it is given.
LEMMA FedTyped ==
  ASSUME TypeOK, NEW r \in RuleNames, NEW line
  PROVE  FeedRule(r, line, rules[r]) \in [hits : Seq(Int), quiet_until : Int \cup {Never}]
<1> DEFINE Rule == [hits : Seq(Int), quiet_until : Int \cup {Never}]
<1>1. rules[r] \in Rule /\ now \in Int /\ now + cooldown \in Int /\ <<>> \in Seq(Int)
  BY CooldownAssumption, BoundsAssumption DEF TypeOK
<1>2. ASSUME NEW n, NEW w \in Nat
      PROVE  FeedCount(rules[r], n, w, now) \in Rule
  <2>1. HitsAt(rules[r], w, now) \in Seq(Int)
    BY <1>1, HitsFacts
  <2> QED
    BY <1>1, <2>1 DEF FeedCount, CountFires
<1>3. FeedKnown(rules[r], now) \in Rule
  BY <1>1 DEF FeedKnown
<1> QED
  BY <1>1, <1>2, <1>3, ThresholdsAssumption DEF FeedRule, RuleNames

\* What a line logged does to the rules and the rows.
LEMMA LogsFacts ==
  ASSUME TypeOK, NEW line, Logs(line)
  PROVE  /\ rules' \in [RuleNames -> [hits : Seq(Int), quiet_until : Int \cup {Never}]]
         /\ rows' \in [RuleNames -> [number : Nat, at : 0..MaxTime]]
         /\ \A r \in RuleNames : rules'[r] = FeedRule(r, line, rules[r])
         /\ \A r \in RuleNames :
              IF rules'[r].quiet_until # rules[r].quiet_until
              THEN rows'[r] = [number |-> rows[r].number + 1, at |-> now]
              ELSE rows'[r] = rows[r]
<1>1. \A r \in RuleNames :
        FeedRule(r, line, rules[r]) \in [hits : Seq(Int), quiet_until : Int \cup {Never}]
  BY FedTyped
<1>2. \A r \in RuleNames :
        [number |-> rows[r].number + 1, at |-> now] \in [number : Nat, at : 0..MaxTime]
  BY BoundsAssumption DEF TypeOK
<1> QED
  BY <1>1, <1>2 DEF Logs, TypeOK

----------------------------------------------------------------------------
LEMMA InitTyped == Init => TypeInv
<1> SUFFICES ASSUME Init  PROVE TypeInv
  OBVIOUS
<1>1. rules \in [RuleNames -> [hits : Seq(Int), quiet_until : Int \cup {Never}]]
  BY DEF Init, NewRule
<1>2. up \in BOOLEAN /\ call_time \in {0, connect_timeout}
  BY DEF Init
<1>3. /\ now = 0 /\ 0 \in 0..MaxTime /\ 0 \in 0..MaxOutages /\ 0 \in 0..max_attempts
      /\ 0 \in 0..(MaxTime + cap_seconds + connect_timeout)
  BY RetryAssumption, BoundsAssumption DEF Init
<1>4. rows \in [RuleNames -> [number : Nat, at : 0..MaxTime]]
  BY <1>3 DEF Init
<1> QED
  BY <1>1, <1>2, <1>3, <1>4 DEF Init, TypeInv, TypeOK, Waiting

\* Where the generator goes, and when it will wake.
LEMMA GoesTyped ==
  ASSUME TypeOK, NEW to \in {"write", "write_error", "connect", "failed", "reconnect_failed"},
         NEW delay \in 0..(cap_seconds + connect_timeout), Goes(to, delay)
  PROVE  /\ pc' = to /\ wake' = now + delay
         /\ wake' \in 0..(MaxTime + cap_seconds + connect_timeout)
BY RetryAssumption, BoundsAssumption DEF TypeOK, Goes

LEMMA GeneratorTyped ==
  ASSUME TypeInv, Write \/ WriteError \/ Connect \/ Retry \/ GiveUp \/ ReconnectFailed
  PROVE  TypeInv'
<1>t. TypeOK /\ Waiting /\ now \in Nat /\ call_time \in {0, connect_timeout} /\ now' = now
  BY BoundsAssumption
     DEF TypeInv, TypeOK, Write, WriteError, Connect, Retry, GiveUp, ReconnectFailed
<1>s. UNCHANGED <<now, serverVars>>
  BY DEF Write, WriteError, Connect, Retry, GiveUp, ReconnectFailed
<1>1. /\ rules' \in [RuleNames -> [hits : Seq(Int), quiet_until : Int \cup {Never}]]
      /\ rows' \in [RuleNames -> [number : Nat, at : 0..MaxTime]]
  <2>1. CASE Write \/ Connect
    BY <1>t, <2>1 DEF Write, Connect, LogsNothing, TypeOK
  <2>2. CASE WriteError \/ Retry \/ GiveUp \/ ReconnectFailed
    BY <1>t, <2>2, LogsFacts DEF WriteError, Retry, GiveUp, ReconnectFailed
  <2> QED
    BY <2>1, <2>2
<1>2. /\ pc' \in {"write", "write_error", "connect", "failed", "reconnect_failed"}
      /\ wake' \in 0..(MaxTime + cap_seconds + connect_timeout)
      /\ attempt' \in 0..max_attempts /\ Waiting'
  <2>1. /\ 0 \in 0..(cap_seconds + connect_timeout) /\ 1 \in 0..(cap_seconds + connect_timeout)
        /\ call_time \in 0..(cap_seconds + connect_timeout)
        /\ call_time \in 0..connect_timeout
    BY <1>t, RetryAssumption
  <2>2. CASE Write
    BY <1>t, <2>1, <2>2, GoesTyped, RetryAssumption DEF Write, TypeOK, Waiting
  <2>3. CASE WriteError
    BY <1>t, <2>1, <2>3, GoesTyped, RetryAssumption DEF WriteError, TypeOK, Waiting
  <2>4. CASE Connect
    BY <1>t, <2>1, <2>4, GoesTyped, RetryAssumption
       DEF Connect, Awake, FailsAfter, TypeOK, Waiting
  <2>5. CASE Retry
    <3>1. attempt \in Nat \ {0} /\ attempt + 1 \in 0..max_attempts
      BY <1>t, <2>5, RetryAssumption DEF Retry, Awake, LastAttempt, TypeOK, Waiting
    <3>2. /\ Delay \in 0..(cap_seconds + connect_timeout) /\ Delay \in 0..cap_seconds
          /\ attempt = 1 => Delay = 1
      BY <3>1, DelayBounds, RetryAssumption
    <3>3. pc' = "connect" /\ wake' = now + Delay /\ attempt' = attempt + 1
          /\ wake' \in 0..(MaxTime + cap_seconds + connect_timeout)
      BY <1>t, <2>5, <3>2, GoesTyped DEF Retry
    <3> HIDE DEF Delay
    <3>4. Waiting'
      BY <1>t, <3>1, <3>2, <3>3, RetryAssumption DEF Waiting
    <3> QED
      BY <3>1, <3>3, <3>4
  <2>6. CASE GiveUp \/ ReconnectFailed
    BY <1>t, <2>1, <2>6, GoesTyped, RetryAssumption
       DEF GiveUp, ReconnectFailed, TypeOK, Waiting
  <2> QED
    BY <2>2, <2>3, <2>4, <2>5, <2>6
<1> QED
  BY <1>t, <1>s, <1>1, <1>2 DEF TypeInv, TypeOK, serverVars

LEMMA WorldTyped ==
  ASSUME TypeInv, ServerGoes \/ ServerReturns \/ Second
  PROVE  TypeInv'
<1>t. TypeOK /\ Waiting
  BY DEF TypeInv
<1>1. up' \in BOOLEAN
  BY <1>t, ZenonT(20) DEF ServerGoes, ServerReturns, Second, TypeOK, serverVars
<1>2. /\ call_time' \in {0, connect_timeout} /\ since' \in 0..MaxTime
      /\ outages' \in 0..MaxOutages /\ now' \in 0..MaxTime
  BY <1>t, BoundsAssumption DEF ServerGoes, ServerReturns, Second, TypeOK, serverVars
<1>3. UNCHANGED <<generatorVars, rules, rows>>
  BY DEF ServerGoes, ServerReturns, Second
<1>4. now' = now \/ (now' = now + 1 /\ now < wake)
  BY DEF ServerGoes, ServerReturns, Second
<1>5. TypeOK'
  BY <1>t, <1>1, <1>2, <1>3 DEF TypeOK, generatorVars
<1>6. Waiting'
  BY <1>t, <1>3, <1>4, RetryAssumption, BoundsAssumption DEF Waiting, TypeOK, generatorVars
<1> QED
  BY <1>5, <1>6 DEF TypeInv

LEMMA NextTyped == TypeInv /\ [Next]_vars => TypeInv'
<1> SUFFICES ASSUME TypeInv, [Next]_vars  PROVE TypeInv'
  OBVIOUS
<1>1. CASE UNCHANGED vars
  BY <1>1 DEF TypeInv, TypeOK, Waiting, vars, serverVars, generatorVars
<1> QED
  BY <1>1, GeneratorTyped, WorldTyped DEF Next

LEMMA TypeInvariant == Spec => []TypeInv
  BY InitTyped, NextTyped, PTL DEF Spec

----------------------------------------------------------------------------
LEMMA InitAlarm == Init => AlarmInv
BY DEF Init, AlarmInv, CallFailed, RowsArePast, NoFalseAlarm, RowAt

\* A line is logged at the end of a call that failed.
LEMMA LogsAlarm ==
  ASSUME TypeInv, AlarmInv, WriteError \/ Retry \/ GiveUp \/ ReconnectFailed
  PROVE  AlarmInv'
<1>t. TypeOK /\ now = wake /\ now \in Int /\ UNCHANGED <<now, up, since>>
  BY DEF TypeInv, TypeOK, WriteError, Retry, GiveUp, ReconnectFailed, Awake, serverVars
<1>a. ~up \/ now - since <= connect_timeout
  <2>1. pc \in {"write_error", "failed", "reconnect_failed"}
    BY DEF WriteError, Retry, GiveUp, ReconnectFailed, Awake
  <2> QED
    BY <1>t, <2>1, RetryAssumption DEF AlarmInv, CallFailed, TypeOK
<1>1. CallFailed'
  <2>1. pc' \in {"connect", "write"} \/ (pc' = "reconnect_failed" /\ wake' = now)
    BY <1>t DEF WriteError, Retry, GiveUp, ReconnectFailed, Goes
  <2> QED
    BY <1>t, <1>a, <2>1, RetryAssumption DEF CallFailed, TypeOK
<1>2. \A r \in RuleNames : rows'[r] = rows[r] \/ rows'[r].at = now
  <2>1. PICK line : Logs(line)
    BY DEF WriteError, Retry, GiveUp, ReconnectFailed
  <2>2. SUFFICES ASSUME NEW r \in RuleNames
                 PROVE  rows'[r] = rows[r] \/ rows'[r].at = now
    OBVIOUS
  <2>3. \/ rows'[r] = [number |-> rows[r].number + 1, at |-> now]
        \/ rows'[r] = rows[r]
    BY <1>t, <2>1, LogsFacts
  <2> QED
    BY <2>3
<1>3. RowsArePast'
  BY <1>t, <1>2 DEF AlarmInv, RowsArePast
<1>4. NoFalseAlarm'
  BY <1>t, <1>a DEF NoFalseAlarm
<1> QED
  BY <1>1, <1>3, <1>4 DEF AlarmInv

LEMMA QuietAlarm ==
  ASSUME TypeInv, AlarmInv, Write \/ Connect \/ ServerGoes \/ ServerReturns \/ Second
  PROVE  AlarmInv'
<1>t. TypeOK /\ Waiting /\ rows' = rows
  BY DEF TypeInv, Write, Connect, ServerGoes, ServerReturns, Second, LogsNothing
<1>n. now \in Int /\ since \in Int /\ wake \in Int /\ (now' = now \/ (Second /\ now' = now + 1))
  BY <1>t, BoundsAssumption, RetryAssumption
     DEF Write, Connect, ServerGoes, ServerReturns, Second, TypeOK
<1>1. CallFailed'
  <2>1. CASE Write \/ Connect
    BY <1>t, <2>1 DEF Write, Connect, Goes, CallFailed, serverVars
  <2>2. CASE ServerGoes
    BY <2>2 DEF ServerGoes, CallFailed
  <2>3. CASE ServerReturns
    BY <1>t, <1>n, <2>3, RetryAssumption DEF ServerReturns, CallFailed, Waiting, generatorVars
  <2>4. CASE Second
    BY <2>4 DEF Second, AlarmInv, CallFailed, serverVars, generatorVars
  <2> QED
    BY <2>1, <2>2, <2>3, <2>4
<1>2. RowsArePast'
  BY <1>t, <1>n DEF AlarmInv, RowsArePast, TypeOK
<1>3. NoFalseAlarm'
  <2>1. CASE Write \/ Connect
    BY <1>t, <2>1 DEF Write, Connect, AlarmInv, NoFalseAlarm, RowAt, serverVars
  <2>2. CASE ServerGoes
    BY <2>2 DEF ServerGoes, NoFalseAlarm
  <2>3. CASE ServerReturns
    BY <1>n, <2>3, RetryAssumption DEF ServerReturns, NoFalseAlarm
  <2>4. CASE Second
    BY <1>t, <1>n, <2>4 DEF Second, AlarmInv, RowsArePast, NoFalseAlarm, RowAt, TypeOK
  <2> QED
    BY <2>1, <2>2, <2>3, <2>4
<1> QED
  BY <1>1, <1>2, <1>3 DEF AlarmInv

LEMMA NextAlarm == TypeInv /\ AlarmInv /\ [Next]_vars => AlarmInv'
<1> SUFFICES ASSUME TypeInv, AlarmInv, [Next]_vars  PROVE AlarmInv'
  OBVIOUS
<1>1. CASE UNCHANGED vars
  BY <1>1 DEF AlarmInv, CallFailed, RowsArePast, NoFalseAlarm, RowAt, vars, serverVars,
              generatorVars
<1> QED
  BY <1>1, LogsAlarm, QuietAlarm DEF Next

----------------------------------------------------------------------------
\* What the bounds on the time between retries have to do with each other.

LEMMA RetryTyped ==
  ASSUME TypeInv
  PROVE  /\ NextAttempt \in 1..(max_attempts - 1)
         /\ Ahead \in Nat /\ NextRetry \in Int /\ NextRetry = wake + Ahead
         /\ Hits \in Seq(Int) /\ Quiet \in Int \cup {Never}
         /\ now \in Int /\ since \in Int /\ wake \in Int /\ now <= wake
<1>1. /\ now \in Int /\ since \in Int /\ wake \in Int /\ now <= wake /\ attempt \in Nat
      /\ pc \in {"connect", "failed"} => attempt > 0
  BY RetryAssumption, BoundsAssumption DEF TypeInv, TypeOK, Waiting
<1>2. NextAttempt \in 1..(max_attempts - 1)
  BY <1>1, RetryAssumption, SettingsAssumption DEF NextAttempt
<1>3. Ahead \in Nat
  BY RetryAssumption DEF Ahead
<1>4. Hits \in Seq(Int) /\ Quiet \in Int \cup {Never}
  BY DEF TypeInv, TypeOK, Hits, Quiet, RuleNames
<1> QED
  BY <1>1, <1>2, <1>3, <1>4 DEF NextRetry

NextTypes == NextAttempt \in 1..(max_attempts - 1) /\ NextRetry \in Int

LEMMA NextRetryTyped == TypeInv => NextTypes
  BY RetryTyped DEF NextTypes

LEMMA Settings ==
  /\ cap_seconds \in Nat \ {0} /\ connect_timeout \in Nat
  /\ conn_fail_window \in Nat /\ cooldown \in Nat \ {0} /\ DetectBy \in Nat
  /\ 2 * cap_seconds + 4 * connect_timeout <= conn_fail_window
  /\ conn_fail_window <= cooldown
  /\ DetectBy = cap_seconds + 4 + 5 * connect_timeout
BY RetryAssumption, ThresholdsAssumption, SettingsAssumption, CooldownAssumption DEF DetectBy

LEMMA GapsFit ==
  ASSUME NEW a \in Nat \ {0}
  PROVE  /\ Before(a) \in Nat /\ After(a) \in Nat /\ TwoAfter(a) \in Nat
         /\ Before(a) + After(a) <= conn_fail_window
         /\ After(a) <= DetectBy
<1>1. CASE a = 1
  BY <1>1, Settings DEF Before, After, TwoAfter
<1>2. CASE a = 2
  BY <1>2, Settings DEF Before, After, TwoAfter
<1>3. CASE a > 2
  BY <1>3, Settings DEF Before, After, TwoAfter
<1> QED
  BY <1>1, <1>2, <1>3

LEMMA InTimeSooner ==
  ASSUME NEW q \in Int \cup {Never}, NEW s \in Int, NEW t \in Int, NEW u \in Int, u <= t,
         InTime(q, s, t)
  PROVE  InTime(q, s, u)
BY NeverAssumption, Settings DEF InTime

\* Nothing is lost when the next retry turns out to come sooner.
LEMMA Sooner ==
  ASSUME NEW hits \in Seq(Int), NEW q \in Int \cup {Never}, NEW s \in Int,
         NEW t \in Int, NEW u \in Int, u <= t, NEW a \in Nat \ {0}
  PROVE  /\ Counted(hits, q, t, a) => Counted(hits, q, u, a)
         /\ OnItsWay(hits, q, s, t, a) => OnItsWay(hits, q, s, u, a)
<1>b. Before(a) \in Nat /\ After(a) \in Nat /\ TwoAfter(a) \in Nat
  BY GapsFit
<1>1. OneHit(hits, t, a) => OneHit(hits, u, a)
  <2>1. SUFFICES ASSUME Len(hits) >= 1, hits[Len(hits)] >= t - Before(a)
                 PROVE  hits[Len(hits)] >= u - Before(a)
    BY DEF OneHit
  <2>2. hits[Len(hits)] \in Int
    BY <2>1
  <2> QED
    BY <1>b, <2>1, <2>2
<1>2. TwoHits(hits, t, a) => TwoHits(hits, u, a)
  <2>1. SUFFICES ASSUME Len(hits) >= 2, hits[Len(hits) - 1] >= t - conn_fail_window
                 PROVE  hits[Len(hits) - 1] >= u - conn_fail_window
    BY <1>1 DEF TwoHits
  <2>2. hits[Len(hits) - 1] \in Int
    BY <2>1
  <2> QED
    BY <2>1, <2>2, Settings
<1>3. \A k \in Nat : FiredSince(q, t - k) => FiredSince(q, u - k)
  BY NeverAssumption, Settings DEF FiredSince
<1>4. \A k \in Nat : InTime(q, s, t + k) => InTime(q, s, u + k)
  BY NeverAssumption, Settings DEF InTime
<1>5. InTime(q, s, t) => InTime(q, s, u)
  BY NeverAssumption, Settings DEF InTime
<1>6. conn_fail_window \in Nat
  BY Settings
<1> QED
  BY <1>b, <1>1, <1>2, <1>3, <1>4, <1>5, <1>6 DEF Counted, OnItsWay

\* At the beginning of an outage.
LEMMA OutageBegins ==
  ASSUME NEW hits \in Seq(Int), NEW q \in Int \cup {Never}, NEW s \in Int,
         NEW t \in Int, NEW a \in Nat \ {0}, Counted(hits, q, t, a),
         a = 1 => t <= s + cap_seconds + 1 + 3 * connect_timeout,
         a = 2 => t <= s + 1 + connect_timeout,
         a > 2 => t <= s + cap_seconds + connect_timeout
  PROVE  OnItsWay(hits, q, s, t, a)
<1>1. CASE a = 1
  BY <1>1, Settings DEF OnItsWay, InTime, TwoAfter
<1>2. CASE a = 2
  <2>1. InTime(q, s, t + After(a))
    BY <1>2, Settings DEF InTime, After
  <2>2. FiredSince(q, t - Before(a)) => InTime(q, s, t + TwoAfter(a))
    BY <1>2, Settings, NeverAssumption DEF InTime, FiredSince, Before, TwoAfter
  <2> QED
    BY <1>2, <2>1, <2>2 DEF Counted, OnItsWay
<1>3. CASE a > 2
  <2>1. InTime(q, s, t)
    BY <1>3, Settings DEF InTime
  <2>2. FiredSince(q, t - conn_fail_window) => InTime(q, s, t + After(a))
    BY <1>3, Settings, NeverAssumption DEF InTime, FiredSince, After
  <2>3. FiredSince(q, t - Before(a)) => InTime(q, s, t + TwoAfter(a))
    BY <1>3, Settings, NeverAssumption DEF InTime, FiredSince, Before, TwoAfter
  <2> QED
    BY <1>3, <2>1, <2>2, <2>3 DEF Counted, OnItsWay
<1> QED
  BY <1>1, <1>2, <1>3

\* The rule is given a retry: its deque gets the time of it, the ones before stay
\* where they still count, and with three of them it fires unless it is quiet.
LEMMA RetryFed ==
  ASSUME NEW rule \in [hits : Seq(Int), quiet_until : Int \cup {Never}],
         NEW t \in Int, NEW fed,
         fed = FeedCount(rule, conn_fail_count, conn_fail_window, t)
  PROVE  LET h == HitsAt(rule, conn_fail_window, t)
         IN  \/ /\ fed.quiet_until = t + cooldown /\ fed.hits = <<>>
                /\ fed.quiet_until # rule.quiet_until
             \/ /\ fed.quiet_until = rule.quiet_until /\ fed.hits = h
                /\ Len(h) >= 3 => rule.quiet_until # Never /\ t < rule.quiet_until
<1> DEFINE h == HitsAt(rule, conn_fail_window, t)
<1>0. rule.hits \in Seq(Int) /\ conn_fail_window \in Nat
  BY Settings
<1>1. h \in Seq(Int) /\ Len(h) \in Nat
  BY <1>0, HitsFacts
<1>2. CASE ~CoolingDown(rule, t) /\ Len(h) >= conn_fail_count
  <2>1. fed = [hits |-> <<>>, quiet_until |-> t + cooldown]
    BY <1>2 DEF FeedCount, CountReached, CountFires
  <2>2. fed.quiet_until # rule.quiet_until
    BY <1>2, <2>1, Settings, NeverAssumption DEF CoolingDown
  <2> QED
    BY <2>1, <2>2
<1>3. CASE CoolingDown(rule, t) \/ ~(Len(h) >= conn_fail_count)
  <2>1. fed = [rule EXCEPT !.hits = h]
    BY <1>3 DEF FeedCount, CountReached
  <2>2. fed.quiet_until = rule.quiet_until /\ fed.hits = h
    BY <2>1
  <2>3. Len(h) >= 3 => CoolingDown(rule, t)
    BY <1>1, <1>3, ThresholdsAssumption, SettingsAssumption
  <2> QED
    BY <2>2, <2>3 DEF CoolingDown
<1> QED
  BY <1>2, <1>3

\* From retry a, at time t, to the next one, b, by time u.
Follows(t, a, u, b) ==
  /\ b = a + 1 \/ (b = 1 /\ a > 2)
  /\ t <= u /\ u <= t + After(a) /\ u <= t + Before(b)

LEMMA FollowsFacts ==
  ASSUME NEW t \in Int, NEW u \in Int, NEW a \in Nat \ {0}, NEW b \in Nat \ {0},
         Follows(t, a, u, b)
  PROVE  /\ u + After(b) <= t + TwoAfter(a)
         /\ u + TwoAfter(b) <= t + cooldown + DetectBy
         /\ u <= t + DetectBy
         /\ u <= t - Before(a) + conn_fail_window
<1>1. u + After(b) <= t + TwoAfter(a)
  <2>1. CASE a = 1
    BY <2>1, Settings DEF Follows, After, TwoAfter
  <2>2. CASE a = 2
    BY <2>2, Settings DEF Follows, After, TwoAfter
  <2>3. CASE a > 2
    BY <2>3, Settings DEF Follows, Before, After, TwoAfter
  <2> QED
    BY <2>1, <2>2, <2>3
<1>2. u + TwoAfter(b) <= t + cooldown + DetectBy
  <2>1. CASE b = 1
    BY <2>1, Settings DEF Follows, Before, TwoAfter
  <2>2. CASE b = 2
    BY <2>2, Settings DEF Follows, Before, TwoAfter
  <2>3. CASE b > 2
    BY <2>3, Settings DEF Follows, Before, TwoAfter
  <2> QED
    BY <2>1, <2>2, <2>3
<1>3. u <= t + DetectBy /\ u <= t - Before(a) + conn_fail_window
  BY GapsFit, Settings DEF Follows
<1> QED
  BY <1>1, <1>2, <1>3

\* A retry that makes the rule fire: the cooldown leaves time for three more.
LEMMA RetryFires ==
  ASSUME NEW t \in Int, NEW u \in Int, NEW a \in Nat \ {0}, NEW b \in Nat \ {0},
         Follows(t, a, u, b), NEW s \in Int
  PROVE  /\ Counted(<<>>, t + cooldown, u, b)
         /\ OnItsWay(<<>>, t + cooldown, s, u, b)
<1>0. Before(b) \in Nat /\ t + cooldown # Never
  BY GapsFit, NeverAssumption, Settings
<1>1. FiredSince(t + cooldown, u - Before(b))
  BY <1>0, Settings DEF FiredSince, Follows
<1>2. InTime(t + cooldown, s, u + TwoAfter(b))
  BY <1>0, FollowsFacts DEF InTime
<1> QED
  BY <1>1, <1>2 DEF Counted, OnItsWay

\* A retry that does not: it counts from now on, and the one before it too.
LEMMA RetryCounts ==
  ASSUME NEW t \in Int, NEW u \in Int, NEW a \in Nat \ {0}, NEW b \in Nat \ {0},
         Follows(t, a, u, b), NEW s \in Int,
         NEW rule, rule.hits \in Seq(Int), NEW q \in Int \cup {Never},
         NEW h, h = HitsAt(rule, conn_fail_window, t),
         Len(h) >= 3 => q # Never /\ t < q
  PROVE  /\ Counted(rule.hits, q, t, a) => Counted(h, q, u, b)
         /\ OnItsWay(rule.hits, q, s, t, a) => OnItsWay(h, q, s, u, b)
<1> DEFINE g == rule.hits
<1>g. /\ Before(a) \in Nat /\ Before(b) \in Nat /\ After(a) \in Nat /\ TwoAfter(a) \in Nat
      /\ After(b) \in Nat /\ Before(a) + After(a) <= conn_fail_window
      /\ u <= t + After(a) /\ u <= t + Before(b) /\ t <= u
  BY GapsFit DEF Follows
<1>h. /\ h \in Seq(Int) /\ Len(h) >= 1 /\ h[Len(h)] = t
      /\ Len(g) >= 1 /\ g[Len(g)] >= t - conn_fail_window =>
           Len(h) >= 2 /\ h[Len(h) - 1] = g[Len(g)]
      /\ Len(g) >= 2 /\ g[Len(g)] >= t - conn_fail_window
           /\ g[Len(g) - 1] >= t - conn_fail_window =>
           Len(h) >= 3
  BY HitsFacts, Settings
<1>1. OneHit(h, u, b)
  BY <1>g, <1>h DEF OneHit
<1>2. ASSUME OneHit(g, t, a)
      PROVE  TwoHits(h, u, b) /\ g[Len(g)] >= t - conn_fail_window
  <2>1. PICK e \in Int : e = g[Len(g)] /\ Len(g) >= 1 /\ e >= t - Before(a)
    BY <1>2 DEF OneHit
  <2>2. e >= t - conn_fail_window /\ e >= u - conn_fail_window
    <3>1. e >= t - Before(a) /\ conn_fail_window \in Nat
      BY <2>1, Settings
    <3> QED
      BY <1>g, <3>1
  <2> QED
    BY <1>1, <1>h, <2>1, <2>2 DEF TwoHits
<1>3. TwoHits(g, t, a) => q # Never /\ t < q
  BY <1>2, <1>h DEF TwoHits
<1> HIDE DEF g
<1>4. ASSUME Counted(g, q, t, a)  PROVE Counted(h, q, u, b)
  <2>1. CASE b = 1
    BY <2>1 DEF Counted
  <2>2. CASE b = 2
    BY <1>1, <2>2 DEF Counted
  <2>3. CASE b > 2
    <3>1. a >= 2
      BY <2>3 DEF Follows
    <3>2. FiredSince(q, t - Before(a)) => FiredSince(q, u - conn_fail_window)
      BY <1>g, Settings, NeverAssumption DEF FiredSince
    <3>3. OneHit(g, t, a) \/ FiredSince(q, t - Before(a))
      BY <1>4, <3>1 DEF Counted, TwoHits
    <3> QED
      BY <1>1, <1>2, <2>3, <3>2, <3>3 DEF Counted
  <2> QED
    BY <2>1, <2>2, <2>3
<1>5. ASSUME OnItsWay(g, q, s, t, a)  PROVE OnItsWay(h, q, s, u, b)
  <2>1. CASE TwoHits(g, t, a)
    <3>1. InTime(q, s, u)
      BY <1>3, <2>1, FollowsFacts, Settings DEF InTime
    <3> QED
      BY <1>2, <2>1, <3>1 DEF OnItsWay, TwoHits
  <2>2. CASE OneHit(g, t, a) /\ InTime(q, s, t + After(a))
    <3>1. InTime(q, s, u)
      BY <1>g, <2>2, Settings, NeverAssumption DEF InTime
    <3> QED
      BY <1>2, <2>2, <3>1 DEF OnItsWay
  <2>3. CASE InTime(q, s, t + TwoAfter(a))
    <3>1. u + After(b) <= t + TwoAfter(a)
      BY FollowsFacts
    <3>2. InTime(q, s, u + After(b))
      BY <1>g, <2>3, <3>1, InTimeSooner
    <3> QED
      BY <1>1, <3>2 DEF OnItsWay
  <2> QED
    BY <1>5, <2>1, <2>2, <2>3 DEF OnItsWay
<1> QED
  BY <1>4, <1>5 DEF g

----------------------------------------------------------------------------
LEMMA InitRecord == Init => RecordInv
<1> SUFFICES ASSUME Init  PROVE RecordInv
  OBVIOUS
<1>1. Quiet = Never /\ NextAttempt = 1 /\ up
  BY DEF Init, Quiet, NewRule, RuleNames, NextAttempt
<1> QED
  BY <1>1 DEF RecordInv, Counted, QuietSinceRow

LEMMA RetryFollows ==
  ASSUME TypeInv, Retry
  PROVE  /\ NextAttempt = attempt /\ NextRetry = now
         /\ Follows(now, NextAttempt, NextRetry', NextAttempt')
<1>1. /\ pc = "failed" /\ now = wake /\ attempt \in 1..(max_attempts - 1)
      /\ pc' = "connect" /\ wake' = now + Delay /\ attempt' = attempt + 1
  BY RetryAssumption DEF Retry, Awake, Goes, LastAttempt, TypeInv, TypeOK, Waiting
<1>2. /\ Delay \in 1..cap_seconds
      /\ attempt = 1 => Delay = 1
      /\ attempt = 2 => Delay <= 2
  BY <1>1, DelayBounds, RetryAssumption
<1>3. NextAttempt = attempt /\ NextRetry = now /\ now \in Int
  BY <1>1, RetryAssumption, BoundsAssumption DEF NextAttempt, NextRetry, Ahead, TypeInv, TypeOK
<1> HIDE DEF Delay
<1>4. CASE attempt + 1 < max_attempts
  <2>1. NextAttempt' = attempt + 1 /\ NextRetry' = now + Delay + connect_timeout
    BY <1>1, <1>4 DEF NextAttempt, NextRetry, Ahead
  <2>2. now + Delay + connect_timeout <= now + After(attempt)
    BY <1>1, <1>2, <1>3, Settings DEF After
  <2>3. now + Delay + connect_timeout <= now + Before(attempt + 1)
    BY <1>1, <1>2, <1>3, Settings DEF Before
  <2> QED
    BY <1>1, <1>2, <1>3, <2>1, <2>2, <2>3, Settings DEF Follows
<1>5. CASE ~(attempt + 1 < max_attempts)
  <2>1. NextAttempt' = 1 /\ NextRetry' = now + Delay + 3 * connect_timeout /\ attempt > 2
    BY <1>1, <1>5, RetryAssumption, SettingsAssumption DEF NextAttempt, NextRetry, Ahead
  <2>2. now + Delay + 3 * connect_timeout <= now + After(attempt)
    BY <1>1, <1>2, <1>3, <2>1, Settings DEF After
  <2>3. now + Delay + 3 * connect_timeout <= now + Before(1)
    BY <1>1, <1>2, <1>3, Settings DEF Before
  <2> QED
    BY <1>1, <1>2, <1>3, <2>1, <2>2, <2>3, Settings DEF Follows
<1> QED
  BY <1>3, <1>4, <1>5

LEMMA RetryRecord ==
  ASSUME TypeInv, TypeInv', RecordInv, Retry
  PROVE  RecordInv'
<1> DEFINE r == "connection_failures"
           h == HitsAt(rules[r], conn_fail_window, now)
<1>t. /\ TypeOK /\ now \in Int /\ since \in Int /\ UNCHANGED <<now, since, up>>
      /\ Quiet \in Int \cup {Never} /\ Hits \in Seq(Int)
      /\ rules[r] \in [hits : Seq(Int), quiet_until : Int \cup {Never}]
      /\ Hits = rules[r].hits /\ Quiet = rules[r].quiet_until
      /\ Hits' = rules'[r].hits /\ Quiet' = rules'[r].quiet_until
  BY RetryTyped DEF TypeInv, TypeOK, Retry, serverVars, Hits, Quiet, RuleNames
<1>n. /\ NextAttempt \in Nat \ {0} /\ NextRetry = now
      /\ NextAttempt' \in Nat \ {0} /\ NextRetry' \in Int
      /\ Follows(now, NextAttempt, NextRetry', NextAttempt')
  <2>1. NextTypes'
    BY NextRetryTyped, PTL
  <2>2. NextAttempt' \in 1..(max_attempts - 1) /\ NextRetry' \in Int
    BY <2>1 DEF NextTypes
  <2> QED
    BY <2>2, RetryTyped, RetryFollows, RetryAssumption
<1>l. /\ rules'[r] = FeedCount(rules[r], conn_fail_count, conn_fail_window, now)
      /\ IF rules'[r].quiet_until # rules[r].quiet_until
         THEN rows'[r] = [number |-> rows[r].number + 1, at |-> now]
         ELSE rows'[r] = rows[r]
  <2>1. PICK line : Logs(line) /\ line.event = "dependency_retry"
    BY DEF Retry
  <2>2. r \in RuleNames /\ FeedRule(r, line, rules[r])
          = FeedCount(rules[r], conn_fail_count, conn_fail_window, now)
    BY <2>1 DEF RuleNames, FeedRule
  <2> QED
    BY <1>t, <2>1, <2>2, LogsFacts
<1>f. \/ /\ Quiet' = now + cooldown /\ Hits' = <<>> /\ Quiet' # Quiet
      \/ /\ Quiet' = Quiet /\ Hits' = h
         /\ Len(h) >= 3 => Quiet # Never /\ now < Quiet
  BY <1>t, <1>l, RetryFed
<1> HIDE DEF h
<1>1. CASE Quiet' = now + cooldown /\ Hits' = <<>> /\ Quiet' # Quiet
  <2>1. /\ Counted(<<>>, now + cooldown, NextRetry', NextAttempt')
        /\ OnItsWay(<<>>, now + cooldown, since, NextRetry', NextAttempt')
    BY <1>t, <1>n, RetryFires
  <2>2. rows'[r].number > 0 /\ rows'[r].at = now
    <3>1. rows[r].number \in Nat
      BY <1>t DEF TypeOK, RuleNames
    <3> QED
      BY <1>1, <1>l, <1>t, <3>1
  <2> QED
    BY <1>1, <1>t, <2>1, <2>2 DEF RecordInv, QuietSinceRow
<1>2. CASE /\ Quiet' = Quiet /\ Hits' = h
           /\ Len(h) >= 3 => Quiet # Never /\ now < Quiet
  <2>1. /\ Counted(Hits, Quiet, now, NextAttempt) =>
             Counted(h, Quiet, NextRetry', NextAttempt')
        /\ OnItsWay(Hits, Quiet, since, now, NextAttempt) =>
             OnItsWay(h, Quiet, since, NextRetry', NextAttempt')
    BY <1>t, <1>n, <1>2, RetryCounts DEF h
  <2>2. QuietSinceRow'
    BY <1>2, <1>t, <1>l DEF RecordInv, QuietSinceRow
  <2> QED
    BY <1>2, <1>t, <1>n, <2>1, <2>2 DEF RecordInv
<1> QED
  BY <1>f, <1>1, <1>2

\* Everything else leaves the rule alone.
LEMMA OtherLines ==
  ASSUME TypeInv, [Next]_vars, ~Retry
  PROVE  UNCHANGED <<Hits, Quiet, rows["connection_failures"]>>
<1> DEFINE r == "connection_failures"
<1>1. CASE UNCHANGED <<rules, rows>>
  BY <1>1 DEF Hits, Quiet
<1>2. CASE WriteError \/ GiveUp \/ ReconnectFailed
  <2>1. PICK line : Logs(line) /\ line.event # "dependency_retry"
    BY <1>2 DEF WriteError, GiveUp, ReconnectFailed
  <2>2. r \in RuleNames /\ FeedRule(r, line, rules[r]) = rules[r]
    BY <2>1 DEF RuleNames, FeedRule
  <2>3. rules'[r] = rules[r] /\ rows'[r] = rows[r]
    BY <2>1, <2>2, LogsFacts DEF TypeInv
  <2> QED
    BY <2>3 DEF Hits, Quiet
<1> QED
  BY <1>1, <1>2
     DEF Next, Write, Connect, ServerGoes, ServerReturns, Second, LogsNothing, vars

\* And brings no retry later than was expected, unless the server is up.
LEMMA OtherSteps ==
  ASSUME TypeInv, [Next]_vars, ~Retry
  PROVE  /\ \/ NextAttempt' = 1
            \/ NextAttempt' = NextAttempt /\ NextRetry' <= NextRetry
         /\ \/ up'
            \/ ServerGoes /\ NextAttempt' = NextAttempt /\ NextRetry' = NextRetry
            \/ /\ ~up /\ since' = since
               /\ NextAttempt' = NextAttempt /\ NextRetry' <= NextRetry
<1>t. /\ now \in Int /\ wake \in Int /\ attempt \in Nat /\ connect_timeout \in Nat
      /\ call_time \in {0, connect_timeout} /\ max_attempts \in Nat /\ max_attempts >= 4
      /\ NextRetry = wake + Ahead /\ Ahead \in Nat /\ NextRetry \in Int
  BY RetryTyped, RetryAssumption, SettingsAssumption DEF TypeInv, TypeOK
<1>1. CASE Write
  BY <1>1, <1>t DEF Write, Awake, Goes, NextAttempt, NextRetry, Ahead, serverVars
<1>2. CASE WriteError
  BY <1>2, <1>t DEF WriteError, Awake, Goes, NextAttempt, NextRetry, Ahead, serverVars
<1>3. CASE Connect
  BY <1>3, <1>t DEF Connect, FailsAfter, Awake, Goes, NextAttempt, NextRetry, Ahead, serverVars
<1>4. CASE GiveUp
  BY <1>4, <1>t DEF GiveUp, LastAttempt, Awake, Goes, NextAttempt, NextRetry, Ahead, serverVars
<1>5. CASE ReconnectFailed
  BY <1>5, <1>t DEF ReconnectFailed, Awake, Goes, NextAttempt, NextRetry, Ahead, serverVars
<1>6. CASE ServerGoes \/ ServerReturns \/ Second \/ UNCHANGED vars
  <2>1. NextAttempt' = NextAttempt /\ NextRetry' = NextRetry
    BY <1>6 DEF ServerGoes, ServerReturns, Second, vars, generatorVars, NextAttempt, NextRetry,
                Ahead
  <2>2. up' \/ ServerGoes \/ (~up /\ since' = since)
    BY <1>6 DEF ServerReturns, Second, vars, serverVars
  <2> QED
    BY <1>t, <2>1, <2>2
<1> QED
  BY <1>1, <1>2, <1>3, <1>4, <1>5, <1>6 DEF Next

\* Where the generator may be when an outage begins.
LEMMA OutageFound ==
  ASSUME TypeInv
  PROVE  /\ NextAttempt = 1 => NextRetry <= now + cap_seconds + 1 + 3 * connect_timeout
         /\ NextAttempt = 2 => NextRetry <= now + 1 + connect_timeout
         /\ NextAttempt > 2 => NextRetry <= now + cap_seconds + connect_timeout
<1>1. TypeOK /\ Waiting /\ now \in Int /\ wake \in Int /\ attempt \in Nat /\ max_attempts \in Nat
  BY RetryTyped, RetryAssumption DEF TypeInv, TypeOK
<1>2. CASE pc = "write" \/ pc = "write_error" \/ pc = "reconnect_failed"
  BY <1>1, <1>2, Settings DEF Waiting, NextAttempt, NextRetry, Ahead
<1>3. CASE pc = "connect"
  BY <1>1, <1>3, Settings DEF Waiting, NextAttempt, NextRetry, Ahead
<1>4. CASE pc = "failed"
  BY <1>1, <1>4, Settings DEF Waiting, NextAttempt, NextRetry, Ahead
<1> QED
  BY <1>1, <1>2, <1>3, <1>4 DEF TypeOK

LEMMA OtherRecord ==
  ASSUME TypeInv, TypeInv', RecordInv, [Next]_vars, ~Retry
  PROVE  RecordInv'
<1>u. /\ Hits' = Hits /\ Quiet' = Quiet
      /\ rows'["connection_failures"] = rows["connection_failures"]
  BY OtherLines
<1>t. /\ NextAttempt \in Nat \ {0} /\ NextRetry \in Int /\ NextRetry' \in Int
      /\ Hits \in Seq(Int) /\ Quiet \in Int \cup {Never} /\ now \in Int /\ since \in Int
  <2>1. NextTypes'
    BY NextRetryTyped, PTL
  <2>2. NextRetry' \in Int
    BY <2>1 DEF NextTypes
  <2> QED
    BY <2>2, RetryTyped, RetryAssumption
<1>1. Counted(Hits, Quiet, NextRetry', NextAttempt')
  <2>1. CASE NextAttempt' = 1
    BY <2>1 DEF Counted
  <2>2. CASE NextAttempt' = NextAttempt /\ NextRetry' <= NextRetry
    BY <1>t, <2>2, Sooner DEF RecordInv
  <2> QED
    BY <2>1, <2>2, OtherSteps
<1>2. ~up' => OnItsWay(Hits, Quiet, since', NextRetry', NextAttempt')
  <2>1. CASE ServerGoes /\ NextAttempt' = NextAttempt /\ NextRetry' = NextRetry
    <3>1. since' = now
      BY <2>1 DEF ServerGoes
    <3> QED
      BY <1>t, <2>1, <3>1, OutageBegins, OutageFound DEF RecordInv
  <2>2. CASE /\ ~up /\ since' = since
             /\ NextAttempt' = NextAttempt /\ NextRetry' <= NextRetry
    BY <1>t, <2>2, Sooner DEF RecordInv
  <2> QED
    BY <2>1, <2>2, OtherSteps
<1>3. QuietSinceRow'
  BY <1>u DEF RecordInv, QuietSinceRow
<1> QED
  BY <1>u, <1>1, <1>2, <1>3 DEF RecordInv

----------------------------------------------------------------------------
IInv == TypeInv /\ AlarmInv /\ RecordInv

LEMMA InitInvariant == Init => IInv
  BY InitTyped, InitAlarm, InitRecord DEF IInv

LEMMA NextInvariant == IInv /\ [Next]_vars => IInv'
<1> SUFFICES ASSUME IInv, [Next]_vars  PROVE IInv'
  OBVIOUS
<1>1. TypeInv' /\ AlarmInv'
  BY NextTyped, NextAlarm DEF IInv
<1>2. RecordInv'
  BY <1>1, RetryRecord, OtherRecord DEF IInv
<1> QED
  BY <1>1, <1>2 DEF IInv

LEMMA Invariant == Spec => []IInv
  BY InitInvariant, NextInvariant, PTL DEF Spec

\* In an outage it is never later than the retry that has to come in time.
LEMMA NeverLate == IInv => OutageStaysOnRecord
<1> SUFFICES ASSUME IInv, ~up, now - since > DetectBy
             PROVE  /\ rows["connection_failures"].number > 0
                    /\ now - rows["connection_failures"].at <= cooldown + DetectBy
  BY DEF OutageStaysOnRecord
<1>t. /\ NextAttempt \in Nat \ {0} /\ NextRetry \in Int /\ now <= NextRetry
      /\ Quiet \in Int \cup {Never} /\ now \in Int /\ since \in Int
  BY RetryTyped, RetryAssumption DEF IInv
<1>1. InTime(Quiet, since, now)
  <2>1. After(NextAttempt) \in Nat /\ TwoAfter(NextAttempt) \in Nat
    BY <1>t, GapsFit
  <2>2. \/ InTime(Quiet, since, NextRetry)
        \/ InTime(Quiet, since, NextRetry + After(NextAttempt))
        \/ InTime(Quiet, since, NextRetry + TwoAfter(NextAttempt))
    BY DEF IInv, RecordInv, OnItsWay
  <2> QED
    BY <1>t, <2>1, <2>2, InTimeSooner
<1>2. Quiet # Never /\ now <= Quiet + DetectBy
  BY <1>t, <1>1, Settings DEF InTime
<1>3. /\ rows["connection_failures"].number > 0
      /\ Quiet = rows["connection_failures"].at + cooldown
  BY <1>2 DEF IInv, RecordInv, QuietSinceRow
<1>4. rows["connection_failures"].at \in Int
  BY BoundsAssumption DEF IInv, TypeInv, TypeOK, RuleNames
<1> QED
  BY <1>t, <1>2, <1>3, <1>4, Settings

----------------------------------------------------------------------------
\* Every variable of an outage and of the rules that watch it keeps its type; a
\* backoff never counts past its last attempt.
THEOREM TypeCorrect == Spec => []TypeOK
<1>1. TypeInv => TypeOK
  BY DEF TypeInv
<1> QED
  BY <1>1, TypeInvariant, PTL

\* The log-watcher opens no row for a server that is well: the only row after an
\* outage is of a call that was waiting when it ended (generator.py:101-119).
\* Like the types, this needs nothing of SettingsAssumption.
THEOREM RowsNeedAnOutage == Spec => []NoFalseAlarm
<1>1. AlarmInv => NoFalseAlarm
  BY DEF AlarmInv
<1> QED
  BY <1>1, InitAlarm, NextAlarm, TypeInvariant, PTL DEF Spec

\* An outage of any length is on record within DetectBy seconds, and never falls
\* off it by more than a cooldown and that (retry.py, rules.py:89-115), with settings that
\* go together as SettingsAssumption says.
THEOREM OutageAlwaysOnRecord == Spec => []OutageStaysOnRecord
  BY NeverLate, Invariant, PTL
=============================================================================
