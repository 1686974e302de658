----------------------------- MODULE RulesProofs -----------------------------
(***************************************************************************)
(* What RuleHistory's runs check, for every threshold, window, cooldown    *)
(* and number of records.  The inductive invariant says what the deque is: *)
(* the records since the last fire that are recent enough, read off the    *)
(* end of the history.                                                     *)
(***************************************************************************)
EXTENDS RuleHistory, DetectionProofs

LastFire == IF fires = <<>> THEN 0 ELSE fires[Len(fires)]

\* The deque is the end of the log, back to the last fire at most.
Suffix ==
  /\ Len(rule.hits) <= Len(fed) - LastFire
  /\ \A j \in 1..Len(rule.hits) : rule.hits[j] = fed[Len(fed) - Len(rule.hits) + j]

FiresInOrder ==
  /\ \A k \in DOMAIN fires : fires[k] \in 1..Len(fed)
  /\ \A j, k \in DOMAIN fires : j < k => fires[j] < fires[k]

Cooling == rule.quiet_until = IF fires = <<>> THEN Never ELSE fed[LastFire] + cooldown

\* What holds in whatever order the records are stamped.
IInv == TypeOK /\ Suffix /\ FiresInOrder /\ Cooling /\ FiresAreSpaced

\* A record that is fed: what becomes of the history and of the deque.
LEMMA FeedFacts ==
  ASSUME IInv, NEW now \in Int, FeedRecord(now)
  PROVE  /\ fed' \in Seq(Int) /\ Len(fed') = Len(fed) + 1 /\ Len(fed) \in Nat
         /\ fed'[Len(fed) + 1] = now
         /\ \A j \in 1..Len(fed) : fed'[j] = fed[j]
         /\ Len(rule.hits) \in Nat /\ LastFire \in 0..Len(fed)
         /\ Len(HitsAt(rule, window, now)) \in 1..(Len(rule.hits) + 1)
         /\ \A j \in 1..Len(HitsAt(rule, window, now)) :
              HitsAt(rule, window, now)[j] = fed'[Len(fed) + 1 - Len(HitsAt(rule, window, now)) + j]
         /\ HitsAt(rule, window, now) \in Seq(Int)
         /\ fed'[Len(fed) + 2 - Len(HitsAt(rule, window, now))] >= now - window
         /\ Len(HitsAt(rule, window, now)) <= Len(rule.hits) =>
              fed'[Len(fed) + 1 - Len(HitsAt(rule, window, now))] < now - window
<1>1. /\ fed' \in Seq(Int) /\ Len(fed') = Len(fed) + 1 /\ Len(fed) \in Nat
      /\ fed'[Len(fed) + 1] = now
      /\ \A j \in 1..Len(fed) : fed'[j] = fed[j]
  BY DEF IInv, TypeOK, FeedRecord
<1>2. rule.hits \in Seq(Int) /\ Len(rule.hits) \in Nat
  BY DEF IInv, TypeOK
<1>3. LastFire \in 0..Len(fed)
  BY <1>1 DEF IInv, TypeOK, FiresInOrder, LastFire
<1>4. Len(rule.hits) <= Len(fed)
  BY <1>1, <1>2, <1>3 DEF IInv, Suffix
<1>5. \A j \in 1..Len(rule.hits) : rule.hits[j] = fed'[Len(fed) - Len(rule.hits) + j]
  <2>1. SUFFICES ASSUME NEW j \in 1..Len(rule.hits)
                 PROVE  rule.hits[j] = fed'[Len(fed) - Len(rule.hits) + j]
    OBVIOUS
  <2>2. Len(fed) - Len(rule.hits) + j \in 1..Len(fed)
    BY <1>1, <1>2, <1>4
  <2> QED
    BY <1>1, <2>2 DEF IInv, Suffix
<1>6. window \in Nat /\ IsEnd(rule.hits, fed', Len(fed))
  BY <1>4, <1>5, RuleAssumption DEF IsEnd
<1> DEFINE h == HitsAt(rule, window, now)
<1>7. /\ h \in Seq(Int) /\ Len(h) \in 1..(Len(rule.hits) + 1)
      /\ IsEnd(h, fed', Len(fed) + 1)
      /\ fed'[Len(fed) + 2 - Len(h)] >= now - window
      /\ Len(h) <= Len(rule.hits) => fed'[Len(fed) + 1 - Len(h)] < now - window
  BY <1>1, <1>2, <1>6, DequeAdvances
<1> QED
  BY <1>1, <1>2, <1>3, <1>7 DEF IsEnd

\* A record either fires or goes into the deque.
LEMMA FeedCases ==
  ASSUME IInv, NEW now \in Int, FeedRecord(now)
  PROVE  \/ /\ ~CoolingDown(rule, now)
            /\ Len(HitsAt(rule, window, now)) >= threshold
            /\ fires' = Append(fires, Len(fed) + 1)
            /\ rule' = [hits |-> <<>>, quiet_until |-> now + cooldown]
         \/ /\ CoolingDown(rule, now) \/ ~(Len(HitsAt(rule, window, now)) >= threshold)
            /\ fires' = fires
            /\ rule' = [hits |-> HitsAt(rule, window, now), quiet_until |-> rule.quiet_until]
<1>1. rule = [hits |-> rule.hits, quiet_until |-> rule.quiet_until]
  BY DEF IInv, TypeOK
<1>2. [rule EXCEPT !.hits = HitsAt(rule, window, now)]
        = [hits |-> HitsAt(rule, window, now), quiet_until |-> rule.quiet_until]
  BY <1>1
<1> QED
  BY <1>2 DEF FeedRecord, FeedCount, CountFires, CountReached

----------------------------------------------------------------------------
LEMMA InitHolds == Init => IInv
<1>1. SUFFICES ASSUME Init  PROVE IInv
  OBVIOUS
<1>2. /\ rule.hits = <<>> /\ rule.quiet_until = Never /\ fed = <<>> /\ fires = <<>>
      /\ rule = [hits |-> <<>>, quiet_until |-> Never]
      /\ Len(fed) = 0 /\ Len(fires) = 0 /\ LastFire = 0 /\ Len(rule.hits) = 0
      /\ DOMAIN fires = {}
  BY <1>1 DEF Init, NewRule, LastFire
<1>3. TypeOK
  <2>1. rule \in [hits : Seq(Int), quiet_until : Int \cup {Never}]
    BY <1>2
  <2> QED
    BY <1>2, <2>1 DEF TypeOK
<1>4. Suffix /\ FiresInOrder /\ FiresAreSpaced
  BY <1>2 DEF Suffix, FiresInOrder, FiresAreSpaced
<1>5. Cooling
  BY <1>2 DEF Cooling
<1> QED
  BY <1>3, <1>4, <1>5 DEF IInv

LEMMA FireKeeps ==
  ASSUME IInv, NEW now \in Int, FeedRecord(now), fires' = Append(fires, Len(fed) + 1),
         ~CoolingDown(rule, now), rule' = [hits |-> <<>>, quiet_until |-> now + cooldown]
  PROVE  IInv'
<1> DEFINE n == Len(fed) + 1
<1>1. /\ fed' \in Seq(Int) /\ Len(fed') = n /\ Len(fed) \in Nat /\ n \in Nat \ {0}
      /\ fed'[n] = now /\ \A j \in 1..Len(fed) : fed'[j] = fed[j]
  BY FeedFacts
<1>2. /\ fires \in Seq(Nat \ {0}) /\ Len(fires) \in Nat
      /\ DOMAIN fires = 1..Len(fires)
  BY DEF IInv, TypeOK
<1>3. /\ fires' \in Seq(Nat \ {0}) /\ Len(fires') = Len(fires) + 1
      /\ DOMAIN fires' = 1..(Len(fires) + 1)
      /\ fires'[Len(fires) + 1] = n
      /\ \A k \in DOMAIN fires : fires'[k] = fires[k] /\ fires[k] \in 1..Len(fed)
  BY <1>1, <1>2 DEF IInv, FiresInOrder
<1>4. LastFire' = n
  BY <1>2, <1>3 DEF LastFire
<1>5. rule'.hits = <<>> /\ rule'.quiet_until = now + cooldown /\ now + cooldown \in Int
  BY CooldownAssumption
<1> HIDE DEF n
<1>6. TypeOK'
  BY <1>1, <1>3, <1>5 DEF TypeOK
<1>7. Suffix'
  BY <1>1, <1>4, <1>5 DEF Suffix
<1>8. FiresInOrder'
  <2>1. \A k \in DOMAIN fires' : fires'[k] \in 1..Len(fed')
    BY <1>1, <1>2, <1>3 DEF n
  <2>2. \A j, k \in DOMAIN fires' : j < k => fires'[j] < fires'[k]
    <3>1. SUFFICES ASSUME NEW j \in DOMAIN fires', NEW k \in DOMAIN fires', j < k
                   PROVE  fires'[j] < fires'[k]
      OBVIOUS
    <3>2. j \in DOMAIN fires
      BY <1>2, <1>3, <3>1
    <3>3. CASE k = Len(fires) + 1
      BY <1>1, <1>3, <3>2, <3>3 DEF n
    <3>4. CASE k # Len(fires) + 1
      BY <1>2, <1>3, <3>1, <3>2, <3>4 DEF IInv, FiresInOrder
    <3> QED
      BY <3>3, <3>4
  <2> QED
    BY <2>1, <2>2 DEF FiresInOrder
<1>9. Cooling'
  BY <1>1, <1>3, <1>4, <1>5 DEF Cooling
<1>10. FiresAreSpaced'
  <2>1. SUFFICES ASSUME NEW k \in 2..(Len(fires) + 1)
                 PROVE  fed'[fires'[k]] >= fed'[fires'[k - 1]] + cooldown
    BY <1>3 DEF FiresAreSpaced
  <2>2. k - 1 \in DOMAIN fires /\ fed'[fires'[k - 1]] = fed[fires[k - 1]]
        /\ fires[k - 1] \in 1..Len(fed)
    <3>1. k - 1 \in DOMAIN fires
      BY <1>2
    <3> QED
      BY <1>1, <1>3, <3>1
  <2>3. CASE k = Len(fires) + 1
    <3>1. fires # <<>> /\ LastFire = fires[k - 1]
      BY <1>2, <2>2, <2>3 DEF LastFire
    <3>2. rule.quiet_until = fed[fires[k - 1]] + cooldown
      BY <3>1 DEF IInv, Cooling
    <3>3. fed[fires[k - 1]] \in Int
      BY <2>2 DEF IInv, TypeOK
    <3>4. rule.quiet_until # Never /\ ~(now < rule.quiet_until)
      BY <3>2, <3>3, NeverAssumption, CooldownAssumption DEF CoolingDown
    <3> QED
      BY <1>1, <1>3, <2>2, <2>3, <3>2, <3>3, <3>4, CooldownAssumption
  <2>4. CASE k # Len(fires) + 1
    <3>1. k \in 2..Len(fires) /\ k \in DOMAIN fires
      BY <1>2, <2>4
    <3>2. fed'[fires'[k]] = fed[fires[k]]
      BY <1>1, <1>3, <3>1
    <3> QED
      BY <2>2, <3>1, <3>2 DEF IInv, FiresAreSpaced
  <2> QED
    BY <2>3, <2>4
<1> QED
  BY <1>6, <1>7, <1>8, <1>9, <1>10 DEF IInv

LEMMA QuietKeeps ==
  ASSUME IInv, NEW now \in Int, FeedRecord(now), fires' = fires,
         rule' = [hits |-> HitsAt(rule, window, now), quiet_until |-> rule.quiet_until]
  PROVE  IInv'
<1> DEFINE h == HitsAt(rule, window, now)
<1>1. /\ fed' \in Seq(Int) /\ Len(fed') = Len(fed) + 1 /\ Len(fed) \in Nat
      /\ \A j \in 1..Len(fed) : fed'[j] = fed[j]
      /\ Len(rule.hits) \in Nat /\ LastFire \in 0..Len(fed)
      /\ Len(h) \in 1..(Len(rule.hits) + 1)
      /\ \A j \in 1..Len(h) : h[j] = fed'[Len(fed) + 1 - Len(h) + j]
      /\ h \in Seq(Int)
  BY FeedFacts
<1>2. LastFire' = LastFire
  BY DEF LastFire
<1>3. rule'.hits = h /\ rule'.quiet_until = rule.quiet_until
  OBVIOUS
<1>4. \A k \in DOMAIN fires : fires[k] \in 1..Len(fed) /\ fed'[fires[k]] = fed[fires[k]]
  BY <1>1 DEF IInv, FiresInOrder
<1> HIDE DEF h
<1>5. TypeOK'
  BY <1>1, <1>3 DEF IInv, TypeOK
<1>6. Suffix'
  BY <1>1, <1>2, <1>3 DEF IInv, Suffix
<1>7. FiresInOrder'
  BY <1>1, <1>4 DEF IInv, FiresInOrder
<1>8. Cooling'
  <2>1. CASE fires = <<>>
    BY <1>3, <2>1 DEF IInv, Cooling
  <2>2. CASE fires # <<>>
    <3>1. LastFire \in 1..Len(fed)
      BY <1>1, <2>2 DEF IInv, TypeOK, FiresInOrder, LastFire
    <3> QED
      BY <1>1, <1>2, <1>3, <2>2, <3>1 DEF IInv, Cooling
  <2> QED
    BY <2>1, <2>2
<1>9. FiresAreSpaced'
  <2>1. \A k \in 2..Len(fires) : k \in DOMAIN fires /\ k - 1 \in DOMAIN fires
    BY DEF IInv, TypeOK
  <2> QED
    BY <1>4, <2>1 DEF IInv, FiresAreSpaced
<1> QED
  BY <1>5, <1>6, <1>7, <1>8, <1>9 DEF IInv

LEMMA Inductive == IInv /\ [Next]_vars => IInv'
<1>1. SUFFICES ASSUME IInv, [Next]_vars  PROVE IInv'
  OBVIOUS
<1>2. CASE Next
  <2>1. PICK d \in (-Skew)..MaxGap : FeedRecord(LastTime + d)
    BY <1>2 DEF Next
  <2>2. LastTime + d \in Int
    BY <1>1, SkewAssumption DEF IInv, TypeOK, LastTime
  <2> QED
    BY <1>1, <2>1, <2>2, FeedCases, FireKeeps, QuietKeeps
<1>3. CASE UNCHANGED vars
  BY <1>1, <1>3 DEF vars, IInv, TypeOK, Suffix, FiresInOrder, Cooling, FiresAreSpaced, LastFire
<1> QED
  BY <1>1, <1>2, <1>3

\* The rule's state and both histories keep their types.
THEOREM TypeCorrect == Spec => []TypeOK
<1>1. IInv => TypeOK
  BY DEF IInv
<1> QED
  BY <1>1, InitHolds, Inductive, PTL DEF Spec

\* Two detections of one rule are a cooldown apart in event time, whatever the
\* order the records are stamped in (rules.py:89-94).
THEOREM CooldownHolds == Spec => []FiresAreSpaced
<1>1. IInv => FiresAreSpaced
  BY DEF IInv
<1> QED
  BY <1>1, InitHolds, Inductive, PTL DEF Spec

----------------------------------------------------------------------------
\* With records in order the deque is all of the recent past: what is no longer
\* in it was used up by a fire, or is older than the window.

Maximal ==
  Len(fed) - Len(rule.hits) > LastFire =>
    fed[Len(fed) - Len(rule.hits)] < fed[Len(fed)] - window

OInv == IInv /\ InOrder /\ Maximal /\ FiresAreBursts /\ NoBurstMissed

\* A log in order was in order before its last record.
LEMMA InOrderBefore ==
  ASSUME IInv, NEW now \in Int, FeedRecord(now), InOrder'
  PROVE  InOrder
<1>1. /\ Len(fed') = Len(fed) + 1 /\ Len(fed) \in Nat
      /\ \A j \in 1..Len(fed) : fed'[j] = fed[j]
  BY FeedFacts
<1>2. \A j \in 1..Len(fed) : j \in 1..Len(fed')
  BY <1>1
<1> QED
  BY <1>1, <1>2 DEF InOrder

\* What a longer history says of the records already in it.
LEMMA BurstKept ==
  ASSUME IInv, NEW now \in Int, FeedRecord(now), NEW f \in Nat, NEW m \in 1..Len(fed)
  PROVE  Burst(f, m)' <=> Burst(f, m)
<1>1. /\ Len(fed) \in Nat /\ threshold \in Nat \ {0}
      /\ \A j \in 1..Len(fed) : fed'[j] = fed[j]
  BY FeedFacts, RuleAssumption
<1>2. ASSUME m - threshold >= f
      PROVE  \A j \in (m - threshold + 1)..m : fed'[j] = fed[j]
  <2>1. \A j \in (m - threshold + 1)..m : j \in 1..Len(fed)
    BY <1>1, <1>2
  <2> QED
    BY <1>1, <2>1
<1> QED
  BY <1>1, <1>2 DEF Burst

\* The deque after a record, when it did not fire, is still maximal.
LEMMA QuietMaximal ==
  ASSUME IInv, Maximal, InOrder', NEW now \in Int, FeedRecord(now),
         LastFire' = LastFire, rule'.hits = HitsAt(rule, window, now)
  PROVE  Maximal'
<1> DEFINE h == HitsAt(rule, window, now)
<1>1. /\ Len(fed') = Len(fed) + 1 /\ Len(fed) \in Nat /\ fed'[Len(fed) + 1] = now
      /\ \A j \in 1..Len(fed) : fed'[j] = fed[j] /\ fed[j] \in Int
      /\ Len(rule.hits) \in Nat /\ LastFire \in 0..Len(fed)
      /\ Len(h) \in 1..(Len(rule.hits) + 1)
      /\ Len(h) <= Len(rule.hits) => fed'[Len(fed) + 1 - Len(h)] < now - window
      /\ window \in Nat
  BY FeedFacts, RuleAssumption DEF IInv, TypeOK
<1> HIDE DEF h
<1>2. SUFFICES ASSUME Len(fed) + 1 - Len(h) > LastFire
               PROVE  fed'[Len(fed) + 1 - Len(h)] < now - window
  BY <1>1 DEF Maximal, h
<1>3. CASE Len(h) <= Len(rule.hits)
  BY <1>1, <1>3
<1>4. CASE Len(h) = Len(rule.hits) + 1
  <2>1. Len(fed) + 1 - Len(h) = Len(fed) - Len(rule.hits)
        /\ Len(fed) - Len(rule.hits) \in 1..Len(fed)
        /\ Len(fed) \in 1..Len(fed)
    BY <1>1, <1>2, <1>4
  <2>2. fed[Len(fed) - Len(rule.hits)] < fed[Len(fed)] - window
    BY <1>2, <2>1 DEF Maximal
  <2>3. fed'[Len(fed)] <= fed'[Len(fed) + 1]
    BY <1>1, <2>1 DEF InOrder
  <2>4. fed'[Len(fed)] = fed[Len(fed)] /\ fed[Len(fed)] <= now /\ fed[Len(fed)] \in Int
    BY <1>1, <2>1, <2>3
  <2>5. fed'[Len(fed) - Len(rule.hits)] = fed[Len(fed) - Len(rule.hits)]
        /\ fed[Len(fed) - Len(rule.hits)] \in Int
    BY <1>1, <2>1
  <2>6. fed[Len(fed) - Len(rule.hits)] < now - window
    BY <1>1, <2>2, <2>4, <2>5
  <2> QED
    BY <2>1, <2>5, <2>6
<1> QED
  BY <1>1, <1>3, <1>4

\* A deque long enough is a burst that ends with the new record.
LEMMA HitsAreBurst ==
  ASSUME IInv, InOrder', NEW now \in Int, FeedRecord(now),
         Len(HitsAt(rule, window, now)) >= threshold
  PROVE  /\ Len(fed) + 1 - threshold >= LastFire
         /\ \A j \in (Len(fed) + 2 - threshold)..(Len(fed) + 1) : fed'[j] >= now - window
<1> DEFINE h == HitsAt(rule, window, now)
<1>1. /\ fed' \in Seq(Int) /\ Len(fed') = Len(fed) + 1 /\ Len(fed) \in Nat
      /\ Len(rule.hits) \in Nat /\ LastFire \in 0..Len(fed)
      /\ Len(h) \in 1..(Len(rule.hits) + 1)
      /\ fed'[Len(fed) + 2 - Len(h)] >= now - window
      /\ window \in Nat /\ threshold \in Nat \ {0}
      /\ Len(rule.hits) <= Len(fed) - LastFire
      /\ Len(h) >= threshold
  BY FeedFacts, RuleAssumption DEF IInv, Suffix
<1> HIDE DEF h
<1>2. Len(fed) + 1 - threshold >= LastFire
  BY <1>1
<1>3. SUFFICES ASSUME NEW j \in (Len(fed) + 2 - threshold)..(Len(fed) + 1)
               PROVE  fed'[j] >= now - window
  BY <1>2
<1>4. /\ Len(fed) + 2 - Len(h) \in 1..(Len(fed) + 1)
      /\ j \in 1..(Len(fed) + 1) /\ Len(fed) + 2 - Len(h) <= j
  <2>1. /\ Len(fed) \in Nat /\ Len(h) \in Nat /\ threshold \in Nat /\ LastFire \in Nat
        /\ Len(h) >= 1 /\ Len(h) >= threshold /\ Len(fed) + 1 - threshold >= LastFire
    BY <1>1, <1>2
  <2>2. Len(h) <= Len(fed) + 1
    BY <1>1
  <2>3. j \in Int /\ Len(fed) + 2 - threshold <= j /\ j <= Len(fed) + 1
    BY <2>1
  <2> QED
    BY <2>1, <2>2, <2>3
<1>5. fed'[Len(fed) + 2 - Len(h)] <= fed'[j]
  BY <1>1, <1>4 DEF InOrder
<1>typed. \A i \in 1..(Len(fed) + 1) : fed'[i] \in Int
  BY <1>1
<1>6. PICK x \in Int : x = fed'[Len(fed) + 2 - Len(h)]
  BY <1>4, <1>typed
<1>7. PICK y \in Int : y = fed'[j]
  BY <1>4, <1>typed
<1>8. PICK z \in Int : z = now - window
  BY <1>1
<1>9. x <= y /\ x >= z
  BY <1>1, <1>5, <1>6, <1>7, <1>8
<1> QED
  BY <1>7, <1>8, <1>9

\* The other way round, since nothing recent is missing from the deque.
LEMMA BurstIsHits ==
  ASSUME IInv, Maximal', NEW now \in Int, FeedRecord(now),
         LastFire' = LastFire, rule'.hits = HitsAt(rule, window, now),
         Len(fed) + 1 - threshold >= LastFire,
         \A j \in (Len(fed) + 2 - threshold)..(Len(fed) + 1) : fed'[j] >= now - window
  PROVE  Len(HitsAt(rule, window, now)) >= threshold
<1> DEFINE h == HitsAt(rule, window, now)
<1>1. /\ fed' \in Seq(Int) /\ Len(fed') = Len(fed) + 1 /\ Len(fed) \in Nat
      /\ fed'[Len(fed) + 1] = now
      /\ LastFire \in 0..Len(fed) /\ Len(h) \in Nat \ {0}
      /\ window \in Nat /\ threshold \in Nat \ {0}
      /\ rule'.hits = h
  BY FeedFacts, RuleAssumption DEF IInv, TypeOK
<1> HIDE DEF h
<1>2. SUFFICES ASSUME Len(h) < threshold  PROVE FALSE
  BY <1>1 DEF h
<1>3. /\ Len(fed) + 1 - Len(h) > LastFire
      /\ Len(fed) + 1 - Len(h) \in (Len(fed) + 2 - threshold)..(Len(fed) + 1)
      /\ Len(fed) + 1 - Len(h) \in 1..(Len(fed) + 1)
  BY <1>1, <1>2
<1>4. fed'[Len(fed) + 1 - Len(h)] < now - window
  BY <1>1, <1>3 DEF Maximal
<1>5. fed'[Len(fed) + 1 - Len(h)] >= now - window
  BY <1>3
<1>6. fed'[Len(fed) + 1 - Len(h)] \in Int /\ now - window \in Int
  BY <1>1, <1>3
<1> QED
  BY <1>4, <1>5, <1>6

----------------------------------------------------------------------------
LEMMA BurstsStep ==
  ASSUME OInv, InOrder', NEW now \in Int, FeedRecord(now)
  PROVE  FiresAreBursts'
<1>1. /\ Len(fed) \in Nat /\ Len(fed') = Len(fed) + 1 /\ fed'[Len(fed) + 1] = now
      /\ threshold \in Nat \ {0} /\ window \in Nat
  BY FeedFacts, RuleAssumption DEF OInv
<1>2. /\ fires \in Seq(Nat \ {0}) /\ Len(fires) \in Nat /\ DOMAIN fires = 1..Len(fires)
      /\ \A k \in DOMAIN fires : fires[k] \in 1..Len(fed)
  BY DEF OInv, IInv, TypeOK, FiresInOrder
<1>3. ASSUME NEW k \in DOMAIN fires, fires'[k] = fires[k], k = 1 \/ fires'[k - 1] = fires[k - 1]
      PROVE  Burst(FireBefore(k), fires[k])'
  <2>1. PICK f \in Nat : f = FireBefore(k)
    <3>1. k = 1 \/ k - 1 \in DOMAIN fires
      BY <1>2
    <3> QED
      BY <1>2, <3>1 DEF FireBefore
  <2>2. PICK m \in 1..Len(fed) : m = fires[k]
    BY <1>2
  <2>3. Burst(f, m)
    BY <2>1, <2>2 DEF OInv, FiresAreBursts
  <2>4. Burst(f, m)'
    BY <2>3, BurstKept DEF OInv
  <2>5. FireBefore(k)' = f /\ fires'[k] = m
    BY <1>3, <2>1, <2>2 DEF FireBefore
  <2> QED
    BY <2>4, <2>5
<1>4. CASE fires' = fires
  BY <1>3, <1>4 DEF FiresAreBursts
<1>5. CASE fires' = Append(fires, Len(fed) + 1) /\ Len(HitsAt(rule, window, now)) >= threshold
  <2>1. /\ Len(fires') = Len(fires) + 1 /\ DOMAIN fires' = 1..(Len(fires) + 1)
        /\ fires'[Len(fires) + 1] = Len(fed) + 1
        /\ \A k \in DOMAIN fires : fires'[k] = fires[k]
    BY <1>2, <1>5
  <2>2. SUFFICES ASSUME NEW k \in 1..(Len(fires) + 1)
                 PROVE  Burst(FireBefore(k), fires[k])'
    BY <2>1 DEF FiresAreBursts
  <2>3. CASE k \in DOMAIN fires
    <3>1. k = 1 \/ k - 1 \in DOMAIN fires
      BY <1>2, <2>3
    <3> QED
      BY <1>3, <2>1, <2>3, <3>1
  <2>4. CASE k = Len(fires) + 1
    <3>1. FireBefore(k)' = LastFire
      <4>1. CASE fires = <<>>
        BY <1>2, <2>4, <4>1 DEF FireBefore, LastFire
      <4>2. CASE fires # <<>>
        <5>1. k # 1 /\ k - 1 = Len(fires) /\ Len(fires) \in DOMAIN fires
          BY <1>2, <2>4, <4>2
        <5> QED
          BY <2>1, <4>2, <5>1 DEF FireBefore, LastFire
      <4> QED
        BY <4>1, <4>2
    <3>2. /\ Len(fed) + 1 - threshold >= LastFire
          /\ \A j \in (Len(fed) + 2 - threshold)..(Len(fed) + 1) : fed'[j] >= now - window
      BY <1>5, HitsAreBurst DEF OInv
    <3>3. fires'[k] = Len(fed) + 1 /\ Len(fed) + 1 - threshold + 1 = Len(fed) + 2 - threshold
      BY <1>1, <2>1, <2>4
    <3> QED
      BY <1>1, <3>1, <3>2, <3>3 DEF Burst
  <2> QED
    BY <1>2, <2>2, <2>3, <2>4
<1> QED
  BY <1>4, <1>5, FeedCases DEF OInv

LEMMA NoneMissedStep ==
  ASSUME OInv, IInv', InOrder', Maximal', NEW now \in Int, FeedRecord(now)
  PROVE  NoBurstMissed'
<1>1. /\ fed' \in Seq(Int) /\ Len(fed) \in Nat /\ Len(fed') = Len(fed) + 1
      /\ fed'[Len(fed) + 1] = now
      /\ \A j \in 1..Len(fed) : fed'[j] = fed[j]
      /\ DOMAIN fed' = 1..(Len(fed) + 1) /\ DOMAIN fed = 1..Len(fed)
      /\ LastFire \in 0..Len(fed)
  BY FeedFacts DEF OInv, IInv, TypeOK
<1>2. /\ fires \in Seq(Nat \ {0}) /\ Len(fires) \in Nat /\ DOMAIN fires = 1..Len(fires)
      /\ \A k \in DOMAIN fires : fires[k] \in 1..Len(fed)
  BY DEF OInv, IInv, TypeOK, FiresInOrder
<1>3. /\ \A k \in DOMAIN fires : k \in DOMAIN fires' /\ fires'[k] = fires[k]
      /\ \A k \in DOMAIN fires' : k \in DOMAIN fires \/ fires'[k] = Len(fed) + 1
  BY <1>2, FeedCases DEF OInv
<1>4. SUFFICES ASSUME NEW n \in 1..(Len(fed) + 1), NEW f \in 0..(Len(fed) + 1),
                      LastFireBefore(f, n)', Burst(f, n)',
                      \A k \in DOMAIN fires' : fires'[k] # n
               PROVE  f # 0 /\ fed'[n] < fed'[f] + cooldown
  BY <1>1 DEF NoBurstMissed
<1>5. /\ f < n /\ f \in Nat
      /\ f = 0 \/ \E k \in DOMAIN fires' : fires'[k] = f
      /\ \A k \in DOMAIN fires' : fires'[k] < n => fires'[k] <= f
  BY <1>4 DEF LastFireBefore
<1>6. f \in 0..Len(fed) /\ (f = 0 \/ \E k \in DOMAIN fires : fires[k] = f)
  BY <1>1, <1>3, <1>5
<1>7. \A k \in DOMAIN fires : fires[k] # n /\ (fires[k] < n => fires[k] <= f)
  BY <1>3, <1>4, <1>5
<1>8. f # 0 => f \in 1..Len(fed) /\ fed'[f] = fed[f]
  BY <1>1, <1>6
<1>9. CASE n \in 1..Len(fed)
  <2>1. LastFireBefore(f, n)
    BY <1>5, <1>6, <1>7 DEF LastFireBefore
  <2>2. Burst(f, n)
    BY <1>4, <1>5, <1>9, BurstKept DEF OInv
  <2>3. f # 0 /\ fed[n] < fed[f] + cooldown
    BY <1>1, <1>6, <1>7, <1>9, <2>1, <2>2 DEF OInv, NoBurstMissed
  <2> QED
    BY <1>1, <1>8, <1>9, <2>3
<1>10. CASE n = Len(fed) + 1
  <2>1. /\ fires' = fires
        /\ CoolingDown(rule, now) \/ ~(Len(HitsAt(rule, window, now)) >= threshold)
        /\ rule'.hits = HitsAt(rule, window, now)
    <3>1. fires' # Append(fires, Len(fed) + 1)
      <4>1. SUFFICES ASSUME fires' = Append(fires, Len(fed) + 1)  PROVE FALSE
        OBVIOUS
      <4>2. Len(fires) + 1 \in DOMAIN fires' /\ fires'[Len(fires) + 1] = n
        BY <1>2, <1>10, <4>1
      <4> QED
        BY <1>4, <4>2
    <3> QED
      BY <3>1, FeedCases DEF OInv
  <2>2. f = LastFire
    <3>1. LastFire = 0 \/ (LastFire \in 1..Len(fed) /\ \E k \in DOMAIN fires : fires[k] = LastFire)
      <4>1. CASE fires = <<>>
        BY <4>1 DEF LastFire
      <4>2. CASE fires # <<>>
        <5>1. Len(fires) \in DOMAIN fires /\ LastFire = fires[Len(fires)]
          BY <1>2, <4>2 DEF LastFire
        <5> QED
          BY <1>2, <5>1
      <4> QED
        BY <4>1, <4>2
    <3>2. LastFire <= f
      BY <1>1, <1>5, <1>7, <1>10, <3>1
    <3>3. \A k \in DOMAIN fires : fires[k] <= LastFire
      <4>1. SUFFICES ASSUME NEW k \in DOMAIN fires  PROVE fires[k] <= LastFire
        OBVIOUS
      <4>2. fires # <<>> /\ LastFire = fires[Len(fires)] /\ Len(fires) \in DOMAIN fires
        BY <1>2 DEF LastFire
      <4>3. CASE k = Len(fires)
        BY <1>2, <4>2, <4>3
      <4>4. CASE k # Len(fires)
        <5>1. k < Len(fires)
          BY <1>2, <4>4
        <5>2. fires[k] < fires[Len(fires)]
          BY <4>2, <5>1 DEF OInv, IInv, FiresInOrder
        <5> QED
          BY <1>2, <4>2, <5>2
      <4> QED
        BY <4>3, <4>4
    <3> QED
      BY <1>1, <1>6, <3>2, <3>3
  <2>3. LastFire' = LastFire
    BY <2>1 DEF LastFire
  <2>4. /\ n - threshold >= f
        /\ \A j \in (n - threshold + 1)..n : fed'[j] >= fed'[n] - window
    BY <1>4 DEF Burst
  <2>5. n - threshold + 1 = Len(fed) + 2 - threshold /\ n - threshold = Len(fed) + 1 - threshold
    BY <1>1, <1>10, RuleAssumption
  <2>6. Len(HitsAt(rule, window, now)) >= threshold
    BY <1>1, <1>10, <2>1, <2>2, <2>3, <2>4, <2>5, BurstIsHits DEF OInv
  <2>7. rule.quiet_until # Never /\ now < rule.quiet_until
    BY <2>1, <2>6 DEF CoolingDown
  <2>8. fires # <<>> /\ rule.quiet_until = fed[LastFire] + cooldown
    BY <2>7 DEF OInv, IInv, Cooling
  <2>9. LastFire \in 1..Len(fed)
    BY <1>2, <2>8 DEF LastFire
  <2> QED
    BY <1>1, <1>8, <1>10, <2>2, <2>7, <2>8, <2>9
<1> QED
  BY <1>1, <1>9, <1>10

LEMMA FireMaximal ==
  ASSUME IInv, NEW now \in Int, FeedRecord(now), fires' = Append(fires, Len(fed) + 1),
         rule'.hits = <<>>
  PROVE  Maximal'
<1>1. Len(fed) \in Nat /\ Len(fed') = Len(fed) + 1
  BY FeedFacts
<1>2. LastFire' = Len(fed) + 1
  <2>1. fires \in Seq(Nat \ {0}) /\ Len(fires) \in Nat
    BY DEF IInv, TypeOK
  <2> QED
    BY <2>1 DEF LastFire
<1> QED
  BY <1>1, <1>2 DEF Maximal

\* Of a log in order the stronger invariant holds as well.
RInv == IInv /\ (InOrder => OInv)

LEMMA OrderedInit == Init => RInv
<1>1. SUFFICES ASSUME Init  PROVE OInv
  BY InitHolds DEF RInv
<1>2. fed = <<>> /\ fires = <<>> /\ Len(fed) = 0 /\ DOMAIN fed = {} /\ DOMAIN fires = {}
      /\ Len(rule.hits) = 0 /\ LastFire = 0
  BY <1>1 DEF Init, NewRule, LastFire
<1> QED
  BY <1>1, <1>2, InitHolds DEF OInv, InOrder, Maximal, FiresAreBursts, NoBurstMissed

LEMMA OrderedRecord ==
  ASSUME OInv, IInv', InOrder', NEW now \in Int, FeedRecord(now)
  PROVE  OInv'
<1>1. Maximal'
  <2>1. CASE fires' = Append(fires, Len(fed) + 1) /\ rule'.hits = <<>>
    BY <2>1, FireMaximal DEF OInv
  <2>2. CASE fires' = fires /\ rule'.hits = HitsAt(rule, window, now)
    <3>1. LastFire' = LastFire
      BY <2>2 DEF LastFire
    <3> QED
      BY <2>2, <3>1, QuietMaximal DEF OInv
  <2> QED
    BY <2>1, <2>2, FeedCases DEF OInv
<1>2. FiresAreBursts'
  BY BurstsStep
<1>3. NoBurstMissed'
  BY <1>1, NoneMissedStep
<1> QED
  BY <1>1, <1>2, <1>3 DEF OInv

LEMMA OrderedStep == RInv /\ [Next]_vars => RInv'
<1>1. SUFFICES ASSUME RInv, [Next]_vars, InOrder'  PROVE OInv'
  BY Inductive DEF RInv
<1>2. IInv /\ IInv'
  BY <1>1, Inductive DEF RInv
<1>3. CASE Next
  <2>1. PICK d \in (-Skew)..MaxGap : FeedRecord(LastTime + d)
    BY <1>3 DEF Next
  <2>2. LastTime + d \in Int
    BY <1>2, SkewAssumption DEF IInv, TypeOK, LastTime
  <2>3. OInv
    BY <1>1, <1>2, <2>1, <2>2, InOrderBefore DEF RInv
  <2> QED
    BY <1>1, <1>2, <2>1, <2>2, <2>3, OrderedRecord
<1>4. CASE UNCHANGED vars
  <2>1. InOrder
    BY <1>1, <1>4 DEF vars, InOrder
  <2> QED
    BY <1>1, <1>2, <1>4, <2>1 DEF vars, RInv, OInv, InOrder, Maximal, LastFire,
       FiresAreBursts, NoBurstMissed, Burst, FireBefore, LastFireBefore
<1> QED
  BY <1>1, <1>3, <1>4

\* In a log whose records are in order every detection has a burst of its own
\* behind it (rules.py:56-57).
THEOREM DetectionsAreBursts == Spec => []FiresAreBursts
<1>1. RInv => FiresAreBursts
  BY DEF RInv, OInv, FiresAreBursts
<1> QED
  BY <1>1, OrderedInit, OrderedStep, PTL DEF Spec

\* And every burst is detected, unless the rule is cooling down: the few times
\* in the deque decide as the whole log would.
THEOREM BurstsAreDetected == Spec => []NoBurstMissed
<1>1. RInv => NoBurstMissed
  BY DEF RInv, OInv, NoBurstMissed
<1> QED
  BY <1>1, OrderedInit, OrderedStep, PTL DEF Spec
=============================================================================
