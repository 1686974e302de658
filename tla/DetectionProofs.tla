--------------------------- MODULE DetectionProofs ---------------------------
(***************************************************************************)
(* What becomes of the deque of a RollingCountRule, for any rule, window   *)
(* and time: the lemmas that RulesProofs and LogWatcherProofs rest on.     *)
(***************************************************************************)
EXTENDS DetectionRules, TLAPS, SequenceTheorems, WellFoundedInduction

LEMMA FirstFreshExists ==
  ASSUME NEW hits \in Seq(Int), NEW cutoff \in Int
  PROVE  LET k == FirstFresh(hits, cutoff)
         IN  /\ k \in 1..(Len(hits) + 1)
             /\ k <= Len(hits) => hits[k] >= cutoff
             /\ \A j \in 1..(k - 1) : hits[j] < cutoff
<1> DEFINE S == {k \in 1..(Len(hits) + 1) : k <= Len(hits) => hits[k] >= cutoff}
<1>1. Len(hits) + 1 \in S /\ S \subseteq Nat /\ Len(hits) \in Nat
  OBVIOUS
<1>2. PICK m \in S : \A n \in S : ~(<<n, m>> \in OpToRel(<, Nat))
  BY <1>1, WFMin, NatLessThanWellFounded
<1>3. \A n \in S : m <= n
  <2> HIDE DEF S
  <2>1. \A n \in S : ~(n < m)
    BY <1>1, <1>2 DEF OpToRel
  <2> QED
    BY <1>1, <2>1
<1>4. \A j \in 1..(m - 1) : hits[j] < cutoff
  <2>1. SUFFICES ASSUME NEW j \in 1..(m - 1)  PROVE hits[j] < cutoff
    OBVIOUS
  <2>2. j \in 1..(Len(hits) + 1) /\ j <= Len(hits) /\ hits[j] \in Int /\ ~(m <= j)
    BY <1>1
  <2> QED
    BY <1>3, <2>2
<1> HIDE DEF S
<1>5. /\ m \in 1..(Len(hits) + 1)
      /\ m <= Len(hits) => hits[m] >= cutoff
  BY DEF S
<1> QED
  BY <1>4, <1>5 DEF FirstFresh

\* If the last time lies in the window, aging keeps an end of the deque: what is
\* left begins in the window, and what was dropped does not lie in it.
LEMMA AgedFacts ==
  ASSUME NEW a \in Seq(Int), NEW c \in Int, Len(a) > 0, a[Len(a)] >= c
  PROVE  \E k \in 1..Len(a) :
           /\ Aged(a, c) \in Seq(Int) /\ Len(Aged(a, c)) = Len(a) - k + 1
           /\ \A j \in 1..Len(Aged(a, c)) : Aged(a, c)[j] = a[k + j - 1]
           /\ a[k] >= c
           /\ \A j \in 1..(k - 1) : a[j] < c
<1> DEFINE k == FirstFresh(a, c)
           h == Aged(a, c)
<1>1. Len(a) \in Nat \ {0} /\ a[Len(a)] \in Int
  OBVIOUS
<1>2. /\ k \in 1..(Len(a) + 1)
      /\ k <= Len(a) => a[k] >= c
      /\ \A j \in 1..(k - 1) : a[j] < c
  BY FirstFreshExists
<1>3. h = SubSeq(a, k, Len(a))
  BY DEF Aged
<1> HIDE DEF k, h
<1>4. k \in 1..Len(a)
  <2>1. SUFFICES ASSUME k > Len(a)  PROVE FALSE
    BY <1>1, <1>2
  <2>2. Len(a) \in 1..(k - 1)
    BY <1>1, <1>2, <2>1
  <2>3. a[Len(a)] < c
    BY <1>2, <2>2
  <2> QED
    BY <1>1, <2>3
<1>5. /\ h \in Seq(Int)
      /\ Len(h) = Len(a) - k + 1
      /\ \A j \in 1..(Len(a) - k + 1) : h[j] = a[k + j - 1]
  <2>1. \A i \in k..Len(a) : a[i] \in Int
    BY <1>1, <1>4
  <2> QED
    BY <1>1, <1>3, <1>4, <2>1, SubSeqProperties
<1>6. /\ h \in Seq(Int) /\ Len(h) = Len(a) - k + 1
      /\ \A j \in 1..Len(h) : h[j] = a[k + j - 1]
      /\ a[k] >= c
      /\ \A j \in 1..(k - 1) : a[j] < c
  BY <1>2, <1>4, <1>5
<1> QED
  BY <1>4, <1>6 DEF h

\* The deque is the end of the first n of these times.
IsEnd(hits, times, n) ==
  /\ Len(hits) <= n
  /\ \A j \in 1..Len(hits) : hits[j] = times[n - Len(hits) + j]

LEMMA EmptyIsEnd ==
  ASSUME NEW n \in Nat, NEW times
  PROVE  IsEnd(<<>>, times, n)
<1>1. Len(<<>>) = 0 /\ 1..0 = {}
  OBVIOUS
<1> QED
  BY <1>1 DEF IsEnd

\* If the deque is the end of a history of n times, then after one more it is
\* the end of n + 1: its new front lies in the window, what was dropped before
\* it does not.
LEMMA DequeAdvances ==
  ASSUME NEW r, NEW hits \in Seq(Int), r.hits = hits, NEW w \in Nat,
         NEW n \in Nat, NEW times, NEW now \in Int, times[n + 1] = now,
         IsEnd(hits, times, n)
  PROVE  LET h == HitsAt(r, w, now)
         IN  /\ h \in Seq(Int) /\ Len(h) \in 1..(Len(hits) + 1)
             /\ IsEnd(h, times, n + 1)
             /\ times[n + 2 - Len(h)] >= now - w
             /\ Len(h) <= Len(hits) => times[n + 1 - Len(h)] < now - w
<1> DEFINE a == Append(hits, now)
           h == HitsAt(r, w, now)
           c == now - w
<1>1. /\ a \in Seq(Int) /\ Len(a) = Len(hits) + 1 /\ a[Len(a)] = now
      /\ Len(hits) \in Nat /\ Len(hits) <= n
      /\ c \in Int /\ Len(a) > 0 /\ a[Len(a)] >= c
  BY DEF IsEnd
<1>2. PICK k \in 1..Len(a) :
        /\ h \in Seq(Int) /\ Len(h) = Len(a) - k + 1
        /\ \A j \in 1..Len(h) : h[j] = a[k + j - 1]
        /\ a[k] >= now - w
        /\ \A j \in 1..(k - 1) : a[j] < now - w
  <2>1. h = Aged(a, c)
    BY DEF HitsAt
  <2> HIDE DEF a, h, c
  <2>2. \E k \in 1..Len(a) :
          /\ h \in Seq(Int) /\ Len(h) = Len(a) - k + 1
          /\ \A j \in 1..Len(h) : h[j] = a[k + j - 1]
          /\ a[k] >= c
          /\ \A j \in 1..(k - 1) : a[j] < c
    BY <1>1, <2>1, AgedFacts
  <2> QED
    BY <2>2 DEF c
<1>4. \A i \in 1..Len(a) : a[i] = times[n - Len(hits) + i]
  <2>1. SUFFICES ASSUME NEW i \in 1..(Len(hits) + 1)
                 PROVE  a[i] = times[n - Len(hits) + i]
    BY <1>1
  <2>2. CASE i = Len(hits) + 1
    <3>1. n - Len(hits) + i = n + 1
      BY <1>1, <2>2
    <3> QED
      BY <2>2, <3>1
  <2>3. CASE i # Len(hits) + 1
    <3>1. a[i] = hits[i] /\ i \in 1..Len(hits)
      BY <1>1, <2>3
    <3> QED
      BY <3>1 DEF IsEnd
  <2> QED
    BY <2>2, <2>3
<1> HIDE DEF a, h
<1>5. k <= Len(a)
  BY <1>1, <1>2
<1>6. /\ h \in Seq(Int)
      /\ Len(h) = Len(a) - k + 1
      /\ \A j \in 1..(Len(a) - k + 1) : h[j] = a[k + j - 1]
  BY <1>2
<1>7. Len(h) \in 1..(Len(hits) + 1) /\ Len(h) <= n + 1
  BY <1>1, <1>2, <1>5, <1>6
<1>8. IsEnd(h, times, n + 1)
  <2>1. SUFFICES ASSUME NEW j \in 1..Len(h)  PROVE h[j] = times[n + 1 - Len(h) + j]
    BY <1>7 DEF IsEnd
  <2>2. k + j - 1 \in 1..Len(a) /\ h[j] = a[k + j - 1]
    BY <1>1, <1>2, <1>6
  <2>3. n - Len(hits) + (k + j - 1) = n + 1 - Len(h) + j
    BY <1>1, <1>2, <1>6
  <2> QED
    BY <1>4, <2>2, <2>3
<1>9. times[n + 2 - Len(h)] >= now - w
  <2>1. a[k] = times[n - Len(hits) + k]
    BY <1>2, <1>4, <1>5
  <2>2. n - Len(hits) + k = n + 2 - Len(h)
    BY <1>1, <1>2, <1>6
  <2> QED
    BY <1>2, <1>5, <2>1, <2>2
<1>10. ASSUME Len(h) <= Len(hits)
       PROVE  times[n + 1 - Len(h)] < now - w
  <2>1. k - 1 \in 1..(k - 1) /\ k - 1 \in 1..Len(a)
    BY <1>1, <1>2, <1>5, <1>6, <1>10
  <2>2. a[k - 1] = times[n - Len(hits) + (k - 1)]
    BY <1>4, <2>1
  <2>3. n - Len(hits) + (k - 1) = n + 1 - Len(h)
    BY <1>1, <1>2, <1>6
  <2> QED
    BY <1>2, <2>1, <2>2, <2>3
<1> QED
  BY <1>6, <1>7, <1>8, <1>9, <1>10 DEF h
=============================================================================
