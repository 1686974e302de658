----------------------------- MODULE RuleHistory -----------------------------
(***************************************************************************)
(* One RollingCountRule fed with every record that matches it, beside a    *)
(* full history of the records' event times and of the fires, so that what *)
(* the rule decides from the few times it keeps can be held against what   *)
(* it would decide from all of them.                                       *)
(*                                                                         *)
(* Event times need not arrive in order: the generator thread and the      *)
(* /health threads share one log file, and a log record is stamped before  *)
(* it waits for the file's lock; and the container's clock can be set      *)
(* back.  Skew bounds how far a record is stamped behind the last one.     *)
(***************************************************************************)
EXTENDS DetectionRules

CONSTANTS threshold, window,
          Skew,        \* bound: how far event time can run backwards
          MaxGap,      \* bound: how far apart two event times can be
          MaxRecords   \* bound: records fed

ASSUME RuleAssumption == threshold \in Nat \ {0} /\ window \in Nat
ASSUME SkewAssumption == Skew \in Nat /\ MaxGap \in Nat /\ MaxRecords \in Nat

VARIABLES rule,   \* the rule's own state
          fed,    \* history: event times of the matching records
          fires   \* history: which of them fired

vars == <<rule, fed, fires>>

Init == rule = NewRule /\ fed = <<>> /\ fires = <<>>

LastTime == IF fed = <<>> THEN 0 ELSE fed[Len(fed)]

FeedRecord(now) ==
  /\ Len(fed) < MaxRecords
  /\ fed' = Append(fed, now)
  /\ rule' = FeedCount(rule, threshold, window, now)
  /\ fires' = IF ~CoolingDown(rule, now) /\ CountReached(rule, threshold, window, now)
              THEN Append(fires, Len(fed) + 1)
              ELSE fires

Next == \E d \in (-Skew)..MaxGap : FeedRecord(LastTime + d)

Spec == Init /\ [][Next]_vars

----------------------------------------------------------------------------
TypeOK ==
  /\ rule \in [hits : Seq(Int), quiet_until : Int \cup {Never}]
  /\ fed \in Seq(Int)
  /\ fires \in Seq(Nat \ {0})

\* The record behind the fire before the k-th, 0 if there is none.
FireBefore(k) == IF k = 1 THEN 0 ELSE fires[k - 1]

\* The last `threshold` records up to record n are a burst: none of them was
\* used up by the fire at record f, and they all lie within the window.
Burst(f, n) ==
  /\ n - threshold >= f
  /\ \A j \in (n - threshold + 1)..n : fed[j] >= fed[n] - window

\* Two fires in a row are a cooldown apart in event time, in whatever order
\* the records are stamped.
FiresAreSpaced ==
  \A k \in 2..Len(fires) : fed[fires[k]] >= fed[fires[k - 1]] + cooldown

\* The deque is aged out from its front only, so a record stamped before its
\* predecessor can stay and be counted: what follows holds of a log in order.
InOrder == \A i, j \in 1..Len(fed) : i <= j => fed[i] <= fed[j]

\* "Fire when threshold matching records fall inside a window_seconds sliding
\* window (by event-time)" (rules.py:56-57): behind every fire there is a
\* burst, and no record is behind two of them.
FiresAreBursts ==
  InOrder => \A k \in DOMAIN fires : Burst(FireBefore(k), fires[k])

LastFireBefore(f, n) ==
  /\ f < n
  /\ f = 0 \/ \E k \in DOMAIN fires : fires[k] = f
  /\ \A k \in DOMAIN fires : fires[k] < n => fires[k] <= f

\* And the other way round: a record that completes a burst fires, unless the
\* rule is cooling down from the fire before it.
NoBurstMissed ==
  InOrder =>
    \A n \in DOMAIN fed, f \in 0..Len(fed) :
      /\ LastFireBefore(f, n)
      /\ \A k \in DOMAIN fires : fires[k] # n
      /\ Burst(f, n)
      => f # 0 /\ fed[n] < fed[f] + cooldown
=============================================================================
