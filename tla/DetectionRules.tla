--------------------------- MODULE DetectionRules ---------------------------
(***************************************************************************)
(* The two kinds of detection rule of log_watcher/rules.py, as functions   *)
(* from the state of a rule and the event time of a record that matches it *)
(* to the rule's next state.  A record that does not match changes nothing *)
(* and never gets here.                                                    *)
(*                                                                         *)
(* A rule fires exactly when feeding it changes quiet_until, for the new   *)
(* value lies in the future of the record and the old one does not.        *)
(***************************************************************************)
EXTENDS Integers, Sequences

CONSTANTS cooldown,  \* how long a rule stays quiet once it fired
          Never      \* quiet_until of a rule that never fired: Python's None

ASSUME CooldownAssumption == cooldown \in Nat \ {0}
ASSUME NeverAssumption == Never \notin Int

NewRule == [hits |-> <<>>, quiet_until |-> Never]

CoolingDown(rule, now) == rule.quiet_until # Never /\ now < rule.quiet_until

----------------------------------------------------------------------------
\* RollingCountRule.

\* The deque is popped from its front, and only as long as the front is old.
FirstFresh(hits, cutoff) ==
  CHOOSE k \in 1..(Len(hits) + 1) :
    /\ k <= Len(hits) => hits[k] >= cutoff
    /\ \A j \in 1..(k - 1) : hits[j] < cutoff

Aged(hits, cutoff) == SubSeq(hits, FirstFresh(hits, cutoff), Len(hits))

HitsAt(rule, window, now) == Aged(Append(rule.hits, now), now - window)

\* Mutant: a fire that leaves its burst in the deque.
CountFires_KeepsHits(rule, window, now) ==
  [hits |-> HitsAt(rule, window, now), quiet_until |-> now + cooldown]

\* Mutant: a fire that sets no cooldown past the window.
CountFires_NoCooldown(rule, window, now) ==
  [hits |-> <<>>, quiet_until |-> now + 1]

\* Mutant: the deque is left with a None in it.
CountFires_KeepsNone(rule, window, now) == [hits |-> <<Never>>, quiet_until |-> now + cooldown]

\* The burst is used up, and the rule goes quiet.
CountFires(rule, window, now) == [hits |-> <<>>, quiet_until |-> now + cooldown]

\* Mutant: the count is taken from before the record.
CountReached_OffByOne(rule, threshold, window, now) ==
  Len(HitsAt(rule, window, now)) > threshold

CountReached(rule, threshold, window, now) ==
  Len(HitsAt(rule, window, now)) >= threshold

FeedCount(rule, threshold, window, now) ==
  IF ~CoolingDown(rule, now) /\ CountReached(rule, threshold, window, now)
  THEN CountFires(rule, window, now)
  ELSE [rule EXCEPT !.hits = HitsAt(rule, window, now)]

----------------------------------------------------------------------------
\* KnownStringRule: any matching record fires, unless the rule is quiet.

FeedKnown(rule, now) ==
  IF CoolingDown(rule, now) THEN rule ELSE [rule EXCEPT !.quiet_until = now + cooldown]
=============================================================================
