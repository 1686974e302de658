-------------------------- MODULE LogWatcherProofs --------------------------
(***************************************************************************)
(* What LogWatcher's run checks of the rows, for every threshold, window,  *)
(* cooldown, number of lines and of lives.  The inductive invariant says   *)
(* what the rules know at each position of the two loops: the times in the *)
(* deque of the counting rule are those of different errors that this      *)
(* process has given it, and quiet_until covers every row of this life.    *)
(***************************************************************************)
EXTENDS LogWatcher, DetectionProofs, FiniteSetTheorems

\* The last line that the counting rule has been given.
Counted ==
  IF pc = "poll" THEN offset
  ELSE IF turn = 2 \/ pc = "open" THEN line ELSE line - 1

LogInOrder == \A i, j \in DOMAIN log : i <= j => log[i].at <= log[j].at

Position ==
  /\ pc = "poll" => line = offset /\ turn = 1
  /\ pc \in {"feed", "open"} => line > skipped
  /\ Running => life > 0

\* The j-th time in the deque is that of line f[j], an error this process has
\* read, and later times are those of later lines.
Behind(f, hits, n) ==
  /\ \A j \in 1..Len(hits) :
       /\ f[j] \in DOMAIN log /\ skipped < f[j] /\ f[j] <= n
       /\ Matches("error_burst", log[f[j]]) /\ hits[j] = log[f[j]].at
  /\ \A i, j \in 1..Len(hits) : i < j => f[i] < f[j]

Stand(hits, n) == \E f \in [1..Len(hits) -> Nat] : Behind(f, hits, n)

\* The deque holds errors of this process only, up to the last line it was given.
Deque == Running => Stand(rules[1].hits, Counted)

\* A rule that has a row of this life is quiet until a cooldown after it.
Quiet ==
  Running =>
    \A i \in DOMAIN rows, k \in DOMAIN RuleNames :
      rows[i].life = life /\ rows[i].rule = RuleNames[k] =>
        /\ rules[k].quiet_until # Never
        /\ log[rows[i].line].at + cooldown <= rules[k].quiet_until

\* The row about to be opened is due, and no row of this life is too near.
Pending ==
  pc = "open" =>
    /\ Due(RuleNames[turn], line, skipped)
    /\ rules[turn].quiet_until = log[line].at + cooldown
    /\ \A i \in DOMAIN rows :
         rows[i].life = life /\ rows[i].rule = RuleNames[turn] =>
           log[rows[i].line].at + cooldown <= log[line].at

IInv ==
  /\ TypeOK /\ LogInOrder /\ Position /\ Deque /\ Quiet /\ Pending
  /\ RowsAreDue /\ RowsAreSpaced

----------------------------------------------------------------------------
LEMMA Names ==
  /\ DOMAIN RuleNames = {1, 2} /\ Len(RuleNames) = 2
  /\ RuleNames[1] = "error_burst" /\ RuleNames[2] = "known_failure"
BY DEF RuleNames

LEMMA TypeFacts ==
  ASSUME TypeOK
  PROVE  /\ Len(log) \in Nat /\ DOMAIN log = 1..Len(log)
         /\ \A i \in 1..Len(log) : log[i].at \in Nat
         /\ offset \in Nat /\ line \in Nat /\ skipped \in Nat
         /\ skipped <= line /\ line <= offset /\ offset <= Len(log)
         /\ DOMAIN rules = {1, 2} /\ turn \in {1, 2}
         /\ \A k \in {1, 2} : /\ rules[k] = [hits |-> rules[k].hits,
                                             quiet_until |-> rules[k].quiet_until]
                              /\ rules[k].hits \in Seq(Nat)
                              /\ rules[k].quiet_until \in Nat \cup {Never}
         /\ Len(rows) \in Nat /\ DOMAIN rows = 1..Len(rows)
         /\ \A i \in 1..Len(rows) : /\ rows[i].rule \in {"error_burst", "known_failure"}
                                    /\ rows[i].line \in 1..Len(log)
                                    /\ rows[i].life \in 1..life
                                    /\ rows[i].skipped \in 0..Len(log)
<1>1. \A k \in {1, 2} : rules[k] \in [hits : Seq(Nat), quiet_until : Nat \cup {Never}]
  BY Names DEF TypeOK
<1>2. /\ Len(log) \in Nat /\ DOMAIN log = 1..Len(log)
      /\ \A i \in 1..Len(log) : log[i].at \in Nat
  <2> DEFINE Entry == [event : Events, at : Nat]
  <2>1. log \in Seq(Entry)
    BY DEF TypeOK
  <2>2. /\ Len(log) \in Nat /\ DOMAIN log = 1..Len(log)
        /\ \A i \in 1..Len(log) : log[i] \in Entry
    <3> HIDE DEF Entry
    <3> QED
      BY <2>1
  <2> QED
    BY <2>2
<1>3. /\ offset \in Nat /\ line \in Nat /\ skipped \in Nat
      /\ skipped <= line /\ line <= offset /\ offset <= Len(log)
  BY <1>2 DEF TypeOK
<1>4. DOMAIN rules = {1, 2} /\ turn \in {1, 2}
  BY Names DEF TypeOK
<1>5. \A k \in {1, 2} : /\ rules[k] = [hits |-> rules[k].hits,
                                       quiet_until |-> rules[k].quiet_until]
                        /\ rules[k].hits \in Seq(Nat)
                        /\ rules[k].quiet_until \in Nat \cup {Never}
  BY <1>1
<1>6. /\ Len(rows) \in Nat /\ DOMAIN rows = 1..Len(rows)
      /\ \A i \in 1..Len(rows) : /\ rows[i].rule \in {"error_burst", "known_failure"}
                                 /\ rows[i].line \in 1..Len(log)
                                 /\ rows[i].life \in 1..life
                                 /\ rows[i].skipped \in 0..Len(log)
  <2> DEFINE Row == [rule : {"error_burst", "known_failure"}, line : 1..Len(log),
                     life : 1..life, skipped : 0..Len(log)]
  <2>1. rows \in Seq(Row)
    BY DEF TypeOK
  <2>2. /\ Len(rows) \in Nat /\ DOMAIN rows = 1..Len(rows)
        /\ \A i \in 1..Len(rows) : rows[i] \in Row
    <3> HIDE DEF Row
    <3> QED
      BY <2>1
  <2> QED
    BY <2>2
<1> QED
  BY <1>2, <1>3, <1>4, <1>5, <1>6

\* A record changes quiet_until exactly if the rule fires on it.
LEMMA FedFacts ==
  ASSUME TypeOK, pc = "feed", line > skipped
  PROVE  LET now == log[line].at
             h == HitsAt(rules[1], window, now)
         IN  \/ /\ Fires /\ Fed.quiet_until = now + cooldown
                /\ Matches(RuleNames[turn], log[line])
                /\ rules[turn].quiet_until # Never => rules[turn].quiet_until <= now
                /\ turn = 1 => Len(h) >= threshold /\ Fed.hits = <<>>
                /\ turn = 2 => Fed.hits = rules[2].hits
             \/ /\ ~Fires /\ Fed.quiet_until = rules[turn].quiet_until
                /\ \/ Fed.hits = rules[turn].hits
                   \/ turn = 1 /\ Matches("error_burst", log[line]) /\ Fed.hits = h
<1> DEFINE now == log[line].at
           h == HitsAt(rules[1], window, now)
<1>1. now \in Nat /\ now + cooldown \in Nat /\ now + cooldown > now
  BY TypeFacts, CooldownAssumption
<1>2. /\ turn \in {1, 2} /\ rules[turn].quiet_until \in Nat \cup {Never}
      /\ rules[turn] = [hits |-> rules[turn].hits, quiet_until |-> rules[turn].quiet_until]
  BY TypeFacts
<1>3. ASSUME ~CoolingDown(rules[turn], now)
      PROVE  /\ rules[turn].quiet_until # now + cooldown
             /\ rules[turn].quiet_until # Never => rules[turn].quiet_until <= now
  BY <1>1, <1>2, <1>3, NeverAssumption DEF CoolingDown
<1>4. CASE ~Matches(RuleNames[turn], log[line])
  <2>1. Fed = rules[turn]
    BY <1>4 DEF Fed
  <2> QED
    BY <2>1 DEF Fires
<1>5. CASE Matches(RuleNames[turn], log[line]) /\ turn = 1
  <2>1. Fed = FeedCount(rules[1], threshold, window, now) /\ Matches("error_burst", log[line])
    BY <1>5, Names DEF Fed
  <2>2. CASE ~CoolingDown(rules[1], now) /\ Len(h) >= threshold
    <3>1. Fed = [hits |-> <<>>, quiet_until |-> now + cooldown]
      BY <2>1, <2>2 DEF FeedCount, CountFires, CountReached
    <3> QED
      BY <1>3, <1>5, <2>2, <3>1 DEF Fires
  <2>3. CASE ~(~CoolingDown(rules[1], now) /\ Len(h) >= threshold)
    <3>1. Fed = [rules[1] EXCEPT !.hits = h]
      BY <2>1, <2>3 DEF FeedCount, CountReached
    <3>2. Fed = [hits |-> h, quiet_until |-> rules[1].quiet_until]
      BY <1>2, <1>5, <3>1
    <3> QED
      BY <1>5, <2>1, <3>2 DEF Fires
  <2> QED
    BY <2>2, <2>3
<1>6. CASE Matches(RuleNames[turn], log[line]) /\ turn = 2
  <2>1. Fed = FeedKnown(rules[2], now)
    BY <1>6, Names DEF Fed
  <2>2. CASE ~CoolingDown(rules[2], now)
    <3>1. Fed = [rules[2] EXCEPT !.quiet_until = now + cooldown]
      BY <2>1, <2>2 DEF FeedKnown
    <3>2. Fed = [hits |-> rules[2].hits, quiet_until |-> now + cooldown]
      BY <1>2, <1>6, <3>1
    <3> QED
      BY <1>3, <1>6, <2>2, <3>2 DEF Fires
  <2>3. CASE CoolingDown(rules[2], now)
    <3>1. Fed = rules[2]
      BY <2>1, <2>3 DEF FeedKnown
    <3> QED
      BY <1>6, <3>1 DEF Fires
  <2> QED
    BY <2>2, <2>3
<1> QED
  BY <1>2, <1>4, <1>5, <1>6

LEMMA CountedFacts ==
  ASSUME TypeOK, Position, Running
  PROVE  Counted \in Nat /\ skipped <= Counted /\ Counted <= Len(log)
<1>1. pc \in {"poll", "feed", "open"}
  BY DEF TypeOK, Running
<1> QED
  BY <1>1, TypeFacts DEF Position, Counted

\* The log is as it was, up to what was appended.
LogExtends ==
  /\ Len(log') \in Nat /\ Len(log) <= Len(log') /\ DOMAIN log' = 1..Len(log')
  /\ \A i \in 1..Len(log) : log'[i] = log[i]

LEMMA DueKept ==
  ASSUME TypeOK, LogExtends, NEW rule, NEW n \in 1..Len(log), NEW s \in Nat, Due(rule, n, s)
  PROVE  Due(rule, n, s)'
<1>1. /\ Len(log) \in Nat /\ Len(log') \in Nat /\ Len(log) <= Len(log')
      /\ DOMAIN log = 1..Len(log) /\ DOMAIN log' = 1..Len(log')
      /\ \A i \in 1..Len(log) : log'[i] = log[i]
  BY TypeFacts DEF LogExtends
<1>2. Recent(n, s)' = Recent(n, s)
  <2>1. Recent(n, s)' = {i \in DOMAIN log' : /\ s < i /\ i <= n
                                             /\ Matches("error_burst", log'[i])
                                             /\ log'[n].at - log'[i].at <= window}
    BY DEF Recent, Matches
  <2>2. \A i : i \in DOMAIN log' /\ i <= n <=> i \in DOMAIN log /\ i <= n
    BY <1>1
  <2> QED
    BY <1>1, <2>1, <2>2 DEF Recent
<1>3. Due(rule, n, s)' <=> /\ n > s /\ Matches(rule, log'[n])
                           /\ rule = "error_burst" => Cardinality(Recent(n, s)') >= threshold
  BY DEF Due, Matches
<1> QED
  BY <1>1, <1>2, <1>3 DEF Due

LEMMA RowsKept ==
  ASSUME TypeOK, LogExtends, RowsAreDue, RowsAreSpaced, rows' = rows
  PROVE  RowsAreDue' /\ RowsAreSpaced'
<1>1. RowsAreDue'
  <2>1. SUFFICES ASSUME NEW i \in DOMAIN rows
                 PROVE  Due(rows[i].rule, rows[i].line, rows[i].skipped)'
    BY DEF RowsAreDue
  <2>2. rows[i].line \in 1..Len(log) /\ rows[i].skipped \in Nat
    BY TypeFacts
  <2>3. Due(rows[i].rule, rows[i].line, rows[i].skipped)
    BY DEF RowsAreDue
  <2>4. PICK rule \in {"error_burst", "known_failure"} : rule = rows[i].rule
    BY TypeFacts
  <2>5. PICK n \in 1..Len(log) : n = rows[i].line
    BY <2>2
  <2>6. PICK s \in Nat : s = rows[i].skipped
    BY <2>2
  <2>7. Due(rule, n, s)
    BY <2>3, <2>4, <2>5, <2>6
  <2>8. Due(rule, n, s)'
    BY <2>7, DueKept
  <2> QED
    BY <2>4, <2>5, <2>6, <2>8
<1>2. RowsAreSpaced'
  <2>1. \A i \in DOMAIN rows : log'[rows[i].line] = log[rows[i].line]
    BY TypeFacts DEF LogExtends
  <2> QED
    BY <2>1 DEF RowsAreSpaced
<1> QED
  BY <1>1, <1>2

\* Where the two loops go next: whatever the rule, `line` is the last line that
\* the counting rule has been given.
LEMMA NextTurnFacts ==
  ASSUME TypeOK, Position, pc \in {"feed", "open"}, NextTurn, UNCHANGED <<log, offset, life, skipped>>
  PROVE  /\ pc' \in {"feed", "poll", "done"} /\ turn' \in {1, 2}
         /\ line' \in skipped'..offset'
         /\ Position'
         /\ Running' => Counted' = line
<1>1. line > skipped /\ line \in Nat /\ skipped \in Nat /\ offset \in Nat /\ line <= offset
  BY TypeFacts DEF Position
<1>2. CASE turn = 1
  <2>1. turn' = 2 /\ pc' = "feed" /\ line' = line
    BY <1>2, Names DEF NextTurn, LastTurn
  <2> QED
    BY <1>1, <2>1 DEF Position, Counted, Running
<1>3. CASE turn # 1
  <2>1. turn = 2
    BY <1>3, TypeFacts
  <2>2. /\ turn' = 1
        /\ IF line < offset THEN line' = line + 1 /\ pc' = "feed"
           ELSE line' = line /\ pc' = AfterLast
    BY <2>1, Names DEF NextTurn, LastTurn
  <2>3. CASE line < offset
    BY <1>1, <2>2, <2>3 DEF Position, Counted, Running
  <2>4. CASE ~(line < offset)
    <3>1. line = offset
      BY <1>1, <2>4
    <3> QED
      BY <1>1, <2>2, <3>1 DEF Position, Counted, Running, AfterLast
  <2> QED
    BY <2>3, <2>4
<1> QED
  BY <1>2, <1>3

----------------------------------------------------------------------------
LEMMA InitHolds == Init => IInv
<1>1. SUFFICES ASSUME Init  PROVE IInv
  OBVIOUS
<1>2. /\ log = <<>> /\ rows = <<>> /\ pc = "stopped" /\ turn = 1
      /\ offset = 0 /\ line = 0 /\ skipped = 0 /\ life = 0 /\ Len(log) = 0
      /\ DOMAIN log = {} /\ DOMAIN rows = {}
  BY <1>1 DEF Init
<1>3. rules = [k \in {1, 2} |-> [hits |-> <<>>, quiet_until |-> Never]]
  BY <1>1, Names DEF Init, NewRules, NewRule
<1>4. TypeOK
  <2>1. rules \in [DOMAIN RuleNames -> [hits : Seq(Nat), quiet_until : Nat \cup {Never}]]
    BY <1>3, Names
  <2> QED
    BY <1>1, <1>2, <2>1, Names, BoundsAssumption DEF Init, TypeOK
<1>5. LogInOrder /\ Position /\ Deque /\ Quiet /\ Pending /\ RowsAreDue /\ RowsAreSpaced
  BY <1>2 DEF LogInOrder, Position, Deque, Quiet, Pending, RowsAreDue, RowsAreSpaced, Running
<1> QED
  BY <1>4, <1>5 DEF IInv

LEMMA LogLineKeeps == IInv /\ LogLine => IInv'
<1>1. SUFFICES ASSUME IInv, LogLine  PROVE IInv'
  OBVIOUS
<1>2. PICK event \in Events, gap \in 0..MaxGap :
        log' = Append(log, [event |-> event, at |-> LastTime + gap])
  BY <1>1 DEF LogLine
<1>3. /\ TypeOK /\ LogInOrder /\ Position /\ Deque /\ Quiet /\ Pending
      /\ RowsAreDue /\ RowsAreSpaced
  BY <1>1 DEF IInv
<1>4. /\ pc' = pc /\ mode' = mode /\ dry_run' = dry_run /\ rules' = rules
      /\ offset' = offset /\ line' = line /\ turn' = turn
      /\ rows' = rows /\ life' = life /\ skipped' = skipped
  BY <1>1 DEF LogLine, processVars
<1>5. /\ Len(log) \in Nat /\ DOMAIN log = 1..Len(log)
      /\ \A i \in 1..Len(log) : log[i].at \in Nat
  BY <1>3, TypeFacts
<1>6. /\ LastTime \in Nat /\ LastTime + gap \in Nat
      /\ log # <<>> => LastTime = log[Len(log)].at
  BY <1>5, BoundsAssumption DEF LastTime
<1>7. /\ log' \in Seq([event : Events, at : Nat])
      /\ Len(log') = Len(log) + 1 /\ DOMAIN log' = 1..(Len(log) + 1)
      /\ \A i \in 1..Len(log) : log'[i] = log[i]
      /\ log'[Len(log) + 1].at = LastTime + gap
  <2> DEFINE Entry == [event : Events, at : Nat]
             new == [event |-> event, at |-> LastTime + gap]
  <2>1. log \in Seq(Entry) /\ new \in Entry /\ new.at = LastTime + gap
    BY <1>3, <1>6 DEF TypeOK
  <2> HIDE DEF Entry, new
  <2>2. /\ Append(log, new) \in Seq(Entry) /\ Len(Append(log, new)) = Len(log) + 1
        /\ DOMAIN Append(log, new) = 1..(Len(log) + 1)
        /\ \A i \in 1..Len(log) : Append(log, new)[i] = log[i]
        /\ Append(log, new)[Len(log) + 1] = new
    BY <2>1
  <2> QED
    BY <1>2, <2>1, <2>2 DEF Entry, new
<1>8. LogExtends
  BY <1>5, <1>7 DEF LogExtends
<1>9. TypeOK'
  <2>1. rows' \in Seq([rule : {"error_burst", "known_failure"}, line : 1..Len(log'),
                       life : 1..life', skipped : 0..Len(log')])
    <3> DEFINE Old == [rule : {"error_burst", "known_failure"}, line : 1..Len(log),
                       life : 1..life, skipped : 0..Len(log)]
               New == [rule : {"error_burst", "known_failure"}, line : 1..Len(log'),
                       life : 1..life', skipped : 0..Len(log')]
    <3>1. Old \subseteq New
      BY <1>4, <1>5, <1>7
    <3>2. rows \in Seq(Old)
      BY <1>3 DEF TypeOK
    <3> HIDE DEF Old, New
    <3>3. rows \in Seq(New)
      BY <3>1, <3>2
    <3> QED
      BY <1>4, <3>3 DEF New
  <2>2. skipped' \in 0..Len(log') /\ offset' \in skipped'..Len(log') /\ line' \in skipped'..offset'
    BY <1>3, <1>4, <1>7, TypeFacts
  <2>3. /\ pc' \in {"stopped", "poll", "feed", "open", "done"}
        /\ mode' \in Modes /\ dry_run' \in DryRunModes
        /\ rules' \in [DOMAIN RuleNames -> [hits : Seq(Nat), quiet_until : Nat \cup {Never}]]
        /\ turn' \in DOMAIN RuleNames /\ life' \in 0..MaxLives
    BY <1>3, <1>4 DEF TypeOK
  <2> QED
    BY <1>7, <2>1, <2>2, <2>3 DEF TypeOK
<1>10. LogInOrder'
  <2>1. SUFFICES ASSUME NEW i \in 1..(Len(log) + 1), NEW j \in 1..(Len(log) + 1), i <= j
                 PROVE  log'[i].at <= log'[j].at
    BY <1>7 DEF LogInOrder
  <2>2. CASE j # Len(log) + 1
    <3>1. i \in 1..Len(log) /\ j \in 1..Len(log)
      BY <1>5, <2>1, <2>2
    <3>2. log[i].at <= log[j].at
      BY <1>3, <1>5, <2>1, <3>1 DEF LogInOrder
    <3> QED
      BY <1>7, <3>1, <3>2
  <2>3. CASE i = Len(log) + 1
    BY <1>6, <1>7, <2>1, <2>3
  <2>4. CASE i # Len(log) + 1 /\ j = Len(log) + 1
    <3>1. i \in 1..Len(log) /\ Len(log) \in 1..Len(log) /\ log # <<>>
      BY <1>5, <2>4
    <3>2. log[i].at <= log[Len(log)].at
      BY <1>3, <1>5, <3>1 DEF LogInOrder
    <3>3. log'[i].at <= LastTime /\ LastTime <= LastTime + gap
      BY <1>5, <1>6, <1>7, <3>1, <3>2, BoundsAssumption
    <3> QED
      BY <1>5, <1>6, <1>7, <2>4, <3>1, <3>3
  <2> QED
    BY <2>2, <2>3, <2>4
<1>11. Position'
  BY <1>3, <1>4 DEF Position, Running
<1>12. Deque'
  <2>1. SUFFICES ASSUME Running  PROVE Stand(rules[1].hits, Counted)'
    BY <1>4 DEF Deque, Running
  <2>2. PICK f \in [1..Len(rules[1].hits) -> Nat] : Behind(f, rules[1].hits, Counted)
    BY <1>3, <2>1 DEF Deque, Stand
  <2>3. \A j \in 1..Len(rules[1].hits) :
          f[j] \in DOMAIN log' /\ log'[f[j]] = log[f[j]]
    BY <1>5, <1>7, <2>2 DEF Behind
  <2>4. rules'[1].hits = rules[1].hits /\ Counted' = Counted /\ skipped' = skipped
    BY <1>4 DEF Counted
  <2> QED
    BY <2>2, <2>3, <2>4 DEF Stand, Behind
<1>13. Quiet' /\ Pending'
  <2>1. \A i \in DOMAIN rows : log'[rows[i].line] = log[rows[i].line]
    BY <1>3, <1>7, TypeFacts
  <2>2. Quiet'
    BY <1>3, <1>4, <2>1 DEF Quiet, Running
  <2>3. ASSUME pc = "open"
        PROVE  line \in 1..Len(log) /\ Due(RuleNames[turn], line, skipped)'
    <3>1. line \in 1..Len(log) /\ skipped \in Nat
      BY <1>3, <2>3, TypeFacts DEF Position
    <3>2. PICK rule \in {"error_burst", "known_failure"} : rule = RuleNames[turn]
      BY <1>3, TypeFacts, Names
    <3>3. PICK n \in 1..Len(log), s \in Nat : n = line /\ s = skipped
      BY <3>1
    <3>4. Due(rule, n, s)
      BY <1>3, <2>3, <3>2, <3>3 DEF Pending
    <3>5. Due(rule, n, s)'
      BY <1>3, <1>8, <3>4, DueKept
    <3>6. RuleNames[turn'] = rule /\ n = line' /\ s = skipped'
      BY <1>4, <3>2, <3>3
    <3> QED
      BY <3>1, <3>5, <3>6
  <2>4. Pending'
    BY <1>3, <1>4, <1>7, <2>1, <2>3 DEF Pending
  <2> QED
    BY <2>2, <2>4
<1>14. RowsAreDue' /\ RowsAreSpaced'
  BY <1>3, <1>4, <1>8, RowsKept
<1> QED
  BY <1>9, <1>10, <1>11, <1>12, <1>13, <1>14 DEF IInv

LEMMA NewRulesType ==
  /\ NewRules \in [DOMAIN RuleNames -> [hits : Seq(Nat), quiet_until : Nat \cup {Never}]]
  /\ NewRules[1].hits = <<>>
BY Names DEF NewRules, NewRule

LEMMA EmptyStands ==
  ASSUME rules'[1].hits = <<>>
  PROVE  Stand(rules[1].hits, Counted)'
<1>1. Len(<<>>) = 0 /\ 1..0 = {}
  OBVIOUS
<1>2. [j \in {} |-> 0] \in [{} -> Nat]
  OBVIOUS
<1> QED
  BY <1>1, <1>2 DEF Stand, Behind

LEMMA StartKeeps == IInv /\ Start => IInv'
<1>1. SUFFICES ASSUME IInv, Start  PROVE IInv'
  OBVIOUS
<1>2. /\ TypeOK /\ LogInOrder /\ RowsAreDue /\ RowsAreSpaced
  BY <1>1 DEF IInv
<1>3. /\ log' = log /\ rows' = rows /\ pc' = "poll" /\ rules' = NewRules
      /\ life' = life + 1 /\ life < MaxLives /\ turn' = 1
      /\ offset' = skipped' /\ line' = skipped' /\ skipped' \in {Len(log), 0}
      /\ mode' \in Modes /\ dry_run' \in DryRunModes
  BY <1>1 DEF Start, RulesAtStart
<1>4. Len(log) \in Nat /\ life \in Nat /\ life + 1 \in 0..MaxLives /\ skipped' \in 0..Len(log)
  BY <1>2, <1>3, TypeFacts, BoundsAssumption DEF TypeOK
<1>5. TypeOK'
  <2>1. rows \in Seq([rule : {"error_burst", "known_failure"}, line : 1..Len(log),
                      life : 1..(life + 1), skipped : 0..Len(log)])
    <3> DEFINE Old == [rule : {"error_burst", "known_failure"}, line : 1..Len(log),
                       life : 1..life, skipped : 0..Len(log)]
               New == [rule : {"error_burst", "known_failure"}, line : 1..Len(log),
                       life : 1..(life + 1), skipped : 0..Len(log)]
    <3>1. Old \subseteq New
      BY <1>4
    <3>2. rows \in Seq(Old)
      BY <1>2 DEF TypeOK
    <3> HIDE DEF Old, New
    <3>3. rows \in Seq(New)
      BY <3>1, <3>2
    <3> QED
      BY <3>3 DEF New
  <2>2. offset' \in skipped'..Len(log) /\ line' \in skipped'..offset'
    BY <1>3, <1>4
  <2>3. log \in Seq([event : Events, at : Nat]) /\ turn' \in DOMAIN RuleNames
    BY <1>2, <1>3, Names DEF TypeOK
  <2> QED
    BY <1>3, <1>4, <2>1, <2>2, <2>3, NewRulesType DEF TypeOK
<1>6. LogInOrder' /\ Position' /\ Pending'
  BY <1>2, <1>3, <1>4 DEF LogInOrder, Position, Pending
<1>7. Deque'
  <2>1. rules'[1].hits = <<>>
    BY <1>3, NewRulesType
  <2> QED
    BY <2>1, EmptyStands DEF Deque
<1>8. Quiet'
  <2>1. \A i \in DOMAIN rows : rows[i].life # life'
    BY <1>2, <1>3, <1>4, TypeFacts
  <2> QED
    BY <1>3, <2>1 DEF Quiet
<1>9. RowsAreDue' /\ RowsAreSpaced'
  BY <1>2, <1>3, <1>4, RowsKept DEF LogExtends
<1> QED
  BY <1>5, <1>6, <1>7, <1>8, <1>9 DEF IInv

LEMMA DieKeeps == IInv /\ Die => IInv'
<1>1. SUFFICES ASSUME IInv, Die  PROVE IInv'
  OBVIOUS
<1>2. /\ TypeOK /\ LogInOrder /\ RowsAreDue /\ RowsAreSpaced
  BY <1>1 DEF IInv
<1>3. /\ log' = log /\ rows' = rows /\ pc' = "stopped" /\ rules' = NewRules
      /\ life' = life /\ turn' = 1 /\ offset' = 0 /\ line' = 0 /\ skipped' = 0
      /\ mode' = mode /\ dry_run' = dry_run /\ Len(log) \in Nat
  BY <1>1, <1>2, TypeFacts DEF Die
<1>4. TypeOK'
  BY <1>2, <1>3, NewRulesType, Names DEF TypeOK
<1>5. LogInOrder' /\ Position' /\ Deque' /\ Quiet' /\ Pending'
  BY <1>2, <1>3 DEF LogInOrder, Position, Deque, Quiet, Pending, Running
<1>6. RowsAreDue' /\ RowsAreSpaced'
  BY <1>2, <1>3, RowsKept DEF LogExtends
<1> QED
  BY <1>4, <1>5, <1>6 DEF IInv

LEMMA PollKeeps == IInv /\ Poll => IInv'
<1>1. SUFFICES ASSUME IInv, Poll  PROVE IInv'
  OBVIOUS
<1>2. /\ TypeOK /\ LogInOrder /\ Position /\ Deque /\ Quiet /\ RowsAreDue /\ RowsAreSpaced
  BY <1>1 DEF IInv
<1>3. /\ log' = log /\ rows' = rows /\ rules' = rules /\ life' = life /\ skipped' = skipped
      /\ mode' = mode /\ dry_run' = dry_run /\ pc = "poll"
  BY <1>1 DEF Poll
<1>4. /\ line = offset /\ turn = 1 /\ offset \in Nat /\ skipped \in Nat /\ skipped <= offset
      /\ offset <= Len(log) /\ Len(log) \in Nat
  BY <1>2, <1>3, TypeFacts DEF Position
<1>5. /\ pc' \in {"feed", "poll", "done"} /\ turn' = 1
      /\ line' \in skipped..offset' /\ offset' \in skipped..Len(log)
      /\ pc' = "feed" => line' > skipped /\ line' = offset + 1
      /\ pc' # "feed" => line' = offset /\ offset' = offset
  <2>1. CASE Len(log) > offset
    BY <1>1, <1>4, <2>1 DEF Poll
  <2>2. CASE ~(Len(log) > offset)
    <3>1. pc' \in {"poll", "done"} /\ offset' = offset /\ line' = line /\ turn' = turn
      BY <1>1, <2>2 DEF Poll, AfterLast
    <3> QED
      BY <1>4, <3>1
  <2> QED
    BY <2>1, <2>2
<1>6. TypeOK'
  BY <1>2, <1>3, <1>5, Names DEF TypeOK
<1>7. LogInOrder' /\ Position' /\ Quiet' /\ Pending'
  BY <1>2, <1>3, <1>5 DEF LogInOrder, Position, Quiet, Pending, Running
<1>8. Deque'
  <2>1. Counted = offset
    BY <1>3 DEF Counted
  <2>2. CASE Running'
    <3>1. Counted' = Counted
      <4>1. CASE pc' = "feed"
        BY <1>4, <1>5, <2>1, <4>1 DEF Counted
      <4>2. CASE pc' = "poll"
        BY <1>5, <2>1, <4>2 DEF Counted
      <4> QED
        BY <1>5, <2>2, <4>1, <4>2 DEF Running
    <3>2. Stand(rules[1].hits, Counted)
      BY <1>2, <1>3 DEF Deque, Running
    <3> QED
      BY <1>3, <3>1, <3>2 DEF Deque, Stand, Behind
  <2>3. CASE ~Running'
    BY <2>3 DEF Deque
  <2> QED
    BY <2>2, <2>3
<1>9. RowsAreDue' /\ RowsAreSpaced'
  BY <1>2, <1>3, <1>4, RowsKept DEF LogExtends
<1> QED
  BY <1>6, <1>7, <1>8, <1>9 DEF IInv

\* An error more: what is left of the deque stands for errors up to this one,
\* all of them in the window.
LEMMA DequeGrows ==
  ASSUME TypeOK, LogInOrder, line \in 1..Len(log), skipped < line,
         Matches("error_burst", log[line]),
         NEW hits \in Seq(Nat), Stand(hits, line - 1)
  PROVE  LET now == log[line].at
             h == Aged(Append(hits, now), now - window)
         IN  /\ h \in Seq(Nat)
             /\ \E g \in [1..Len(h) -> Nat] :
                  Behind(g, h, line) /\ \A j \in 1..Len(h) : h[j] >= now - window
<1> DEFINE now == log[line].at
           a == Append(hits, now)
           c == now - window
           h == Aged(a, c)
<1>1. /\ Len(log) \in Nat /\ DOMAIN log = 1..Len(log) /\ skipped \in Nat
      /\ \A i \in 1..Len(log) : log[i].at \in Nat
      /\ window \in Nat /\ line \in Nat /\ now \in Nat
  BY TypeFacts, RuleAssumption, CooldownAssumption
<1>2. PICK f \in [1..Len(hits) -> Nat] : Behind(f, hits, line - 1)
  BY DEF Stand
<1>3. /\ a \in Seq(Nat) /\ a \in Seq(Int) /\ Len(a) = Len(hits) + 1 /\ Len(hits) \in Nat
      /\ a[Len(a)] = now /\ \A j \in 1..Len(hits) : a[j] = hits[j]
  BY <1>1
<1>4. c \in Int /\ now >= c
  BY <1>1
<1> DEFINE g == [j \in 1..Len(a) |-> IF j = Len(a) THEN line ELSE f[j]]
<1>5. Behind(g, a, line)
  <2>1. ASSUME NEW j \in 1..Len(a)
        PROVE  /\ j = Len(a) => g[j] = line /\ a[j] = now
               /\ j # Len(a) => j \in 1..Len(hits) /\ g[j] = f[j] /\ a[j] = hits[j]
    <3> HIDE DEF a, now
    <3> QED
      BY <1>3, <2>1
  <2>2. ASSUME NEW j \in 1..Len(hits)
        PROVE  /\ f[j] \in 1..Len(log) /\ skipped < f[j] /\ f[j] < line
               /\ Matches("error_burst", log[f[j]]) /\ hits[j] = log[f[j]].at
    <3>1. /\ f[j] \in 1..Len(log) /\ skipped < f[j] /\ f[j] <= line - 1
          /\ Matches("error_burst", log[f[j]]) /\ hits[j] = log[f[j]].at
      BY <1>1, <1>2, <2>2 DEF Behind
    <3>2. \A x, y \in Nat : x <= y - 1 => x < y
      OBVIOUS
    <3> QED
      BY <1>1, <3>1, <3>2
  <2>3. \A i, j \in 1..Len(hits) : i < j => f[i] < f[j]
    BY <1>2 DEF Behind
  <2> HIDE DEF a, g
  <2>4. ASSUME NEW j \in 1..Len(a)
        PROVE  /\ g[j] \in DOMAIN log /\ skipped < g[j] /\ g[j] <= line
               /\ j # Len(a) => g[j] < line
               /\ Matches("error_burst", log[g[j]]) /\ a[j] = log[g[j]].at
    <3>1. CASE j = Len(a)
      BY <1>1, <2>1, <3>1 DEF now
    <3>2. CASE j # Len(a)
      <4>1. j \in 1..Len(hits) /\ g[j] = f[j] /\ a[j] = hits[j]
        BY <2>1, <3>2
      <4>2. f[j] <= line
        BY <1>1, <2>2, <4>1
      <4> QED
        BY <1>1, <2>2, <4>1, <4>2
    <3> QED
      BY <3>1, <3>2
  <2>5. ASSUME NEW i \in 1..Len(a), NEW j \in 1..Len(a), i < j  PROVE g[i] < g[j]
    <3>1. i # Len(a)
      BY <1>3, <2>5
    <3>2. CASE j = Len(a)
      BY <2>1, <2>4, <3>1, <3>2
    <3>3. CASE j # Len(a)
      BY <2>1, <2>3, <2>5, <3>1, <3>3
    <3> QED
      BY <3>2, <3>3
  <2> QED
    BY <2>4, <2>5 DEF Behind
<1>6. PICK k \in 1..Len(a) :
        /\ h \in Seq(Int) /\ Len(h) = Len(a) - k + 1
        /\ \A j \in 1..Len(h) : h[j] = a[k + j - 1]
        /\ a[k] >= c
  <2> HIDE DEF a, c, now
  <2>1. Len(a) > 0 /\ a[Len(a)] >= c
    BY <1>3, <1>4
  <2> QED
    BY <1>3, <1>4, <2>1, AgedFacts
<1> DEFINE e == [j \in 1..Len(h) |-> g[k + j - 1]]
<1> HIDE DEF a, c, h, g, now
<1>7. \A j \in 1..Len(h) : k + j - 1 \in 1..Len(a) /\ k + j - 1 >= k
  BY <1>3, <1>6
<1>8. Behind(e, h, line)
  <2>1. \A j \in 1..Len(h) :
          /\ e[j] \in DOMAIN log /\ skipped < e[j] /\ e[j] <= line
          /\ Matches("error_burst", log[e[j]]) /\ h[j] = log[e[j]].at
    BY <1>5, <1>6, <1>7 DEF Behind
  <2>2. ASSUME NEW i \in 1..Len(h), NEW j \in 1..Len(h), i < j  PROVE e[i] < e[j]
    <3>1. k + i - 1 < k + j - 1
      BY <1>6, <2>2
    <3> QED
      BY <1>5, <1>7, <3>1 DEF Behind
  <2> HIDE DEF e
  <2> QED
    BY <2>1, <2>2 DEF Behind
<1>9. e \in [1..Len(h) -> Nat]
  <2>1. \A j \in 1..Len(h) : g[k + j - 1] \in Nat
    BY <1>1, <1>5, <1>7 DEF Behind
  <2> QED
    BY <2>1
<1>10. h \in Seq(Nat)
  <2>1. \A j \in 1..Len(h) : h[j] \in Nat
    BY <1>1, <1>8 DEF Behind
  <2>2. PICK t \in Seq(Int) : t = h
    BY <1>6
  <2>3. t \in [1..Len(t) -> Nat] /\ Len(t) \in Nat
    BY <2>1, <2>2
  <2>4. \A n \in Nat : \A u \in [1..n -> Nat] : u \in Seq(Nat)
    OBVIOUS
  <2> QED
    BY <2>2, <2>3, <2>4
<1>11. ASSUME NEW j \in 1..Len(h)  PROVE h[j] >= c
  <2>1. h[j] = log[g[k + j - 1]].at /\ a[k] = log[g[k]].at
    BY <1>5, <1>6, <1>7 DEF Behind
  <2>2. /\ g[k] \in 1..Len(log) /\ g[k + j - 1] \in 1..Len(log)
        /\ k # k + j - 1 => g[k] < g[k + j - 1]
    <3>1. k # k + j - 1 => k < k + j - 1
      BY <1>6, <1>7, <1>11
    <3> QED
      BY <1>1, <1>5, <1>7, <3>1 DEF Behind
  <2>3. g[k] <= g[k + j - 1]
    <3>1. CASE k = k + j - 1
      BY <1>1, <2>2, <3>1
    <3>2. CASE k # k + j - 1
      BY <1>1, <2>2, <3>2
    <3> QED
      BY <3>1, <3>2
  <2>4. log[g[k]].at <= log[g[k + j - 1]].at
    BY <1>1, <2>2, <2>3 DEF LogInOrder
  <2>5. h[j] \in Int /\ a[k] \in Int /\ a[k] <= h[j] /\ a[k] >= c
    <3>1. log[g[k]].at \in Nat /\ log[g[k + j - 1]].at \in Nat
      BY <1>1, <2>2
    <3>2. PICK x, y \in Nat : x = log[g[k]].at /\ y = log[g[k + j - 1]].at
      BY <3>1
    <3>3. h[j] = y /\ a[k] = x /\ x <= y
      BY <2>1, <2>4, <3>2
    <3> QED
      BY <1>6, <3>3
  <2>6. \A x, y, z \in Int : x >= z /\ x <= y => y >= z
    OBVIOUS
  <2> QED
    BY <1>4, <2>5, <2>6
<1>12. \E u \in [1..Len(h) -> Nat] : Behind(u, h, line) /\ \A j \in 1..Len(h) : h[j] >= c
  <2> HIDE DEF e
  <2> QED
    BY <1>8, <1>9, <1>11
<1> QED
  BY <1>10, <1>12 DEF a, c, h, now

\* What a record does to the rules, and what it means if the rule fires.
LEMMA FeedRules ==
  ASSUME IInv, pc = "feed", rules' = [rules EXCEPT ![turn] = Fed]
  PROVE  /\ rules' \in [DOMAIN RuleNames -> [hits : Seq(Nat), quiet_until : Nat \cup {Never}]]
         /\ Stand(rules'[1].hits, line)
         /\ \A k \in {1, 2} : rules[k].quiet_until # Never =>
              rules'[k].quiet_until # Never /\ rules[k].quiet_until <= rules'[k].quiet_until
         /\ Fires => /\ Due(RuleNames[turn], line, skipped)
                     /\ rules'[turn].quiet_until = log[line].at + cooldown
                     /\ rules[turn].quiet_until # Never =>
                          rules[turn].quiet_until <= log[line].at
<1> DEFINE now == log[line].at
           h == HitsAt(rules[1], window, now)
<1>1. TypeOK /\ LogInOrder /\ Position /\ Deque
  BY DEF IInv
<1>2. /\ line \in 1..Len(log) /\ skipped < line /\ Len(log) \in Nat /\ skipped \in Nat
      /\ DOMAIN log = 1..Len(log) /\ \A i \in 1..Len(log) : log[i].at \in Nat
      /\ turn \in {1, 2} /\ DOMAIN rules = {1, 2}
      /\ cooldown \in Nat /\ now \in Nat /\ window \in Nat /\ threshold \in Nat \ {0}
  <2>1. /\ Len(log) \in Nat /\ skipped \in Nat /\ DOMAIN log = 1..Len(log)
        /\ \A i \in 1..Len(log) : log[i].at \in Nat
        /\ turn \in {1, 2} /\ DOMAIN rules = {1, 2}
    BY <1>1, TypeFacts
  <2>2. line \in 1..Len(log) /\ skipped < line
    BY <1>1, TypeFacts DEF Position
  <2>3. cooldown \in Nat /\ window \in Nat /\ threshold \in Nat \ {0}
    BY CooldownAssumption, RuleAssumption
  <2> QED
    BY <2>1, <2>2, <2>3
<1>3. \A k \in {1, 2} : /\ rules[k].hits \in Seq(Nat)
                        /\ rules[k].quiet_until \in Nat \cup {Never}
                        /\ rules[k] \in [hits : Seq(Nat), quiet_until : Nat \cup {Never}]
  BY <1>1, TypeFacts, Names DEF TypeOK
<1>4. \/ /\ Fires /\ Fed.quiet_until = now + cooldown
         /\ Matches(RuleNames[turn], log[line])
         /\ rules[turn].quiet_until # Never => rules[turn].quiet_until <= now
         /\ turn = 1 => Len(h) >= threshold /\ Fed.hits = <<>>
         /\ turn = 2 => Fed.hits = rules[2].hits
      \/ /\ ~Fires /\ Fed.quiet_until = rules[turn].quiet_until
         /\ \/ Fed.hits = rules[turn].hits
            \/ turn = 1 /\ Matches("error_burst", log[line]) /\ Fed.hits = h
  BY <1>1, <1>2, FedFacts
<1>5. rules'[turn] = Fed /\ \A k \in {1, 2} : k # turn => rules'[k] = rules[k]
  BY <1>2
<1> HIDE DEF now, h
<1>6. ASSUME turn = 1, Matches("error_burst", log[line])
      PROVE  /\ h \in Seq(Nat) /\ Stand(h, line)
             /\ Len(h) >= threshold => Due("error_burst", line, skipped)
  <2>1. PICK hits \in Seq(Nat) : hits = rules[1].hits
    BY <1>3
  <2>2. Counted = line - 1
    BY <1>6 DEF Counted
  <2>3. Stand(hits, line - 1)
    BY <1>1, <2>1, <2>2 DEF Deque, Running
  <2>4. h \in Seq(Nat) /\ \E g \in [1..Len(h) -> Nat] :
          Behind(g, h, line) /\ \A j \in 1..Len(h) : h[j] >= now - window
    <3>1. h = Aged(Append(hits, now), now - window)
      BY <2>1 DEF h, HitsAt
    <3> QED
      BY <1>1, <1>2, <1>6, <2>3, <3>1, DequeGrows DEF now
  <2>5. Len(h) \in Nat
    BY <2>4
  <2>6. ASSUME Len(h) >= threshold  PROVE Due("error_burst", line, skipped)
    <3>1. PICK g \in [1..Len(h) -> Nat] :
            Behind(g, h, line) /\ \A j \in 1..Len(h) : h[j] >= now - window
      BY <2>4
    <3>2. \A j \in 1..Len(h) : now - log[g[j]].at <= window
      <4>1. \A j \in 1..Len(h) : log[g[j]].at \in Nat /\ log[g[j]].at >= now - window
        BY <1>2, <3>1 DEF Behind
      <4>2. \A t \in Nat : t >= now - window => now - t <= window
        BY <1>2
      <4> QED
        BY <4>1, <4>2
    <3>3. \A j \in 1..Len(h) : g[j] \in Recent(line, skipped)
      BY <3>1, <3>2 DEF Behind, Recent, now
    <3>4. \A i, j \in 1..Len(h) : g[i] = g[j] => i = j
      <4>1. \A i, j \in 1..Len(h) : (i < j => g[i] < g[j]) /\ g[i] \in Nat
        BY <3>1 DEF Behind
      <4> QED
        BY <2>5, <4>1
    <3>5. g \in Injection(1..Len(h), Recent(line, skipped))
      <4>1. g \in [1..Len(h) -> Recent(line, skipped)]
        BY <3>1, <3>3
      <4> QED
        BY <3>4, <4>1 DEF Injection, IsInjective
    <3>6. IsFiniteSet(Recent(line, skipped)) /\ Cardinality(Recent(line, skipped)) \in Nat
      <4>1. Recent(line, skipped) \subseteq 1..Len(log) /\ IsFiniteSet(1..Len(log))
        BY <1>2, FS_Interval DEF Recent
      <4> QED
        BY <4>1, FS_Subset, FS_CardinalityType
    <3>7. Cardinality(1..Len(h)) = Len(h)
      <4>1. PICK m \in Nat : m = Len(h)
        BY <2>5
      <4>2. 1 \in Int /\ m \in Int /\ m - 1 + 1 = m /\ (1 > m => m = 0)
        OBVIOUS
      <4>3. Cardinality(1..m) = m
        BY <4>2, FS_Interval
      <4> QED
        BY <4>1, <4>3
    <3>8. Cardinality(1..Len(h)) <= Cardinality(Recent(line, skipped))
      BY <3>5, <3>6, FS_Injection
    <3>9. Cardinality(Recent(line, skipped)) >= threshold
      <4>1. \A a, b, c \in Nat : b >= a /\ b <= c => c >= a
        OBVIOUS
      <4> QED
        BY <1>2, <2>5, <2>6, <3>6, <3>7, <3>8, <4>1
    <3> QED
      BY <1>2, <1>6, <3>9 DEF Due
  <2> QED
    BY <2>4, <2>6 DEF Stand
<1>7. Fed.hits \in Seq(Nat) /\ Fed.quiet_until \in Nat \cup {Never}
  <2>1. now + cooldown \in Nat /\ rules[turn].quiet_until \in Nat \cup {Never}
    BY <1>2, <1>3
  <2>2. Fed.quiet_until \in Nat \cup {Never}
    BY <1>4, <2>1
  <2>3. <<>> \in Seq(Nat) /\ rules[turn].hits \in Seq(Nat) /\ rules[2].hits \in Seq(Nat)
    BY <1>2, <1>3
  <2>4. CASE Fed.hits = h /\ turn = 1 /\ Matches("error_burst", log[line])
    BY <1>6, <2>2, <2>4
  <2>5. CASE Fed.hits \in {<<>>, rules[turn].hits, rules[2].hits}
    BY <2>2, <2>3, <2>5
  <2> QED
    BY <1>2, <1>4, <2>4, <2>5
<1>8. DOMAIN Fed = {"hits", "quiet_until"} /\ Fed = [hits |-> Fed.hits, quiet_until |-> Fed.quiet_until]
  <2>1. rules[turn] = [hits |-> rules[turn].hits, quiet_until |-> rules[turn].quiet_until]
    BY <1>1, TypeFacts
  <2> QED
    BY <2>1, Names, <1>2 DEF Fed, FeedCount, FeedKnown, CountFires
<1>9. rules' \in [DOMAIN RuleNames -> [hits : Seq(Nat), quiet_until : Nat \cup {Never}]]
  <2>1. Fed \in [hits : Seq(Nat), quiet_until : Nat \cup {Never}]
    BY <1>7, <1>8
  <2>2. rules \in [{1, 2} -> [hits : Seq(Nat), quiet_until : Nat \cup {Never}]]
    BY <1>1, Names DEF TypeOK
  <2> QED
    BY <1>2, <2>1, <2>2, Names
<1>10. Stand(rules'[1].hits, line)
  <2>1. CASE turn = 1
    <3>1. CASE Fires
      <4>1. rules'[1].hits = <<>>
        BY <1>4, <1>5, <2>1, <3>1
      <4>2. Len(<<>>) = 0 /\ 1..0 = {} /\ [j \in {} |-> 0] \in [{} -> Nat]
        OBVIOUS
      <4> QED
        BY <4>1, <4>2 DEF Stand, Behind
    <3>2. CASE ~Fires /\ Fed.hits = rules[1].hits
      <4>1. Counted = line - 1
        BY <2>1 DEF Counted
      <4>2. PICK f \in [1..Len(rules[1].hits) -> Nat] : Behind(f, rules[1].hits, line - 1)
        BY <1>1, <4>1 DEF Deque, Stand, Running
      <4>3. Behind(f, rules[1].hits, line)
        BY <1>2, <4>2 DEF Behind
      <4> QED
        BY <1>5, <2>1, <3>2, <4>3 DEF Stand
    <3>3. CASE ~Fires /\ Matches("error_burst", log[line]) /\ Fed.hits = h
      BY <1>5, <1>6, <2>1, <3>3
    <3> QED
      BY <1>4, <2>1, <3>1, <3>2, <3>3
  <2>2. CASE turn = 2
    <3>1. rules'[1] = rules[1] /\ Counted = line
      BY <1>5, <2>2 DEF Counted
    <3> QED
      BY <1>1, <3>1 DEF Deque, Running
  <2> QED
    BY <1>2, <2>1, <2>2
<1>11. \A k \in {1, 2} : rules[k].quiet_until # Never =>
         rules'[k].quiet_until # Never /\ rules[k].quiet_until <= rules'[k].quiet_until
  <2>1. SUFFICES ASSUME NEW k \in {1, 2}, rules[k].quiet_until # Never
                 PROVE  /\ rules'[k].quiet_until # Never
                        /\ rules[k].quiet_until <= rules'[k].quiet_until
    OBVIOUS
  <2>2. rules[k].quiet_until \in Nat /\ now + cooldown \in Nat /\ now + cooldown # Never
    BY <1>2, <1>3, <2>1, NeverAssumption
  <2>3. CASE k = turn
    BY <1>2, <1>4, <1>5, <2>1, <2>2, <2>3
  <2>4. CASE k # turn
    BY <1>5, <2>1, <2>2, <2>4
  <2> QED
    BY <2>3, <2>4
<1>12. ASSUME Fires
       PROVE  /\ Due(RuleNames[turn], line, skipped)
              /\ rules'[turn].quiet_until = log[line].at + cooldown
              /\ rules[turn].quiet_until # Never => rules[turn].quiet_until <= log[line].at
  <2>1. CASE turn = 1
    <3>1. Len(h) >= threshold /\ Matches("error_burst", log[line])
      BY <1>4, <1>12, <2>1, Names
    <3>2. Due("error_burst", line, skipped)
      BY <1>6, <2>1, <3>1
    <3> QED
      BY <1>4, <1>5, <1>12, <2>1, <3>2, Names DEF now
  <2>2. CASE turn = 2
    BY <1>2, <1>4, <1>5, <1>12, <2>2, Names DEF Due, now
  <2> QED
    BY <1>2, <2>1, <2>2
<1> QED
  BY <1>9, <1>10, <1>11, <1>12

LEMMA FeedKeeps == IInv /\ Feed => IInv'
<1>1. SUFFICES ASSUME IInv, Feed  PROVE IInv'
  OBVIOUS
<1>2. /\ TypeOK /\ LogInOrder /\ Position /\ Quiet /\ RowsAreDue /\ RowsAreSpaced
  BY <1>1 DEF IInv
<1>3. /\ log' = log /\ rows' = rows /\ life' = life /\ skipped' = skipped /\ offset' = offset
      /\ mode' = mode /\ dry_run' = dry_run /\ pc = "feed"
      /\ rules' = [rules EXCEPT ![turn] = Fed]
  BY <1>1 DEF Feed
<1>4. /\ rules' \in [DOMAIN RuleNames -> [hits : Seq(Nat), quiet_until : Nat \cup {Never}]]
      /\ Stand(rules'[1].hits, line)
      /\ \A k \in {1, 2} : rules[k].quiet_until # Never =>
           rules'[k].quiet_until # Never /\ rules[k].quiet_until <= rules'[k].quiet_until
      /\ Fires => /\ Due(RuleNames[turn], line, skipped)
                  /\ rules'[turn].quiet_until = log[line].at + cooldown
                  /\ rules[turn].quiet_until # Never =>
                       rules[turn].quiet_until <= log[line].at
  BY <1>1, <1>3, FeedRules
<1>5. \/ Fires /\ pc' = "open" /\ line' = line /\ turn' = turn
      \/ NextTurn
  BY <1>1 DEF Feed
<1>6. /\ line \in 1..Len(log) /\ line \in skipped..offset /\ line > skipped
      /\ turn \in {1, 2} /\ cooldown \in Nat
      /\ \A i \in 1..Len(log) : log[i].at \in Nat
      /\ \A i \in DOMAIN rows : rows[i].line \in 1..Len(log)
      /\ \A k \in {1, 2} : rules[k].quiet_until \in Nat \cup {Never}
                           /\ rules'[k].quiet_until \in Nat \cup {Never}
  <2>1. cooldown \in Nat /\ line > skipped /\ turn \in {1, 2}
    BY <1>2, <1>3, TypeFacts, CooldownAssumption DEF Position
  <2>2. line \in 1..Len(log) /\ line \in skipped..offset
    BY <1>2, <2>1, TypeFacts
  <2>3. \A k \in {1, 2} : rules'[k] \in [hits : Seq(Nat), quiet_until : Nat \cup {Never}]
    BY <1>4, Names
  <2> QED
    BY <1>2, <2>1, <2>2, <2>3, TypeFacts
<1>7. /\ pc' \in {"open", "feed", "poll", "done"} /\ turn' \in {1, 2}
      /\ line' \in skipped'..offset' /\ Position'
      /\ Running' => Counted' = line
      /\ pc' = "open" => Fires /\ line' = line /\ turn' = turn
  <2>1. CASE Fires /\ pc' = "open" /\ line' = line /\ turn' = turn
    <3>1. Position' /\ Counted' = line
      BY <1>2, <1>3, <1>6, <2>1 DEF Position, Counted, Running
    <3> QED
      BY <1>3, <1>6, <2>1, <3>1
  <2>2. CASE NextTurn
    BY <1>2, <1>3, <2>2, NextTurnFacts
  <2> QED
    BY <1>5, <2>1, <2>2
<1>8. TypeOK'
  BY <1>2, <1>3, <1>4, <1>7, Names DEF TypeOK
<1>9. LogInOrder'
  BY <1>2, <1>3 DEF LogInOrder
<1>10. Deque'
  <2>1. PICK f \in [1..Len(rules'[1].hits) -> Nat] : Behind(f, rules'[1].hits, line)
    BY <1>4 DEF Stand
  <2>2. Running' => Behind(f, rules[1].hits, Counted)'
    BY <1>3, <1>7, <2>1 DEF Behind, Matches
  <2> QED
    BY <2>1, <2>2 DEF Deque, Stand
<1>11. Quiet'
  <2>1. SUFFICES ASSUME NEW i \in DOMAIN rows, NEW k \in {1, 2},
                        rows[i].life = life, rows[i].rule = RuleNames[k]
                 PROVE  /\ rules'[k].quiet_until # Never
                        /\ log[rows[i].line].at + cooldown <= rules'[k].quiet_until
    BY <1>3, Names DEF Quiet
  <2>2. /\ rules[k].quiet_until # Never
        /\ log[rows[i].line].at + cooldown <= rules[k].quiet_until
    BY <1>2, <1>3, <2>1, Names DEF Quiet, Running
  <2>3. /\ rules'[k].quiet_until # Never /\ rules[k].quiet_until <= rules'[k].quiet_until
        /\ rules[k].quiet_until \in Nat /\ rules'[k].quiet_until \in Nat
        /\ log[rows[i].line].at + cooldown \in Nat
    <3>1. /\ rules'[k].quiet_until # Never
          /\ rules[k].quiet_until <= rules'[k].quiet_until
      BY <1>4, <2>2
    <3>2. rules[k].quiet_until \in Nat /\ rules'[k].quiet_until \in Nat
      BY <1>6, <2>2, <3>1
    <3>3. log[rows[i].line].at \in Nat
      BY <1>6
    <3> QED
      BY <1>6, <3>1, <3>2, <3>3
  <2>4. \A a, b, c \in Nat : a <= b /\ b <= c => a <= c
    OBVIOUS
  <2> QED
    BY <2>2, <2>3, <2>4
<1>12. Pending'
  <2>1. SUFFICES ASSUME pc' = "open"
                 PROVE  /\ Due(RuleNames[turn], line, skipped)'
                        /\ rules'[turn'].quiet_until = log'[line'].at + cooldown
                        /\ \A i \in DOMAIN rows' :
                             rows'[i].life = life' /\ rows'[i].rule = RuleNames[turn'] =>
                               log'[rows'[i].line].at + cooldown <= log'[line'].at
    BY DEF Pending
  <2>2. Fires /\ line' = line /\ turn' = turn
    BY <1>7, <2>1
  <2>3. Due(RuleNames[turn], line, skipped)'
    <3>1. Due(RuleNames[turn], line, skipped)
      BY <1>4, <2>2
    <3>2. PICK rule \in {"error_burst", "known_failure"}, n \in 1..Len(log), s \in Nat :
            rule = RuleNames[turn] /\ n = line /\ s = skipped
      <4>1. RuleNames[turn] \in {"error_burst", "known_failure"} /\ skipped \in Nat
        BY <1>2, <1>6, TypeFacts, Names
      <4> QED
        BY <1>6, <4>1
    <3>3. Due(rule, n, s)'
      <4>1. LogExtends /\ Due(rule, n, s)
        BY <1>2, <1>3, <3>1, <3>2, TypeFacts DEF LogExtends
      <4> QED
        BY <1>2, <4>1, DueKept
    <3>4. RuleNames[turn'] = rule /\ n = line' /\ s = skipped'
      BY <1>3, <2>2, <3>2
    <3> QED
      BY <3>3, <3>4
  <2>4. ASSUME NEW i \in DOMAIN rows, rows[i].life = life, rows[i].rule = RuleNames[turn]
        PROVE  log[rows[i].line].at + cooldown <= log[line].at
    <3>1. /\ rules[turn].quiet_until # Never
          /\ log[rows[i].line].at + cooldown <= rules[turn].quiet_until
      BY <1>2, <1>3, <1>6, <2>4, Names DEF Quiet, Running
    <3>2. rules[turn].quiet_until <= log[line].at /\ rules[turn].quiet_until \in Nat
      BY <1>4, <1>6, <2>2, <3>1
    <3>3. log[rows[i].line].at \in Nat /\ log[line].at \in Nat
      BY <1>6
    <3>4. log[rows[i].line].at + cooldown \in Nat
      BY <1>6, <3>3
    <3>5. \A a, b, c \in Nat : a <= b /\ b <= c => a <= c
      OBVIOUS
    <3> QED
      BY <3>1, <3>2, <3>3, <3>4, <3>5
  <2> QED
    BY <1>3, <1>4, <2>2, <2>3, <2>4
<1>13. RowsAreDue' /\ RowsAreSpaced'
  BY <1>2, <1>3, TypeFacts, RowsKept DEF LogExtends
<1> QED
  BY <1>7, <1>8, <1>9, <1>10, <1>11, <1>12, <1>13 DEF IInv

LEMMA OpenIncidentKeeps == IInv /\ OpenIncident => IInv'
<1>1. SUFFICES ASSUME IInv, OpenIncident  PROVE IInv'
  OBVIOUS
<1> DEFINE new == [rule |-> RuleNames[turn], line |-> line, life |-> life, skipped |-> skipped]
           Row == [rule : {"error_burst", "known_failure"}, line : 1..Len(log),
                   life : 1..life, skipped : 0..Len(log)]
           n == Len(rows) + 1
<1>2. /\ TypeOK /\ LogInOrder /\ Position /\ Deque /\ Quiet /\ Pending
      /\ RowsAreDue /\ RowsAreSpaced
  BY <1>1 DEF IInv
<1>3. /\ log' = log /\ rules' = rules /\ life' = life /\ skipped' = skipped /\ offset' = offset
      /\ mode' = mode /\ dry_run' = dry_run /\ pc = "open"
      /\ rows' = Append(rows, new) /\ NextTurn
  BY <1>1 DEF OpenIncident
<1>4. /\ pc' \in {"feed", "poll", "done"} /\ turn' \in {1, 2}
      /\ line' \in skipped'..offset' /\ Position'
      /\ Running' => Counted' = line
  BY <1>2, <1>3, NextTurnFacts
<1>5. /\ line \in 1..Len(log) /\ skipped \in 0..Len(log) /\ turn \in {1, 2}
      /\ RuleNames[turn] \in {"error_burst", "known_failure"}
  BY <1>2, <1>3, TypeFacts, Names DEF Position
<1>6. new \in Row /\ rows \in Seq(Row)
  <2>1. life \in 1..life
    BY <1>2, <1>3 DEF Position, TypeOK, Running
  <2> QED
    BY <1>2, <1>5, <2>1 DEF TypeOK
<1>7. /\ new.rule = RuleNames[turn] /\ new.line = line /\ new.life = life
      /\ new.skipped = skipped
  OBVIOUS
<1> HIDE DEF new, Row
<1>8. /\ rows' \in Seq(Row) /\ Len(rows) \in Nat /\ DOMAIN rows = 1..Len(rows)
      /\ DOMAIN rows' = 1..n /\ rows'[n] = new
      /\ \A i \in DOMAIN rows : rows'[i] = rows[i]
  BY <1>3, <1>6
<1>9. TypeOK'
  <2>1. rows' \in Seq([rule : {"error_burst", "known_failure"}, line : 1..Len(log'),
                       life : 1..life', skipped : 0..Len(log')])
    BY <1>3, <1>8 DEF Row
  <2> QED
    BY <1>2, <1>3, <1>4, <2>1, Names DEF TypeOK
<1>10. LogInOrder' /\ Pending'
  BY <1>2, <1>3, <1>4 DEF LogInOrder, Pending
<1>11. Deque'
  <2>1. Counted = line
    BY <1>3 DEF Counted
  <2> QED
    BY <1>2, <1>3, <1>4, <2>1 DEF Deque, Stand, Behind, Running
<1>12. Quiet'
  <2>1. SUFFICES ASSUME NEW i \in 1..n, NEW k \in {1, 2},
                        rows'[i].life = life, rows'[i].rule = RuleNames[k]
                 PROVE  /\ rules[k].quiet_until # Never
                        /\ log[rows'[i].line].at + cooldown <= rules[k].quiet_until
    BY <1>3, <1>8, Names DEF Quiet
  <2>2. CASE i = n
    <3>1. rows'[i] = new /\ k = turn
      BY <1>5, <1>7, <1>8, <2>1, <2>2, Names
    <3>2. rules[turn].quiet_until = log[line].at + cooldown
      BY <1>2, <1>3 DEF Pending
    <3>3. log[line].at \in Nat /\ cooldown \in Nat /\ log[line].at + cooldown \in Nat
      BY <1>2, <1>5, TypeFacts, CooldownAssumption
    <3> QED
      BY <1>7, <3>1, <3>2, <3>3, NeverAssumption
  <2>3. CASE i # n
    <3>1. i \in DOMAIN rows /\ rows'[i] = rows[i]
      BY <1>8, <2>1, <2>3
    <3> QED
      BY <1>2, <1>3, <2>1, <3>1, Names DEF Quiet, Running
  <2> QED
    BY <2>2, <2>3
<1>13. RowsAreDue'
  <2>1. SUFFICES ASSUME NEW i \in 1..n
                 PROVE  Due(rows'[i].rule, rows'[i].line, rows'[i].skipped)
    BY <1>3, <1>8 DEF RowsAreDue, Due, Recent
  <2>2. CASE i = n
    BY <1>2, <1>3, <1>7, <1>8, <2>2 DEF Pending
  <2>3. CASE i # n
    <3>1. i \in DOMAIN rows /\ rows'[i] = rows[i]
      BY <1>8, <2>1, <2>3
    <3> QED
      BY <1>2, <3>1 DEF RowsAreDue
  <2> QED
    BY <2>2, <2>3
<1>14. RowsAreSpaced'
  <2>1. SUFFICES ASSUME NEW i \in 1..n, NEW j \in 1..n, i < j,
                        rows'[i].rule = rows'[j].rule, rows'[i].life = rows'[j].life
                 PROVE  log[rows'[j].line].at >= log[rows'[i].line].at + cooldown
    BY <1>3, <1>8 DEF RowsAreSpaced
  <2>2. i \in DOMAIN rows /\ rows'[i] = rows[i]
    BY <1>8, <2>1
  <2>3. CASE j = n
    <3>1. rows[i].rule = RuleNames[turn] /\ rows[i].life = life /\ rows'[j].line = line
      BY <1>7, <1>8, <2>1, <2>2, <2>3
    <3>2. log[rows[i].line].at + cooldown <= log[line].at
      BY <1>2, <1>3, <2>2, <3>1 DEF Pending
    <3>3. log[rows[i].line].at + cooldown \in Nat /\ log[line].at \in Nat
      <4>1. rows[i].line \in 1..Len(log)
        BY <1>2, <2>2, TypeFacts
      <4>2. log[rows[i].line].at \in Nat /\ log[line].at \in Nat
        BY <1>2, <1>5, <4>1, TypeFacts
      <4> QED
        BY <4>2, CooldownAssumption
    <3> QED
      BY <2>2, <3>1, <3>2, <3>3
  <2>4. CASE j # n
    <3>1. j \in DOMAIN rows /\ rows'[j] = rows[j]
      BY <1>8, <2>1, <2>4
    <3> QED
      BY <1>2, <2>1, <2>2, <3>1 DEF RowsAreSpaced
  <2> QED
    BY <2>3, <2>4
<1> QED
  BY <1>4, <1>9, <1>10, <1>11, <1>12, <1>13, <1>14 DEF IInv

----------------------------------------------------------------------------
THEOREM IInvHolds == Spec => []IInv
<1>1. Init => IInv
  BY InitHolds
<1>2. IInv /\ [Next]_vars => IInv'
  <2>1. SUFFICES ASSUME IInv, [Next]_vars  PROVE IInv'
    OBVIOUS
  <2>2. CASE LogLine
    BY <2>1, <2>2, LogLineKeeps
  <2>3. CASE Start
    BY <2>1, <2>3, StartKeeps
  <2>4. CASE Poll
    BY <2>1, <2>4, PollKeeps
  <2>5. CASE Feed
    BY <2>1, <2>5, FeedKeeps
  <2>6. CASE OpenIncident
    BY <2>1, <2>6, OpenIncidentKeeps
  <2>7. CASE Die
    BY <2>1, <2>7, DieKeeps
  <2>8. CASE UNCHANGED vars
    <3>1. TypeOK' /\ LogInOrder' /\ Position' /\ Pending'
      BY <2>1, <2>8
         DEF vars, processVars, IInv, TypeOK, LogInOrder, Position, Pending, Due, Recent, Running
    <3>2. Deque' /\ Quiet' /\ RowsAreDue' /\ RowsAreSpaced'
      BY <2>1, <2>8
         DEF vars, processVars, IInv, Deque, Counted, Stand, Behind, Quiet, RowsAreDue, Due,
             Recent, RowsAreSpaced, Running
    <3> QED
      BY <3>1, <3>2 DEF IInv
  <2> QED
    BY <2>1, <2>2, <2>3, <2>4, <2>5, <2>6, <2>7, <2>8 DEF Next, WatcherStep
<1> QED
  BY <1>1, <1>2, PTL DEF Spec

\* Type correctness of the log-watcher beside the log and its own deaths.
THEOREM TypeCorrect == Spec => []TypeOK
<1>1. IInv => TypeOK
  BY DEF IInv
<1> QED
  BY <1>1, IInvHolds, PTL

\* Every row that the log-watcher opens (main:136-144) stands for lines that
\* its own process has read, over any number of lives, batches and lines.
THEOREM RowsStandForLines == Spec => []RowsAreDue
<1>1. IInv => RowsAreDue
  BY DEF IInv
<1> QED
  BY <1>1, IInvHolds, PTL

\* Rows of one rule and one process are a cooldown apart (rules.py:22-23).
THEOREM OneRowACooldown == Spec => []RowsAreSpaced
<1>1. IInv => RowsAreSpaced
  BY DEF IInv
<1> QED
  BY <1>1, IInvHolds, PTL
=============================================================================
