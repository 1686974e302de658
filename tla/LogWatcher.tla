----------------------------- MODULE LogWatcher -----------------------------
(***************************************************************************)
(* The log-watcher process (log_watcher/__main__.py): the loop that gives  *)
(* each line of the log to each rule and opens a row for each detection,   *)
(* in a process that may die at any step and is started again, by          *)
(* following the log from its end or by replaying all of it.               *)
(*                                                                         *)
(* The log here is only appended to, and the tailer delivers it as         *)
(* LineStream says, a batch at a time (Tailer has the rest).  Two rules    *)
(* stand for the three of default_rules: one counts, one fires on any      *)
(* match, and a line about a server given up on is for both.  A good write *)
(* stands for the lines that no rule matches, and for those that are no    *)
(* record at all and never get to the rules: neither changes anything.     *)
(***************************************************************************)
EXTENDS DetectionRules, FiniteSets

CONSTANTS threshold, window,
          Modes,       \* {"follow"}, {"replay"} or both
          DryRunModes, \* how --dry-run may be given at each start
          MaxLines,    \* bound: lines logged
          MaxGap,      \* bound: time from one line to the next
          MaxLives     \* bound: times the process is started

\* default_rules' windows are shorter than its cooldowns.
ASSUME RuleAssumption == threshold \in Nat \ {0} /\ window \in 0..(cooldown - 1)
ASSUME ModesAssumption ==
  /\ Modes \subseteq {"follow", "replay"} /\ Modes # {}
  /\ DryRunModes \subseteq BOOLEAN /\ DryRunModes # {}
ASSUME BoundsAssumption == MaxLines \in Nat /\ MaxGap \in Nat /\ MaxLives \in Nat

VARIABLES
  log,      \* the lines of the file: event and time
  pc,       \* where main() is; "stopped" if it died or has not begun, "done" at
            \* the end of a replay
  mode, dry_run,
  rules,    \* the rule objects
  offset,   \* how many lines have been read from the file
  line,     \* the line that main() is at, of those read
  turn,     \* and the rule it is at
  rows,     \* the rows opened: the rule and, as history, its line and process
  life,     \* history: how often the process was started
  skipped   \* history: how many lines were there before that and are not read

processVars == <<pc, mode, dry_run, rules, offset, line, turn>>
vars == <<log, processVars, rows, life, skipped>>

RuleNames == <<"error_burst", "known_failure">>
ErrorEvents == {"tick_write_error", "dependency_unreachable"}
Events == {"tick_write"} \cup ErrorEvents

NewRules == [k \in DOMAIN RuleNames |-> NewRule]

Init ==
  /\ log = <<>>
  /\ pc = "stopped" /\ mode \in Modes /\ dry_run \in DryRunModes
  /\ rules = NewRules /\ offset = 0 /\ line = 0 /\ turn = 1
  /\ rows = <<>> /\ life = 0 /\ skipped = 0

----------------------------------------------------------------------------
LastTime == IF log = <<>> THEN 0 ELSE log[Len(log)].at

\* The feed service logs a line.
LogLine ==
  /\ Len(log) < MaxLines
  /\ \E event \in Events, gap \in 0..MaxGap :
       log' = Append(log, [event |-> event, at |-> LastTime + gap])
  /\ UNCHANGED <<processVars, rows, life, skipped>>

\* Mutant: what the rules know outlives the process.
RulesAtStart_Kept == rules
RulesAtStart == NewRules

Running == pc \in {"poll", "feed", "open"}

\* New rules, and the tailer at one end of the file or the other.
Start ==
  /\ ~Running /\ life < MaxLives
  /\ pc' = "poll" /\ mode' \in Modes /\ dry_run' \in DryRunModes
  /\ rules' = RulesAtStart
  /\ skipped' = IF mode' = "follow" THEN Len(log) ELSE 0
  /\ offset' = skipped' /\ line' = skipped' /\ turn' = 1
  /\ life' = life + 1
  /\ UNCHANGED <<log, rows>>

AfterLast == IF mode = "follow" THEN "poll" ELSE "done"

\* A follower sleeps if there is nothing new, a replay is over.
Poll ==
  /\ pc = "poll"
  /\ IF Len(log) > offset
     THEN pc' = "feed" /\ offset' = Len(log) /\ line' = offset + 1 /\ turn' = 1
     ELSE /\ pc' = AfterLast
          /\ UNCHANGED <<offset, line, turn>>
  /\ UNCHANGED <<log, mode, dry_run, rules, rows, life, skipped>>

Matches(rule, entry) ==
  entry.event \in IF rule = "error_burst" THEN ErrorEvents ELSE {"dependency_unreachable"}

\* rule.feed(record), which may fire.
Fed ==
  LET now == log[line].at
  IN  IF ~Matches(RuleNames[turn], log[line]) THEN rules[turn]
      ELSE IF RuleNames[turn] = "error_burst"
           THEN FeedCount(rules[turn], threshold, window, now)
           ELSE FeedKnown(rules[turn], now)

Fires == Fed.quiet_until # rules[turn].quiet_until

\* Mutant: the loop over the rules ends with the first that fires.
LastTurn_OnFire == turn = Len(RuleNames) \/ pc = "open"
LastTurn == turn = Len(RuleNames)

\* The next rule, the next line, the next poll or the end of a replay.
NextTurn ==
  IF ~LastTurn
  THEN turn' = turn + 1 /\ pc' = "feed" /\ UNCHANGED line
  ELSE /\ turn' = 1
       /\ IF line < offset THEN line' = line + 1 /\ pc' = "feed"
          ELSE UNCHANGED line /\ pc' = AfterLast

Feed ==
  /\ pc = "feed"
  /\ rules' = [rules EXCEPT ![turn] = Fed]
  /\ IF Fires /\ ~dry_run THEN pc' = "open" /\ UNCHANGED <<line, turn>> ELSE NextTurn
  /\ UNCHANGED <<log, mode, dry_run, offset, rows, life, skipped>>

\* _handle: the INSERT, committed.
OpenIncident ==
  /\ pc = "open"
  /\ rows' = Append(rows, [rule |-> RuleNames[turn], line |-> line, life |-> life,
                           skipped |-> skipped])
  /\ NextTurn
  /\ UNCHANGED <<log, mode, dry_run, rules, offset, life, skipped>>

\* A table that stays locked, a log that goes between two calls of the tailer,
\* Ctrl-C: the rules and what was read but not handled are gone.
Die ==
  /\ Running
  /\ pc' = "stopped"
  /\ rules' = NewRules /\ offset' = 0 /\ line' = 0 /\ turn' = 1 /\ skipped' = 0
  /\ UNCHANGED <<log, mode, dry_run, rows, life>>

WatcherStep == Poll \/ Feed \/ OpenIncident

Next == LogLine \/ Start \/ WatcherStep \/ Die

Spec == Init /\ [][Next]_vars

\* One thread, whose calls return; nobody need start it again.
FairSpec == Spec /\ WF_vars(WatcherStep)

----------------------------------------------------------------------------
TypeOK ==
  /\ log \in Seq([event : Events, at : Nat])
  /\ pc \in {"stopped", "poll", "feed", "open", "done"}
  /\ mode \in Modes /\ dry_run \in DryRunModes
  /\ rules \in [DOMAIN RuleNames -> [hits : Seq(Nat), quiet_until : Nat \cup {Never}]]
  /\ skipped \in 0..Len(log) /\ offset \in skipped..Len(log) /\ line \in skipped..offset
  /\ turn \in DOMAIN RuleNames
  /\ rows \in Seq([rule : {"error_burst", "known_failure"}, line : 1..Len(log),
                   life : 1..life, skipped : 0..Len(log)])
  /\ life \in 0..MaxLives

\* The errors up to line n that are at most a window older than it, of those
\* read by a process that skipped the first s lines.
Recent(n, s) ==
  {i \in DOMAIN log : /\ s < i /\ i <= n /\ Matches("error_burst", log[i])
                      /\ log[n].at - log[i].at <= window}

\* Line n calls for a row of the rule, for such a process: it is an error with
\* enough of them in the window, or the service itself says that it has given up.
Due(rule, n, s) ==
  /\ n > s /\ Matches(rule, log[n])
  /\ rule = "error_burst" => Cardinality(Recent(n, s)) >= threshold

\* A row stands for what its own process has read, and never for lines from
\* before its start or that another process has seen: the rules keep nothing
\* (_build_rules) and the tailer starts at the end (tailer.py:46-49).
RowsAreDue ==
  \A i \in DOMAIN rows : Due(rows[i].rule, rows[i].line, rows[i].skipped)

\* "One sustained fault should be one incident row" (rules.py:22-23), as far as
\* the code goes: the rows of a rule are a cooldown apart, while the process
\* lives.
RowsAreSpaced ==
  \A i, j \in DOMAIN rows :
    i < j /\ rows[i].rule = rows[j].rule /\ rows[i].life = rows[j].life =>
      log[rows[j].line].at >= log[rows[i].line].at + cooldown

OnRecord(rule, n) ==
  \E i \in DOMAIN rows :
    /\ rows[i].rule = rule /\ rows[i].life = life
    /\ rows[i].line <= n /\ log[n].at < log[rows[i].line].at + cooldown

\* A follower has to come to every line, a replay to those that were there when
\* it read the file.
Owed ==
  {n \in DOMAIN log : (mode = "follow" \/ n <= offset)
                     /\ \E k \in DOMAIN RuleNames :
                          Due(RuleNames[k], n, skipped) /\ ~OnRecord(RuleNames[k], n)}

\* Whatever calls for a row gets one, or has one of the same rule from less than
\* a cooldown before, unless the process dies first: whenever the log pauses, and
\* when a replay has ended, no line has been lost between polls, batches and
\* rules, also if both rules fire on one line (main:136-147).
DueIsRecorded == []<>(pc = "stopped" \/ dry_run \/ Owed = {})
=============================================================================
