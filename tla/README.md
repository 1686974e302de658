# pulsecheck, verified

TLA+ modules of pulsecheck, the runs that model-check them with TLC, and
theorems about them that TLAPS proves. Paths such as `watchdog/breach.py` are
paths of the repository.

## 1. The system

A feed service writes ticks to Postgres and Redis. Two programs on the host
watch it: the watchdog polls its container and `GET /health` and restarts it,
the log-watcher reads its log. Both record incidents in one SQLite table.

| Component | State | Operations | Interacts with |
|---|---|---|---|
| breach state machine (`watchdog/breach.py`) | two counters, the latch, the start time | `observe(verdict, now)` | called once a poll by the watchdog's loop |
| watchdog process (`watchdog/__main__.py`, `probes.py`) | the monitor, the locals of its handlers | poll, open row, restart, record, alert, recover | Docker, `/health`, the table, Slack |
| incident table (`incidents.py`) | rows | `open_incident`, `set_action`, `resolve_incident` | written by both host programs |
| detection rules (`log_watcher/rules.py`) | a deque of event times and `quiet_until` for each rule | `feed(record)` | fed by the log-watcher's loop |
| tailer (`log_watcher/tailer.py`) | offset, carry | `follow`, `read_once` | the log file, which others write, truncate and remove |
| log-watcher process (`log_watcher/__main__.py`) | the three rules, the batch it is at | parse, feed, open a row | tailer, rules, table |
| tick generator (`feed-service/app/generator.py`, `db.py`, `cache.py`) | two connections, the symbol it is at | `start`, `_run`, `_write`, `_reconnect`, `stop` | Postgres, Redis, the log |
| connect with backoff (`feed-service/app/retry.py`) | the attempt | `connect_with_backoff` | used at startup and by every reconnect |
| web application (`feed-service/app/main.py`) | started or not | lifespan, `/health`, `/metrics` | the generator, fresh connections of its own |

What is hard here is not any one function but what lies between them: steps of
three processes on one table; a process that dies between two statements; a
file that changes between two system calls; two writes to two stores; retries,
windows and cooldowns that run at different paces; and recovery by two
mechanisms, backoff and restart, that can get in each other's way.
`PROJECT.json` lists each such hazard at its line with the properties that
cover it.

What makes each component correct:

* the state machine confirms and closes exactly when the stream of checks says so;
* the watchdog restarts once for each incident, on record, and its rows tell the truth, whenever it dies;
* a rule fires on every burst and on nothing else, and no more than once a cooldown;
* the tailer hands on each line once, whole, in order, and eventually;
* the stores agree but for the write in flight, and writes resume after an outage;
* together: a killed service comes back, a lasting outage is on record.

## 2. Modules

`A ---- B` reads: B EXTENDS or instantiates A. The last column proves.

```
BreachMonitor ---- BreachHistory ---------------------------- BreachProofs
      \
       Watchdog ---- implements IncidentLifecycle ----------- WatchdogProofs
      /        \
IncidentLog     Pulsecheck --- MCPulsecheck
               /      \------------------------------------- PulsecheckProofs
    FeedService --- MCFeedService

DetectionRules ---------------------------------------------- DetectionProofs
    |     |---- RuleHistory --------------------------------- RulesProofs (and DetectionProofs)
    |     \---- LogWatcher ---------------------------------- LogWatcherProofs (and DetectionProofs)
    \---- OutageDetection ----------------------------------- OutageProofs (and DetectionProofs)

Tailer ---- implements LineStream, the log as LogWatcher reads it --- TailerProofs
```

| Module | Models | State and actions |
|---|---|---|
| `BreachMonitor` | `breach.py` | the four fields of the class; one action for each way `observe` returns |
| `BreachHistory` | every caller of `observe` | adds the stream of checks and the last decision as history |
| `IncidentLog` | `incidents.py` | `rows`; one operator for each statement |
| `Watchdog` | `watchdog/__main__.py`, `probes.py`, `notify.py` | a program counter over the calls that leave the process; target, Docker daemon, log-watcher, death and restart of the process as environment |
| `IncidentLifecycle` | abstract | what the watchdog promises of an incident |
| `DetectionRules` | `rules.py` | `feed` of both kinds of rule as functions of the rule's state |
| `RuleHistory` | one rule fed with any records | adds all event times and all fires as history |
| `OutageDetection` | the generator's retries in real time, with the three rules | seconds, the server, the generator's sleep, rules and rows |
| `Tailer` | `tailer.py` | `file` as tokens, numbered as they are written (two halves and a newline for each line), `offset`, `carry`, a program counter over the system calls |
| `LineStream` | abstract | what the tailer promises of a log |
| `LogWatcher` | `log_watcher/__main__.py` | batches of lines, the line and the rule the loop is at, two rules, rows; death and restart of the process, replay and dry run |
| `FeedService` | `main.py`, `generator.py`, `retry.py`, `db.py`, `cache.py` | a program counter, the two connections, the two stores, the two servers |
| `Pulsecheck` | feed service and watchdog together | extends `FeedService` with an instance of `Watchdog` whose target it is |

Actions are cut at each call that leaves the process, since nothing else can be
seen or interrupted by another. A run of assignments between two such calls is
one step. Python's `None` is a model value or a constant of that name; numbers
that grow without need (counters past their thresholds, prices) are capped by a
named bound.

Three abstractions deserve a word. `BreachMonitor` saturates its counters at
`CounterCap`, at or above both thresholds: the code compares them with the
thresholds only (and prints them). `Watchdog` leaves out the clock: the start time
is fed as 0 there, and what the downtime means is `BreachHistory`'s subject.
`LogWatcher` reads a log that is only appended to, a batch at a time, and has
one counting rule and one that fires on any match, for the three of
`default_rules`; its three kinds of line are one for no rule (a good write, which
stands for what is no record as well), one for the first rule and one for both.
Files that shrink or go are `Tailer`'s subject, and the three rules at their own
pace `OutageDetection`'s. And two of the watchdog's: a Slack message is the row and
the action it names, and is in `posts` whether or not Slack accepts it, which
the code only logs; an exception that escapes `notify.py` is one of the deaths of
the process.

Operators named `X_Y` after a comment `Mutant:` are the definition X with a
plausible bug; no specification uses them. For every property of a passing run
`PROJECT.json` names one with which TLC finds the property violated.

## 3. Runs

Passing runs:

| Run | Shows | Bounds, and why they are enough |
|---|---|---|
| `breach_history` | latch, start time and decisions are what the stream of checks says | 8 checks at two clock times, thresholds 3 and 2: a confirmation, a recovery broken off, a recovery and most of a second incident |
| `watchdog_full` | what rows, restarts and alerts say is true, over deaths and beside the log-watcher; implements `IncidentLifecycle` | 2 deaths, 2 foreign rows, 1 fault, with and without `--dry-run`: two processes can each leave an orphan, and a foreign row can lie between or above them |
| `watchdog_alone` | incidents of a lasting fault are handled, of a lasting recovery closed | 4 faults, recovery threshold 2, one life, no foreign rows: two whole incidents with a broken recovery in one |
| `rule_history` | fires are bursts and bursts fire, against the whole history; the cooldown holds | 7 records up to 3 s apart and up to 2 s out of order, threshold 3, window 3 s, cooldown 2 s: shorter than the window, so that a burst can reach back over a fire |
| `tailer` | implements `LineStream`; no garbage; lines arrive in the end | both modes, 4 lines each in up to 3 pieces, 2 truncations and 2 removals between any two calls of the tailer, at the end of a line: a second one can hit the recovery from the first |
| `log_watcher` | every row stands for lines its own process read, rows of a rule are a cooldown apart, whatever calls for a row gets one, before a replay ends | 2 lives, 4 lines up to 1 s apart, threshold 2, window 1 s, cooldown 2 s, both modes, dry or not: a burst may begin in one life and end in the next, one rule can fire twice in a life, and lines of no rule lie between |
| `feed_service` | the stores and the counter are consistent; writes resume | 2 symbols, one of them listed twice, 2 attempts, 2 prices, 1 lost answer, any number of outages, kills and restarts |
| `outage_detection` | a lasting outage is on record in bounded time; no false row | 2 outages within 36 s, settings scaled down so that both fit, and a lasting one goes past a cooldown and a give-up |
| `pulsecheck` | feed service and watchdog together implement `Watchdog`; a kill is recovered, its incident closed | 1 symbol; 1 each of kill, outage, failing restart and death of the watchdog, at most 2 of these together (`MaxTroubles`), at any step |

`MaxFaults = 8` of `pulsecheck` is more than that instance can use up, so that the
bound of `Watchdog` excludes nothing; `IsWatchdog` would fail if it did.

Runs that are expected to find a violation each check one sentence of the
repository against the code; `PROJECT.json` ("findings") quotes them.

| Run | What the code does |
|---|---|
| `watchdog_log_rows` | the log-watcher's newer row is closed in place of the watchdog's, whose own row stays open; nobody has written an action on it, so it is closed with NULL |
| `pulsecheck_outage` | restart and backoff together leave the service down after an outage: the restarted service gives up its startup and exits, and the latched incident gets no second restart |
| `outage_burst` | `error_burst` does not fire in a hard outage: the generator blocks in its backoff after one ERROR line |

Where a sentence of the repository says more than the code does, and a premise
or a bound of a property says how much more, there is no run of its own:

| The text | The code | In the model |
|---|---|---|
| "1. restart the container, 2. write an open row" (`watchdog/__main__.py:7-8`) | the row comes first, as `:99-101` says | `RestartIsOnRecord` |
| "the very next failed poll re-opens a new one" (`breach.py:48-49`) | after a false recovery the full threshold is needed again | `OpenIffConfirmed` |
| "`resolved_at` NULL means the incident is still open" (`incidents.py:17`) | a watchdog that dies leaves its row open for good | `OrphansAccountedFor` |
| an unreachable Docker daemon is reported "rather than restarting" (`probes.py:145-146`) | it is a failed check like any other, and enough of them lead to a restart | `ContainerCheck` |
| "inside a sliding window (by event-time)" (`rules.py:56-57`) | records out of order are counted outside the window | the premise `InOrder` |
| a truncated file is read again from its start (`tailer.py:20-22`) | not if it has grown past the offset by the next poll | the premise `~outrun` |
| "wait for the replacement" (`tailer.py:80`) | a file removed between `getsize` and `open` raises and ends the log-watcher | `OpenMissing`, the premise `Disturbed` |
| "one sustained outage is one row per rule" (`README.md:206`) | one longer than the cooldown makes several | `OutageStaysOnRecord` |
| three retries mean "unreachable for ~7s+" (`rules.py:161-162`) | retries of two short blips within the window add up | `NoFalseAlarm` |
| a post "Never raises" (`notify.py:39`) | a malformed answer (`HTTPException`) or URL (`ValueError`) does, and ends the watchdog | `Crash`, at every step |
| "duration = `resolved_at` minus `detected_at`, which is what the Slack recovery message reports" (`incidents.py:18-19`) | it reports the monitor's downtime, of an incident that need not be the row closed | `RecoverySparesOrphans`, for the row |
| timing by `ts` makes a replay "fully deterministic" (`rules.py:25-27`) | a line without a usable `ts` gets the wall clock (`log_watcher/__main__.py:69`) | `Skew` of `RuleHistory` |
| "a bad value fails fast" (`config.py:5-6`) | no symbols, one listed twice, or no attempts are all accepted | `SymbolAssumption`, `AttemptAssumption` |

`CHECK_DEADLOCK FALSE` is set where a history is bounded (`BreachHistory`,
`RuleHistory`, `OutageDetection`), where a replay ends (`Tailer`) and where both
hold (`LogWatcher`); the watchdog, the feed service and the two together are
checked for deadlock.

## 4. Fairness

* `Watchdog`: weak fairness of the process's own step. The loop is one thread
  whose every call has a timeout, so it cannot stay at a call. Nothing is
  assumed of its target, of Docker or of whoever starts it again.
* `FeedService`: weak fairness of the generator (or the startup, which is the
  same thread of control). Redis calls and connects have timeouts; an INSERT
  is bounded only by the kernel's. Nothing is assumed of the servers; `SelfHeals`
  speaks of those behaviours in which they come to stay.
* `Tailer`: weak fairness of the tailer, which polls for ever, and of the
  writer's completing a line it has begun.
* `LogWatcher`: weak fairness of its own step: one thread, whose calls return.
  Nobody need start it again, and nobody need write to the log.
* `Pulsecheck`: that of `Watchdog` and `FeedService`.

Liveness is left to TLC, being out of the prover's reach. The real-time bounds of
`OutageDetection` are no liveness: they are invariants over an explicit clock, and
proved.

## 5. Theorems

TLC looks at small instances; these hold for all values of the constants, for
all thresholds, symbols, bounds on faults, deaths and records.

* **BreachProofs** (`Spec` of `BreachHistory`): `OpenIffConfirmed`,
  `StartIsConfirmingPoll`, `DecisionsAreEdges`. The counters are shown to be the
  lengths, capped, of the runs of equal verdicts at the end of the stream; with
  that, appending one check moves the set of unresolved confirmations as the
  latch says.
* **WatchdogProofs**: `RestartIsOnRecord`, `ActionTruthful`,
  `ClosedOwnRowHasAction`, `AlertsPaired`, `RecoveryFindsARow` and the action property
  `RowsOnlyAdvance`. None is inductive. `IInv` adds where the process stands
  when the latch is set or clear (`Control`), how far the incident of this process
  has come at each position (`Progress`) and what each row's action says of
  the history (`Records`). `AlertsPaired` needs besides what has been posted about
  the row a handler works on, and that rows and posts of other incidents are left
  alone. Then, from the same invariant:
  `OrphansAccountedFor`, by counting: a death adds at most
  one orphan, a recovery that closes a foreign row pays for one.
  `RecoverySparesOrphans`, since orphans lie below the row of this process, which
  is open when its recovery looks. The watchdog implements
  `IncidentLifecycle`, beside the log-watcher and over any number of deaths:
  each step is one of the life cycle or a stutter. Only
  `RecoveryClosesOwnIncident` and `HealthyMeansClosed` assume that there are no
  foreign rows (`MaxLogRows = 0`), the second also that the process does not die,
  and the first needs it, as `watchdog_log_rows` shows.
* **TailerProofs**: `NoGarbage`, whatever is done to the file between two calls,
  and that the tailer implements `LineStream`. As tokens are numbered in the
  order they are written, the invariant compares numbers: the file holds the
  last ones (`Content`), the offset lies in it (`Place`), the carry lies behind
  the offset and beyond what was handed on (`Order`); unless a poll took one file
  for another, the carry has no gap and begins a line (`Joined`), so that
  what is cut from it is whole (`Clean`); and on a log nobody disturbs the next
  line is the one after the last (`Steady`).
* **DetectionProofs**: lemmas about `HitsAt`, for any window and times: the
  deque is the end of a history of times, its front lies in the window, and
  what was dropped before it does not.
* **RulesProofs**: `FiresAreSpaced` in whatever order the records come;
  `FiresAreBursts` and `NoBurstMissed`, which carry their premise `InOrder`. The
  invariant says which records of the history the deque stands for.
* **LogWatcherProofs**: `RowsAreDue` and `RowsAreSpaced`, over any number of lives,
  batches and lines. `IInv` adds that the lines are in order (`LogInOrder`), where
  the loop stands among them (`Position`), that the times in the deque are those
  of different errors which this process has given the counting rule (`Deque`; a
  rule that fires then has as many errors in its window as its deque is long), that
  `quiet_until` covers each row of this life (`Quiet`) and that a row about to
  be opened is due (`Pending`). It rests on `RuleAssumption`: a window is shorter
  than the cooldown, as the defaults are.
* **OutageProofs**: `NoFalseAlarm`, for any settings, and `OutageStaysOnRecord`,
  for any outages before the one that lasts. For the first, a failure about to be
  logged is of a call to a server that is gone, or was at most
  `connect_timeout` ago (`CallFailed`). The second is about the rule that counts
  retries. Wherever the generator is, `NextRetry` is the time by which its next
  retry comes if the server stays away, and `NextAttempt` the number of that retry
  in its backoff; `Before`, `After` and `TwoAfter` bound the time from one retry to
  the next. Then the retries of this backoff are in the deque, but for those
  a fire took out of it (`Counted`), and in an outage the retry that makes
  three, which may be the next one, the one after it or the third, comes within
  `DetectBy` seconds of the outage or of the last cooldown's end (`OnItsWay`). Until
  then no step of an outage puts `NextRetry` off, and what the deque holds of
  earlier outages can only make the rule fire sooner.
  `SettingsAssumption` says which settings go together: a backoff of at least
  four attempts, a threshold of at most three, and a window in which two of
  the longest delays and four timeouts fit, no longer than the cooldown. The
  defaults do (2 * 8 + 4 * 3 = 28 <= 60 <= 120 seconds); the environment of
  either program can set others, with which an outage can stay off the record. Both
  take fractions of seconds too, which the model does not.
* **PulsecheckProofs**, first part (`Spec` of `FeedService`): `Connected`,
  `LatestIsHistory`, `CountedIsStored`, `StoresAgree`, for any symbols, listed twice
  or not, and any limit on attempts, zero and less included. `IInv` adds that
  between INSERT and SET the row in flight is the newest one of its symbol, and
  that connections exist wherever they are used.
* **PulsecheckProofs**, second part (`SystemSpec` of `Pulsecheck`): the two
  together implement `Watchdog`, so that all theorems about the watchdog hold with
  the feed service as its target; and they implement `FeedService`, so that the stores
  are as consistent under a watchdog that restarts the service at any step
  (`StoresFineUnderWatchdog`). The first is about the behaviours that stay below
  `MaxFaults` (`InBound`), because that bound is the model's and not the code's:
  `Watchdog` has it as a guard, the feed service fails as often as it does.

They rest on the constants' named assumptions only (thresholds positive, at
least one symbol, bounds natural numbers, a window shorter than the cooldown, and
for `OutageStaysOnRecord` the settings above), which TLC evaluates in every run.
`config.py` accepts an empty list of symbols too, of which nothing is said here:
such a service writes nothing.

Every invariant and every action property of a passing run is stated by a
theorem, and so are the refinements. Only model-checked is liveness
(`PersistentFaultIsHandled`, `RecoveryIsRecorded`, `SeesWhatIsWritten`,
`DueIsRecorded`, `SelfHeals`, `KillIsRecovered`), which needs ENABLED.

## 6. Not modelled, and why

* The text of log lines, symptoms and alerts; timestamps of rows. No property
  is about them.
* `_last_write_ts` and the histogram: values rendered at a scrape, read by
  nothing in the repository.
* The random walk of prices: only which write a price came from matters.
* `--once`, which polls and changes nothing; `GET /`.
* CPU and network degradation: for the watchdog, a `/health` that fails.
* The fallback time of a log line without `ts` in `LogWatcher`; a rule that is
  fed times in any order is `RuleHistory`'s subject.
* A log truncated or removed in the middle of a line: what is left of that line is
  garbage in the file itself, whatever reads it.
* The cooldown over deaths of the log-watcher: a new process has no memory of it,
  so two lives may open rows close together (`RowsAreSpaced` is about one life).
* The order between `stop()` and the generator's thread: `FeedService` may exit
  between any two calls, which covers every order in which the two can end.
* A database or a Postgres that accepts a call and never answers: fairness says
  that calls return.
* Prometheus, Grafana, CI: configuration of programs outside the repository.

## 7. Plan

Done, in this order: the state machine and the watchdog (they act), the table they
share, the rules, the tailer, the feed service, the outage seen by the rules,
the log-watcher, the alerts, the whole; theorems about everything but liveness.

What could follow: lines out of order in `LogWatcher`, which need a weaker
`RowsAreDue`. The watchdog's theorems are not restated about `Pulsecheck`, of which
they hold by `ImplementsWatchdog`: tlapm makes no use of the theorems of an
instantiated module.
