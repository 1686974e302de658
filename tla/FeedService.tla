----------------------------- MODULE FeedService -----------------------------
(***************************************************************************)
(* The feed-service process: startup (main.py), the tick generator thread  *)
(* (generator.py) and the connect-with-backoff loop both use (retry.py),   *)
(* against a Postgres and a Redis that come and go.                        *)
(*                                                                         *)
(* The main thread only starts the generator and waits, so one program     *)
(* counter does for both.  A price is a number modulo Prices, new for      *)
(* every write: its value does not matter, only which write it came from.  *)
(* The sleep of the backoff is the time the servers have to come and go.   *)
(***************************************************************************)
EXTENDS Integers, Sequences

CONSTANTS symbols,       \* config.symbols: a name may come twice
          max_attempts,  \* config.connect_max_attempts
          Prices,        \* bound: prices that are told apart
          MaxLost,       \* bound: errors of a server that stays up
          NoPrice        \* no such key in Redis, no such row in Postgres

\* Not empty: without a symbol the service runs and writes nothing.
ASSUME SymbolAssumption == symbols \in Seq(STRING) /\ symbols # <<>>
\* CONNECT_MAX_ATTEMPTS is any integer; with 1 or less the first failure raises.
ASSUME AttemptAssumption == max_attempts \in Int
ASSUME PriceAssumption == Prices \in Nat \ {0} /\ NoPrice \notin Nat
ASSUME LostAssumption == MaxLost \in Nat

Symbols == {symbols[i] : i \in DOMAIN symbols}

VARIABLES
  pc,         \* where the process stands
  attempt,    \* local of connect_with_backoff: failed attempts so far
  current,    \* index of the symbol the generator is at
  price,      \* the last price made
  pg_conn,    \* self._pg: "none", "live", or "broken", which it stays
  redis_conn, \* self._redis: a client, which reconnects by itself
  pg_up, redis_up,
  lost,       \* errors so far of a server that stayed up
  ticks,      \* the rows of table ticks: <<symbol, price>>
  newest,     \* the price in the newest row of each symbol
  latest,     \* the key latest:<symbol> of each symbol
  counted,    \* what ticks_processed_total counts
  stored,     \* history: the ticks that ever were in Redis
  unsettled   \* history: symbols whose last write raised or was cut short

connVars == <<pg_conn, redis_conn>>
worldVars == <<pg_up, redis_up, lost>>
storeVars == <<ticks, newest, latest, stored>>
resultVars == <<counted, unsettled>>
vars == <<pc, attempt, current, price, connVars, worldVars, storeVars, resultVars>>

Starting == pc \in {"start_pg", "init_schema", "start_redis"}
Exited == pc \in {"gave_up", "killed"}
Serving == ~Starting /\ ~Exited

Init ==
  /\ pc = "start_pg" /\ attempt = 0 /\ current = 1 /\ price = 0
  /\ pg_conn = "none" /\ redis_conn = FALSE
  /\ pg_up \in BOOLEAN /\ redis_up \in BOOLEAN
  /\ ticks = {}
  /\ newest = [s \in Symbols |-> NoPrice] /\ latest = [s \in Symbols |-> NoPrice]
  /\ counted = {} /\ stored = {} /\ unsettled = {}
  /\ lost = 0

KeepStores == UNCHANGED <<storeVars, resultVars, price>>

----------------------------------------------------------------------------
\* connect_with_backoff, used at four places: the last attempt raises.

\* Mutant: the loop does one attempt more.
LastAttempt_OneMore == attempt >= max_attempts
LastAttempt == attempt + 1 >= max_attempts

Retry == ~LastAttempt /\ attempt' = attempt + 1 /\ UNCHANGED <<pc, connVars, current>>
GiveUp(to) == LastAttempt /\ attempt' = 0 /\ pc' = to

ConnectPg(to) ==
  /\ pg_up /\ pg_conn' = "live" /\ attempt' = 0 /\ pc' = to /\ UNCHANGED <<redis_conn, current>>
ConnectRedis(to) ==
  /\ redis_up /\ redis_conn' = TRUE /\ attempt' = 0 /\ pc' = to /\ UNCHANGED <<pg_conn, current>>

\* Startup: an exception leaves the lifespan, and the process exits.
StartPg ==
  /\ pc = "start_pg"
  /\ \/ ConnectPg("init_schema")
     \/ ~pg_up /\ Retry
     \/ ~pg_up /\ GiveUp("gave_up") /\ UNCHANGED <<connVars, current>>
  /\ KeepStores /\ UNCHANGED worldVars

\* The schema is created without a retry.
InitSchema ==
  /\ pc = "init_schema"
  /\ pc' = IF pg_conn = "live" THEN "start_redis" ELSE "gave_up"
  /\ UNCHANGED <<attempt, current, connVars, worldVars>> /\ KeepStores

StartRedis ==
  /\ pc = "start_redis"
  /\ \/ ConnectRedis("insert")
     \/ ~redis_up /\ Retry
     \/ ~redis_up /\ GiveUp("gave_up") /\ UNCHANGED <<connVars, current>>
  /\ KeepStores /\ UNCHANGED worldVars

----------------------------------------------------------------------------
\* TickGenerator._run: for every symbol a new price, INSERT, SET.

Symbol == symbols[current]

\* On to the next symbol, or to the wait at the end of the round.
NextSymbol ==
  IF current < Len(symbols)
  THEN pc' = "insert" /\ current' = current + 1
  ELSE pc' = "wait" /\ current' = 1

\* Mutant: an error is logged, and nothing is reconnected.
WriteRaises_LogsOnly == NextSymbol /\ unsettled' = unsettled \cup {Symbol}
WriteRaises == pc' = "reconnect_pg" /\ unsettled' = unsettled \cup {Symbol} /\ UNCHANGED current

AnswerLost == lost < MaxLost /\ lost' = lost + 1 /\ UNCHANGED <<pg_up, redis_up>>

\* Mutant: the INSERT is never committed.
InsertRow_Uncommitted == UNCHANGED <<ticks, newest>>
InsertRow ==
  /\ ticks' = ticks \cup {<<Symbol, price'>>}
  /\ newest' = [newest EXCEPT ![Symbol] = price']

\* The INSERT is a transaction of its own; if it raises, the row may be there
\* all the same, when only the answer was lost with the connection.
Insert ==
  /\ pc = "insert"
  /\ price' = (price + 1) % Prices
  /\ \/ /\ pg_conn = "live"
        /\ InsertRow
        /\ pc' = "set" /\ UNCHANGED <<unsettled, current, connVars, worldVars>>
     \/ /\ pg_conn = "broken"
        /\ WriteRaises
        /\ UNCHANGED <<ticks, newest, connVars, worldVars>>
     \/ /\ pg_conn = "live" /\ AnswerLost
        /\ WriteRaises
        /\ \/ InsertRow /\ pg_conn' = "broken" /\ UNCHANGED redis_conn
           \/ UNCHANGED <<ticks, newest, connVars>>
  /\ UNCHANGED <<attempt, latest, stored, counted>>

SetKey ==
  /\ latest' = [latest EXCEPT ![Symbol] = price]
  /\ stored' = stored \cup {<<Symbol, price>>}

\* A SET that raises may have been done, too.
Set ==
  /\ pc = "set"
  /\ \/ /\ redis_up
        /\ SetKey
        /\ counted' = counted \cup {<<Symbol, price>>}
        /\ unsettled' = unsettled \ {Symbol}
        /\ NextSymbol
        /\ UNCHANGED worldVars
     \/ /\ ~redis_up
        /\ WriteRaises
        /\ UNCHANGED <<latest, stored, counted, worldVars>>
     \/ /\ redis_up /\ AnswerLost
        /\ WriteRaises
        /\ SetKey \/ UNCHANGED <<latest, stored>>
        /\ UNCHANGED counted
  /\ UNCHANGED <<attempt, price, connVars, ticks, newest>>

\* _reconnect: both connections are rebuilt; if that fails it is
\* logged, and the round goes on with the next symbol and whatever there is.

\* Mutant: a reconnect that fails leaves no connection.
ReconnectFails_Unset ==
  LastAttempt /\ attempt' = 0 /\ NextSymbol /\ pg_conn' = "none" /\ UNCHANGED redis_conn
ReconnectFails == LastAttempt /\ attempt' = 0 /\ NextSymbol /\ UNCHANGED connVars

ReconnectPg ==
  /\ pc = "reconnect_pg"
  /\ \/ ConnectPg("reconnect_redis")
     \/ ~pg_up /\ Retry
     \/ ~pg_up /\ ReconnectFails
  /\ KeepStores /\ UNCHANGED worldVars

ReconnectRedis ==
  /\ pc = "reconnect_redis"
  /\ \/ redis_up /\ redis_conn' = TRUE /\ attempt' = 0 /\ NextSymbol /\ UNCHANGED pg_conn
     \/ ~redis_up /\ Retry
     \/ ~redis_up /\ ReconnectFails
  /\ KeepStores /\ UNCHANGED worldVars

Wait ==
  /\ pc = "wait" /\ pc' = "insert"
  /\ UNCHANGED <<attempt, current, connVars, worldVars>> /\ KeepStores

----------------------------------------------------------------------------
\* Around the process.

\* A kill, a crash, or the exit after stop() has waited 5 seconds for the
\* thread, wherever that is by then.
Exit ==
  /\ ~Exited /\ pc' = "killed"
  /\ attempt' = 0 /\ pg_conn' = "none" /\ redis_conn' = FALSE
  /\ unsettled' = IF pc = "set" THEN unsettled \cup {Symbol} ELSE unsettled
  /\ UNCHANGED <<current, price, worldVars, storeVars, counted>>

\* A new process of the same container; it may have to end the old one first.
Restart ==
  /\ pc' = "start_pg" /\ attempt' = 0 /\ current' = 1
  /\ pg_conn' = "none" /\ redis_conn' = FALSE
  /\ unsettled' = IF pc = "set" THEN unsettled \cup {Symbol} ELSE unsettled
  /\ counted' = {}
  /\ UNCHANGED <<price, worldVars, storeVars>>

\* A server that goes down takes its connection with it, and so does a network
\* that drops it; a psycopg2 connection does not come back.
Break == pg_conn' = IF pg_conn = "live" THEN "broken" ELSE pg_conn

PgDown ==
  /\ pg_up /\ pg_up' = FALSE /\ Break
  /\ UNCHANGED <<pc, attempt, current, redis_conn, redis_up, lost>> /\ KeepStores
PgUp ==
  /\ ~pg_up /\ pg_up' = TRUE
  /\ UNCHANGED <<pc, attempt, current, connVars, redis_up, lost>> /\ KeepStores
ConnectionDropped ==
  /\ pg_conn = "live" /\ AnswerLost /\ Break
  /\ UNCHANGED <<pc, attempt, current, redis_conn>> /\ KeepStores

\* Redis keeps nothing over a restart.
RedisDown ==
  /\ redis_up /\ redis_up' = FALSE
  /\ \/ UNCHANGED latest
     \/ latest' = [s \in Symbols |-> NoPrice]
  /\ UNCHANGED <<pc, attempt, current, price, connVars, pg_up, lost, ticks, newest,
                 stored, resultVars>>
RedisUp ==
  /\ ~redis_up /\ redis_up' = TRUE
  /\ UNCHANGED <<pc, attempt, current, connVars, pg_up, lost>> /\ KeepStores

GeneratorStep == Insert \/ Set \/ ReconnectPg \/ ReconnectRedis \/ Wait
ServiceStep == StartPg \/ InitSchema \/ StartRedis \/ GeneratorStep
Servers == PgDown \/ PgUp \/ ConnectionDropped \/ RedisDown \/ RedisUp

Next == ServiceStep \/ Servers \/ Exit \/ Restart

Spec == Init /\ [][Next]_vars

\* The generator is one thread and its calls return: connecting and Redis within
\* config.connect_timeout_seconds, an INSERT, which has no timeout of its own,
\* once the kernel gives the connection up.
Fairness == WF_vars(ServiceStep)
FairSpec == Spec /\ Fairness

----------------------------------------------------------------------------
TypeOK ==
  /\ pc \in {"start_pg", "init_schema", "start_redis", "insert", "set", "reconnect_pg",
             "reconnect_redis", "wait", "gave_up", "killed"}
  /\ attempt \in Nat /\ (attempt = 0 \/ attempt < max_attempts)
  /\ current \in 1..Len(symbols)
  /\ price \in 0..(Prices - 1)
  /\ pg_conn \in {"none", "live", "broken"} /\ redis_conn \in BOOLEAN
  /\ pg_up \in BOOLEAN /\ redis_up \in BOOLEAN /\ lost \in 0..MaxLost
  /\ ticks \subseteq Symbols \X (0..(Prices - 1))
  /\ newest \in [Symbols -> 0..(Prices - 1) \cup {NoPrice}]
  /\ latest \in [Symbols -> 0..(Prices - 1) \cup {NoPrice}]
  /\ counted \subseteq Symbols \X (0..(Prices - 1))
  /\ stored \subseteq Symbols \X (0..(Prices - 1))
  /\ unsettled \subseteq Symbols

\* The generator never writes through a connection that was never made: _pg and
\* _redis are set before the thread starts, and no failed reconnect unsets them
\* (generator.py:63-67, :114-119).
Connected == Serving => pg_conn # "none" /\ redis_conn

\* "Postgres for durable tick history, Redis for the latest price": a price
\* shown by Redis is in the history, whatever fails between the two writes
\* (generator.py:101-106).
LatestIsHistory == \A s \in Symbols : latest[s] # NoPrice => <<s, latest[s]>> \in ticks

\* "Total number of ticks successfully written to Postgres + Redis"
\* (metrics.py:35-38): every tick counted was in both.
CountedIsStored == counted \subseteq ticks \cap stored

\* The two stores are written one after the other, not together.  They differ
\* only about a symbol whose write is under way, or whose last write was logged
\* as an error or cut short, or that Redis has lost.
InFlight(s) == pc = "set" /\ s = Symbol
StoresAgree ==
  \A s \in Symbols :
    latest[s] = newest[s] \/ latest[s] = NoPrice \/ s \in unsettled \/ InFlight(s)

\* "A transient Postgres/Redis outage self-heals without a process restart"
\* (generator.py:18-21): once both servers stay up, every symbol's last write
\* is good and the stores agree, from some time on.
SelfHeals ==
  <>[](pg_up /\ redis_up /\ Serving) =>
    <>[](/\ unsettled = {}
         /\ \A s \in Symbols : latest[s] = newest[s] \/ InFlight(s))
=============================================================================
