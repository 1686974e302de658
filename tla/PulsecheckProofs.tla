-------------------------- MODULE PulsecheckProofs --------------------------
(***************************************************************************)
(* Proofs about the feed service, alone and with the watchdog at work on   *)
(* it, for every list of symbols, every number of connection attempts and  *)
(* of outages, and any thresholds.  First, for FeedService: the generator  *)
(* always has its connections, and the two stores never contradict each    *)
(* other.  Then, for Pulsecheck: the two programs together are a behaviour *)
(* of each of the two specifications (what one does is, to the other, a    *)
(* fault, a repair or nothing), so that what is proved of either of them   *)
(* alone holds of both.                                                    *)
(***************************************************************************)
EXTENDS Pulsecheck, TLAPS

\* From the moment Postgres answered first, there is a connection object.
Wired ==
  /\ pc \in {"init_schema", "start_redis"} \/ Serving => pg_conn # "none"
  /\ Serving => redis_conn = TRUE

\* Between its two writes a tick is the newest row of its symbol.
HalfWritten ==
  pc = "set" => <<Symbol, price>> \in ticks /\ newest[Symbol] = price

StoresFine == HalfWritten /\ LatestIsHistory /\ CountedIsStored /\ StoresAgree

IInv == TypeOK /\ Wired /\ StoresFine

PriceSet == 0..(Prices - 1)

LEMMA SymbolsIndexed == \A i \in 1..Len(symbols) : symbols[i] \in Symbols
<1>1. DOMAIN symbols = 1..Len(symbols)
  BY SymbolAssumption
<1> QED BY <1>1 DEF Symbols

LEMMA FirstSymbol == 1 \in 1..Len(symbols)
  BY SymbolAssumption

LEMMA NextPrice == ASSUME NEW p \in PriceSet PROVE (p + 1) % Prices \in PriceSet
  BY PriceAssumption DEF PriceSet

LEMMA NextSymbolTyped ==
  ASSUME current \in 1..Len(symbols), NextSymbol
  PROVE  current' \in 1..Len(symbols) /\ pc' \in {"insert", "wait"}
  BY SymbolAssumption, FirstSymbol DEF NextSymbol

----------------------------------------------------------------------------
LEMMA InitInvariant == Init => IInv
<1> SUFFICES ASSUME Init PROVE IInv OBVIOUS
<1>1. TypeOK
  <2>1. attempt = 0 /\ price \in 0..(Prices - 1) /\ lost \in 0..MaxLost
    BY AttemptAssumption, PriceAssumption, LostAssumption DEF Init
  <2>2. redis_conn \in BOOLEAN /\ pg_up \in BOOLEAN /\ redis_up \in BOOLEAN
    BY ZenonT(20) DEF Init
  <2>3. /\ newest \in [Symbols -> 0..(Prices - 1) \cup {NoPrice}]
        /\ latest \in [Symbols -> 0..(Prices - 1) \cup {NoPrice}]
    BY DEF Init
  <2>4. current \in 1..Len(symbols) /\ pc = "start_pg" /\ pg_conn = "none"
    BY FirstSymbol DEF Init
  <2> QED BY <2>1, <2>2, <2>3, <2>4 DEF Init, TypeOK
<1>2. Wired /\ HalfWritten
  BY DEF Init, Wired, HalfWritten, Serving, Starting
<1>3. LatestIsHistory /\ CountedIsStored /\ StoresAgree
  BY DEF Init, LatestIsHistory, CountedIsStored, StoresAgree
<1> QED BY <1>1, <1>2, <1>3 DEF IInv, StoresFine

\* The connect loops, the schema and the servers leave the stores alone.
LEMMA KeptStores ==
  ASSUME StoresFine, KeepStores,
         \/ pc # "set" /\ pc' # "set"
         \/ UNCHANGED <<pc, current>>
  PROVE  StoresFine'
<1>1. UNCHANGED <<price, ticks, newest, latest, stored, counted, unsettled>>
  BY DEF KeepStores, storeVars, resultVars
<1>2. HalfWritten'
  BY <1>1 DEF StoresFine, HalfWritten, Symbol
<1>3. LatestIsHistory' /\ CountedIsStored'
  BY <1>1 DEF StoresFine, LatestIsHistory, CountedIsStored
<1>4. StoresAgree'
  BY <1>1 DEF StoresFine, StoresAgree, InFlight, Symbol
<1> QED BY <1>2, <1>3, <1>4 DEF StoresFine

LEMMA StartupInvariant == ASSUME IInv, StartPg \/ InitSchema \/ StartRedis PROVE IInv'
<1>t. TypeOK /\ Wired /\ StoresFine
  BY DEF IInv
<1>1. CASE StartPg
  <2>1. TypeOK'
    BY <1>1, <1>t, AttemptAssumption
    DEF StartPg, TypeOK, ConnectPg, Retry, GiveUp, LastAttempt, KeepStores, storeVars,
        resultVars, connVars, worldVars
  <2>2. Wired'
    BY <1>1, <1>t
    DEF StartPg, Wired, ConnectPg, Retry, GiveUp, Serving, Starting, Exited, connVars
  <2>3. KeepStores /\ pc # "set" /\ pc' # "set"
    BY <1>1, <1>t DEF StartPg, ConnectPg, Retry, GiveUp
  <2>4. StoresFine'
    BY <1>t, <2>3, KeptStores
  <2> QED BY <2>1, <2>2, <2>4 DEF IInv
<1>2. CASE InitSchema
  <2>1. TypeOK'
    BY <1>2, <1>t
    DEF InitSchema, TypeOK, KeepStores, storeVars, resultVars, connVars, worldVars
  <2>2. Wired'
    BY <1>2, <1>t DEF InitSchema, Wired, Serving, Starting, Exited, connVars
  <2>3. KeepStores /\ pc # "set" /\ pc' # "set"
    BY <1>2, <1>t DEF InitSchema
  <2>4. StoresFine'
    BY <1>t, <2>3, KeptStores
  <2> QED BY <2>1, <2>2, <2>4 DEF IInv
<1>3. CASE StartRedis
  <2>0. redis_conn' \in BOOLEAN
    BY <1>3, <1>t, ZenonT(20) DEF StartRedis, TypeOK, ConnectRedis, Retry, GiveUp, connVars
  <2>1. TypeOK'
    BY <1>3, <1>t, <2>0, AttemptAssumption
    DEF StartRedis, TypeOK, ConnectRedis, Retry, GiveUp, LastAttempt, KeepStores, storeVars,
        resultVars, connVars, worldVars
  <2>2. Wired'
    BY <1>3, <1>t
    DEF StartRedis, Wired, ConnectRedis, Retry, GiveUp, Serving, Starting, Exited, connVars
  <2>3. KeepStores /\ pc # "set" /\ pc' # "set"
    BY <1>3, <1>t DEF StartRedis, ConnectRedis, Retry, GiveUp
  <2>4. StoresFine'
    BY <1>t, <2>3, KeptStores
  <2> QED BY <2>1, <2>2, <2>4 DEF IInv
<1> QED BY <1>1, <1>2, <1>3

LEMMA ReconnectInvariant == ASSUME IInv, ReconnectPg \/ ReconnectRedis \/ Wait PROVE IInv'
<1>t. TypeOK /\ Wired /\ StoresFine /\ current \in 1..Len(symbols)
  BY DEF IInv, TypeOK
<1>1. CASE ReconnectPg
  <2>1. TypeOK'
    BY <1>1, <1>t, AttemptAssumption, NextSymbolTyped
    DEF ReconnectPg, TypeOK, ConnectPg, Retry, ReconnectFails, LastAttempt, KeepStores, storeVars,
        resultVars, connVars, worldVars
  <2>2. Wired'
    BY <1>1, <1>t, NextSymbolTyped
    DEF ReconnectPg, Wired, ConnectPg, Retry, ReconnectFails, Serving, Starting, Exited, connVars
  <2>3. KeepStores /\ pc # "set" /\ pc' # "set"
    BY <1>1, <1>t, NextSymbolTyped DEF ReconnectPg, ConnectPg, Retry, ReconnectFails
  <2>4. StoresFine'
    BY <1>t, <2>3, KeptStores
  <2> QED BY <2>1, <2>2, <2>4 DEF IInv
<1>2. CASE ReconnectRedis
  <2>0. redis_conn' \in BOOLEAN
    BY <1>2, <1>t, ZenonT(20) DEF ReconnectRedis, TypeOK, Retry, ReconnectFails, connVars
  <2>1. TypeOK'
    BY <1>2, <1>t, <2>0, AttemptAssumption, NextSymbolTyped
    DEF ReconnectRedis, TypeOK, Retry, ReconnectFails, LastAttempt, KeepStores, storeVars,
        resultVars, connVars, worldVars
  <2>2. Wired'
    BY <1>2, <1>t, NextSymbolTyped
    DEF ReconnectRedis, Wired, Retry, ReconnectFails, Serving, Starting, Exited, connVars
  <2>3. KeepStores /\ pc # "set" /\ pc' # "set"
    BY <1>2, <1>t, NextSymbolTyped DEF ReconnectRedis, Retry, ReconnectFails
  <2>4. StoresFine'
    BY <1>t, <2>3, KeptStores
  <2> QED BY <2>1, <2>2, <2>4 DEF IInv
<1>3. CASE Wait
  <2>1. TypeOK'
    BY <1>3, <1>t DEF Wait, TypeOK, KeepStores, storeVars, resultVars, connVars, worldVars
  <2>2. Wired'
    BY <1>3, <1>t DEF Wait, Wired, Serving, Starting, Exited, connVars
  <2>3. KeepStores /\ pc # "set" /\ pc' # "set"
    BY <1>3, <1>t DEF Wait
  <2>4. StoresFine'
    BY <1>t, <2>3, KeptStores
  <2> QED BY <2>1, <2>2, <2>4 DEF IInv
<1> QED BY <1>1, <1>2, <1>3

----------------------------------------------------------------------------
\* The two writes of a tick.

LEMMA InsertRowTyped ==
  ASSUME TypeOK, InsertRow, price' \in PriceSet
  PROVE  /\ ticks' \subseteq Symbols \X PriceSet
         /\ newest' \in [Symbols -> PriceSet \cup {NoPrice}]
         /\ newest'[Symbol] = price'
         /\ \A s \in Symbols : s # Symbol => newest'[s] = newest[s]
         /\ Symbol \in Symbols
<1>1. Symbol \in Symbols
  BY SymbolsIndexed DEF TypeOK, Symbol
<1> QED BY <1>1 DEF TypeOK, InsertRow, PriceSet

LEMMA InsertInvariant == ASSUME IInv, Insert PROVE IInv'
<1>t. TypeOK /\ Wired /\ StoresFine /\ current \in 1..Len(symbols)
  BY DEF IInv, TypeOK
<1>p. price' \in PriceSet
  BY <1>t, NextPrice DEF Insert, TypeOK, PriceSet
<1>s. Symbol \in Symbols
  BY <1>t, SymbolsIndexed DEF Symbol
<1>u. /\ UNCHANGED <<attempt, current, latest, stored, counted, redis_conn, pg_up, redis_up>>
      /\ lost' \in 0..MaxLost
      /\ pg_conn' \in {"live", "broken"}
      /\ pc = "insert" /\ pc' \in {"set", "reconnect_pg"}
  BY <1>t, LostAssumption
  DEF Insert, WriteRaises, AnswerLost, worldVars, connVars, TypeOK
<1>w. \/ /\ InsertRow
         /\ \/ pc' = "set" /\ unsettled' = unsettled
            \/ pc' = "reconnect_pg" /\ unsettled' = unsettled \cup {Symbol}
      \/ /\ UNCHANGED <<ticks, newest>>
         /\ pc' = "reconnect_pg" /\ unsettled' = unsettled \cup {Symbol}
  BY DEF Insert, WriteRaises
<1>y. Symbol' = Symbol
  BY <1>u DEF Symbol
<1>1. TypeOK'
  BY <1>t, <1>p, <1>s, <1>u, <1>w, InsertRowTyped DEF TypeOK, PriceSet
<1>2. Wired'
  BY <1>t, <1>u DEF Wired, Serving, Starting, Exited
<1>3. ticks \subseteq ticks'
  BY <1>w DEF InsertRow
<1>4. LatestIsHistory' /\ CountedIsStored'
  BY <1>t, <1>u, <1>3 DEF StoresFine, LatestIsHistory, CountedIsStored
<1>5. HalfWritten'
  BY <1>t, <1>p, <1>u, <1>w, <1>y, InsertRowTyped DEF HalfWritten, InsertRow
<1>6. StoresAgree'
  <2> SUFFICES ASSUME NEW s \in Symbols
               PROVE  \/ latest'[s] = newest'[s] \/ latest'[s] = NoPrice
                      \/ s \in unsettled'
                      \/ pc' = "set" /\ s = Symbol'
    BY DEF StoresAgree, InFlight
  <2>1. CASE s = Symbol
    BY <2>1, <1>w, <1>y
  <2>2. CASE s # Symbol
    <3>1. newest'[s] = newest[s]
      BY <2>2, <1>t, <1>p, <1>w, InsertRowTyped
    <3>2. unsettled \subseteq unsettled'
      BY <1>w
    <3>3. latest[s] = newest[s] \/ latest[s] = NoPrice \/ s \in unsettled
      BY <2>2, <1>t DEF StoresFine, StoresAgree, InFlight
    <3>4. latest'[s] = latest[s]
      BY <1>u
    <3> QED BY <3>1, <3>2, <3>3, <3>4
  <2> QED BY <2>1, <2>2
<1> QED BY <1>1, <1>2, <1>4, <1>5, <1>6 DEF IInv, StoresFine

LEMMA SetInvariant == ASSUME IInv, Set PROVE IInv'
<1>t. TypeOK /\ Wired /\ StoresFine /\ current \in 1..Len(symbols) /\ pc = "set"
  BY DEF IInv, TypeOK, Set
<1>s. Symbol \in Symbols /\ price \in PriceSet
  BY <1>t, SymbolsIndexed DEF Symbol, TypeOK, PriceSet
<1>h. <<Symbol, price>> \in ticks /\ newest[Symbol] = price
  BY <1>t DEF StoresFine, HalfWritten
<1>u. /\ UNCHANGED <<attempt, price, pg_conn, redis_conn, ticks, newest, pg_up, redis_up>>
      /\ lost' \in 0..MaxLost
  BY <1>t, LostAssumption DEF Set, AnswerLost, worldVars, connVars, TypeOK
<1>c. current' \in 1..Len(symbols) /\ pc' \in {"insert", "wait", "reconnect_pg"}
  BY <1>t, NextSymbolTyped DEF Set, WriteRaises
<1>w. \/ SetKey /\ counted' = counted \cup {<<Symbol, price>>} /\ unsettled' = unsettled \ {Symbol}
      \/ /\ SetKey \/ UNCHANGED <<latest, stored>>
         /\ counted' = counted /\ unsettled' = unsettled \cup {Symbol}
  BY DEF Set, WriteRaises
<1>k. /\ latest' \in [Symbols -> PriceSet \cup {NoPrice}]
      /\ latest'[Symbol] = price \/ latest' = latest
      /\ \A s \in Symbols : s # Symbol => latest'[s] = latest[s]
      /\ stored' \in {stored, stored \cup {<<Symbol, price>>}}
  BY <1>t, <1>s, <1>w DEF SetKey, TypeOK, PriceSet
<1>1. TypeOK'
  <2>1. /\ counted' \subseteq Symbols \X PriceSet /\ stored' \subseteq Symbols \X PriceSet
        /\ unsettled' \subseteq Symbols
    BY <1>t, <1>s, <1>w, <1>k DEF TypeOK, PriceSet
  <2> QED BY <1>t, <1>u, <1>c, <1>k, <2>1 DEF TypeOK, PriceSet
<1>2. Wired'
  BY <1>t, <1>u, <1>c DEF Wired, Serving, Starting, Exited
<1>3. LatestIsHistory'
  BY <1>t, <1>h, <1>u, <1>k DEF StoresFine, LatestIsHistory
<1>4. CountedIsStored'
  BY <1>t, <1>h, <1>u, <1>w DEF StoresFine, CountedIsStored, SetKey
<1>5. HalfWritten'
  BY <1>c DEF HalfWritten
<1>6. StoresAgree'
  <2> SUFFICES ASSUME NEW s \in Symbols
               PROVE  latest'[s] = newest'[s] \/ latest'[s] = NoPrice \/ s \in unsettled'
    BY DEF StoresAgree
  <2>1. CASE s = Symbol
    <3>1. CASE s \in unsettled'
      BY <3>1
    <3>2. CASE SetKey
      BY <3>2, <2>1, <1>s, <1>h, <1>u, <1>t DEF SetKey, TypeOK
    <3> QED BY <3>1, <3>2, <2>1, <1>w
  <2>2. CASE s # Symbol
    BY <2>2, <1>t, <1>u, <1>k, <1>w DEF StoresFine, StoresAgree, InFlight
  <2> QED BY <2>1, <2>2
<1> QED BY <1>1, <1>2, <1>3, <1>4, <1>5, <1>6 DEF IInv, StoresFine

----------------------------------------------------------------------------
\* Around the process.

LEMMA ProcessEnds ==
  ASSUME IInv, pc' \in {"killed", "start_pg"}, attempt' = 0, current' \in 1..Len(symbols),
         pg_conn' = "none", redis_conn' = FALSE,
         unsettled' = IF pc = "set" THEN unsettled \cup {Symbol} ELSE unsettled,
         UNCHANGED <<price, worldVars, storeVars>>,
         counted' \subseteq counted
  PROVE  IInv'
<1>t. TypeOK /\ StoresFine
  BY DEF IInv
<1>u. UNCHANGED <<price, pg_up, redis_up, lost, ticks, newest, latest, stored>>
  BY DEF worldVars, storeVars
<1>s. Symbol \in Symbols
  BY <1>t, SymbolsIndexed DEF Symbol, TypeOK
<1>1. TypeOK'
  <2>1. redis_conn' \in BOOLEAN
    BY ZenonT(20)
  <2>2. unsettled' \subseteq Symbols
    BY <1>t, <1>s DEF TypeOK
  <2> QED BY <1>t, <1>u, <2>1, <2>2, AttemptAssumption DEF TypeOK
<1>2. Wired' /\ HalfWritten'
  BY DEF Wired, HalfWritten, Serving, Starting, Exited
<1>3. LatestIsHistory' /\ CountedIsStored'
  BY <1>t, <1>u DEF StoresFine, LatestIsHistory, CountedIsStored
<1>4. StoresAgree'
  BY <1>t, <1>u DEF StoresFine, StoresAgree, InFlight
<1> QED BY <1>1, <1>2, <1>3, <1>4 DEF IInv, StoresFine

LEMMA ServersInvariant == ASSUME IInv, Servers PROVE IInv'
<1>t. TypeOK /\ Wired /\ StoresFine
  BY DEF IInv
<1>c. /\ UNCHANGED <<pc, attempt, current, price, redis_conn, ticks, newest, stored, counted,
                     unsettled>>
      /\ pg_conn' = pg_conn \/ pg_conn' = "broken"
      /\ lost' \in 0..MaxLost
  BY <1>t, LostAssumption
  DEF Servers, PgDown, PgUp, ConnectionDropped, RedisDown, RedisUp, Break, AnswerLost,
      KeepStores, storeVars, resultVars, connVars, TypeOK
<1>d. latest' = latest \/ RedisDown
  BY DEF Servers, PgDown, PgUp, ConnectionDropped, RedisUp, KeepStores, storeVars
<1>b. pg_up' \in BOOLEAN /\ redis_up' \in BOOLEAN
  BY <1>t, ZenonT(60)
  DEF Servers, PgDown, PgUp, ConnectionDropped, RedisDown, RedisUp, AnswerLost, TypeOK
<1>l. latest' = latest \/ latest' = [s \in Symbols |-> NoPrice]
  BY <1>d DEF RedisDown
<1>1. TypeOK'
  BY <1>t, <1>c, <1>b, <1>l DEF TypeOK
<1>2. Wired'
  BY <1>t, <1>c DEF Wired, Serving, Starting, Exited
<1>3. HalfWritten' /\ CountedIsStored'
  BY <1>t, <1>c DEF StoresFine, HalfWritten, CountedIsStored, Symbol
<1>4. LatestIsHistory' /\ StoresAgree'
  BY <1>t, <1>c, <1>l DEF StoresFine, LatestIsHistory, StoresAgree, InFlight, Symbol
<1> QED BY <1>1, <1>2, <1>3, <1>4 DEF IInv, StoresFine

LEMMA NextInvariant == ASSUME IInv, [Next]_vars PROVE IInv'
<1>1. CASE StartPg \/ InitSchema \/ StartRedis
  BY <1>1, StartupInvariant
<1>2. CASE Insert
  BY <1>2, InsertInvariant
<1>3. CASE Set
  BY <1>3, SetInvariant
<1>4. CASE ReconnectPg \/ ReconnectRedis \/ Wait
  BY <1>4, ReconnectInvariant
<1>5. CASE Servers
  BY <1>5, ServersInvariant
<1>6. CASE Exit
  <2>1. current' \in 1..Len(symbols)
    BY <1>6 DEF Exit, IInv, TypeOK
  <2>2. UNCHANGED <<price, worldVars, storeVars>> /\ counted' \subseteq counted
    BY <1>6 DEF Exit
  <2> QED BY <1>6, <2>1, <2>2, ProcessEnds DEF Exit
<1>7. CASE Restart
  <2>1. current' \in 1..Len(symbols)
    BY <1>7, FirstSymbol DEF Restart
  <2>2. UNCHANGED <<price, worldVars, storeVars>> /\ counted' \subseteq counted
    BY <1>7 DEF Restart
  <2> QED BY <1>7, <2>1, <2>2, ProcessEnds DEF Restart
<1>8. CASE UNCHANGED vars
  <2>1. TypeOK' /\ Wired'
    BY <1>8
    DEF IInv, TypeOK, Wired, Serving, Starting, Exited, vars, connVars, worldVars, storeVars,
        resultVars
  <2>2. KeepStores /\ UNCHANGED <<pc, current>>
    BY <1>8 DEF vars, KeepStores
  <2> QED BY <2>1, <2>2, KeptStores DEF IInv
<1> QED BY <1>1, <1>2, <1>3, <1>4, <1>5, <1>6, <1>7, <1>8
        DEF Next, ServiceStep, GeneratorStep

LEMMA Invariant == Spec => []IInv
  BY InitInvariant, NextInvariant, PTL DEF Spec

----------------------------------------------------------------------------
\* Every variable of the feed service keeps its type.
THEOREM TypeCorrect == Spec => []TypeOK
<1>1. IInv => TypeOK
  BY DEF IInv
<1> QED BY <1>1, Invariant, PTL

\* The generator never writes through a connection that was never made: a
\* failed _reconnect leaves the old objects in place (generator.py:114-124).
THEOREM AlwaysConnected == Spec => []Connected
<1>1. IInv => Connected
  BY DEF IInv, Wired, Connected
<1> QED BY <1>1, Invariant, PTL

\* What Redis shows is in Postgres' history, through any sequence of outages,
\* lost answers, kills and restarts (generator.py:101-106).
THEOREM RedisNeverAhead == Spec => []LatestIsHistory
<1>1. IInv => LatestIsHistory
  BY DEF IInv, StoresFine
<1> QED BY <1>1, Invariant, PTL

\* The counter of processed ticks never counts a tick one of the stores did
\* not take (generator.py:107, metrics.py:35-38).
THEOREM CountIsHonest == Spec => []CountedIsStored
<1>1. IInv => CountedIsStored
  BY DEF IInv, StoresFine
<1> QED BY <1>1, Invariant, PTL

\* Postgres and Redis differ only about a symbol whose last write failed, was
\* cut short or is under way, or that Redis has lost.
THEOREM StoresDifferOnlyWhenKnown == Spec => []StoresAgree
<1>1. IInv => StoresAgree
  BY DEF IInv, StoresFine
<1> QED BY <1>1, Invariant, PTL

----------------------------------------------------------------------------
\* The two programs together.

\* The bound on faults of Watchdog leaves room for those of the feed service.
InBound == faults <= MaxFaults

Container == IF Exited THEN "stopped" ELSE "running"

----------------------------------------------------------------------------
\* To the watchdog, three things can happen to its target: the process exits,
\* /health turns bad, /health turns good.

LEMMA ExitIsFault ==
  ASSUME UNCHANGED dogOwnVars, faults \in Nat, faults' <= MaxFaults, MaxFaults \in Nat,
         ~Exited, Exited', ~HealthOk', faults' = faults + 1
  PROVE  Dog!Fault
BY DEF dogOwnVars, Dog!Fault, Dog!monitorVars, Dog!processVars, Dog!historyVars

LEMMA BadHealthIsFault ==
  ASSUME UNCHANGED dogOwnVars, faults \in Nat, faults' <= MaxFaults, MaxFaults \in Nat,
         Exited' = Exited, HealthOk, ~HealthOk', faults' = faults + 1
  PROVE  Dog!Fault
<1>1. faults < MaxFaults /\ Container' = Container
  BY DEF Container
<1>2. HealthOk /\ HealthOk' = FALSE /\ docker' = docker
  BY DEF dogOwnVars
<1>3. UNCHANGED <<Dog!monitorVars, rows, Dog!processVars, crashes, Dog!historyVars>>
  BY DEF dogOwnVars, Dog!monitorVars, Dog!processVars, Dog!historyVars
<1> QED
  BY <1>1, <1>2, <1>3 DEF Dog!Fault, Container

LEMMA GoodHealthIsRepair ==
  ASSUME UNCHANGED dogOwnVars, ~Exited, ~Exited',
         ~HealthOk, HealthOk', faults' = faults
  PROVE  Dog!Repair
BY DEF dogOwnVars, Dog!Repair, Dog!monitorVars, Dog!processVars, Dog!historyVars

LEMMA NothingIsStutter ==
  ASSUME UNCHANGED dogOwnVars, Exited' = Exited,
         HealthOk' = HealthOk, faults' = faults
  PROVE  UNCHANGED Dog!vars
BY DEF dogOwnVars, Dog!vars, Dog!monitorVars, Dog!processVars, Dog!historyVars, Dog!targetVars

----------------------------------------------------------------------------
\* A process that has exited takes no step.
LEMMA ServiceIsRunning ==
  ASSUME ServiceStep
  PROVE  ~Exited
<1>1. pc \in {"start_pg", "init_schema", "start_redis", "insert", "set",
                   "reconnect_pg", "reconnect_redis", "wait"}
  BY DEF ServiceStep, GeneratorStep, StartPg, InitSchema, StartRedis,
         Insert, Set, ReconnectPg, ReconnectRedis, Wait
<1> QED
  BY <1>1 DEF Exited

----------------------------------------------------------------------------
\* Every step of the two together, as the watchdog sees it.

LEMMA NotedFault ==
  ASSUME UNCHANGED dogOwnVars, NoteFault, faults \in Nat, InBound',
         Exited => Exited'
  PROVE  Dog!Next \/ UNCHANGED Dog!vars
<1>1. (Exited => ~HealthOk) /\ (Exited' => ~HealthOk')
  BY DEF HealthOk, Serving
<1>2. CASE ~Exited /\ Exited'
  <2>1. faults' = faults + 1
    BY <1>2 DEF NoteFault
  <2> QED
    BY <1>1, <1>2, <2>1, ExitIsFault, BoundAssumption
       DEF InBound, Dog!Next, Dog!Environment
<1>3. CASE ~Exited /\ ~Exited' /\ HealthOk /\ ~HealthOk'
  <2>1. faults' = faults + 1 /\ Exited' = Exited
    BY <1>3 DEF NoteFault, Exited
  <2> QED
    BY <1>3, <2>1, BadHealthIsFault, BoundAssumption
       DEF InBound, Dog!Next, Dog!Environment
<1>4. CASE ~Exited /\ ~Exited' /\ ~HealthOk /\ HealthOk'
  <2>1. faults' = faults
    BY <1>4 DEF NoteFault
  <2> QED
    BY <1>4, <2>1, GoodHealthIsRepair DEF Dog!Next, Dog!Environment
<1>5. CASE ~Exited /\ ~Exited' /\ (HealthOk <=> HealthOk')
  <2>1. faults' = faults /\ Exited' = Exited
    BY <1>5 DEF NoteFault, Exited
  <2>2. HealthOk' = HealthOk
    BY <1>5 DEF HealthOk
  <2> QED
    BY <2>1, <2>2, NothingIsStutter
<1>6. CASE Exited
  <2>1. faults' = faults /\ Exited' = Exited
    BY <1>1, <1>6 DEF NoteFault, Exited
  <2>2. HealthOk' = HealthOk
    BY <1>1, <1>6 DEF HealthOk
  <2> QED
    BY <2>1, <2>2, NothingIsStutter
<1> QED
  BY <1>2, <1>3, <1>4, <1>5, <1>6

LEMMA FeedStepMaps ==
  ASSUME faults \in Nat, InBound', FeedRuns \/ ServerDown \/ Kill
  PROVE  Dog!Next \/ UNCHANGED Dog!vars
<1>1. UNCHANGED dogOwnVars /\ NoteFault
  BY DEF FeedRuns, ServerDown, Kill
<1>2. Exited => Exited'
  <2>1. CASE FeedRuns
    BY <2>1, ServiceIsRunning DEF FeedRuns
  <2>2. CASE ServerDown
    <3>1. pc' = pc
      BY <2>2 DEF ServerDown, PgDown, RedisDown
    <3> QED
      BY <3>1 DEF Exited
  <2>3. CASE Kill
    BY <2>3 DEF Kill, Exit
  <2> QED
    BY <2>1, <2>2, <2>3
<1> QED
  BY <1>1, <1>2, NotedFault

LEMMA ServerRecoversMaps ==
  ASSUME ServerRecovers
  PROVE  Dog!Next \/ UNCHANGED Dog!vars
<1>1. /\ UNCHANGED dogOwnVars /\ faults' = faults
      /\ PgUp \/ RedisUp \/ ConnectionDropped
  BY DEF ServerRecovers
<1>2. pc' = pc /\ (pg_up => pg_up') /\ (redis_up => redis_up')
  BY <1>1 DEF PgUp, RedisUp, ConnectionDropped, AnswerLost
<1>3. Exited' = Exited /\ Serving' = Serving
  BY <1>2 DEF Exited, Serving, Starting
<1>4. HealthOk => HealthOk'
  BY <1>2, <1>3 DEF HealthOk
<1>5. CASE HealthOk <=> HealthOk'
  <2>1. HealthOk' = HealthOk
    BY <1>5 DEF HealthOk
  <2> QED
    BY <1>1, <1>3, <2>1, NothingIsStutter
<1>6. CASE ~HealthOk /\ HealthOk'
  <2>1. ~Exited /\ ~Exited'
    BY <1>3, <1>6 DEF HealthOk, Serving
  <2> QED
    BY <1>1, <1>6, <2>1, GoodHealthIsRepair DEF Dog!Next, Dog!Environment
<1> QED
  BY <1>4, <1>5, <1>6

LEMMA DogStepMaps ==
  ASSUME DogRuns \/ DogDies
  PROVE  Dog!Next
BY DEF DogRuns, DogDies, DogWatches, DogRestarts, DogRestartErrs,
       Dog!Next, Dog!WatchdogStep, Dog!Environment

\* Faults are counted one by one.
LEMMA FaultsAreCounted ==
  ASSUME faults \in Nat, [SystemNext]_systemVars
  PROVE  faults' \in Nat
<1>1. faults' \in {faults, faults + 1}
  <2>1. CASE FeedRuns \/ ServerDown \/ Kill
    BY <2>1 DEF FeedRuns, ServerDown, Kill, NoteFault
  <2>2. CASE ServerRecovers
    BY <2>2 DEF ServerRecovers
  <2>3. CASE DogWatches
    BY <2>3 DEF DogWatches, Dog!KeepWorld, Dog!ContainerCheck, Dog!HealthCheck,
       Dog!ObserveQuietly, Dog!ObserveFailureConfirmed, Dog!ObserveRecovered,
       Dog!OpenRow, Dog!RecordAction, Dog!IncidentAlert, Dog!SelectOpen,
       Dog!ResolveRow, Dog!RecoveryAlert
  <2>4. CASE DogRestarts \/ DogRestartErrs
    BY <2>4 DEF DogRestarts, DogRestartErrs, Dog!RestartSucceeds, Dog!RestartErrs
  <2>5. CASE DogDies
    BY <2>5 DEF DogDies, Dog!Crash, Dog!Start
  <2>6. CASE UNCHANGED systemVars
    BY <2>6 DEF systemVars
  <2> QED
    BY <2>1, <2>2, <2>3, <2>4, <2>5, <2>6 DEF SystemNext, DogRuns
<1> QED
  BY <1>1

LEMMA StepMaps ==
  ASSUME faults \in Nat, InBound', [SystemNext]_systemVars
  PROVE  [Dog!Next]_Dog!vars
<1>1. CASE FeedRuns \/ ServerDown \/ Kill
  BY <1>1, FeedStepMaps
<1>2. CASE ServerRecovers
  BY <1>2, ServerRecoversMaps
<1>3. CASE DogRuns \/ DogDies
  BY <1>3, DogStepMaps
<1>4. CASE UNCHANGED systemVars
  <2>1. /\ UNCHANGED dogOwnVars /\ faults' = faults /\ pc' = pc
        /\ pg_up' = pg_up /\ redis_up' = redis_up
    BY <1>4 DEF systemVars, vars, connVars, worldVars, dogOwnVars
  <2>2. Exited' = Exited /\ HealthOk' = HealthOk
    BY <2>1 DEF Exited, HealthOk, Serving, Starting
  <2> QED
    BY <2>1, <2>2, NothingIsStutter
<1> QED
  BY <1>1, <1>2, <1>3, <1>4 DEF SystemNext

----------------------------------------------------------------------------
\* What Watchdog leaves to its target is no less than what the feed service
\* does (docker-compose.yml, main.py): every step of the two is one of Watchdog,
\* as long as its bound on faults has room for them.
THEOREM ImplementsWatchdog == SystemSpec /\ []InBound => IsWatchdog
<1> DEFINE Counted == faults \in Nat
<1>1. SystemInit => Dog!Init
  BY DEF SystemInit
<1>2. SystemInit => Counted
  BY DEF SystemInit, Dog!Init
<1>3. Counted /\ [SystemNext]_systemVars => Counted'
  BY FaultsAreCounted
<1>4. Counted /\ InBound' /\ [SystemNext]_systemVars => [Dog!Next]_Dog!vars
  BY StepMaps
<1> HIDE DEF Counted
<1>5. SystemSpec => []Counted
  BY <1>2, <1>3, PTL DEF SystemSpec
<1>6. SystemSpec /\ []InBound => [][Dog!Next]_Dog!vars
  BY <1>4, <1>5, PTL DEF SystemSpec
<1> QED
  BY <1>1, <1>6, PTL DEF SystemSpec, IsWatchdog, Dog!Spec

\* And the other way round: the feed service with a watchdog at work on it
\* still is FeedService, to which the watchdog is whoever starts it again, or
\* ends it.
THEOREM ImplementsFeedService == SystemSpec => Spec
<1>1. SystemInit => Init
  BY DEF SystemInit
<1>2. [SystemNext]_systemVars => [Next]_vars
  <2>1. SUFFICES ASSUME [SystemNext]_systemVars  PROVE Next \/ UNCHANGED vars
    OBVIOUS
  <2>2. CASE ServiceStep \/ Servers \/ Exit \/ Restart
    BY <2>2 DEF Next
  <2> QED
    BY <2>1, <2>2
       DEF SystemNext, systemVars, FeedRuns, ServerDown, ServerRecovers, Kill, DogRuns, DogWatches,
           DogRestarts, DogRestartErrs, DogDies, Servers
<1> QED
  BY <1>1, <1>2, PTL DEF SystemSpec, Spec

\* So whatever the watchdog does to the service, and whenever, Redis is never
\* ahead of the history, the stores differ only where that is known, and no
\* tick is counted that one of them did not take.
COROLLARY StoresFineUnderWatchdog ==
  SystemSpec => [](LatestIsHistory /\ StoresAgree /\ CountedIsStored)
<1>1. IInv => LatestIsHistory /\ StoresAgree /\ CountedIsStored
  BY DEF IInv, StoresFine
<1> QED
  BY <1>1, Invariant, ImplementsFeedService, PTL
=============================================================================
