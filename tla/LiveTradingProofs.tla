--------------------------- MODULE LiveTradingProofs ---------------------------
(***************************************************************************)
(* Proofs about the live trading program, for any number of pairs, threads *)
(* and rounds and every way requests may fail and inserts may overlap.     *)
(***************************************************************************)
EXTENDS LiveTrading, TLAPS

LiveInvariant ==
    /\ LiveTypeOK /\ ThreadsHaveTheirCandles /\ MapsAreWhole /\ MainReadsSafely
    /\ NothingIsLost /\ DecisionsHaveTheirData /\ DetailsAreFresh

----------------------------------------------------------------------------
(* The candles of a pair and the maps                                      *)

\* The newest of the candles that are received, and the ones before it.
LEMMA NewestAndEarlier ==
    /\ HistDataCount \in Nat
    /\ Len(Received) = HistDataCount + 1 /\ Received[Len(Received)] = HistDataCount + 1
    /\ SubSeq(Received, 1, Len(Received) - 1) = Earlier
    /\ Len(Earlier) = HistDataCount
    /\ \A i \in 1..HistDataCount : Earlier[i] = i
<1>1. HistDataCount \in Nat
  BY LiveAssumption
<1>2. Received \in Seq(Nat) /\ Len(Received) = HistDataCount + 1
  BY <1>1 DEF Received
<1>3. Received[HistDataCount + 1] = HistDataCount + 1
  BY <1>1 DEF Received
<1>4. SubSeq(Received, 1, HistDataCount) = [i \in 1..HistDataCount |-> Received[i]]
  BY <1>1, <1>2
<1>5. \A i \in 1..HistDataCount : Received[i] = i
  BY <1>1 DEF Received
<1>6. SubSeq(Received, 1, HistDataCount) = Earlier
  BY <1>4, <1>5 DEF Earlier
<1>7. Earlier \in Seq(Nat) /\ Len(Earlier) = HistDataCount
  BY <1>1 DEF Earlier
<1>8. \A i \in 1..HistDataCount : Earlier[i] = i
  BY DEF Earlier
<1>9. Len(Received) - 1 = HistDataCount
  BY <1>1, <1>2
<1> QED
  BY <1>1, <1>2, <1>3, <1>6, <1>7, <1>8, <1>9

\* An insert keeps a map whole, whatever it loses; nothing is lost when no
\* inserts into the map have overlapped.
LEMMA InsertKeepsMapWhole ==
    ASSUME NEW map, NEW entry, NEW pair \in Instruments,
           IsWhole(map, entry), NEW m \in Inserted(pair, map, entry)
    PROVE  /\ IsWhole(m, entry)
           /\ worker[pair] \notin raced => DOMAIN m = DOMAIN map \cup {pair}
<1> DEFINE whole == With(map, pair, entry)
<1>1. DOMAIN map \subseteq Instruments /\ \A p \in DOMAIN map : map[p] = entry
  BY DEF IsWhole
<1>2. /\ DOMAIN whole = DOMAIN map \cup {pair}
      /\ \A p \in DOMAIN whole : whole[p] = entry
      /\ whole = [p \in DOMAIN whole |-> entry]
  BY <1>1 DEF With
<1>3. CASE worker[pair] \notin raced
  <2>1. m = whole
    BY <1>3 DEF Inserted
  <2> HIDE DEF whole
  <2> QED
    BY <1>1, <1>2, <2>1 DEF IsWhole
<1>4. CASE worker[pair] \in raced
  <2>1. PICK kept \in SUBSET (DOMAIN map \cup {pair}) : m = [p \in kept |-> whole[p]]
    BY <1>4 DEF Inserted
  <2> HIDE DEF whole
  <2>2. DOMAIN m = kept /\ m = [p \in kept |-> entry]
    BY <1>2, <2>1
  <2>3. kept \subseteq Instruments
    BY <1>1
  <2> QED
    BY <1>4, <2>2, <2>3 DEF IsWhole
<1> QED
  BY <1>3, <1>4

----------------------------------------------------------------------------
(* The threads of the pool                                                 *)

\* The main thread waits while a thread of the pool runs.
LEMMA PoolRunsAlone ==
    ASSUME LiveInvariant, NEW pair \in Instruments, worker[pair] # "done"
    PROVE  stage \notin {"spread", "details", "trade"}
BY DEF LiveInvariant, MainReadsSafely

\* A step of a thread that leaves the main thread where it waits.
LEMMA PoolKeepsMain ==
    ASSUME LiveInvariant, UNCHANGED mainVars,
           NEW pair \in Instruments, worker[pair] # "done"
    PROVE  MainReadsSafely' /\ DecisionsHaveTheirData' /\ DetailsAreFresh'
<1>1. stage \notin {"spread", "details", "trade"}
  BY PoolRunsAlone
<1> QED
  BY <1>1 DEF LiveInvariant, mainVars, MainReadsSafely, DecisionsHaveTheirData, DetailsAreFresh

LEMMA ReceiveKeeps ==
    ASSUME LiveInvariant, NEW pair \in Instruments, NEW answer \in Answers,
           Receive(pair, answer)
    PROVE  LiveInvariant'
<1>1. worker[pair] = "request" /\ UNCHANGED <<tickMap, histMap, raced>>
  BY DEF Receive
<1>2. CASE answer = "ok"
  <2>1. /\ data' = [data EXCEPT ![pair] = Received]
        /\ worker' = [worker EXCEPT ![pair] = "tick"]
        /\ UNCHANGED mainVars
    BY <1>2 DEF Receive, Proceed, Received
  <2>2. LiveTypeOK'
    BY <1>1, <2>1 DEF LiveInvariant, LiveTypeOK, Places
  <2>3. ThreadsHaveTheirCandles'
    BY <2>1 DEF LiveInvariant, LiveTypeOK, ThreadsHaveTheirCandles
  <2>4. MapsAreWhole'
    BY <1>1 DEF LiveInvariant, MapsAreWhole
  <2>5. NothingIsLost'
    BY <1>1, <2>1 DEF LiveInvariant, LiveTypeOK, NothingIsLost, InsertsOneByOne
  <2>6. MainReadsSafely' /\ DecisionsHaveTheirData' /\ DetailsAreFresh'
    BY <1>1, <2>1, PoolKeepsMain
  <2> QED
    BY <2>2, <2>3, <2>4, <2>5, <2>6 DEF LiveInvariant
<1>3. CASE answer # "ok"
  <2>1. /\ stage' = "crashed"
        /\ UNCHANGED <<data, worker, spreads, todo, details, ordered, round, decided>>
    BY <1>3 DEF Receive
  <2> QED
    BY <1>1, <2>1 DEF LiveInvariant, LiveTypeOK, ThreadsHaveTheirCandles, MapsAreWhole,
       MainReadsSafely, NothingIsLost, InsertsOneByOne, DecisionsHaveTheirData, DetailsAreFresh
<1> QED
  BY <1>2, <1>3

LEMMA BeginTickKeeps ==
    ASSUME LiveInvariant, NEW pair \in Instruments, BeginTick(pair)
    PROVE  LiveInvariant'
<1>1. /\ worker[pair] = "tick"
      /\ raced' = IF Others(pair, "inserting tick") THEN raced \cup {"inserting tick"} ELSE raced
      /\ worker' = [worker EXCEPT ![pair] = "inserting tick"]
      /\ UNCHANGED <<mainVars, data, tickMap, histMap>>
  BY DEF BeginTick, BeginInsert, Proceed
<1>2. LiveTypeOK'
  BY <1>1 DEF LiveInvariant, LiveTypeOK, Places, Inserting
<1>3. ThreadsHaveTheirCandles'
  BY <1>1 DEF LiveInvariant, LiveTypeOK, ThreadsHaveTheirCandles
<1>4. MapsAreWhole'
  BY <1>1 DEF LiveInvariant, MapsAreWhole
<1>5. NothingIsLost'
  BY <1>1 DEF LiveInvariant, LiveTypeOK, NothingIsLost, InsertsOneByOne, Others
<1>6. MainReadsSafely' /\ DecisionsHaveTheirData' /\ DetailsAreFresh'
  BY <1>1, PoolKeepsMain
<1> QED
  BY <1>2, <1>3, <1>4, <1>5, <1>6 DEF LiveInvariant

LEMMA EndTickKeeps ==
    ASSUME LiveInvariant, NEW pair \in Instruments, EndTick(pair)
    PROVE  LiveInvariant'
<1>1. /\ worker[pair] = "inserting tick"
      /\ tickMap' \in Inserted(pair, tickMap, data[pair][Len(data[pair])])
      /\ data' = [data EXCEPT ![pair] = SubSeq(data[pair], 1, Len(data[pair]) - 1)]
      /\ worker' = [worker EXCEPT ![pair] = "history"]
      /\ UNCHANGED <<mainVars, histMap, raced>>
  BY DEF EndTick, Proceed
<1>2. data[pair] = Received
  BY <1>1 DEF LiveInvariant, ThreadsHaveTheirCandles
<1>3. /\ tickMap' \in Inserted(pair, tickMap, HistDataCount + 1)
      /\ data' = [data EXCEPT ![pair] = Earlier]
  BY <1>1, <1>2, NewestAndEarlier
<1>4. /\ IsWhole(tickMap', HistDataCount + 1)
      /\ "inserting tick" \notin raced => DOMAIN tickMap' = DOMAIN tickMap \cup {pair}
  <2>1. worker[pair] = "inserting tick"
    BY <1>1
  <2>2. IsWhole(tickMap, HistDataCount + 1)
    BY DEF LiveInvariant, MapsAreWhole
  <2> QED
    BY <1>3, <2>1, <2>2, InsertKeepsMapWhole
<1>5. LiveTypeOK'
  BY <1>1, <1>3 DEF LiveInvariant, LiveTypeOK, Places
<1>6. ThreadsHaveTheirCandles'
  BY <1>1, <1>3 DEF LiveInvariant, LiveTypeOK, ThreadsHaveTheirCandles
<1>7. MapsAreWhole'
  BY <1>1, <1>4 DEF LiveInvariant, MapsAreWhole, IsWhole
<1>8. NothingIsLost'
  BY <1>1, <1>4 DEF LiveInvariant, LiveTypeOK, NothingIsLost, InsertsOneByOne
<1>9. MainReadsSafely' /\ DecisionsHaveTheirData' /\ DetailsAreFresh'
  BY <1>1, PoolKeepsMain
<1> QED
  BY <1>5, <1>6, <1>7, <1>8, <1>9 DEF LiveInvariant

LEMMA BeginHistoryKeeps ==
    ASSUME LiveInvariant, NEW pair \in Instruments, BeginHistory(pair)
    PROVE  LiveInvariant'
<1>1. /\ worker[pair] = "history"
      /\ raced' = IF Others(pair, "inserting history") THEN raced \cup {"inserting history"} ELSE raced
      /\ worker' = [worker EXCEPT ![pair] = "inserting history"]
      /\ UNCHANGED <<mainVars, data, tickMap, histMap>>
  BY DEF BeginHistory, BeginInsert, Proceed
<1>2. LiveTypeOK'
  BY <1>1 DEF LiveInvariant, LiveTypeOK, Places, Inserting
<1>3. ThreadsHaveTheirCandles'
  BY <1>1 DEF LiveInvariant, LiveTypeOK, ThreadsHaveTheirCandles
<1>4. MapsAreWhole'
  BY <1>1 DEF LiveInvariant, MapsAreWhole
<1>5. NothingIsLost'
  BY <1>1 DEF LiveInvariant, LiveTypeOK, NothingIsLost, InsertsOneByOne, Others
<1>6. MainReadsSafely' /\ DecisionsHaveTheirData' /\ DetailsAreFresh'
  BY <1>1, PoolKeepsMain
<1> QED
  BY <1>2, <1>3, <1>4, <1>5, <1>6 DEF LiveInvariant

LEMMA EndHistoryKeeps ==
    ASSUME LiveInvariant, NEW pair \in Instruments, EndHistory(pair)
    PROVE  LiveInvariant'
<1>1. /\ worker[pair] = "inserting history"
      /\ histMap' \in Inserted(pair, histMap, data[pair])
      /\ worker' = [worker EXCEPT ![pair] = "done"]
      /\ UNCHANGED <<mainVars, data, tickMap, raced>>
  BY DEF EndHistory, Proceed
<1>2. histMap' \in Inserted(pair, histMap, Earlier)
  BY <1>1 DEF LiveInvariant, ThreadsHaveTheirCandles
<1>3. /\ IsWhole(histMap', Earlier)
      /\ "inserting history" \notin raced => DOMAIN histMap' = DOMAIN histMap \cup {pair}
  BY <1>1, <1>2, InsertKeepsMapWhole DEF LiveInvariant, MapsAreWhole
<1>4. LiveTypeOK'
  BY <1>1 DEF LiveInvariant, LiveTypeOK, Places
<1>5. ThreadsHaveTheirCandles'
  BY <1>1 DEF LiveInvariant, LiveTypeOK, ThreadsHaveTheirCandles
<1>6. MapsAreWhole'
  BY <1>1, <1>3 DEF LiveInvariant, MapsAreWhole, IsWhole
<1>7. NothingIsLost'
  BY <1>1, <1>3 DEF LiveInvariant, LiveTypeOK, NothingIsLost, InsertsOneByOne
<1>8. MainReadsSafely' /\ DecisionsHaveTheirData' /\ DetailsAreFresh'
  BY <1>1, PoolKeepsMain
<1> QED
  BY <1>4, <1>5, <1>6, <1>7, <1>8 DEF LiveInvariant

\* A thread that never comes back has inserted nothing.
LEMMA HangKeeps ==
    ASSUME LiveInvariant, NEW pair \in Instruments, HangInInsert(pair)
    PROVE  LiveInvariant'
<1>1. /\ worker[pair] \in Inserting
      /\ worker' = [worker EXCEPT ![pair] = "stuck"]
      /\ UNCHANGED <<mainVars, data, tickMap, histMap, raced>>
  BY DEF HangInInsert, Proceed
<1>2. LiveTypeOK'
  BY <1>1 DEF LiveInvariant, LiveTypeOK, Places
<1>3. ThreadsHaveTheirCandles'
  BY <1>1 DEF LiveInvariant, LiveTypeOK, ThreadsHaveTheirCandles
<1>4. MapsAreWhole'
  BY <1>1 DEF LiveInvariant, MapsAreWhole
<1>5. NothingIsLost'
  BY <1>1 DEF LiveInvariant, LiveTypeOK, NothingIsLost, InsertsOneByOne
<1>6. MainReadsSafely' /\ DecisionsHaveTheirData' /\ DetailsAreFresh'
  <2>1. worker[pair] # "done"
    BY <1>1 DEF Inserting
  <2> QED
    BY <1>1, <2>1, PoolKeepsMain
<1> QED
  BY <1>2, <1>3, <1>4, <1>5, <1>6 DEF LiveInvariant

----------------------------------------------------------------------------
(* The main thread                                                         *)

\* Steps that leave the pool alone keep what is said of it.
LEMMA MainKeepsPool ==
    ASSUME LiveInvariant, UNCHANGED poolVars
    PROVE  LiveTypeOK' /\ ThreadsHaveTheirCandles' /\ MapsAreWhole' /\ NothingIsLost'
BY DEF LiveInvariant, poolVars, LiveTypeOK, ThreadsHaveTheirCandles, MapsAreWhole,
   NothingIsLost, InsertsOneByOne

\* A decision made before, seen again where the pool has joined or not at all.
LEMMA DecisionStays ==
    ASSUME LiveInvariant, UNCHANGED decided, stage' # "details"
    PROVE  DecisionsHaveTheirData' /\ DetailsAreFresh'
BY DEF LiveInvariant, DecisionsHaveTheirData, DetailsAreFresh

LEMMA StartPoolKeeps ==
    ASSUME LiveInvariant, StartPool
    PROVE  LiveInvariant'
<1>1. /\ stage' = "join" /\ UNCHANGED decided
      /\ worker' = [pair \in Instruments |-> "request"]
      /\ data' = [pair \in Instruments |-> <<>>]
      /\ tickMap' = NoEntries /\ histMap' = NoEntries /\ raced' = {}
  BY DEF StartPool
<1>2. LiveTypeOK'
  BY <1>1 DEF LiveTypeOK, Places
<1>3. ThreadsHaveTheirCandles'
  BY <1>1 DEF ThreadsHaveTheirCandles
<1>4. MapsAreWhole'
  BY <1>1 DEF MapsAreWhole, NoEntries, IsWhole
<1>5. NothingIsLost'
  BY <1>1 DEF NothingIsLost, InsertsOneByOne
<1>6. MainReadsSafely'
  BY <1>1 DEF MainReadsSafely
<1> QED
  BY <1>1, <1>2, <1>3, <1>4, <1>5, <1>6, DecisionStays DEF LiveInvariant

\* Steps of the main thread that hand no map on.
LEMMA WaitingKeeps ==
    ASSUME LiveInvariant, Join \/ Sleep \/ UseTornMap \/ \E pair \in todo : MissingArgument(pair)
    PROVE  LiveInvariant'
<1>1. /\ UNCHANGED poolVars /\ UNCHANGED decided
      /\ stage' \in {"spread", "feed", "exited", "crashed", "stuck"}
      /\ stage' = "spread" => \A pair \in Instruments : worker[pair] = "done"
  BY DEF Join, Sleep, UseTornMap, MissingArgument, Exit
<1>2. MainReadsSafely'
  BY <1>1 DEF MainReadsSafely, poolVars
<1> QED
  BY <1>1, <1>2, MainKeepsPool, DecisionStays DEF LiveInvariant

LEMMA SpreadKeeps ==
    ASSUME LiveInvariant, NEW answer \in Answers, Spread(answer)
    PROVE  LiveInvariant'
<1>1. /\ UNCHANGED poolVars /\ UNCHANGED <<details, ordered, decided>>
      /\ stage = "spread" /\ stage' \in {"details", "exited"}
      /\ stage' = "details" => todo' \subseteq DOMAIN tickMap
  BY DEF Spread, Exit, Remaining
<1>2. \A pair \in Instruments : worker[pair] = "done"
  BY <1>1 DEF LiveInvariant, MainReadsSafely
<1>3. MainReadsSafely'
  BY <1>1, <1>2 DEF MainReadsSafely, poolVars
<1>4. DecisionsHaveTheirData' /\ DetailsAreFresh'
  BY <1>1, <1>2 DEF LiveInvariant, DecisionsHaveTheirData, DetailsAreFresh, poolVars
<1> QED
  BY <1>1, <1>3, <1>4, MainKeepsPool DEF LiveInvariant

LEMMA FetchKeeps ==
    ASSUME LiveInvariant, NEW answer \in Answers, FetchAccountDetails(answer)
    PROVE  LiveInvariant'
<1>1. /\ UNCHANGED poolVars /\ UNCHANGED <<todo, ordered, decided>>
      /\ stage = "details" /\ stage' \in {"sleep", "trade", "exited"}
      /\ stage' = "trade" => details' \in {ordered, Unknown}
  BY DEF FetchAccountDetails, Exit, Fetched
<1>2. MainReadsSafely'
  BY <1>1 DEF LiveInvariant, MainReadsSafely, poolVars
<1> QED
  BY <1>1, <1>2, MainKeepsPool, DecisionStays DEF LiveInvariant

LEMMA SimulateTradeKeeps ==
    ASSUME LiveInvariant, NEW pair \in todo, NEW orders \in BOOLEAN, NEW arrives \in BOOLEAN,
           NEW answer \in Answers, SimulateTrade(pair, orders, arrives, answer)
    PROVE  LiveInvariant'
<1>1. /\ stage = "trade" /\ HasArguments(pair) /\ decided' = Basis(pair)
      /\ UNCHANGED poolVars
      /\ stage' \in {"exited", "details"}
      /\ todo' \subseteq todo \/ todo' \subseteq DOMAIN tickMap
  BY DEF SimulateTrade, Exit, Remaining
<1>2. /\ \A p \in Instruments : worker[p] = "done"
      /\ pair \in DOMAIN tickMap /\ todo \subseteq DOMAIN tickMap
      /\ details \in {ordered, Unknown}
  BY <1>1 DEF LiveInvariant, MainReadsSafely
<1>3. tickMap[pair] = HistDataCount + 1
  BY <1>2 DEF LiveInvariant, MapsAreWhole, IsWhole
<1>4. pair \in DOMAIN histMap /\ histMap[pair] = Earlier
  BY <1>1 DEF LiveInvariant, MapsAreWhole, IsWhole, HasArguments
<1>5. /\ decided'.tick = HistDataCount + 1 /\ decided'.history = Earlier
      /\ decided'.details = details /\ decided'.ordered = ordered
  BY <1>1, <1>3, <1>4 DEF Basis
<1>6. DecisionsHaveTheirData'
  BY <1>1, <1>2, <1>5, NewestAndEarlier DEF DecisionsHaveTheirData, poolVars
<1>7. DetailsAreFresh'
  BY <1>2, <1>5 DEF DetailsAreFresh
<1>8. MainReadsSafely'
  BY <1>1, <1>2 DEF MainReadsSafely, poolVars
<1> QED
  BY <1>1, <1>6, <1>7, <1>8, MainKeepsPool DEF LiveInvariant

----------------------------------------------------------------------------
(* The theorems                                                            *)

LEMMA InitLive ==
    ASSUME Init
    PROVE  LiveInvariant
<1>1. LiveTypeOK
  BY DEF Init, LiveTypeOK
<1>2. ThreadsHaveTheirCandles /\ NothingIsLost
  BY LiveAssumption DEF Init, Places, ThreadsHaveTheirCandles, NothingIsLost, InsertsOneByOne
<1>3. MapsAreWhole
  BY DEF Init, NoEntries, MapsAreWhole, IsWhole
<1>4. MainReadsSafely /\ DecisionsHaveTheirData /\ DetailsAreFresh
  BY DEF Init, MainReadsSafely, DecisionsHaveTheirData, DetailsAreFresh
<1> QED
  BY <1>1, <1>2, <1>3, <1>4 DEF LiveInvariant

LEMMA NextLive ==
    ASSUME LiveInvariant, [Next]_vars
    PROVE  LiveInvariant'
<1>1. ASSUME NEW pair \in Instruments, CrashInInsert(pair)
      PROVE  LiveInvariant'
  BY <1>1, MainKeepsPool, DecisionStays DEF CrashInInsert, MainReadsSafely, LiveInvariant
<1>2. CASE UNCHANGED vars
  BY <1>2 DEF vars, mainVars, poolVars, LiveInvariant, LiveTypeOK, ThreadsHaveTheirCandles,
     MapsAreWhole, MainReadsSafely, NothingIsLost, InsertsOneByOne, DecisionsHaveTheirData,
     DetailsAreFresh
<1>3. ASSUME NEW pair \in Instruments, Worker(pair)
      PROVE  LiveInvariant'
  BY <1>1, <1>3, ReceiveKeeps, BeginTickKeeps, EndTickKeeps, BeginHistoryKeeps,
     EndHistoryKeeps, HangKeeps DEF Worker
<1>4. CASE Main
  BY <1>4, StartPoolKeeps, WaitingKeeps, SpreadKeeps, FetchKeeps, SimulateTradeKeeps DEF Main
<1> QED
  BY <1>2, <1>3, <1>4 DEF Next

\* A pair is traded only with its newest candle as the tick and with all candles
\* before it as the history, and never while a thread still writes to the maps:
\* whatever entries races have lost and whichever requests have failed.
THEOREM DecisionsAreInformed == Spec => []DecisionsHaveTheirData
<1>1. LiveInvariant => DecisionsHaveTheirData
  BY DEF LiveInvariant
<1> QED
  BY <1>1, InitLive, NextLive, PTL DEF Spec

\* The account details of a decision include every order sent before it, or there
\* are none.
THEOREM DetailsAreNeverOld == Spec => []DetailsAreFresh
<1>1. LiveInvariant => DetailsAreFresh
  BY DEF LiveInvariant
<1> QED
  BY <1>1, InitLive, NextLive, PTL DEF Spec

\* A round whose inserts did not overlap hands over the candles of every pair.
THEOREM OnlyRacesLoseEntries == Spec => []FeedIsComplete
<1>1. LiveInvariant => FeedIsComplete
  BY DEF LiveInvariant, MainReadsSafely, NothingIsLost, InsertsOneByOne, MapsAreWhole,
     IsWhole, FeedIsComplete
<1> QED
  BY <1>1, InitLive, NextLive, PTL DEF Spec
=============================================================================
