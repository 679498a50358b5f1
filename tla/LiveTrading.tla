------------------------------ MODULE LiveTrading ------------------------------
(***************************************************************************)
(* The live trading program (src/live-trading): a loop that collects the   *)
(* candles of all pairs in a pool of threads, then asks the broker for the *)
(* spreads and, before each pair, for the account, and lets the strategy   *)
(* decide.                                                                 *)
(*                                                                         *)
(* The threads of the pool insert into two shared maps without a lock.     *)
(* Inserts into one map that overlap are undefined behaviour and may tear  *)
(* its tree: entries may be lost, and whoever uses the map from then on,   *)
(* a thread that inserts or the main thread that runs over it, may end the *)
(* program or never come to an end.  A candle is known by its place in the *)
(* response, a spread by its pair.                                         *)
(***************************************************************************)
EXTENDS Integers, Sequences

CONSTANTS
    Instruments,    \* the pairs
    Rank,           \* [Instruments -> position in the map]
    HistDataCount,  \* kHistDataCount
    MaxRounds,      \* bound: rounds of the loop
    MaxOrders,      \* bound: orders the broker receives
    Unknown,        \* the details of a request that was not answered
    None

\* Where the thread of a pair may be: "stuck" in an insert that never ends, ...
Places ==
    {"request", "tick", "inserting tick", "history", "inserting history", "done", "stuck"}

\* ... and where it inserts, into one of the maps.
Inserting == {"inserting tick", "inserting history"}

ASSUME LiveAssumption ==
    /\ None \notin Places
    /\ Rank \in [Instruments -> Int]
    /\ \A p, q \in Instruments : Rank[p] = Rank[q] => p = q
    /\ HistDataCount \in Nat /\ MaxRounds \in Nat /\ MaxOrders \in Nat

VARIABLES
    stage,      \* where the main thread is: "feed", "join", "spread",
                \* "details", "trade", "sleep", "exited", "crashed", "stuck"
    worker,     \* [Instruments -> where its thread is, None without one]
    data,       \* [Instruments -> the candles its thread has received]
    tickMap,    \* tick_data_map: the newest candle of a pair
    histMap,    \* hist_data_map: the candles before it
    spreads,    \* the pairs the broker gave a spread for
    todo,       \* the pairs of tick_data_map still to trade
    details,    \* account_details_: the orders it knows, or Unknown
    ordered,    \* orders the broker has received
    round,      \* rounds begun
    raced,      \* the places where inserts of this round overlapped: torn maps
    decided     \* observation only: what the last decision was based on

mainVars == <<stage, spreads, todo, details, ordered, round, decided>>
poolVars == <<worker, data, tickMap, histMap, raced>>
vars == <<mainVars, poolVars>>

NoEntries == [pair \in {} |-> None]

----------------------------------------------------------------------------
(* SendRequest: an answer, an answer with another status, or an exception  *)

Answers == {"ok", "refused", "exception"}

\* main catches every exception and returns EXIT_SOFTWARE.
Exit == stage' = "exited"

----------------------------------------------------------------------------
(* trade_data_thread_pool                                                  *)

StartPool ==
    /\ stage = "feed" /\ round < MaxRounds
    /\ stage' = "join" /\ round' = round + 1
    /\ worker' = [pair \in Instruments |-> "request"]
    /\ data' = [pair \in Instruments |-> <<>>]
    /\ tickMap' = NoEntries /\ histMap' = NoEntries /\ raced' = {}
    /\ UNCHANGED <<spreads, todo, details, ordered, decided>>

Running == stage # "crashed"

Proceed(pair, place) == worker' = [worker EXCEPT ![pair] = place]

\* The candles of the pair, the newest last.  The last element of an empty
\* list is read all the same, and an exception ends the process.
Receive(pair, answer) ==
    /\ Running /\ worker[pair] = "request"
    /\ IF answer = "ok"
       THEN /\ data' = [data EXCEPT ![pair] = [i \in 1..(HistDataCount + 1) |-> i]]
            /\ Proceed(pair, "tick")
            /\ UNCHANGED mainVars
       ELSE /\ stage' = "crashed"
            /\ UNCHANGED <<data, worker, spreads, todo, details, ordered, round, decided>>
    /\ UNCHANGED <<tickMap, histMap, raced>>

Others(pair, place) == \E other \in Instruments \ {pair} : worker[other] = place

\* The insert walks the tree of the map ...
BeginInsert(pair, from, place) ==
    /\ Running /\ worker[pair] = from
    /\ raced' = IF Others(pair, place) THEN raced \cup {place} ELSE raced
    /\ Proceed(pair, place)
    /\ UNCHANGED <<mainVars, data, tickMap, histMap>>

With(map, pair, entry) ==
    [other \in DOMAIN map \cup {pair} |-> IF other \in DOMAIN map THEN map[other] ELSE entry]

\* ... and links the entry to it.  A torn map may have lost any of its entries;
\* those it has are whole, because a node is complete before it is linked.
Inserted(pair, map, entry) ==
    IF worker[pair] \in raced
    THEN {[other \in kept |-> With(map, pair, entry)[other]] :
             kept \in SUBSET (DOMAIN map \cup {pair})}
    ELSE {With(map, pair, entry)}

BeginTick(pair) == BeginInsert(pair, "tick", "inserting tick")

EndTickMutant(pair) ==
    /\ Running /\ worker[pair] = "inserting tick"
    /\ tickMap' \in Inserted(pair, tickMap, data[pair][Len(data[pair])])
    /\ Proceed(pair, "history")
    /\ UNCHANGED <<mainVars, data, histMap, raced>>
EndTick(pair) ==
    /\ Running /\ worker[pair] = "inserting tick"
    /\ tickMap' \in Inserted(pair, tickMap, data[pair][Len(data[pair])])
    /\ data' = [data EXCEPT ![pair] = SubSeq(@, 1, Len(@) - 1)]
    /\ Proceed(pair, "history")
    /\ UNCHANGED <<mainVars, histMap, raced>>

BeginHistory(pair) == BeginInsert(pair, "history", "inserting history")

EndHistory(pair) ==
    /\ Running /\ worker[pair] = "inserting history"
    /\ histMap' \in Inserted(pair, histMap, data[pair])
    /\ Proceed(pair, "done")
    /\ UNCHANGED <<mainVars, data, tickMap, raced>>

\* An insert into a torn map may end the process, ...
CrashInInsert(pair) ==
    /\ Running /\ worker[pair] \in Inserting \cap raced
    /\ stage' = "crashed"
    /\ UNCHANGED <<poolVars, spreads, todo, details, ordered, round, decided>>

\* ... or walk around a cycle for ever.
HangInInsert(pair) ==
    /\ Running /\ worker[pair] \in Inserting \cap raced
    /\ Proceed(pair, "stuck")
    /\ UNCHANGED <<mainVars, data, tickMap, histMap, raced>>

Join ==
    /\ stage = "join" /\ \A pair \in Instruments : worker[pair] = "done"
    /\ stage' = "spread"
    /\ UNCHANGED <<poolVars, spreads, todo, details, ordered, round, decided>>

----------------------------------------------------------------------------
(* The loop of main                                                        *)

\* What a loop over tick_data_map may have before it when `rest' would be left: of
\* a torn map any entries, also ones it has had.
Remaining(rest) == IF "inserting tick" \in raced THEN SUBSET DOMAIN tickMap ELSE {rest}

\* A refused request leaves the map of the spreads empty.
Spread(answer) ==
    /\ stage = "spread"
    /\ IF answer = "exception"
       THEN Exit /\ UNCHANGED <<spreads, todo>>
       ELSE /\ stage' = "details"
            /\ spreads' = IF answer = "ok" THEN Instruments ELSE {}
            /\ todo' \in Remaining(DOMAIN tickMap)
    /\ UNCHANGED <<poolVars, details, ordered, round, decided>>

\* Details that were not answered replace the ones before.
FetchedMutant(answer) == IF answer = "ok" THEN ordered ELSE details
Fetched(answer) == IF answer = "ok" THEN ordered ELSE Unknown

\* Before each pair, and after the last one.
FetchAccountDetails(answer) ==
    /\ stage = "details"
    /\ IF answer = "exception"
       THEN Exit /\ UNCHANGED details
       ELSE /\ stage' = IF todo = {} THEN "sleep" ELSE "trade"
            /\ details' = Fetched(answer)
    /\ UNCHANGED <<poolVars, spreads, todo, ordered, round, decided>>

IsNext(pair) == pair \in todo /\ \A other \in todo : Rank[pair] <= Rank[other]

\* hist_data_map->at(name) and spreads->at(name)
HasArguments(pair) == pair \in DOMAIN histMap /\ pair \in spreads

MissingArgumentMutant(pair) ==
    /\ stage = "trade" /\ IsNext(pair) /\ ~HasArguments(pair)
    /\ stage' = "details"
    /\ UNCHANGED <<poolVars, spreads, todo, details, ordered, round, decided>>
MissingArgument(pair) ==
    /\ stage = "trade" /\ IsNext(pair) /\ ~HasArguments(pair)
    /\ Exit
    /\ UNCHANGED <<poolVars, spreads, todo, details, ordered, round, decided>>

\* What SimulateTrade is called with, and the details its sizing asks for.
Basis(pair) ==
    [tick |-> tickMap[pair],
     history |-> IF pair \in DOMAIN histMap THEN histMap[pair] ELSE <<>>,
     details |-> details, ordered |-> ordered]

\* The strategy sees neither trades nor orders: HasOpenTrades and
\* HasPendingOrders always answer false, and only the signals decide whether it
\* orders.  An order may have arrived although its answer is lost.
SimulateTrade(pair, orders, arrives, answer) ==
    /\ stage = "trade" /\ IsNext(pair) /\ HasArguments(pair)
    /\ orders => ordered < MaxOrders
    /\ decided' = Basis(pair)
    /\ arrives \in CASE answer = "ok" -> {orders}
                     [] answer = "refused" -> {FALSE}
                     [] answer = "exception" -> {FALSE, orders}
    /\ ordered' = IF arrives THEN ordered + 1 ELSE ordered
    /\ IF orders /\ answer = "exception"
       THEN Exit /\ UNCHANGED todo
       ELSE stage' = "details" /\ todo' \in Remaining(todo \ {pair})
    /\ UNCHANGED <<poolVars, spreads, details, round>>

\* The main thread uses a torn map: it runs over it, looks a pair up, or frees it
\* at the end of the round, and may find no entry, die, or never come back.
UseTornMap ==
    /\ stage \in {"details", "trade", "sleep"} /\ raced # {}
    /\ stage' \in {"exited", "crashed", "stuck"}
    /\ UNCHANGED <<poolVars, spreads, todo, details, ordered, round, decided>>

\* Half a minute.
Sleep ==
    /\ stage = "sleep"
    /\ stage' = "feed"
    /\ UNCHANGED <<poolVars, spreads, todo, details, ordered, round, decided>>

----------------------------------------------------------------------------
Init ==
    /\ stage = "feed" /\ round = 0 /\ ordered = 0
    /\ worker = [pair \in Instruments |-> None]
    /\ data = [pair \in Instruments |-> <<>>]
    /\ tickMap = NoEntries /\ histMap = NoEntries /\ raced = {}
    /\ spreads = {} /\ todo = {} /\ details = None /\ decided = None

Worker(pair) ==
    \/ \E answer \in Answers : Receive(pair, answer)
    \/ BeginTick(pair) \/ EndTick(pair) \/ BeginHistory(pair) \/ EndHistory(pair)
    \/ CrashInInsert(pair) \/ HangInInsert(pair)

Main ==
    \/ StartPool \/ Join \/ Sleep \/ UseTornMap
    \/ \E answer \in Answers : Spread(answer) \/ FetchAccountDetails(answer)
    \/ \E pair \in todo :
         \/ MissingArgument(pair)
         \/ \E orders, arrives \in BOOLEAN, answer \in Answers :
              SimulateTrade(pair, orders, arrives, answer)

Next == Main \/ \E pair \in Instruments : Worker(pair)

\* Every thread runs on, and a request is answered or times out.  That says
\* nothing of an insert that has begun to walk around a cycle.
Spec ==
    /\ Init /\ [][Next]_vars
    /\ WF_vars(Main) /\ \A pair \in Instruments : WF_vars(Worker(pair))

----------------------------------------------------------------------------
(* The parts of the inductive invariant                                    *)

Received == [i \in 1..(HistDataCount + 1) |-> i]
Earlier == [i \in 1..HistDataCount |-> i]

LiveTypeOK ==
    /\ worker \in [Instruments -> Places \cup {None}]
    /\ data \in [Instruments -> {<<>>, Received, Earlier}]
    /\ raced \subseteq Inserting

\* What a thread has received, and what it has left of it for its second insert.
ThreadsHaveTheirCandles ==
    \A pair \in Instruments :
        /\ worker[pair] \in {"tick", "inserting tick"} => data[pair] = Received
        /\ worker[pair] \in {"history", "inserting history"} => data[pair] = Earlier

\* Whichever entries the maps have lost, those they have are whole.
IsWhole(map, entry) ==
    DOMAIN map \subseteq Instruments /\ map = [pair \in DOMAIN map |-> entry]
MapsAreWhole == IsWhole(tickMap, HistDataCount + 1) /\ IsWhole(histMap, Earlier)

\* The main thread reads the maps after the pool has joined, and only for pairs
\* that are in the first, with details no order has been sent after.
MainReadsSafely ==
    /\ stage \in {"spread", "details", "trade"} =>
         \A pair \in Instruments : worker[pair] = "done"
    /\ stage \in {"details", "trade"} => todo \subseteq DOMAIN tickMap
    /\ stage = "trade" => details \in {ordered, Unknown}

\* As long as no inserts into a map overlap, there is one at a time, and what was
\* inserted stays.
InsertsOneByOne(map, place, after) ==
    place \notin raced =>
        /\ \A p, q \in Instruments : worker[p] = place /\ worker[q] = place => p = q
        /\ \A pair \in Instruments : worker[pair] \in after => pair \in DOMAIN map

NothingIsLost ==
    /\ InsertsOneByOne(tickMap, "inserting tick", {"history", "inserting history", "done"})
    /\ InsertsOneByOne(histMap, "inserting history", {"done"})

----------------------------------------------------------------------------
(* Properties                                                              *)

\* A decision is made with the newest candle of its pair as the tick and all
\* candles before it as the history, whatever the races of the pool and failed
\* requests have cost: a pair without one or the other is not traded, and no
\* thread of the pool still writes to the maps.
DecisionsHaveTheirData ==
    decided # None =>
        /\ stage = "details" => \A pair \in Instruments : worker[pair] = "done"
        /\ decided.tick = HistDataCount + 1
        /\ Len(decided.history) = HistDataCount
        /\ \A i \in 1..HistDataCount : decided.history[i] = i

\* The account details a decision uses include every order sent before it, for
\* earlier pairs as well, or there are none, and the strategy finds no rate for
\* an account without a currency: never older ones.
DetailsAreFresh ==
    decided # None => decided.details \in {decided.ordered, Unknown}

\* An entry is lost by a race and by nothing else: a round whose inserts did not
\* overlap hands the candles of every pair to the strategy.
FeedIsComplete ==
    stage = "spread" /\ raced = {} =>
        DOMAIN tickMap = Instruments /\ DOMAIN histMap = Instruments

\* A round in which no inserts overlap ends, with the next sleep or with the
\* program, whichever requests are refused or fail: also when no spread is known
\* for the pairs to trade.  Of a round with torn maps nothing is said.
RoundEnds ==
    stage = "join" ~> raced # {} \/ stage \in {"sleep", "exited", "crashed"}
=============================================================================
