---------------------------- MODULE BacktestProofs ----------------------------
(***************************************************************************)
(* Theorems about the backtest, for every value of its constants: what the *)
(* strategy's discipline adds to what the account promises to any client.  *)
(***************************************************************************)
EXTENDS Backtest, AccountProofs

\* A tick's candles are those of the price data while the tick lasts.
LoopInvariant ==
    /\ stage \in {"strategy", "account"} => data \in Ticks
    /\ phase # "idle" => stage \in {"strategy", "account"}
    /\ todo \subseteq Instruments

AccountInvariant ==
    /\ TypeOK /\ CallInvariant /\ ClosedIffFlat
    /\ StopInvariant /\ PassInvariant /\ LoopInvariant

\* A step of the backtest is a call or a step of the account, or none of them.
LEMMA BacktestCallsAccount ==
    ASSUME LoopInvariant, [BNext]_allVars
    PROVE  [Next]_vars
<1>1. CASE Loop
  <2>1. CASE RunOrders
    <3>1. data \in Ticks /\ ProcessOrders(data)
      BY <2>1 DEF RunOrders, LoopInvariant
    <3> QED
      BY <3>1 DEF Next, Client
  <2>2. CASE UNCHANGED vars
    BY <2>2
  <2> QED
    BY <1>1, <2>1, <2>2 DEF Loop, Abandon, Crash, Enter, LeaveLoop, ReadTick, NextTick, Finish
<1>2. CASE Strategy
  <2>1. PICK ins \in todo : \/ Hold(ins) \/ ClosePosition(ins)
                            \/ \E request \in Requests : TakePosition(ins, request)
    BY <1>2 DEF Strategy
  <2>2. CASE Hold(ins)
    BY <2>2 DEF Hold
  <2>3. CASE ClosePosition(ins)
    <3>1. ins \in Instruments /\ data \in Ticks /\ CloserPosition(ins, data)
      BY <2>3 DEF ClosePosition, Simulate, LoopInvariant
    <3> QED
      BY <3>1 DEF Next, Client
  <2>4. ASSUME NEW request \in Requests, TakePosition(ins, request)
        PROVE  [Next]_vars
    <3>1. CreateMarketOrder(request)
      BY <2>4 DEF TakePosition
    <3> QED
      BY <3>1 DEF Next, Client
  <2> QED
    BY <2>1, <2>2, <2>3, <2>4
<1>3. CASE RunCall
  BY <1>3 DEF RunCall, Next
<1>4. CASE UNCHANGED allVars
  BY <1>4 DEF allVars
<1> QED
  BY <1>1, <1>2, <1>3, <1>4 DEF BNext

LEMMA LoopStep ==
    ASSUME LoopInvariant, [BNext]_allVars
    PROVE  LoopInvariant'
<1>1. ASSUME NEW candles \in Ticks, ReadTick(candles)
      PROVE  LoopInvariant'
  BY <1>1 DEF LoopInvariant, ReadTick, vars, call
<1>2. CASE RunOrders
  BY <1>2 DEF LoopInvariant, RunOrders, ProcessOrders
<1>3. CASE UNCHANGED <<vars, data, todo>>
           /\ stage \notin {"strategy", "account"} /\ stage' \notin {"strategy", "account"}
  BY <1>3 DEF LoopInvariant, vars, call
<1>4. CASE NextTick
  BY <1>4 DEF LoopInvariant, NextTick, vars, call
<1>5. CASE Loop
  BY <1>1, <1>2, <1>3, <1>4, <1>5
     DEF Loop, Enter, LeaveLoop, Abandon, Crash, Finish
<1>6. ASSUME NEW ins \in todo, Simulate(ins), UNCHANGED <<stage, data>>
      PROVE  LoopInvariant'
  BY <1>6 DEF LoopInvariant, Simulate
<1>7. CASE Strategy
  BY <1>6, <1>7 DEF Strategy, Hold, ClosePosition, TakePosition
<1>8. CASE RunCall
  BY <1>8 DEF LoopInvariant, RunCall, loops, Step, Return, CloseNext, SizeNext, NetNext,
     SkipLimitOrder, ExecuteLimitOrder, StartNetting, FillLimitOrder, LeaveLimitOrder,
     TriggerStop, TrailStop, SkipStop, Visit, NettingDone
<1>9. CASE UNCHANGED allVars
  BY <1>9 DEF LoopInvariant, allVars, loops, vars, call
<1> QED
  BY <1>5, <1>7, <1>8, <1>9 DEF BNext

LEMMA AccountStep ==
    ASSUME AccountInvariant, [BNext]_allVars
    PROVE  AccountInvariant'
<1>1. [Next]_vars /\ LoopInvariant'
  BY BacktestCallsAccount, LoopStep DEF AccountInvariant
<1> QED
  BY <1>1, CallStep, StopStep, PassStep DEF AccountInvariant

LEMMA AccountInit ==
    ASSUME BInit
    PROVE  AccountInvariant
<1>1. Init /\ LoopInvariant
  BY DEF BInit, Init, LoopInvariant
<1>2. StopInvariant
  BY <1>1 DEF Init, StopInvariant, OneExit, OpenTrades
<1>3. PassInvariant
  BY <1>1 DEF Init, PassInvariant
<1> QED
  BY <1>1, <1>2, <1>3, CallInit DEF AccountInvariant

----------------------------------------------------------------------------
(* A pair has one position at most                                         *)

\* A pair has no trade besides an order, and one of either.
AtMostOne ==
    \A ins \in Instruments :
        /\ PendingLimitOrders(ins) = {} \/ OpenTradesOf(ins) = {}
        /\ \A i, j \in PendingLimitOrders(ins) : i = j
        /\ \A j, k \in OpenTradesOf(ins) : j = k

NothingNew(ins) ==
    /\ PendingLimitOrders(ins)' \subseteq PendingLimitOrders(ins)
    /\ OpenTradesOf(ins)' \subseteq OpenTradesOf(ins)

LEMMA AtMostOneKept ==
    ASSUME AtMostOne, \A ins \in Instruments : NothingNew(ins)
    PROVE  AtMostOne'
BY DEF AtMostOne, NothingNew

LEMMA SameOrders ==
    ASSUME UNCHANGED orders, NEW ins
    PROVE  PendingLimitOrders(ins)' = PendingLimitOrders(ins)
BY DEF PendingLimitOrders, PendingOrders, IsPending

LEMMA SameTrades ==
    ASSUME UNCHANGED trades, NEW ins
    PROVE  OpenTradesOf(ins)' = OpenTradesOf(ins)
BY DEF OpenTradesOf, OpenTrades

LEMMA TakenPosition ==
    ASSUME AccountInvariant, AtMostOne, NEW ins \in Instruments, NEW request \in Requests,
           TakePosition(ins, request)
    PROVE  AtMostOne'
<1> DEFINE order == [kind |-> "limit", state |-> "pending",
                     instrument |-> request.instrument, units |-> request.units,
                     price |-> IF request.units > 0 THEN request.price + HalfSpread
                                                    ELSE request.price - HalfSpread,
                     protect |-> request.protect]
<1>1. orders' = Append(orders, order) /\ trades' = trades
  BY DEF TakePosition, CreateMarketOrder, Place
<1>2. order.kind = "limit" /\ order.state = "pending" /\ order.instrument = ins
  BY DEF TakePosition, Decides
<1> HIDE DEF order
<1>3. orders \in Seq(LimitOrders \cup StopRefs)
  BY DEF AccountInvariant, TypeOK
<1>4. /\ Len(orders) \in Nat /\ DOMAIN orders = 1..Len(orders)
      /\ DOMAIN orders' = 1..(Len(orders) + 1)
      /\ \A i \in DOMAIN orders : orders'[i] = orders[i]
      /\ orders'[Len(orders) + 1] = order
  BY <1>1, <1>3
<1>5. ASSUME NEW other
      PROVE  PendingLimitOrders(other)' \subseteq
               PendingLimitOrders(other) \cup
                 (IF other = ins THEN {Len(orders) + 1} ELSE {})
  BY <1>2, <1>4 DEF PendingLimitOrders, PendingOrders, IsPending
<1>6. PendingLimitOrders(ins) = {} /\ OpenTradesOf(ins) = {}
  BY DEF TakePosition, TakesPosition
<1>7. \A other : OpenTradesOf(other)' = OpenTradesOf(other)
  BY <1>1, SameTrades
<1> QED
  BY <1>5, <1>6, <1>7 DEF AtMostOne

\* While an order executes it is still the pending one of its pair.
LEMMA ExecutesPending ==
    ASSUME AccountInvariant, AtMostOne, phase \in {"sizing", "netting"}
    PROVE  /\ orders[current].instrument \in Instruments
           /\ current \in PendingLimitOrders(orders[current].instrument)
           /\ OpenTradesOf(orders[current].instrument) = {}
           /\ existing = {}
<1>1. /\ current \in DOMAIN orders /\ orders[current] \in LimitOrders
      /\ orders[current].state = "pending"
  BY DEF AccountInvariant, CallInvariant, PassInvariant
<1>2. orders[current].kind = "limit" /\ orders[current].instrument \in Instruments
  BY <1>1 DEF LimitOrders
<1>3. current \in PendingLimitOrders(orders[current].instrument)
  BY <1>1, <1>2 DEF PendingLimitOrders, PendingOrders, IsPending
<1>4. OpenTradesOf(orders[current].instrument) = {}
  BY <1>2, <1>3 DEF AtMostOne
<1>5. existing \subseteq OpenTradesOf(orders[current].instrument)
  BY DEF AccountInvariant, CallInvariant, OpenTradesOf
<1> QED
  BY <1>2, <1>3, <1>4, <1>5

\* The order becomes the trade.
LEMMA FilledPosition ==
    ASSUME AccountInvariant, AtMostOne, FillLimitOrder
    PROVE  AtMostOne'
<1>1. phase = "netting" /\ TypeOK /\ CallInvariant
  BY DEF FillLimitOrder, NettingDone, AccountInvariant
<1>2. PICK mine \in Instruments :
        /\ mine = orders[current].instrument
        /\ current \in PendingLimitOrders(mine) /\ OpenTradesOf(mine) = {}
  BY <1>1, ExecutesPending
<1>3. PICK t \in Trades : Appends(t) /\ t.instrument = mine
  BY <1>1, <1>2, FillLimitOrderEffect
<1>4. /\ DOMAIN trades' = DOMAIN trades \cup {Len(trades) + 1}
      /\ trades'[Len(trades) + 1] = t
      /\ \A j \in DOMAIN trades : trades'[j] = trades[j]
  BY <1>1, <1>3, AppendedTrades
<1>5. /\ orders'[current] \in LimitOrders /\ orders'[current].state = "filled"
      /\ \A i \in DOMAIN orders \ {current} : orders'[i] = orders[i]
      /\ \A i \in DOMAIN orders' \ DOMAIN orders : orders'[i] \in StopRefs
  BY <1>1, FillKeepsOrders
<1>6. ASSUME NEW i \in DOMAIN orders', orders'[i].kind = "limit", orders'[i].state = "pending"
      PROVE  i \in DOMAIN orders /\ orders'[i] = orders[i] /\ i # current
  BY <1>5, <1>6 DEF StopRefs, Kinds
<1>7. \A other : PendingLimitOrders(other)' \subseteq PendingLimitOrders(other) \ {current}
  BY <1>6 DEF PendingLimitOrders, PendingOrders, IsPending
<1>8. ASSUME NEW other
      PROVE  OpenTradesOf(other)' \subseteq
               OpenTradesOf(other) \cup (IF other = mine THEN {Len(trades) + 1} ELSE {})
  BY <1>3, <1>4 DEF OpenTradesOf, OpenTrades
<1>9. PendingLimitOrders(mine)' = {}
  BY <1>2, <1>7 DEF AtMostOne
<1> QED
  BY <1>2, <1>7, <1>8, <1>9 DEF AtMostOne

\* The backtest creates market orders and cancels nothing.
LEMMA OrdersChangeByBacktest ==
    ASSUME [BNext]_allVars
    PROVE  \/ UNCHANGED orders
           \/ \E ins \in todo, request \in Requests : TakePosition(ins, request)
           \/ FillLimitOrder
<1>1. CASE Loop
  BY <1>1 DEF Loop, Abandon, Crash, Enter, LeaveLoop, ReadTick, NextTick, Finish,
     RunOrders, ProcessOrders, vars, book
<1>2. CASE Strategy
  BY <1>2 DEF Strategy, Hold, ClosePosition, CloserPosition, vars, book
<1>3. CASE RunCall
  BY <1>3 DEF RunCall, Step, Return, CloseNext, SizeNext, NetNext,
     SkipLimitOrder, ExecuteLimitOrder, StartNetting, LeaveLimitOrder,
     TriggerStop, SkipStop, TrailStop, book
<1>4. CASE UNCHANGED allVars
  BY <1>4 DEF allVars, vars, book
<1> QED
  BY <1>1, <1>2, <1>3, <1>4 DEF BNext

LEMMA AtMostOneStep ==
    ASSUME AccountInvariant, AtMostOne, [BNext]_allVars
    PROVE  AtMostOne'
<1>1. TypeOK /\ Effect
  BY BacktestCallsAccount, NextEffect DEF AccountInvariant
<1>2. CASE UNCHANGED orders /\ ~FillLimitOrder
  <2>1. SidesKept
    BY <1>1, <1>2, SidesKeptByEffect
  <2>2. \A ins : OpenTradesOf(ins)' \subseteq OpenTradesOf(ins)
    BY <2>1 DEF SidesKept, OpenTradesOf
  <2> QED
    BY <1>2, <2>2, SameOrders, AtMostOneKept DEF NothingNew
<1>3. ASSUME NEW ins \in todo, NEW request \in Requests, TakePosition(ins, request)
      PROVE  AtMostOne'
  BY <1>3, TakenPosition DEF AccountInvariant, LoopInvariant
<1> QED
  BY <1>2, <1>3, FilledPosition, OrdersChangeByBacktest

THEOREM PositionsCorrect == BSpec => [](AccountInvariant /\ AtMostOne)
<1>1. BInit => AccountInvariant /\ AtMostOne
  <2> SUFFICES ASSUME BInit
               PROVE  AccountInvariant /\ AtMostOne
    OBVIOUS
  <2>1. AtMostOne
    BY DEF BInit, Init, AtMostOne, PendingLimitOrders, PendingOrders, OpenTradesOf, OpenTrades
  <2> QED
    BY <2>1, AccountInit
<1>2. AccountInvariant /\ AtMostOne /\ [BNext]_allVars => AccountInvariant' /\ AtMostOne'
  BY AccountStep, AtMostOneStep
<1> QED
  BY <1>1, <1>2, PTL DEF BSpec

\* The account of the backtest is the account of SimulationAccount: whatever the
\* loops and the strategy do to it, a free client could do.
THEOREM BacktestIsAClient == BSpec => SafetySpec
<1>1. BInit => Init
  BY DEF BInit
<1>2. AccountInvariant /\ [BNext]_allVars => [Next]_vars
  BY BacktestCallsAccount DEF AccountInvariant
<1> QED
  BY <1>1, <1>2, PositionsCorrect, PTL DEF BSpec, SafetySpec

\* So the backtest has what the account promises to every client.
THEOREM AccountKeepsPromises ==
    BSpec => /\ LedgerSpec /\ []OneCancelsOther /\ []OneExit
             /\ NoSecondFill /\ FilledOrderMovesPosition
             /\ TrailingStopRatchets /\ PessimisticExit
BY BacktestIsAClient, ImplementsLedger, StopsOfClosedTradesRetire, OneStopTriggers,
   OrdersFillOnce, FillsMovePosition, TrailingStopsRatchet, LossComesFirst

\* The strategy never holds both sides of a pair.  No product has to fit in an int
\* for that, because its orders never meet a position.
THEOREM StrategyHoldsOneSide == BSpec => []SameSide
<1>1. AccountInvariant /\ AtMostOne => SameSide
  <2> SUFFICES ASSUME AccountInvariant, AtMostOne, NEW j \in OpenTrades, NEW k \in OpenTrades,
                      trades[j].instrument = trades[k].instrument
               PROVE  Ledger!SameSign(trades[j].units, trades[k].units)
    BY DEF SameSide
  <2>1. /\ j \in DOMAIN trades /\ trades[j] \in Trades
        /\ trades[j].units \in Int /\ trades[j].units # 0
        /\ trades[j].instrument \in Instruments
    BY TradeType DEF AccountInvariant, ClosedIffFlat, OpenTrades, Trades
  <2>2. j \in OpenTradesOf(trades[j].instrument) /\ k \in OpenTradesOf(trades[j].instrument)
    BY DEF OpenTradesOf
  <2>3. j = k
    BY <2>1, <2>2 DEF AtMostOne
  <2> QED
    BY <2>1, <2>3 DEF Ledger!SameSign
<1> QED
  BY <1>1, PositionsCorrect, PTL

LEMMA NoneOrOne ==
    ASSUME NEW S, \A i, j \in S : i = j
    PROVE  /\ S = {} => Cardinality(S) = 0
           /\ Cardinality(S) = 0 \/ Cardinality(S) = 1
<1>1. CASE S = {}
  BY <1>1, FS_EmptySet
<1>2. CASE S # {}
  <2>1. PICK i \in S : S = {i}
    BY <1>2
  <2> QED
    BY <1>2, <2>1, FS_Singleton
<1> QED
  BY <1>1, <1>2

\* A pair has at most one open trade or pending limit order.
THEOREM StrategyHoldsOnePosition == BSpec => []OnePosition
<1>1. AtMostOne => OnePosition
  <2> SUFFICES ASSUME AtMostOne, NEW ins \in Instruments
               PROVE  Cardinality(PendingLimitOrders(ins))
                        + Cardinality(OpenTradesOf(ins)) <= 1
    BY DEF OnePosition
  <2>1. /\ PendingLimitOrders(ins) = {} \/ OpenTradesOf(ins) = {}
        /\ \A i, j \in PendingLimitOrders(ins) : i = j
        /\ \A j, k \in OpenTradesOf(ins) : j = k
    BY DEF AtMostOne
  <2> QED
    BY <2>1, NoneOrOne
<1> QED
  BY <1>1, PositionsCorrect, PTL

\* No execution of an order of the strategy enlarges a trade: what the account
\* does when an order meets a position never runs in the backtest.
THEOREM StrategyNeverEnlarges == BSpec => TradesNeverGrow
<1> DEFINE Shrinks == \A k \in OpenTrades : Abs(trades'[k].units) <= Abs(trades[k].units)
<1>1. ASSUME AccountInvariant, AtMostOne, [BNext]_allVars, NEW k \in OpenTrades
      PROVE  Abs(trades'[k].units) <= Abs(trades[k].units)
  <2>1. TypeOK /\ Effect /\ k \in DOMAIN trades /\ trades[k].units \in Int
    BY <1>1, BacktestCallsAccount, NextEffect, TradeType
       DEF AccountInvariant, OpenTrades, Trades
  <2>2. ASSUME NEW j \in DOMAIN trades, NEW u \in Trades, Moved(j, u),
               u.units = 0 \/ u.units = trades[j].units
        PROVE  Abs(trades'[k].units) <= Abs(trades[k].units)
    BY <2>1, <2>2, MovedTrades DEF Abs
  <2>3. ~(phase = "netting" /\ existing # {})
    BY <1>1, ExecutesPending
  <2>4. ASSUME NEW t \in Trades, Appends(t)
        PROVE  trades'[k] = trades[k]
    BY <2>1, <2>4, AppendedTrades
  <2>5. CASE trades'[k] = trades[k]
    BY <2>1, <2>5 DEF Abs
  <2> QED
    BY <2>1, <2>2, <2>3, <2>4, <2>5 DEF Effect, Kept, Ends, Rearranges, OpenTrades
<1>2. AccountInvariant /\ AtMostOne /\ [BNext]_allVars => [Shrinks]_allVars
  BY <1>1
<1>3. TradesNeverGrow <=> [][Shrinks]_allVars
  BY PTL DEF TradesNeverGrow
<1> HIDE DEF Shrinks
<1> QED
  BY <1>2, <1>3, PositionsCorrect, PTL DEF BSpec

----------------------------------------------------------------------------
(* Every trade is under the watch of its stops                             *)

Exits == {"stop_loss", "take_profit"}

\* Orders ask for both stops, and the list holds those of every trade.
AskForExits ==
    \A i \in DOMAIN orders : orders[i] \in LimitOrders =>
        \A kind \in Exits : orders[i].protect[kind] # None
ExitsListed == \A k \in DOMAIN trades, kind \in Exits : Listed(k, kind)
Protected == AskForExits /\ ExitsListed

LEMMA TakenIsProtected ==
    ASSUME AccountInvariant, Protected, NEW ins \in Instruments, NEW request \in Requests,
           TakePosition(ins, request)
    PROVE  Protected'
<1> DEFINE order == [kind |-> "limit", state |-> "pending",
                     instrument |-> request.instrument, units |-> request.units,
                     price |-> IF request.units > 0 THEN request.price + HalfSpread
                                                    ELSE request.price - HalfSpread,
                     protect |-> request.protect]
<1>1. orders' = Append(orders, order) /\ trades' = trades
  BY DEF TakePosition, CreateMarketOrder, Place
<1>2. \A kind \in Exits : order.protect[kind] # None
  <2>1. request.price \in Int /\ request.protect \in [Kinds -> Int \cup {None}]
    BY ClientAssumption DEF OrderRequests, Protections
  <2>2. /\ request.protect["stop_loss"] # None
        /\ request.protect["take_profit"]
             = request.price + 3 * (request.price - request.protect["stop_loss"])
    BY DEF TakePosition, Decides
  <2>3. request.protect["stop_loss"] \in Int
    BY <2>1, <2>2 DEF Kinds
  <2>4. request.protect["take_profit"] \in Int
    BY <2>1, <2>2, <2>3
  <2> QED
    BY <2>2, <2>4, NoneAssumption DEF Exits
<1> HIDE DEF order
<1>3. orders \in Seq(LimitOrders \cup StopRefs)
  BY DEF AccountInvariant, TypeOK
<1>4. /\ DOMAIN orders = 1..Len(orders) /\ Len(orders) \in Nat
      /\ DOMAIN orders' = 1..(Len(orders) + 1)
      /\ \A i \in DOMAIN orders : orders'[i] = orders[i]
      /\ orders'[Len(orders) + 1] = order
  BY <1>1, <1>3
<1>5. AskForExits'
  BY <1>2, <1>4 DEF Protected, AskForExits
<1>6. ExitsListed'
  BY <1>1, <1>4 DEF Protected, ExitsListed, Listed
<1> QED
  BY <1>5, <1>6 DEF Protected

LEMMA FilledIsProtected ==
    ASSUME AccountInvariant, Protected, FillLimitOrder
    PROVE  Protected'
<1>1. /\ TypeOK /\ CallInvariant
      /\ current \in DOMAIN orders /\ orders[current] \in LimitOrders
  BY DEF FillLimitOrder, NettingDone, AccountInvariant, CallInvariant
<1>2. PICK order \in LimitOrders : order = orders[current]
  BY <1>1
<1>3. \A kind \in Exits : order.protect[kind] # None
  BY <1>1, <1>2 DEF Protected, AskForExits
<1>4. PICK t \in Trades : Appends(t)
  BY <1>1, FillLimitOrderEffect
<1>5. /\ DOMAIN trades' = DOMAIN trades \cup {Len(trades) + 1}
      /\ Len(trades) \in Nat /\ DOMAIN trades = 1..Len(trades)
  BY <1>1, <1>4, AppendedTrades
<1>6. /\ orders'[current] \in LimitOrders
      /\ orders'[current].protect = order.protect
      /\ \A i \in DOMAIN orders \ {current} : orders'[i] = orders[i]
      /\ \A i \in DOMAIN orders' \ DOMAIN orders : orders'[i] \in StopRefs
      /\ DOMAIN orders \subseteq DOMAIN orders'
  BY <1>1, <1>2, FillKeepsOrders DEF OrdersKept
<1>7. AskForExits'
  BY <1>3, <1>6, LimitIsNoStop DEF Protected, AskForExits
<1>8. ASSUME NEW k \in DOMAIN trades, NEW kind \in Exits
      PROVE  Listed(k, kind)'
  <2>1. PICK i \in DOMAIN orders : orders[i] = [kind |-> kind, trade |-> k]
    BY <1>8 DEF Protected, ExitsListed, Listed
  <2>2. i # current
    BY <1>1, <1>8, <2>1, LimitIsNoStop DEF Exits
  <2> QED
    BY <1>6, <2>1, <2>2 DEF Listed
<1>9. PICK n : n = Len(trades) + 1
  OBVIOUS
<1>10. ASSUME NEW kind \in Exits
       PROVE  Listed(n, kind)'
  <2>1. StopsOf(order) = <<[kind |-> "stop_loss", trade |-> n]>>
          \o <<[kind |-> "take_profit", trade |-> n]>> \o StopRef(order, "trailing_stop")
    BY <1>3, <1>9 DEF StopsOf, StopRef, Exits
  <2>2. orders' = SetState(current, "filled") \o StopsOf(order)
    BY <1>2 DEF FillLimitOrder, SetState
  <2>3. SetState(current, "filled") \in Seq(LimitOrders \cup StopRefs)
    BY <1>1, SetOrderState
  <2>4. [kind |-> "trailing_stop", trade |-> n] \in StopRefs
    BY <1>5, <1>9 DEF StopRefs, Kinds
  <2>5. StopRef(order, "trailing_stop") \in Seq(StopRefs)
    <3>1. CASE order.protect["trailing_stop"] = None
      BY <3>1, EmptySeq DEF StopRef
    <3>2. CASE order.protect["trailing_stop"] # None
      BY <1>9, <2>4, <3>2 DEF StopRef
    <3> QED
      BY <3>1, <3>2
  <2>6. /\ [kind |-> "stop_loss", trade |-> n] \in StopRefs
        /\ [kind |-> "take_profit", trade |-> n] \in StopRefs
    BY <1>5, <1>9 DEF StopRefs, Kinds
  <2>7. PICK list \in Seq(LimitOrders \cup StopRefs), rest \in Seq(StopRefs),
             loss \in StopRefs, profit \in StopRefs :
               /\ loss = [kind |-> "stop_loss", trade |-> n]
               /\ profit = [kind |-> "take_profit", trade |-> n]
               /\ orders' = list \o (<<loss>> \o <<profit>> \o rest)
    BY <2>1, <2>2, <2>3, <2>5, <2>6
  <2>8. /\ orders'[Len(list) + 1] = loss /\ orders'[Len(list) + 2] = profit
        /\ Len(list) + 1 \in DOMAIN orders' /\ Len(list) + 2 \in DOMAIN orders'
    BY <2>7
  <2> QED
    BY <1>10, <2>7, <2>8 DEF Exits, Listed
<1>11. ExitsListed'
  BY <1>5, <1>8, <1>9, <1>10 DEF ExitsListed
<1> QED
  BY <1>7, <1>11 DEF Protected

LEMMA ProtectedStep ==
    ASSUME AccountInvariant, Protected, [BNext]_allVars
    PROVE  Protected'
<1>1. TypeOK /\ Effect /\ todo \subseteq Instruments
  BY BacktestCallsAccount, NextEffect DEF AccountInvariant, LoopInvariant
<1>2. CASE UNCHANGED orders /\ ~FillLimitOrder
  <2>1. DOMAIN trades' = DOMAIN trades
    BY <1>1, <1>2, MovedTrades DEF Effect, Kept, OpenTrades
  <2> QED
    BY <1>2, <2>1 DEF Protected, AskForExits, ExitsListed, Listed
<1> QED
  BY <1>1, <1>2, OrdersChangeByBacktest, TakenIsProtected, FilledIsProtected

\* Every open trade has a pending stop loss and take profit in the list the
\* passes walk.
THEOREM PositionsAreProtected == BSpec => []TradesAreProtected
<1>1. BInit => AccountInvariant /\ Protected
  BY AccountInit DEF BInit, Init, Protected, AskForExits, ExitsListed
<1>2. AccountInvariant /\ Protected /\ [BNext]_allVars => AccountInvariant' /\ Protected'
  BY AccountStep, ProtectedStep
<1>3. AccountInvariant /\ Protected => TradesAreProtected
  <2> SUFFICES ASSUME AccountInvariant, Protected, NEW k \in OpenTrades, NEW kind \in Exits
               PROVE  \E i \in DOMAIN orders :
                        orders[i] = [kind |-> kind, trade |-> k] /\ IsPending(orders[i])
    BY DEF TradesAreProtected, Exits
  <2>1. k \in DOMAIN trades /\ trades[k].state = "open" /\ kind \in Kinds /\ kind # "limit"
    BY DEF OpenTrades, Kinds, Exits
  <2>2. PICK i \in DOMAIN orders : orders[i] = [kind |-> kind, trade |-> k]
    BY <2>1 DEF Protected, ExitsListed, Listed
  <2>3. orders[i] \in StopRefs
    BY <2>1, <2>2, LimitIsNoStop DEF AccountInvariant, TypeOK
  <2>4. trades[k].protection[kind] # None
    BY <2>2, <2>3 DEF AccountInvariant, TypeOK
  <2>5. trades[k].protection[kind].state = "pending"
    BY <2>1, <2>4 DEF AccountInvariant, StopInvariant
  <2> QED
    BY <2>1, <2>2, <2>5 DEF IsPending
<1> QED
  BY <1>1, <1>2, <1>3, PTL DEF BSpec
----------------------------------------------------------------------------
(* An order executes at the tick it was decided at                         *)

\* While pairs are ordered the tick is not over, the strategy trades the pairs that
\* have a candle, and the pass of the tick reads the candles the strategy read.
OneTick ==
    /\ stage = "strategy" => \A ins \in todo : data[ins] # None
    /\ ordered # {} => stage \in {"strategy", "account"}
    /\ phase \in {"orders", "sizing", "netting"} => stage = "account" /\ tick = data

\* The price of the order is the one a market order gets at this tick.
AtMarket(order) ==
    /\ data[order.instrument] # None
    /\ AccountRate(Quote[order.instrument], data) # None
    /\ order.units # 0
    /\ order.price = IF order.units > 0 THEN data[order.instrument].close + HalfSpread
                                        ELSE data[order.instrument].close - HalfSpread

OrderedAtMarket ==
    \A ins \in ordered : \A i \in PendingLimitOrders(ins) : AtMarket(orders[i])

Fresh == OneTick /\ OrderedAtMarket

LEMMA OneTickStep ==
    ASSUME LoopInvariant, OneTick, [BNext]_allVars
    PROVE  OneTick'
<1>1. ASSUME NEW candles, ReadTick(candles)
      PROVE  OneTick'
  BY <1>1 DEF LoopInvariant, OneTick, ReadTick, vars, call
<1>2. CASE RunOrders
  BY <1>2 DEF OneTick, RunOrders, ProcessOrders
<1>3. CASE UNCHANGED <<vars, data, todo, ordered>>
           /\ stage \notin {"strategy", "account"} /\ stage' \notin {"strategy", "account"}
  BY <1>3 DEF LoopInvariant, OneTick, vars, call
<1>4. CASE NextTick
  BY <1>4 DEF OneTick, NextTick, vars, call
<1>5. CASE Loop
  BY <1>1, <1>2, <1>3, <1>4, <1>5
     DEF Loop, Enter, LeaveLoop, Abandon, Crash, Finish
<1>6. ASSUME NEW ins \in todo
      PROVE  /\ Hold(ins) => OneTick'
             /\ ClosePosition(ins) => OneTick'
             /\ \A request \in Requests : TakePosition(ins, request) => OneTick'
  BY DEF OneTick, Hold, ClosePosition, CloserPosition, TakePosition, CreateMarketOrder,
     Place, Simulate, vars, call
<1>7. CASE Strategy
  BY <1>6, <1>7 DEF Strategy
<1>8. CASE RunCall
  BY <1>8 DEF OneTick, RunCall, loops, Step, Return, CloseNext, SizeNext, NetNext,
     SkipLimitOrder, ExecuteLimitOrder, StartNetting, FillLimitOrder, LeaveLimitOrder,
     TriggerStop, TrailStop, SkipStop, Visit, NettingDone
<1>9. CASE UNCHANGED allVars
  BY <1>9 DEF OneTick, allVars, loops, vars, call
<1> QED
  BY <1>5, <1>7, <1>8, <1>9 DEF BNext

\* What the strategy does to the pairs it has ordered.
LEMMA OrderedChanges ==
    ASSUME OneTick, [BNext]_allVars
    PROVE  \/ ordered' = {}
           \/ ordered' = ordered /\ (ordered # {} => data' = data)
           \/ \E ins \in todo, request \in Requests : TakePosition(ins, request)
<1>1. CASE Loop
  BY <1>1 DEF OneTick, Loop, Abandon, Crash, Enter, LeaveLoop, ReadTick, NextTick, Finish,
     RunOrders
<1>2. CASE Strategy
  BY <1>2 DEF Strategy, Hold, ClosePosition
<1>3. CASE RunCall \/ UNCHANGED allVars
  BY <1>3 DEF RunCall, loops, allVars
<1> QED
  BY <1>1, <1>2, <1>3 DEF BNext

LEMMA TakenAtMarket ==
    ASSUME AccountInvariant, OneTick, OrderedAtMarket, NEW ins \in Instruments,
           NEW request \in Requests, TakePosition(ins, request)
    PROVE  OrderedAtMarket'
<1> DEFINE order == [kind |-> "limit", state |-> "pending",
                     instrument |-> request.instrument, units |-> request.units,
                     price |-> IF request.units > 0 THEN request.price + HalfSpread
                                                    ELSE request.price - HalfSpread,
                     protect |-> request.protect]
<1>1. orders' = Append(orders, order) /\ data' = data /\ ordered' = ordered \cup {ins}
  BY DEF TakePosition, CreateMarketOrder, Place
<1>2. AtMarket(order) /\ order.instrument = ins
  <2>1. data[ins] # None /\ AccountRate(Quote[ins], data) # None
    BY DEF OneTick, TakePosition, Simulate, RateIsKnown
  <2>2. request.instrument = ins /\ request.units # 0 /\ request.price = data[ins].close
    BY DEF TakePosition, Decides
  <2> QED
    BY <2>1, <2>2 DEF AtMarket
<1> HIDE DEF order
<1>3. orders \in Seq(LimitOrders \cup StopRefs)
  BY DEF AccountInvariant, TypeOK
<1>4. /\ Len(orders) \in Nat /\ DOMAIN orders = 1..Len(orders)
      /\ DOMAIN orders' = 1..(Len(orders) + 1)
      /\ \A i \in DOMAIN orders : orders'[i] = orders[i]
      /\ orders'[Len(orders) + 1] = order
  BY <1>1, <1>3
<1>5. AtMarket(order)'
  BY <1>1, <1>2 DEF AtMarket
<1>6. ASSUME NEW other \in ordered', NEW i \in PendingLimitOrders(other)'
      PROVE  AtMarket(orders[i])'
  <2>1. /\ i \in 1..(Len(orders) + 1) /\ orders'[i].kind = "limit"
        /\ orders'[i].state = "pending" /\ orders'[i].instrument = other
    BY <1>4, <1>6 DEF PendingLimitOrders, PendingOrders, IsPending
  <2>2. CASE i = Len(orders) + 1
    BY <1>4, <1>5, <2>2
  <2>3. CASE i \in DOMAIN orders
    <3>1. i \in PendingLimitOrders(other) /\ orders'[i] = orders[i]
      BY <1>4, <2>1, <2>3 DEF PendingLimitOrders, PendingOrders, IsPending
    <3>2. other # ins
      BY <3>1 DEF TakePosition, TakesPosition
    <3>3. AtMarket(orders[i])
      BY <1>1, <1>6, <3>1, <3>2 DEF OrderedAtMarket
    <3> QED
      BY <1>1, <3>1, <3>3 DEF AtMarket
  <2> QED
    BY <1>4, <2>1, <2>2, <2>3
<1> QED
  BY <1>6 DEF OrderedAtMarket

\* A fill leaves the other orders as they are and adds stops only.
LEMMA FilledAtMarket ==
    ASSUME AccountInvariant, OrderedAtMarket, FillLimitOrder, UNCHANGED <<ordered, data>>
    PROVE  OrderedAtMarket'
<1>1. /\ orders'[current] \in LimitOrders /\ orders'[current].state = "filled"
      /\ \A i \in DOMAIN orders \ {current} : orders'[i] = orders[i]
      /\ \A i \in DOMAIN orders' \ DOMAIN orders : orders'[i] \in StopRefs
  BY FillKeepsOrders DEF AccountInvariant
<1>2. ASSUME NEW other \in ordered, NEW i \in PendingLimitOrders(other)'
      PROVE  i \in PendingLimitOrders(other) /\ orders'[i] = orders[i]
  <2>1. /\ i \in DOMAIN orders' /\ orders'[i].kind = "limit"
        /\ orders'[i].state = "pending" /\ orders'[i].instrument = other
    BY <1>2 DEF PendingLimitOrders, PendingOrders, IsPending
  <2>2. i \in DOMAIN orders /\ orders'[i] = orders[i]
    BY <1>1, <2>1 DEF StopRefs, Kinds
  <2> QED
    BY <2>1, <2>2 DEF PendingLimitOrders, PendingOrders, IsPending
<1> QED
  BY <1>2 DEF OrderedAtMarket, AtMarket

LEMMA FreshStep ==
    ASSUME AccountInvariant, Fresh, [BNext]_allVars
    PROVE  Fresh'
<1>1. OneTick' /\ todo \subseteq Instruments
  BY OneTickStep DEF AccountInvariant, LoopInvariant, Fresh
<1>2. ASSUME ordered' = {}
      PROVE  OrderedAtMarket'
  BY <1>2 DEF OrderedAtMarket
<1>3. ASSUME NEW ins \in todo, NEW request \in Requests, TakePosition(ins, request)
      PROVE  OrderedAtMarket'
  BY <1>1, <1>3, TakenAtMarket DEF Fresh
<1>4. ASSUME ordered' = ordered, ordered # {}, data' = data
      PROVE  OrderedAtMarket'
  <2>1. CASE UNCHANGED orders
    <3>1. \A ins \in ordered' : PendingLimitOrders(ins)' = PendingLimitOrders(ins)
      BY <2>1, SameOrders
    <3> QED
      BY <1>4, <2>1, <3>1 DEF Fresh, OrderedAtMarket, AtMarket
  <2>2. CASE FillLimitOrder
    BY <1>4, <2>2, FilledAtMarket DEF Fresh
  <2> QED
    BY <1>3, <2>1, <2>2, OrdersChangeByBacktest
<1>5. OrderedAtMarket'
  BY <1>2, <1>3, <1>4, OrderedChanges DEF Fresh
<1> QED
  BY <1>1, <1>5 DEF Fresh

\* What a market order asks for is in the range of the tick's candle, on the side
\* of its units.
LEMMA AtMarketExecutes ==
    ASSUME AccountInvariant, Fresh, NEW i \in pending, SkipLimitOrder(i),
           orders[i].instrument \in ordered
    PROVE  BaseRate(orders[i].instrument) = None
<1>1. PICK order \in LimitOrders : order = orders[i] /\ order.state = "pending"
  <2>1. i \in DOMAIN orders /\ orders[i] \in LimitOrders \cup StopRefs
    BY DEF AccountInvariant, TypeOK
  <2>2. orders[i] \in LimitOrders
    BY <2>1 DEF SkipLimitOrder, StopRefs, Kinds
  <2> QED
    BY <2>2 DEF AccountInvariant, PassInvariant
<1>2. i \in PendingLimitOrders(order.instrument)
  BY <1>1, LimitIsNoStop DEF AccountInvariant, TypeOK, PendingLimitOrders, PendingOrders, IsPending
<1>3. AtMarket(order)
  BY <1>1, <1>2 DEF Fresh, OrderedAtMarket
<1>4. data \in Ticks /\ tick = data
  BY DEF Fresh, OneTick, SkipLimitOrder, Visit, AccountInvariant, LoopInvariant
<1>5. PICK candle \in Candles :
        /\ candle = tick[order.instrument]
        /\ candle.low <= candle.close /\ candle.close <= candle.high
  <2>1. order.instrument \in Instruments /\ data[order.instrument] # None
    BY <1>3 DEF AtMarket, LimitOrders
  <2> QED
    BY <1>4, <2>1, DataAssumption DEF TickDataMaps
<1>6. /\ candle.low \in Int /\ candle.close \in Int /\ candle.high \in Int
      /\ order.units \in Int /\ order.price \in Int /\ HalfSpread \in Nat
  BY ConfigAssumption DEF Candles, LimitOrders
<1>7. /\ order.units # 0
      /\ order.price = IF order.units > 0 THEN candle.close + HalfSpread
                                          ELSE candle.close - HalfSpread
      /\ tick[order.instrument] # None /\ QuoteRate(order.instrument) # None
  BY <1>3, <1>4, <1>5 DEF AtMarket, QuoteRate
<1>8. \/ order.units < 0 /\ InBidRange(order.price, order.instrument)
      \/ order.units > 0 /\ InAskRange(order.price, order.instrument)
  BY <1>5, <1>6, <1>7 DEF InBidRange, InAskRange
<1>9. ~CanExecute(order)
  BY <1>1 DEF SkipLimitOrder
<1> QED
  BY <1>1, <1>7, <1>8, <1>9 DEF CanExecute, HasMarketInfo

\* A market order executes at the tick it was decided at, whatever the candles,
\* unless the rate its margin is computed with is missing.
THEOREM FreshOrdersAreExecuted == BSpec => FreshOrdersExecute
<1> DEFINE Executes == \A i \in pending :
              SkipLimitOrder(i) /\ orders[i].instrument \in ordered
              => BaseRate(orders[i].instrument) = None
<1>1. BInit => AccountInvariant /\ Fresh
  BY AccountInit DEF BInit, Init, Fresh, OneTick, OrderedAtMarket
<1>2. AccountInvariant /\ Fresh /\ [BNext]_allVars => AccountInvariant' /\ Fresh'
  BY AccountStep, FreshStep
<1>3. AccountInvariant /\ Fresh /\ [BNext]_allVars => [Executes]_allVars
  BY AtMarketExecutes
<1>4. FreshOrdersExecute <=> [][Executes]_allVars
  BY PTL DEF FreshOrdersExecute
<1> HIDE DEF Executes
<1> QED
  BY <1>1, <1>2, <1>3, <1>4, PTL DEF BSpec
=============================================================================
