-------------------------- MODULE SimulationAccount --------------------------
(***************************************************************************)
(* The simulated brokerage account of the backtest: the class              *)
(* SimulationAccount (src/account.cpp) with the Trade and Order objects it *)
(* owns (src/trade.cpp, src/order.cpp).                                    *)
(*                                                                         *)
(* A client (the strategy) places limit and market orders, cancels them,   *)
(* moves the stops of a trade and closes a position; once per tick the     *)
(* backtest calls ProcessOrders, which walks a snapshot of the pending     *)
(* orders.  The code is single-threaded, so a call runs to its end before  *)
(* the next begins; inside a call the model takes one step per iteration   *)
(* of each loop, because the loops change the trades they walk.            *)
(*                                                                         *)
(* A definition whose name ends in Mutant is a wrong variant of the one    *)
(* that follows it, which shows that some property notices the difference; *)
(* nothing uses it.                                                        *)
(***************************************************************************)
EXTENDS Forex, Sequences, FiniteSets, Functions

CONSTANTS
    Instruments,      \* currency pairs with price data
    Base, Quote,      \* [Instruments -> currency]
    AccountCurrency,
    Leverage,
    CapitalBase,
    One,              \* price increments in the price 1.0
    HalfSpread,       \* half the spread, in price increments
    IntMax,           \* the largest int: 2^31 - 1 in the build
    None,             \* std::nullopt, and a null shared_ptr
    Ticks,            \* the TickDataMaps the price data may hold
    Requests,         \* the orders a client may ask for
    StopPrices,       \* the prices a client may move a stop to
    Distances,        \* the distances a client may set a trailing stop to
    MaxLimitOrders,   \* bound: limit orders ever created
    MaxTicks          \* bound: calls of ProcessOrders

Candles == [low : Int, high : Int, close : Int]
TickDataMaps == [Instruments -> Candles \cup {None}]

\* The stop orders a trade may carry.
Kinds == {"stop_loss", "take_profit", "trailing_stop"}
Protections == [Kinds -> Int \cup {None}]
StopOrders == [state : {"pending", "triggered", "cancelled"},
               price : Int, distance : Int, side : {"long", "short"}]
OrderRequests ==
    [instrument : Instruments, units : Int, price : Int, protect : Protections]

ASSUME ConfigAssumption ==
    /\ Leverage \in Nat \ {0} /\ One \in Nat \ {0}
    /\ HalfSpread \in Nat /\ CapitalBase \in Int /\ IntMax \in Nat
    /\ MaxLimitOrders \in Nat /\ MaxTicks \in Nat

ASSUME NoneAssumption == None \notin Int \cup Candles \cup Rates \cup StopOrders

\* A candle is a real one: its prices are positive and ordered.
ASSUME DataAssumption ==
    /\ Ticks \subseteq TickDataMaps
    /\ \A data \in Ticks, ins \in Instruments :
         data[ins] # None => /\ 0 < data[ins].low
                             /\ data[ins].low <= data[ins].close
                             /\ data[ins].close <= data[ins].high

ASSUME ClientAssumption ==
    /\ Requests \subseteq OrderRequests
    /\ \A request \in Requests :
         request.protect["trailing_stop"] \in Nat \cup {None}
    /\ StopPrices \subseteq Int /\ Distances \subseteq Nat

VARIABLES
    trades,     \* trades_ptr_: every trade ever opened, in opening order
    orders,     \* orders_ptr_: limit orders, and the stop orders of trades
    balance,    \* balance_
    phase,      \* the loop the running call is in, "idle" between calls
    tick,       \* the TickDataMap argument of the running call
    pending,    \* ProcessOrders: orders of the snapshot still to visit
    current,    \* ProcessLimitOrder: the order being executed
    existing,   \* the open trades the running loop has still to visit
    size,       \* ProcessLimitOrder: existing_units
    units,      \* ProcessLimitOrder: order_units
    ticks       \* calls of ProcessOrders so far (only for the bound)

book == <<trades, orders, balance>>
call == <<phase, tick, pending, current, existing, size, units>>
vars == <<book, call, ticks>>

----------------------------------------------------------------------------
(* Objects                                                                 *)

Trades == [instrument : Instruments, price : Int, units : Int, realized : Int,
           state : {"open", "closed"},
           protection : [Kinds -> StopOrders \cup {None}]]

LimitOrders == [kind : {"limit"}, state : {"pending", "filled", "cancelled"},
                instrument : Instruments, units : Int, price : Int,
                protect : Protections]

\* A stop order is listed by the trade that owns it.
StopRefs == [kind : Kinds, trade : Nat \ {0}]

SideOf(n) == IF n < 0 THEN "short" ELSE "long"

\* Where a trailing stop of this side stands when the market is at the price.
TrailingStopPrice(price, distance, side) ==
    IF side = "short" THEN price + distance ELSE price - distance

\* PriceTriggerOrder and DistanceTriggerOrder constructors.  Only the latter
\* knows a distance and the side of its trade.
NewStop(kind, value, tradePrice, side) ==
    IF kind = "trailing_stop"
    THEN [state |-> "pending", distance |-> value, side |-> side,
          price |-> TrailingStopPrice(tradePrice, value, side)]
    ELSE [state |-> "pending", distance |-> 0, side |-> "long", price |-> value]

NewTradeMutant(order, n) ==
    [instrument |-> order.instrument, price |-> order.price, units |-> order.units,
     realized |-> 0, state |-> "open",
     protection |-> [kind \in Kinds |->
         IF order.protect[kind] = None THEN None
         ELSE NewStop(kind, order.protect[kind], order.price, SideOf(order.units))]]
NewTrade(order, n) ==
    [instrument |-> order.instrument, price |-> order.price, units |-> n,
     realized |-> 0, state |-> "open",
     protection |-> [kind \in Kinds |->
         IF order.protect[kind] = None THEN None
         ELSE NewStop(kind, order.protect[kind], order.price, SideOf(n))]]

IsPendingMutant(order) ==
    order.kind = "limit" \/ trades[order.trade].protection[order.kind].state = "pending"
IsPending(order) ==
    IF order.kind = "limit" THEN order.state = "pending"
    ELSE trades[order.trade].protection[order.kind].state = "pending"

OpenTrades == {k \in DOMAIN trades : trades[k].state = "open"}
OpenTradesOf(ins) == {k \in OpenTrades : trades[k].instrument = ins}

PendingOrders == {i \in DOMAIN orders : IsPending(orders[i])}
PendingLimitOrders(ins) ==
    {i \in PendingOrders : orders[i].kind = "limit" /\ orders[i].instrument = ins}

IsFirst(n, S) == n \in S /\ \A m \in S : n <= m

----------------------------------------------------------------------------
(* Prices, rates and sums over the open trades                             *)

Pairs(base, quote) == {ins \in Instruments : Base[ins] = base /\ Quote[ins] = quote}
CandleOf(pairs, data) == data[CHOOSE ins \in pairs : TRUE]
DirectRate(candle) ==
    IF candle = None THEN None ELSE [num |-> candle.close, den |-> One]
ReversedRate(candle) ==
    IF candle = None THEN None ELSE [num |-> One, den |-> candle.close]

\* data::account_currency_rate: None when neither pair is in the data.
AccountRate(currency, data) ==
    LET direct == Pairs(AccountCurrency, currency)
        reversed == Pairs(currency, AccountCurrency)
    IN  IF currency = AccountCurrency THEN [num |-> 1, den |-> 1]
        ELSE IF direct # {} THEN DirectRate(CandleOf(direct, data))
        ELSE IF reversed # {} THEN ReversedRate(CandleOf(reversed, data))
        ELSE None

QuoteRate(ins) == AccountRate(Quote[ins], tick)
BaseRate(ins) == AccountRate(Base[ins], tick)

HasMarketInfo(ins) ==
    tick[ins] # None /\ QuoteRate(ins) # None /\ BaseRate(ins) # None

\* The ask range serves buyers, the bid range sellers.
InAskRange(price, ins) ==
    tick[ins].low + HalfSpread <= price /\ price <= tick[ins].high + HalfSpread
InBidRange(price, ins) ==
    tick[ins].low - HalfSpread <= price /\ price <= tick[ins].high - HalfSpread

\* A long trade is closed at the bid, a short one at the ask.
ClosingPrice(trade, price) ==
    IF trade.units > 0 THEN price - HalfSpread ELSE price + HalfSpread

PositionSize(ins) == SumFunction([k \in OpenTradesOf(ins) |-> trades[k].units])

HasNetAssetValue ==
    \A k \in OpenTrades : /\ tick[trades[k].instrument] # None
                          /\ QuoteRate(trades[k].instrument) # None
NetAssetValue ==
    balance + SumFunction([k \in OpenTrades |->
        ProfitLoss(trades[k].price, tick[trades[k].instrument].close,
                   trades[k].units, QuoteRate(trades[k].instrument))])

HasMarginUsed ==
    \A k \in OpenTrades : /\ tick[trades[k].instrument] # None
                          /\ BaseRate(trades[k].instrument) # None
MarginUsed ==
    SumFunction([k \in OpenTrades |->
        CalculateMarginUsed(trades[k].units, BaseRate(trades[k].instrument),
                            Leverage, One)])

InitialMargin ==
    CalculateMarginUsed(units, BaseRate(orders[current].instrument), Leverage, One)

----------------------------------------------------------------------------
(* Settling a trade                                                        *)

PartiallyClosed(trade, price, n) ==
    [trade EXCEPT !.units = @ - n,
                  !.realized = @ + ProfitLoss(trade.price, price, n,
                                              QuoteRate(trade.instrument))]

CancelledStopMutant(stop) == stop
CancelledStop(stop) ==
    IF stop # None /\ stop.state # "triggered"
    THEN [stop EXCEPT !.state = "cancelled"] ELSE stop

Closed(trade, price) ==
    [PartiallyClosed(trade, price, trade.units) EXCEPT
        !.state = "closed",
        !.protection = [kind \in Kinds |-> CancelledStop(trade.protection[kind])]]

Triggered(trade, kind) ==
    Closed([trade EXCEPT !.protection[kind].state = "triggered"],
           trade.protection[kind].price)

\* Trade k settles n units at the price, which the balance receives.
Settle(k, price, n, settled) ==
    /\ trades' = [trades EXCEPT ![k] = settled]
    /\ balance' = balance + ProfitLoss(trades[k].price, price, n,
                                       QuoteRate(trades[k].instrument))

CloseTrade(k, price) ==
    LET closing == ClosingPrice(trades[k], price)
    IN  Settle(k, closing, trades[k].units, Closed(trades[k], closing))

PartiallyCloseTradeMutant(k, price, n) ==
    /\ trades' = [trades EXCEPT ![k] =
                     PartiallyClosed(@, ClosingPrice(@, price), n)]
    /\ UNCHANGED balance
PartiallyCloseTrade(k, price, n) ==
    LET closing == ClosingPrice(trades[k], price)
    IN  Settle(k, closing, n, PartiallyClosed(trades[k], closing, n))

----------------------------------------------------------------------------
(* Calls of the client, one at a time                                      *)

Place(request, price) ==
    /\ phase = "idle"
    /\ Cardinality({i \in DOMAIN orders : orders[i].kind = "limit"}) < MaxLimitOrders
    /\ orders' = Append(orders,
           [kind |-> "limit", state |-> "pending",
            instrument |-> request.instrument, units |-> request.units,
            price |-> price, protect |-> request.protect])
    /\ UNCHANGED <<trades, balance, call, ticks>>

CreateLimitOrder(request) == Place(request, request.price)

CreateMarketOrderMutant(request) ==
    Place(request, IF request.units > 0 THEN request.price - HalfSpread
                                        ELSE request.price + HalfSpread)
CreateMarketOrder(request) ==
    Place(request, IF request.units > 0 THEN request.price + HalfSpread
                                        ELSE request.price - HalfSpread)

\* The client may hold the order since before it was filled.
CancelLimitOrder(i) ==
    /\ phase = "idle"
    /\ orders[i].kind = "limit"
    /\ orders' = [orders EXCEPT ![i].state = "cancelled"]
    /\ UNCHANGED <<trades, balance, call, ticks>>

WithStop(trade, kind, stop) == [trade EXCEPT !.protection[kind] = stop]

\* UpdateTradeStopLossPrice and UpdateTradeTakeProfitPrice.  A stop that the
\* trade did not have is attached to the trade alone: orders is unchanged.
UpdateTradePrice(k, kind, price) ==
    /\ phase = "idle"
    /\ LET stop == trades[k].protection[kind]
       IN  trades' = [trades EXCEPT ![k] = WithStop(trades[k], kind,
               IF stop = None THEN NewStop(kind, price, trades[k].price, "long")
               ELSE [stop EXCEPT !.price = price])]
    /\ UNCHANGED <<orders, balance, call, ticks>>

\* The stop price of an existing trailing stop is not recomputed.
UpdateTrailingStopDistance(k, distance) ==
    /\ phase = "idle"
    /\ LET stop == trades[k].protection["trailing_stop"]
       IN  trades' = [trades EXCEPT ![k] = WithStop(trades[k], "trailing_stop",
               IF stop = None
               THEN NewStop("trailing_stop", distance, trades[k].price,
                            SideOf(trades[k].units))
               ELSE [stop EXCEPT !.distance = distance])]
    /\ UNCHANGED <<orders, balance, call, ticks>>

\* The caller takes price and rate from the same tick.
CloserPosition(ins, data) ==
    /\ phase = "idle"
    /\ data[ins] # None /\ AccountRate(Quote[ins], data) # None
    /\ phase' = "closing" /\ tick' = data
    /\ existing' = OpenTradesOf(ins)
    /\ UNCHANGED <<book, pending, current, size, units, ticks>>

CloseNext(k) ==
    /\ phase = "closing"
    /\ IsFirst(k, existing)
    /\ CloseTrade(k, tick[trades[k].instrument].close)
    /\ existing' = existing \ {k}
    /\ UNCHANGED <<orders, phase, tick, pending, current, size, units, ticks>>

ProcessOrders(data) ==
    /\ phase = "idle"
    /\ ticks < MaxTicks /\ ticks' = ticks + 1
    /\ phase' = "orders" /\ tick' = data
    /\ pending' = PendingOrders
    /\ UNCHANGED <<book, current, existing, size, units>>

Return ==
    /\ \/ phase = "orders" /\ pending = {}
       \/ phase = "closing" /\ existing = {}
    /\ phase' = "idle" /\ tick' = None
    /\ current' = 0 /\ size' = 0 /\ units' = 0
    /\ UNCHANGED <<book, pending, existing, ticks>>

----------------------------------------------------------------------------
(* ProcessLimitOrder                                                       *)

CanExecute(order) ==
    /\ HasMarketInfo(order.instrument)
    /\ \/ order.units < 0 /\ InBidRange(order.price, order.instrument)
       \/ order.units > 0 /\ InAskRange(order.price, order.instrument)

VisitSkippingMutant(i) ==
    phase = "orders" /\ IsFirst(i, pending) /\ pending' = pending \ {i, i + 1}
VisitMutant(i) == phase = "orders" /\ IsFirst(i, pending) /\ UNCHANGED pending
Visit(i) ==
    /\ phase = "orders"
    /\ IsFirst(i, pending)
    /\ pending' = pending \ {i}

SkipLimitOrder(i) ==
    /\ Visit(i)
    /\ orders[i].kind = "limit" /\ ~CanExecute(orders[i])
    /\ UNCHANGED <<book, phase, tick, current, existing, size, units, ticks>>

ExecuteLimitOrder(i) ==
    /\ Visit(i)
    /\ orders[i].kind = "limit" /\ CanExecute(orders[i])
    /\ phase' = "sizing" /\ current' = i
    /\ existing' = OpenTradesOf(orders[i].instrument)
    /\ size' = 0 /\ units' = orders[i].units
    /\ UNCHANGED <<book, tick, ticks>>

\* One iteration of open_position_size.
SizeNext(k) ==
    /\ phase = "sizing"
    /\ IsFirst(k, existing)
    /\ size' = size + trades[k].units
    /\ existing' = existing \ {k}
    /\ UNCHANGED <<book, phase, tick, pending, current, units, ticks>>

\* order_units * existing_units < 0, in int: the outcome of a product that
\* does not fit is undefined.
ProductFits == -(IntMax + 1) <= units * size /\ units * size <= IntMax
NetsOutcomesMutant == {units * size > 0}
NetsOutcomes == IF ProductFits THEN {units * size < 0} ELSE BOOLEAN

StartNetting(nets) ==
    /\ phase = "sizing" /\ existing = {}
    /\ nets \in NetsOutcomes
    /\ phase' = "netting"
    /\ existing' = IF nets THEN OpenTradesOf(orders[current].instrument) ELSE {}
    /\ UNCHANGED <<book, tick, pending, current, size, units, ticks>>

UnitsLeft(k) == units + trades[k].units

\* One iteration of the loop that handles the existing position.
NetNext(k) ==
    /\ phase = "netting"
    /\ IsFirst(k, existing)
    /\ existing' = existing \ {k}
    /\ IF Abs(units) >= Abs(trades[k].units)
       THEN /\ units' = UnitsLeft(k)
            /\ CloseTrade(k, orders[current].price)
       ELSE /\ units' = 0
            /\ PartiallyCloseTrade(k, orders[current].price, units)
    /\ UNCHANGED <<orders, phase, tick, pending, current, size, ticks>>

HasMarginMutant ==
    HasNetAssetValue /\ HasMarginUsed /\ NetAssetValue >= InitialMargin
HasMargin ==
    /\ HasNetAssetValue /\ HasMarginUsed
    /\ CalculateMarginAvailable(NetAssetValue, MarginUsed) >= InitialMargin

\* The stops of a new trade join the list in this order.
StopRefMutant(order, kind) ==
    IF order.protect[kind] = None THEN <<>>
    ELSE <<[kind |-> kind, trade |-> Len(trades)]>>
StopRef(order, kind) ==
    IF order.protect[kind] = None THEN <<>>
    ELSE <<[kind |-> kind, trade |-> Len(trades) + 1]>>
StopsOfMutant(order) == StopRef(order, "take_profit") \o StopRef(order, "stop_loss")
                           \o StopRef(order, "trailing_stop")
StopsOf(order) == StopRef(order, "stop_loss") \o StopRef(order, "take_profit")
                     \o StopRef(order, "trailing_stop")

NettingDone == phase = "netting" /\ existing = {}

OpensTradeMutant == HasMargin
OpensTrade == units # 0 /\ HasMargin

FillLimitOrder ==
    /\ NettingDone /\ OpensTrade
    /\ trades' = Append(trades, NewTrade(orders[current], units))
    /\ orders' = [orders EXCEPT ![current].state = "filled"] \o StopsOf(orders[current])
    /\ phase' = "orders"
    /\ UNCHANGED <<balance, tick, pending, current, existing, size, units, ticks>>

\* Nothing is left to open, or the margin does not suffice: the order is
\* left as it is.
LeaveLimitOrder ==
    /\ NettingDone /\ ~OpensTrade
    /\ phase' = "orders"
    /\ UNCHANGED <<book, tick, pending, current, existing, size, units, ticks>>

----------------------------------------------------------------------------
(* ProcessTriggerOrder                                                     *)

\* ProcessOrders does not look at the order's state again: a stop whose trade
\* was closed earlier in the pass has no units left to be touched by.
TouchedMutant(k, kind) ==
    LET trade == trades[k]
        price == trade.protection[kind].price
    IN  /\ HasMarketInfo(trade.instrument)
        /\ \/ trade.units >= 0 /\ InBidRange(price, trade.instrument)
           \/ trade.units < 0 /\ InAskRange(price, trade.instrument)
Touched(k, kind) ==
    LET trade == trades[k]
        price == trade.protection[kind].price
    IN  /\ HasMarketInfo(trade.instrument)
        /\ \/ trade.units > 0 /\ InBidRange(price, trade.instrument)
           \/ trade.units < 0 /\ InAskRange(price, trade.instrument)

\* How far the trailing stop lags behind the market.
Lag(trade) ==
    LET price == trade.protection["trailing_stop"].price
        close == tick[trade.instrument].close
    IN  IF trade.units < 0 THEN price - close ELSE close - price

\* Tested with the units from before the trade was closed.
TrailsMutant(trade) ==
    HasMarketInfo(trade.instrument) /\ trade.units # 0 /\ Lag(trade) > 0
Trails(trade) ==
    /\ HasMarketInfo(trade.instrument) /\ trade.units # 0
    /\ Lag(trade) > trade.protection["trailing_stop"].distance

Trailed(trade) ==
    [trade EXCEPT !.protection["trailing_stop"].price =
        TrailingStopPrice(tick[trade.instrument].close,
                          trade.protection["trailing_stop"].distance,
                          trade.protection["trailing_stop"].side)]

TrailedIf(cond, trade) == IF cond THEN Trailed(trade) ELSE trade

TriggerStop(i, k, kind) ==
    /\ Visit(i)
    /\ orders[i] = [kind |-> kind, trade |-> k] /\ Touched(k, kind)
    /\ Settle(k, trades[k].protection[kind].price, trades[k].units,
              TrailedIf(kind = "trailing_stop" /\ Trails(trades[k]),
                        Triggered(trades[k], kind)))
    /\ UNCHANGED <<orders, phase, tick, current, existing, size, units, ticks>>

TrailStop(i, k) ==
    /\ Visit(i)
    /\ orders[i] = [kind |-> "trailing_stop", trade |-> k]
    /\ ~Touched(k, "trailing_stop") /\ Trails(trades[k])
    /\ trades' = [trades EXCEPT ![k] = Trailed(trades[k])]
    /\ UNCHANGED <<orders, balance, phase, tick, current, existing, size, units, ticks>>

SkipStop(i, k, kind) ==
    /\ Visit(i)
    /\ orders[i] = [kind |-> kind, trade |-> k]
    /\ ~Touched(k, kind) /\ ~(kind = "trailing_stop" /\ Trails(trades[k]))
    /\ UNCHANGED <<book, phase, tick, current, existing, size, units, ticks>>

----------------------------------------------------------------------------
Init ==
    /\ trades = <<>> /\ orders = <<>> /\ balance = CapitalBase
    /\ phase = "idle" /\ tick = None /\ pending = {} /\ current = 0
    /\ existing = {} /\ size = 0 /\ units = 0 /\ ticks = 0

\* The calls a client makes, in any order.
Client ==
    \/ \E request \in Requests : CreateLimitOrder(request) \/ CreateMarketOrder(request)
    \/ \E i \in DOMAIN orders : CancelLimitOrder(i)
    \/ \E k \in DOMAIN trades :
         \/ \E kind \in {"stop_loss", "take_profit"}, price \in StopPrices :
              UpdateTradePrice(k, kind, price)
         \/ \E distance \in Distances : UpdateTrailingStopDistance(k, distance)
    \/ \E ins \in Instruments, data \in Ticks : CloserPosition(ins, data)
    \/ \E data \in Ticks : ProcessOrders(data)

\* The steps of the running call.
Step ==
    \/ Return
    \/ \E k \in existing : CloseNext(k) \/ SizeNext(k) \/ NetNext(k)
    \/ \E i \in pending : SkipLimitOrder(i) \/ ExecuteLimitOrder(i)
    \/ \E nets \in BOOLEAN : StartNetting(nets)
    \/ FillLimitOrder \/ LeaveLimitOrder
    \/ \E i \in pending, k \in DOMAIN trades :
         \/ \E kind \in Kinds : TriggerStop(i, k, kind) \/ SkipStop(i, k, kind)
         \/ TrailStop(i, k)

Next == Client \/ Step

SafetySpec == Init /\ [][Next]_vars

\* A call that has begun runs to its end; nobody has to call.
Spec == SafetySpec /\ WF_vars(Step)
=============================================================================
