---------------------------- MODULE AccountProofs ----------------------------
(***************************************************************************)
(* Theorems about SimulationAccount, for every value of its constants.     *)
(*                                                                         *)
(* The first part is about what the operators and actions do to the book:  *)
(* each step has one of the five effects that Effect lists.  The           *)
(* invariants are proved from the effects.  No theorem needs the fairness  *)
(* of Spec: they are about SafetySpec, its other part, which the backtest  *)
(* implements.                                                             *)
(***************************************************************************)
EXTENDS AccountProperties, SequenceTheorems, FiniteSetTheorems, TLAPS

GoodRates == [num : Nat \ {0}, den : Int]

LEMMA ProfitLossType ==
    ASSUME NEW open \in Int, NEW close \in Int, NEW n \in Int,
           NEW rate \in GoodRates
    PROVE  ProfitLoss(open, close, n, rate) \in Int
<1>1. rate.num \in Nat \ {0} /\ rate.den \in Int
  BY DEF GoodRates
<1>2. ((close - open) * n) * rate.den \in Int
  BY <1>1
<1> QED
  BY <1>1, <1>2 DEF ProfitLoss, InAccountCurrency

\* A rate of real data is missing, or can be divided and multiplied by.
LEMMA AccountRateType ==
    ASSUME NEW data \in Ticks, NEW currency, AccountRate(currency, data) # None
    PROVE  AccountRate(currency, data) \in GoodRates
<1>1. ASSUME NEW S \in SUBSET Instruments, S # {}, CandleOf(S, data) # None
      PROVE  CandleOf(S, data).close \in Nat \ {0}
  <2>1. (CHOOSE ins \in S : TRUE) \in Instruments
    BY <1>1
  <2>2. CandleOf(S, data) \in Candles
    BY <1>1, <2>1, DataAssumption DEF TickDataMaps, CandleOf
  <2> QED
    BY <1>1, <2>1, <2>2, DataAssumption DEF Candles, CandleOf
<1>2. ASSUME NEW candle, candle = None \/ candle.close \in Nat \ {0}
      PROVE  /\ DirectRate(candle) \in GoodRates \cup {None}
             /\ ReversedRate(candle) \in GoodRates \cup {None}
  BY <1>2, ConfigAssumption DEF DirectRate, ReversedRate, GoodRates
<1>3. \A base, quote : Pairs(base, quote) \in SUBSET Instruments
  BY DEF Pairs
<1>4. \A base, quote : Pairs(base, quote) # {} =>
        LET candle == CandleOf(Pairs(base, quote), data)
        IN  candle = None \/ candle.close \in Nat \ {0}
  BY <1>1, <1>3
<1>5. [num |-> 1, den |-> 1] \in GoodRates
  BY DEF GoodRates
<1> QED
  BY <1>2, <1>4, <1>5 DEF AccountRate

----------------------------------------------------------------------------
(* What the operators on trades return                                     *)

HasRate(trade) == QuoteRate(trade.instrument) \in GoodRates

LEMMA NewStopType ==
    ASSUME NEW kind \in Kinds, NEW value \in Int, NEW price \in Int,
           NEW side \in {"long", "short"},
           NEW stop, stop = NewStop(kind, value, price, side)
    PROVE  /\ stop \in StopOrders /\ stop.state = "pending"
           /\ kind = "trailing_stop" => stop.distance = value /\ stop.side = side
<1>1. TrailingStopPrice(price, value, side) \in Int
  BY DEF TrailingStopPrice
<1> QED
  BY <1>1 DEF NewStop, StopOrders

\* Part of a trade is settled: only its units and its profit change.
LEMMA PartiallyClosedType ==
    ASSUME NEW trade \in Trades, NEW price \in Int, NEW n \in Int, HasRate(trade),
           NEW profit, profit = ProfitLoss(trade.price, price, n, QuoteRate(trade.instrument)),
           NEW u, u = PartiallyClosed(trade, price, n)
    PROVE  /\ profit \in Int
           /\ u \in Trades
           /\ u.instrument = trade.instrument /\ u.price = trade.price
           /\ u.units = trade.units - n
           /\ u.realized = trade.realized + profit
           /\ u.state = trade.state /\ u.protection = trade.protection
<1>1. trade.price \in Int /\ trade.units \in Int /\ trade.realized \in Int
  BY DEF Trades
<1>2. profit \in Int
  BY <1>1, ProfitLossType DEF HasRate
<1>3. u = [trade EXCEPT !.units = trade.units - n, !.realized = trade.realized + profit]
  BY DEF PartiallyClosed
<1>4. trade.units - n \in Int /\ trade.realized + profit \in Int
  BY <1>1, <1>2
<1>5. u \in Trades
  BY <1>3, <1>4, Zenon DEF Trades
<1> QED
  BY <1>2, <1>3, <1>5 DEF Trades

LEMMA CancelledStopType ==
    ASSUME NEW stop \in StopOrders \cup {None}
    PROVE  /\ CancelledStop(stop) \in StopOrders \cup {None}
           /\ CancelledStop(stop) = None <=> stop = None
           /\ stop # None =>
                /\ CancelledStop(stop) # None
                /\ CancelledStop(stop).state # "pending"
                /\ CancelledStop(stop).price = stop.price
                /\ CancelledStop(stop).distance = stop.distance
                /\ CancelledStop(stop).side = stop.side
                /\ CancelledStop(stop).state = "triggered" <=> stop.state = "triggered"
BY NoneAssumption DEF CancelledStop, StopOrders

\* All of a trade is settled: it is closed, flat, and its stops are retired.
LEMMA ClosedType ==
    ASSUME NEW trade \in Trades, NEW price \in Int, HasRate(trade),
           NEW profit,
           profit = ProfitLoss(trade.price, price, trade.units, QuoteRate(trade.instrument)),
           NEW u, u = Closed(trade, price)
    PROVE  /\ profit \in Int
           /\ u \in Trades
           /\ u.instrument = trade.instrument /\ u.price = trade.price
           /\ u.units = 0 /\ u.state = "closed"
           /\ u.realized = trade.realized + profit
           /\ \A kind \in Kinds : u.protection[kind] = CancelledStop(trade.protection[kind])
<1> DEFINE part == PartiallyClosed(trade, price, trade.units)
           stops == [kind \in Kinds |-> CancelledStop(trade.protection[kind])]
<1>1. trade.units \in Int /\ trade.units - trade.units = 0
  BY DEF Trades
<1>2. /\ profit \in Int
      /\ part \in Trades
      /\ part.instrument = trade.instrument /\ part.price = trade.price
      /\ part.units = 0 /\ part.realized = trade.realized + profit
  BY <1>1, PartiallyClosedType
<1>3. stops \in [Kinds -> StopOrders \cup {None}]
  BY CancelledStopType DEF Trades
<1>4. u = [part EXCEPT !.state = "closed", !.protection = stops]
  BY DEF Closed
<1> HIDE DEF part, stops
<1>5. u \in Trades
  BY <1>2, <1>3, <1>4, Zenon DEF Trades
<1>6. /\ u.instrument = part.instrument /\ u.price = part.price
      /\ u.units = part.units /\ u.realized = part.realized
      /\ u.state = "closed" /\ u.protection = stops
  BY <1>2, <1>4 DEF Trades
<1> QED
  BY <1>2, <1>5, <1>6 DEF stops

\* A stop triggers: its trade is closed at its price and it alone says why.
LEMMA TriggeredType ==
    ASSUME NEW trade \in Trades, NEW kind \in Kinds, HasRate(trade),
           trade.protection[kind] # None,
           NEW profit,
           profit = ProfitLoss(trade.price, trade.protection[kind].price, trade.units,
                               QuoteRate(trade.instrument)),
           NEW u, u = Triggered(trade, kind)
    PROVE  /\ profit \in Int
           /\ u \in Trades
           /\ u.instrument = trade.instrument /\ u.price = trade.price
           /\ u.units = 0 /\ u.state = "closed"
           /\ u.realized = trade.realized + profit
           /\ \A other \in Kinds :
                /\ u.protection[other] = None <=> trade.protection[other] = None
                /\ trade.protection[other] # None =>
                     /\ u.protection[other].state # "pending"
                     /\ u.protection[other].price = trade.protection[other].price
                     /\ u.protection[other].distance = trade.protection[other].distance
                     /\ u.protection[other].side = trade.protection[other].side
                     /\ u.protection[other].state = "triggered"
                          <=> other = kind \/ trade.protection[other].state = "triggered"
<1> DEFINE stop == [trade.protection[kind] EXCEPT !.state = "triggered"]
           stops == [trade.protection EXCEPT ![kind] = stop]
           marked == [trade EXCEPT !.protection = stops]
           price == trade.protection[kind].price
<1>1. trade.protection \in [Kinds -> StopOrders \cup {None}] /\ trade.price \in Int
  BY DEF Trades
<1>2. trade.protection[kind] \in StopOrders
  BY <1>1
<1>3. /\ stop \in StopOrders /\ stop.state = "triggered" /\ stop # None
      /\ stop.price = price /\ price \in Int
      /\ stop.distance = trade.protection[kind].distance
      /\ stop.side = trade.protection[kind].side
  BY <1>2, NoneAssumption DEF StopOrders
<1>4. u = Closed(marked, price)
  BY DEF Triggered
<1> HIDE DEF stop
<1>5. stops \in [Kinds -> StopOrders \cup {None}]
      /\ \A other \in Kinds :
           stops[other] = IF other = kind THEN stop ELSE trade.protection[other]
  BY <1>1, <1>3
<1> HIDE DEF stops
<1>6. marked \in Trades
  BY <1>5, Zenon DEF Trades
<1>7. /\ marked.instrument = trade.instrument /\ marked.price = trade.price
      /\ marked.units = trade.units /\ marked.realized = trade.realized
      /\ marked.protection = stops
  BY DEF Trades
<1> HIDE DEF marked, price
<1>8. HasRate(marked) /\ profit = ProfitLoss(marked.price, price, marked.units,
                                             QuoteRate(marked.instrument))
  BY <1>7 DEF HasRate, price
<1>9. /\ profit \in Int
      /\ u \in Trades
      /\ u.instrument = marked.instrument /\ u.price = marked.price
      /\ u.units = 0 /\ u.state = "closed"
      /\ u.realized = marked.realized + profit
      /\ \A other \in Kinds : u.protection[other] = CancelledStop(marked.protection[other])
  BY <1>3, <1>4, <1>6, <1>8, ClosedType
<1>10. \A other \in Kinds : stops[other] \in StopOrders \cup {None}
  BY <1>5
<1>11. \A other \in Kinds : u.protection[other] = CancelledStop(stops[other])
  BY <1>7, <1>9
<1> QED
  BY <1>3, <1>5, <1>7, <1>9, <1>10, <1>11, CancelledStopType DEF price

\* The trailing stop of a trade moves, and nothing else.
LEMMA TrailedType ==
    ASSUME NEW trade \in Trades, trade.protection["trailing_stop"] # None,
           NEW close \in Int, close = tick[trade.instrument].close,
           NEW u, u = Trailed(trade)
    PROVE  /\ u \in Trades
           /\ u.instrument = trade.instrument /\ u.price = trade.price
           /\ u.units = trade.units /\ u.state = trade.state
           /\ u.realized = trade.realized
           /\ \A kind \in Kinds \ {"trailing_stop"} :
                u.protection[kind] = trade.protection[kind]
           /\ u.protection["trailing_stop"] =
                [trade.protection["trailing_stop"] EXCEPT !.price =
                    TrailingStopPrice(close, trade.protection["trailing_stop"].distance,
                                      trade.protection["trailing_stop"].side)]
           /\ u.protection["trailing_stop"] \in StopOrders
<1> DEFINE old == trade.protection["trailing_stop"]
           price == TrailingStopPrice(close, old.distance, old.side)
           stop == [old EXCEPT !.price = price]
           stops == [trade.protection EXCEPT !["trailing_stop"] = stop]
<1>1. trade.protection \in [Kinds -> StopOrders \cup {None}]
      /\ "trailing_stop" \in Kinds
  BY DEF Trades, Kinds
<1>2. old \in StopOrders /\ old.distance \in Int
  BY <1>1 DEF StopOrders
<1>3. price \in Int
  BY <1>2 DEF TrailingStopPrice
<1>4. u = [trade EXCEPT !.protection = stops]
  BY DEF Trailed
<1> HIDE DEF price
<1>5. stop \in StopOrders
  BY <1>2, <1>3, Zenon DEF StopOrders
<1> HIDE DEF stop
<1>6. stops \in [Kinds -> StopOrders \cup {None}]
      /\ \A kind \in Kinds :
           stops[kind] = IF kind = "trailing_stop" THEN stop ELSE trade.protection[kind]
  BY <1>1, <1>5
<1> HIDE DEF stops
<1>7. u \in Trades
  BY <1>4, <1>6, Zenon DEF Trades
<1>8. /\ u.instrument = trade.instrument /\ u.price = trade.price
      /\ u.units = trade.units /\ u.state = trade.state
      /\ u.realized = trade.realized /\ u.protection = stops
  BY <1>4 DEF Trades
<1> QED
  BY <1>1, <1>5, <1>6, <1>7, <1>8 DEF stop, price

\* The client moves a stop of a trade or attaches one.
LEMMA RearrangedType ==
    ASSUME NEW trade \in Trades, NEW kind \in Kinds, NEW stop \in StopOrders,
           NEW u, u = WithStop(trade, kind, stop)
    PROVE  /\ u \in Trades
           /\ u.instrument = trade.instrument /\ u.price = trade.price
           /\ u.units = trade.units /\ u.state = trade.state
           /\ u.realized = trade.realized
           /\ u.protection[kind] = stop
           /\ \A other \in Kinds \ {kind} : u.protection[other] = trade.protection[other]
<1> DEFINE stops == [trade.protection EXCEPT ![kind] = stop]
<1>1. trade.protection \in [Kinds -> StopOrders \cup {None}]
  BY DEF Trades
<1>2. /\ stops \in [Kinds -> StopOrders \cup {None}]
      /\ stops[kind] = stop
      /\ \A other \in Kinds \ {kind} : stops[other] = trade.protection[other]
  BY <1>1
<1>3. u = [trade EXCEPT !.protection = stops]
  BY DEF WithStop
<1> HIDE DEF stops
<1>4. u \in Trades
  BY <1>2, <1>3, Zenon DEF Trades
<1> QED
  BY <1>2, <1>3, <1>4 DEF Trades

LEMMA NewTradeType ==
    ASSUME NEW order \in LimitOrders, NEW n \in Int,
           NEW t, t = NewTrade(order, n)
    PROVE  /\ t \in Trades
           /\ t.instrument = order.instrument /\ t.price = order.price
           /\ t.units = n /\ t.state = "open" /\ t.realized = 0
           /\ \A kind \in Kinds : t.protection[kind] =
                IF order.protect[kind] = None THEN None
                ELSE NewStop(kind, order.protect[kind], order.price, SideOf(n))
<1> DEFINE stops == [kind \in Kinds |->
                        IF order.protect[kind] = None THEN None
                        ELSE NewStop(kind, order.protect[kind], order.price, SideOf(n))]
<1>1. order.instrument \in Instruments /\ order.price \in Int
      /\ order.protect \in [Kinds -> Int \cup {None}]
  BY DEF LimitOrders, Protections
<1>2. stops \in [Kinds -> StopOrders \cup {None}]
  BY <1>1, NewStopType DEF SideOf
<1>3. t = [instrument |-> order.instrument, price |-> order.price, units |-> n,
           realized |-> 0, state |-> "open", protection |-> stops]
  BY DEF NewTrade
<1> HIDE DEF stops
<1>4. t \in Trades
  BY <1>1, <1>2, <1>3 DEF Trades
<1> QED
  BY <1>3, <1>4 DEF stops

----------------------------------------------------------------------------
(* The effect of a step on the book: one trade is ended, reduced or        *)
(* rearranged, one is appended, or nothing changes                         *)

Moved(k, u) ==
    /\ trades' = [trades EXCEPT ![k] = u]
    /\ balance' = balance + (u.realized - trades[k].realized)
    /\ u.instrument = trades[k].instrument /\ u.price = trades[k].price

Causes == Kinds \cup {"call"}

\* The trailing stop does not move against the trade whose side it knows.
Forward(t, u) ==
    LET stop == t.protection["trailing_stop"]
        moved == u.protection["trailing_stop"]
    IN  stop # None /\ stop.side = SideOf(t.units) =>
          IF t.units > 0 THEN moved.price >= stop.price ELSE moved.price <= stop.price

Ends(t, u, cause) ==
    /\ Forward(t, u)
    /\ t.state = "open" /\ u.state = "closed" /\ u.units = 0
    /\ \A kind \in Kinds :
         /\ u.protection[kind] = None <=> t.protection[kind] = None
         /\ t.protection[kind] # None =>
              /\ u.protection[kind].state # "pending"
              /\ u.protection[kind].state = "triggered"
                   <=> kind = cause \/ t.protection[kind].state = "triggered"

Reduces(t, u) ==
    /\ t.state = "open" /\ u.state = "open"
    /\ Ledger!SameSign(t.units, u.units) /\ u.protection = t.protection

Rearranges(t, u, kind) ==
    /\ Forward(t, u)
    /\ u.state = t.state /\ u.units = t.units /\ u.realized = t.realized
    /\ \A other \in Kinds \ {kind} : u.protection[other] = t.protection[other]
    /\ LET old == t.protection[kind]
           new == u.protection[kind]
       IN  /\ new # None
           /\ IF old = None
              THEN /\ new.state = "pending"
                   /\ kind = "trailing_stop" =>
                        new.distance >= 0 /\ new.side = SideOf(t.units)
              ELSE /\ new.state = old.state /\ new.side = old.side
                   /\ new.distance = old.distance \/ new.distance >= 0

LEMMA SamePriceForward ==
    ASSUME NEW t \in Trades, NEW u, "trailing_stop" \in Kinds,
           t.protection["trailing_stop"] # None =>
             u.protection["trailing_stop"].price = t.protection["trailing_stop"].price
    PROVE  Forward(t, u)
<1>1. t.protection["trailing_stop"] \in StopOrders \cup {None}
  BY DEF Trades
<1> QED
  BY <1>1 DEF Forward, StopOrders

\* A stop that trails is set closer to the market than it was.
LEMMA TrailsForward ==
    ASSUME NEW t \in Trades, Trails(t), NEW close \in Int, close = tick[t.instrument].close,
           t.protection["trailing_stop"] # None, NEW u,
           u.protection["trailing_stop"].price =
             TrailingStopPrice(close, t.protection["trailing_stop"].distance,
                               t.protection["trailing_stop"].side)
    PROVE  Forward(t, u)
<1> DEFINE stop == t.protection["trailing_stop"]
<1>1. stop \in StopOrders /\ t.units \in Int
  BY DEF Trades, Kinds
<1>2. stop.price \in Int /\ stop.distance \in Int
  BY <1>1 DEF StopOrders
<1>3. t.units # 0 /\ Lag(t) > stop.distance
  BY DEF Trails
<1>4. Lag(t) = IF t.units < 0 THEN stop.price - close ELSE close - stop.price
  BY DEF Lag
<1> HIDE DEF stop
<1>5. CASE t.units < 0
  BY <1>1, <1>2, <1>3, <1>4, <1>5 DEF Forward, SideOf, TrailingStopPrice, stop
<1>6. CASE t.units > 0
  BY <1>1, <1>2, <1>3, <1>4, <1>6 DEF Forward, SideOf, TrailingStopPrice, stop
<1> QED
  BY <1>1, <1>3, <1>5, <1>6

Appends(t) ==
    /\ trades' = Append(trades, t) /\ balance' = balance
    /\ t.state = "open" /\ t.units # 0 /\ t.realized = 0
    /\ \A kind \in Kinds : t.protection[kind] # None =>
         /\ t.protection[kind].state = "pending"
         /\ kind = "trailing_stop" =>
              /\ t.protection[kind].distance = orders[current].protect[kind]
              /\ t.protection[kind].side = SideOf(t.units)

LEMMA TradeType ==
    ASSUME TypeOK, NEW k \in DOMAIN trades
    PROVE  /\ trades[k] \in Trades
           /\ trades[k].instrument \in Instruments /\ trades[k].price \in Int
           /\ trades[k].units \in Int /\ trades[k].realized \in Int
           /\ trades[k].state \in {"open", "closed"}
           /\ trades[k].protection \in [Kinds -> StopOrders \cup {None}]
<1>1. trades[k] \in Trades
  BY DEF TypeOK
<1> QED
  BY <1>1 DEF Trades

LEMMA RateInCall ==
    ASSUME TypeOK, phase # "idle", NEW ins, QuoteRate(ins) # None
    PROVE  QuoteRate(ins) \in GoodRates
BY AccountRateType DEF QuoteRate, TypeOK

LEMMA CloseInCall ==
    ASSUME TypeOK, phase # "idle", NEW ins \in Instruments, tick[ins] # None
    PROVE  tick[ins].close \in Int
BY DataAssumption DEF TypeOK, TickDataMaps, Candles

\* CloseTrade ends an open trade and books its profit.
LEMMA CloseTradeEffect ==
    ASSUME TypeOK, NEW k \in OpenTrades, NEW price \in Int, HasRate(trades[k]),
           CloseTrade(k, price)
    PROVE  \E u \in Trades : Moved(k, u) /\ Ends(trades[k], u, "call")
<1> DEFINE t == trades[k]
           closing == ClosingPrice(t, price)
           u == Closed(t, closing)
           profit == ProfitLoss(t.price, closing, t.units, QuoteRate(t.instrument))
<1>1. k \in DOMAIN trades /\ t \in Trades /\ t.state = "open"
  BY DEF OpenTrades, TypeOK
<1>2. closing \in Int
  BY ConfigAssumption DEF ClosingPrice
<1>3. trades' = [trades EXCEPT ![k] = u] /\ balance' = balance + profit
  BY DEF CloseTrade, Settle
<1> HIDE DEF closing
<1>4. /\ profit \in Int /\ u \in Trades
      /\ u.instrument = t.instrument /\ u.price = t.price
      /\ u.units = 0 /\ u.state = "closed"
      /\ u.realized = t.realized + profit
      /\ \A kind \in Kinds : u.protection[kind] = CancelledStop(t.protection[kind])
  BY <1>1, <1>2, ClosedType
<1> HIDE DEF u, profit
<1>5. \A kind \in Kinds : t.protection[kind] \in StopOrders \cup {None}
  BY <1>1 DEF Trades
<1>6. Ends(t, u, "call")
  <2>1. "trailing_stop" \in Kinds
    BY DEF Kinds
  <2>2. Forward(t, u)
    BY <1>1, <1>4, <1>5, <2>1, CancelledStopType, SamePriceForward
  <2> QED
    BY <1>1, <1>4, <1>5, <2>2, CancelledStopType DEF Ends, Kinds
<1>7. t.realized \in Int
  BY <1>1 DEF Trades
<1>8. profit = u.realized - t.realized
  BY <1>4, <1>7
<1>9. Moved(k, u)
  BY <1>3, <1>4, <1>8 DEF Moved
<1> QED
  BY <1>4, <1>6, <1>9

\* PartiallyCloseTrade by fewer units than the trade has keeps it open on its
\* side, whatever the sign of the units is.
LEMMA PartiallyCloseTradeEffect ==
    ASSUME TypeOK, NEW k \in OpenTrades, NEW price \in Int, NEW n \in Int,
           HasRate(trades[k]), Abs(n) < Abs(trades[k].units),
           PartiallyCloseTrade(k, price, n)
    PROVE  \E u \in Trades : Moved(k, u) /\ Reduces(trades[k], u)
<1> DEFINE t == trades[k]
           closing == ClosingPrice(t, price)
           u == PartiallyClosed(t, closing, n)
           profit == ProfitLoss(t.price, closing, n, QuoteRate(t.instrument))
<1>1. k \in DOMAIN trades /\ t \in Trades /\ t.state = "open"
  BY DEF OpenTrades, TypeOK
<1>2. closing \in Int
  BY ConfigAssumption DEF ClosingPrice
<1>3. trades' = [trades EXCEPT ![k] = u] /\ balance' = balance + profit
  BY DEF PartiallyCloseTrade, Settle
<1>0. HasRate(t)
  OBVIOUS
<1> HIDE DEF t, closing
<1>4. /\ profit \in Int /\ u \in Trades
      /\ u.instrument = t.instrument /\ u.price = t.price
      /\ u.units = t.units - n /\ u.realized = t.realized + profit
      /\ u.state = t.state /\ u.protection = t.protection
  BY <1>0, <1>1, <1>2, PartiallyClosedType
<1> HIDE DEF u, profit
<1>5. t.units \in Int /\ t.realized \in Int
  BY <1>1 DEF Trades
<1>6. Ledger!SameSign(t.units, u.units)
  BY <1>4, <1>5 DEF Abs, Ledger!SameSign, t
<1>7. profit = u.realized - t.realized
  BY <1>4, <1>5
<1>8. Moved(k, u)
  BY <1>3, <1>4, <1>7 DEF Moved, t
<1> QED
  BY <1>1, <1>4, <1>6, <1>8 DEF Reduces, t

LEMMA CloseNextEffect ==
    ASSUME TypeOK, CallInvariant, NEW k \in existing, CloseNext(k)
    PROVE  \E u \in Trades : Moved(k, u) /\ Ends(trades[k], u, "call")
<1>1. k \in OpenTrades /\ trades[k].instrument \in Instruments
  BY TradeType DEF CallInvariant, OpenTrades
<1>2. /\ phase = "closing" /\ tick[trades[k].instrument] # None
      /\ QuoteRate(trades[k].instrument) # None
  BY DEF CloseNext, CallInvariant
<1>3. HasRate(trades[k]) /\ tick[trades[k].instrument].close \in Int
  BY <1>1, <1>2, RateInCall, CloseInCall DEF HasRate
<1> QED
  BY <1>1, <1>3, CloseTradeEffect DEF CloseNext

LEMMA NetNextEffect ==
    ASSUME TypeOK, CallInvariant, NEW k \in existing, NetNext(k)
    PROVE  \/ /\ Abs(units) >= Abs(trades[k].units)
              /\ units' = units + trades[k].units
              /\ \E u \in Trades : Moved(k, u) /\ Ends(trades[k], u, "call")
           \/ /\ units' = 0
              /\ \E u \in Trades : Moved(k, u) /\ Reduces(trades[k], u)
<1>1. k \in OpenTrades /\ trades[k].units \in Int /\ units \in Int
  BY TradeType DEF CallInvariant, OpenTrades, TypeOK
<1>2. /\ phase = "netting" /\ orders[current].price \in Int
      /\ QuoteRate(trades[k].instrument) # None
  BY DEF NetNext, CallInvariant, CanExecute, HasMarketInfo, LimitOrders
<1>3. HasRate(trades[k])
  BY <1>2, RateInCall DEF HasRate
<1>4. CASE Abs(units) >= Abs(trades[k].units)
  <2>1. units' = units + trades[k].units /\ CloseTrade(k, orders[current].price)
    BY <1>4 DEF NetNext, UnitsLeft
  <2> QED
    BY <1>1, <1>2, <1>3, <1>4, <2>1, CloseTradeEffect
<1>5. CASE ~(Abs(units) >= Abs(trades[k].units))
  <2>1. units' = 0 /\ PartiallyCloseTrade(k, orders[current].price, units)
    BY <1>5 DEF NetNext
  <2>2. Abs(units) < Abs(trades[k].units)
    BY <1>1, <1>5 DEF Abs
  <2> QED
    BY <1>1, <1>2, <1>3, <2>1, <2>2, PartiallyCloseTradeEffect
<1> QED
  BY <1>4, <1>5

LEMMA StopOfOrder ==
    ASSUME TypeOK, NEW i \in pending, NEW k \in DOMAIN trades, NEW kind \in Kinds,
           orders[i] = [kind |-> kind, trade |-> k]
    PROVE  orders[i] \in StopRefs /\ trades[k].protection[kind] # None
<1>1. trades \in Seq(Trades) /\ DOMAIN trades = 1..Len(trades) /\ Len(trades) \in Nat
  BY LenProperties DEF TypeOK
<1>2. orders[i] \in StopRefs
  BY <1>1 DEF StopRefs
<1> QED
  BY <1>2 DEF TypeOK

LEMMA TrailStopEffect ==
    ASSUME TypeOK, NEW i \in pending, NEW k \in DOMAIN trades, TrailStop(i, k)
    PROVE  \E u \in Trades : Moved(k, u) /\ Rearranges(trades[k], u, "trailing_stop")
<1> DEFINE t == trades[k]
           u == Trailed(t)
           close == tick[t.instrument].close
<1>1. t \in Trades /\ t.instrument \in Instruments /\ "trailing_stop" \in Kinds
  BY TradeType DEF Kinds
<1>2. t.protection["trailing_stop"] # None
  BY <1>1, StopOfOrder DEF TrailStop
<1>3. phase = "orders" /\ HasMarketInfo(t.instrument)
  BY DEF TrailStop, Visit, Trails
<1>4. close \in Int
  BY <1>1, <1>3, CloseInCall DEF HasMarketInfo
<1>5. trades' = [trades EXCEPT ![k] = u] /\ balance' = balance
  BY DEF TrailStop
<1> HIDE DEF u
<1>6. /\ u \in Trades
      /\ u.instrument = t.instrument /\ u.price = t.price
      /\ u.units = t.units /\ u.state = t.state /\ u.realized = t.realized
      /\ \A kind \in Kinds \ {"trailing_stop"} : u.protection[kind] = t.protection[kind]
      /\ u.protection["trailing_stop"] =
           [t.protection["trailing_stop"] EXCEPT !.price =
               TrailingStopPrice(close, t.protection["trailing_stop"].distance,
                                      t.protection["trailing_stop"].side)]
      /\ u.protection["trailing_stop"] \in StopOrders
  BY <1>1, <1>2, <1>4, TrailedType DEF u
<1>7. t.protection["trailing_stop"] \in StopOrders
  BY <1>1, <1>2 DEF Trades
<1> HIDE DEF t, close
<1>8. /\ u.protection["trailing_stop"].state = t.protection["trailing_stop"].state
      /\ u.protection["trailing_stop"].side = t.protection["trailing_stop"].side
      /\ u.protection["trailing_stop"].distance = t.protection["trailing_stop"].distance
      /\ u.protection["trailing_stop"] # None
  BY <1>6, <1>7, NoneAssumption DEF StopOrders
<1>9. Rearranges(t, u, "trailing_stop")
  <2>1. Trails(t)
    BY DEF TrailStop, t
  <2>2. u.protection["trailing_stop"].price =
          TrailingStopPrice(close, t.protection["trailing_stop"].distance,
                            t.protection["trailing_stop"].side)
    BY <1>6, <1>7 DEF StopOrders
  <2>3. Forward(t, u)
    BY <1>1, <1>2, <1>4, <2>1, <2>2, TrailsForward DEF close
  <2> QED
    BY <1>2, <1>6, <1>8, <2>3 DEF Rearranges
<1>10. t.realized \in Int /\ balance \in Int
  BY <1>1 DEF Trades, TypeOK
<1>11. Moved(k, u)
  BY <1>5, <1>6, <1>10 DEF Moved, t
<1> QED
  BY <1>6, <1>9, <1>11 DEF t

LEMMA TriggerStopEffect ==
    ASSUME TypeOK, ClosedIffFlat, NEW i \in pending, NEW k \in DOMAIN trades,
           NEW kind \in Kinds, TriggerStop(i, k, kind)
    PROVE  \E u \in Trades : Moved(k, u) /\ Ends(trades[k], u, kind)
<1> DEFINE t == trades[k]
           v == Triggered(t, kind)
           u == TrailedIf(kind = "trailing_stop" /\ Trails(t), v)
           price == t.protection[kind].price
           profit == ProfitLoss(t.price, price, t.units, QuoteRate(t.instrument))
           close == tick[t.instrument].close
<1>1. /\ t \in Trades /\ t.instrument \in Instruments /\ t.realized \in Int
      /\ t.units \in Int /\ t.state \in {"open", "closed"}
      /\ t.protection[kind] # None
  BY TradeType, StopOfOrder DEF TriggerStop
<1>2. phase = "orders" /\ HasMarketInfo(t.instrument) /\ t.units # 0
  BY <1>1 DEF TriggerStop, Visit, Touched
<1>3. t.state = "open"
  BY <1>1, <1>2 DEF ClosedIffFlat
<1>4. HasRate(t) /\ close \in Int
  BY <1>1, <1>2, RateInCall, CloseInCall DEF HasMarketInfo, HasRate
<1>5. trades' = [trades EXCEPT ![k] = u] /\ balance' = balance + profit
  BY DEF TriggerStop, Settle
<1> HIDE DEF t, v
<1>6. /\ profit \in Int /\ v \in Trades
      /\ v.instrument = t.instrument /\ v.price = t.price
      /\ v.units = 0 /\ v.state = "closed" /\ v.realized = t.realized + profit
      /\ \A other \in Kinds :
           /\ v.protection[other] = None <=> t.protection[other] = None
           /\ t.protection[other] # None =>
                /\ v.protection[other].state # "pending"
                /\ v.protection[other].price = t.protection[other].price
                /\ v.protection[other].distance = t.protection[other].distance
                /\ v.protection[other].side = t.protection[other].side
                /\ v.protection[other].state = "triggered"
                     <=> other = kind \/ t.protection[other].state = "triggered"
  BY <1>1, <1>4, TriggeredType DEF v
<1> HIDE DEF profit
<1>7. Ends(t, v, kind)
  <2>1. "trailing_stop" \in Kinds
    BY DEF Kinds
  <2>2. Forward(t, v)
    BY <1>1, <1>6, <2>1, SamePriceForward
  <2> QED
    BY <1>3, <1>6, <2>2 DEF Ends
<1>8. profit = v.realized - t.realized
  BY <1>1, <1>6
<1>9. CASE ~(kind = "trailing_stop" /\ Trails(t))
  <2>1. u = v
    BY <1>9 DEF TrailedIf
  <2>2. Moved(k, v)
    BY <1>5, <1>6, <1>8, <2>1 DEF Moved, t
  <2> QED
    BY <1>6, <1>7, <2>2 DEF t
<1>10. CASE kind = "trailing_stop" /\ Trails(t)
  <2>1. u = Trailed(v) /\ v.protection["trailing_stop"] # None
    BY <1>1, <1>6, <1>10 DEF TrailedIf
  <2>2. close = tick[v.instrument].close
    BY <1>6
  <2> HIDE DEF u, close
  <2>3. /\ u \in Trades
        /\ u.instrument = v.instrument /\ u.price = v.price
        /\ u.units = v.units /\ u.state = v.state /\ u.realized = v.realized
        /\ \A other \in Kinds \ {"trailing_stop"} : u.protection[other] = v.protection[other]
        /\ u.protection["trailing_stop"] =
             [v.protection["trailing_stop"] EXCEPT !.price =
                 TrailingStopPrice(close, v.protection["trailing_stop"].distance,
                                      v.protection["trailing_stop"].side)]
        /\ u.protection["trailing_stop"] \in StopOrders
    BY <1>4, <1>6, <2>1, <2>2, TrailedType
  <2>4. v.protection["trailing_stop"] \in StopOrders
    BY <1>6, <2>1 DEF Trades, Kinds
  <2>5. /\ u.protection["trailing_stop"] # None
        /\ u.protection["trailing_stop"].state = v.protection["trailing_stop"].state
    BY <2>3, <2>4, NoneAssumption DEF StopOrders
  <2>6. u.protection["trailing_stop"].price =
          TrailingStopPrice(close, t.protection["trailing_stop"].distance,
                            t.protection["trailing_stop"].side)
    BY <1>1, <1>6, <1>10, <2>3, <2>4 DEF StopOrders
  <2>7. Forward(t, u)
    BY <1>1, <1>4, <1>10, <2>6, TrailsForward DEF close
  <2>8. Ends(t, u, kind)
    BY <1>1, <1>7, <1>10, <2>3, <2>5, <2>7 DEF Ends
  <2>9. Moved(k, u)
    BY <1>5, <1>6, <1>8, <2>3 DEF Moved, t
  <2> QED
    BY <2>3, <2>8, <2>9 DEF t
<1> QED
  BY <1>9, <1>10

LEMMA UpdateTradePriceEffect ==
    ASSUME TypeOK, NEW k \in DOMAIN trades, NEW kind \in {"stop_loss", "take_profit"},
           NEW price \in StopPrices, UpdateTradePrice(k, kind, price)
    PROVE  \E u \in Trades : Moved(k, u) /\ Rearranges(trades[k], u, kind)
<1> DEFINE t == trades[k]
           old == t.protection[kind]
           new == IF old = None THEN NewStop(kind, price, t.price, "long")
                  ELSE [old EXCEPT !.price = price]
           u == WithStop(t, kind, new)
<1>1. /\ kind \in Kinds /\ kind # "trailing_stop"
      /\ t \in Trades /\ t.price \in Int /\ t.realized \in Int
      /\ old \in StopOrders \cup {None} /\ price \in Int /\ balance \in Int
  BY TradeType, ClientAssumption DEF Kinds, TypeOK
<1>2. trades' = [trades EXCEPT ![k] = u] /\ balance' = balance
  BY DEF UpdateTradePrice
<1>3. /\ new \in StopOrders
      /\ old = None => new.state = "pending"
      /\ old # None => /\ new.state = old.state /\ new.side = old.side
                       /\ new.distance = old.distance
  <2>1. CASE old = None
    BY <1>1, <2>1, NewStopType
  <2>2. CASE old # None
    <3>1. old \in StopOrders /\ new = [old EXCEPT !.price = price]
      BY <1>1, <2>2
    <3> QED
      BY <1>1, <2>2, <3>1 DEF StopOrders
  <2> QED
    BY <2>1, <2>2
<1> HIDE DEF new
<1> HIDE DEF t
<1>4. /\ u \in Trades
      /\ u.instrument = t.instrument /\ u.price = t.price
      /\ u.units = t.units /\ u.state = t.state /\ u.realized = t.realized
      /\ u.protection[kind] = new
      /\ \A other \in Kinds \ {kind} : u.protection[other] = t.protection[other]
  BY <1>1, <1>3, RearrangedType
<1> HIDE DEF u
<1>5. new # None
  BY <1>3, NoneAssumption
<1>6. Rearranges(t, u, kind)
  <2>1. "trailing_stop" \in Kinds \ {kind}
    BY <1>1 DEF Kinds
  <2>2. Forward(t, u)
    BY <1>1, <1>4, <2>1, SamePriceForward
  <2> QED
    BY <1>1, <1>3, <1>4, <1>5, <2>2 DEF Rearranges
<1>7. Moved(k, u)
  BY <1>1, <1>2, <1>4 DEF Moved, t
<1> QED
  BY <1>4, <1>6, <1>7 DEF t

LEMMA UpdateTrailingStopDistanceEffect ==
    ASSUME TypeOK, NEW k \in DOMAIN trades, NEW distance \in Distances,
           UpdateTrailingStopDistance(k, distance)
    PROVE  \E u \in Trades : Moved(k, u) /\ Rearranges(trades[k], u, "trailing_stop")
<1> DEFINE t == trades[k]
           kind == "trailing_stop"
           old == t.protection[kind]
           new == IF old = None THEN NewStop(kind, distance, t.price, SideOf(t.units))
                  ELSE [old EXCEPT !.distance = distance]
           u == WithStop(t, kind, new)
<1>1. /\ kind \in Kinds
      /\ t \in Trades /\ t.price \in Int /\ t.realized \in Int /\ t.units \in Int
      /\ old \in StopOrders \cup {None} /\ distance \in Nat /\ balance \in Int
  BY TradeType, ClientAssumption DEF Kinds, TypeOK
<1>2. trades' = [trades EXCEPT ![k] = u] /\ balance' = balance
  BY DEF UpdateTrailingStopDistance
<1>3. /\ new \in StopOrders
      /\ new.distance = distance
      /\ old = None => new.state = "pending" /\ new.side = SideOf(t.units)
      /\ old # None => /\ new.state = old.state /\ new.side = old.side
                       /\ new.price = old.price
  <2>1. CASE old = None
    BY <1>1, <2>1, NewStopType DEF SideOf
  <2>2. CASE old # None
    <3>1. old \in StopOrders /\ new = [old EXCEPT !.distance = distance]
      BY <1>1, <2>2
    <3> QED
      BY <1>1, <2>2, <3>1 DEF StopOrders
  <2> QED
    BY <2>1, <2>2
<1> HIDE DEF new
<1> HIDE DEF t
<1>4. /\ u \in Trades
      /\ u.instrument = t.instrument /\ u.price = t.price
      /\ u.units = t.units /\ u.state = t.state /\ u.realized = t.realized
      /\ u.protection[kind] = new
      /\ \A other \in Kinds \ {kind} : u.protection[other] = t.protection[other]
  BY <1>1, <1>3, RearrangedType
<1> HIDE DEF u
<1>5. new # None /\ distance >= 0
  BY <1>1, <1>3, NoneAssumption
<1>6. Rearranges(t, u, kind)
  <2>1. Forward(t, u)
    BY <1>1, <1>3, <1>4, SamePriceForward
  <2> QED
    BY <1>1, <1>3, <1>4, <1>5, <2>1 DEF Rearranges
<1>7. Moved(k, u)
  BY <1>1, <1>2, <1>4 DEF Moved, t
<1> QED
  BY <1>4, <1>6, <1>7 DEF t

LEMMA FillLimitOrderEffect ==
    ASSUME TypeOK, CallInvariant, FillLimitOrder
    PROVE  \E t \in Trades : /\ Appends(t) /\ t.units = units
                             /\ t.instrument = orders[current].instrument
                             /\ t.price = orders[current].price
                             /\ \A kind \in Kinds : t.protection[kind] # None
                                  <=> orders[current].protect[kind] # None
<1> DEFINE order == orders[current]
           t == NewTrade(order, units)
<1>1. order \in LimitOrders /\ units \in Int /\ units # 0
  BY DEF FillLimitOrder, NettingDone, OpensTrade, CallInvariant, TypeOK
<1>2. trades' = Append(trades, t) /\ balance' = balance
  BY DEF FillLimitOrder
<1>3. /\ t \in Trades
      /\ t.instrument = order.instrument /\ t.price = order.price
      /\ t.units = units /\ t.state = "open" /\ t.realized = 0
      /\ \A kind \in Kinds : t.protection[kind] =
           IF order.protect[kind] = None THEN None
           ELSE NewStop(kind, order.protect[kind], order.price, SideOf(units))
  BY <1>1, NewTradeType
<1> HIDE DEF t
<1>4. /\ order.price \in Int /\ SideOf(units) \in {"long", "short"}
      /\ \A kind \in Kinds : order.protect[kind] \in Int \cup {None}
  BY <1>1 DEF LimitOrders, Protections, SideOf
<1>5. ASSUME NEW kind \in Kinds, order.protect[kind] # None
      PROVE  /\ t.protection[kind] \in StopOrders
             /\ t.protection[kind].state = "pending"
             /\ kind = "trailing_stop" =>
                  /\ t.protection[kind].distance = order.protect[kind]
                  /\ t.protection[kind].side = SideOf(units)
  BY <1>3, <1>4, <1>5, NewStopType
<1>6. \A kind \in Kinds : t.protection[kind] # None <=> order.protect[kind] # None
  BY <1>3, <1>5, NoneAssumption
<1>7. Appends(t)
  BY <1>1, <1>2, <1>3, <1>5, <1>6 DEF Appends
<1> QED
  BY <1>3, <1>6, <1>7

Kept == trades' = trades /\ balance' = balance

\* Every step has one of five effects on the book.
Effect ==
    \/ Kept
    \/ \E k \in OpenTrades, u \in Trades :
         Moved(k, u) /\ \E cause \in Causes :
             /\ Ends(trades[k], u, cause)
             /\ cause # "call" => \E i \in pending : TriggerStop(i, k, cause)
    \/ \E k \in OpenTrades, u \in Trades :
         Moved(k, u) /\ Reduces(trades[k], u) /\ phase = "netting" /\ existing # {}
    \/ \E k \in DOMAIN trades, u \in Trades :
         Moved(k, u) /\ \E kind \in Kinds :
             Rearranges(trades[k], u, kind) /\ (phase = "idle" \/ kind = "trailing_stop")
    \/ FillLimitOrder /\ \E t \in Trades : Appends(t)

LEMMA OpenFromEnds ==
    ASSUME NEW k \in DOMAIN trades, NEW u, NEW cause, Ends(trades[k], u, cause)
    PROVE  k \in OpenTrades
BY DEF Ends, OpenTrades

LEMMA NextEffect ==
    ASSUME TypeOK, CallInvariant, ClosedIffFlat, [Next]_vars
    PROVE  Effect
<1>1. existing \subseteq OpenTrades /\ OpenTrades \subseteq DOMAIN trades
  BY DEF CallInvariant, OpenTrades
<1>2. "call" \in Causes /\ Kinds \subseteq Causes /\ "trailing_stop" \in Kinds
      /\ {"stop_loss", "take_profit"} \subseteq Kinds
  BY DEF Causes, Kinds
<1>3. ASSUME NEW request \in Requests,
             CreateLimitOrder(request) \/ CreateMarketOrder(request)
      PROVE  Effect
  BY <1>3 DEF CreateLimitOrder, CreateMarketOrder, Place, Effect, Kept
<1>4. ASSUME NEW i \in DOMAIN orders, CancelLimitOrder(i)
      PROVE  Effect
  BY <1>4 DEF CancelLimitOrder, Effect, Kept
<1>5. ASSUME NEW k \in DOMAIN trades, NEW kind \in {"stop_loss", "take_profit"},
             NEW price \in StopPrices, UpdateTradePrice(k, kind, price)
      PROVE  Effect
  BY <1>2, <1>5, UpdateTradePriceEffect DEF Effect, UpdateTradePrice
<1>6. ASSUME NEW k \in DOMAIN trades, NEW distance \in Distances,
             UpdateTrailingStopDistance(k, distance)
      PROVE  Effect
  BY <1>2, <1>6, UpdateTrailingStopDistanceEffect DEF Effect
<1>7. ASSUME NEW ins \in Instruments, NEW data \in Ticks, CloserPosition(ins, data)
      PROVE  Effect
  BY <1>7 DEF CloserPosition, Effect, Kept, book
<1>8. ASSUME NEW data \in Ticks, ProcessOrders(data)
      PROVE  Effect
  BY <1>8 DEF ProcessOrders, Effect, Kept, book
<1>9. CASE Return
  BY <1>9 DEF Return, Effect, Kept, book
<1>10. ASSUME NEW k \in existing, CloseNext(k)
       PROVE  Effect
  BY <1>1, <1>2, <1>10, CloseNextEffect DEF Effect
<1>11. ASSUME NEW k \in existing, SizeNext(k)
       PROVE  Effect
  BY <1>11 DEF SizeNext, Effect, Kept, book
<1>12. ASSUME NEW k \in existing, NetNext(k)
       PROVE  Effect
  BY <1>1, <1>2, <1>12, NetNextEffect DEF Effect, NetNext
<1>13. ASSUME NEW i \in pending, SkipLimitOrder(i) \/ ExecuteLimitOrder(i)
       PROVE  Effect
  BY <1>13 DEF SkipLimitOrder, ExecuteLimitOrder, Effect, Kept, book
<1>14. ASSUME NEW nets \in BOOLEAN, StartNetting(nets)
       PROVE  Effect
  BY <1>14 DEF StartNetting, Effect, Kept, book
<1>15. CASE FillLimitOrder
  BY <1>15, FillLimitOrderEffect DEF Effect
<1>16. CASE LeaveLimitOrder
  BY <1>16 DEF LeaveLimitOrder, Effect, Kept, book
<1>17. ASSUME NEW i \in pending, NEW k \in DOMAIN trades, NEW kind \in Kinds,
              TriggerStop(i, k, kind)
       PROVE  Effect
  BY <1>2, <1>17, TriggerStopEffect, OpenFromEnds DEF Effect
<1>18. ASSUME NEW i \in pending, NEW k \in DOMAIN trades, NEW kind \in Kinds,
              SkipStop(i, k, kind)
       PROVE  Effect
  BY <1>18 DEF SkipStop, Effect, Kept, book
<1>19. ASSUME NEW i \in pending, NEW k \in DOMAIN trades, TrailStop(i, k)
       PROVE  Effect
  BY <1>2, <1>19, TrailStopEffect DEF Effect
<1>20. CASE UNCHANGED vars
  BY <1>20 DEF vars, book, Effect, Kept
<1> QED
  BY <1>3, <1>4, <1>5, <1>6, <1>7, <1>8, <1>9, <1>10, <1>11, <1>12, <1>13, <1>14,
     <1>15, <1>16, <1>17, <1>18, <1>19, <1>20 DEF Next, Client, Step

----------------------------------------------------------------------------
(* The invariants                                                          *)

\* One trade is replaced, the others stay.
LEMMA MovedTrades ==
    ASSUME TypeOK, NEW k \in DOMAIN trades, NEW u \in Trades, Moved(k, u)
    PROVE  /\ trades' \in Seq(Trades) /\ balance' \in Int
           /\ Len(trades') = Len(trades) /\ DOMAIN trades' = DOMAIN trades
           /\ trades'[k] = u
           /\ \A j \in DOMAIN trades \ {k} : trades'[j] = trades[j]
<1>1. trades \in Seq(Trades) /\ k \in 1..Len(trades)
  BY LenProperties DEF TypeOK
<1>2. trades' = [trades EXCEPT ![k] = u]
  BY DEF Moved
<1>3. trades' \in Seq(Trades) /\ Len(trades') = Len(trades)
  BY <1>1, <1>2, ExceptSeq
<1>4. DOMAIN trades' = DOMAIN trades
  BY <1>1, <1>3, LenProperties
<1>5. u.realized \in Int /\ trades[k].realized \in Int /\ balance \in Int
  BY TradeType DEF Trades, TypeOK
<1>6. balance' \in Int
  BY <1>5 DEF Moved
<1> QED
  BY <1>1, <1>2, <1>3, <1>4, <1>6

\* One trade is added behind the others.
LEMMA AppendedTrades ==
    ASSUME TypeOK, NEW t \in Trades, Appends(t)
    PROVE  /\ trades' \in Seq(Trades) /\ balance' \in Int
           /\ Len(trades) \in Nat /\ Len(trades') = Len(trades) + 1
           /\ DOMAIN trades' = DOMAIN trades \cup {Len(trades) + 1}
           /\ DOMAIN trades = 1..Len(trades)
           /\ trades'[Len(trades) + 1] = t
           /\ \A j \in DOMAIN trades : trades'[j] = trades[j]
<1>1. trades \in Seq(Trades) /\ trades' = Append(trades, t)
  BY DEF TypeOK, Appends
<1>2. /\ trades' \in Seq(Trades) /\ Len(trades') = Len(trades) + 1
      /\ Len(trades) \in Nat
      /\ \A j \in 1..Len(trades) : trades'[j] = trades[j]
      /\ trades'[Len(trades) + 1] = t
  BY <1>1, AppendProperties, LenProperties
<1>3. DOMAIN trades = 1..Len(trades) /\ DOMAIN trades' = 1..Len(trades')
  BY <1>1, <1>2, LenProperties
<1> QED
  BY <1>2, <1>3 DEF TypeOK, Appends

\* What every effect leaves of the trades: types, instruments, attached stops.
BookKept ==
    /\ trades' \in Seq(Trades) /\ balance' \in Int
    /\ DOMAIN trades \subseteq DOMAIN trades'
    /\ \A k \in DOMAIN trades :
         /\ trades'[k].instrument = trades[k].instrument
         /\ \A kind \in Kinds : trades[k].protection[kind] # None
              => trades'[k].protection[kind] # None
    /\ ClosedIffFlat'

LEMMA BookKeptByEffect ==
    ASSUME TypeOK, ClosedIffFlat, Effect
    PROVE  BookKept
<1>1. CASE Kept
  BY <1>1 DEF Kept, TypeOK, ClosedIffFlat, BookKept
<1>2. ASSUME NEW k \in DOMAIN trades, NEW u \in Trades, Moved(k, u),
             \A kind \in Kinds : trades[k].protection[kind] # None
               => u.protection[kind] # None,
             u.state = "closed" <=> u.units = 0
      PROVE  BookKept
  <2>1. u.instrument = trades[k].instrument
    BY <1>2 DEF Moved
  <2>2. /\ trades' \in Seq(Trades) /\ balance' \in Int
        /\ DOMAIN trades' = DOMAIN trades
        /\ \A j \in DOMAIN trades : trades'[j] = IF j = k THEN u ELSE trades[j]
    BY <1>2, MovedTrades
  <2> QED
    BY <1>2, <2>1, <2>2 DEF BookKept, ClosedIffFlat
<1>3. ASSUME NEW k \in OpenTrades, NEW u \in Trades, NEW cause,
             Moved(k, u), Ends(trades[k], u, cause)
      PROVE  BookKept
  BY <1>2, <1>3 DEF Ends, OpenTrades
<1>4. ASSUME NEW k \in OpenTrades, NEW u \in Trades, Moved(k, u), Reduces(trades[k], u)
      PROVE  BookKept
  <2>1. u.units # 0
    BY <1>4 DEF Reduces, Ledger!SameSign
  <2> QED
    BY <1>2, <1>4, <2>1 DEF Reduces, OpenTrades
<1>5. ASSUME NEW k \in DOMAIN trades, NEW u \in Trades, NEW kind \in Kinds,
             Moved(k, u), Rearranges(trades[k], u, kind)
      PROVE  BookKept
  BY <1>2, <1>5 DEF Rearranges, ClosedIffFlat
<1>6. ASSUME NEW t \in Trades, Appends(t)
      PROVE  BookKept
  <2>1. t.state = "open" /\ t.units # 0
    BY <1>6 DEF Appends
  <2> QED
    BY <1>6, <2>1, AppendedTrades DEF BookKept, ClosedIffFlat
<1> QED
  BY <1>1, <1>3, <1>4, <1>5, <1>6 DEF Effect

----------------------------------------------------------------------------
(* Type correctness and the invariant of the running call                  *)

\* The list of orders stays one, and its stops stay stops of trades.
OrdersKept ==
    /\ orders' \in Seq(LimitOrders \cup StopRefs)
    /\ DOMAIN orders \subseteq DOMAIN orders'
    /\ \A i \in DOMAIN orders' : orders'[i] \in StopRefs =>
         /\ orders'[i].trade \in DOMAIN trades'
         /\ trades'[orders'[i].trade].protection[orders'[i].kind] # None

LEMMA OrdersUnchanged ==
    ASSUME TypeOK, BookKept, UNCHANGED orders
    PROVE  OrdersKept
<1>1. ASSUME NEW i \in DOMAIN orders, orders[i] \in StopRefs
      PROVE  /\ orders[i].trade \in DOMAIN trades' /\ orders[i].kind \in Kinds
             /\ trades'[orders[i].trade].protection[orders[i].kind] # None
  BY <1>1 DEF TypeOK, BookKept, StopRefs
<1> QED
  BY <1>1 DEF OrdersKept, TypeOK

LEMMA LimitIsNoStop ==
    ASSUME NEW order \in LimitOrders
    PROVE  order \notin StopRefs /\ order.kind = "limit"
BY DEF LimitOrders, StopRefs, Kinds

LEMMA PlaceKeepsOrders ==
    ASSUME TypeOK, BookKept, NEW request \in Requests, NEW price \in Int,
           Place(request, price)
    PROVE  OrdersKept
<1> DEFINE order == [kind |-> "limit", state |-> "pending",
                     instrument |-> request.instrument, units |-> request.units,
                     price |-> price, protect |-> request.protect]
<1>1. order \in LimitOrders
  BY ClientAssumption DEF OrderRequests, LimitOrders
<1>2. orders' = Append(orders, order) /\ trades' = trades
  BY DEF Place
<1> HIDE DEF order
<1>3. orders \in Seq(LimitOrders \cup StopRefs)
  BY DEF TypeOK
<1>4. /\ orders' \in Seq(LimitOrders \cup StopRefs) /\ Len(orders) \in Nat
      /\ Len(orders') = Len(orders) + 1
      /\ \A i \in 1..Len(orders) : orders'[i] = orders[i]
      /\ orders'[Len(orders) + 1] = order
  BY <1>1, <1>2, <1>3, AppendProperties, LenProperties
<1>5. DOMAIN orders = 1..Len(orders) /\ DOMAIN orders' = 1..Len(orders')
  BY <1>3, <1>4, LenProperties
<1>6. order \notin StopRefs
  BY <1>1, LimitIsNoStop
<1>7. \A i \in DOMAIN orders' : orders'[i] \in StopRefs =>
        i \in DOMAIN orders /\ orders'[i] = orders[i]
  BY <1>4, <1>5, <1>6
<1> QED
  BY <1>2, <1>4, <1>5, <1>7 DEF OrdersKept, TypeOK

LEMMA LimitOrderState ==
    ASSUME NEW order \in LimitOrders, NEW state \in {"pending", "filled", "cancelled"},
           NEW new, new = [order EXCEPT !.state = state]
    PROVE  new \in LimitOrders /\ new.state = state /\ new.kind = "limit"
           /\ new.protect = order.protect /\ new.instrument = order.instrument
           /\ new.units = order.units /\ new.price = order.price
<1>1. new \in LimitOrders
  BY Zenon DEF LimitOrders
<1> QED
  BY <1>1 DEF LimitOrders

SetState(i, state) == [orders EXCEPT ![i].state = state]

\* One limit order changes its state.
LEMMA SetOrderState ==
    ASSUME TypeOK, NEW i \in DOMAIN orders, orders[i] \in LimitOrders,
           NEW state \in {"pending", "filled", "cancelled"},
           NEW new, new = SetState(i, state)
    PROVE  /\ new \in Seq(LimitOrders \cup StopRefs) /\ Len(new) = Len(orders)
           /\ DOMAIN new = DOMAIN orders
           /\ new[i] \in LimitOrders /\ new[i].state = state
           /\ new[i].protect = orders[i].protect
           /\ \A j \in DOMAIN orders \ {i} : new[j] = orders[j]
           /\ \A j \in DOMAIN orders : new[j] \in StopRefs => new[j] = orders[j]
<1> DEFINE order == [orders[i] EXCEPT !.state = state]
<1>1. order \in LimitOrders /\ order.state = state /\ order.protect = orders[i].protect
  BY LimitOrderState
<1>2. new = [orders EXCEPT ![i] = order]
  BY DEF SetState
<1> HIDE DEF order
<1>3. orders \in Seq(LimitOrders \cup StopRefs) /\ i \in 1..Len(orders)
  BY LenProperties DEF TypeOK
<1>4. new \in Seq(LimitOrders \cup StopRefs) /\ Len(new) = Len(orders)
  BY <1>1, <1>2, <1>3, ExceptSeq
<1>5. DOMAIN new = DOMAIN orders
  BY <1>3, <1>4, LenProperties
<1>6. new[i] = order /\ \A j \in DOMAIN orders \ {i} : new[j] = orders[j]
  BY <1>2, <1>3
<1> QED
  BY <1>1, <1>4, <1>5, <1>6, LimitIsNoStop

LEMMA CancelKeepsOrders ==
    ASSUME TypeOK, NEW i \in DOMAIN orders, CancelLimitOrder(i)
    PROVE  OrdersKept
<1>1. orders[i] \in LimitOrders
  BY DEF CancelLimitOrder, TypeOK, StopRefs, Kinds
<1>2. orders' = SetState(i, "cancelled") /\ trades' = trades
  BY DEF CancelLimitOrder, SetState
<1>3. /\ orders' \in Seq(LimitOrders \cup StopRefs)
      /\ DOMAIN orders' = DOMAIN orders
      /\ \A j \in DOMAIN orders : orders'[j] \in StopRefs => orders'[j] = orders[j]
  BY <1>1, <1>2, SetOrderState
<1>4. \A j \in DOMAIN orders : orders[j] \in StopRefs =>
        /\ orders[j].trade \in DOMAIN trades
        /\ trades[orders[j].trade].protection[orders[j].kind] # None
  BY DEF TypeOK
<1>5. \A j \in DOMAIN orders' : orders'[j] \in StopRefs =>
        /\ orders'[j].trade \in DOMAIN trades'
        /\ trades'[orders'[j].trade].protection[orders'[j].kind] # None
  BY <1>2, <1>3, <1>4
<1> QED
  BY <1>3, <1>5 DEF OrdersKept

\* The stops of an order that is about to fill, as the list will hold them.
NewRefs(order) == {[kind |-> kind, trade |-> Len(trades) + 1] :
                      kind \in {a \in Kinds : order.protect[a] # None}}

LEMMA StopsOfType ==
    ASSUME TypeOK, NEW order \in LimitOrders
    PROVE  StopsOf(order) \in Seq(NewRefs(order))
<1>1. ASSUME NEW kind \in Kinds
      PROVE  StopRef(order, kind) \in Seq(NewRefs(order))
  <2>1. CASE order.protect[kind] = None
    BY <2>1, EmptySeq DEF StopRef
  <2>2. CASE order.protect[kind] # None
    <3>1. [kind |-> kind, trade |-> Len(trades) + 1] \in NewRefs(order)
      BY <2>2 DEF NewRefs
    <3> QED
      BY <2>2, <3>1 DEF StopRef
  <2> QED
    BY <2>1, <2>2
<1>2. {"stop_loss", "take_profit", "trailing_stop"} \subseteq Kinds
  BY DEF Kinds
<1>3. \A s, t \in Seq(NewRefs(order)) : s \o t \in Seq(NewRefs(order))
  BY ConcatProperties
<1> QED
  BY <1>1, <1>2, <1>3 DEF StopsOf

LEMMA FillKeepsOrders ==
    ASSUME TypeOK, CallInvariant, FillLimitOrder
    PROVE  /\ OrdersKept
           /\ orders'[current] \in LimitOrders /\ orders'[current].state = "filled"
           /\ orders'[current].protect = orders[current].protect
           /\ \A i \in DOMAIN orders \ {current} : orders'[i] = orders[i]
           /\ \A i \in DOMAIN orders' \ DOMAIN orders :
                orders'[i] \in StopRefs /\ orders'[i].trade = Len(trades) + 1
<1> DEFINE order == orders[current]
           filled == SetState(current, "filled")
           more == StopsOf(order)
<1>1. current \in DOMAIN orders /\ order \in LimitOrders
  BY DEF FillLimitOrder, NettingDone, CallInvariant
<1>2. orders' = filled \o more
  BY DEF FillLimitOrder, SetState
<1>0. filled = SetState(current, "filled") /\ order = orders[current]
  OBVIOUS
<1> HIDE DEF filled, more, order
<1>3. /\ filled \in Seq(LimitOrders \cup StopRefs) /\ Len(filled) = Len(orders)
      /\ DOMAIN filled = DOMAIN orders
      /\ filled[current] \in LimitOrders /\ filled[current].state = "filled"
      /\ filled[current].protect = order.protect
      /\ \A i \in DOMAIN orders \ {current} : filled[i] = orders[i]
      /\ \A i \in DOMAIN orders : filled[i] \in StopRefs => filled[i] = orders[i]
  BY <1>0, <1>1, SetOrderState
<1>4. more \in Seq(NewRefs(order))
  BY <1>1, StopsOfType DEF more
<1>5. PICK t \in Trades : /\ Appends(t)
                          /\ \A kind \in Kinds : t.protection[kind] # None
                               <=> order.protect[kind] # None
  BY <1>0, FillLimitOrderEffect
<1>6. /\ Len(trades) \in Nat /\ DOMAIN trades' = DOMAIN trades \cup {Len(trades) + 1}
      /\ trades'[Len(trades) + 1] = t
      /\ \A k \in DOMAIN trades : trades'[k] = trades[k]
  BY <1>5, AppendedTrades
<1>7. NewRefs(order) \subseteq StopRefs
      /\ \A r \in NewRefs(order) :
           r.trade = Len(trades) + 1 /\ t.protection[r.kind] # None
  BY <1>5, <1>6 DEF NewRefs, StopRefs
<1>8. more \in Seq(LimitOrders \cup StopRefs)
  BY <1>4, <1>7, SeqMonotonic
<1>8a. filled \in Seq(LimitOrders \cup StopRefs)
  BY <1>3
<1>9. /\ filled \o more \in Seq(LimitOrders \cup StopRefs)
      /\ Len(filled \o more) = Len(filled) + Len(more)
      /\ \A i \in 1 .. Len(filled) + Len(more) : (filled \o more)[i] =
           IF i <= Len(filled) THEN filled[i] ELSE more[i - Len(filled)]
  BY <1>8, <1>8a, ConcatProperties
<1>9a. /\ orders' \in Seq(LimitOrders \cup StopRefs)
       /\ Len(orders') = Len(filled) + Len(more)
       /\ \A i \in 1 .. Len(filled) + Len(more) :
            orders'[i] = IF i <= Len(filled) THEN filled[i] ELSE more[i - Len(filled)]
  BY <1>2, <1>9
<1>10. /\ DOMAIN filled = 1..Len(filled) /\ DOMAIN orders' = 1..Len(orders')
       /\ Len(filled) \in Nat /\ Len(more) \in Nat
  BY <1>3, <1>8, <1>9a, LenProperties
<1>11. \A i \in DOMAIN orders : i \in DOMAIN orders' /\ orders'[i] = filled[i]
  BY <1>3, <1>9a, <1>10
<1>12. ASSUME NEW i \in DOMAIN orders' \ DOMAIN orders
       PROVE  orders'[i] \in NewRefs(order)
  <2>1. orders'[i] = more[i - Len(filled)] /\ i - Len(filled) \in 1..Len(more)
    BY <1>3, <1>9a, <1>10
  <2> QED
    BY <1>4, <2>1, ElementOfSeq
<1>13. ASSUME NEW i \in DOMAIN orders', orders'[i] \in StopRefs
       PROVE  /\ orders'[i].trade \in DOMAIN trades'
              /\ trades'[orders'[i].trade].protection[orders'[i].kind] # None
  <2>1. CASE i \in DOMAIN orders
    BY <1>3, <1>6, <1>11, <1>13, <2>1 DEF TypeOK
  <2>2. CASE i \notin DOMAIN orders
    BY <1>6, <1>7, <1>12, <2>2
  <2> QED
    BY <2>1, <2>2
<1>14. OrdersKept
  BY <1>9a, <1>11, <1>13 DEF OrdersKept
<1>15. /\ orders'[current] \in LimitOrders /\ orders'[current].state = "filled"
       /\ orders'[current].protect = orders[current].protect
       /\ \A i \in DOMAIN orders \ {current} : orders'[i] = orders[i]
  BY <1>0, <1>1, <1>3, <1>11
<1> QED
  BY <1>7, <1>12, <1>14, <1>15

\* The variables of the running call have their types.
CallTyped ==
    /\ phase \in {"idle", "orders", "sizing", "netting", "closing"}
    /\ IF phase = "idle" THEN tick = None ELSE tick \in Ticks
    /\ pending \subseteq DOMAIN orders
    /\ current \in DOMAIN orders \cup {0}
    /\ existing \subseteq DOMAIN trades
    /\ size \in Int /\ units \in Int /\ ticks \in 0..MaxTicks

LEMMA TypeFromParts ==
    ASSUME BookKept, OrdersKept, CallTyped'
    PROVE  TypeOK'
BY DEF BookKept, OrdersKept, CallTyped, TypeOK

\* A call that is not in one of the inner loops has no trades to visit.
LEMMA OuterLoop ==
    ASSUME existing' = {}, phase' \in {"idle", "orders"}
    PROVE  CallInvariant'
BY DEF CallInvariant

LEMMA NothingToVisit ==
    ASSUME CallInvariant, phase \in {"idle", "orders"}
    PROVE  existing = {}
BY DEF CallInvariant

LEMMA OthersStayOpen ==
    ASSUME TypeOK, NEW k \in OpenTrades, NEW u \in Trades, Moved(k, u)
    PROVE  OpenTrades \ {k} \subseteq OpenTrades'
<1>1. k \in DOMAIN trades
  BY DEF OpenTrades
<1> QED
  BY <1>1, MovedTrades DEF OpenTrades

\* Unchanged price data convert and execute alike.
LEMMA SameTick ==
    ASSUME tick' = tick, NEW order, NEW ins
    PROVE  /\ QuoteRate(ins)' = QuoteRate(ins)
           /\ CanExecute(order)' <=> CanExecute(order)
BY DEF CanExecute, HasMarketInfo, QuoteRate, BaseRate, InBidRange, InAskRange

\* The client calls whose loops have not begun and the steps of the outer loop.
LEMMA OuterStep ==
    ASSUME TypeOK, CallInvariant, BookKept, DOMAIN orders \subseteq DOMAIN orders',
           phase \in {"idle", "orders"}, phase' \in {"idle", "orders"},
           phase' = phase, tick' = tick, UNCHANGED <<current, existing, size, units>>,
           pending' \subseteq pending, ticks' = ticks
    PROVE  CallTyped' /\ CallInvariant'
<1>1. existing' = {}
  BY NothingToVisit
<1>2. CallInvariant'
  BY <1>1, OuterLoop
<1>3. CallTyped'
  BY <1>1 DEF TypeOK, CallTyped
<1> QED
  BY <1>2, <1>3

LEMMA OrdersChange ==
    ASSUME [Next]_vars
    PROVE  \/ UNCHANGED orders
           \/ \E request \in Requests :
                CreateLimitOrder(request) \/ CreateMarketOrder(request)
           \/ \E i \in DOMAIN orders : CancelLimitOrder(i)
           \/ FillLimitOrder
BY DEF Next, Client, Step, vars, book, UpdateTradePrice, UpdateTrailingStopDistance,
       CloserPosition, ProcessOrders, Return, CloseNext, SizeNext, NetNext,
       SkipLimitOrder, ExecuteLimitOrder, StartNetting, LeaveLimitOrder,
       TriggerStop, SkipStop, TrailStop

LEMMA CallStep ==
    ASSUME TypeOK, CallInvariant, ClosedIffFlat, [Next]_vars
    PROVE  TypeOK' /\ CallInvariant' /\ ClosedIffFlat'
<1>1. BookKept
  BY NextEffect, BookKeptByEffect
<1>2. ClosedIffFlat'
  BY <1>1 DEF BookKept
<1>3. ASSUME NEW request \in Requests,
             CreateLimitOrder(request) \/ CreateMarketOrder(request)
      PROVE  TypeOK' /\ CallInvariant'
  <2>1. PICK price \in Int : Place(request, price)
    <3>1. request.price \in Int
      BY ClientAssumption DEF OrderRequests
    <3>2. request.price + HalfSpread \in Int /\ request.price - HalfSpread \in Int
      BY <3>1, ConfigAssumption
    <3> QED
      BY <1>3, <3>1, <3>2 DEF CreateLimitOrder, CreateMarketOrder
  <2>2. OrdersKept
    BY <1>1, <2>1, PlaceKeepsOrders
  <2>3. CallTyped' /\ CallInvariant'
    BY <1>1, <2>1, <2>2, OuterStep DEF Place, call, OrdersKept
  <2> QED
    BY <1>1, <2>2, <2>3, TypeFromParts
<1>4. ASSUME NEW i \in DOMAIN orders, CancelLimitOrder(i)
      PROVE  TypeOK' /\ CallInvariant'
  <2>1. OrdersKept
    BY <1>4, CancelKeepsOrders
  <2>2. CallTyped' /\ CallInvariant'
    BY <1>1, <1>4, <2>1, OuterStep DEF CancelLimitOrder, call, OrdersKept
  <2> QED
    BY <1>1, <2>1, <2>2, TypeFromParts
<1>5. CASE FillLimitOrder
  <2>1. OrdersKept
    BY <1>5, FillKeepsOrders
  <2>2. existing' = {} /\ phase' = "orders"
    BY <1>5 DEF FillLimitOrder, NettingDone
  <2>3. CallInvariant'
    BY <2>2, OuterLoop
  <2>4. CallTyped'
    BY <1>5, <2>1, <2>2 DEF FillLimitOrder, NettingDone, OrdersKept, CallTyped, TypeOK
  <2> QED
    BY <1>1, <1>2, <2>1, <2>3, <2>4, TypeFromParts
<1>6. CASE UNCHANGED orders
  <2>1. OrdersKept
    BY <1>1, <1>6, OrdersUnchanged
  <2>2. ASSUME CallTyped', CallInvariant'
        PROVE  TypeOK' /\ CallInvariant'
    BY <1>1, <2>1, <2>2, TypeFromParts
  <2>3. ASSUME NEW k \in DOMAIN trades, NEW kind \in {"stop_loss", "take_profit"},
               NEW price \in StopPrices, UpdateTradePrice(k, kind, price)
        PROVE  TypeOK' /\ CallInvariant'
    BY <1>1, <1>6, <2>2, <2>3, OuterStep DEF UpdateTradePrice, call
  <2>4. ASSUME NEW k \in DOMAIN trades, NEW distance \in Distances,
               UpdateTrailingStopDistance(k, distance)
        PROVE  TypeOK' /\ CallInvariant'
    BY <1>1, <1>6, <2>2, <2>4, OuterStep DEF UpdateTrailingStopDistance, call
  <2>5. ASSUME NEW ins \in Instruments, NEW data \in Ticks, CloserPosition(ins, data)
        PROVE  TypeOK' /\ CallInvariant'
    <3>1. trades' = trades
      BY <2>5 DEF CloserPosition, book
    <3>2. CallTyped'
      BY <2>5, <3>1 DEF CloserPosition, book, CallTyped, TypeOK, OpenTradesOf, OpenTrades
    <3>3. CallInvariant'
      BY <2>5, <3>1 DEF CloserPosition, CallInvariant, OpenTradesOf, OpenTrades, QuoteRate
    <3> QED
      BY <2>2, <3>2, <3>3
  <2>6. ASSUME NEW data \in Ticks, ProcessOrders(data)
        PROVE  TypeOK' /\ CallInvariant'
    <3>1. existing' = {} /\ phase' = "orders"
      BY <2>6, NothingToVisit DEF ProcessOrders
    <3>2. CallInvariant'
      BY <3>1, OuterLoop
    <3>3. ticks' \in 0..MaxTicks
      BY <2>6, ConfigAssumption DEF ProcessOrders, TypeOK
    <3>4. CallTyped'
      BY <1>6, <2>6, <3>1, <3>3 DEF ProcessOrders, book, CallTyped, TypeOK, PendingOrders
    <3> QED
      BY <2>2, <3>2, <3>4
  <2>7. CASE Return
    <3>1. existing' = {} /\ phase' = "idle"
      BY <2>7, NothingToVisit DEF Return
    <3>2. CallInvariant'
      BY <3>1, OuterLoop
    <3>3. CallTyped'
      BY <1>6, <2>7, <3>1 DEF Return, CallTyped, TypeOK
    <3> QED
      BY <1>2, <2>2, <3>2, <3>3
  <2>8. ASSUME NEW k \in existing, CloseNext(k)
        PROVE  TypeOK' /\ CallInvariant'
    <3>1. existing' = existing \ {k} /\ existing' \subseteq OpenTrades'
      BY <2>8, CloseNextEffect, OthersStayOpen DEF CloseNext, CallInvariant
    <3>2. CallTyped'
      BY <1>1, <1>6, <2>8, <3>1 DEF CloseNext, CallTyped, TypeOK, BookKept
    <3>3. \A j \in existing' : trades'[j].instrument = trades[j].instrument
      BY <1>1, <3>1 DEF BookKept, TypeOK
    <3>4. CallInvariant'
      BY <2>8, <3>1, <3>3, SameTick DEF CloseNext, CallInvariant
    <3> QED
      BY <2>2, <3>2, <3>4
  <2>9. ASSUME NEW k \in existing, SizeNext(k)
        PROVE  TypeOK' /\ CallInvariant'
    <3>1. trades' = trades /\ orders' = orders /\ current' = current /\ tick' = tick
      BY <2>9 DEF SizeNext, book
    <3>2. trades[k].units \in Int
      BY TradeType, <2>9 DEF TypeOK
    <3>3. CallTyped'
      BY <2>9, <3>1, <3>2 DEF SizeNext, CallTyped, TypeOK
    <3>4. CallInvariant'
      BY <2>9, <3>1, SameTick DEF SizeNext, CallInvariant, OpenTrades
    <3> QED
      BY <2>2, <3>3, <3>4
  <2>10. ASSUME NEW k \in existing, NetNext(k)
         PROVE  TypeOK' /\ CallInvariant'
    <3>1. existing' = existing \ {k} /\ existing' \subseteq OpenTrades'
      BY <2>10, NetNextEffect, OthersStayOpen DEF NetNext, CallInvariant
    <3>2. units' \in Int
      BY <2>10, NetNextEffect, TradeType DEF TypeOK
    <3>3. CallTyped'
      BY <1>1, <1>6, <2>10, <3>1, <3>2 DEF NetNext, CallTyped, TypeOK, BookKept
    <3>4. \A j \in existing' : trades'[j].instrument = trades[j].instrument
      BY <1>1, <3>1 DEF BookKept, TypeOK
    <3>5. CallInvariant'
      BY <2>10, <3>1, <3>4, SameTick DEF NetNext, CallInvariant
    <3> QED
      BY <2>2, <3>3, <3>5
  <2>11. ASSUME NEW i \in pending, SkipLimitOrder(i)
         PROVE  TypeOK' /\ CallInvariant'
    BY <1>1, <1>6, <2>2, <2>11, OuterStep DEF SkipLimitOrder, Visit, book
  <2>12. ASSUME NEW i \in pending, ExecuteLimitOrder(i)
         PROVE  TypeOK' /\ CallInvariant'
    <3>1. trades' = trades /\ orders' = orders /\ current' = i /\ tick' = tick
      BY <2>12 DEF ExecuteLimitOrder, book
    <3>2. i \in DOMAIN orders /\ orders[i] \in LimitOrders
      BY <2>12 DEF ExecuteLimitOrder, TypeOK, StopRefs, Kinds
    <3>3. units' \in Int
      BY <2>12, <3>2 DEF ExecuteLimitOrder, LimitOrders
    <3>4. CallTyped'
      BY <2>12, <3>1, <3>2, <3>3 DEF ExecuteLimitOrder, Visit, CallTyped, TypeOK, OpenTradesOf, OpenTrades
    <3>5. CallInvariant'
      BY <2>12, <3>1, <3>2, SameTick DEF ExecuteLimitOrder, CallInvariant, OpenTradesOf, OpenTrades
    <3> QED
      BY <2>2, <3>4, <3>5
  <2>13. ASSUME NEW nets \in BOOLEAN, StartNetting(nets)
         PROVE  TypeOK' /\ CallInvariant'
    <3>1. /\ trades' = trades /\ orders' = orders /\ current' = current /\ tick' = tick
          /\ existing' \subseteq OpenTradesOf(orders[current].instrument)
      BY <2>13 DEF StartNetting, book
    <3>2. CallTyped'
      BY <2>13, <3>1 DEF StartNetting, CallTyped, TypeOK, OpenTradesOf, OpenTrades
    <3>3. CallInvariant'
      BY <2>13, <3>1, SameTick DEF StartNetting, CallInvariant, OpenTradesOf, OpenTrades
    <3> QED
      BY <2>2, <3>2, <3>3
  <2>14. CASE LeaveLimitOrder
    <3>1. existing' = {} /\ phase' = "orders"
      BY <2>14 DEF LeaveLimitOrder, NettingDone
    <3>2. CallInvariant'
      BY <3>1, OuterLoop
    <3>3. CallTyped'
      BY <2>14, <3>1 DEF LeaveLimitOrder, NettingDone, book, CallTyped, TypeOK
    <3> QED
      BY <1>2, <2>2, <3>2, <3>3
  <2>15. ASSUME NEW i \in pending, NEW k \in DOMAIN trades, NEW kind \in Kinds,
                TriggerStop(i, k, kind) \/ SkipStop(i, k, kind)
         PROVE  TypeOK' /\ CallInvariant'
    BY <1>1, <1>6, <2>2, <2>15, OuterStep DEF TriggerStop, SkipStop, Visit, book
  <2>16. ASSUME NEW i \in pending, NEW k \in DOMAIN trades, TrailStop(i, k)
         PROVE  TypeOK' /\ CallInvariant'
    BY <1>1, <1>6, <2>2, <2>16, OuterStep DEF TrailStop, Visit
  <2>17. CASE UNCHANGED vars
    <3>1. CallTyped'
      BY <2>17 DEF vars, book, call, CallTyped, TypeOK
    <3>2. CallInvariant'
      BY <2>17, SameTick DEF vars, book, call, CallInvariant, OpenTrades
    <3> QED
      BY <1>2, <2>2, <3>1, <3>2
  <2> QED
    BY <1>2, <1>3, <1>4, <1>5, <2>3, <2>4, <2>5, <2>6, <2>7, <2>8, <2>9, <2>10, <2>11,
       <2>12, <2>13, <2>14, <2>15, <2>16, <2>17 DEF Next, Client, Step
<1> QED
  BY <1>2, <1>3, <1>4, <1>6, <1>5, OrdersChange

LEMMA CallInit ==
    ASSUME Init
    PROVE  TypeOK /\ CallInvariant /\ ClosedIffFlat
<1>1. DOMAIN trades = {} /\ DOMAIN orders = {}
  BY DEF Init
<1>2. TypeOK
  BY <1>1, ConfigAssumption, EmptySeq DEF Init, TypeOK
<1>3. CallInvariant /\ ClosedIffFlat
  BY <1>1 DEF Init, CallInvariant, ClosedIffFlat
<1> QED
  BY <1>2, <1>3

\* Type correctness, that the loops run over open trades only, and that the
\* state and the units of a trade agree depend on each other: a loop that met a
\* closed trade would settle it again, a rate that is missing is no number.
THEOREM CallCorrect == SafetySpec => [](TypeOK /\ CallInvariant /\ ClosedIffFlat)
<1>1. Init => TypeOK /\ CallInvariant /\ ClosedIffFlat
  BY CallInit
<1>2. TypeOK /\ CallInvariant /\ ClosedIffFlat /\ [Next]_vars
        => (TypeOK /\ CallInvariant /\ ClosedIffFlat)'
  BY CallStep
<1> QED
  BY <1>1, <1>2, PTL DEF SafetySpec

\* Every variable keeps its type and a listed stop is one that its trade has.
THEOREM TypeCorrect == SafetySpec => []TypeOK
BY CallCorrect, PTL

\* A trade is closed exactly when netting, stops and closings used it up.
THEOREM FlatTradesAreClosed == SafetySpec => []ClosedIffFlat
BY CallCorrect, PTL

----------------------------------------------------------------------------
(* The account implements the ledger                                       *)

LEMMA SameRange ==
    ASSUME NEW m \in Nat, NEW n \in Nat, 1..m = 1..n
    PROVE  m = n
<1>1. m > 0 => m \in 1..n
  OBVIOUS
<1>2. n > 0 => n \in 1..m
  OBVIOUS
<1> QED
  BY <1>1, <1>2

LEMMA EntriesOfTrades ==
    ASSUME NEW ts \in Seq(Trades),
           NEW entries, entries = [k \in DOMAIN ts |-> EntryOf(ts[k])]
    PROVE  /\ Len(entries) = Len(ts) /\ DOMAIN entries = DOMAIN ts
           /\ \A k \in DOMAIN ts : entries[k] = EntryOf(ts[k])
<1> DEFINE S == {EntryOf(ts[k]) : k \in DOMAIN ts}
<1>1. Len(ts) \in Nat /\ DOMAIN ts = 1..Len(ts)
  BY LenProperties
<1>2. /\ entries \in [1..Len(ts) -> S] /\ DOMAIN entries = DOMAIN ts
      /\ \A k \in DOMAIN ts : entries[k] = EntryOf(ts[k])
  BY <1>1
<1> HIDE DEF S
<1>3. entries \in Seq(S)
  BY <1>1, <1>2, SeqDef
<1>4. Len(entries) \in Nat /\ DOMAIN entries = 1..Len(entries)
  BY <1>3, LenProperties
<1> QED
  BY <1>1, <1>2, <1>4, SameRange

LEMMA LedgerSettle ==
    ASSUME TypeOK, NEW k \in OpenTrades, NEW u \in Trades, Moved(k, u),
           \/ u.state = "open" /\ Ledger!SameSign(trades[k].units, u.units)
           \/ u.state = "closed" /\ u.units = 0
    PROVE  Ledger!Next
<1>1. k \in DOMAIN trades /\ trades \in Seq(Trades) /\ trades[k].state = "open"
  BY DEF OpenTrades, TypeOK
<1>2. /\ trades' \in Seq(Trades) /\ Len(trades') = Len(trades)
      /\ DOMAIN trades' = DOMAIN trades
      /\ trades'[k] = u /\ \A j \in DOMAIN trades \ {k} : trades'[j] = trades[j]
  BY <1>1, MovedTrades
<1>3. /\ Len(Entries) = Len(trades) /\ DOMAIN Entries = DOMAIN trades
      /\ \A j \in DOMAIN trades : Entries[j] = EntryOf(trades[j])
  BY <1>1, EntriesOfTrades DEF Entries
<1>4. /\ Len(Entries') = Len(trades')
      /\ \A j \in DOMAIN trades' : Entries'[j] = EntryOf(trades'[j])
  BY <1>2, EntriesOfTrades DEF Entries
<1>5. Entries'[k] = EntryOf(u) /\ Entries[k] = EntryOf(trades[k])
  BY <1>1, <1>2, <1>3, <1>4
<1>6. \A j \in DOMAIN Entries \ {k} : Entries'[j] = Entries[j]
  BY <1>2, <1>3, <1>4
<1>7. balance' - balance = u.realized - trades[k].realized
  <2>1. u.realized \in Int /\ trades[k].realized \in Int /\ balance \in Int
    BY <1>1, TradeType DEF Trades, TypeOK
  <2> QED
    BY <2>1 DEF Moved
<1>8. /\ Entries'[k].realized = u.realized
      /\ Entries[k].realized = trades[k].realized
      /\ Entries'[k].instrument = Entries[k].instrument
      /\ Entries'[k].price = Entries[k].price
      /\ Entries'[k].units = u.units /\ Entries[k].units = trades[k].units
  BY <1>5 DEF EntryOf, Moved
<1>9. Entries[k].open = (trades[k].state = "open") /\ Entries'[k].open = (u.state = "open")
  BY <1>5 DEF EntryOf
<1>10. Entries[k].open
  BY <1>1, <1>9
<1>11. IF Entries'[k].open THEN Ledger!SameSign(Entries[k].units, Entries'[k].units)
                           ELSE Entries'[k].units = 0
  BY <1>8, <1>9
<1>12. Ledger!Settle(k)
  BY <1>2, <1>3, <1>4, <1>6, <1>7, <1>8, <1>10, <1>11 DEF Ledger!Settle
<1> QED
  BY <1>1, <1>3, <1>12 DEF Ledger!Next

LEMMA LedgerOpen ==
    ASSUME TypeOK, NEW t \in Trades, Appends(t)
    PROVE  Ledger!Next
<1>1. /\ trades' \in Seq(Trades) /\ Len(trades) \in Nat
      /\ Len(trades') = Len(trades) + 1
      /\ DOMAIN trades' = DOMAIN trades \cup {Len(trades) + 1}
      /\ trades'[Len(trades) + 1] = t
      /\ \A j \in DOMAIN trades : trades'[j] = trades[j]
  BY AppendedTrades
<1>2. /\ Len(Entries) = Len(trades) /\ DOMAIN Entries = DOMAIN trades
      /\ \A j \in DOMAIN trades : Entries[j] = EntryOf(trades[j])
  BY EntriesOfTrades DEF TypeOK, Entries
<1>3. /\ Len(Entries') = Len(trades')
      /\ \A j \in DOMAIN trades' : Entries'[j] = EntryOf(trades'[j])
  BY <1>1, EntriesOfTrades DEF Entries
<1>4. Entries'[Len(Entries) + 1] = EntryOf(t)
  BY <1>1, <1>2, <1>3
<1>5. EntryOf(t).open /\ EntryOf(t).units # 0 /\ EntryOf(t).realized = 0
  BY DEF EntryOf, Appends
<1>6. Ledger!Open
  BY <1>1, <1>2, <1>3, <1>4, <1>5 DEF Ledger!Open, Appends
<1> QED
  BY <1>6 DEF Ledger!Next

\* Moving a stop changes nothing the ledger records.
LEMMA LedgerStutters ==
    ASSUME TypeOK, NEW k \in DOMAIN trades, NEW u \in Trades, Moved(k, u),
           u.state = trades[k].state, u.units = trades[k].units,
           u.realized = trades[k].realized
    PROVE  UNCHANGED Ledger!ledger
<1>1. /\ DOMAIN trades' = DOMAIN trades
      /\ trades'[k] = u /\ \A j \in DOMAIN trades \ {k} : trades'[j] = trades[j]
  BY MovedTrades
<1>2. u.instrument = trades[k].instrument /\ u.price = trades[k].price
  BY DEF Moved
<1>3. \A j \in DOMAIN trades : EntryOf(trades'[j]) = EntryOf(trades[j])
  BY <1>1, <1>2 DEF EntryOf
<1>4. Entries' = Entries
  BY <1>1, <1>3 DEF Entries, EntryOf
<1>5. balance' = balance
  <2>1. u.realized \in Int /\ balance \in Int
    BY DEF Trades, TypeOK
  <2> QED
    BY <2>1 DEF Moved
<1> QED
  BY <1>4, <1>5 DEF Ledger!ledger

LEMMA LedgerStep ==
    ASSUME TypeOK, Effect
    PROVE  [Ledger!Next]_(Ledger!ledger)
<1>1. CASE Kept
  BY <1>1 DEF Kept, Entries, Ledger!ledger
<1>2. ASSUME NEW k \in OpenTrades, NEW u \in Trades, NEW cause \in Causes,
             Moved(k, u), Ends(trades[k], u, cause)
      PROVE  Ledger!Next
  BY <1>2, LedgerSettle DEF Ends
<1>3. ASSUME NEW k \in OpenTrades, NEW u \in Trades, Moved(k, u), Reduces(trades[k], u)
      PROVE  Ledger!Next
  BY <1>3, LedgerSettle DEF Reduces
<1>4. ASSUME NEW k \in DOMAIN trades, NEW u \in Trades, NEW kind \in Kinds,
             Moved(k, u), Rearranges(trades[k], u, kind)
      PROVE  UNCHANGED Ledger!ledger
  BY <1>4, LedgerStutters DEF Rearranges
<1>5. ASSUME NEW t \in Trades, Appends(t)
      PROVE  Ledger!Next
  BY <1>5, LedgerOpen
<1> QED
  BY <1>1, <1>2, <1>3, <1>4, <1>5 DEF Effect

\* Whatever the client calls and the prices do, the account keeps the promise
\* of TradeLedger: trades are entered once and settled without changing sides,
\* closed ones are frozen, and the balance is what the trades realized.
THEOREM ImplementsLedger == SafetySpec => LedgerSpec
<1>1. Init => Ledger!Init
  <2> SUFFICES ASSUME Init PROVE Ledger!Init
    OBVIOUS
  <2>1. trades = <<>> /\ balance = CapitalBase
    BY DEF Init
  <2>2. Entries = <<>>
    BY <2>1 DEF Entries
  <2> QED
    BY <2>1, <2>2 DEF Ledger!Init
<1>2. TypeOK /\ CallInvariant /\ ClosedIffFlat /\ [Next]_vars
        => [Ledger!Next]_(Ledger!ledger)
  BY NextEffect, LedgerStep
<1> QED
  BY <1>1, <1>2, CallCorrect, PTL DEF SafetySpec, LedgerSpec, Ledger!Spec

----------------------------------------------------------------------------
(* Stops: one exit per trade, and no stop outlives its trade               *)

IsTriggered(stop) == stop # None /\ stop.state = "triggered"

\* The first two parts of StopInvariant, of one trade.
GoodStops(t) ==
    /\ \A kind, other \in Kinds :
         IsTriggered(t.protection[kind]) /\ IsTriggered(t.protection[other]) => kind = other
    /\ t.state = "open" => \A kind \in Kinds : t.protection[kind] # None =>
         /\ t.protection[kind].state = "pending"
         /\ kind = "trailing_stop" =>
              /\ t.protection[kind].distance >= 0
              /\ t.protection[kind].side = SideOf(t.units)

AllGoodStops == \A k \in DOMAIN trades : GoodStops(trades[k])

\* The last two parts of it: the stops of closed trades and the orders.
RetiredStops ==
    \A i \in DOMAIN orders : orders[i] \in StopRefs =>
        LET trade == trades[orders[i].trade]
        IN  trade.state = "closed" => trade.protection[orders[i].kind].state # "pending"
GoodDistances ==
    \A i \in DOMAIN orders : orders[i] \in LimitOrders =>
        orders[i].protect["trailing_stop"] \in Nat \cup {None}

LEMMA StopParts ==
    StopInvariant <=> AllGoodStops /\ RetiredStops /\ GoodDistances
<1>1. OneExit <=> \A k \in DOMAIN trades, kind, other \in Kinds :
        IsTriggered(trades[k].protection[kind]) /\ IsTriggered(trades[k].protection[other])
          => kind = other
  BY DEF OneExit, IsTriggered
<1> DEFINE Pending(k) == \A kind \in Kinds : trades[k].protection[kind] # None =>
         /\ trades[k].protection[kind].state = "pending"
         /\ kind = "trailing_stop" =>
              /\ trades[k].protection[kind].distance >= 0
              /\ trades[k].protection[kind].side = SideOf(trades[k].units)
<1>2. StopInvariant <=> /\ OneExit /\ \A k \in OpenTrades : Pending(k)
                        /\ RetiredStops /\ GoodDistances
  BY DEF StopInvariant, RetiredStops, GoodDistances
<1>3. \A k \in OpenTrades : k \in DOMAIN trades /\ trades[k].state = "open"
  BY DEF OpenTrades
<1>4. \A k \in DOMAIN trades : trades[k].state = "open" => k \in OpenTrades
  BY DEF OpenTrades
<1>5. ASSUME NEW k \in DOMAIN trades
      PROVE  GoodStops(trades[k]) <=>
               /\ \A kind, other \in Kinds :
                    IsTriggered(trades[k].protection[kind])
                      /\ IsTriggered(trades[k].protection[other]) => kind = other
               /\ trades[k].state = "open" => Pending(k)
  BY DEF GoodStops
<1> QED
  BY <1>1, <1>2, <1>3, <1>4, <1>5 DEF AllGoodStops

LEMMA GoodStopsEnd ==
    ASSUME NEW t, NEW u, NEW cause, GoodStops(t), Ends(t, u, cause)
    PROVE  GoodStops(u)
BY DEF GoodStops, Ends, IsTriggered

LEMMA GoodStopsReduce ==
    ASSUME NEW t \in Trades, NEW u \in Trades, GoodStops(t), Reduces(t, u)
    PROVE  GoodStops(u)
<1>1. t.units \in Int /\ u.units \in Int
  BY DEF Trades
<1>2. SideOf(u.units) = SideOf(t.units)
  BY <1>1 DEF Reduces, Ledger!SameSign, SideOf
<1> QED
  BY <1>2 DEF GoodStops, Reduces

LEMMA GoodStopsRearrange ==
    ASSUME NEW t, NEW u, NEW kind \in Kinds, GoodStops(t), Rearranges(t, u, kind)
    PROVE  GoodStops(u)
<1>1. ASSUME NEW other \in Kinds, IsTriggered(u.protection[other])
      PROVE  IsTriggered(t.protection[other])
  BY <1>1 DEF Rearranges, IsTriggered
<1>2. ASSUME u.state = "open", NEW other \in Kinds, u.protection[other] # None
      PROVE  /\ u.protection[other].state = "pending"
             /\ other = "trailing_stop" =>
                  /\ u.protection[other].distance >= 0
                  /\ u.protection[other].side = SideOf(u.units)
  BY <1>2 DEF Rearranges, GoodStops
<1> QED
  BY <1>1, <1>2 DEF GoodStops

LEMMA GoodStopsAppend ==
    ASSUME NEW t, Appends(t), CallInvariant, GoodDistances,
           phase = "netting", "trailing_stop" \in Kinds,
           t.protection["trailing_stop"] # None => orders[current].protect["trailing_stop"] # None
    PROVE  GoodStops(t)
<1>1. orders[current].protect["trailing_stop"] \in Nat \cup {None}
  BY DEF CallInvariant, GoodDistances
<1> QED
  BY <1>1 DEF Appends, GoodStops, IsTriggered

LEMMA GoodStopsStep ==
    ASSUME TypeOK, CallInvariant, StopInvariant, Effect
    PROVE  \A k \in DOMAIN trades' : GoodStops(trades'[k])
<1>1. \A k \in DOMAIN trades : GoodStops(trades[k])
  BY StopParts DEF AllGoodStops
<1>2. ASSUME NEW k \in DOMAIN trades, NEW u \in Trades, Moved(k, u), GoodStops(u)
      PROVE  \A j \in DOMAIN trades' : GoodStops(trades'[j])
  BY <1>1, <1>2, MovedTrades
<1>3. CASE Kept
  BY <1>1, <1>3 DEF Kept
<1>4. ASSUME NEW k \in OpenTrades, NEW u \in Trades, NEW cause \in Causes,
             Moved(k, u), Ends(trades[k], u, cause)
      PROVE  \A j \in DOMAIN trades' : GoodStops(trades'[j])
  BY <1>1, <1>2, <1>4, GoodStopsEnd DEF OpenTrades
<1>5. ASSUME NEW k \in OpenTrades, NEW u \in Trades, Moved(k, u), Reduces(trades[k], u)
      PROVE  \A j \in DOMAIN trades' : GoodStops(trades'[j])
  BY <1>1, <1>2, <1>5, GoodStopsReduce, TradeType DEF OpenTrades
<1>6. ASSUME NEW k \in DOMAIN trades, NEW u \in Trades, NEW kind \in Kinds,
             Moved(k, u), Rearranges(trades[k], u, kind)
      PROVE  \A j \in DOMAIN trades' : GoodStops(trades'[j])
  BY <1>1, <1>2, <1>6, GoodStopsRearrange
<1>7. CASE FillLimitOrder
  <2>1. PICK t \in Trades : /\ Appends(t)
                            /\ \A kind \in Kinds : t.protection[kind] # None
                                 <=> orders[current].protect[kind] # None
    BY <1>7, FillLimitOrderEffect
  <2>2. phase = "netting" /\ "trailing_stop" \in Kinds /\ GoodDistances
    BY <1>7, StopParts DEF FillLimitOrder, NettingDone, Kinds
  <2>3. GoodStops(t)
    BY <2>1, <2>2, GoodStopsAppend
  <2> QED
    BY <1>1, <2>1, <2>3, AppendedTrades
<1> QED
  BY <1>3, <1>4, <1>5, <1>6, <1>7 DEF Effect

\* No effect makes a retired stop pending again.
LEMMA StopsStayRetired ==
    ASSUME TypeOK, Effect, NEW k \in DOMAIN trades, NEW kind \in Kinds,
           trades[k].protection[kind] # None,
           trades[k].state = "closed" => trades[k].protection[kind].state # "pending"
    PROVE  trades'[k].state = "closed" => trades'[k].protection[kind].state # "pending"
<1>1. ASSUME NEW j \in DOMAIN trades, NEW u \in Trades, Moved(j, u),
             j = k => (u.state = "closed" => u.protection[kind].state # "pending")
      PROVE  trades'[k].state = "closed" => trades'[k].protection[kind].state # "pending"
  BY <1>1, MovedTrades
<1>2. CASE Kept
  BY <1>2 DEF Kept
<1>3. ASSUME NEW j \in OpenTrades, NEW u \in Trades, NEW cause \in Causes,
             Moved(j, u), Ends(trades[j], u, cause)
      PROVE  trades'[k].state = "closed" => trades'[k].protection[kind].state # "pending"
  BY <1>1, <1>3 DEF Ends, OpenTrades
<1>4. ASSUME NEW j \in OpenTrades, NEW u \in Trades, Moved(j, u), Reduces(trades[j], u)
      PROVE  trades'[k].state = "closed" => trades'[k].protection[kind].state # "pending"
  BY <1>1, <1>4 DEF Reduces, OpenTrades
<1>5. ASSUME NEW j \in DOMAIN trades, NEW u \in Trades, NEW a \in Kinds,
             Moved(j, u), Rearranges(trades[j], u, a)
      PROVE  trades'[k].state = "closed" => trades'[k].protection[kind].state # "pending"
  BY <1>1, <1>5 DEF Rearranges
<1>6. ASSUME NEW t \in Trades, Appends(t)
      PROVE  trades'[k].state = "closed" => trades'[k].protection[kind].state # "pending"
  BY <1>6, AppendedTrades
<1> QED
  BY <1>2, <1>3, <1>4, <1>5, <1>6 DEF Effect

LEMMA RetiredStopsStep ==
    ASSUME TypeOK, CallInvariant, ClosedIffFlat, StopInvariant, [Next]_vars
    PROVE  RetiredStops' /\ GoodDistances'
<1>1. Effect /\ RetiredStops /\ GoodDistances
  BY NextEffect, StopParts
<1>2. ASSUME NEW i \in DOMAIN orders, orders[i] \in StopRefs
      PROVE  trades'[orders[i].trade].state = "closed"
               => trades'[orders[i].trade].protection[orders[i].kind].state # "pending"
  <2>1. /\ orders[i].trade \in DOMAIN trades /\ orders[i].kind \in Kinds
        /\ trades[orders[i].trade].protection[orders[i].kind] # None
    BY <1>2 DEF TypeOK, StopRefs
  <2>2. trades[orders[i].trade].state = "closed"
          => trades[orders[i].trade].protection[orders[i].kind].state # "pending"
    BY <1>1, <1>2 DEF RetiredStops
  <2> QED
    BY <1>1, <2>1, <2>2, StopsStayRetired
<1>3. CASE UNCHANGED orders
  BY <1>1, <1>2, <1>3 DEF RetiredStops, GoodDistances
<1>4. ASSUME NEW request \in Requests, NEW price \in Int, Place(request, price)
      PROVE  RetiredStops' /\ GoodDistances'
  <2> DEFINE order == [kind |-> "limit", state |-> "pending",
                       instrument |-> request.instrument, units |-> request.units,
                       price |-> price, protect |-> request.protect]
  <2>1. /\ order \in LimitOrders
        /\ order.protect["trailing_stop"] \in Nat \cup {None}
    BY ClientAssumption DEF OrderRequests, LimitOrders
  <2>2. orders' = Append(orders, order)
    BY <1>4 DEF Place
  <2> HIDE DEF order
  <2>3. orders \in Seq(LimitOrders \cup StopRefs)
    BY DEF TypeOK
  <2>4. /\ Len(orders) \in Nat /\ Len(orders') = Len(orders) + 1
        /\ orders' \in Seq(LimitOrders \cup StopRefs)
        /\ \A i \in 1..Len(orders) : orders'[i] = orders[i]
        /\ orders'[Len(orders) + 1] = order
    BY <2>1, <2>2, <2>3, AppendProperties, LenProperties
  <2>5. DOMAIN orders = 1..Len(orders) /\ DOMAIN orders' = 1..Len(orders')
    BY <2>3, <2>4, LenProperties
  <2>6. \A i \in DOMAIN orders' : \/ i \in DOMAIN orders /\ orders'[i] = orders[i]
                                  \/ orders'[i] = order
    BY <2>4, <2>5
  <2>7. order \notin StopRefs
    BY <2>1, LimitIsNoStop
  <2>8. RetiredStops'
    BY <1>2, <2>6, <2>7 DEF RetiredStops
  <2>9. GoodDistances'
    BY <1>1, <2>1, <2>6 DEF GoodDistances
  <2> QED
    BY <2>8, <2>9
<1>5. ASSUME NEW i \in DOMAIN orders, CancelLimitOrder(i)
      PROVE  RetiredStops' /\ GoodDistances'
  <2>1. orders[i] \in LimitOrders
    BY <1>5 DEF CancelLimitOrder, TypeOK, StopRefs, Kinds
  <2>2. orders' = SetState(i, "cancelled")
    BY <1>5 DEF CancelLimitOrder, SetState
  <2>3. /\ DOMAIN orders' = DOMAIN orders
        /\ orders'[i].protect = orders[i].protect
        /\ \A j \in DOMAIN orders \ {i} : orders'[j] = orders[j]
        /\ \A j \in DOMAIN orders : orders'[j] \in StopRefs => orders'[j] = orders[j]
    BY <2>1, <2>2, SetOrderState
  <2>4. RetiredStops'
    BY <1>2, <2>3 DEF RetiredStops
  <2>5. GoodDistances'
    BY <1>1, <2>1, <2>3 DEF GoodDistances
  <2> QED
    BY <2>4, <2>5
<1>6. CASE FillLimitOrder
  <2>1. /\ orders'[current] \in LimitOrders
        /\ orders'[current].protect = orders[current].protect
        /\ \A i \in DOMAIN orders \ {current} : orders'[i] = orders[i]
        /\ \A i \in DOMAIN orders' \ DOMAIN orders :
             orders'[i] \in StopRefs /\ orders'[i].trade = Len(trades) + 1
    BY <1>6, FillKeepsOrders
  <2>2. current \in DOMAIN orders /\ orders[current] \in LimitOrders
    BY <1>6 DEF FillLimitOrder, NettingDone, CallInvariant
  <2>3. PICK t \in Trades : Appends(t)
    BY <1>6, FillLimitOrderEffect
  <2>4. trades'[Len(trades) + 1].state = "open"
    BY <2>3, AppendedTrades DEF Appends
  <2>5. orders'[current] \notin StopRefs
    BY <2>1, LimitIsNoStop
  <2>6. RetiredStops'
    BY <1>2, <2>1, <2>4, <2>5 DEF RetiredStops
  <2>7. \A i \in DOMAIN orders' : orders'[i] \in LimitOrders =>
          i \in DOMAIN orders /\ orders[i] \in LimitOrders
            /\ orders'[i].protect = orders[i].protect
    BY <2>1, <2>2, LimitIsNoStop
  <2>8. GoodDistances'
    BY <1>1, <2>7 DEF GoodDistances
  <2> QED
    BY <2>6, <2>8
<1>7. ASSUME NEW request \in Requests,
             CreateLimitOrder(request) \/ CreateMarketOrder(request)
      PROVE  RetiredStops' /\ GoodDistances'
  <2>1. request.price \in Int
    BY ClientAssumption DEF OrderRequests
  <2>2. request.price + HalfSpread \in Int /\ request.price - HalfSpread \in Int
    BY <2>1, ConfigAssumption
  <2> QED
    BY <1>4, <1>7, <2>1, <2>2 DEF CreateLimitOrder, CreateMarketOrder
<1> QED
  BY <1>3, <1>5, <1>6, <1>7, OrdersChange

LEMMA StopStep ==
    ASSUME TypeOK, CallInvariant, ClosedIffFlat, StopInvariant, [Next]_vars
    PROVE  StopInvariant'
<1>1. AllGoodStops'
  BY NextEffect, GoodStopsStep DEF AllGoodStops
<1>2. RetiredStops' /\ GoodDistances'
  BY RetiredStopsStep
<1> QED
  BY <1>1, <1>2, StopParts, PTL

\* What a stop may assume: the stops of an open trade are pending, those listed
\* of a closed one are not, a trailing stop knows the side of its trade.
THEOREM StopsCorrect == SafetySpec => []StopInvariant
<1>1. Init => StopInvariant
  BY DEF Init, StopInvariant, OneExit, OpenTrades
<1>2. TypeOK /\ CallInvariant /\ ClosedIffFlat /\ StopInvariant /\ [Next]_vars
        => StopInvariant'
  BY StopStep
<1> QED
  BY <1>1, <1>2, CallCorrect, PTL DEF SafetySpec

\* At most one stop of a trade triggers although the pass visits them all.
THEOREM OneStopTriggers == SafetySpec => []OneExit
<1>1. StopInvariant => OneExit
  BY DEF StopInvariant
<1> QED
  BY <1>1, StopsCorrect, PTL

\* A listed stop is pending exactly while its trade is open.
THEOREM StopsOfClosedTradesRetire == SafetySpec => []OneCancelsOther
<1>1. TypeOK /\ StopInvariant => OneCancelsOther
  <2> SUFFICES ASSUME TypeOK, StopInvariant, NEW i \in DOMAIN orders, orders[i].kind # "limit"
               PROVE  IsPending(orders[i]) <=> trades[orders[i].trade].state = "open"
    BY DEF OneCancelsOther
  <2>1. orders[i] \in StopRefs
    BY DEF TypeOK, LimitOrders
  <2>2. /\ orders[i].trade \in DOMAIN trades /\ orders[i].kind \in Kinds
        /\ trades[orders[i].trade].protection[orders[i].kind] # None
        /\ trades[orders[i].trade].state \in {"open", "closed"}
    BY <2>1, TradeType DEF TypeOK, StopRefs
  <2>3. CASE trades[orders[i].trade].state = "open"
    BY <2>2, <2>3 DEF StopInvariant, OpenTrades, IsPending
  <2>4. CASE trades[orders[i].trade].state = "closed"
    BY <2>1, <2>4 DEF StopInvariant, IsPending
  <2> QED
    BY <2>2, <2>3, <2>4
<1> QED
  BY <1>1, CallCorrect, StopsCorrect, PTL

----------------------------------------------------------------------------
(* A pass executes an order that is pending                                *)

\* Without a change of the orders the snapshot only shrinks.
LEMMA PassShrinks ==
    ASSUME PassInvariant, orders' = orders, pending' \subseteq pending,
           phase' \in {"idle", "closing"} => pending' = {},
           phase' \in {"sizing", "netting"} =>
             current' \notin pending' /\ orders[current'].state = "pending"
    PROVE  PassInvariant'
BY DEF PassInvariant

LEMMA PassStep ==
    ASSUME TypeOK, CallInvariant, PassInvariant, [Next]_vars
    PROVE  PassInvariant'
<1>1. ASSUME phase = "idle", phase' = "idle", pending' = pending
      PROVE  PassInvariant'
  BY <1>1 DEF PassInvariant
<1>2. ASSUME NEW request \in Requests,
             CreateLimitOrder(request) \/ CreateMarketOrder(request)
      PROVE  PassInvariant'
  BY <1>1, <1>2 DEF CreateLimitOrder, CreateMarketOrder, Place, call
<1>3. ASSUME NEW i \in DOMAIN orders, CancelLimitOrder(i)
      PROVE  PassInvariant'
  BY <1>1, <1>3 DEF CancelLimitOrder, call
<1>4. ASSUME NEW k \in DOMAIN trades, NEW kind, NEW price, UpdateTradePrice(k, kind, price)
      PROVE  PassInvariant'
  BY <1>1, <1>4 DEF UpdateTradePrice, call
<1>5. ASSUME NEW k \in DOMAIN trades, NEW distance, UpdateTrailingStopDistance(k, distance)
      PROVE  PassInvariant'
  BY <1>1, <1>5 DEF UpdateTrailingStopDistance, call
<1>6. ASSUME NEW ins \in Instruments, NEW data \in Ticks, CloserPosition(ins, data)
      PROVE  PassInvariant'
  BY <1>6, PassShrinks DEF CloserPosition, book, PassInvariant
<1>7. ASSUME NEW data \in Ticks, ProcessOrders(data)
      PROVE  PassInvariant'
  <2>1. phase' = "orders" /\ pending' = PendingOrders /\ orders' = orders
    BY <1>7 DEF ProcessOrders, book
  <2>2. \A i \in PendingOrders : orders[i] \in LimitOrders => orders[i].state = "pending"
    BY LimitIsNoStop DEF PendingOrders, IsPending
  <2> QED
    BY <2>1, <2>2 DEF PassInvariant
<1>8. CASE Return
  BY <1>8, PassShrinks DEF Return, book, PassInvariant
<1>9. ASSUME NEW k \in existing, CloseNext(k)
      PROVE  PassInvariant'
  BY <1>9, PassShrinks DEF CloseNext, PassInvariant
<1>10. ASSUME NEW k \in existing, SizeNext(k)
       PROVE  PassInvariant'
  BY <1>10, PassShrinks DEF SizeNext, book, PassInvariant
<1>11. ASSUME NEW k \in existing, NetNext(k)
       PROVE  PassInvariant'
  BY <1>11, PassShrinks DEF NetNext, PassInvariant
<1>12. ASSUME NEW i \in pending, SkipLimitOrder(i)
       PROVE  PassInvariant'
  BY <1>12, PassShrinks DEF SkipLimitOrder, Visit, book
<1>13. ASSUME NEW i \in pending, ExecuteLimitOrder(i)
       PROVE  PassInvariant'
  <2>1. orders[i] \in LimitOrders
    BY <1>13 DEF ExecuteLimitOrder, TypeOK, StopRefs, Kinds
  <2>2. orders[i].state = "pending"
    BY <2>1 DEF PassInvariant
  <2> QED
    BY <1>13, <2>2, PassShrinks DEF ExecuteLimitOrder, Visit, book
<1>14. ASSUME NEW nets \in BOOLEAN, StartNetting(nets)
       PROVE  PassInvariant'
  BY <1>14, PassShrinks DEF StartNetting, book, PassInvariant
<1>15. CASE FillLimitOrder
  <2>1. /\ phase' = "orders" /\ pending' = pending /\ current \notin pending
        /\ pending \subseteq DOMAIN orders
    BY <1>15 DEF FillLimitOrder, NettingDone, PassInvariant, TypeOK
  <2>2. \A i \in pending : orders'[i] = orders[i]
    BY <1>15, <2>1, FillKeepsOrders
  <2> QED
    BY <2>1, <2>2 DEF PassInvariant
<1>16. CASE LeaveLimitOrder
  BY <1>16, PassShrinks DEF LeaveLimitOrder, book
<1>17. ASSUME NEW i \in pending, NEW k \in DOMAIN trades, NEW kind \in Kinds,
              TriggerStop(i, k, kind) \/ SkipStop(i, k, kind)
       PROVE  PassInvariant'
  BY <1>17, PassShrinks DEF TriggerStop, SkipStop, Visit, book
<1>18. ASSUME NEW i \in pending, NEW k \in DOMAIN trades, TrailStop(i, k)
       PROVE  PassInvariant'
  BY <1>18, PassShrinks DEF TrailStop, Visit
<1>19. CASE UNCHANGED vars
  BY <1>19 DEF vars, book, call, PassInvariant
<1> QED
  BY <1>2, <1>3, <1>4, <1>5, <1>6, <1>7, <1>8, <1>9, <1>10, <1>11, <1>12, <1>13,
     <1>14, <1>15, <1>16, <1>17, <1>18, <1>19 DEF Next, Client, Step

\* The limit orders of the snapshot stay pending until the pass gets to them.
THEOREM PassCorrect == SafetySpec => []PassInvariant
<1>1. Init => PassInvariant
  BY DEF Init, PassInvariant
<1>2. TypeOK /\ CallInvariant /\ PassInvariant /\ [Next]_vars => PassInvariant'
  BY PassStep
<1> QED
  BY <1>1, <1>2, CallCorrect, PTL DEF SafetySpec

\* Trades are opened by FillLimitOrder alone.
LEMMA OnlyFillsOpen ==
    ASSUME TypeOK, Effect, Fills
    PROVE  FillLimitOrder
<1>1. Len(trades) \in Nat
  BY LenProperties DEF TypeOK
<1>2. ASSUME NEW k \in DOMAIN trades, NEW u \in Trades, Moved(k, u)
      PROVE  FALSE
  BY <1>1, <1>2, MovedTrades DEF Fills
<1>3. ~Kept
  BY <1>1 DEF Kept, Fills
<1> QED
  BY <1>2, <1>3 DEF Effect, OpenTrades

\* A trade is opened only by an order that was pending and that this fills, so
\* no order opens two trades.
THEOREM OrdersFillOnce == SafetySpec => NoSecondFill
<1>1. TypeOK /\ CallInvariant /\ ClosedIffFlat /\ PassInvariant /\ [Next]_vars
        => [Fills => /\ orders[current].state = "pending"
                     /\ orders'[current].state = "filled"]_vars
  <2> SUFFICES ASSUME TypeOK, CallInvariant, ClosedIffFlat, PassInvariant, [Next]_vars, Fills
               PROVE  orders[current].state = "pending" /\ orders'[current].state = "filled"
    OBVIOUS
  <2>1. FillLimitOrder
    BY NextEffect, OnlyFillsOpen
  <2>2. orders'[current].state = "filled"
    BY <2>1, FillKeepsOrders
  <2>3. orders[current].state = "pending"
    BY <2>1 DEF FillLimitOrder, NettingDone, PassInvariant
  <2> QED
    BY <2>2, <2>3
<1> QED
  BY <1>1, CallCorrect, PassCorrect, PTL DEF SafetySpec, NoSecondFill

----------------------------------------------------------------------------
(* A trailing stop never loosens                                           *)

LEMMA ForwardStep ==
    ASSUME TypeOK, Effect, NEW k \in DOMAIN trades
    PROVE  Forward(trades[k], trades'[k])
<1>1. trades[k] \in Trades /\ "trailing_stop" \in Kinds
  BY TradeType DEF Kinds
<1>2. ASSUME trades'[k] = trades[k]
      PROVE  Forward(trades[k], trades'[k])
  BY <1>1, <1>2, SamePriceForward
<1>3. ASSUME NEW j \in DOMAIN trades, NEW u \in Trades, Moved(j, u), Forward(trades[j], u)
      PROVE  Forward(trades[k], trades'[k])
  BY <1>2, <1>3, MovedTrades
<1>4. CASE Kept
  BY <1>2, <1>4 DEF Kept
<1>5. ASSUME NEW j \in OpenTrades, NEW u \in Trades, NEW cause,
             Moved(j, u), Ends(trades[j], u, cause)
      PROVE  Forward(trades[k], trades'[k])
  BY <1>3, <1>5 DEF Ends, OpenTrades
<1>6. ASSUME NEW j \in OpenTrades, NEW u \in Trades, Moved(j, u), Reduces(trades[j], u)
      PROVE  Forward(trades[k], trades'[k])
  <2>1. j \in DOMAIN trades
    BY DEF OpenTrades
  <2>2. trades[j] \in Trades /\ u.protection = trades[j].protection
    BY <1>6, <2>1, TradeType DEF Reduces
  <2>3. Forward(trades[j], u)
    BY <1>1, <2>2, SamePriceForward
  <2> QED
    BY <1>3, <1>6, <2>1, <2>3
<1>7. ASSUME NEW j \in DOMAIN trades, NEW u \in Trades, NEW kind,
             Moved(j, u), Rearranges(trades[j], u, kind)
      PROVE  Forward(trades[k], trades'[k])
  BY <1>3, <1>7 DEF Rearranges
<1>8. ASSUME NEW t \in Trades, Appends(t)
      PROVE  Forward(trades[k], trades'[k])
  BY <1>2, <1>8, AppendedTrades
<1> QED
  BY <1>4, <1>5, <1>6, <1>7, <1>8 DEF Effect

\* The stop price of a trailing stop never moves against its open trade, neither
\* when the market moves nor when the client changes the distance.
THEOREM TrailingStopsRatchet == SafetySpec => TrailingStopRatchets
<1> DEFINE Ratchets == \A k \in OpenTrades :
             LET stop == trades[k].protection["trailing_stop"]
                 moved == trades'[k].protection["trailing_stop"]
             IN  stop # None =>
                   IF trades[k].units > 0 THEN moved.price >= stop.price
                                          ELSE moved.price <= stop.price
<1>1. ASSUME TypeOK, CallInvariant, ClosedIffFlat, StopInvariant, [Next]_vars
      PROVE  Ratchets
  <2> SUFFICES ASSUME NEW k \in OpenTrades, trades[k].protection["trailing_stop"] # None
               PROVE  IF trades[k].units > 0
                      THEN trades'[k].protection["trailing_stop"].price
                             >= trades[k].protection["trailing_stop"].price
                      ELSE trades'[k].protection["trailing_stop"].price
                             <= trades[k].protection["trailing_stop"].price
    OBVIOUS
  <2>1. Forward(trades[k], trades'[k])
    BY <1>1, NextEffect, ForwardStep DEF OpenTrades
  <2>2. trades[k].protection["trailing_stop"].side = SideOf(trades[k].units)
    BY <1>1 DEF StopInvariant, Kinds
  <2> QED
    BY <2>1, <2>2 DEF Forward
<1>2. TypeOK /\ CallInvariant /\ ClosedIffFlat /\ StopInvariant /\ [Next]_vars => [Ratchets]_vars
  BY <1>1
<1>3. TrailingStopRatchets <=> [][Ratchets]_vars
  BY PTL DEF TrailingStopRatchets
<1> HIDE DEF Ratchets
<1> QED
  BY <1>2, <1>3, CallCorrect, StopsCorrect, PTL DEF SafetySpec

----------------------------------------------------------------------------
(* A candle that holds both stops of a trade counts as the loss            *)

\* What is left of a trade that was touched or not: nothing, or a part on its side.
LEMMA StillUntouched ==
    ASSUME NEW k \in DOMAIN trades, trades[k].units \in Int, tick' = tick,
           trades'[k].instrument = trades[k].instrument,
           \/ trades'[k].units = 0
           \/ /\ trades'[k].units \in Int
              /\ trades[k].units > 0 <=> trades'[k].units > 0
              /\ trades[k].units < 0 <=> trades'[k].units < 0
              /\ trades'[k].protection["stop_loss"] = trades[k].protection["stop_loss"],
           ~Touched(k, "stop_loss")
    PROVE  ~Touched(k, "stop_loss")'
<1>1. \A ins : /\ HasMarketInfo(ins)' <=> HasMarketInfo(ins)
               /\ \A price : /\ InBidRange(price, ins)' <=> InBidRange(price, ins)
                             /\ InAskRange(price, ins)' <=> InAskRange(price, ins)
  BY DEF HasMarketInfo, QuoteRate, BaseRate, InBidRange, InAskRange
<1>2. CASE trades'[k].units = 0
  BY <1>2 DEF Touched
<1>3. CASE trades'[k].units # 0
  BY <1>1, <1>3 DEF Touched
<1> QED
  BY <1>2, <1>3

\* A stop loss that a pass has found untouched is not touched for its rest.
LEMMA UntouchedKept ==
    ASSUME TypeOK, Effect, phase # "idle", tick' = tick, NEW k \in DOMAIN trades,
           ~Touched(k, "stop_loss")
    PROVE  ~Touched(k, "stop_loss")'
<1>1. /\ trades[k].units \in Int /\ "stop_loss" \in Kinds \ {"trailing_stop"}
      /\ trades[k].instrument = trades[k].instrument
  BY TradeType DEF Kinds
<1>2. ASSUME trades'[k] = trades[k]
      PROVE  ~Touched(k, "stop_loss")'
  BY <1>1, <1>2, StillUntouched
<1>3. ASSUME NEW j \in DOMAIN trades, NEW u \in Trades, Moved(j, u),
             j = k => \/ u.units = 0
                      \/ /\ trades[k].units > 0 <=> u.units > 0
                         /\ trades[k].units < 0 <=> u.units < 0
                         /\ u.protection["stop_loss"] = trades[k].protection["stop_loss"]
      PROVE  ~Touched(k, "stop_loss")'
  <2>1. CASE j # k
    BY <1>2, <1>3, <2>1, MovedTrades
  <2>2. CASE j = k
    <3>1. trades'[k] = u /\ u.instrument = trades[k].instrument /\ u.units \in Int
      BY <1>3, <2>2, MovedTrades DEF Moved, Trades
    <3> QED
      BY <1>1, <1>3, <2>2, <3>1, StillUntouched
  <2> QED
    BY <2>1, <2>2
<1>4. CASE Kept
  BY <1>2, <1>4 DEF Kept
<1>5. ASSUME NEW j \in OpenTrades, NEW u \in Trades, NEW cause,
             Moved(j, u), Ends(trades[j], u, cause)
      PROVE  ~Touched(k, "stop_loss")'
  BY <1>3, <1>5 DEF Ends, OpenTrades
<1>6. ASSUME NEW j \in OpenTrades, NEW u \in Trades, Moved(j, u), Reduces(trades[j], u)
      PROVE  ~Touched(k, "stop_loss")'
  <2>1. j \in DOMAIN trades
    BY DEF OpenTrades
  <2>2. trades[j].units \in Int /\ u.units \in Int
    BY <2>1, TradeType DEF Trades
  <2>3. /\ trades[j].units > 0 <=> u.units > 0
        /\ trades[j].units < 0 <=> u.units < 0
        /\ u.protection = trades[j].protection
    BY <1>6, <2>2 DEF Reduces, Ledger!SameSign
  <2> QED
    BY <1>3, <1>6, <2>1, <2>3
<1>7. ASSUME NEW j \in DOMAIN trades, NEW u \in Trades,
             Moved(j, u), Rearranges(trades[j], u, "trailing_stop")
      PROVE  ~Touched(k, "stop_loss")'
  <2>1. u.units = trades[j].units /\ u.protection["stop_loss"] = trades[j].protection["stop_loss"]
    BY <1>1, <1>7 DEF Rearranges
  <2> QED
    BY <1>3, <1>7, <2>1
<1>8. ASSUME NEW t \in Trades, Appends(t)
      PROVE  ~Touched(k, "stop_loss")'
  BY <1>2, <1>8, AppendedTrades
<1> QED
  BY <1>4, <1>5, <1>6, <1>7, <1>8 DEF Effect

\* An order adds its stop loss before its other stops.
LEMMA LossIsFirst ==
    ASSUME TypeOK, NEW order \in LimitOrders, NEW n \in 1..Len(StopsOf(order)),
           StopsOf(order)[n].kind = "stop_loss"
    PROVE  n = 1
<1> DEFINE ref(kind) == StopRef(order, kind)
<1>1. \A kind \in Kinds : /\ ref(kind) \in Seq(NewRefs(order)) /\ Len(ref(kind)) \in {0, 1}
                          /\ \A x \in 1..Len(ref(kind)) : ref(kind)[x].kind = kind
  <2> TAKE kind \in Kinds
  <2>1. CASE order.protect[kind] = None
    BY <2>1, EmptySeq DEF StopRef
  <2>2. CASE order.protect[kind] # None
    <3>1. [kind |-> kind, trade |-> Len(trades) + 1] \in NewRefs(order)
      BY <2>2 DEF NewRefs
    <3> QED
      BY <2>2, <3>1 DEF StopRef
  <2> QED
    BY <2>1, <2>2
<1> HIDE DEF ref
<1>2. PICK loss, profit, trail \in Seq(NewRefs(order)) :
         loss = ref("stop_loss") /\ profit = ref("take_profit") /\ trail = ref("trailing_stop")
  BY <1>1 DEF Kinds
<1>3. /\ Len(loss) \in {0, 1} /\ Len(profit) \in {0, 1} /\ Len(trail) \in {0, 1}
      /\ \A x \in 1..Len(profit) : profit[x].kind = "take_profit"
      /\ \A x \in 1..Len(trail) : trail[x].kind = "trailing_stop"
  BY <1>1, <1>2 DEF Kinds
<1>4. StopsOf(order) = (loss \o profit) \o trail
  BY <1>2 DEF StopsOf, ref
<1>5. /\ loss \o profit \in Seq(NewRefs(order)) /\ Len(loss \o profit) = Len(loss) + Len(profit)
      /\ \A i \in 1 .. Len(loss) + Len(profit) : (loss \o profit)[i] =
           IF i <= Len(loss) THEN loss[i] ELSE profit[i - Len(loss)]
  BY <1>2, ConcatProperties
<1>6. PICK both \in Seq(NewRefs(order)) : both = loss \o profit
  BY <1>5
<1>7. /\ Len(both \o trail) = Len(both) + Len(trail)
      /\ \A i \in 1 .. Len(both) + Len(trail) : (both \o trail)[i] =
           IF i <= Len(both) THEN both[i] ELSE trail[i - Len(both)]
  BY <1>2, <1>6, ConcatProperties
<1>8. /\ n \in 1 .. Len(both) + Len(trail) /\ Len(both) = Len(loss) + Len(profit)
      /\ StopsOf(order)[n] = IF n <= Len(both) THEN both[n] ELSE trail[n - Len(both)]
  BY <1>4, <1>5, <1>6, <1>7
<1>9. n <= Len(both)
  <2>1. ASSUME n > Len(both) PROVE n - Len(both) \in 1..Len(trail)
    BY <1>3, <1>8, <2>1
  <2> QED
    BY <1>3, <1>8, <2>1
<1>10. n <= Len(loss)
  <2>1. ASSUME n > Len(loss) PROVE n - Len(loss) \in 1..Len(profit) /\ both[n] = profit[n - Len(loss)]
    BY <1>3, <1>5, <1>6, <1>8, <1>9, <2>1
  <2> QED
    BY <1>3, <1>8, <1>9, <2>1
<1>11. n \in Nat /\ n >= 1
  BY <1>2, <1>8, LenProperties
<1>12. ASSUME NEW m \in Nat, m \in {0, 1}, n <= m PROVE n = 1
  BY <1>11, <1>12
<1> QED
  BY <1>3, <1>10, <1>12

\* The list of stops, and those of an order that fills behind them.
LEMMA FillAddsStops ==
    ASSUME TypeOK, CallInvariant, FillLimitOrder
    PROVE  /\ current \in DOMAIN orders /\ orders[current] \in LimitOrders
           /\ Len(orders) \in Nat /\ DOMAIN orders = 1..Len(orders)
           /\ \A i \in DOMAIN orders' \ DOMAIN orders :
                 /\ i - Len(orders) \in 1..Len(StopsOf(orders[current])) /\ i \in Int
                 /\ orders'[i] = StopsOf(orders[current])[i - Len(orders)]
<1> DEFINE filled == SetState(current, "filled")
           more == StopsOf(orders[current])
<1>1. current \in DOMAIN orders /\ orders[current] \in LimitOrders
  BY DEF FillLimitOrder, NettingDone, CallInvariant
<1>2. orders' = filled \o more
  BY DEF FillLimitOrder, SetState
<1>3. filled \in Seq(LimitOrders \cup StopRefs) /\ Len(filled) = Len(orders)
  BY <1>1, SetOrderState
<1>4. more \in Seq(NewRefs(orders[current]))
  BY <1>1, StopsOfType
<1>5. Len(orders) \in Nat /\ DOMAIN orders = 1..Len(orders)
  BY LenProperties DEF TypeOK
<1> HIDE DEF filled, more
<1>6. filled \in Seq(LimitOrders \cup StopRefs \cup NewRefs(orders[current]))
      /\ more \in Seq(LimitOrders \cup StopRefs \cup NewRefs(orders[current]))
  BY <1>3, <1>4, SeqMonotonic
<1>7. /\ orders' \in Seq(LimitOrders \cup StopRefs \cup NewRefs(orders[current]))
      /\ Len(orders') = Len(filled) + Len(more) /\ Len(more) \in Nat
      /\ \A i \in 1 .. Len(filled) + Len(more) :
           orders'[i] = IF i <= Len(filled) THEN filled[i] ELSE more[i - Len(filled)]
  BY <1>2, <1>6, ConcatProperties, LenProperties
<1>8. DOMAIN orders' = 1..Len(orders')
  BY <1>7, LenProperties
<1> QED
  BY <1>1, <1>3, <1>5, <1>7, <1>8 DEF more

\* Orders that are no limit orders stay where they are.
LEMMA SameStopsFirst ==
    ASSUME LossesFirst, UNCHANGED pending, DOMAIN orders \subseteq DOMAIN orders',
           \A i \in DOMAIN orders' : orders'[i].kind # "limit" =>
               i \in DOMAIN orders /\ orders'[i] = orders[i],
           pending = {} \/ \A k \in DOMAIN trades :
                              ~Touched(k, "stop_loss") => ~Touched(k, "stop_loss")',
           TypeOK
    PROVE  LossesFirst'
<1>1. \A i \in DOMAIN orders : orders[i].kind = "take_profit" => orders[i].trade \in DOMAIN trades
  BY DEF TypeOK, LimitOrders
<1>2. "stop_loss" # "limit" /\ "take_profit" # "limit"
  OBVIOUS
<1> QED
  BY <1>1, <1>2 DEF LossesFirst, TypeOK

\* A step of a pass: what was visited and found untouched stays so.
LEMMA PassLossesFirst ==
    ASSUME TypeOK, LossesFirst, Effect, phase # "idle", UNCHANGED <<tick, orders>>,
           NEW i \in pending, pending' = pending \ {i},
           \A k \in DOMAIN trades :
               orders[i] = [kind |-> "stop_loss", trade |-> k] => ~Touched(k, "stop_loss")'
    PROVE  LossesFirst'
<1>1. \A n \in DOMAIN orders : orders[n].kind = "take_profit" => orders[n].trade \in DOMAIN trades
  BY DEF TypeOK, LimitOrders
<1>2. \A n \in pending' : n \in pending /\ n \in DOMAIN orders
  BY DEF TypeOK
<1>3. ASSUME NEW n \in pending', NEW j \in DOMAIN orders \ pending',
             orders[n].kind = "take_profit",
             orders[j] = [kind |-> "stop_loss", trade |-> orders[n].trade]
      PROVE  ~Touched(orders[n].trade, "stop_loss")'
  <2>1. PICK k \in DOMAIN trades : k = orders[n].trade
    BY <1>1, <1>2, <1>3
  <2>2. CASE j = i
    BY <1>3, <2>1, <2>2
  <2>3. CASE j # i
    <3>1. ~Touched(k, "stop_loss")
      BY <1>2, <1>3, <2>1, <2>3 DEF LossesFirst
    <3>2. ~Touched(k, "stop_loss")'
      BY <3>1, UntouchedKept
    <3> QED
      BY <2>1, <3>2
  <2> QED
    BY <2>2, <2>3
<1> QED
  BY <1>3 DEF LossesFirst

LEMMA FillLossesFirst ==
    ASSUME TypeOK, CallInvariant, ClosedIffFlat, PassInvariant, LossesFirst, FillLimitOrder, Effect
    PROVE  LossesFirst'
<1>1. /\ current \in DOMAIN orders /\ orders[current] \in LimitOrders
      /\ Len(orders) \in Nat /\ DOMAIN orders = 1..Len(orders)
      /\ \A i \in DOMAIN orders' \ DOMAIN orders :
            /\ i - Len(orders) \in 1..Len(StopsOf(orders[current])) /\ i \in Int
            /\ orders'[i] = StopsOf(orders[current])[i - Len(orders)]
  BY FillAddsStops
<1>2. /\ orders'[current].kind = "limit" /\ DOMAIN orders \subseteq DOMAIN orders'
      /\ \A i \in DOMAIN orders \ {current} : orders'[i] = orders[i]
      /\ \A i \in DOMAIN orders' \ DOMAIN orders : orders'[i].trade = Len(trades) + 1
  BY FillKeepsOrders, LimitIsNoStop DEF OrdersKept
<1>3. /\ \A i \in DOMAIN orders : orders[i].kind = "take_profit" => orders[i].trade \in DOMAIN trades
      /\ \A i \in DOMAIN orders : orders[i].kind = "stop_loss" => orders[i].trade \in DOMAIN trades
  BY DEF TypeOK, LimitOrders
<1>4. Len(trades) + 1 \notin DOMAIN trades
  BY LenProperties DEF TypeOK
<1>5. \A i \in DOMAIN orders : orders'[i].kind # "limit" => orders'[i] = orders[i]
  BY <1>2
<1>6. ASSUME NEW i \in DOMAIN orders', NEW j \in DOMAIN orders',
             orders'[i].kind = "take_profit",
             orders'[j] = [kind |-> "stop_loss", trade |-> orders'[i].trade]
      PROVE  /\ j < i
             /\ i \in DOMAIN orders => /\ j \in DOMAIN orders /\ orders[i] = orders'[i]
                                       /\ orders[j] = orders'[j]
  <2>1. orders'[j].kind = "stop_loss" /\ orders'[j].trade = orders'[i].trade
    BY <1>6
  <2>2. CASE i \in DOMAIN orders
    <3>1. orders'[i] = orders[i] /\ orders'[i].trade \in DOMAIN trades
      BY <1>3, <1>5, <1>6, <2>2
    <3>2. j \in DOMAIN orders
      BY <1>2, <1>4, <2>1, <3>1
    <3>3. orders'[j] = orders[j]
      BY <1>5, <2>1, <3>2
    <3> QED
      BY <1>6, <2>2, <3>1, <3>2, <3>3 DEF LossesFirst
  <2>3. CASE i \notin DOMAIN orders
    <3>1. j \notin DOMAIN orders
      <4>1. ASSUME j \in DOMAIN orders PROVE FALSE
        <5>1. orders'[j] = orders[j] /\ orders[j].trade \in DOMAIN trades
          BY <1>3, <1>5, <2>1, <4>1
        <5> QED
          BY <1>2, <1>4, <2>1, <2>3, <5>1
      <4> QED BY <4>1
    <3>2. j - Len(orders) = 1
      BY <1>1, <2>1, <3>1, LossIsFirst
    <3>3. i - Len(orders) # 1
      BY <1>1, <1>6, <2>1, <2>3, <3>1, <3>2
    <3>4. /\ i - Len(orders) \in 1..Len(StopsOf(orders[current])) /\ i \in Int /\ j \in Int
      BY <1>1, <2>3, <3>1
    <3>5. StopsOf(orders[current]) \in Seq(NewRefs(orders[current]))
      BY <1>1, StopsOfType
    <3>6. Len(StopsOf(orders[current])) \in Nat
      BY <3>5, LenProperties
    <3> HIDE DEF StopsOf
    <3> QED
      BY <1>1, <2>3, <3>2, <3>3, <3>4, <3>6
  <2> QED
    BY <2>2, <2>3
<1>7. /\ pending' = pending /\ tick' = tick /\ phase # "idle" /\ pending \subseteq DOMAIN orders
  BY DEF FillLimitOrder, NettingDone, TypeOK
<1>8. ASSUME NEW i \in pending', NEW j \in DOMAIN orders' \ pending',
             orders'[i].kind = "take_profit",
             orders'[j] = [kind |-> "stop_loss", trade |-> orders'[i].trade]
      PROVE  ~Touched(orders[i].trade, "stop_loss")'
  <2>1. /\ i \in pending /\ j \in DOMAIN orders \ pending
        /\ orders[i] = orders'[i] /\ orders[j] = orders'[j]
    BY <1>2, <1>6, <1>7, <1>8
  <2>2. PICK k \in DOMAIN trades : k = orders[i].trade
    BY <1>3, <1>7, <1>8, <2>1
  <2>3. ~Touched(k, "stop_loss")
    BY <1>8, <2>1, <2>2 DEF LossesFirst
  <2>4. ~Touched(k, "stop_loss")'
    BY <1>7, <2>3, UntouchedKept
  <2> QED
    BY <2>1, <2>2, <2>4
<1> QED
  BY <1>6, <1>8 DEF LossesFirst

LEMMA LossesFirstStep ==
    ASSUME TypeOK, CallInvariant, ClosedIffFlat, PassInvariant, OneCancelsOther, StopInvariant,
           LossesFirst, [Next]_vars
    PROVE  LossesFirst'
<1>1. Effect
  BY NextEffect
<1>2. ASSUME phase = "idle" \/ phase = "closing", UNCHANGED <<pending, orders>>
      PROVE  LossesFirst'
  <2>1. pending = {}
    BY <1>2 DEF PassInvariant
  <2> QED
    BY <1>2, <2>1 DEF LossesFirst
<1>3. ASSUME NEW request \in Requests,
             CreateLimitOrder(request) \/ CreateMarketOrder(request)
      PROVE  LossesFirst'
  <2>1. PICK order : order.kind = "limit" /\ orders' = Append(orders, order)
    BY <1>3 DEF CreateLimitOrder, CreateMarketOrder, Place
  <2>2. orders \in Seq(LimitOrders \cup StopRefs \cup {order})
    BY SeqMonotonic DEF TypeOK
  <2>3. /\ Len(orders) \in Nat /\ Len(orders') = Len(orders) + 1
        /\ orders' \in Seq(LimitOrders \cup StopRefs \cup {order})
        /\ \A i \in 1..Len(orders) : orders'[i] = orders[i]
        /\ orders'[Len(orders) + 1] = order
    BY <2>1, <2>2, AppendProperties, LenProperties
  <2>4. DOMAIN orders = 1..Len(orders) /\ DOMAIN orders' = 1..Len(orders')
    BY <2>2, <2>3, LenProperties
  <2>5. \A i \in DOMAIN orders' : orders'[i].kind # "limit" =>
            i \in DOMAIN orders /\ orders'[i] = orders[i]
    BY <2>1, <2>3, <2>4
  <2>6. pending = {} /\ pending' = pending
    BY <1>3 DEF CreateLimitOrder, CreateMarketOrder, Place, call, PassInvariant
  <2> QED
    BY <2>3, <2>4, <2>5, <2>6, SameStopsFirst
<1>4. ASSUME NEW i \in DOMAIN orders, CancelLimitOrder(i)
      PROVE  LossesFirst'
  <2>1. orders[i] \in LimitOrders
    BY <1>4 DEF CancelLimitOrder, TypeOK, StopRefs, Kinds
  <2>2. orders' = SetState(i, "cancelled")
    BY <1>4 DEF CancelLimitOrder, SetState
  <2>3. /\ DOMAIN orders' = DOMAIN orders /\ orders'[i] \in LimitOrders
        /\ \A j \in DOMAIN orders \ {i} : orders'[j] = orders[j]
    BY <2>1, <2>2, SetOrderState
  <2>4. \A j \in DOMAIN orders' : orders'[j].kind # "limit" =>
            j \in DOMAIN orders /\ orders'[j] = orders[j]
    BY <2>3, LimitIsNoStop
  <2>5. pending = {} /\ pending' = pending
    BY <1>4 DEF CancelLimitOrder, call, PassInvariant
  <2> QED
    BY <2>3, <2>4, <2>5, SameStopsFirst
<1>5. ASSUME NEW k \in DOMAIN trades, NEW kind, NEW price, UpdateTradePrice(k, kind, price)
      PROVE  LossesFirst'
  BY <1>2, <1>5 DEF UpdateTradePrice, call
<1>6. ASSUME NEW k \in DOMAIN trades, NEW distance, UpdateTrailingStopDistance(k, distance)
      PROVE  LossesFirst'
  BY <1>2, <1>6 DEF UpdateTrailingStopDistance, call
<1>7. ASSUME NEW ins \in Instruments, NEW data \in Ticks, CloserPosition(ins, data)
      PROVE  LossesFirst'
  BY <1>2, <1>7 DEF CloserPosition, book
<1>8. ASSUME NEW data \in Ticks, ProcessOrders(data)
      PROVE  LossesFirst'
  <2>1. pending' = PendingOrders /\ orders' = orders
    BY <1>8 DEF ProcessOrders, book
  <2>2. ASSUME NEW i \in PendingOrders, NEW j \in DOMAIN orders, orders[i].kind = "take_profit",
               orders[j] = [kind |-> "stop_loss", trade |-> orders[i].trade]
        PROVE  j \in PendingOrders
    <3>1. i \in DOMAIN orders /\ IsPending(orders[i]) /\ orders[i].kind # "limit"
      BY <2>2 DEF PendingOrders
    <3>2. trades[orders[i].trade].state = "open"
      BY <3>1 DEF OneCancelsOther
    <3>3. orders[j].kind # "limit" /\ orders[j].trade = orders[i].trade
      BY <2>2
    <3>4. IsPending(orders[j])
      BY <3>2, <3>3 DEF OneCancelsOther
    <3> QED
      BY <3>4 DEF PendingOrders
  <2> QED
    BY <2>1, <2>2 DEF LossesFirst
<1>9. CASE Return
  BY <1>9 DEF Return, book, LossesFirst, PassInvariant
<1>10. ASSUME NEW k \in existing, CloseNext(k)
       PROVE  LossesFirst'
  BY <1>2, <1>10 DEF CloseNext
<1>11. ASSUME UNCHANGED <<pending, orders, tick>>, phase # "idle"
       PROVE  LossesFirst'
  <2>1. \A k \in DOMAIN trades : ~Touched(k, "stop_loss") => ~Touched(k, "stop_loss")'
    BY <1>1, <1>11, UntouchedKept
  <2> QED
    BY <1>11, <2>1, SameStopsFirst
<1>12. ASSUME NEW k \in existing, SizeNext(k) \/ NetNext(k)
       PROVE  LossesFirst'
  BY <1>11, <1>12 DEF SizeNext, NetNext, book
<1>13. ASSUME NEW nets \in BOOLEAN, StartNetting(nets)
       PROVE  LossesFirst'
  BY <1>11, <1>13 DEF StartNetting, book
<1>14. CASE LeaveLimitOrder
  BY <1>11, <1>14 DEF LeaveLimitOrder, NettingDone, book
<1>15. CASE FillLimitOrder
  BY <1>1, <1>15, FillLossesFirst
<1>16. ASSUME NEW i \in pending, SkipLimitOrder(i) \/ ExecuteLimitOrder(i)
       PROVE  LossesFirst'
  <2>1. /\ pending' = pending \ {i} /\ orders[i].kind = "limit" /\ phase # "idle"
        /\ UNCHANGED <<tick, orders>>
    BY <1>16 DEF SkipLimitOrder, ExecuteLimitOrder, Visit, book
  <2>2. \A k \in DOMAIN trades : orders[i] # [kind |-> "stop_loss", trade |-> k]
    BY <2>1
  <2> QED
    BY <1>1, <2>1, <2>2, PassLossesFirst
<1>17. ASSUME NEW i \in pending, NEW k \in DOMAIN trades, NEW kind \in Kinds,
              TriggerStop(i, k, kind)
       PROVE  LossesFirst'
  <2>1. /\ pending' = pending \ {i} /\ orders[i] = [kind |-> kind, trade |-> k]
        /\ phase # "idle" /\ UNCHANGED <<tick, orders>>
    BY <1>17 DEF TriggerStop, Visit
  <2>2. PICK u \in Trades : Moved(k, u) /\ Ends(trades[k], u, kind)
    BY <1>17, TriggerStopEffect
  <2>3. trades'[k].units = 0
    BY <2>2, MovedTrades DEF Ends
  <2>4. ~Touched(k, "stop_loss")'
    BY <2>3 DEF Touched
  <2>5. \A n \in DOMAIN trades : orders[i] = [kind |-> "stop_loss", trade |-> n] => n = k
    BY <2>1
  <2> QED
    BY <1>1, <2>1, <2>4, <2>5, PassLossesFirst
<1>18. ASSUME NEW i \in pending, NEW k \in DOMAIN trades, NEW kind \in Kinds,
              SkipStop(i, k, kind)
       PROVE  LossesFirst'
  <2>1. /\ pending' = pending \ {i} /\ orders[i] = [kind |-> kind, trade |-> k]
        /\ phase # "idle" /\ UNCHANGED <<tick, orders>> /\ ~Touched(k, kind)
    BY <1>18 DEF SkipStop, Visit, book
  <2>2. \A n \in DOMAIN trades : orders[i] = [kind |-> "stop_loss", trade |-> n] =>
            n = k /\ kind = "stop_loss"
    BY <2>1
  <2>3. kind = "stop_loss" => ~Touched(k, "stop_loss")'
    BY <1>1, <2>1, UntouchedKept
  <2> QED
    BY <1>1, <2>1, <2>2, <2>3, PassLossesFirst
<1>19. ASSUME NEW i \in pending, NEW k \in DOMAIN trades, TrailStop(i, k)
       PROVE  LossesFirst'
  <2>1. /\ pending' = pending \ {i} /\ orders[i] = [kind |-> "trailing_stop", trade |-> k]
        /\ phase # "idle" /\ UNCHANGED <<tick, orders>>
    BY <1>19 DEF TrailStop, Visit
  <2>2. \A n \in DOMAIN trades : orders[i] # [kind |-> "stop_loss", trade |-> n]
    BY <2>1
  <2> QED
    BY <1>1, <2>1, <2>2, PassLossesFirst
<1>20. CASE UNCHANGED vars
  <2>1. UNCHANGED <<trades, orders, pending, tick>>
    BY <1>20 DEF vars, book, call
  <2>2. \A k : Touched(k, "stop_loss")' <=> Touched(k, "stop_loss")
    BY <2>1 DEF Touched, HasMarketInfo, QuoteRate, BaseRate, InBidRange, InAskRange
  <2> QED
    BY <2>1, <2>2, SameStopsFirst
<1> QED
  BY <1>3, <1>4, <1>5, <1>6, <1>7, <1>8, <1>9, <1>10, <1>12, <1>13, <1>14, <1>15,
     <1>16, <1>17, <1>18, <1>19, <1>20 DEF Next, Client, Step

\* The stop loss of a trade is visited first, and is not touched any more after.
LEMMA LossesFirstHolds == SafetySpec => []LossesFirst
<1>1. Init => LossesFirst
  BY DEF Init, LossesFirst
<1>2. /\ TypeOK /\ CallInvariant /\ ClosedIffFlat /\ PassInvariant /\ OneCancelsOther
      /\ StopInvariant /\ LossesFirst /\ [Next]_vars
      => LossesFirst'
  BY LossesFirstStep
<1> QED
  BY <1>1, <1>2, CallCorrect, PassCorrect, StopsCorrect, StopsOfClosedTradesRetire, PTL DEF SafetySpec

\* A candle that holds both the stop loss and the take profit of a trade counts as
\* the loss: ProcessOrders visits the list in the order the stops joined it.
THEOREM LossComesFirst == SafetySpec => PessimisticExit
<1> DEFINE TakesProfit(t) == /\ t.protection["take_profit"] # None
                             /\ t.protection["take_profit"].state = "triggered"
           Exits == \A k \in DOMAIN trades :
                       /\ Listed(k, "stop_loss")
                       /\ ~TakesProfit(trades[k]) /\ TakesProfit(trades'[k])
                       => ~Touched(k, "stop_loss")
<1>1. ASSUME TypeOK, CallInvariant, ClosedIffFlat, LossesFirst, [Next]_vars
      PROVE  Exits
  <2> SUFFICES ASSUME NEW k \in DOMAIN trades, Listed(k, "stop_loss"),
                      ~TakesProfit(trades[k]), TakesProfit(trades'[k])
               PROVE  ~Touched(k, "stop_loss")
    OBVIOUS
  <2>1. Effect
    BY <1>1, NextEffect
  <2>2. "take_profit" \in Kinds /\ "take_profit" # "call" /\ "take_profit" # "trailing_stop"
    BY DEF Kinds
  <2>3. ~Kept
    BY DEF Kept
  <2>4. ASSUME NEW j \in DOMAIN trades, NEW u \in Trades, Moved(j, u)
        PROVE  j = k /\ TakesProfit(u)
    BY <1>1, <2>4, MovedTrades
  <2>5. ASSUME NEW j \in OpenTrades, NEW u \in Trades, Moved(j, u), Reduces(trades[j], u)
        PROVE  FALSE
    BY <2>4, <2>5 DEF Reduces, OpenTrades
  <2>6. ASSUME NEW j \in DOMAIN trades, NEW u \in Trades, NEW kind \in Kinds, Moved(j, u),
               Rearranges(trades[j], u, kind)
        PROVE  FALSE
    <3>1. CASE kind = "take_profit"
      BY <2>4, <2>6, <3>1 DEF Rearranges
    <3>2. CASE kind # "take_profit"
      BY <2>2, <2>4, <2>6, <3>2 DEF Rearranges
    <3> QED
      BY <3>1, <3>2
  <2>7. ASSUME NEW t \in Trades, Appends(t)
        PROVE  FALSE
    BY <1>1, <2>7, AppendedTrades
  <2>8. PICK i \in pending : TriggerStop(i, k, "take_profit")
    <3>1. PICK j \in OpenTrades, u \in Trades, cause \in Causes :
             /\ Moved(j, u) /\ Ends(trades[j], u, cause)
             /\ cause # "call" => \E i \in pending : TriggerStop(i, j, cause)
      BY <2>1, <2>3, <2>5, <2>6, <2>7 DEF Effect
    <3>2. j = k /\ TakesProfit(u)
      BY <2>4, <3>1 DEF OpenTrades
    <3>3. cause = "take_profit"
      BY <2>2, <3>1, <3>2 DEF Ends
    <3> QED
      BY <2>2, <3>1, <3>2, <3>3
  <2>9. /\ orders[i] = [kind |-> "take_profit", trade |-> k]
        /\ \A n \in pending : i <= n
        /\ i \in DOMAIN orders /\ i \in Int
    BY <1>1, <2>8, LenProperties DEF TriggerStop, Visit, IsFirst, TypeOK
  <2>10. PICK j \in DOMAIN orders : orders[j] = [kind |-> "stop_loss", trade |-> k]
    BY DEF Listed
  <2>11. j < i /\ j \in Int
    BY <1>1, <2>9, <2>10, LenProperties DEF LossesFirst, TypeOK
  <2>12. j \notin pending
    BY <2>9, <2>11
  <2> QED
    BY <1>1, <2>8, <2>9, <2>10, <2>12 DEF LossesFirst
<1>2. TypeOK /\ CallInvariant /\ ClosedIffFlat /\ LossesFirst /\ [Next]_vars => [Exits]_vars
  BY <1>1
<1>3. PessimisticExit <=> [][Exits]_vars
  BY PTL DEF PessimisticExit
<1> HIDE DEF Exits
<1> QED
  BY <1>2, <1>3, CallCorrect, LossesFirstHolds, PTL DEF SafetySpec

----------------------------------------------------------------------------
(* Sums over the open trades: SumFunction of the community modules, which  *)
(* takes one element at a time out of the domain                           *)

\* Induction over a set of numbers.
LEMMA EveryCount ==
    ASSUME NEW Counts, Counts \subseteq Nat, 0 \in Counts,
           \A n \in Counts : n + 1 \in Counts
    PROVE  Counts = Nat
<1> DEFINE Bad == Nat \ Counts
<1>1. CASE Bad # {}
  <2>1. Bad \subseteq Nat
    OBVIOUS
  <2>2. PICK m \in Bad : \A n \in Bad : ~(<<n, m>> \in OpToRel(<, Nat))
    <3> HIDE DEF Bad
    <3> QED
      BY <1>1, <2>1, WFMin, NatLessThanWellFounded
  <2>3. m \in Nat /\ m # 0 /\ m \notin Counts
    BY <2>2
  <2>4. m - 1 \in Nat /\ m - 1 < m /\ (m - 1) + 1 = m
    BY <2>3
  <2>5. <<m - 1, m>> \in OpToRel(<, Nat)
    BY <2>3, <2>4 DEF OpToRel
  <2>6. m - 1 \in Counts
    BY <2>2, <2>4, <2>5
  <2> QED
    BY <2>3, <2>4, <2>6
<1> QED
  BY <1>1

\* The sum over a part of the domain, taking away one element at a time.
Taken(s) == CHOOSE x \in s : TRUE
SumFrom(F, f, s) == IF s = {} THEN 0 ELSE f[Taken(s)] + F[s \ {Taken(s)}]
Unfolds(F, f) == F = [s \in SUBSET DOMAIN f |-> SumFrom(F, f, s)]
TakesAny(F, f, S) == \A x \in S : F[S] = f[x] + F[S \ {x}]
UpTo(n, S) == {s \in SUBSET S : Cardinality(s) <= n}

LEMMA OneLess ==
    ASSUME NEW S, IsFiniteSet(S), NEW s \in SUBSET S, NEW x \in s
    PROVE  /\ Cardinality(s) \in Nat /\ s \ {x} \in SUBSET S
           /\ Cardinality(s \ {x}) = Cardinality(s) - 1
<1>1. IsFiniteSet(s)
  BY FS_Subset
<1> QED
  BY <1>1, FS_RemoveElement, FS_CardinalityType

\* By induction on n: there is a function that sums over every subset of at most n elements.
LEMMA SumUpTo ==
    ASSUME NEW S, IsFiniteSet(S), NEW f \in [S -> Int], NEW n \in Nat
    PROVE  \E F \in [UpTo(n, S) -> Int] : \A s \in UpTo(n, S) : F[s] = SumFrom(F, f, s)
<1> DEFINE Good(m) == \E F \in [UpTo(m, S) -> Int] :
                        \A s \in UpTo(m, S) : F[s] = SumFrom(F, f, s)
           Counts == {m \in Nat : Good(m)}
<1>1. Good(0)
  <2>1. \A s \in UpTo(0, S) : s = {}
    <3> SUFFICES ASSUME NEW s \in UpTo(0, S)
                 PROVE  s = {}
      OBVIOUS
    <3>1. IsFiniteSet(s) /\ Cardinality(s) <= 0
      BY FS_Subset DEF UpTo
    <3>2. Cardinality(s) = 0
      BY <3>1, FS_CardinalityType
    <3> QED
      BY <3>1, <3>2, FS_EmptySet
  <2>2. PICK F : F = [s \in UpTo(0, S) |-> 0]
    OBVIOUS
  <2> QED
    BY <2>1, <2>2 DEF SumFrom
<1>2. ASSUME NEW m \in Nat, Good(m)
      PROVE  Good(m + 1)
  <2>1. PICK F \in [UpTo(m, S) -> Int] : \A s \in UpTo(m, S) : F[s] = SumFrom(F, f, s)
    BY <1>2
  <2>2. PICK G : G = [s \in UpTo(m + 1, S) |-> SumFrom(F, f, s)]
    OBVIOUS
  <2>3. ASSUME NEW s \in UpTo(m + 1, S)
        PROVE  G[s] = SumFrom(F, f, s) /\ SumFrom(F, f, s) = SumFrom(G, f, s) /\ G[s] \in Int
    <3>1. G[s] = SumFrom(F, f, s)
      BY <2>2
    <3>2. CASE s = {}
      BY <3>1, <3>2 DEF SumFrom
    <3>3. CASE s # {}
      <4> DEFINE x == Taken(s)
                 rest == s \ {x}
      <4>1. x \in S /\ rest \in UpTo(m, S) /\ rest \in UpTo(m + 1, S)
        <5>1. s \in SUBSET S /\ Cardinality(s) <= m + 1
          BY DEF UpTo
        <5>2. x \in s
          BY <3>3 DEF Taken
        <5>3. /\ Cardinality(s) \in Nat /\ rest \in SUBSET S
              /\ Cardinality(rest) = Cardinality(s) - 1
          BY <5>1, <5>2, OneLess
        <5> HIDE DEF x, rest
        <5>4. Cardinality(rest) <= m /\ Cardinality(rest) <= m + 1
          BY <5>1, <5>3
        <5> QED
          BY <5>1, <5>2, <5>3, <5>4 DEF UpTo
      <4>2. F[rest] \in Int /\ f[x] \in Int
        BY <2>1, <4>1
      <4>3. F[rest] = SumFrom(F, f, rest) /\ G[rest] = SumFrom(F, f, rest)
        BY <2>1, <2>2, <4>1
      <4> QED
        BY <3>1, <3>3, <4>2, <4>3 DEF SumFrom
    <3> QED
      BY <3>2, <3>3
  <2>4. G \in [UpTo(m + 1, S) -> Int]
    BY <2>2, <2>3
  <2> QED
    BY <2>3, <2>4
<1> HIDE DEF Good
<1>3. Counts = Nat
  <2>1. Counts \subseteq Nat /\ 0 \in Counts /\ \A m \in Counts : m + 1 \in Counts
    BY <1>1, <1>2
  <2> HIDE DEF Counts
  <2> QED
    BY <2>1, EveryCount
<1>4. Good(n)
  BY <1>3
<1> QED
  BY <1>4 DEF Good


LEMMA SumExists ==
    ASSUME NEW S, IsFiniteSet(S), NEW f \in [S -> Int]
    PROVE  \E F \in [SUBSET S -> Int] : Unfolds(F, f)
<1>1. PICK n \in Nat : n = Cardinality(S)
  BY FS_CardinalityType
<1>2. UpTo(n, S) = SUBSET S
  BY <1>1, FS_Subset DEF UpTo
<1>3. PICK F : /\ F \in [UpTo(n, S) -> Int]
               /\ \A s \in UpTo(n, S) : F[s] = SumFrom(F, f, s)
  BY SumUpTo
<1>4. F \in [SUBSET S -> Int] /\ F = [s \in SUBSET S |-> SumFrom(F, f, s)]
  BY <1>2, <1>3
<1> QED
  BY <1>4 DEF Unfolds

\* What SumFunction chooses is such a function.
LEMMA SumUnfolds ==
    ASSUME NEW S, IsFiniteSet(S), NEW f \in [S -> Int]
    PROVE  \E F : Unfolds(F, f) /\ SumFunction(f) = F[S]
<1>1. \E F : Unfolds(F, f)
  BY SumExists
<1>2. DOMAIN f = S
  OBVIOUS
<1> QED
  BY <1>1, <1>2
     DEF SumFunction, SumFunctionOnSet, FoldFunctionOnSet, MapThenFoldSet, Unfolds, SumFrom, Taken

\* Two such functions agree where what they sum agrees.
LEMMA SumsAgree ==
    ASSUME NEW S, IsFiniteSet(S), NEW T \in SUBSET S,
           NEW f \in [S -> Int], NEW g \in [T -> Int], \A x \in T : f[x] = g[x],
           NEW F, Unfolds(F, f), NEW G, Unfolds(G, g)
    PROVE  \A s \in SUBSET T : F[s] = G[s] /\ F[s] \in Int
<1> DEFINE Same(n) == \A s \in SUBSET T : Cardinality(s) = n => F[s] = G[s] /\ F[s] \in Int
           Counts == {n \in Nat : Same(n)}
<1>1. /\ \A s \in SUBSET S : F[s] = SumFrom(F, f, s)
      /\ \A s \in SUBSET T : G[s] = SumFrom(G, g, s)
  BY DEF Unfolds
<1>2. Same(0)
  <2> SUFFICES ASSUME NEW s \in SUBSET T, Cardinality(s) = 0
               PROVE  F[s] = G[s] /\ F[s] \in Int
    OBVIOUS
  <2>1. s = {} /\ s \in SUBSET S
    BY FS_Subset, FS_EmptySet
  <2>2. SumFrom(F, f, s) = 0 /\ SumFrom(G, g, s) = 0
    BY <2>1 DEF SumFrom
  <2> QED
    BY <1>1, <2>1, <2>2
<1>3. ASSUME NEW n \in Nat, Same(n)
      PROVE  Same(n + 1)
  <2> SUFFICES ASSUME NEW s \in SUBSET T, Cardinality(s) = n + 1
               PROVE  F[s] = G[s] /\ F[s] \in Int
    OBVIOUS
  <2>1. s # {}
    BY FS_EmptySet
  <2>2. PICK t \in s : t = Taken(s)
    BY <2>1 DEF Taken
  <2>3. s \in SUBSET S /\ s \ {t} \in SUBSET T /\ s \ {t} \in SUBSET S
    OBVIOUS
  <2>4. Cardinality(s \ {t}) = n
    <3>1. Cardinality(s \ {t}) = (n + 1) - 1
      BY <2>3, OneLess
    <3> QED
      BY <3>1
  <2>5. F[s \ {t}] = G[s \ {t}] /\ F[s \ {t}] \in Int
    BY <1>3, <2>3, <2>4
  <2>6. F[s] = f[t] + F[s \ {t}] /\ G[s] = g[t] + G[s \ {t}]
    BY <1>1, <2>1, <2>2, <2>3 DEF SumFrom
  <2>7. f[t] = g[t] /\ f[t] \in Int
    OBVIOUS
  <2> QED
    BY <2>5, <2>6, <2>7
<1> HIDE DEF Same
<1>4. Counts = Nat
  <2>1. Counts \subseteq Nat /\ 0 \in Counts /\ \A n \in Counts : n + 1 \in Counts
    BY <1>2, <1>3
  <2> HIDE DEF Counts
  <2> QED
    BY <2>1, EveryCount
<1>5. \A n \in Nat : Same(n)
  BY <1>4
<1>6. \A s \in SUBSET T : Cardinality(s) \in Nat
  BY FS_Subset, FS_CardinalityType
<1> QED
  BY <1>5, <1>6 DEF Same

\* The element to take away first does not matter.
LEMMA SumTakesAny ==
    ASSUME NEW S, IsFiniteSet(S), NEW f \in [S -> Int], NEW F, Unfolds(F, f)
    PROVE  /\ F \in [SUBSET S -> Int]
           /\ TakesAny(F, f, S)
<1> DEFINE Split(s) == /\ F[s] \in Int
                       /\ \A x \in s : F[s] = f[x] + F[s \ {x}]
           AllSplit(n) == \A s \in SUBSET S : Cardinality(s) = n => Split(s)
           Counts == {n \in Nat : AllSplit(n)}
<1>1. \A s \in SUBSET S : F[s] = SumFrom(F, f, s)
  BY DEF Unfolds
<1>2. AllSplit(0)
  <2> SUFFICES ASSUME NEW s \in SUBSET S, Cardinality(s) = 0
               PROVE  Split(s)
    OBVIOUS
  <2>1. s = {}
    BY FS_Subset, FS_EmptySet
  <2>2. SumFrom(F, f, s) = 0
    BY <2>1 DEF SumFrom
  <2> QED
    BY <1>1, <2>1, <2>2
<1>3. ASSUME NEW n \in Nat, AllSplit(n)
      PROVE  AllSplit(n + 1)
  <2> SUFFICES ASSUME NEW s \in SUBSET S, Cardinality(s) = n + 1
               PROVE  Split(s)
    OBVIOUS
  <2>2. ASSUME NEW x \in s
        PROVE  s \ {x} \in SUBSET S /\ Cardinality(s \ {x}) = n /\ f[x] \in Int
    <3>1. Cardinality(s \ {x}) = (n + 1) - 1
      BY OneLess
    <3> QED
      BY <3>1
  <2>3. s # {}
    BY FS_EmptySet
  <2>4. PICK t \in s : t = Taken(s)
    BY <2>3 DEF Taken
  <2>5. F[s] = f[t] + F[s \ {t}] /\ Split(s \ {t})
    BY <1>1, <1>3, <2>2, <2>3, <2>4 DEF SumFrom
  <2>6. F[s] \in Int
    BY <2>2, <2>5
  <2>7. ASSUME NEW x \in s
        PROVE  F[s] = f[x] + F[s \ {x}]
    <3>1. CASE x = t
      BY <2>5, <3>1
    <3>2. CASE x # t
      <4>1. PICK rest : rest = (s \ {t}) \ {x} /\ rest = (s \ {x}) \ {t}
        OBVIOUS
      <4>2. F[s \ {t}] = f[x] + F[rest]
        BY <2>5, <3>2, <4>1
      <4>3. Split(s \ {x})
        BY <1>3, <2>2
      <4>4. F[s \ {x}] = f[t] + F[rest]
        BY <3>2, <4>1, <4>3
      <4>5. F[rest] \in Int
        BY <4>1, SumsAgree
      <4> QED
        BY <2>2, <2>5, <4>2, <4>4, <4>5
    <3> QED
      BY <3>1, <3>2
  <2> QED
    BY <2>6, <2>7
<1> HIDE DEF AllSplit
<1>4. Counts = Nat
  <2>1. Counts \subseteq Nat /\ 0 \in Counts /\ \A n \in Counts : n + 1 \in Counts
    BY <1>2, <1>3
  <2> HIDE DEF Counts
  <2> QED
    BY <2>1, EveryCount
<1>5. \A n \in Nat : AllSplit(n)
  BY <1>4
<1>6. \A s \in SUBSET S : Cardinality(s) \in Nat
  BY FS_Subset, FS_CardinalityType
<1>7. \A s \in SUBSET S : Split(s)
  BY <1>5, <1>6 DEF AllSplit
<1>8. TakesAny(F, f, S)
  BY <1>7 DEF TakesAny
<1> QED
  BY <1>7, <1>8 DEF Unfolds

LEMMA SumType ==
    ASSUME NEW S, IsFiniteSet(S), NEW f \in [S -> Int]
    PROVE  SumFunction(f) \in Int /\ (S = {} => SumFunction(f) = 0)
<1>1. PICK F : Unfolds(F, f) /\ SumFunction(f) = F[S]
  BY SumUnfolds
<1>2. F[S] \in Int
  <2>1. F \in [SUBSET S -> Int]
    BY <1>1, SumTakesAny
  <2> QED
    BY <2>1
<1>3. F[S] = SumFrom(F, f, S)
  BY <1>1 DEF Unfolds
<1>4. S = {} => F[S] = 0
  BY <1>3 DEF SumFrom
<1> QED
  BY <1>1, <1>2, <1>4

\* A sum is what one element adds to the sum of the others.
LEMMA SumSplits ==
    ASSUME NEW S, IsFiniteSet(S), NEW f \in [S -> Int], NEW x \in S,
           NEW g \in [S \ {x} -> Int], \A y \in S \ {x} : f[y] = g[y]
    PROVE  SumFunction(f) = f[x] + SumFunction(g)
<1>1. PICK F : Unfolds(F, f) /\ SumFunction(f) = F[S]
  BY SumUnfolds
<1>2. PICK T \in SUBSET S : T = S \ {x} /\ IsFiniteSet(T)
  BY FS_Subset
<1>3. PICK G : Unfolds(G, g) /\ SumFunction(g) = G[T]
  BY <1>2, SumUnfolds
<1>4. F[T] = G[T]
  BY <1>1, <1>2, <1>3, SumsAgree
<1>5. F[S] = f[x] + F[T]
  <2>1. TakesAny(F, f, S)
    BY <1>1, SumTakesAny
  <2> QED
    BY <1>2, <2>1 DEF TakesAny
<1> QED
  BY <1>1, <1>3, <1>4, <1>5

----------------------------------------------------------------------------
(* The account holds one side of a pair                                    *)

\* Open trades stay on their side, and no step but a fill adds one.
SidesKept ==
    /\ OpenTrades' \subseteq OpenTrades
    /\ \A k \in OpenTrades' :
         /\ trades'[k].instrument = trades[k].instrument
         /\ trades[k].units > 0 <=> trades'[k].units > 0
         /\ trades[k].units < 0 <=> trades'[k].units < 0

LEMMA SidesKeptByEffect ==
    ASSUME TypeOK, Effect, ~FillLimitOrder
    PROVE  SidesKept
<1>1. ASSUME NEW j \in DOMAIN trades, NEW u \in Trades, Moved(j, u),
             u.state = "open" => /\ trades[j].state = "open"
                                 /\ trades[j].units > 0 <=> u.units > 0
                                 /\ trades[j].units < 0 <=> u.units < 0
      PROVE  SidesKept
  <2>1. u.instrument = trades[j].instrument
    BY <1>1 DEF Moved
  <2> QED
    BY <1>1, <2>1, MovedTrades DEF SidesKept, OpenTrades
<1>2. CASE Kept
  BY <1>2 DEF Kept, SidesKept, OpenTrades
<1>3. ASSUME NEW j \in OpenTrades, NEW u \in Trades, NEW cause,
             Moved(j, u), Ends(trades[j], u, cause)
      PROVE  SidesKept
  BY <1>1, <1>3 DEF Ends, OpenTrades
<1>4. ASSUME NEW j \in OpenTrades, NEW u \in Trades, Moved(j, u), Reduces(trades[j], u)
      PROVE  SidesKept
  <2>1. j \in DOMAIN trades /\ trades[j].state = "open"
    BY DEF OpenTrades
  <2>2. trades[j].units \in Int /\ u.units \in Int
    BY <2>1, TradeType DEF Trades
  <2>3. /\ trades[j].units > 0 <=> u.units > 0
        /\ trades[j].units < 0 <=> u.units < 0
    BY <1>4, <2>2 DEF Reduces, Ledger!SameSign
  <2> QED
    BY <1>1, <1>4, <2>1, <2>3
<1>5. ASSUME NEW j \in DOMAIN trades, NEW u \in Trades, NEW kind,
             Moved(j, u), Rearranges(trades[j], u, kind)
      PROVE  SidesKept
  BY <1>1, <1>5 DEF Rearranges
<1> QED
  BY <1>2, <1>3, <1>4, <1>5 DEF Effect

LEMMA SameSideKept ==
    ASSUME SameSide, SidesKept
    PROVE  SameSide'
BY DEF SameSide, SidesKept, Ledger!SameSign

\* Outside of the two loops over the open trades only SameSide matters.
LEMMA SideOutside ==
    ASSUME SameSide', phase' \notin {"sizing", "netting"}
    PROVE  SideInvariant'
BY DEF SideInvariant

LEMMA ExecutingSides ==
    ASSUME TypeOK, ClosedIffFlat, SameSide
    PROVE  \A j, k \in Executing :
             /\ trades[k].units \in Int /\ trades[k].units # 0
             /\ trades[j].units > 0 <=> trades[k].units > 0
<1>1. \A k \in Executing : k \in OpenTrades /\ k \in DOMAIN trades
                           /\ trades[k].instrument = orders[current].instrument
  BY DEF Executing, OpenTradesOf, OpenTrades
<1>2. \A k \in Executing : trades[k].units \in Int /\ trades[k].units # 0
  BY <1>1, TradeType DEF ClosedIffFlat, OpenTrades
<1> QED
  BY <1>1, <1>2 DEF SameSide, Ledger!SameSign

LEMMA ExecuteSides ==
    ASSUME TypeOK, SameSide', NEW i \in pending, ExecuteLimitOrder(i)
    PROVE  SideInvariant'
<1>1. /\ phase' = "sizing" /\ size' = 0 /\ units' = orders[i].units
      /\ existing' = OpenTradesOf(orders[i].instrument)
      /\ trades' = trades /\ orders' = orders /\ current' = i
  BY DEF ExecuteLimitOrder, book
<1>2. existing' = Executing'
  BY <1>1 DEF Executing, OpenTradesOf, OpenTrades
<1>3. units' # 0
  BY <1>1 DEF ExecuteLimitOrder, CanExecute
<1> QED
  BY <1>1, <1>2, <1>3 DEF SideInvariant

\* The size so far has the sign of the trades, once there is one.
LEMMA SizeSides ==
    ASSUME TypeOK, CallInvariant, ClosedIffFlat, SideInvariant, SameSide',
           NEW k \in existing, SizeNext(k)
    PROVE  SideInvariant'
<1>1. /\ phase = "sizing" /\ phase' = "sizing" /\ units' = units
      /\ size' = size + trades[k].units /\ Executing' = Executing
  BY DEF SizeNext, book, Executing, OpenTradesOf, OpenTrades
<1>2. trades' = trades
  BY DEF SizeNext, book
<1>3. k \in Executing
  BY <1>1 DEF CallInvariant, Executing, OpenTradesOf
<1>4. \A j \in Executing : /\ trades[j].units \in Int /\ trades[j].units # 0
                           /\ trades[j].units > 0 <=> trades[k].units > 0
  BY <1>3, ExecutingSides DEF SideInvariant
<1>5. /\ units # 0 /\ size \in Int
      /\ size > 0 => trades[k].units > 0
      /\ size < 0 => trades[k].units < 0
  BY <1>1, <1>3 DEF SideInvariant, TypeOK
<1>6. size' # 0 /\ (size' > 0 <=> trades[k].units > 0)
  BY <1>1, <1>3, <1>4, <1>5
<1>7. size' \in Int
  BY <1>1, <1>3, <1>4, <1>5
<1>8. /\ size' > 0 => \A j \in Executing : trades[j].units > 0
      /\ size' < 0 => \A j \in Executing : trades[j].units < 0
  BY <1>3, <1>4, <1>6, <1>7
<1> QED
  BY <1>1, <1>2, <1>5, <1>6, <1>8 DEF SideInvariant

LEMMA ProductSign ==
    ASSUME NEW m \in Int, NEW n \in Int, m # 0, n # 0
    PROVE  m * n < 0 <=> (m > 0 <=> n < 0)
<1>1. CASE m > 0 /\ n > 0
  BY <1>1, SMT
<1>2. CASE m > 0 /\ n < 0
  BY <1>2, SMT
<1>3. CASE m < 0 /\ n > 0
  BY <1>3, SMT
<1>4. CASE m < 0 /\ n < 0
  BY <1>4, SMT
<1> QED
  BY <1>1, <1>2, <1>3, <1>4

\* The product of order and position tells whether they are on opposite sides.
LEMMA StartNettingSides ==
    ASSUME TypeOK, CallInvariant, ClosedIffFlat, SideInvariant, NoOverflow, SameSide',
           NEW nets \in BOOLEAN, StartNetting(nets)
    PROVE  SideInvariant'
<1>1. /\ phase = "sizing" /\ existing = {} /\ phase' = "netting" /\ units' = units
      /\ existing' = IF nets THEN Executing ELSE {}
      /\ Executing' = Executing /\ trades' = trades
  BY DEF StartNetting, book, Executing, OpenTradesOf, OpenTrades
<1>2. nets <=> units * size < 0
  BY <1>1 DEF StartNetting, NetsOutcomes, NoOverflow
<1>3. units \in Int /\ size \in Int /\ units # 0
  BY <1>1 DEF TypeOK, SideInvariant
<1>4. ASSUME NEW k \in Executing
      PROVE  \/ nets /\ Ledger!SameSign(-units, trades[k].units)
             \/ ~nets /\ Ledger!SameSign(units, trades[k].units)
  <2>1. size # 0
    BY <1>1, <1>4 DEF SideInvariant
  <2>2. /\ size > 0 => trades[k].units > 0
        /\ size < 0 => trades[k].units < 0
    BY <1>1, <1>4 DEF SideInvariant
  <2>3. nets <=> (units > 0 <=> size < 0)
    BY <1>2, <1>3, <2>1, ProductSign
  <2> QED
    BY <1>3, <2>1, <2>2, <2>3 DEF Ledger!SameSign
<1> QED
  BY <1>1, <1>4 DEF SideInvariant

\* Netting counts the order down, and never past zero.
LEMMA NetSides ==
    ASSUME TypeOK, CallInvariant, ClosedIffFlat, SideInvariant, SidesKept, SameSide',
           NEW k \in existing, NetNext(k)
    PROVE  SideInvariant'
<1>1. /\ phase = "netting" /\ phase' = "netting" /\ existing' = existing \ {k}
      /\ orders' = orders /\ current' = current
  BY DEF NetNext
<1>2. k \in Executing /\ Executing' \subseteq Executing
      /\ \A j \in Executing' : /\ trades[j].units > 0 <=> trades'[j].units > 0
                               /\ trades[j].units < 0 <=> trades'[j].units < 0
  BY <1>1 DEF CallInvariant, SidesKept, Executing, OpenTradesOf
<1>3. units \in Int /\ trades[k].units \in Int /\ trades[k].units # 0
  BY <1>2, ExecutingSides DEF SideInvariant, TypeOK
<1>4. units = 0 \/ Ledger!SameSign(-units, trades[k].units)
  BY <1>1, <1>2 DEF SideInvariant
<1>5. CASE units' = 0
  BY <1>1, <1>5 DEF SideInvariant
<1>6. CASE /\ Abs(units) >= Abs(trades[k].units)
           /\ units' = units + trades[k].units
           /\ \E u \in Trades : Moved(k, u) /\ Ends(trades[k], u, "call")
  <2>1. k \notin Executing'
    <3>1. k \in DOMAIN trades
      BY <1>2 DEF Executing, OpenTradesOf, OpenTrades
    <3>2. trades'[k].state = "closed"
      BY <1>6, <3>1, MovedTrades DEF Ends
    <3> QED
      BY <3>2 DEF Executing, OpenTradesOf, OpenTrades
  <2>2. units # 0
    BY <1>3, <1>6 DEF Abs
  <2>3. \/ units > 0 /\ trades[k].units < 0 /\ units' >= 0
        \/ units < 0 /\ trades[k].units > 0 /\ units' <= 0
    BY <1>3, <1>4, <1>6, <2>2 DEF Abs, Ledger!SameSign
  <2>4. units' \in Int /\ (units' = 0 \/ (units' > 0 <=> units > 0))
    BY <1>3, <1>6, <2>3
  <2>5. ASSUME NEW j \in Executing'
        PROVE  \/ units' = 0
               \/ j \in existing' /\ Ledger!SameSign(-units', trades'[j].units)
               \/ j \notin existing' /\ Ledger!SameSign(units', trades'[j].units)
    <3>1. j # k /\ j \in Executing
      BY <1>2, <2>1, <2>5
    <3>2. \/ j \in existing' /\ Ledger!SameSign(-units, trades[j].units)
          \/ j \notin existing' /\ Ledger!SameSign(units, trades[j].units)
      BY <1>1, <2>2, <3>1 DEF SideInvariant
    <3>3. /\ trades[j].units > 0 <=> trades'[j].units > 0
          /\ trades[j].units < 0 <=> trades'[j].units < 0
      BY <1>2, <2>5
    <3> QED
      BY <1>3, <2>4, <3>2, <3>3 DEF Ledger!SameSign
  <2> QED
    BY <1>1, <2>5 DEF SideInvariant
<1> QED
  BY <1>5, <1>6, NetNextEffect

\* The new trade takes the side the netting has left.
LEMMA FillSides ==
    ASSUME TypeOK, CallInvariant, ClosedIffFlat, SideInvariant, FillLimitOrder
    PROVE  SideInvariant'
<1>1. /\ phase = "netting" /\ existing = {} /\ units # 0 /\ phase' = "orders"
      /\ units \in Int
  BY DEF FillLimitOrder, NettingDone, OpensTrade, TypeOK
<1>2. \A k \in Executing : Ledger!SameSign(units, trades[k].units)
  BY <1>1 DEF SideInvariant
<1>3. PICK t \in Trades : /\ Appends(t) /\ t.units = units
                          /\ t.instrument = orders[current].instrument
  BY FillLimitOrderEffect
<1>4. \A j \in DOMAIN trades' :
        \/ j \in DOMAIN trades /\ trades'[j] = trades[j]
        \/ trades'[j].units = units /\ trades'[j].instrument = orders[current].instrument
  BY <1>3, AppendedTrades
<1>5. \A j \in OpenTrades' :
        \/ j \in OpenTrades /\ trades'[j] = trades[j]
        \/ trades'[j].units = units /\ trades'[j].instrument = orders[current].instrument
  BY <1>4 DEF OpenTrades
<1>6. \A k \in OpenTrades : trades[k].instrument = orders[current].instrument
        => Ledger!SameSign(units, trades[k].units)
  BY <1>2 DEF Executing, OpenTradesOf
<1>7. SameSide'
  BY <1>1, <1>5, <1>6 DEF SameSide, SideInvariant, Ledger!SameSign
<1> QED
  BY <1>1, <1>7, SideOutside

LEMMA SideStep ==
    ASSUME TypeOK, CallInvariant, ClosedIffFlat, SideInvariant, NoOverflow, [Next]_vars
    PROVE  SideInvariant'
<1>1. CASE FillLimitOrder
  BY <1>1, FillSides
<1>2. CASE ~FillLimitOrder
  <2>1. SidesKept
    BY <1>2, NextEffect, SidesKeptByEffect
  <2>2. SameSide'
    BY <2>1, SameSideKept DEF SideInvariant
  <2>3. ASSUME NEW i \in pending, ExecuteLimitOrder(i)
        PROVE  SideInvariant'
    BY <2>2, <2>3, ExecuteSides
  <2>4. ASSUME NEW k \in existing, SizeNext(k)
        PROVE  SideInvariant'
    BY <2>2, <2>4, SizeSides
  <2>5. ASSUME NEW nets \in BOOLEAN, StartNetting(nets)
        PROVE  SideInvariant'
    BY <2>2, <2>5, StartNettingSides
  <2>6. ASSUME NEW k \in existing, NetNext(k)
        PROVE  SideInvariant'
    BY <2>1, <2>2, <2>6, NetSides
  <2>7. CASE UNCHANGED vars
    BY <2>7 DEF vars, book, call, SideInvariant, SameSide, Executing, OpenTradesOf, OpenTrades
  <2>8. CASE phase' \notin {"sizing", "netting"}
    BY <2>2, <2>8, SideOutside
  <2> QED
    BY <1>2, <2>3, <2>4, <2>5, <2>6, <2>7, <2>8
    DEF Next, Client, Step, CreateLimitOrder, CreateMarketOrder, Place, CancelLimitOrder,
        UpdateTradePrice, UpdateTrailingStopDistance, CloserPosition, ProcessOrders, Return,
        CloseNext, SkipLimitOrder, Visit, LeaveLimitOrder, TriggerStop, SkipStop, TrailStop, call
<1> QED
  BY <1>1, <1>2

\* As long as the product of order and position fits in an int, the open trades
\* of an instrument are all long or all short.
THEOREM OneSided == SafetySpec /\ []NoOverflow => []SameSide
<1>1. Init => SideInvariant
  BY DEF Init, SideInvariant, SameSide, OpenTrades
<1>2. TypeOK /\ CallInvariant /\ ClosedIffFlat /\ SideInvariant /\ NoOverflow /\ [Next]_vars
        => SideInvariant'
  BY SideStep
<1>3. SideInvariant => SameSide
  BY DEF SideInvariant
<1> QED
  BY <1>1, <1>2, <1>3, CallCorrect, PTL DEF SafetySpec

----------------------------------------------------------------------------
(* A fill moves the position by the units of its order                     *)

LEMMA UnitsOfTrades ==
    ASSUME TypeOK, NEW S \in SUBSET DOMAIN trades
    PROVE  IsFiniteSet(S) /\ [k \in S |-> trades[k].units] \in [S -> Int]
<1>1. DOMAIN trades = 1..Len(trades) /\ Len(trades) \in Int
  BY LenProperties DEF TypeOK
<1>2. IsFiniteSet(DOMAIN trades)
  BY <1>1, FS_Interval
<1>3. \A k \in S : trades[k].units \in Int
  BY TradeType
<1> QED
  BY <1>2, <1>3, FS_Subset

LEMMA TotalSplits ==
    ASSUME TypeOK, NEW S \in SUBSET DOMAIN trades
    PROVE  /\ TotalUnits(S) \in Int /\ (S = {} => TotalUnits(S) = 0)
           /\ \A k \in S : TotalUnits(S) = trades[k].units + TotalUnits(S \ {k})
<1>1. ASSUME NEW T \in SUBSET DOMAIN trades
      PROVE  TotalUnits(T) \in Int /\ (T = {} => TotalUnits(T) = 0)
  BY UnitsOfTrades, SumType DEF TotalUnits
<1>2. ASSUME NEW k \in S
      PROVE  TotalUnits(S) = trades[k].units + TotalUnits(S \ {k})
  <2>1. PICK f \in [S -> Int] : f = [j \in S |-> trades[j].units]
    BY UnitsOfTrades
  <2>2. PICK g \in [S \ {k} -> Int] : g = [j \in S \ {k} |-> trades[j].units]
    <3>1. S \ {k} \in SUBSET DOMAIN trades
      OBVIOUS
    <3> QED
      BY <3>1, UnitsOfTrades
  <2>3. IsFiniteSet(S) /\ \A j \in S \ {k} : f[j] = g[j]
    BY <2>1, <2>2, UnitsOfTrades
  <2>4. SumFunction(f) = f[k] + SumFunction(g)
    BY <2>3, SumSplits
  <2> QED
    BY <2>1, <2>2, <2>4 DEF TotalUnits
<1> QED
  BY <1>1, <1>2

\* Only the units of the trades counted matter.
LEMMA SameTotal ==
    ASSUME NEW S, \A k \in S : trades'[k].units = trades[k].units
    PROVE  TotalUnits(S)' = TotalUnits(S)
<1>1. [k \in S |-> trades'[k].units] = [k \in S |-> trades[k].units]
  OBVIOUS
<1> QED
  BY <1>1 DEF TotalUnits

LEMMA PositionIsTotal ==
    ASSUME NEW ins
    PROVE  /\ PositionSize(ins) = TotalUnits(OpenTradesOf(ins))
           /\ PositionSize(ins)' = TotalUnits(OpenTradesOf(ins))'
BY DEF PositionSize, TotalUnits

LEMMA ExecuteSizes ==
    ASSUME TypeOK, NEW i \in pending, ExecuteLimitOrder(i)
    PROVE  SizeInvariant'
<1>1. /\ phase' = "sizing" /\ size' = 0 /\ units' = orders[i].units
      /\ existing' = OpenTradesOf(orders[i].instrument)
      /\ trades' = trades /\ orders' = orders /\ current' = i
  BY DEF ExecuteLimitOrder, book
<1>2. PICK mine : mine = orders[i].instrument
  OBVIOUS
<1>3. PICK S \in SUBSET DOMAIN trades : S = OpenTradesOf(mine)
  BY DEF OpenTradesOf, OpenTrades
<1>4. PositionSize(mine)' = TotalUnits(S) /\ TotalUnits(existing)' = TotalUnits(S)
  BY <1>1, <1>2, <1>3 DEF PositionSize, TotalUnits, OpenTradesOf, OpenTrades
<1>5. TotalUnits(S) \in Int
  BY TotalSplits
<1>6. size' + TotalUnits(existing)' = PositionSize(mine)'
  BY <1>1, <1>4, <1>5
<1>7. orders'[current'].instrument = mine /\ units' = orders'[current'].units
  BY <1>1, <1>2
<1> QED
  BY <1>1, <1>6, <1>7 DEF SizeInvariant

LEMMA SizeNextSizes ==
    ASSUME TypeOK, CallInvariant, SizeInvariant, NEW k \in existing, SizeNext(k)
    PROVE  SizeInvariant'
<1>1. /\ phase = "sizing" /\ phase' = "sizing" /\ units' = units /\ current' = current
      /\ size' = size + trades[k].units /\ existing' = existing \ {k}
      /\ trades' = trades /\ orders' = orders
  BY DEF SizeNext, book
<1>2. PICK mine : mine = orders[current].instrument
  OBVIOUS
<1>3. PICK S \in SUBSET DOMAIN trades : S = existing /\ k \in S
  BY DEF TypeOK
<1>4. TotalUnits(existing)' = TotalUnits(S \ {k}) /\ PositionSize(mine)' = PositionSize(mine)
  BY <1>1, <1>3 DEF PositionSize, TotalUnits, OpenTradesOf, OpenTrades
<1>5. /\ TotalUnits(S) = trades[k].units + TotalUnits(S \ {k})
      /\ TotalUnits(S \ {k}) \in Int
  BY <1>3, TotalSplits
<1>6. size + TotalUnits(S) = PositionSize(mine) /\ units = orders[current].units
  BY <1>1, <1>2, <1>3 DEF SizeInvariant
<1>7. size \in Int /\ trades[k].units \in Int
  BY <1>3, TradeType DEF TypeOK
<1>8. size' + TotalUnits(existing)' = PositionSize(mine)'
  BY <1>1, <1>4, <1>5, <1>6, <1>7
<1>9. orders'[current'].instrument = mine /\ units' = orders'[current'].units
  BY <1>1, <1>2, <1>6
<1> QED
  BY <1>1, <1>8, <1>9 DEF SizeInvariant

LEMMA StartNettingSizes ==
    ASSUME TypeOK, CallInvariant, SizeInvariant, NEW nets \in BOOLEAN, StartNetting(nets)
    PROVE  SizeInvariant'
<1>1. /\ phase = "sizing" /\ phase' = "netting" /\ existing = {} /\ units' = units
      /\ size' = size /\ current' = current /\ trades' = trades /\ orders' = orders
  BY DEF StartNetting, book
<1>2. PICK mine : mine = orders[current].instrument
  OBVIOUS
<1>3. PositionSize(mine)' = PositionSize(mine)
  BY <1>1 DEF PositionSize, OpenTradesOf, OpenTrades
<1>4. TotalUnits(existing) = 0
  BY <1>1, TotalSplits
<1>5. size + 0 = PositionSize(mine) /\ units = orders[current].units
  BY <1>1, <1>2, <1>4 DEF SizeInvariant
<1>6. size \in Int /\ units \in Int
  BY DEF TypeOK
<1>7. units' + PositionSize(mine)' = size' + orders'[current'].units
  BY <1>1, <1>3, <1>5, <1>6
<1>8. orders'[current'].instrument = mine
  BY <1>1, <1>2
<1> QED
  BY <1>1, <1>7, <1>8 DEF SizeInvariant

\* What netting takes off the order it takes off the position.
LEMMA NetSizes ==
    ASSUME TypeOK, CallInvariant, ClosedIffFlat, SizeInvariant, NEW k \in existing, NetNext(k)
    PROVE  SizeInvariant'
<1>1. /\ phase = "netting" /\ phase' = "netting"
      /\ size' = size /\ orders' = orders /\ current' = current
  BY DEF NetNext
<1>2. CASE units' = 0
  BY <1>1, <1>2 DEF SizeInvariant
<1>3. CASE /\ Abs(units) >= Abs(trades[k].units)
           /\ units' = units + trades[k].units
           /\ \E u \in Trades : Moved(k, u) /\ Ends(trades[k], u, "call")
  <2>1. PICK mine : mine = orders[current].instrument
    OBVIOUS
  <2>2. PICK S \in SUBSET DOMAIN trades : S = OpenTradesOf(mine)
    BY DEF OpenTradesOf, OpenTrades
  <2>3. k \in S /\ k \in OpenTrades
    BY <1>1, <2>1, <2>2 DEF CallInvariant, OpenTradesOf
  <2>4. /\ trades[k].units \in Int /\ trades[k].units # 0
        /\ units \in Int /\ size \in Int
    BY <2>3, TradeType DEF ClosedIffFlat, OpenTrades, TypeOK
  <2>5. units # 0
    BY <1>3, <2>4 DEF Abs
  <2>6. /\ DOMAIN trades' = DOMAIN trades /\ trades'[k].state = "closed"
        /\ \A j \in DOMAIN trades \ {k} : trades'[j] = trades[j]
    BY <1>3, <2>2, <2>3, MovedTrades DEF Ends
  <2>7. OpenTradesOf(mine)' = S \ {k}
    BY <2>2, <2>3, <2>6 DEF OpenTradesOf, OpenTrades
  <2>8. PositionSize(mine)' = TotalUnits(S \ {k})'
    BY <2>7, PositionIsTotal DEF TotalUnits
  <2>9. TotalUnits(S \ {k})' = TotalUnits(S \ {k})
    BY <2>2, <2>6, SameTotal
  <2>10. TotalUnits(S) = trades[k].units + TotalUnits(S \ {k}) /\ TotalUnits(S \ {k}) \in Int
    BY <2>2, <2>3, TotalSplits
  <2>11. PositionSize(mine) = TotalUnits(S)
    BY <2>2, PositionIsTotal
  <2>12. units + PositionSize(mine) = size + orders[current].units
    BY <1>1, <2>1, <2>5 DEF SizeInvariant
  <2>13. units' + PositionSize(mine)' = size' + orders'[current'].units
    BY <1>1, <1>3, <2>4, <2>8, <2>9, <2>10, <2>11, <2>12
  <2>14. orders'[current'].instrument = mine
    BY <1>1, <2>1
  <2> QED
    BY <1>1, <2>13, <2>14 DEF SizeInvariant
<1> QED
  BY <1>2, <1>3, NetNextEffect

LEMMA SizeStep ==
    ASSUME TypeOK, CallInvariant, ClosedIffFlat, SizeInvariant, [Next]_vars
    PROVE  SizeInvariant'
<1>1. ASSUME NEW i \in pending, ExecuteLimitOrder(i)
      PROVE  SizeInvariant'
  BY <1>1, ExecuteSizes
<1>2. ASSUME NEW k \in existing, SizeNext(k)
      PROVE  SizeInvariant'
  BY <1>2, SizeNextSizes
<1>3. ASSUME NEW nets \in BOOLEAN, StartNetting(nets)
      PROVE  SizeInvariant'
  BY <1>3, StartNettingSizes
<1>4. ASSUME NEW k \in existing, NetNext(k)
      PROVE  SizeInvariant'
  BY <1>4, NetSizes
<1>5. CASE UNCHANGED vars
  BY <1>5 DEF vars, book, call, SizeInvariant, PositionSize, TotalUnits, OpenTradesOf, OpenTrades
<1>6. CASE phase' \notin {"sizing", "netting"}
  BY <1>6 DEF SizeInvariant
<1> QED
  BY <1>1, <1>2, <1>3, <1>4, <1>5, <1>6
  DEF Next, Client, Step, CreateLimitOrder, CreateMarketOrder, Place, CancelLimitOrder,
      UpdateTradePrice, UpdateTrailingStopDistance, CloserPosition, ProcessOrders, Return,
      CloseNext, SkipLimitOrder, Visit, FillLimitOrder, LeaveLimitOrder, TriggerStop, SkipStop,
      TrailStop, call

\* The trades of a pair after a fill, and those that were open before.
LEMMA FilledTrades ==
    ASSUME TypeOK, CallInvariant, FillLimitOrder
    PROVE  /\ OpenTrades' = OpenTrades \cup {Len(trades) + 1}
           /\ Len(trades) + 1 \notin DOMAIN trades
           /\ trades'[Len(trades) + 1].units = units
           /\ trades'[Len(trades) + 1].instrument = orders[current].instrument
           /\ \A k \in DOMAIN trades : trades'[k] = trades[k]
           /\ trades' \in Seq(Trades) /\ DOMAIN trades' = DOMAIN trades \cup {Len(trades) + 1}
<1>1. PICK t \in Trades : /\ Appends(t) /\ t.units = units
                          /\ t.instrument = orders[current].instrument
  BY FillLimitOrderEffect
<1>2. /\ DOMAIN trades' = DOMAIN trades \cup {Len(trades) + 1}
      /\ Len(trades) \in Nat /\ DOMAIN trades = 1..Len(trades)
      /\ trades'[Len(trades) + 1] = t /\ trades' \in Seq(Trades)
      /\ \A k \in DOMAIN trades : trades'[k] = trades[k]
  BY <1>1, AppendedTrades
<1>3. t.state = "open"
  BY <1>1 DEF Appends
<1>4. OpenTrades' = OpenTrades \cup {Len(trades) + 1}
  BY <1>2, <1>3 DEF OpenTrades
<1> QED
  BY <1>1, <1>2, <1>4

LEMMA FillMovesPosition ==
    ASSUME TypeOK, CallInvariant, SizeInvariant, FillLimitOrder,
           NEW ins \in Instruments, orders[current].instrument = ins
    PROVE  PositionSize(ins)' = size + orders[current].units
<1>1. PICK n : n = Len(trades) + 1
  OBVIOUS
<1>2. /\ OpenTrades' = OpenTrades \cup {n} /\ n \notin DOMAIN trades
      /\ trades'[n].units = units /\ trades'[n].instrument = ins
      /\ \A k \in DOMAIN trades : trades'[k] = trades[k]
      /\ trades' \in Seq(Trades) /\ DOMAIN trades' = DOMAIN trades \cup {n}
  BY <1>1, FilledTrades
<1>3. PICK S \in SUBSET DOMAIN trades : S = OpenTradesOf(ins)
  BY DEF OpenTradesOf, OpenTrades
<1>4. PICK T : T = S \cup {n}
  OBVIOUS
<1>5. OpenTradesOf(ins)' = T
  BY <1>2, <1>3, <1>4 DEF OpenTradesOf, OpenTrades
<1>6. PositionSize(ins)' = TotalUnits(T)'
  BY <1>5, PositionIsTotal DEF TotalUnits
<1>7. TotalUnits(T)' = units + TotalUnits(S)'
  <2>1. IsFiniteSet(T)
    <3>1. IsFiniteSet(S)
      BY UnitsOfTrades
    <3> QED
      BY <1>4, <3>1, FS_AddElement
  <2>2. ASSUME NEW k \in T
        PROVE  trades'[k].units \in Int
    <3>1. k \in DOMAIN trades'
      BY <1>2, <1>4
    <3>2. trades'[k] \in Trades
      BY <1>2, <3>1
    <3> QED
      BY <3>2 DEF Trades
  <2>3. PICK f \in [T -> Int] : f = [k \in T |-> trades'[k].units]
    BY <2>2
  <2>4. PICK g \in [S -> Int] : g = [k \in S |-> trades'[k].units]
    BY <1>4, <2>2
  <2>5. n \in T /\ S = T \ {n}
    BY <1>2, <1>4
  <2>6. f[n] = units /\ \A k \in T \ {n} : f[k] = g[k]
    BY <1>2, <2>3, <2>4, <2>5
  <2>7. SumFunction(f) = units + SumFunction(g)
    BY <2>1, <2>5, <2>6, SumSplits
  <2> QED
    BY <2>3, <2>4, <2>7 DEF TotalUnits
<1>8. TotalUnits(S)' = PositionSize(ins)
  BY <1>2, <1>3, SameTotal, PositionIsTotal
<1>9. units + PositionSize(ins) = size + orders[current].units
  BY DEF FillLimitOrder, NettingDone, OpensTrade, SizeInvariant
<1> QED
  BY <1>6, <1>7, <1>8, <1>9

\* When an order fills, sizing, netting and the new trade together have moved the
\* position by the units of the order, whatever netting did to the trades.
THEOREM FillsMovePosition == SafetySpec => FilledOrderMovesPosition
<1> DEFINE MovesAll == \A ins \in Instruments :
              Fills /\ orders[current].instrument = ins
              => PositionSize(ins)' = size + orders[current].units
<1>1. Init => SizeInvariant
  BY DEF Init, SizeInvariant
<1>2. TypeOK /\ CallInvariant /\ ClosedIffFlat /\ SizeInvariant /\ [Next]_vars
        => SizeInvariant'
  BY SizeStep
<1>3. TypeOK /\ CallInvariant /\ ClosedIffFlat /\ SizeInvariant /\ [Next]_vars
        => [MovesAll]_vars
  <2> SUFFICES ASSUME TypeOK, CallInvariant, ClosedIffFlat, SizeInvariant, [Next]_vars, Fills,
                      NEW ins \in Instruments, orders[current].instrument = ins
               PROVE  PositionSize(ins)' = size + orders[current].units
    OBVIOUS
  <2>1. FillLimitOrder
    BY NextEffect, OnlyFillsOpen
  <2> QED
    BY <2>1, FillMovesPosition
<1>4. FilledOrderMovesPosition <=> [][MovesAll]_vars
  BY PTL DEF FilledOrderMovesPosition
<1> HIDE DEF MovesAll
<1> QED
  BY <1>1, <1>2, <1>3, <1>4, CallCorrect, PTL DEF SafetySpec

----------------------------------------------------------------------------
(* A fill is covered by the net asset value                                *)

MarginOf(k) == CalculateMarginUsed(trades[k].units, BaseRate(trades[k].instrument),
                                   Leverage, One)

LEMMA MarginType ==
    ASSUME NEW n \in Int, NEW rate \in GoodRates
    PROVE  CalculateMarginUsed(n, rate, Leverage, One) \in Int
<1>1. PICK amount \in Int : amount = Abs(n) * One
  BY ConfigAssumption DEF Abs
<1>2. PICK num \in Nat \ {0}, den \in Int : num = rate.num /\ den = rate.den
  BY DEF GoodRates
<1>3. PICK product \in Int : product = amount * den
  OBVIOUS
<1>4. PICK whole \in Int : whole = product \div num
  BY <1>2
<1>5. whole \div Leverage \in Int
  BY ConfigAssumption
<1> QED
  BY <1>1, <1>2, <1>3, <1>4, <1>5 DEF CalculateMarginUsed, InAccountCurrency

LEMMA QuotientReaches ==
    ASSUME NEW n \in Int, NEW d \in Nat \ {0}, NEW q \in Int, q * d <= n
    PROVE  n \div d \in Int /\ q <= n \div d
<1>1. PICK r \in Int : r = n \div d
  OBVIOUS
<1>2. n < (r + 1) * d
  BY <1>1
<1>3. SUFFICES ASSUME r + 1 <= q
               PROVE  FALSE
  BY <1>1
<1>4. 0 <= (q - (r + 1)) * d
  BY <1>3
<1>5. (q - (r + 1)) * d = q * d - (r + 1) * d
  OBVIOUS
<1> QED
  BY <1>2, <1>4, <1>5

\* At a rate at which one unit has a margin, so have more.
LEMMA SomeMargin ==
    ASSUME NEW n \in Int, n # 0, NEW rate \in GoodRates,
           Leverage * rate.num <= One * rate.den
    PROVE  CalculateMarginUsed(n, rate, Leverage, One) > 0
<1>1. PICK num \in Nat \ {0}, den \in Int : num = rate.num /\ den = rate.den
  BY DEF GoodRates
<1>2. PICK m \in Nat \ {0} : m = Abs(n)
  BY DEF Abs
<1>3. PICK unit \in Int : unit = One * den
  BY ConfigAssumption
<1>4. PICK least \in Int : least = Leverage * num
  BY ConfigAssumption
<1>5. 0 < least /\ least <= unit
  BY <1>1, <1>3, <1>4, ConfigAssumption
<1>6. (m - 1) * unit >= 0
  BY <1>2, <1>5
<1>7. m * unit = (m - 1) * unit + unit
  BY <1>2
<1>8. (m * One) * den = m * unit
  BY <1>3, ConfigAssumption
<1>9. PICK product \in Int : product = (m * One) * den
  BY ConfigAssumption
<1>10. Leverage * num <= product
  BY <1>4, <1>5, <1>6, <1>7, <1>8, <1>9
<1>11. PICK whole \in Int : whole = product \div num
  BY <1>1
<1>12. Leverage <= whole
  BY <1>1, <1>9, <1>10, <1>11, QuotientReaches, ConfigAssumption
<1>13. 1 * Leverage <= whole
  BY <1>12, ConfigAssumption
<1>14. 1 <= whole \div Leverage /\ whole \div Leverage \in Int
  BY <1>13, QuotientReaches, ConfigAssumption
<1> QED
  BY <1>1, <1>2, <1>9, <1>11, <1>14 DEF CalculateMarginUsed, InAccountCurrency

LEMMA CoveredFill ==
    ASSUME UnitsCostMargin, TypeOK, CallInvariant, FillLimitOrder
    PROVE  MarginUsed' <= NetAssetValue
<1>1. /\ phase = "netting" /\ units # 0 /\ HasNetAssetValue /\ HasMarginUsed /\ tick' = tick
      /\ CalculateMarginAvailable(NetAssetValue, MarginUsed) >= InitialMargin
  BY DEF FillLimitOrder, NettingDone, OpensTrade, HasMargin
<1>2. /\ tick \in Ticks /\ orders[current] \in LimitOrders
      /\ BaseRate(orders[current].instrument) # None /\ units \in Int
  BY <1>1 DEF TypeOK, CallInvariant, CanExecute, HasMarketInfo
<1>3. PICK n : n = Len(trades) + 1
  OBVIOUS
<1>4. /\ OpenTrades' = OpenTrades \cup {n} /\ n \notin DOMAIN trades
      /\ trades'[n].units = units /\ trades'[n].instrument = orders[current].instrument
      /\ \A k \in DOMAIN trades : trades'[k] = trades[k]
  BY <1>3, FilledTrades
<1>5. PICK S \in SUBSET DOMAIN trades : S = OpenTrades
  BY DEF OpenTrades
<1>6. IsFiniteSet(S)
  BY UnitsOfTrades
<1>7. ASSUME NEW k \in S
      PROVE  /\ MarginOf(k) \in Int
             /\ ProfitLoss(trades[k].price, tick[trades[k].instrument].close,
                           trades[k].units, QuoteRate(trades[k].instrument)) \in Int
  <2>1. k \in OpenTrades /\ k \in DOMAIN trades
    BY <1>5
  <2>2. /\ trades[k].units \in Int /\ trades[k].price \in Int
        /\ trades[k].instrument \in Instruments
    BY <2>1, TradeType
  <2>3. BaseRate(trades[k].instrument) \in GoodRates
    BY <1>1, <1>2, <2>1, AccountRateType DEF HasMarginUsed, BaseRate
  <2>4. QuoteRate(trades[k].instrument) \in GoodRates
    BY <1>1, <1>2, <2>1, AccountRateType DEF HasNetAssetValue, QuoteRate
  <2>5. tick[trades[k].instrument].close \in Int
    BY <1>1, <2>1, <2>2, CloseInCall DEF HasNetAssetValue
  <2> QED
    BY <2>2, <2>3, <2>4, <2>5, MarginType, ProfitLossType DEF MarginOf
<1>8. InitialMargin \in Int
  BY <1>1, <1>2, AccountRateType, MarginType DEF InitialMargin, BaseRate
<1>9. PICK g \in [S -> Int] : g = [k \in S |-> MarginOf(k)]
  BY <1>7
<1>10. MarginUsed = SumFunction(g) /\ MarginUsed \in Int
  <2>1. MarginUsed = SumFunction(g)
    BY <1>5, <1>9 DEF MarginUsed, MarginOf
  <2> QED
    BY <1>6, <2>1, SumType
<1>11. NetAssetValue \in Int
  <2>1. PICK h \in [S -> Int] :
          h = [k \in S |-> ProfitLoss(trades[k].price, tick[trades[k].instrument].close,
                                      trades[k].units, QuoteRate(trades[k].instrument))]
    BY <1>7
  <2>2. SumFunction(h) \in Int /\ balance \in Int
    BY <1>6, SumType DEF TypeOK
  <2>3. NetAssetValue = balance + SumFunction(h)
    BY <1>5, <2>1 DEF NetAssetValue
  <2> QED
    BY <2>2, <2>3
<1>12. PICK T : T = S \cup {n}
  OBVIOUS
<1>13. PICK f : f = [k \in T |-> IF k = n THEN InitialMargin ELSE MarginOf(k)]
  OBVIOUS
<1>14. MarginUsed' = SumFunction(f)
  <2>1. ASSUME NEW k \in T
        PROVE  f[k] = CalculateMarginUsed(trades'[k].units,
                        AccountRate(Base[trades'[k].instrument], tick), Leverage, One)
    BY <1>4, <1>5, <1>12, <1>13 DEF InitialMargin, MarginOf, BaseRate
  <2>2. f = [k \in T |-> CalculateMarginUsed(trades'[k].units,
                        AccountRate(Base[trades'[k].instrument], tick), Leverage, One)]
    BY <1>13, <2>1
  <2> QED
    BY <1>1, <1>4, <1>5, <1>12, <2>2 DEF MarginUsed, BaseRate
<1>15. SumFunction(f) = InitialMargin + SumFunction(g)
  <2>1. IsFiniteSet(T)
    BY <1>6, <1>12, FS_AddElement
  <2>2. n \in T /\ S = T \ {n} /\ f[n] = InitialMargin
    BY <1>4, <1>12, <1>13
  <2>3. f \in [T -> Int] /\ \A k \in T \ {n} : f[k] = g[k]
    BY <1>7, <1>8, <1>9, <1>13, <2>2
  <2> QED
    BY <1>9, <2>1, <2>2, <2>3, SumSplits
<1>16. InitialMargin > 0
  <2>1. PICK rate \in GoodRates : rate = BaseRate(orders[current].instrument)
    BY <1>1, <1>2, AccountRateType DEF BaseRate
  <2>2. /\ orders[current].instrument \in Instruments
        /\ rate = AccountRate(Base[orders[current].instrument], tick) /\ rate # None
    BY <1>2, <2>1 DEF LimitOrders, BaseRate
  <2>3. Leverage * rate.num <= One * rate.den
    BY <1>2, <2>2 DEF UnitsCostMargin
  <2> QED
    BY <1>1, <1>2, <2>1, <2>3, SomeMargin DEF InitialMargin
<1>17. NetAssetValue - MarginUsed >= InitialMargin
  BY <1>1, <1>8, <1>10, <1>11, <1>16 DEF CalculateMarginAvailable
<1> QED
  BY <1>8, <1>10, <1>11, <1>14, <1>15, <1>17

\* Where a unit costs a margin at all, an order fills only when the net asset value
\* covers the margin of all open trades, that of the new one included.
THEOREM FillsKeepMargin == UnitsCostMargin => (SafetySpec => FillsAreCovered)
<1> DEFINE Covers == Fills => MarginUsed' <= NetAssetValue
<1> SUFFICES ASSUME UnitsCostMargin
             PROVE  SafetySpec => FillsAreCovered
  OBVIOUS
<1>1. TypeOK /\ CallInvariant /\ ClosedIffFlat /\ [Next]_vars => [Covers]_vars
  <2> SUFFICES ASSUME TypeOK, CallInvariant, ClosedIffFlat, [Next]_vars, Fills
               PROVE  MarginUsed' <= NetAssetValue
    OBVIOUS
  <2>1. FillLimitOrder
    BY NextEffect, OnlyFillsOpen
  <2> QED
    BY <2>1, CoveredFill
<1>2. FillsAreCovered <=> [][Covers]_vars
  BY PTL DEF FillsAreCovered
<1> HIDE DEF Covers
<1> QED
  BY <1>1, <1>2, CallCorrect, PTL DEF SafetySpec
==============================================================================
