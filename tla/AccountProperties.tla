-------------------------- MODULE AccountProperties --------------------------
(***************************************************************************)
(* The correctness properties of SimulationAccount, and the statements of  *)
(* the repository's comments that its code does not keep.                  *)
(***************************************************************************)
EXTENDS SimulationAccount

\* Every variable has its type; stop orders belong to trades that carry them.
TypeOK ==
    /\ trades \in Seq(Trades)
    /\ orders \in Seq(LimitOrders \cup StopRefs)
    /\ balance \in Int
    /\ phase \in {"idle", "orders", "sizing", "netting", "closing"}
    /\ IF phase = "idle" THEN tick = None ELSE tick \in Ticks
    /\ pending \subseteq DOMAIN orders
    /\ current \in DOMAIN orders \cup {0}
    /\ existing \subseteq DOMAIN trades
    /\ size \in Int /\ units \in Int /\ ticks \in 0..MaxTicks
    /\ \A i \in DOMAIN orders : orders[i] \in StopRefs =>
         /\ orders[i].trade \in DOMAIN trades
         /\ trades[orders[i].trade].protection[orders[i].kind] # None

\* What the ledger records of the trades.
EntryOf(trade) ==
    [instrument |-> trade.instrument, price |-> trade.price,
     open |-> trade.state = "open", units |-> trade.units, realized |-> trade.realized]
Entries == [k \in DOMAIN trades |-> EntryOf(trades[k])]

Ledger == INSTANCE TradeLedger WITH entries <- Entries

\* Through netting loops, stops and closings the account keeps the promise of
\* TradeLedger: no path books a profit twice, flips a trade or revives one.
LedgerSpec == Ledger!Spec

\* The open trades of one instrument are all long or all short: the account
\* never holds both sides, whatever the order of fills and partial closings.
SameSide ==
    \A j, k \in OpenTrades :
        trades[j].instrument = trades[k].instrument =>
            Ledger!SameSign(trades[j].units, trades[k].units)

\* A trade is closed exactly when it has no units left.
ClosedIffFlat ==
    \A k \in DOMAIN trades : trades[k].state = "closed" <=> trades[k].units = 0

\* A listed stop is pending exactly while its trade is open: closing a trade by
\* one stop, by netting or by CloserPosition retires its other stops.
OneCancelsOther ==
    \A i \in DOMAIN orders : orders[i].kind # "limit" =>
        (IsPending(orders[i]) <=> trades[orders[i].trade].state = "open")

\* At most one stop of a trade ever triggers, although the pass visits every
\* stop of its snapshot without asking again whether it is still pending.
OneExit ==
    \A k \in DOMAIN trades, kind, other \in Kinds :
        LET triggered(a) == /\ trades[k].protection[a] # None
                            /\ trades[k].protection[a].state = "triggered"
        IN  triggered(kind) /\ triggered(other) => kind = other

Fills == Len(trades') > Len(trades)

\* A trade is opened only by the execution of an order that was pending when
\* the pass began and that this execution fills: no order opens two trades.
NoSecondFill ==
    [][Fills => /\ orders[current].state = "pending"
                /\ orders'[current].state = "filled"]_vars

\* When an order fills, the loop that sized the position, the loop that netted
\* it and the new trade together moved the position by the order's units.
FilledOrderMovesPosition ==
    [][\A ins \in Instruments :
         Fills /\ orders[current].instrument = ins =>
            PositionSize(ins)' = size + orders[current].units]_vars

\* After a fill the margin of all open trades, the new one included, is covered
\* by the net asset value the order was filled at.
FillsAreCovered == [][Fills => MarginUsed' <= NetAssetValue]_vars

\* The stop price of a trailing stop never moves against its open trade:
\* neither a new tick nor a new distance loosens it.
TrailingStopRatchets ==
    [][\A k \in OpenTrades :
         LET stop == trades[k].protection["trailing_stop"]
             moved == trades'[k].protection["trailing_stop"]
         IN  stop # None =>
               IF trades[k].units > 0 THEN moved.price >= stop.price
                                      ELSE moved.price <= stop.price]_vars

Listed(k, kind) == \E i \in DOMAIN orders : orders[i] = [kind |-> kind, trade |-> k]

\* A candle that holds both the stop loss and the take profit of a trade is
\* counted as the loss: the listed stop loss is visited first.
PessimisticExit ==
    [][\A k \in DOMAIN trades :
         LET takesProfit(t) == /\ t.protection["take_profit"] # None
                               /\ t.protection["take_profit"].state = "triggered"
         IN  /\ Listed(k, "stop_loss")
             /\ ~takesProfit(trades[k]) /\ takesProfit(trades'[k])
             => ~Touched(k, "stop_loss")]_vars

\* Every call of the account returns: its loops end although they change the
\* trades and the list of orders they run over.
EveryCallReturns == phase # "idle" ~> phase = "idle"

OrderBound == 1..(4 * MaxLimitOrders)

\* A stop in the snapshot of a pass whose price lies in the tick's range has
\* its trade closed, by this stop or by whatever came before it in the pass.
TouchedStopsClose ==
    \A i \in OrderBound :
        /\ phase = "orders" /\ i \in pending /\ orders[i].kind # "limit"
        /\ Touched(orders[i].trade, orders[i].kind)
        ~> /\ i \in DOMAIN orders /\ orders[i].kind # "limit"
           /\ trades[orders[i].trade].state = "closed"

----------------------------------------------------------------------------
(* Statements of the comments                                              *)

\* order.hpp:52: a filled order always fully reduces an existing position
\* before opening a new one, so no execution makes an existing trade larger.
ReduceFirst ==
    [][\A k \in OpenTrades : Abs(trades'[k].units) <= Abs(trades[k].units)]_vars

\* order.hpp:30: a pending order is one that awaits execution, so an order that
\* was executed against the existing position is not pending any more.
ExecutedOrderIsNotPending ==
    [][NettingDone /\ units = 0 => orders'[current].state # "pending"]_vars

\* order.hpp:100: the stop loss price is the price the stop loss order will be
\* triggered at: a pending stop loss of an open trade that the tick of a pass
\* touches leads to the end of the trade.
StopLossTriggers ==
    \A k \in 1..MaxLimitOrders :
        /\ phase = "orders" /\ pending = PendingOrders /\ k \in OpenTrades
        /\ trades[k].protection["stop_loss"] # None
        /\ Touched(k, "stop_loss")
        ~> k \in DOMAIN trades /\ trades[k].state = "closed"

----------------------------------------------------------------------------
(* What the loops rely on: the parts of the inductive invariant            *)

\* The open trades a loop has still to visit are of the instrument the call is
\* about, and their profit can be converted at this tick.
CallInvariant ==
    /\ existing \subseteq OpenTrades
    /\ phase \notin {"sizing", "netting", "closing"} => existing = {}
    /\ phase \in {"sizing", "netting"} =>
         /\ current \in DOMAIN orders /\ orders[current] \in LimitOrders
         /\ CanExecute(orders[current])
         /\ \A k \in existing : trades[k].instrument = orders[current].instrument
    /\ phase = "closing" =>
         \A k \in existing : /\ tick[trades[k].instrument] # None
                             /\ QuoteRate(trades[k].instrument) # None

\* The limit orders of the snapshot stay pending until the pass gets to them.
PassInvariant ==
    /\ phase \in {"idle", "closing"} => pending = {}
    /\ \A i \in pending : orders[i] \in LimitOrders => orders[i].state = "pending"
    /\ phase \in {"sizing", "netting"} =>
         current \notin pending /\ orders[current].state = "pending"

\* The stops of an open trade are pending, those listed of a closed one are not,
\* and a trailing stop knows the side of its trade.
StopInvariant ==
    /\ OneExit
    /\ \A k \in OpenTrades, kind \in Kinds :
         LET stop == trades[k].protection[kind]
         IN  stop # None =>
               /\ stop.state = "pending"
               /\ kind = "trailing_stop" =>
                    stop.distance >= 0 /\ stop.side = SideOf(trades[k].units)
    /\ \A i \in DOMAIN orders : orders[i] \in StopRefs =>
         LET trade == trades[orders[i].trade]
         IN  trade.state = "closed" => trade.protection[orders[i].kind].state # "pending"
    /\ \A i \in DOMAIN orders : orders[i] \in LimitOrders =>
         orders[i].protect["trailing_stop"] \in Nat \cup {None}

Executing == OpenTradesOf(orders[current].instrument)

\* The loops see the open trades of the instrument on one side: the sign of the
\* size so far is that of the trades, and netting meets only the other side.
SideInvariant ==
    /\ SameSide
    /\ phase = "sizing" =>
         /\ units # 0
         /\ size > 0 => \A k \in Executing : trades[k].units > 0
         /\ size < 0 => \A k \in Executing : trades[k].units < 0
         /\ size = 0 => existing = Executing
    /\ phase = "netting" => \A k \in Executing :
         \/ units = 0
         \/ k \in existing /\ Ledger!SameSign(-units, trades[k].units)
         \/ k \notin existing /\ Ledger!SameSign(units, trades[k].units)

\* The int product of order and position does not overflow.
NoOverflow == phase = "sizing" /\ existing = {} => ProductFits

\* Of the stops of a trade the stop loss is listed before the take profit, so a
\* pass that gets to the take profit has found the stop loss untouched.
LossesFirst ==
    /\ \A i, j \in DOMAIN orders :
         /\ orders[i].kind = "take_profit"
         /\ orders[j] = [kind |-> "stop_loss", trade |-> orders[i].trade]
         => j < i
    /\ \A i \in pending, j \in DOMAIN orders \ pending :
         /\ orders[i].kind = "take_profit"
         /\ orders[j] = [kind |-> "stop_loss", trade |-> orders[i].trade]
         => ~Touched(orders[i].trade, "stop_loss")

TotalUnits(S) == SumFunction([k \in S |-> trades[k].units])

\* The size so far and the trades still to be counted make up the position, and
\* what netting takes off the order it takes off the position.
SizeInvariant ==
    /\ phase = "sizing" =>
         /\ units = orders[current].units
         /\ size + TotalUnits(existing) = PositionSize(orders[current].instrument)
    /\ phase = "netting" /\ units # 0 =>
         units + PositionSize(orders[current].instrument) = size + orders[current].units

\* A unit of a base currency costs a margin: in the model, which rounds down, it is
\* at least one price increment, at every rate of the price data.
UnitsCostMargin ==
    \A data \in Ticks, ins \in Instruments :
        LET rate == AccountRate(Base[ins], data)
        IN  rate # None => Leverage * rate.num <= One * rate.den
=============================================================================
