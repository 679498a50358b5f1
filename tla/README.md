# A verification project for Iridium

Iridium is a C++ engine that backtests (and is meant to trade) foreign exchange strategies. This directory holds TLA+
modules that model it, TLC configurations that check them on small instances, and proofs for every value of the
constants, checked by TLAPS. File and line references are to the repository.

## 1. Inventory

The numbers in brackets are those of the sections.

| Component | Source | State | Operations |
|---|---|---|---|
| Simulated account (3) | `src/account.cpp`, `include/iridium/account.hpp` | trades ever opened, list of orders, balance | create limit/market order, cancel, close position, move stops, `ProcessOrders` |
| Trade (3) | `src/trade.cpp` | units left, realized profit, open/closed, up to three stop orders | partial close, close, attach/move stops |
| Order (3) | `src/order.cpp` | pending, filled, triggered or cancelled; stop price; trailing distance and side | set state, set price, set distance, trail |
| Forex arithmetic (3, 7) | `src/forex.cpp`, `src/trade.cpp:272-290` | none | profit, margin used/available, margin call, position size |
| Tick data, rates (6) | `src/data.cpp` | HDF5 file, time index per pair and frequency | candle of a tick, history window, account currency rate |
| Search and windows (6, 8) | `include/iridium/algorithm.hpp` | none | binary search, nearest peak, slices |
| Calendar and clock (5) | `src/calendar.cpp`, `calendar.hpp` | current day, end date | next trading day, ticks of a period |
| Strategy (4) | `strategy/src/simulate.cpp` | none (reads the account) | open on a crossover, close on the opposite one |
| Position sizing (7) | `strategy/src/position.cpp` | none | units of a market order |
| Indicators (8) | `strategy/src/indicator.cpp` | none | series of TA-Lib aligned with their candles, cross overs, peaks |
| Backtest application (4, 6) | `apps/main.cpp` | the nested clock ticks | per tick: strategy per pair, then `ProcessOrders` |
| Live trading (9) | `live-trading/*` | shared maps of candles, account details | poll with a thread pool, fetch details, place orders over the broker's API |
| Report, logging, strings | `csv.hpp`, `logging.cpp`, `util.cpp` | none | output |

**How they interact.** The backtest is one thread. Per tick it calls the strategy once for every pair that has a candle,
and the strategy reads the account (`HasPendingOrders`, `HasOpenTrades`, `open_position_size`) and calls it
(`CreateMarketOrder`, `CloserPosition`). Then the backtest calls `ProcessOrders` with the candles of all pairs. The
account shares `Trade` and `Order` objects with its caller through `shared_ptr`: a stop order is owned by a trade and
listed by the account, and settling a trade changes the stops that the account's running loop has still to visit. The
live trading program replaces the simulated account by an HTTP client and fills its tick data from a thread pool.

**What is hard.** There is no concurrency in the backtest; in the account the difficulty is in loops that change what
they run over. `ProcessOrders` walks a snapshot of the pending orders and does not look at their state again; executing
one order closes trades, which cancels stops that are later in the snapshot, and opens trades, whose stops join the list
but not the snapshot. The netting loop closes trades one by one and counts down the order, before the margin is checked
and without undoing anything when the check fails. Stops are attached and moved by the client between passes. Data can
be missing for any pair at any tick, and profits are converted at the tick of another pair. The data reader is made of
off-by-one decisions: a file that descends in time, searches in it, windows that are read with one candle too many and
lose one after sorting. In the live program threads insert into shared maps without a lock, every request may fail in
two ways, and the account changes between a request and the decision that uses its answer.

**What makes each component correct.**
- *Account, trade, order*: a trade is entered once, settled without changing sides, frozen when closed; the balance is
  what trades realized; one order opens at most one trade and moves the position by its units; one stop ends a trade and
  no stop outlives it; positions are one-sided; new positions are covered by margin; trailing stops never loosen; calls
  return. (Section 3.)
- *Search, windows, data reader*: every stored time is found and no other; lookups return what they promise; the windows
  of a tick end before it, miss nothing of the past, and a gap costs one long tick. (Section 6.)
- *Calendar*: each trading day of the period exactly once, ticks that increase and fall in open hours. (Section 5.)
- *Strategy and backtest*: at most one open trade and one pending order per pair; a market order is executed at its tick
  whenever its margin can be computed and suffices; open trades stay protected; the program ends. (Section 4.)
- *Position sizing*: the risk and the margin bound the units; their side is that of the signal. (Section 7.)
- *Indicators*: series are aligned with their candles; searches find the nearest. (Section 8.)
- *Live trading*: no decision on half of the data of a pair or on details from before an order; rounds end. (Section 9.)

## 2. Plan

1. `Forex`, `SimulationAccount`, `TradeLedger`, `AccountProperties`, `MCSimulationAccount` with the proofs in
   `AccountProofs`: section 3. Done.
2. `Backtest`, `MCBacktest`, `BacktestProofs`: the loops of `apps/main.cpp` and the decisions of `simulate.cpp` as the
   client of the account; `Backtest` extends `SimulationAccount` and adds its own variables. Section 4. Done.
3. `Calendar`, `MCCalendar`, `CalendarProofs`: the day iterator and the clock. Section 5. Done.
4. `BinarySearch`, `TradeData`, `History` (the abstract specification), then `BacktestData`, in which the loops of the
   backtest call `History`: section 6. Done, with `TradeDataProofs` and `BacktestDataProofs`.
5. `PositionSizing`, `PositionSizingProofs`: section 7. Done.
6. `Indicators`, `MCIndicators`, `IndicatorProofs`: section 8. Done.
7. `LiveTrading`, `MCLiveTrading`, `LiveTradingProofs`: section 9. Done.
8. Every safety property of the passing runs is proved (section 10). Liveness stays with TLC.

## 3. The simulated account

### Modules

| Module | What it holds |
|---|---|
| `Forex` | the money arithmetic of `forex.cpp` |
| `SimulationAccount` | the account with its trades and orders: constants, state, one action per operation and per loop iteration |
| `TradeLedger` | the abstract specification: what an account promises about its trades and its money |
| `AccountProperties` | the properties, the refinement mapping to `TradeLedger`, the parts of the inductive invariant |
| `MCSimulationAccount` | small instances for TLC |
| `AccountProofs` | lemmas about operators and actions; the invariants and the theorems |

### State and actions

`trades` is `trades_ptr_`, `orders` is `orders_ptr_`, `balance` is `balance_`. A `Trade` is a record that contains its
stop orders, as in the code; the list `orders` holds limit orders by value and stop orders as a reference to their
trade, which models the object shared through `shared_ptr`. Trade and order ids become positions in the two lists.

A call of the account runs to its end before the next one begins, but it is not one step: `phase` names the loop that
the running call is in, and every iteration of a loop is an action.

| `phase` | Code | Steps |
|---|---|---|
| `idle` | between calls | `CreateLimitOrder`, `CreateMarketOrder`, `CancelLimitOrder`, `UpdateTradePrice` (stop loss, take profit), `UpdateTrailingStopDistance`; `CloserPosition` and `ProcessOrders` begin a loop |
| `closing` | `CloserPosition` | `CloseNext`, `Return` |
| `orders` | the loop of `ProcessOrders` over its snapshot `pending` | `SkipLimitOrder`, `ExecuteLimitOrder`, `TriggerStop`, `TrailStop`, `SkipStop`, `Return` |
| `sizing` | `open_position_size` within `ProcessLimitOrder` | `SizeNext`, `StartNetting` |
| `netting` | the loop over the opposite trades | `NetNext`, then `FillLimitOrder` or `LeaveLimitOrder` |

`size` and `units` are the local variables `existing_units` and `order_units`; `tick` is the `TickDataMap` argument.

Abstractions:
- *Prices and money* are integers: `One` increments are the price 1.0. The code uses `double`; a quotient is rounded
  down here. A rate is kept as a fraction, because the code multiplies by it in one place and divides by it in others.
  No property depends on the rounding: those that compare amounts compare the same computation at two states.
- *`int`* products are exact as long as they fit in `-(IntMax+1)..IntMax`; beyond that the outcome of the test on the
  product is either one (signed overflow is undefined). TLC uses a small `IntMax`; the build has 2^31 - 1.
- `None` is `std::nullopt` and the null pointer. A rate is `None` when the tick lacks the pair it is computed from.
- Left out: ids, times, closing price, time in force, expiry, trigger condition (stored and never read by the account),
  the summary, and the order-state counters of the report.
- Operators called `...Mutant` are wrong variants of the definition below them, used only to show that a property
  notices the difference.

The client is free: it makes the calls of the public interface in any order with any of the given arguments, and may
hold an order or a trade from the past. The one client the repository has is modelled in section 4.

### Properties and runs

Bounds: `MaxLimitOrders` limit orders are ever created and `ProcessOrders` is called `MaxTicks` times. Requests and
ticks are the small sets of `MCSimulationAccount`.

| Run | Instance | Shows | States |
|---|---|---|---|
| `account_netting` | two pairs quoted in other currencies than the account's, orders of +2 (with a stop loss), -3 and -1 units, 3 orders, 2 passes, either pair may lack its candle | `TypeOK`, `SameSide`, `ClosedIffFlat`, `OneCancelsOther`, `FillsAreCovered`, `LedgerSpec`, `NoSecondFill`, `FilledOrderMovesPosition` | 1.35 M |
| `account_stops` | one protected order, 3 passes, the client moves, attaches and re-distances stops | `OneExit`, `TrailingStopRatchets`, `PessimisticExit`, `TouchedStopsClose`, `EveryCallReturns` | 41 k |

Three orders are the fewest with which an order meets two trades of the other side (two orders on one side, then a
third), so that the netting loop both closes one trade and reduces another; two passes let an order left pending by the
first be executed by the second, and a trade that was opened by the first be stopped. Two pairs let a tick have the
candle of the trade and lack the rate of the other, and keep the loops that look at all trades from holding by the
absence of others. A capital of 22 at a leverage of 2 lets small positions be opened and makes larger ones fail the
margin check after the netting has happened. In `account_stops` one candle holds stop loss and take profit of a trade at
once, one moves the market far enough for the trailing stop to follow, and the third lies on neither; three passes open,
trail and exit. Liveness is checked there and not in `account_netting`, whose graph is too large for it: that the
netting loop ends is not checked as a temporal property, but is plain from `NetNext`, which removes a trade from a
finite set.

### Where code and comments disagree

Three runs expect a violation. Each states one sentence of the repository and TLC shows an execution of the code that
breaks it.

| Run | Statement | What the code does |
|---|---|---|
| `reduce_first` | order.hpp:52, a fill reduces the existing position first | `account.cpp:413` passes the order's units, whose sign is opposite to the trade's; the trade grows |
| `executed_order` | order.hpp:30, pending means awaiting execution | an order used up by netting returns at `account.cpp:418` with its state still pending |
| `late_stop_loss` | order.hpp:100, the stop loss triggers at its price | `trade.cpp:204` attaches the order to the trade, not to the list `ProcessOrders` walks |

Because of the first of them, `FilledOrderMovesPosition` says only what does hold: when the order *fills*, the position
has moved by its units. An order that is absorbed by a larger trade does not fill.

Two more things a reader of the code should know, for which no run is kept. `account.cpp:407` multiplies two `int`s:
from 46341 units on both sides the product may overflow, netting may be skipped and the account then holds both sides
(`OneSided` assumes `NoOverflow` for that reason). And `forex.hpp:57` describes a closeout at half the margin used, but
nothing calls `CheckMarginCall`.

### Fairness

`Spec` has weak fairness of `Step` and of nothing else: the program is one thread, so a call that began continues, and
nobody has to make another call. `EveryCallReturns` and `TouchedStopsClose` need it; so does `StopLossTriggers`, whose
counterexample is therefore not a program that merely stopped.

## 4. The backtest

`Backtest` extends `SimulationAccount`: the same account, driven by the loops of `apps/main.cpp` and by the strategy
instead of a free client. `MCBacktest` holds its instances and `BacktestProofs` its theorems.

### State and actions

`stage` names the loop the program is in: `long`, `intermediate`, `short` and `simulate` are the four nested loops,
`strategy` the loop over `simulate_data_map`, `account` the call of `ProcessOrders` at its end. `at` counts the
iterations (`*it`, `i`, `j`, `k`), `data` is `simulate_data_map`, `todo` holds the pairs whose `SimulateTrade` is still
to come, in the order of the map (`Rank`). `ordered` is for observation only.

- `Enter` and `LeaveLoop` move between the loops. `Abandon` is the `std::out_of_range` of a pair without a candle, which
  is caught around the body of the outermost loop: everything of that long tick that is still to come is skipped.
  `Crash` is the exception of the HDF5 library for a window that reaches back beyond the file, which nothing catches.
  Any window may be missing or too short here; which ones are, and when, is the subject of section 6.
- `ReadTick`, one decision per pair (`Hold`, `TakePosition`, `ClosePosition`), `RunOrders`, the steps of the account,
  `NextTick`.
- `TakePosition` keeps the guards that depend on the account (`TakesPosition`, `RateIsKnown`, `MarginIsKnown`) and the
  form of the order: at the close of the tick, the stop loss on the losing side, the take profit three times as far on
  the other. Which crossover the indicators see, the distance of the stop and the units are any of `Requests`. A client
  call that starts a loop (`ClosePosition`) runs to its end before the next decision.

The run `backtest` (96 k states) has a cross and the two pairs that its profit and its margin are converted at, in two
long windows of three ticks each, of which a tick may lack a pair; it checks `OnePosition`, `TradesAreProtected`,
`TradesNeverGrow`, `FreshOrdersExecute` and `Terminates`. `MaxTicks` is the number of ticks of the instance and bounds
nothing. `MaxLimitOrders` is 3: a position, its successor and one more. `IntMax` is 2, which no product of an order and
a position fits in: an order that met a position could leave it as it is (`account.cpp:407`). A capital of 30 covers
some orders at one price and not at the other, so that an order may stay pending over several ticks and be executed
later, at a price the strategy did not see. Ticks without the pair that the margin is converted at are the one reason
for which a fresh order is passed over.

What the run shows: the two separate tests of the strategy keep a pair at one order or trade, although an order may wait
for any time; hence an order never meets an opposite trade, the netting of `ProcessLimitOrder` with its wrong sign
(`reduce_first`) is out of the strategy's reach, and no trade ever grows. Every open trade is protected by stops that
the passes see, also when a window is abandoned in the middle. A market order's own price, half a spread off the close,
is in the range its tick compares it with. The loops end whatever history is missing.

**Fairness.** `BSpec` has weak fairness of its whole next-state relation: the program is one thread that runs until it
ends. Nothing is assumed about any choice (a missing window, a signal). `CHECK_DEADLOCK` is off here and in section 5
because these programs end.

## 5. The clock

`Calendar` models `calendar.cpp` and the clock of `calendar.hpp`. Days are numbered from a Monday; times are UTC. `cur`
is the day iterator, `starts` is `trade_start_times`, `pos` the position of `Clock::Iterator`. `Seek` is the iteration
of the two `do while` loops, `Found` their end, `Collect` one round of `trade_start_times_ptr`, in which the start is
pushed before the iterator finds out that its period is over (`PastEnd`, the `std::out_of_range` that ends the
collection), `Tick` one of `all_ticks_ptr`. `NewYorkDate` converts the midnights of the region (Sydney in `main.cpp`) to
dates in New York. The time zone data is reduced to the days with daylight saving time, under the assumption that clocks
change on Sundays; the holidays are any set of days.

The run `calendar_periods` (15 k states) takes every period that begins and ends within four weeks with holidays on a
Wednesday, a Friday, a Saturday and a Sunday and with both changes of the clocks, at three ticks a day: the ticks
increase (`TicksIncrease`), none falls in closed hours (`MarketIsOpen`), every tick of every trading day of the period
is given, and those of one trading day after it (`VisitsEveryTradingDay`), and the loops end (`ClockRunsOut`, under weak
fairness of the one thread). That one more day is visited follows from the order of the push and the test; nothing in
the repository says whether it is meant.

## 6. The price history

| Module | What it holds |
|---|---|
| `BinarySearch` | the recursive search of `algorithm.hpp`, one step per call |
| `TradeData` | the lookups of `data.cpp`: time index, row arithmetic, reads, sorting, failures |
| `History` | the abstract specification of a lookup: what is promised, by times, in one step |
| `BacktestData` | the four nested loops of `main.cpp`, each calling `History` |

A candle is known by its time and a dataset, of a pair and a time frame, by the list of its times, newest first as in
the file. `TradeData` extends `BinarySearch`: a lookup begins a search for each of its datasets (two for a date range),
and every call of the recursion is a step. `Start` and `Count` are `data_start` and `data_count`, `CanRead` is whether
the HDF5 library can select those rows, `Rows` the read and the `std::sort` after it; `Read` drops the newest candle of
a window, as `history_data` does. `Throw` is an exception: `candlestick_data` catches any of its loop body and enters no
candle, the two others let it out, as `out_of_range` or as the library's own exception (`crashed`).

`History` knows sets of times and no rows: a window is the `count` newest times *before* the tick, a range has both its
ends, and the first dataset that fails decides the outcome. `ImplementsHistory` says that the reader refines it, with
the searches and the reads as stuttering steps, and that every lookup ends.

| Run | Instance | Shows | States |
|---|---|---|---|
| `history_lookups` | every file of two pairs with any of four candles; every candle, window of 0 to 3 candles, or range | `EntriesAscend`, `ImplementsHistory`, `FindsWhatIsThere`, `ReadsInside` | 51 k |
| `backtest_history` | two long ticks of 8 simulated ones, two pairs; a history with any one or two gaps, or one dataset that begins late | `NoLookAhead`, `WindowsAreCurrent`, `TimeMovesForward`, `CrashesOnlyAtTheStart`, `GapsCostALongTick` | 346 k |

Lists of none to four rows have every way in which a binary search of three levels can end, at both ends and outside of
them; windows that fit exactly, by one more and by one less are among them. In `backtest_history` each frame has two
iterations of the next, so that a gap can hit the first and a later one of every loop, two gaps can hit two frames or
two pairs, and a late beginning can fall before, on and after the first tick. `kHistDataCount` is 1: a window that is
one candle too long or too late is seen at any count.

What the runs show: no candle of a window ends after the tick that is simulated, and no ended candle is missing,
although the windows of the coarser frames are filled once per loop and used until its end. A missing candle of one pair
costs the rest of its long tick for all pairs and nothing more. Too little history ends the program only while the frame
has not yet had a window: a window that was filled once is filled at every later tick, because time moves forward and
the history before a tick only grows.

What is assumed: a date range has `begin <= end` (no caller of the repository asks otherwise); no two candles of a
dataset overlap, nor do two long ticks (`SpacingAssumption`), which is what the theorems about `Calendar` give for the
clock; a time frame is divided into the next (`FrameAssumption`), as the triple screen settings in `main.cpp` are.

**Fairness.** `DSpec` has weak fairness of the steps of a lookup, `History` of its answer: a lookup runs to its end in
one thread. A deadlock is not an error in these two runs, because a crashed program stops.

## 7. Position sizing

`PositionSizing` computes the units of a market order from the situation it is asked in: `CalculateMarketOrderUnits`,
`CalculatePositionSize` and `CalculateStopLossPositionSize` as operators, and a single action. Quotients are exact until
the code rounds them; where it does (`std::round` of the pips, `floor` of the units, the conversion to `int`) the model
does. A `double` that no `int` can hold converts to the least `int` (x86-64) or to the nearest one (ARM), a stop loss at
the order price divides by no pips, and the absolute value of the least `int` may be itself: `ToInt`, `RiskSizes` and
`Magnitudes` are the sets of what may result.

The run `position_units` (80 k states) takes equities from far in debt to where an `int` of 60 overflows, margins used
up to more than the equity, stop losses from none to many pips on both sides of the price, and any two of several rates
on both sides of one: `UnitsAreTradable`, `StoppedLossIsBounded`, `OrderHasMargin`.

The sizing caps units by the order price and the rate of the quote currency; the account asks for the margin with the
rate of the base currency (`account.cpp:421`). Each rate comes from the candle of a pair of its own
(`account_currency_rate`), so that for a cross the two rates imply a price of the pair, `ImpliedPrice`, that need not be
its close: nothing is assumed about it, and `rate` and `baseRate` are independent inputs. `OrderHasMargin` says that the
margin asked for exceeds what is available by no more than the implied price exceeds the order's, on either side. For a
pair with the account currency (`OwnRates`) the implied price is the close; a long order is priced above it and has its
margin, a short order is priced at the bid and may miss it by half a spread. An order that misses its margin stays
pending.

A few things follow from the code and are not findings, since nothing in the repository says otherwise. The loss at the
stop loss may be one and a half times the risk percentage, because the distance is rounded to whole pips first; of a
distance that rounds to no pips, or a size that no `int` holds, `StoppedLossIsBounded` says nothing. `position.hpp:50`
calls margin available the parameter that its caller fills with the margin used. `abs` of `position.cpp:55` is taken to
be the one for its type.

## 8. Indicators

`Indicators` has the two series of moving averages as TA-Lib may leave them (values in front, zeros behind), aligns them
with the candles (`ProcessOutputData`), and runs the three searches one iteration per step: the newest cross over
(`CheckMACrossOver`), the nearest peak before it (`FindNearestPeakHigh`), the highest price after it. The values that
TA-Lib computes are any. Lows are highs of the negated prices. `indicator_searches` (1.1 M states) takes up to five
candles with any highs of three values, averages that begin late, touch and cross, and windows of three and five:
`CrossIsNearest` (which includes that the series are aligned), `PeakIsNearest`, `HighestIsAfterTheCross`.

Two averages that are equal at one candle hide a cross over: the code compares neighbouring candles only.
`CrossIsNearest` says what is seen. A cross over at the newest candle has no candle after it, and `*std::max_element` of
an empty slice is read: `Undefined` in the model. Lists too short for a peak throw (`out_of_range`). The three searches
are called by no program of the repository but its tests; `market_impulses` by nothing.

## 9. Live trading

`LiveTrading` is the loop of `live-trading.cpp` with the parts of `apiclient.cpp` it calls. `stage` is where the main
thread is, `worker` where the thread of each pair is. An insert into a shared map is two steps (`BeginTick`, `EndTick`;
`BeginHistory`, `EndHistory`): it walks the map, then links its entry. Inserts of two threads into one map that overlap
are a data race, after which the tree may be torn (`raced` has the place of the insert): any of its entries may be lost,
and what is left is whole, because a node is complete before it is linked. A torn tree may also hold a bad pointer or a
cycle, so that an insert ends the program (`CrashInInsert`) or never ends (`HangInInsert`); the loop of `main` over the
map may miss entries, see them again, not find them, die or run for ever (`Remaining`, `UseTornMap`). Every request is
answered, refused (another status) or throws; a refused request of candles leaves an empty list whose last element is
read all the same, which is modelled as the end of the program. `Fetched` is what `FetchAccountDetails` leaves behind:
details of the moment, or none. An order whose request throws may have arrived.

`live_rounds` (467 k states) runs two rounds with three pairs: two threads may overlap and a third come before or after,
and a second round starts with what the first has left. `MaxOrders` is 6, one per pair and round: it stops only what a
loop over a torn map repeats.
- `DecisionsHaveTheirData`: whatever races and failures have cost, a pair is only traded with its newest candle as the
  tick and all others as its history, and no thread still writes to the maps while the strategy reads.
- `DetailsAreFresh`: the details that a decision uses include all orders sent before it, or there are none. The strategy
  does not ask whether there are: it finds no rate for an account whose currency is empty, and orders nothing.
- `RoundEnds`: a round in which no inserts overlap ends, with the next sleep or with the program, whichever requests are
  refused or fail. The fairness is weak, of the main thread and of every thread of the pool: threads run on, and a
  request is answered or times out. Nothing is claimed of a round whose inserts overlap: a torn map may hold it for
  ever.

At this commit the program does not compile: `Oanda` lacks `CreateMarketOrder`, and `live-trading.cpp` calls
`SimulateTrade` with other arguments than it has. The model takes the request of `CreateLimitOrder` for an order.
`HasOpenTrades` and `HasPendingOrders` always answer false (a TODO), so that `CloserPosition` and `CloseTrade` are never
reached and are left out, and the strategy may order in every round.

## 10. Proofs

### The account

All theorems are of `SafetySpec`, which is `Spec` without its fairness and follows from it, with every constant
arbitrary, under the four named assumptions of `SimulationAccount`: `ConfigAssumption` (the numbers are numbers,
leverage and `One` positive), `NoneAssumption` (`None` is no value of another kind), `DataAssumption` (a candle has
0 < low <= close <= high), `ClientAssumption` (requests are well-typed and trailing distances not negative). No bound on
trades, orders, pairs or ticks is assumed.

The first part of `AccountProofs` reduces the actions to what they do to the book. Its lemma `NextEffect` says that a
step, whichever of the nineteen actions it is, does one of five things (`Effect`): nothing to trades and balance; it
ends one open trade, settling all its units; it reduces one without ending it; it rearranges the stops of a trade; or it
appends one new trade. Every invariant about trades is then proved from five cases instead of nineteen.

| Theorem | Statement |
|---|---|
| `TypeCorrect` | `TypeOK` |
| `FlatTradesAreClosed` | `ClosedIffFlat` |
| `ImplementsLedger` | `LedgerSpec`: the account refines `TradeLedger` |
| `OneStopTriggers` | `OneExit` |
| `StopsOfClosedTradesRetire` | `OneCancelsOther` |
| `OrdersFillOnce` | `NoSecondFill` |
| `TrailingStopsRatchet` | `TrailingStopRatchets` |
| `LossComesFirst` | `PessimisticExit` |
| `FillsMovePosition` | `FilledOrderMovesPosition` |
| `FillsKeepMargin` | `FillsAreCovered`, provided `UnitsCostMargin` |
| `OneSided` | `SameSide`, provided `[]NoOverflow` |

The inductive invariants behind them:
- `TypeOK /\ CallInvariant /\ ClosedIffFlat` (`CallCorrect`). Types depend on `CallInvariant`: a missing rate is no
  number, so one must know that a loop that settles trades has the candle and the rate it needs. That a loop settles
  only *open* trades needs that the trades it has still to visit are disjoint from those it closed, and that each is of
  the instrument the call is about. `ClosedIffFlat` needs both and gives back that an open trade has units to settle.
- `StopInvariant` (`StopsCorrect`): stops of open trades are pending, listed stops of closed trades are not. `OneExit`
  alone is not inductive, because `TriggerStop` does not look at the stop's state; that a closed trade is flat, hence
  never touched, is what saves it.
- `PassInvariant` (`PassCorrect`): limit orders of the snapshot stay pending until visited. `ProcessLimitOrder` does not
  test the state either; `NoSecondFill` holds because nothing else changes a limit order during a pass.
- `TrailingStopRatchets`: each of the five effects moves a trailing stop forward, seen from the side stored in the stop,
  or not at all (`Forward`); `StopInvariant` adds that this side is the side of its trade and that no distance is
  negative.
- `SideInvariant`: outside of `ProcessLimitOrder` the open trades of a pair have one side; inside it, the sum of the
  trades visited has the sign of the position, the trades still to be netted are on the other side of the order, and
  what is left of the order has its sign. `SameSide` is not inductive because the fill tests nothing; it relies on the
  netting loop having closed every trade of the other side. `NoOverflow` says that the product of order and position
  size fits in an `int` when the order begins to net. Without it the property is false: TLC finds both sides held when
  `IntMax` is small.
- `LossesFirst`: of the stops of a trade the stop loss is listed before the take profit, and while the take profit is
  still to be visited a stop loss that was visited is untouched. The first part holds because stops join the list when
  their trade is opened and in that order; the second because what happens to a trade after its stop loss was visited
  either leaves price, side and tick alone or closes it. A stop that the client attaches later is in no list: hence the
  condition `Listed` of the property.
- `SizeInvariant`: while the position is sized, the size so far and the trades still to be counted make up the position;
  while it is netted, what is left of the order and the position add up to the size and the order's units. Closing a
  trade takes from the position what it takes from the order. The wrong sign of a partial closing breaks this, but then
  nothing is left of the order: hence the invariant speaks of `units # 0` only, and the property of orders that fill.
- Sums over the open trades are `SumFunction` of the community modules, which takes one element after the other out of
  the domain. That the recursive function it is defined by exists is proved once, by induction on the number of elements
  (`SumUpTo`, `SumExists`), then that the order does not matter (`SumTakesAny`) and that a sum splits at any element
  (`SumSplits`). The induction goes by the well-foundedness of the natural numbers (`NatLessThanWellFounded` and
  `WFMin`), since the library's induction theorem takes an operator.
- `FillsAreCovered` needs no invariant of its own: a fill splits the new margin off the sum. It needs that units cost a
  margin at all, because `CalculateMarginAvailable` is zero for an account in debt, which covers a margin of zero. The
  code computes the margin in `double`, where it is positive; the model rounds it down to whole price increments, where
  it might be zero. `UnitsCostMargin`, a condition on the constants, excludes that: at every rate of the price data one
  unit of a base currency costs at least as many increments as the leverage. It is true of all instances that TLC runs,
  and of increments as small as those of real prices: one yen, at 150 to the dollar and a leverage of 50, needs 7500 of
  them in 1.0, and there are 100000.

### The backtest

The theorems are of `BSpec`, under the same assumptions and `LoopAssumption`. A step of the backtest is a step of the
account or leaves it alone (`BacktestCallsAccount`): the backtest implements `SafetySpec`, and the theorems about the
account are theorems about the backtest.

| Theorem | Statement |
|---|---|
| `StrategyHoldsOnePosition` | `OnePosition` |
| `StrategyNeverEnlarges` | `TradesNeverGrow` |
| `PositionsAreProtected` | `TradesAreProtected` |
| `FreshOrdersAreExecuted` | `FreshOrdersExecute` |
| `BacktestIsAClient` | `SafetySpec` |
| `AccountKeepsPromises` | `LedgerSpec`, `OneCancelsOther`, `OneExit`, `NoSecondFill`, `FilledOrderMovesPosition`, `TrailingStopRatchets`, `PessimisticExit` |
| `StrategyHoldsOneSide` | `SameSide`, without `NoOverflow` |

- `AtMostOne`: a pair has at most one pending order or open trade, and when the pass executes its order it has no open
  trade. So the loops over existing trades have nothing to visit: no netting step is enabled, which is
  `TradesNeverGrow`.
- `AskForExits` (every pending order asks for a stop loss and a take profit) and `ExitsListed` (those of open trades are
  in the list), together with `StopInvariant`, give `TradesAreProtected`.
- `Fresh`: while pairs are ordered the tick is not over and the pass reads the candles that the strategy read
  (`OneTick`), and the pending order of an ordered pair has the price a market order gets at this tick
  (`OrderedAtMarket`). Since low <= close <= high, that price is in the range the pass compares it with
  (`AtMarketExecutes`); the strategy has tested the quote rate, so that only the base rate can be missing.

### The clock

The theorems are of the specification of `Calendar` for every set of holidays, every period and every `Freq` that
divides the day. `TimeMovesForward`, `MarketIsOpenAtTicks` and `EveryTradingDayIsVisited` state the three invariants of
the run, and `ClockTypeCorrect` the types. `CalendarInvariant` says what the lists hold while they are being filled:
starts are starts of trading days (`StartsOfTradingDays`), a day's length or more apart (`Spaced`), the last of them
behind the iterator (`LastStart`), none left out (`Collected`), and a tick is what the clock computes from them
(`TicksOfClock`). The argument rests on `DayBefore`: because clocks change on Sundays, a trading day starts exactly when
the day before closes.

### The price history

`TradeDataProofs` first proves the search by itself (`SSpec`), for sorted lists of any length in either direction.
`SearchInvariant` adds to the types that the list is sorted and that the value is nowhere outside of the bounds
(`Enclosed`), without which `FindsWhatIsThere` is not inductive. `SearchHalves` bounds the depth of the recursion; the
search alone is not a run of its own, since it runs within `history_lookups`.

The rest of `TradeDataProofs` is about the reader (`DSpec`), for every file whose datasets descend in time
(`FileAssumption`) and every lookup (`LookupAssumption`), with `NoEntryAssumption` that no entry is no list of candles.
It has three parts.
- Rows: in a list that descends, the times before that of a row are those of the rows after it (`RowsBefore`), so that
  counting times is counting rows (`SliceSize`, `WindowRows`, `ReachesRows`, `RangeRows`); and sorting a slice gives its
  times in ascending order, the newest one last (`Sorting`, `WithoutNewest`).
- `ReaderInvariant`: the entries made so far are those promised and what is left to do is the rest (`Progress`), a
  search is for a bound of the lookup in the dataset in work (`LooksForBound`), a read begins with the rows found
  (`HasBounds`). Every step of a lookup keeps it, because what is entered is what `History` promises (`ReadCandle`,
  `ReadWindow`, `ReadRange`, `NotFoundKeeps`), and only a window can be too long to read.
- The refinement: `LookupsImplementHistory` is the safety part of `ImplementsHistory`. Calls map to `Ask`, returning and
  failing steps to `Answer`, all others to stuttering; `FailureDecides` shows that the dataset in work is the first that
  fails.

`BacktestDataProofs` is about the loops over the history (`Spec` of `BacktestData`), under the three named assumptions
of that module and that of `History`, for any number of pairs, any history with finitely many candles and any clock.
`DataInvariant` says that the open loops have not ended (`Positions`), what a pending lookup asks for (`Pending`), that
the windows of open loops are those of their ticks (`OpenWindows`), that what was simulated lies behind (`TicksBehind`),
and that a frame that once had a window reaches back far enough at every tick to come (`KnownHistory`).

`GapsCostALongTick` needs more (`GapInvariant`). An iteration of the four loops is a tuple of positions; it is past when
it comes before the present one in the order of the loops. `Covered` says that the ticks simulated are exactly those of
the past tuples whose history was there up to them (`ReachedAt`), `ReachedSoFar` that nothing was missing in the long
tick that is open. A gap ends the long tick, so all of its tuples become past at once, and none of those beyond the gap
is reached.

### Position sizing

The three theorems of `PositionSizingProofs` hold for every situation, minimum size, leverage, risk fraction and width
of `int`, under `SizingAssumption` and `InputAssumption` (prices above half the spread, positive rates). The rates of
quote and base currency are independent of each other and of the close. `LossesAreBounded` has the premises of its
property: a distance of at least one rounded pip, and units that fit an `int`. The specification has one step, so the
invariant `Sized` is short; the work is in the integer inequalities: what division by the rounded pips and truncation
can add or take (`OrderIsCarried`), and that the account's two quotients are not rounded up (`MarginUsedIsBounded`).

### Indicators

`IndicatorProofs` is about series and lists of candles of any length and windows of any width, under `SeriesAssumption`:
prices are integers, and the values of an average are not zero, which marks its absence. `SearchesInvariant` says that
the series are aligned with the candles (`SeriesOK`), that the search for the cross over has seen every change of the
sign behind it (`CrossSearch`), and the search for the peak every peak behind it (`PeakSearch`). The three properties
are what the searches and the maximum leave at their ends; that a slice has a largest price is proved from the
well-foundedness of the natural numbers (`LargestExists`).

### Live trading

`LiveTradingProofs` is about any number of pairs and rounds and any length of the history, under `LiveAssumption` (the
pairs are in an order, `None` is no place of a thread). `LiveInvariant` says what a thread has received and what it has
left of it (`ThreadsHaveTheirCandles`), that the entries of the maps are whole, whichever of them are lost
(`MapsAreWhole`), that the main thread reads after the pool has joined (`MainReadsSafely`), and that nothing is lost as
long as no inserts overlap (`NothingIsLost`). From the last, `OnlyRacesLoseEntries`: a round whose inserts did not
overlap hands the candles of every pair to the strategy, so that a lock around the inserts would repair the feed.
`FeedIsComplete` is proved only; no run checks it.

The theorems about the price history, the sizing, the indicators and live trading:

| Theorem | Statement |
|---|---|
| `SearchIsCorrect`, `SearchReadsInside`, `SearchHalves` | `FindsWhatIsThere`, `ReadsInside`, `Halves` of `SSpec` |
| `LookupsFindTheirTimes`, `LookupsReadInside`, `EntriesAreInOrder` | `FindsWhatIsThere`, `ReadsInside`, `EntriesAscend` of `DSpec` |
| `LookupsImplementHistory` | every step of the reader is one of `History` or stutters |
| `TheFutureIsUnknown`, `NothingOfThePastIsMissing` | `NoLookAhead`, `WindowsAreCurrent` |
| `TimeNeverGoesBack`, `HistoryIsNeverLost` | `TimeMovesForward`, `CrashesOnlyAtTheStart` |
| `GapsCostNoMore` | `GapsCostALongTick` |
| `OrdersKeepTheirSide`, `OrdersHaveMargin`, `LossesAreBounded` | `UnitsAreTradable`, `OrderHasMargin`, `StoppedLossIsBounded` |
| `NearestCrossIsFound`, `NearestPeakIsFound`, `HighestIsFound` | `CrossIsNearest`, `PeakIsNearest`, `HighestIsAfterTheCross` |
| `DecisionsAreInformed`, `DetailsAreNeverOld` | `DecisionsHaveTheirData`, `DetailsAreFresh` |
| `OnlyRacesLoseEntries` | `FeedIsComplete` |

### Model-checked only

- Liveness: `EveryCallReturns`, `TouchedStopsClose`, `Terminates`, `ClockRunsOut`, `RoundEnds`, and the part of
  `ImplementsHistory` that says that every lookup ends. Properties under fairness need `ENABLED`, which is out of the
  prover's reach.
- The three statements that the code breaks (section 3): there is nothing to prove, TLC shows an execution.

## 11. Not modelled

- `CalculatePipValue`, `CalculateGainsLosses` and `CheckMarginCall` of `forex.cpp`, `trade_data` of `apiclient.cpp:272`
  and `market_impulses`: nothing calls them.
- The signals of `simulate.cpp`: which indicator values lead to a decision is any. They are comparisons of numbers
  TA-Lib computes, about whose relation nothing is known.
- `instrument.cpp` splits a name; `Base`, `Quote`, `HalfSpread` and `PipsPerOne` are its results. The projections of
  candle lists and the names of time frames are conversions without a decision.
- The JSON and HTTP of `apiclient.cpp` beyond answered, refused and failed; closing trades (section 9).
- CSV report, logging, string utilities, vendored libraries: no control of their own.
