------------------------------- MODULE Backtest -------------------------------
(***************************************************************************)
(* The backtest program: the nested loops of src/apps/main.cpp over the    *)
(* ticks of four time frames, and the decisions of the strategy            *)
(* (src/strategy/src/simulate.cpp), the one client the account of          *)
(* SimulationAccount has.                                                  *)
(*                                                                         *)
(* Which signals the indicators give is left open: at every tick the       *)
(* strategy may see any of them, or none.  So is which history the price   *)
(* file holds.                                                             *)
(***************************************************************************)
EXTENDS SimulationAccount

CONSTANTS
    Count,      \* [Frames -> iterations of the loop over the time frame]
    Rank,       \* [Instruments -> position in the TickDataMap]
    MaxSpread   \* kMaxSpread, in price increments

Frames == {"long", "intermediate", "short", "simulate"}

ASSUME LoopAssumption ==
    Count \in [Frames -> Nat] /\ Rank \in [Instruments -> Int] /\ MaxSpread \in Int

VARIABLES
    stage,    \* the loop the program is in, and what follows it there
    at,       \* [Frames -> iterations begun]: *it, i, j and k
    data,     \* simulate_data_map, None outside of its iteration
    todo,     \* pairs with a candle whose SimulateTrade is still to come
    ordered   \* observation only: pairs ordered at this tick

loops == <<stage, at, data, todo, ordered>>
allVars == <<vars, loops>>

----------------------------------------------------------------------------
(* The loops                                                               *)

Advance(frame) == at' = [at EXCEPT ![frame] = @ + 1]

\* The history of the time frame is there, the next finer loop begins.
Enter(frame, inner) ==
    /\ stage = frame /\ at[frame] < Count[frame]
    /\ stage' = inner
    /\ at' = [at EXCEPT ![inner] = 0]
    /\ UNCHANGED <<vars, data, todo, ordered>>

LeaveLoop(frame, outer) ==
    /\ stage = frame /\ at[frame] = Count[frame]
    /\ stage' = outer /\ Advance(outer)
    /\ UNCHANGED <<vars, data, todo, ordered>>

\* A pair has no candle at the tick: out_of_range, caught in the outermost
\* loop, which goes on with the next long tick.
AbandonMutant(frame) ==
    /\ stage = frame /\ at[frame] < Count[frame]
    /\ stage' = "long"
    /\ UNCHANGED <<vars, at, data, todo, ordered>>
Abandon(frame) ==
    /\ stage = frame /\ at[frame] < Count[frame]
    /\ stage' = "long" /\ Advance("long")
    /\ UNCHANGED <<vars, data, todo, ordered>>

\* The window of history reaches back beyond the file: the exception of the
\* HDF5 library is not caught.
Crash(frame) ==
    /\ stage = frame /\ at[frame] < Count[frame]
    /\ stage' = "crashed"
    /\ UNCHANGED <<vars, at, data, todo, ordered>>

ReadTick(candles) ==
    /\ stage = "simulate" /\ at["simulate"] < Count["simulate"]
    /\ stage' = "strategy"
    /\ data' = candles
    /\ todo' = {ins \in Instruments : candles[ins] # None}
    /\ UNCHANGED <<vars, at, ordered>>

RunOrders ==
    /\ stage = "strategy" /\ todo = {}
    /\ ProcessOrders(data)
    /\ stage' = "account"
    /\ UNCHANGED <<at, data, todo, ordered>>

NextTick ==
    /\ stage = "account" /\ phase = "idle"
    /\ stage' = "simulate" /\ Advance("simulate")
    /\ data' = None /\ ordered' = {}
    /\ UNCHANGED <<vars, todo>>

Finish ==
    /\ stage = "long" /\ at["long"] = Count["long"]
    /\ stage' = "done"
    /\ UNCHANGED <<vars, at, data, todo, ordered>>

----------------------------------------------------------------------------
(* SimulateTrade                                                           *)

Simulate(ins) ==
    /\ stage = "strategy" /\ phase = "idle"
    /\ ins \in todo /\ \A other \in todo : Rank[ins] <= Rank[other]
    /\ todo' = todo \ {ins}

\* No rate, no signal, or no units to trade.
Hold(ins) ==
    /\ Simulate(ins)
    /\ UNCHANGED <<vars, stage, at, data, ordered>>

RateIsKnown(ins) == AccountRate(Quote[ins], data) # None

\* margin_used knows every open trade's margin.  Its partner, the net asset
\* value, is used without a test: units sized with an unknown one are any.
MarginIsKnown ==
    \A k \in OpenTrades : /\ data[trades[k].instrument] # None
                          /\ AccountRate(Base[trades[k].instrument], data) # None

IgnoresOrdersMutant(ins) == OpenTradesOf(ins) = {}
IgnoresTradesMutant(ins) == PendingLimitOrders(ins) = {}
TakesPosition(ins) == PendingLimitOrders(ins) = {} /\ OpenTradesOf(ins) = {}

\* The order a crossover leads to: at the close of the tick, with a stop loss
\* on the losing side and a take profit three times as far on the other.
Decides(ins, request) ==
    LET price == request.price
        loss == request.protect["stop_loss"]
    IN  /\ request.instrument = ins /\ request.units # 0
        /\ price = data[ins].close
        /\ loss # None
        /\ IF request.units > 0 THEN loss <= price ELSE loss >= price
        /\ request.protect["take_profit"] = price + 3 * (price - loss)
        /\ request.protect["trailing_stop"] = None

TakePosition(ins, request) ==
    /\ Simulate(ins)
    /\ RateIsKnown(ins) /\ MarginIsKnown
    /\ TakesPosition(ins) /\ Decides(ins, request)
    /\ 2 * HalfSpread <= MaxSpread
    /\ CreateMarketOrder(request)
    /\ ordered' = ordered \cup {ins}
    /\ UNCHANGED <<stage, at, data>>

\* The opposite crossover closes what is open.
ClosePosition(ins) ==
    /\ Simulate(ins)
    /\ RateIsKnown(ins)
    /\ OpenTradesOf(ins) # {}
    /\ PositionSize(ins) # 0
    /\ CloserPosition(ins, data)
    /\ UNCHANGED <<stage, at, data, ordered>>

----------------------------------------------------------------------------
BInit ==
    /\ Init
    /\ stage = "long" /\ at = [frame \in Frames |-> 0]
    /\ data = None /\ todo = {} /\ ordered = {}

Loop ==
    \/ \E frame \in {"long", "intermediate", "short"} : Abandon(frame) \/ Crash(frame)
    \/ Enter("long", "intermediate") \/ Enter("intermediate", "short")
    \/ Enter("short", "simulate")
    \/ LeaveLoop("intermediate", "long") \/ LeaveLoop("short", "intermediate")
    \/ LeaveLoop("simulate", "short")
    \/ \E candles \in Ticks : ReadTick(candles)
    \/ RunOrders \/ NextTick \/ Finish

Strategy ==
    \E ins \in todo :
        \/ Hold(ins) \/ ClosePosition(ins)
        \/ \E request \in Requests : TakePosition(ins, request)

\* The account's calls return before the program goes on.
RunCall == Step /\ UNCHANGED loops

BNext == Loop \/ Strategy \/ RunCall

\* One thread, which runs until it is done.
BSpec == BInit /\ [][BNext]_allVars /\ WF_allVars(BNext)

----------------------------------------------------------------------------
(* Properties                                                              *)

\* A pair has at most one open trade or pending limit order: the strategy looks
\* at both before it orders, and a fill turns the one into the other.
OnePosition ==
    \A ins \in Instruments :
        Cardinality(PendingLimitOrders(ins)) + Cardinality(OpenTradesOf(ins)) <= 1

\* An order of the strategy never meets an existing position, so the netting of
\* ProcessLimitOrder, which may enlarge a trade, is not used by the backtest:
\* no step makes an open trade larger.
TradesNeverGrow ==
    [][\A k \in OpenTrades : Abs(trades'[k].units) <= Abs(trades[k].units)]_allVars

\* A market order is in the range of the tick it was decided at: the pass of that
\* tick skips it only for want of a rate to compute its margin with.
FreshOrdersExecute ==
    [][\A i \in pending :
         SkipLimitOrder(i) /\ orders[i].instrument \in ordered
         => BaseRate(orders[i].instrument) = None]_allVars

\* Every open trade is under the watch of the passes: its stop loss and its take
\* profit are listed and pending.
TradesAreProtected ==
    \A k \in OpenTrades : \A kind \in {"stop_loss", "take_profit"} :
        \E i \in DOMAIN orders :
            orders[i] = [kind |-> kind, trade |-> k] /\ IsPending(orders[i])

\* The program ends: missing history skips a window and never repeats it.
Terminates == <>(stage \in {"done", "crashed"})
=============================================================================
