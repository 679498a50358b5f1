---------------------------- MODULE PositionSizing ----------------------------
(***************************************************************************)
(* How many units the strategy trades (src/strategy/src/position.cpp, with *)
(* CalculateMarketOrderUnits of simulate.cpp and CalculatePositionSize of  *)
(* src/forex.cpp): the units whose loss at the stop loss is a percentage   *)
(* of the equity, no more than the margin carries, and none below a        *)
(* minimum.                                                                *)
(*                                                                         *)
(* Numbers are those of Forex.  Quotients are exact until the code rounds  *)
(* or converts them to int, so that a comparison of two of them is one of  *)
(* products.                                                               *)
(***************************************************************************)
EXTENDS Forex

CONSTANTS
    One,            \* increments in the price 1.0
    PipsPerOne,     \* 10 ^ pip_num
    HalfSpread,     \* half of the spread, in increments
    Leverage,
    RiskNum, RiskDen,   \* kRiskPct as a fraction
    MinSize,        \* kMinTradeSize
    IntMax,         \* the largest int
    Inputs,         \* the situations the units are asked for in
    None

PositiveRates == [num : Nat \ {0}, den : Nat \ {0}]

\* A situation: equity and margin used in increments, the close of the tick, the
\* stop loss price, the rates of account against quote and against base currency,
\* and the side.  Each rate is read from the candle of a pair of its own, so that
\* for a cross neither follows from the other and the close.
Situations ==
    [equity : Int, used : Nat, close : Nat, stop : Nat,
     rate : PositiveRates, baseRate : PositiveRates, short : BOOLEAN]

ASSUME SizingAssumption ==
    /\ One \in Nat \ {0} /\ PipsPerOne \in Nat \ {0}
    /\ Leverage \in Nat \ {0} /\ RiskNum \in Nat /\ RiskDen \in Nat \ {0}
    /\ MinSize \in Nat \ {0} /\ IntMax \in Nat /\ HalfSpread \in Nat
ASSUME NoneAssumption == None \notin Int
ASSUME InputAssumption ==
    /\ Inputs \subseteq Situations
    /\ \A s \in Inputs : s.close > HalfSpread

VARIABLES
    input,      \* the situation
    units       \* what the sizing returns, None before

vars == <<input, units>>

----------------------------------------------------------------------------
(* CalculateMarketOrderUnits                                               *)

OrderPrice(s) == IF s.short THEN s.close - HalfSpread ELSE s.close + HalfSpread

MarginAvailable(s) == s.equity - s.used

\* std::round of a quotient that is not negative.
Round(n, d) == (2 * n + d) \div (2 * d)

StopLossPips(s) == Round(Abs(OrderPrice(s) - s.stop) * PipsPerOne, One)

----------------------------------------------------------------------------
(* CalculatePositionSize of forex.cpp                                      *)

IntMin == -(IntMax + 1)

\* Conversion of a double that no int can hold: to the least int on x86-64, to
\* the nearest one on ARM.
ToInt(n) ==
    IF n > IntMax THEN {IntMin, IntMax} ELSE IF n < IntMin THEN {IntMin} ELSE {n}

RiskSizeMutant(s) ==
    (s.equity * RiskNum * s.rate.num * PipsPerOne)
        \div (One * RiskDen * s.rate.den)
\* floor(equity * risk_pct * rate / pips * 10 ^ pip_num)
RiskSize(s) ==
    (s.equity * RiskNum * s.rate.num * PipsPerOne)
        \div (One * RiskDen * s.rate.den * StopLossPips(s))

\* A distance of no pips makes the quotient infinite, or not a number.
RiskSizes(s) ==
    IF StopLossPips(s) > 0 THEN ToInt(RiskSize(s))
    ELSE IF s.equity * RiskNum > 0 THEN {IntMin, IntMax}
    ELSE IF s.equity * RiskNum < 0 THEN {IntMin}
    ELSE {IntMin, 0}

----------------------------------------------------------------------------
(* CalculateStopLossPositionSize                                           *)

\* abs of the least int is undefined, and usually itself.
Magnitudes(n) == IF n = IntMin THEN {n, -n} ELSE {Abs(n)}

\* trade_value >= margin_available * leverage
ExceedsMargin(s, size) ==
    size * OrderPrice(s) * s.rate.den >= MarginAvailable(s) * Leverage * s.rate.num

\* Conversion to int drops the fraction.
Truncated(n, d) == IF n >= 0 THEN n \div d ELSE -((-n) \div d)

MarginSizeMutant(s) ==
    Truncated(MarginAvailable(s) * Leverage * s.rate.den, s.rate.num * OrderPrice(s))
MarginSize(s) ==
    Truncated(MarginAvailable(s) * Leverage * s.rate.num, s.rate.den * OrderPrice(s))

Capped(s, size, magnitude) ==
    IF ExceedsMargin(s, magnitude) THEN ToInt(MarginSize(s))
    ELSE {IF MarginAvailable(s) = 0 THEN 0 ELSE size}

AtLeastMinimumMutant(size) == size
AtLeastMinimum(size) == IF size < MinSize THEN 0 ELSE size

Sizes(s) ==
    {AtLeastMinimum(size) * (IF s.short THEN -1 ELSE 1) : size \in
        UNION {UNION {Capped(s, n, magnitude) : magnitude \in Magnitudes(n)} :
                  n \in RiskSizes(s)}}

----------------------------------------------------------------------------
Init == input \in Inputs /\ units = None

Size ==
    /\ units = None
    /\ units' \in Sizes(input)
    /\ UNCHANGED input

Spec == Init /\ [][Size]_vars

----------------------------------------------------------------------------
(* Properties                                                              *)

\* An order has the side of its signal and at least the minimum size, whatever
\* the equity has become: an account in debt orders nothing, and never the
\* opposite of what was decided.
UnitsAreTradable ==
    units # None => \/ units = 0
                    \/ units >= MinSize /\ ~input.short /\ input.equity > input.used
                    \/ units <= -MinSize /\ input.short /\ input.equity > input.used

\* A trade that is ended at its stop loss loses at most one and a half times the
\* risk percentage of the equity: the distance is rounded to whole pips, one at
\* least, before the units are computed from it.
StoppedLossIsBounded ==
    units \notin {None, 0} /\ StopLossPips(input) > 0 /\ RiskSize(input) <= IntMax =>
        2 * Abs(units) * Abs(OrderPrice(input) - input.stop) * RiskDen * input.rate.den
            <= 3 * input.equity * RiskNum * input.rate.num

\* The price of the pair that the two rates imply, and that of the order, with
\* their common denominators left out.
ImpliedPrice(s) == One * s.rate.num * s.baseRate.den
OrderedPrice(s) == OrderPrice(s) * s.rate.den * s.baseRate.num

\* A pair with the account currency: one rate is 1, the other the pair's own close.
OwnRates(s) ==
    \/ s.rate.num = s.rate.den /\ s.baseRate.num * s.close = s.baseRate.den * One
    \/ s.rate.num * One = s.rate.den * s.close /\ s.baseRate.num = s.baseRate.den

\* The sizing caps units by the order price and the quote rate, the account asks
\* for a margin by the base rate, which another candle gives: the margin asked for
\* exceeds what is available by no more than the price the rates imply exceeds
\* that of the order.  A long order of a pair with the account currency therefore
\* has its margin, and its tick can fill it; a stop loss at the order price, whose
\* units are undefined, included.
OrderHasMargin ==
    LET needed == CalculateMarginUsed(units, input.baseRate, Leverage, One)
        available == CalculateMarginAvailable(input.equity, input.used)
    IN  units \notin {None, 0} =>
            /\ needed * OrderedPrice(input) <= available * ImpliedPrice(input)
            /\ ~input.short /\ OwnRates(input) => needed <= available
=============================================================================
