------------------------------- MODULE Forex -------------------------------
(***************************************************************************)
(* The money arithmetic of src/forex.cpp and src/trade.cpp.                *)
(*                                                                         *)
(* Prices are integers: One price increments make the price 1.0, and an    *)
(* amount of money is counted in the same increments.  An exchange rate    *)
(* between the account currency and another one is the fraction num/den,   *)
(* because the code both multiplies and divides by it.  The code computes  *)
(* in double; here a quotient is rounded down to a whole increment.        *)
(***************************************************************************)
EXTENDS Integers

Abs(n) == IF n < 0 THEN -n ELSE n

Rates == [num : Int, den : Int]

\* amount * (1 / rate): an amount of the other currency in account currency.
InAccountCurrency(amount, rate) == (amount * rate.den) \div rate.num

\* Profit or loss of `units' bought (sold, when negative) at `open' and
\* settled at `close'; the rate is account currency against quote currency.
ProfitLoss(open, close, units, quoteRate) ==
    InAccountCurrency((close - open) * units, quoteRate)

\* The rate is account currency against base currency.
CalculateMarginUsed(units, baseRate, leverage, one) ==
    InAccountCurrency(Abs(units) * one, baseRate) \div leverage

CalculateMarginAvailable(nav, marginUsed) ==
    IF nav - marginUsed > 0 THEN nav - marginUsed ELSE 0
=============================================================================
