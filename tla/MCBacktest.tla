------------------------------ MODULE MCBacktest ------------------------------
(* Small backtests for TLC.                                                *)
EXTENDS Backtest

MCOne == 10
MCHalfSpread == 1
MCMaxSpread == 3

Candle(low, high, close) == [low |-> low, high |-> high, close |-> close]

\* What the strategy may order of a pair at a close.
Decision(ins, n, close, loss) ==
    [instrument |-> ins, units |-> n, price |-> close,
     protect |-> [kind \in Kinds |->
         CASE kind = "stop_loss" -> loss
           [] kind = "take_profit" -> close + 3 * (close - loss)
           [] kind = "trailing_stop" -> None]]

Loops(long, intermediate, short, simulate) ==
    [frame \in Frames |->
        CASE frame = "long" -> long [] frame = "intermediate" -> intermediate
          [] frame = "short" -> short [] frame = "simulate" -> simulate]

----------------------------------------------------------------------------
(* A cross whose margin is converted at another pair, in short windows     *)

Three == {"AUD_USD", "EUR_AUD", "EUR_USD"}
ThreeBase == [ins \in Three |-> IF ins = "AUD_USD" THEN "AUD" ELSE "EUR"]
ThreeQuote == [ins \in Three |-> IF ins = "EUR_AUD" THEN "AUD" ELSE "USD"]
ThreeRank == [ins \in Three |-> CASE ins = "AUD_USD" -> 1 [] ins = "EUR_AUD" -> 2
                                  [] ins = "EUR_USD" -> 3]
ThreeTick(aud, cross, eur) ==
    [ins \in Three |-> CASE ins = "AUD_USD" -> aud [] ins = "EUR_AUD" -> cross
                         [] ins = "EUR_USD" -> eur]
ThreeTicks == {ThreeTick(Candle(7, 9, 8), Candle(14, 16, 15), Candle(11, 13, 12)),
               ThreeTick(Candle(7, 9, 8), Candle(14, 16, 15), None),
               ThreeTick(Candle(9, 9, 9), Candle(15, 18, 15), Candle(9, 13, 12))}
ThreeRequests == {Decision("EUR_AUD", 2, 15, 14), Decision("EUR_AUD", -2, 15, 16),
                  Decision("EUR_USD", 2, 12, 7), Decision("EUR_USD", -2, 12, 14)}
ThreeLoops == Loops(2, 1, 1, 3)

NoneAtAll == {}
=============================================================================
