------------------------ MODULE MCSimulationAccount ------------------------
(* Small accounts for TLC.                                                 *)
EXTENDS AccountProperties

\* Ten price increments make 1.0 and the spread is two of them: prices run
\* from 0.8 to 1.4 and the two sides of the market differ at every price.
MCOne == 10
MCHalfSpread == 1

Candle(low, high, close) == [low |-> low, high |-> high, close |-> close]
NoStops == [kind \in Kinds |-> None]
Stops(loss, profit, trail) ==
    [NoStops EXCEPT !["stop_loss"] = loss, !["take_profit"] = profit,
                    !["trailing_stop"] = trail]
Order(ins, n, price, protect) ==
    [instrument |-> ins, units |-> n, price |-> price, protect |-> protect]

----------------------------------------------------------------------------
(* One pair quoted in the account currency                                 *)

EurUsd == {"EUR_USD"}
EurUsdBase == [ins \in EurUsd |-> "EUR"]
EurUsdQuote == [ins \in EurUsd |-> "USD"]

Quiet == [ins \in EurUsd |-> Candle(10, 10, 10)]
Wide == [ins \in EurUsd |-> Candle(8, 13, 12)]
Gap == [ins \in EurUsd |-> None]

\* Orders of different size on both sides: they reduce, close, and reverse.
NettingRequests ==
    {Order("EUR_USD", n, 10, NoStops) : n \in {2, -1, -3}}
NettingTicks == {Quiet, Wide, Gap}

\* A long and a short order with all three stops; the wide candle holds a stop
\* loss and a take profit at once.
StopRequests == {Order("EUR_USD", 1, 11, Stops(8, 11, 2)),
                 Order("EUR_USD", -2, 10, Stops(13, 9, 3)),
                 Order("EUR_USD", 1, 11, NoStops)}
StopTicks == {Quiet, Wide, [ins \in EurUsd |-> Candle(12, 14, 13)]}
----------------------------------------------------------------------------
(* Two pairs, quoted in other currencies than the account's: profits are    *)
(* converted at the close of the pair, which a tick may lack               *)

Crosses == {"EUR_USD", "EUR_GBP"}
CrossBase == [ins \in Crosses |-> "EUR"]
CrossQuote == [ins \in Crosses |-> IF ins = "EUR_USD" THEN "USD" ELSE "GBP"]

CrossRequests == {Order("EUR_USD", 2, 11, Stops(9, None, None)),
                  Order("EUR_USD", -3, 10, NoStops), Order("EUR_GBP", -1, 8, NoStops)}
CrossTick(usd, gbp) == [ins \in Crosses |-> IF ins = "EUR_USD" THEN usd ELSE gbp]
CrossTicks == {CrossTick(Candle(8, 13, 12), Candle(7, 9, 8)),
               CrossTick(Candle(9, 13, 9), None),
               CrossTick(None, Candle(7, 10, 9))}

----------------------------------------------------------------------------
\* For the runs whose client does not move stops.
NoPrices == {}
=============================================================================
