----------------------------- MODULE MCTradeData -----------------------------
(* Two pairs with any of the candles at the times 1..4, for TLC.           *)
EXTENDS TradeData

MCPairs == {"AUD_USD", "EUR_USD"}
MCTimes == 1..4

NewestFirst(S) == SortSeq(SetToSeq(S), >)
MCFiles == [MCPairs -> {NewestFirst(S) : S \in SUBSET MCTimes}]

Lists0 == {<<>>}
Wanted0 == {}

Both == <<"AUD_USD", "EUR_USD">>
Lookups(kind, names, begins, ends, counts) ==
    [kind : {kind}, datasets : {names}, begin : begins, end : ends, count : counts]
MCCalls ==
    Lookups("candles", Both, 0..4, {0}, {1})
        \cup Lookups("history", Both, MCTimes, {0}, {0, 1, 2, 3})
        \cup {c \in Lookups("range", <<"EUR_USD">>, 0..4, MCTimes, {0}) : c.begin <= c.end}
=============================================================================
