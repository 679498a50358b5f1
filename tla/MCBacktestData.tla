---------------------------- MODULE MCBacktestData ----------------------------
(* Two pairs, time frames of 8, 4, 2 and 1 units: up to two gaps anywhere,   *)
(* or one dataset that begins late.                                        *)
EXTENDS BacktestData

MCPairs == <<"AUD_USD", "EUR_USD">>
MCLength == [long |-> 8, intermediate |-> 4, short |-> 2, simulate |-> 1]
MCDatasets == ToSet(MCPairs) \X DOMAIN MCLength

\* Long ticks on two days, with the hours between closed.
MCClocks == {<<8, 24>>}
MCHours == (0..15) \cup (24..31)

Grid(length) == {t \in MCHours : t % length = 0}
Whole == [d \in MCDatasets |-> Grid(MCLength[d[2]])]
Rows == UNION {{d} \X Whole[d] : d \in MCDatasets}
WithGaps ==
    {[d \in MCDatasets |-> {t \in Whole[d] : <<d, t>> \notin gaps}] :
        gaps \in {{g, h} : g, h \in Rows}}
BeginsLate ==
    {[d \in MCDatasets |-> {t \in Whole[d] : d = late => t >= begin}] :
        late \in MCDatasets, begin \in 0..26}
MCHistories == WithGaps \cup BeginsLate

MCCalls ==
    [kind : {"history"}, begin : 0..40, end : {0}, count : {1},
     datasets : {[i \in 1..2 |-> <<MCPairs[i], frame>>] : frame \in {"long", "intermediate", "short"}}]
    \cup [kind : {"candles"}, begin : 0..40, end : {0}, count : {1},
          datasets : {[i \in 1..2 |-> <<MCPairs[i], "simulate">>]}]
=============================================================================
