----------------------------- MODULE MCIndicators -----------------------------
(* Up to five candles, averages that begin late, touch and cross, and peaks *)
(* and plateaus of every form, for TLC.                                    *)
EXTENDS Indicators

Series(values, lengths) == UNION {[1..n -> values] : n \in lengths}
MCFast == Series({1, 2}, {0, 3, 5})
MCSlow == [1..3 -> {1, 2}] \cup {<<>>, <<2, 1>>}
MCHighs == Series(1..3, {3, 5})
=============================================================================
