---------------------------- MODULE MCLiveTrading ----------------------------
(* Three pairs, whose threads may overlap in pairs or all, for TLC.        *)
EXTENDS LiveTrading

MCPairs == {"AUD_USD", "EUR_USD", "USD_JPY"}
MCRank == [pair \in MCPairs |-> CASE pair = "AUD_USD" -> 1 [] pair = "EUR_USD" -> 2
                                  [] pair = "USD_JPY" -> 3]
=============================================================================
