SPECIFICATION Spec
CONSTANTS
    Instruments <- MCPairs
    Rank <- MCRank
    HistDataCount = 2
    MaxRounds = 2
    MaxOrders = 6
    None = None
    Unknown = Unknown
CHECK_DEADLOCK FALSE
INVARIANTS DecisionsHaveTheirData DetailsAreFresh
PROPERTIES RoundEnds
