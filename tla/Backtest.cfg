SPECIFICATION BSpec
CONSTANTS
    Instruments <- Three
    Base <- ThreeBase
    Quote <- ThreeQuote
    Rank <- ThreeRank
    AccountCurrency = "USD"
    Leverage = 2
    CapitalBase = 30
    One <- MCOne
    HalfSpread <- MCHalfSpread
    MaxSpread <- MCMaxSpread
    IntMax = 2
    None = None
    Ticks <- ThreeTicks
    Requests <- ThreeRequests
    StopPrices <- NoneAtAll
    Distances <- NoneAtAll
    MaxLimitOrders = 3
    MaxTicks = 6
    Count <- ThreeLoops
CHECK_DEADLOCK FALSE
INVARIANTS OnePosition TradesAreProtected
PROPERTIES TradesNeverGrow FreshOrdersExecute Terminates
