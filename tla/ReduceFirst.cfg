SPECIFICATION Spec
CONSTANTS
    Instruments <- EurUsd
    Base <- EurUsdBase
    Quote <- EurUsdQuote
    AccountCurrency = "USD"
    Leverage = 2
    CapitalBase = 25
    One <- MCOne
    HalfSpread <- MCHalfSpread
    IntMax = 127
    None = None
    Ticks <- NettingTicks
    Requests <- NettingRequests
    StopPrices <- NoPrices
    Distances <- NoPrices
    MaxLimitOrders = 2
    MaxTicks = 2
PROPERTIES ReduceFirst
