SPECIFICATION Spec
CONSTANTS
    Instruments <- EurUsd
    Base <- EurUsdBase
    Quote <- EurUsdQuote
    AccountCurrency = "USD"
    Leverage = 2
    CapitalBase = 25
    One <- MCOne
    HalfSpread <- MCHalfSpread
    IntMax = 127
    None = None
    Ticks <- StopTicks
    Requests <- StopRequests
    StopPrices = {9, 12}
    Distances = {1}
    MaxLimitOrders = 1
    MaxTicks = 3
PROPERTIES StopLossTriggers
