SPECIFICATION Spec
CONSTANTS
    Instruments <- Crosses
    Base <- CrossBase
    Quote <- CrossQuote
    AccountCurrency = "EUR"
    Leverage = 2
    CapitalBase = 22
    One <- MCOne
    HalfSpread <- MCHalfSpread
    IntMax = 127
    None = None
    Ticks <- CrossTicks
    Requests <- CrossRequests
    StopPrices <- NoPrices
    Distances <- NoPrices
    MaxLimitOrders = 3
    MaxTicks = 2
INVARIANTS TypeOK SameSide ClosedIffFlat OneCancelsOther
PROPERTIES FillsAreCovered LedgerSpec NoSecondFill FilledOrderMovesPosition
