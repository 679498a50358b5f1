SPECIFICATION Spec
CONSTANTS
    Holidays <- MCHolidays
    SummerDays <- MCSummerDays
    Hour = 1
    Freq = 8
    IsEast = TRUE
    Begins <- MCDays
    Ends <- MCDays
CHECK_DEADLOCK FALSE
INVARIANTS TicksIncrease MarketIsOpen VisitsEveryTradingDay
PROPERTIES ClockRunsOut
