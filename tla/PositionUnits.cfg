SPECIFICATION Spec
CONSTANTS
    One = 100
    PipsPerOne = 10
    HalfSpread = 2
    Leverage = 5
    RiskNum = 1
    RiskDen = 10
    MinSize = 2
    IntMax = 60
    Inputs <- MCInputs
    None = None
CHECK_DEADLOCK FALSE
INVARIANTS UnitsAreTradable StoppedLossIsBounded OrderHasMargin
