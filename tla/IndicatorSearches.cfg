SPECIFICATION Spec
CONSTANTS
    FastSeries <- MCFast
    SlowSeries <- MCSlow
    HighSeries <- MCHighs
    HalfSizes = {1, 2}
    None = None
    Undefined = Undefined
CHECK_DEADLOCK FALSE
INVARIANTS CrossIsNearest PeakIsNearest HighestIsAfterTheCross
