SPECIFICATION Spec
CONSTANTS
    None = None
    Datasets <- MCDatasets
    Histories <- MCHistories
    Calls <- MCCalls
    Pairs <- MCPairs
    Length <- MCLength
    HistDataCount = 1
    Clocks <- MCClocks
CHECK_DEADLOCK FALSE
INVARIANTS NoLookAhead WindowsAreCurrent TimeMovesForward CrashesOnlyAtTheStart GapsCostALongTick
