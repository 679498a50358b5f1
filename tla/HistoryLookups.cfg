SPECIFICATION DSpec
CONSTANTS
    Lists <- Lists0
    Wanted <- Wanted0
    None = None
    Datasets <- MCPairs
    Files <- MCFiles
    Calls <- MCCalls
CHECK_DEADLOCK FALSE
INVARIANTS EntriesAscend FindsWhatIsThere ReadsInside
PROPERTIES ImplementsHistory
