CONSTANTS
    Bins = {"a", "b", "c"}
    Ident <- MCIdent
    Name <- MCName
    RawName <- MCRawName
    Strip <- MCStrip
    Rust = {"a", "b"}
    Made <- MCMade
    UtcAhead <- MCUtcAhead
    FirstId = 1
    Ten = 2
    FlushOver = 1
    Tries = 2
    MaxDay = 3
    MaxDeaths = 1
    MaxFaults = 1
    None = None
SPECIFICATION MCSpec
CHECK_DEADLOCK FALSE
INVARIANTS
    RowsHaveFiles
    FunctionsBelong
    NothingMissed
    AppendedOnceADay
