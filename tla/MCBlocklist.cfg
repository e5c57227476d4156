CONSTANTS
    Entries <- MCEntries
    Urls <- MCUrls
    Lower <- MCLower
    Bare <- MCBare
    Dispatchers = {d1, d2}
    Main = main
    Threshold = 0
    MaxEdits = 1
    MaxFaults = 1
    MaxTicks = 1
    None = None
SPECIFICATION Spec
INVARIANTS
    AtMostOneLate
    StampTellsTheText
    ExclusionIsExact
PROPERTIES
    EditTakesEffect
CHECK_DEADLOCK FALSE
