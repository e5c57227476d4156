CONSTANTS
    Entries <- MCEntries
    Urls <- MCUrls
    Lower <- MCLower
    Bare <- MCBare
    Dispatchers = {d1}
    Main = main
    Threshold = 0
    MaxEdits = 1
    MaxFaults = 0
    MaxTicks = 0
    None = None
SPECIFICATION Spec
INVARIANTS
    NeverReadmitted
CHECK_DEADLOCK FALSE
