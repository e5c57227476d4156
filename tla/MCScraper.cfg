SPECIFICATION Spec
CONSTANTS
    s1 = s1
    s2 = s2
    r1 = r1
    r2 = r2
    r3 = r3
    bare = bare
    null = null
    None = None
    Scrapers = {s1, s2}
    Repos = {r1, r2, r3, bare, null}
    Last = 2
    Results <- MCResults
    Eligible = {r1, r2, r3}
    Malformed = {null}
    PageSize = 2
    Cap = 3
    BundleSize = 2
    Continuous = {s2}
    Waiting = {s1}
    MaxFaults = 1
    MaxAlive = 1
    MaxQueued = 1
INVARIANTS
    SeenIsKept
    StoredIsWalked
    WalkedIsSeen
    OneRowEach
PROPERTIES
    FullIsAsked
