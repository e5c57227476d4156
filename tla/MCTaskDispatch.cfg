SPECIFICATION Spec
CONSTANTS
    t11 = t11
    t12 = t12
    t21 = t21
    r1 = r1
    r2 = r2
    o1 = o1
    o2 = o2
    b1 = b1
    b2 = b2
    NoTask = NoTask
    Tasks = {t11, t12}
    Repos = {r1, r2}
    Opts = {o1, o2}
    Builders = {b1, b2}
    RepoOf <- MCRepoOf
    OptOf <- MCOptOf
    Serves <- MCServes
    Recycling = {b1}
    Blocked = {}
    Threshold = 0
    MaxFaults = 1
    MayRestart = TRUE
INVARIANTS
    TypeOK
    PublishedBeforeMarked
    ResultsHaveCause
    NothingVanishes
PROPERTIES
    ImplementsLedger
CHECK_DEADLOCK FALSE
