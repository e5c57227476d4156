SPECIFICATION FairSpec
CONSTANTS
    b1 = b1
    b2 = b2
    o1 = o1
    o2 = o2
    Builders = {b1, b2}
    Opts = {o1, o2}
    OptOf <- MCOneOpt
    MaxLives = 3
    MaxFaults = 3
    FaultKinds = {"confirm", "handler", "ack", "slow", "builder", "shutdown", "coordinator"}
INVARIANTS
    ServingHasDispatcher
PROPERTIES
    AckedMeansServed
    EventuallyServed
CHECK_DEADLOCK FALSE
