CONSTANTS
    Builds = {"new", "old"}
    Old = {"old"}
    Objects = {"bin", "ir"}
    Threads = {t1, t2}
    Limits = {0, 1}
    MaxRuns = 2
    MaxFaults = 2
    None = None
SPECIFICATION Spec
INVARIANTS
    ReadableOrKept
    BytesSurvive
PROPERTIES
    ManifestVouches
    ManifestFirst
SYMMETRY Symmetry
CHECK_DEADLOCK FALSE
