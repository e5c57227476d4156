CONSTANTS
    Consumers = {"builder-task", "builder-reg"}
    Early = {"builder-task"}
    Recycler = "builder-task"
    Registrar = "builder-reg"
    Dispatchers = {"dispatch-1"}
    Msgs = {"task", "registration"}
    Queue <- MCQueue
    MaxSignals = 2
    MaxFailures = 1
SPECIFICATION ProcessSpec
CHECK_DEADLOCK FALSE
INVARIANTS
    ShutdownIsClean
PROPERTIES
    ThreadsEnd
