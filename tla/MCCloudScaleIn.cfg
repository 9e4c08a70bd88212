\* Three Nodes, two low-CPU reports: destructions cross creations.
SPECIFICATION CloudSafe
CONSTANTS
    NumNodes = 3
    VmNames = {0, 1, 2, NullName}
    NoName = NoName
    NullName = NullName
    CheckTime = 1
    MaxTheaters = 4
    Backlog = 5
    ConnectTimeouts = FALSE
    HistoryLen = 1
    KHigh = 1
    Events = {"low_tool"}
    MaxEvents = 2
    Paced = TRUE
INVARIANTS
    NodesNeverCrash
    AnswersMatch
    ActiveIsReal
    ShutdownOrdered
    OneVmRises
PROPERTIES
    ImplementsLifecycle
