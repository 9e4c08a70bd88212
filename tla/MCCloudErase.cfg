\* A destroyed VM takes the records of the later Nodes with it.
SPECIFICATION CloudSafe
CONSTANTS
    NumNodes = 2
    VmNames = {0, 1, NullName}
    NoName = NoName
    NullName = NullName
    CheckTime = 1
    MaxTheaters = 4
    Backlog = 3
    ConnectTimeouts = FALSE
    HistoryLen = 1
    KHigh = 1
    Events = {"low_tool"}
    MaxEvents = 2
    Paced = TRUE
PROPERTIES
    OneVmPerMessage
