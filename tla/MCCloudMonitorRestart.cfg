\* A VmMonitor is started again while another Node creates a VM.
SPECIFICATION CloudSafe
CONSTANTS
    NumNodes = 2
    VmNames = {0, 1, NullName}
    NoName = NoName
    NullName = NullName
    CheckTime = 1
    MaxTheaters = 4
    Backlog = 3
    ConnectTimeouts = FALSE
    HistoryLen = 1
    KHigh = 1
    Events = {"monitor_ends"}
    MaxEvents = 1
    Paced = TRUE
PROPERTIES
    FailureIsReal
