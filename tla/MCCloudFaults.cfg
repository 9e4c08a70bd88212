\* Two Nodes, any two of the events, short backlogs that time out.
\* A fault may leave the system with nothing to do: no deadlock check.
SPECIFICATION CloudSafe
CONSTANTS
    NumNodes = 2
    VmNames = {0, 1, NullName}
    NoName = NoName
    NullName = NullName
    CheckTime = 1
    MaxTheaters = 4
    Backlog = 2
    ConnectTimeouts = TRUE
    HistoryLen = 1
    KHigh = 1
    Events = {"low_tool", "monitor_ends", "manager_ends", "node_ends", "no_boot"}
    MaxEvents = 2
    Paced = TRUE
INVARIANTS
    CloudTypeOK
    KnownVmsBooted
PROPERTIES
    CosSpec
CHECK_DEADLOCK FALSE
