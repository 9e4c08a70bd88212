\* Two Nodes, three low-CPU reports: VMs come and go.
SPECIFICATION CloudSpec
CONSTANTS
    NumNodes = 2
    VmNames = {0, 1, NullName}
    NoName = NoName
    NullName = NullName
    CheckTime = 1
    MaxTheaters = 4
    Backlog = 3
    ConnectTimeouts = FALSE
    HistoryLen = 1
    KHigh = 1
    Events = {"low_tool"}
    MaxEvents = 3
    Paced = TRUE
PROPERTIES
    CreationEnds
    DestructionEnds
    FirstVmComes
    GrowsWhenBusy
