\* The constants of vmmon_main.c:38-39, nine samples: four windows after the first.
SPECIFICATION RuleSpec
CONSTANTS
    NumNodes = 1
    VmNames = {0}
    NoName = NoName
    Backlog = 2
    ConnectTimeouts = FALSE
    HistoryLen = 5
    KHigh = 2
    MaxSamples = 9
INVARIANTS
    WindowIsRecent
PROPERTIES
    ReportsWhenDue
