\* Five Nodes, peer arrays of the four entries of CommonDef.h.
SPECIFICATION CosSpec
CONSTANTS
    NumNodes = 5
    CheckTime = 1
    MaxTheaters = 4
    VmNames = {v1, v2, v3, v4}
    NoName = NoName
SYMMETRY Names
PROPERTIES
    PeersTerminated
