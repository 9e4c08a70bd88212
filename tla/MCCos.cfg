\* Three Nodes, peer arrays of two entries, three names: a name can be given twice.
SPECIFICATION CosSpec
CONSTANTS
    NumNodes = 3
    CheckTime = 2
    MaxTheaters = 2
    VmNames = {v1, v2, v3}
    NoName = NoName
SYMMETRY Names
INVARIANTS
    TypeOK
    AtMostOneCreation
    ErasedNodesStayUnused
    CounterWithinNodes
    CounterCoversVms
    FreeNodeWhenAsked
PROPERTIES
    ScaleOutJustified
    ImplementsPlacement

