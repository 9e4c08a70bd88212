\* The buffers of the code, two senders, every type of message.
\* A sender that gave up and kept its connection stops the program: no deadlock check.
SPECIFICATION WireSpec
CONSTANTS
    SendBuf = 128
    MaxParsed = 10
    HistoryLen = 5
    StrayLens = {3, 26}
    MaxExtra = 3
    Senders = {s1, s2}
    Messages <- AllMessages
    Backlog = 1
    RecvBuf = 128
    AddrLen = 20
    MaxTheaters = 4
    Cuts = {4, 127}
    MaxSends = 3
    MaxEnds = 1
INVARIANTS
    WireTypeOK
    RequestsFit
PROPERTIES
    Delivers
    Drains
CHECK_DEADLOCK FALSE
