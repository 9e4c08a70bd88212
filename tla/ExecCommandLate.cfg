\* The same calls, and what the comment says of every one of them.
SPECIFICATION ExecSpec
CONSTANTS
    Timeout = 10
    MaxElapsed = 25
INVARIANTS
    CallsEndInTime
