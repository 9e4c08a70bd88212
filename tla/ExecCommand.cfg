\* The ten seconds of the VmMonitor in ticks of one, calls followed for 25.
SPECIFICATION ExecSpec
CONSTANTS
    Timeout = 10
    MaxElapsed = 25
INVARIANTS
    FreshCallsEndInTime
    LeftOverOnlyAfterTimeout
    KilledOnlyAfterTimeout
