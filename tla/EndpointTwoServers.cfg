SPECIFICATION Spec
CONSTANTS
    d1 = d1
    d2 = d2
    d3 = d3
    Daemon = {d1, d2, d3}
    MaxStarts = 3
    MaxCrashes = 0
    MayBeBusy = FALSE
INVARIANT RemovesOnlyOwnedSocket
CHECK_DEADLOCK FALSE
