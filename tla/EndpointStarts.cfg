SPECIFICATION FairSpec
CONSTANTS
    d1 = d1
    d2 = d2
    d3 = d3
    Daemon = {d1, d2, d3}
    MaxStarts = 3
    MaxCrashes = 1
    MayBeBusy = FALSE
INVARIANTS
    TypeOK
    SettledServerIsSafe
    CleanShutdown
PROPERTY StartsOrSaysWhy
CHECK_DEADLOCK FALSE
