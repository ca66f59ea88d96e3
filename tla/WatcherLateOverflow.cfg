SPECIFICATION FairSpec
CONSTANTS
    n1 = n1
    n2 = n2
    c1 = c1
    c2 = c2
    Note = {n1, n2}
    Content = {c1, c2}
    Reachable <- Texts
    RootAliased = FALSE
    QueueCapacity = 1
    MaxEdits = 2
    MaxCrashes = 0
    MaxCliRuns = 0
PROPERTY WatcherReconciles
CHECK_DEADLOCK FALSE
