SPECIFICATION FairSpec
CONSTANTS
    n1 = n1
    n2 = n2
    c1 = c1
    c2 = c2
    Note = {n1, n2}
    Content = {c1, c2}
    Reachable <- OneTextOrAbsent
    RootAliased = FALSE
    QueueCapacity = 1
    MaxEdits = 2
    MaxCrashes = 0
    MaxCliRuns = 1
PROPERTY CatchesUpOrSaysWhy
CHECK_DEADLOCK FALSE
