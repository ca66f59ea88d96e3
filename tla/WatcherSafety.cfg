SPECIFICATION Spec
CONSTANTS
    n1 = n1
    n2 = n2
    c1 = c1
    c2 = c2
    Note = {n1, n2}
    Content = {c1, c2}
    Reachable <- EveryFileState
    RootAliased = FALSE
    QueueCapacity = 1
    MaxEdits = 2
    MaxCrashes = 1
    MaxCliRuns = 1
SYMMETRY NoteSymmetry
INVARIANTS
    TypeOK
    NoSilentStaleness
    RootsNotMixed
PROPERTY RevisionNamesIndex
CHECK_DEADLOCK FALSE
