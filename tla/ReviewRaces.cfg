SPECIFICATION FairSpec
CONSTANTS
    r1 = r1
    r2 = r2
    p1 = p1
    p2 = p2
    t1 = t1
    t2 = t2
    t3 = t3
    Review = {r1, r2}
    Path = {p1, p2}
    SafePath = {p1}
    Text = {t1, t2}
    Oversized = {}
    MaxAttempts = 2
    MaxEdits = 1
    MaxSettings = 1
INVARIANTS
    TypeOK
    OnlyReviewedWrites
    QuietAfterUnload
PROPERTY NeverStuck
CHECK_DEADLOCK FALSE
