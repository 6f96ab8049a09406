CONSTANTS
    Worker = {w1, w2}
    Mac1 = {m1, m2}
    Address = {a1, a2}
    RefreshTime = 2
    QueueSize = 2
    UnderLoadQueueSize = 1
    Elsewhere = Elsewhere
    None = None
SPECIFICATION FairSpec
INVARIANTS CookieRecent
PROPERTY EventuallyAdmitted
