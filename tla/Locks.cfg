SPECIFICATION Spec
CONSTANTS
    Nil = Nil
    Goroutine = {"receiver", "events", "closer", c, w}
    Connection = {c}
    Worker = {w}
    c = c
    w = w
INVARIANTS
    CircularWaitsChange
    CircularWaitsExplained
CHECK_DEADLOCK FALSE
