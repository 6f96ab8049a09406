SPECIFICATION FilterSpec
CONSTANTS
    WordSize = 2
    BacktrackWords = 3
    WindowSize = 4
    RejectAfter = 13
    Counter <- Counters
INVARIANTS RingExact
PROPERTIES ImplementsWindow
