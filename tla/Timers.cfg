SPECIFICATION FairSpec
CONSTANTS
    MaxTimerHandshakes = 1
    MaxEvents = 2
    QueueSize = 1
INVARIANTS
    KeysTimed
    StoppedSilent
PROPERTIES
    PacketResolved
    DataAnswered
    SilenceNoticed
    PersistentAlive
CHECK_DEADLOCK FALSE
