SPECIFICATION FairSpec
CONSTANTS
    Peer = {p}
    Worker = {w1, w2}
    Nil = Nil
    NonceSize = 1
    OutboundSize = 1
    EncryptionSize = 1
    RejectAfterMessages = 2
    Stoppable = {p}
    Unsteady = {p}
    Closes = TRUE
    MaxElements = 2
    MaxKeys = 2
INVARIANTS NonceUsedOnce LockHasHolder SealedBeforeSent
PROPERTIES OrderKept SenderWaitEnds RoutinesEnd
CHECK_DEADLOCK FALSE
