SPECIFICATION FairSpec
CONSTANTS
    Peer = {p, q}
    Connection = {a}
    Closer = {main, tun}
    Nil = Nil
INVARIANTS Settled FollowsInterface NoPeerAfterClose
PROPERTY RequestsEnd
CHECK_DEADLOCK FALSE
