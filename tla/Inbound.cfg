SPECIFICATION FairSpec
CONSTANTS
    k1 = k1
    k2 = k2
    home = home
    elsewhere = elsewhere
    Datagram <- Datagrams
    Initiated = {k1}
    Receiver = {v4, v6}
    Worker = {w1, w2}
    DecryptionSize = 1
    InboundSize = 1
    Stops = TRUE
    Closes = TRUE
    Nil = Nil
    MaxElements = 2
INVARIANTS AcceptedGenuine AcceptedOnce EndpointGenuine
PROPERTIES ReceiverWaitEnds ReceiverEnds
CHECK_DEADLOCK FALSE
