SPECIFICATION LimiterSpec
CONSTANTS
    Source = {x, y}
    Caller = {w1, w2}
    PacketCost = 2
    MaxTokens = 4
    GarbageCollectTime = 4
    MaxEntries = 3
    Nobody = Nobody
INVARIANTS
    LimiterExact
    NeverStricter
