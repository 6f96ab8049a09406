SPECIFICATION Spec
CONSTANTS
    Key = {k1, k2, k3}
    Address = {a1}
    Connection = {c1, c2}
    Weak = {k3}
    MaxPeers = 2
    Nil = Nil
INVARIANTS
    RunningAreConfigured
    RoutesOfPeers
    OwnKeyUnrouted
SYMMETRY Symmetry
CHECK_DEADLOCK FALSE
