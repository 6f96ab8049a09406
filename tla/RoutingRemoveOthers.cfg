SPECIFICATION Spec
CONSTANTS
    Peer = {p, q}
    Nil = Nil
    v4 = v4
    v6 = v6
    Family = {v4, v6}
    Width <- Widths
    Removable = {p}
    MaxRoutes = 4
INVARIANTS RemoveKeepsOthers
