\* Four connections: one that leaves before its hello, one that was accepted
\* with it, and two that come afterwards.
SPECIFICATION Spec
CONSTANTS
    Conns = {c1, c2, c3, c4}
    Ids = {id}
    None = None
    MaxChannels = 1
SYMMETRY Symmetry
INVARIANT
    TwoPeersPerChannel
CHECK_DEADLOCK FALSE
