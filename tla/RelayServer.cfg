\* Three connections and two channel ids for one place in the map: two that
\* meet and a third that comes too many, or in a later life of the id.
SPECIFICATION Spec
CONSTANTS
    Conns = {c1, c2, c3}
    Ids = {id1, id2}
    None = None
    MaxChannels = 1
SYMMETRY Symmetry
INVARIANTS
    TypeOK
    RoleExclusive
    PeerIsReached
PROPERTY
    LivePeersKeepTheirChannel
CHECK_DEADLOCK FALSE
