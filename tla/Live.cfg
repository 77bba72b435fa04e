\* What must happen in the end, part by part; two connections at the relay.
SPECIFICATION LiveSpec
CONSTANTS
    Conns = {c1, c2}
    Ids = {id1, id2}
    None = None
    MaxChannels = 1
    CallIds = {q1, q2}
    ReplayWindow = 1
    SeenLimit = 1
    ClockBound = 2
    MaxRestarts = 2
PROPERTIES
    HandshakeEnds
    ChannelsEnd
    CallSettles
    SignalEndsAll
    RequestSettles
CHECK_DEADLOCK FALSE
