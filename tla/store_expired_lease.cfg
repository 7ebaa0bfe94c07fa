SPECIFICATION Spec
CONSTANTS
    a = a
    b = b
    h1 = h1
    h2 = h2
    Peer = {a, b}
    MsgId = {1, 2}
    Envelope <- Conversation
    Handler = {h1, h2}
    NoRow = NoRow
    MaxPeers = 2
    MaxMessages = 1
    Retention = 1
    LeaseTimes = {1, 2}
    Skew = 1
    Lifetime = 3
    BusyTimeout = 1
    MaxClock = 4
SYMMETRY HandlerSymmetry
PROPERTIES ExpiredNeverLeased
