SPECIFICATION DeliverySpec
CONSTANTS
    a = a
    b = b
    h1 = h1
    h2 = h2
    Peer = {a, b}
    MsgId = {1}
    Draft <- OneText
    Envelope <- OneTextStamped
    Handler = {h1, h2}
    NoRow = NoRow
    MaxPeers = 2
    MaxMessages = 1
    Retention = 1
    LeaseTimes = {1}
    WaitTimes = {1}
    Skew = 0
    Lifetime = 2
    BusyTimeout = 1
    MaxClock = 2
SYMMETRY HandlerSymmetry
INVARIANTS RetryRecognised
