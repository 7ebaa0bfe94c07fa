SPECIFICATION Spec
CONSTANTS
    a = a
    b = b
    h1 = h1
    h2 = h2
    Peer = {a, b}
    MsgId = {1}
    Envelope <- Longest
    Handler = {h1, h2}
    NoRow = NoRow
    MaxPeers = 2
    MaxMessages = 1
    Retention = 4
    LeaseTimes = {1, 2}
    Skew = 1
    Lifetime = 2
    BusyTimeout = 1
    Letter <- TheLetter
    MaxClock = 6
SYMMETRY HandlerSymmetry
INVARIANTS AcceptedRemembered
PROPERTIES AcceptedOnce LetterIsSafe
