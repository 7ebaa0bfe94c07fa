SPECIFICATION FairSetBack
CONSTANTS
    a = a
    b = b
    h1 = h1
    h2 = h2
    Peer = {a, b}
    MsgId = {1, 2}
    Envelope <- Intrusion
    Handler = {h1}
    NoRow = NoRow
    MaxPeers = 2
    MaxMessages = 2
    Retention = 3
    LeaseTimes = {1}
    Skew = 0
    Lifetime = 2
    BusyTimeout = 1
    MaxClock = 3
    MaxSetBacks = 1
INVARIANTS RepliesStayInConversation SetBackRemembers
PROPERTIES NoOvertaking SetBackLosesNothing SetBackHonoursLease EveryMessageSettles EveryLeaseReturns
