SPECIFICATION Spec
CONSTANTS
    p1 = p1
    p2 = p2
    t1 = t1
    t2 = t2
    h1 = h1
    h2 = h2
    f1 = f1
    f2 = f2
    PeerId = {p1, p2}
    Token = {t1, t2}
    Alias = {"bob", "Bob", "eve"}
    CaseFold <- Fold
    Path = {f1, f2}
    Joiner <- Commands
    Handler = {h1, h2}
    NoRow = NoRow
    NoFile = NoFile
    Torn = Torn
    MaxPeers = 2
    MaxClock = 1
SYMMETRY Symmetry
INVARIANTS TypeOK JoinedHoldsCredential
PROPERTIES LastSeenFollowsClock DirectoryIsSafe
