SPECIFICATION Spec
CONSTANTS
    m1 = m1
    m2 = m2
    s1 = s1
    s2 = s2
    Maker = {m1, m2}
    Hub = {s1, s2}
    Plan <- EveryPlan
    NoFile = NoFile
    Blank = Blank
    NoSecret = NoSecret
SYMMETRY Symmetry
INVARIANTS ConsentedOrEncrypted ServedAsAnnounced ServesWholeToken
