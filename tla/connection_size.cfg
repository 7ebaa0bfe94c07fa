SPECIFICATION Spec
CONSTANTS
    Ink <- Words
    Blank <- NoText
    Null = Null
    Empty = Empty
    NoRow = NoRow
    UuidOf <- Notations
    Canonical <- Names
    Lower <- SmallLetters
    Second = 2
    Lifetime = 4
    MaxBody = 4
    MaxBytes = 10
    Envelope = 3
    Ask <- Requests
    MaxAsks = 3
INVARIANTS AdmissibleArrives
CHECK_DEADLOCK FALSE
