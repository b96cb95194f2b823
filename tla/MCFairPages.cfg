SPECIFICATION Spec
CONSTANTS
    Scale = 20
    Cent = 2
    r1 = r1
    r2 = r2
    Rounds = {r1, r2}
    NoRound = NoRound
    Settlements <- MCSettlements
    s1 = s1
    s2 = s2
    Slots = {s1, s2}
    MaxEdits = 2
INVARIANTS
    FairTypeOK
    CardIsTrue
    PictureIsOne
CHECK_DEADLOCK FALSE
