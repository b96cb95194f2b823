SPECIFICATION Spec
CONSTANTS
    c1 = c1
    c2 = c2
    r1 = r1
    boot = boot
    Boot = boot
    Clicks = {c1, c2}
    Replays = {r1}
    MaxSessions = 2
INVARIANTS
    GameTypeOK
    BetsAreFresh
    CastsTakeTurns
    SequencesInStep
    FishAccounted
PROPERTIES
    ButtonReturns
CHECK_DEADLOCK FALSE
