SPECIFICATION FairSpec
CONSTANTS
    e1 = e1
    e2 = e2
    Last = 4
    Events = {e1, e2}
    Identified = {e1}
    EventAt <- MCEventAt
    Unreadable = {2}
    MaxSize = 2
    MaxFaults = 1
    MaxStops = 1
    MaxRejoins = 1
INVARIANTS
    SettleTypeOK
    ProcessedOnce
    LossesAreKnown
PROPERTIES
    BatchesEnd
CHECK_DEADLOCK FALSE
