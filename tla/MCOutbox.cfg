SPECIFICATION FairSpec
CONSTANTS
    d1 = d1
    d2 = d2
    d3 = d3
    a = a
    b = b
    e1 = e1
    e2 = e2
    NoOwner = NoOwner
    Events = {e1, e2}
    Dispatchers = {d1, d2, d3}
    Owners = {a, b}
    OwnerOf <- MCOwnerOf
    BatchSize = 2
    MaxRetries = 2
    MaxMishaps = 1
INVARIANTS
    OutboxTypeOK
    BatchesKeepApart
PROPERTIES
    NoEventLost
    EventsResolved
CHECK_DEADLOCK FALSE
