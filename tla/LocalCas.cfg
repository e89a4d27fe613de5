SPECIFICATION Spec
CONSTANTS
    Writers = {p1, p2}
    StaleAfter = 3
    WaitLimit = 1
    Prompt = TRUE
    MaxWrites = 5
    MaxCrashes = 1
    MaxClock = 7
CHECK_DEADLOCK FALSE
INVARIANTS
    TypeOK
    OwnsLock
PROPERTY
    ImplementsStore
