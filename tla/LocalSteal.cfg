SPECIFICATION Spec
CONSTANTS
    Writers = {p1, p2, p3}
    StaleAfter = 1
    WaitLimit = 0
    Prompt = TRUE
    MaxWrites = 4
    MaxCrashes = 1
    MaxClock = 2
CHECK_DEADLOCK FALSE
INVARIANT
    OneWinner
