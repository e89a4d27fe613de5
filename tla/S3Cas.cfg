SPECIFICATION Spec
CONSTANTS
    Writers = {p1, p2, p3}
    Processes = {a, b}
    MaxWrites = 4
    MaxFaults = 2
SYMMETRY Symmetry
CHECK_DEADLOCK FALSE
INVARIANTS
    TypeOK
    OneWinner
    LockHasHolder
PROPERTY
    ImplementsStore
