SPECIFICATION Spec
CONSTANTS
    Workers = {w1, w2}
    Lease = 2
    LambdaTimeout = 1
    MaxCas = 5
    MaxSes = 4
    MaxDeliveries = 3
    MaxClock = 6
SYMMETRY Symmetry
CHECK_DEADLOCK FALSE
INVARIANT
    NeverEmailedTwice
