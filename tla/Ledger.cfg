SPECIFICATION Spec
CONSTANTS
    Workers = {w1, w2, w3}
    Lease = 2
    LambdaTimeout = 1
    MaxCas = 2
    MaxSes = 2
    MaxDeliveries = 3
    MaxClock = 3
SYMMETRY Symmetry
CHECK_DEADLOCK FALSE
INVARIANTS
    TypeOK
    OneSender
    SenderHoldsLease
    EmailsAccounted
    AckedIsSettled
PROPERTIES
    SentIsFinal
    ImplementsRegister
