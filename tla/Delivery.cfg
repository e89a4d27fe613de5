SPECIFICATION Spec
CONSTANTS
    m1 = m1
    m2 = m2
    m3 = m3
    a1 = a1
    a2 = a2
    Messages = {m1, m2, m3}
    Agents = {a1, a2}
    Nobody = Nobody
    Workers = {w1, w2}
    AgentOf <- AgentOfMessage
    Malformed = {m3}
    BatchSize = 2
    MaxReceives = 3
    Lease = 4
    LambdaTimeout = 2
    Visibility = 5
    MaxFaults = 2
SYMMETRY Symmetry
CHECK_DEADLOCK FALSE
INVARIANTS
    TypeOK
    OneSender
    OneInvocation
    NothingLost
