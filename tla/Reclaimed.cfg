SPECIFICATION Spec
CONSTANTS
    m1 = m1
    m2 = m2
    m3 = m3
    a1 = a1
    a2 = a2
    Messages = {m1}
    Agents = {a1, a2}
    Nobody = Nobody
    Workers = {w1, w2}
    AgentOf <- AgentOfOne
    Malformed = {}
    BatchSize = 2
    MaxReceives = 3
    Lease = 4
    LambdaTimeout = 2
    Visibility = 5
    MaxFaults = 2
CHECK_DEADLOCK FALSE
INVARIANT
    DeadLetteredTried
