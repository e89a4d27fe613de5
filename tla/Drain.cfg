SPECIFICATION FairSpec
CONSTANTS
    m1 = m1
    m2 = m2
    m3 = m3
    a1 = a1
    a2 = a2
    Messages = {m1, m2}
    Agents = {a1, a2}
    Nobody = Nobody
    Workers = {w1, w2}
    AgentOf <- AgentOfTwo
    Malformed = {}
    BatchSize = 2
    MaxReceives = 3
    Lease = 4
    LambdaTimeout = 2
    Visibility = 5
    MaxFaults = 3
CHECK_DEADLOCK FALSE
PROPERTIES
    QueueDrains
    OneRetryableFaultSurvived
