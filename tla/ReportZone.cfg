CONSTANTS
    NAgents = 2
    PoliciesPerAgent = 1
    ClaimPolicy <- MCClaimPolicy
    Partitions = 2
    Shards = 2
    NoReport = NoReport
    Watched = {1}
    Asked = {1}
    MaxStarts = 3
SPECIFICATION Spec
INVARIANTS TypeOK ReportsWhole DayComplete NoLeftovers
           RefusedOnlyIfOverwritten DeadLinkOnlyIfOverwritten
CONSTRAINT OneReader
CHECK_DEADLOCK FALSE
