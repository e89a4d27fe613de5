CONSTANTS
    own = own
    Agents = {1, 2, 3}
    Roster = {1, 2, 3}
    Runs = {own}
    Requested <- MCRequested
    RequireReport = {own}
    BatchSize = 2
    MissingKept = 1
    MaxAttempts = 2
    Unreachable = {3}
    MaxReceives = 2
    Headroom = 4
    MaxLost = 2
SPECIFICATION PipelineSpec
INVARIANTS PipelineTypeOK CopiesAccounted ManifestAccounts NobodyOverlooked NoEarlyMessage
           DrainAccounted BudgetSuffices DrainedMeansSettled
PROPERTY RunEnds
CHECK_DEADLOCK FALSE
