CONSTANTS
    Agents = {1, 2, 3}
    Shards = 2
    NoAgent = 0
    NoPolicy = ""
    PolicyRows <- MCPolicyRows
    ClaimRows <- MCClaimRows
    MaxPolicies = 2
    MaxPolicyRows = 3
    MaxClaimRows = 2
SPECIFICATION Spec
INVARIANTS TypeOK PathsAgree PoliciesReportedOnce ClaimsAccounted CapacityExact
CHECK_DEADLOCK FALSE
