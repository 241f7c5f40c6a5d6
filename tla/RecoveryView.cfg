SPECIFICATION ViewSpec
CONSTANTS
    Policies <- MCPolicies
    ClockError = 1
    MaxLead = 1
    MaxTail = 2
    MaxPages = 1
    MaxTime = 5
    MaxCommits = 5
    ListLimit = 1
INVARIANTS
    ListingComplete
    RefusedOnlyWhenExpired
PROPERTY
    AdmittedUnderAuthority
