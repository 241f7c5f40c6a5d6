SPECIFICATION CoverageSpec
CONSTANTS
    Policies <- MCPolicies
    ClockError = 0
    MaxLead = 0
    MaxTail = 1
    MaxPages = 1
    MaxTime = 4
    MaxCommits = 3
    UploadLocks = {1}

INVARIANT MetadataCovered
