SPECIFICATION ReplaySpec
CONSTANTS
    Policies <- MCPolicies
    ClockError = 1
    MaxLead = 1
    MaxTail = 2
    MaxPages = 1
    MaxTime = 4
    MaxCommits = 6
INVARIANTS
    RegistryValid
    PromiseHonoured
    WindowKept
    CaptureAlwaysValid
    DueWhenReleasable
    ReplayAgrees
    PagesReadable
