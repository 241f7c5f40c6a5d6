SPECIFICATION FairSpec
CONSTANTS
    g1 = g1
    g2 = g2
    c0 = c0
    c1 = c1
    c2 = c2
    o1 = o1
    Gateways = {g1, g2}
    Commits = {c0, c1, c2}
    Payloads = {o1}
    Genesis = c0
    MaxFaults = 1
INVARIANTS
    Inductive
    NothingNeededDeleted
    UploadsKept
PROPERTIES
    GarbageReclaimed
