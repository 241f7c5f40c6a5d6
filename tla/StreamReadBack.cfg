SPECIFICATION Spec
SYMMETRY Symmetry
CONSTANTS
    NoPrefix = NoPrefix
    Absent = Absent
    NoCommit = NoCommit
    NoPub = NoPub
    Publisher = Publisher
    Free = Free
    NoCohort = NoCohort
    k1 = k1
    k2 = k2
    c1 = c1
    c2 = c2
    t1 = t1
    t2 = t2
    t3 = t3
    t4 = t4
    Requests <- Streamed
    Tasks = {t1, t2}
    Keys = {k1}
    Cohorts = {c1}
    Retained = {}
    MaxPendingOperations = 4
    MaxRuns = 10
    Faults = {"read"}
    MaxFaults = 1
    MaxBatchItems = 2
    MaxPendingItems = 3
    RequestRuns = 8
    PauseRuns = 9
    RetryInterval = 1
    HasGuard = TRUE
    MaxCrashes = 0
INVARIANTS
    RefusedIsNotAnchored
