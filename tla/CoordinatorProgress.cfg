SPECIFICATION FairSpec
CONSTANTS
    NoPrefix = NoPrefix
    Absent = Absent
    NoCommit = NoCommit
    NoPub = NoPub
    Publisher = Publisher
    Free = Free
    NoCohort = NoCohort
    k1 = k1
    k2 = k2
    c1 = c1
    c2 = c2
    t1 = t1
    t2 = t2
    t3 = t3
    t4 = t4
    Requests <- Maintenance
    Tasks = {t1, t2, t3}
    Keys = {k1}
    Cohorts = {c1}
    Retained = {}
    MaxPendingOperations = 4
    MaxRuns = 4
    Faults = {"cas", "fence", "install"}
    MaxFaults = 2
    MaxBatchItems = 1
    MaxPendingItems = 3
    RequestRuns = 1
    PauseRuns = 3
    RetryInterval = 2
    HasGuard = TRUE
    MaxCrashes = 0
INVARIANTS
    AcceptedIsHistory
PROPERTIES
    RecoveryStopsWrites
    EveryRequestAnswered
