SPECIFICATION Spec
SYMMETRY Symmetry
CONSTANTS
    NoPrefix = NoPrefix
    Absent = Absent
    NoCommit = NoCommit
    NoPub = NoPub
    Publisher = Publisher
    Free = Free
    NoCohort = NoCohort
    k1 = k1
    k2 = k2
    c1 = c1
    c2 = c2
    t1 = t1
    t2 = t2
    t3 = t3
    t4 = t4
    Requests <- ClientRequests
    Tasks = {t1, t2, t3}
    Keys = {k1, k2}
    Cohorts = {c1, c2}
    Retained = {c2}
    MaxPendingOperations = 4
    MaxRuns = 10
    Faults = {"prepare", "cas", "fence", "install", "protect", "read"}
    MaxFaults = 2
    MaxBatchItems = 2
    MaxPendingItems = 3
    RequestRuns = 8
    PauseRuns = 9
    RetryInterval = 1
    HasGuard = TRUE
    MaxCrashes = 1
INVARIANTS
    TypeOK
    NoSpuriousFailure
    AckedIsDurable
    NoOrphanStaged
    RefusedIsInvisible
    ConditionsHoldInHistory
    AcceptedIsHistory
    GenerationsIncrease
    NoStrandedBatch
    NoLostWakeup
PROPERTIES
    ImplementsCommittedStore
