SPECIFICATION Spec
CONSTANTS
    a = a
    b = b
    c = c
    repo1 = repo1
    Runs = {a, b}
    Repos = {repo1}
    RepoOf <- OneRepo
    PlanOf <- DistinctPlans
    MaxQueueSize = 2
    MaxConsecutiveFailures = 2
    Phased = {a, b}
    MaxCrashes = 3
SYMMETRY AnyRun
INVARIANTS
    QueuedSurvives
    NotQueuedTwice
    EndIsDurable
    RunningIsWatchable
    NoLockLeak
PROPERTIES
    NoLeftoverSession
    NobodyForgotten
CHECK_DEADLOCK FALSE
