SPECIFICATION Spec
CONSTANTS
    a = a
    b = b
    c = c
    repo1 = repo1
    repo2 = repo2
    Runs = {a, b}
    Repos = {repo1}
    RepoOf <- OneRepo
    PlanOf <- DistinctPlans
    MaxQueueSize = 2
    MaxConsecutiveFailures = 2
    MaxConcurrent = 1
    Slots = {1}
    MaxClients = 1
    Requests = {"submit", "stop", "detach", "remove", "clear"}
    Outcomes = {"completed", "failed", "crashed", "network", "panicked", "heartbeat", "already_done"}
    Faults = {"preflight", "register", "spawn", "send", "flush", "kill", "session"}
SYMMETRY RunSymmetry
INVARIANTS
    TypeOK
    NoLockLeak
    PendingSound
    RunningIsWatchable
PROPERTIES
    TerminalForever
