SPECIFICATION Spec
CONSTANTS
    a = a
    b = b
    c = c
    repo1 = repo1
    repo2 = repo2
    Runs = {a, b, c}
    Repos = {repo1, repo2}
    RepoOf <- TwoRepos
    PlanOf <- DistinctPlans
    MaxQueueSize = 2
    MaxConsecutiveFailures = 2
    MaxConcurrent = 1
    Slots = {1}
    MaxClients = 1
    Requests = {"submit", "remove", "clear"}
    Outcomes = {"completed", "failed"}
    Faults = {}
INVARIANTS
    QueueServed
PROPERTIES
    FifoPerRepo
