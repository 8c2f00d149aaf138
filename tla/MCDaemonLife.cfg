SPECIFICATION LifeSpec
CONSTANTS
    Daemons <- Pids
    Commands = {"background", "signal", "stop"}
    MaxDeaths = 1
    MaxCrashes = 2
    Window = 1
    Stability = 1
    MaxTotal = 3
    MaxPerPhase = 1
    PhaseNames <- NoPhases
INVARIANTS
    CrashesAreCounted
    LockIsExclusive
CHECK_DEADLOCK FALSE
