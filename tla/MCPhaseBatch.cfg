SPECIFICATION Spec
CONSTANTS
  PhaseCount = 2
  Ship = 2
  PromptGrace = 0
  Stall = 1
  IdleNudge = 0
  IdleKill = 1
  PhaseTimeout = 3
  PlanCount = 2
  Groups <- TwoGroups
  SkipIf <- Conditions
  None = None
  SkipMaps = {{}, {2}}
  MaxFailures = 1
  MaxSessions = 1
  Classes = {"api", "auth"}
  MaxRetriesOf <- Retries
  Fatal = {"auth"}
  Transient = {"api"}
  MaxFaults = 2
  MaxResumes = 1
INVARIANTS
  ResultsInOrder
  BudgetHolds
PROPERTIES
  BreakerHolds
  HandoffIsHonest
  PassedIsDone
  EveryBatchEnds
CHECK_DEADLOCK FALSE
