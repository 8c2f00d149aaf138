SPECIFICATION Spec
CONSTANTS
  PhaseCount = 2
  Ship = 2
  MaxCrashes = 2
  Window = 1
  Stability = 2
  MaxTotal = 3
  MaxPerPhase = 1
  PhaseNames = {1, 2}
  Gws = {1, 2}
  Batches <- Pairs
  Plans = {a, b}
  a = a
  b = b
  None = None
  AutoMerge = TRUE
  Durations = {1, 2}
  MaxRetries = 3
  MaxFaults = 1
INVARIANTS
  LiveSessionIsOwned
  RestartsAreLimited
  RestartsAreRemembered
PROPERTIES
  SuccessHasEvidence
  EverybodyEnds
CHECK_DEADLOCK FALSE
