SPECIFICATION FgSpec
CONSTANTS
  Gate = 3
  Window = 2
  Early = 1
  CompletionGrace = 2
  GoneGrace = 2
  ConfirmMedium = 4
  MinAge = 2
  HungTicks = 2
  IdleNudge = 1
  IdleKill = 2
  PhaseBudget = 3
  GapAt <- MCGapAt
  FailedAt <- MCFailedAt
  Stall = 2
  Warmup = 1
  PipelineTimeout = 4
  MaxAccepts = 1
  MaxChanges = 1
  Panes = {"plain", "error", "prompt", "complete"}
  Checkpoints = {"none", "work1", "gap", "ship", "done"}
  Loops = {"missing", "active", "inactive"}
  Signals = {"turn", "ended", "stopFailure", "permission"}
  Sessions = {"present", "absent", "hung"}
  Quiet = {"artifacts", "swarm"}
  Backdates = {0}
  MinSession = 1
  PaneAge = 2
  Restless = {"pane", "permission"}
PROPERTIES
    EndHasCause
    EventuallyEnds
