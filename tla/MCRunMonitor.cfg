SPECIFICATION Spec
CONSTANTS
  Gate = 3
  Window = 2
  Early = 1
  CompletionGrace = 2
  GoneGrace = 2
  ConfirmMedium = 3
  MinAge = 1
  HungTicks = 2
  IdleNudge = 1
  IdleKill = 2
  PhaseBudget = 3
  GapAt <- MCGapAt
  FailedAt <- MCFailedAt
  Stall = 2
  Warmup = 1
  PipelineTimeout = 8
  MaxAccepts = 1
  MaxChanges = 2
  Panes = {"plain", "error", "prompt", "complete"}
  Checkpoints = {"none", "work1", "gap", "failing", "ship", "done", "early"}
  Loops = {"missing", "active", "inactive"}
  Signals = {"turn", "ended", "stopFailure", "permission"}
  Sessions = {"present", "absent", "hung"}
  Quiet = {"artifacts", "swarm", "network"}
  Backdates = {0, 1}
INVARIANTS
    VerdictHasCause
PROPERTIES
    KillAfterSilence
    ImplementsContract
    EventuallyVerdict
