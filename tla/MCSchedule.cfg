SPECIFICATION Spec
CONSTANTS
  s1 = s1
  s2 = s2
  Ids = {s1, s2}
  Kinds = {"cron", "oneshot", "delayed"}
  Delay = 1
  Period = 2
  MaxTime = 4
  MaxFaults = 2
  None = None
SYMMETRY IdSymmetry
INVARIANT
  OneRunPerDueTime
CHECK_DEADLOCK FALSE
