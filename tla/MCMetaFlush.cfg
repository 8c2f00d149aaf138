SPECIFICATION MetaSpec
CONSTANTS
    u = u
    v = v
    w = w
    Writers = {u, v, w}
    Staged = {w}
    MaxChanges = 4
    MetaFaults = {"io", "crash"}
INVARIANTS
    MetaDurable
CHECK_DEADLOCK FALSE
