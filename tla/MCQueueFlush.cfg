SPECIFICATION Spec
CONSTANTS
    x = x
    y = y
    f = f
    g = g
    Items = {x, y}
    Flushers = {f, g}
    MaxEpoch = 4
    Faults = {"io", "crash"}
INVARIANTS
    NewestNotSkipped
    RenamesOwnSnapshot
