SPECIFICATION Spec
CONSTANTS
    none = none
    r1 = r1
    r2 = r2
    None = none
    Runtimes = {r1}
    MaxSessions = 2
    MaxLeases = 2
    MaxContent = 1
    MaxMishaps = 1
    MaxParallel = 1
INVARIANTS TreesAreSound DirtyTreesAreKnown
PROPERTIES WorkIsKept RemovedOnlyWhenUnused
CHECK_DEADLOCK FALSE
