SPECIFICATION Spec
CONSTANTS
    None = None
    r1 = r1
    r2 = r2
    Runtimes = {r1, r2}
    MaxPatch = 2
    Structural = {2}
    Starts <- MCStarts
    MaxHead = 1
    MaxGrants = 2
    MaxEvents = 5
INVARIANTS IntegrationIsSound OnlyApprovedIsApplied
SYMMETRY Symmetric
CHECK_DEADLOCK FALSE
