SPECIFICATION Spec
CONSTANTS
    None = None
    r1 = r1
    r2 = r2
    Runtimes = {r1, r2}
    Operator = operator
    Old = old
    Main = main
    Offers <- Uses
    MaxRevision = 2
    MaxExecutes = 2
    MaxFaults = 1
    MaxMishaps = 1
INVARIANTS OnlyApprovedRuns DeploymentIsSound ReceiptIsBacked DecisionIsTrue
SYMMETRY Symmetric
CHECK_DEADLOCK FALSE
