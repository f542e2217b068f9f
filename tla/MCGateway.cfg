SPECIFICATION Spec
CONSTANTS
    None = None
    Runtimes = {r1, r2}
    Workspaces = {a, b}
    Paths = {p1, p2}
    Specs = {s1, s2}
    Ephemeral = {s2}
    Offers <- Clients
    MaxEdits = 1
    MaxFaults = 1
    MaxReceipts = 2
    MaxCalls = 2
    MaxOpen = 1
SYMMETRY Symmetric
INVARIANTS ReceiptsAreSound LocksSerialize CarriedOutOnce ApprovedIsWritten TrustIsGranted
PROPERTY RelocatedTogether
CHECK_DEADLOCK FALSE
