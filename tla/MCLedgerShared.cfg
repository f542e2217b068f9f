SPECIFICATION Spec
CONSTANTS
    r1 = r1
    r2 = r2
    t1 = t1
    o1 = o1
    o2 = o2
    none = none
    None = none
    Runtimes = {r1, r2}
    Tasks = {t1}
    Owners = {o1, o2}
    Leases = {"l1"}
    RequestOf <- MCOwnRequests
    Arguments <- MCArguments
    Asked = {"review_ready", "succeeded"}
    Trees = {"canonical"}
    MaxRecords = 1
    Modes = {"preserving", "recovering"}
    MaxAttempts = 1
SYMMETRY MCAlike
INVARIANTS LedgerIsSound EvidenceIsOfThisAttempt
PROPERTIES SettledStaysSettled OwnerIsGivenUpFirst
CHECK_DEADLOCK FALSE
