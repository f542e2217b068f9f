SPECIFICATION MaintenanceSpec
CONSTANTS
    Absent = Absent
    d1 = d1
    d2 = d2
    Dispositions = {d1, d2}
    Offers <- Uses
    MaxContent = 1
    MaxMishaps = 3
    MaxReceipts = 3
INVARIANTS EvidenceIsSound
SYMMETRY Symmetric
CHECK_DEADLOCK FALSE
