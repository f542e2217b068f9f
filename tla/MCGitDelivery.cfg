CONSTANTS
    r1 = r1  r2 = r2  p1 = p1  own = own  other = other  none = none
    None = none
    Runtimes = {r1, r2}
    Preflights = {p1}
    Paths = {own, other}
    Scope = {own}
    MaxContent = 1
    MaxLog = 3
    MaxOutside = 2
SPECIFICATION Spec
CHECK_DEADLOCK FALSE
SYMMETRY MCRuntimeSymmetry
INVARIANTS TypeOK RunAtMostOnce BoundCommitIsInScope OutcomeIsTrue
PROPERTIES SettledOnce OthersStayStaged
