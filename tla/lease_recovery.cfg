SPECIFICATION LeaseSpec
CONSTANTS
    p1 = p1
    p2 = p2
    p3 = p3
    takeover = takeover
    Process = {p1, p2, p3}
    Recoverer = {p2}
    Takeover = takeover
    Renewer = {"timer"}
    TTL = 2
    Punctual = TRUE
    MaxTime = 3
    MaxRevision = 3
    MaxCrashes = 1
INVARIANTS
    OneHolder
    RecoveryInv
SYMMETRY Sessions
CHECK_DEADLOCK FALSE
