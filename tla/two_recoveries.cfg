SPECIFICATION LeaseSpec
CONSTANTS
    p1 = p1
    p2 = p2
    p3 = p3
    takeover = takeover
    Process = {p1, p2, p3}
    Recoverer = {p2, p3}
    Takeover = takeover
    Renewer = {"loop"}
    TTL = 2
    Punctual = TRUE
    MaxTime = 3
    MaxRevision = 3
    MaxCrashes = 1
INVARIANTS
    OneRunner
CHECK_DEADLOCK FALSE
