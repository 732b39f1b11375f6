SPECIFICATION FairLeaseSpec
CONSTANTS
    p1 = p1
    p2 = p2
    p3 = p3
    takeover = takeover
    Process = {p1, p2}
    Recoverer = {p2}
    Takeover = takeover
    Renewer = {"loop", "timer"}
    TTL = 2
    Punctual = FALSE
    MaxTime = 2
    MaxRevision = 3
    MaxCrashes = 0
INVARIANTS
    LeaseTypeOK
PROPERTIES
    LostLeaseIsNoticed
CHECK_DEADLOCK FALSE
