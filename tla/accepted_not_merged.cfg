SPECIFICATION StateSpec
CONSTANTS
    Parts = {"git"}
    ChainTask = {1, 2, 3}
    Before <- After1
    Process = {c1, c2}
    c1 = c1
    c2 = c2
    Command = {"create", "resume", "execute", "cancel", "abandon"}
    Nobody = "nobody"
    Earlier = "earlier"
    Takeover = "takeover"
    LeftChains <- PartlyDone
    MaxRenewals = 1
    MaxCrashes = 1
    Submission = {1, 2, 3}
    KeyOf <- Keys
    TaskOf <- Tasks
    MaxApplications = 2
    Poll = {"poll1", "poll2"}
    Query = {"query"}
    Canceller = {"cancel"}
    WritingTask = {"t1", "t2"}
    MaxLaunches = 3
    MaxGitRestarts = 1
    SeqTask = {"t1", "t2"}
    Tier <- OneTier
    Publisher = {"p1", "p2"}
    MaxSeqRevision = 4
    Tertiary = {"a"}
    Closer = {1, 2}
    LastPhase = 5
    HandoffPhase = 2
    MaxRuns = 2
INVARIANT AcceptedIsMerged
CHECK_DEADLOCK FALSE
