SPECIFICATION Spec
CONSTANTS
    Task <- TwoTasks
    DependsOn <- Independent
    Concurrency = 2
    Chains <- NewAndResumed
    Outcome = {"success", "failure", "ambiguous", "permission-ask", "cancelled"}
    GitTask = {2}
    ResumeEnabled = TRUE
    CancelEnabled = FALSE
    LeaseEnabled = FALSE
    MaxLaunches = 3
    MaxInstructions = 1
    MaxStoreFailures = 1
    MaxLaunchFailures = 1
INVARIANTS
    TypeOK
    RecordedDoneIsDone
    ClaimHasWorker
    NoLostWakeup
    QuietChainIsPersisted
CHECK_DEADLOCK FALSE
