SPECIFICATION FairSpec
CONSTANTS
    Task <- TwoTasks
    DependsOn <- Chain
    Concurrency = 1
    Chains <- OnlyNew
    Outcome = {"success", "failure", "ambiguous"}
    GitTask = {}
    ResumeEnabled = FALSE
    CancelEnabled = TRUE
    LeaseEnabled = TRUE
    MaxLaunches = 4
    MaxInstructions = 2
    MaxStoreFailures = 0
    MaxLaunchFailures = 0
PROPERTIES
    MissionProgresses
    CancelIsAnswered
    LostLeaseEndsLoop
CHECK_DEADLOCK FALSE
