SPECIFICATION AgentsSpec
CONSTANTS
    Task <- FiveTasks
    DependsOn <- Diamond
    Concurrency = 2
    Chains <- NewAndResumed
    Tool = {"w", "r"}
    MutatingTool = {"w"}
    Argument = {"a"}
    RequiredTool = {"w"}
    MaxLoopIterations = 3
    MaxCallsPerTurn = 2
    NoProgressLimit = 1
    MaxFanout = 2
    MaxGraphNodes = 2
    TaskTotalCallBudget = 5
    FailureThreshold = 3
    MaxWorkers = 2
    Event = {"e1", "e2", "e3"}
    Identifier = {"a", "b"}
    WorkerTask = {"t1", "t2"}
    IdOf <- Ids
    RevisionOf <- Revs
    SequenceOf <- Seqs
    ScopeOf <- Scopes
    RecordOnly = {"e3"}
    MayExpire = {"e2"}
    MaxUpserts = 2
    MaxDeliveries = 1
    Change = {"c1", "c2"}
    GuidedTask = {"t1"}
    TargetOf <- OneTarget
    Unclear = {"c2"}
    MaxRevision = 2
    MaxRestarts = 1
    MaxWrites = 2
    ToolCall = {"c1"}
    ToolTaskOf <- OneTool
    MaxEpoch = 2
    MaxRequests = 3
    MaxRevisionOf = 2
    Operation = {"o"}
    Ask = {1, 2}
    Decider = {"d1", "d2", "d3"}
    Archives <- TwoArchives
    Caller = {"s1", "s2"}
    MaxItems = 2
    MaxSummaryCalls = 4
    MaxSummaryCrashes = 1
    Node = {n1, n2}
    n1 = n1
    n2 = n2
    MaxGraphRevision = 7
SYMMETRY AlikeNodes
INVARIANTS
    DagTypeOK
    DependenciesFirst
    WithinConcurrency
    LoopInv
    RuntimeGuidanceInv
    AskInv
    SummaryInv
    ContextInv
PROPERTIES
    DoneIsFinal
    ClaimsMatchRuns
    UnknownBlocksCompletion
CHECK_DEADLOCK FALSE
