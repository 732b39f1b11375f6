SPECIFICATION StoresSpec
CONSTANTS
    Worker = {"w1", "w2"}
    LogicalOperation = {"o", "i"}
    Outside = {"o"}
    TargetOf <- Targets
    Mode = {"assist", "devolve", "ponder"}
    MaxGrants = 2
    MaxToolCalls = 3
    Command = {"p1", "p2"}
    Version = {1, 2}
    Content = {1, 2}
    EffectsOf <- SideEffects
    FirstRegistered <- SameContent
    MaxCommands = 5
    MaxRecords = 2
    MaxCrashes = 1
    Saver = {"s"}
    File = {"f"}
    MaxEdits = 2
    MaxPoints = 2
    MaxRestores = 1
    MaxSavingFaults = 1
    Store = {"s1"}
    Request = {1, 2, 3, 4}
    Retry = {3}
    WindowCapacity = 1
    MaxCapacity = 2
    Overlapping = FALSE
    Outcome = {"completed", "failed", "partially-completed"}
    MaxWindowCalls = 6
    MaxWaiting = 1
    MaxWindowFaults = 1
    Agent = {"a1", "a2"}
    Keeper = {"a2"}
    MaxFileEdits = 1
    MaxContents = 3
    MaxBackups = 2
    MaxRevisions = 4
    MaxVaultFaults = 1
    Importer = {"i1", "i2"}
    MaxChanges = 1
    MaxImportCalls = 4
    MaxImportFaults = 1
    Session = {"s1", "s2"}
    ElevationCaller = {"c1", "c2"}
    MaxElevations = 2
    MaxElevationCalls = 4
    MaxElevationCrashes = 1
INVARIANT OneReserves
CHECK_DEADLOCK FALSE
