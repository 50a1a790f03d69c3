SPECIFICATION RetentionLiveSpec
CONSTANTS
    q1 = q1
    q2 = q2
    r1 = r1
    r2 = r2
    Workspace <- MCOwner
    Principal <- MCOwner
    Key <- MCKey
    Queries = {q1, q2}
    Cancellations = {"c1"}
    MaxIds = 1
    MaxRunning = 1
    MaxPerWorkspace = 1
    MaxPerPrincipal = 1
    MaxTasks = 2
    Pages = 1
    MaxRecords = 2
    Releasers = {r1, r2}
    Workloads <- MCWorkloads
INVARIANTS StoreIsOwned ResultsAreWhole
PROPERTIES CleanupCompletes QueriesClose
CHECK_DEADLOCK FALSE
