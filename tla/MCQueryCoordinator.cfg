SPECIFICATION Spec
CONSTANTS
    q1 = q1
    q2 = q2
    q3 = q3
    w1 = w1
    w2 = w2
    p1 = p1
    p2 = p2
    Workspace <- MCWorkspace
    Principal <- MCPrincipal
    Key <- MCKey
    Queries = {q1, q2, q3}
    Cancellations = {"c1"}
    MaxIds = 1
    MaxRunning = 2
    MaxPerWorkspace = 1
    MaxPerPrincipal = 1
    MaxTasks = 3
    Pages = 1
    MaxRecords = 3
    Workloads <- MCWorkloads
INVARIANTS CapacityIsUsed DeliveredIsDurable RestartIsPossible
PROPERTIES DecidedOnce
CHECK_DEADLOCK FALSE
