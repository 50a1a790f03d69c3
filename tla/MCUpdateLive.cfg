SPECIFICATION LiveSpec
CONSTANTS
    f1 = f1
    f2 = f2
    c1 = c1
    c2 = c2
    q1 = q1
    Files = {f1}
    Contents = {c1, c2}
    Queries = {q1}
    Policies = {"Source"}
    MaxRetries = 0
    Workloads <- MCLiveness
PROPERTIES PublicationsAreSerial RequestsAreReconciled OutageEnds NoLostWakeup
CHECK_DEADLOCK FALSE
