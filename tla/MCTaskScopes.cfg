SPECIFICATION LiveSpec
CONSTANTS
    Spawners = {c1}
    Joiners = {c2}
    Scopes = {"root", "control"}
    Up <- MCUp
    ClassOf <- MCClass
    Names = {"native"}
    Tasks = {1, 2}
    DataCapacity = 1
    ControlCapacity = 1
INVARIANTS WorkIsAccountedFor CancellationIsExact
PROPERTIES CancelAndJoinReturns
CHECK_DEADLOCK FALSE
