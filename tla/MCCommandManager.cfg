SPECIFICATION ManagerLiveSpec
CONSTANTS
    Workspaces = {1, 2}
    MaxStarts = 2
INVARIANTS RuntimesAreOwned
PROPERTIES CallReturns
CHECK_DEADLOCK FALSE
