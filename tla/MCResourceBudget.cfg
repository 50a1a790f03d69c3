SPECIFICATION Spec
CONSTANTS
    i1 = i1
    i2 = i2
    r1 = r1
    r2 = r2
    Ids = {i1, i2}
    Slots = {r1, r2}
    Dims <- MCDims
    Policies <- MCPolicies
    RootPolicy <- MCRoot
    Demands <- MCDemands
    ChildCapacity = 2
    BookBytes = 1
    MaxNative = 2
    MaxScopes = 2
SYMMETRY MCSymmetry
CHECK_DEADLOCK FALSE
INVARIANTS LedgersAreExact TreeIsLive
PROPERTIES LimitsHoldAtEveryLevel
