CONSTANTS
    Processes = {"p1", "p2"}
    Workspaces = {"w1", "w2"}
    Registry <- MCRegistry
    MaxGeneration = 3
    MaxFaults = 3
SPECIFICATION Spec
INVARIANTS LeasesExclude
PROPERTIES WritesFollowGenerations ImplementsAuthority
