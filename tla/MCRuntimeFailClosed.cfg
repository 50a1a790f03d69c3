CONSTANTS
    Ops = {1, 2}
    Keys = {1, 2}
    Kinds = {"ActivateEpoch", "PublishRelations"}
    Heads = {0, 1, 2}
    Leases = {l1}
    Actors = {a1}
    Generations = {1, 2, 3, 4, 5}
    Transactions = {t1}
    Refs = {r1}
    MaxAttempt = 4
    MaxProbe = 3
    MaxRevision = 20
    Intents <- MCIntents
    HeadMoving = {"ActivateEpoch"}
    EpochOf <- MCEpochOf
    GenesisHead = 0
    QueueCapacity = 2
    MaxSweeps = 2
    DiagnosticsAvailable = FALSE
    MaxFaults = 1
    MaxSent = 1
SPECIFICATION FairSpec
PROPERTY AdmissionReopens
CHECK_DEADLOCK FALSE
