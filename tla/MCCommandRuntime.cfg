CONSTANTS
    Ops = {1, 2}
    Keys = {1, 2}
    Kinds = {"ActivateEpoch", "PublishRelations"}
    Heads = {0, 1, 2}
    Leases = {l1}
    Actors = {a1}
    Generations = {1,2,3,4,5}
    Transactions = {t1}
    Refs = {r1}
    MaxAttempt = 4
    MaxProbe = 3
    MaxRevision = 20
    Intents <- MCIntents
    HeadMoving = {"ActivateEpoch"}
    EpochOf <- MCEpochOf
    GenesisHead = 0
    QueueCapacity = 2
    MaxSweeps = 2
    DiagnosticsAvailable = TRUE
    MaxFaults = 2
    MaxSent = 2
SPECIFICATION FairSpec
INVARIANTS EffectsMatchJournal ActorIsSerial
PROPERTIES OnlyCurrentWriterLands ImplementsLedger ImplementsJournal ImplementsAuthority AdmissionReopens
CHECK_DEADLOCK FALSE
