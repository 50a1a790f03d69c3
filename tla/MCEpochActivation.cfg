SPECIFICATION LiveSpec
CONSTANTS
  MaxOps = 2
  Queries = {q1, q2}
  FaultKinds = {"append", "authority", "build", "cache", "acknowledge", "marker", "store", "record", "drain", "crash"}
  MaxFaults = 3
  MaxAttempt = 2
  MaxSweeps = 2
  MaxGeneration = 4
INVARIANTS ServedIsSelected RecordsTellTheTruth ClosedGateHasAnOwner
PROPERTIES PreparedSucceeds NoAdmissionBehindTheChain
