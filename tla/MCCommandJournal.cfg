CONSTANTS
    Ops = {o1, o2}
    Keys = {k1}
    Kinds = {activate, publish}
    Heads = {h0, h1}
    Leases = {l1}
    Actors = {a1, a2}
    Generations = {1, 2}
    Transactions = {t1, t2}
    Refs = {r1}
    MaxAttempt = 2
    MaxProbe = 1
    MaxRevision = 9
SPECIFICATION Spec
INVARIANTS JournalIsReadable
PROPERTIES RowsOnlyAdvance UnknownCommitsKeepTheirExecutor
