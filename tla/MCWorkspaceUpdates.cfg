SPECIFICATION Spec
CONSTANTS
    f1 = f1
    f2 = f2
    c1 = c1
    c2 = c2
    q1 = q1
    Files = {f1, f2}
    Contents = {c1, c2}
    Queries = {q1}
    Policies = {"Source", "Semantic", "Best"}
    MaxRetries = 1
    Workloads <- MCSafety
SYMMETRY MCSymmetry
INVARIANTS BarrierTellsTheTruth StrictAnswerIsRecent
CHECK_DEADLOCK FALSE
