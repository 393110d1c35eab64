SPECIFICATION Spec
CONSTANTS
    w1 = w1
    w2 = w2
    r1 = r1
    Workers = {w1, w2}
    Recipients = {r1}
    Types = {"Alert", "Report"}
    GracePeriod = 1
    WorkingTimeout = 0
    LogRetention = 0
    Horizon = 1
    MaxPending = 1
    MaxCrashes = 1
    Editing = TRUE
    None = None
SYMMETRY Symmetry
INVARIANTS
    TypeOK
    StallOnlyAfterCrash
    GraceHasItsSuccess
CONSTRAINT Explored
