SPECIFICATION HistoryFairSpec
CONSTANTS
    w1 = w1
    r1 = r1
    r2 = r2
    Workers = {w1}
    Recipients = {r1, r2}
    Types = {"Alert", "Report"}
    GracePeriod = 2
    WorkingTimeout = 1
    LogRetention = 1
    Horizon = 2
    MaxPending = 1
    MaxCrashes = 1
    Editing = FALSE
    None = None
PROPERTIES
    NagsOncePerGracePeriod
    OwnersToldOncePerGracePeriod
    ImplementsLifecycle
    StallRecovers
