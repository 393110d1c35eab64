SPECIFICATION HistorySpec
CONSTANTS
    w1 = w1
    r1 = r1
    Workers = {w1}
    Recipients = {r1}
    Types = {"Alert", "Report"}
    GracePeriod = 2
    WorkingTimeout = 1
    LogRetention = None
    Horizon = 2
    MaxPending = 1
    MaxCrashes = 0
    Editing = FALSE
    None = None
PROPERTY OnlyErrorsSinceLastEmail
