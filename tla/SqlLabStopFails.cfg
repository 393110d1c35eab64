SPECIFICATION Spec
CONSTANTS
    Requests <- AsyncRequests
    SQL_MAX_ROW = 2
    MaxStops = 1
    MaxKills = 0
    None = None
CHECK_DEADLOCK FALSE
PROPERTY StoppingIsNoFailure
