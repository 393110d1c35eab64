SPECIFICATION BothSpec
CONSTANTS
    Requests <- AllRequests
    SQL_MAX_ROW = 2
    MaxStops = 2
    MaxKills = 1
    None = None
    Settings <- MCSettings
    NQueries = 2
    QUERY_UPDATE_BUFFER = 1
    Lag = 1
    Times = 2
CHECK_DEADLOCK FALSE
INVARIANTS
    BothTypeOK
    ResultsBeforeSuccess
    StoppedRunsNothing
    RowsAreExact
    LateAnswersDoNotMislead
PROPERTIES
    NeverRunsAgain
    QueriesEnd
    EndIsLearnt
