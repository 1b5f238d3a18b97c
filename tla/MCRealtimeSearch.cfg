SPECIFICATION SearchSpec
CONSTANTS
    None = None
    none = none
    errors = errors
    Query = {none, errors}
    EmptyQuery = none
    Relative = {"1h"}
    Size = {20, 50}
    StoredSize = 20
    MaxPage = 3
    MaxDirect = 1
    MaxRequests = 4
INVARIANTS
    LiveKeepsPolling
    TimerOnlyWhileIdle
    RowsOfTheQuery
    HistogramOfTheQuery
    DeepPageHasItsCursor
PROPERTIES
    RowsNeverGoBack
CHECK_DEADLOCK FALSE
