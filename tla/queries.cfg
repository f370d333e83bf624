\* Every tool over a backend of up to five names, cut at three.
CONSTANTS
    NaN = NaN
    Inf = Inf
    Malformed = Malformed
    None = None
    MaxSeries = 3
    MaxPoints = 20
    MaxRange = 2678400
    MaxRaw = 2
    MaxDetailed = 2
    MaxListed = 2
    MaxValues = 2
    HasLog = TRUE
    Requests <- MCRequests
    Contents <- MCContents
    Matching <- MCMatching
    Steps <- MCSteps
SPECIFICATION QueriesSpec
INVARIANTS
    QueriesTypeOK
    BackendIsSpared
    SummaryIsHonest
    NothingIsHidden
