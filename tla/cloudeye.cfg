\* Two coroutines over one cache, resources that come and go, CES that may hang.
CONSTANTS
    c1 = c1
    c2 = c2
    None = None
    MaxSeries = 3
    MaxPoints = 20
    MaxRange = 100
    Callers = {c1, c2}
    Resources = {1, 2, 3, 4, 5}
    Volatile = {2}
    MetricOf <- MCMetricOf
    Reach <- MCReach
    Calls <- MCCalls
    PageSize = 2
    MaxPages = 2
    BatchSize = 2
    Ttl = 1
    Timeout = 1
    Histories = {1, 2, 3}
    Ringing = {2, 3}
    MaxHistories = 3
    KnowsStatus = FALSE
SPECIFICATION CloudEyeSpec
INVARIANTS
    CloudEyeTypeOK
    ListIsSound
    PartIsMarked
    InstantIsNewest
    AlarmsAreRinging
PROPERTIES
    EveryCallEnds
