\* Four alerts, a ring of two, files of up to two lines, a restart and two bad writes.
CONSTANTS
    a1 = a1
    a2 = a2
    a3 = a3
    a4 = a4
    Torn = Torn
    Garbled = Garbled
    Alerts = {a1, a2, a3, a4}
    FiringAlerts = {a1, a3}
    AccentedAlerts = {}
    Capacity = 2
    FileMax = 1
    MaxClock = 2
    MaxBoots = 1
    MaxFaults = 2
SPECIFICATION Spec
SYMMETRY Alike
INVARIANTS
    TypeOK
    PendingIsInFlight
    RecentSinceBoot
PROPERTIES
    FileIsJournal
CHECK_DEADLOCK FALSE
