\* A line with accents, cut by a crash.
CONSTANTS
    a1 = a1
    a2 = a2
    a3 = a3
    a4 = a4
    Torn = Torn
    Garbled = Garbled
    Alerts = {a1, a2}
    FiringAlerts = {a1}
    AccentedAlerts = {a1, a2}
    Capacity = 3
    FileMax = 1
    MaxClock = 1
    MaxBoots = 1
    MaxFaults = 1
SPECIFICATION Spec
INVARIANTS
    StartsAgain
CHECK_DEADLOCK FALSE
