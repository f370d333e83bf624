\* Two alerts that end in the other order, and a restart.
CONSTANTS
    a1 = a1
    a2 = a2
    a3 = a3
    a4 = a4
    Torn = Torn
    Garbled = Garbled
    Alerts = {a1, a2}
    FiringAlerts = {a1}
    AccentedAlerts = {}
    Capacity = 3
    FileMax = 1
    MaxClock = 2
    MaxBoots = 1
    MaxFaults = 0
SPECIFICATION Spec
INVARIANTS
    RecentIsComplete
CHECK_DEADLOCK FALSE
