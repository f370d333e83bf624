\* A RESOLVED dropped by the cap.
CONSTANTS
    s1 = s1
    s2 = s2
    alert = alert
    spike = spike
    probe = probe
    NoMark = NoMark
    Idle = Idle
    Senders = {s1}
    NumChannels = 1
    Fingerprints = {alert}
    Messages <- AlertMessages
    Accepts <- MCAccepts
    DailyCap = 1
    RepeatInterval = 3
    RememberSent = 4
    QuietStart = 1
    QuietEnd = 0
    MaxClock = 2
    DayOf <- MCDayOf
    LocalOf <- MCLocalOf
    Durable = TRUE
    DiskMayFail = FALSE
    LegacyFps = {}
    MaxCalls = 3
    MaxRestarts = 0
    MaxCancels = 0
SPECIFICATION Spec
PROPERTIES
    ResolvedErasesMark
CHECK_DEADLOCK FALSE
