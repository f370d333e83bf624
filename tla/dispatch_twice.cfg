\* Two runs of the detector at once.
CONSTANTS
    s1 = s1
    s2 = s2
    alert = alert
    spike = spike
    probe = probe
    NoMark = NoMark
    Idle = Idle
    Senders = {s1, s2}
    NumChannels = 1
    Fingerprints = {spike}
    Messages <- SpikeMessages
    Accepts <- MCAccepts
    DailyCap = 2
    RepeatInterval = 2
    RememberSent = 3
    QuietStart = 1
    QuietEnd = 0
    MaxClock = 1
    DayOf <- MCDayOf
    LocalOf <- MCLocalOf
    Durable = TRUE
    DiskMayFail = FALSE
    LegacyFps = {}
    MaxCalls = 3
    MaxRestarts = 0
    MaxCancels = 0
SPECIFICATION Spec
PROPERTIES
    NoRepeat
CHECK_DEADLOCK FALSE
