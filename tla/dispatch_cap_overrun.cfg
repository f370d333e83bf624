\* A slow channel and a burst: the notice is not the last message of the day.
CONSTANTS
    s1 = s1
    s2 = s2
    alert = alert
    spike = spike
    probe = probe
    NoMark = NoMark
    Idle = Idle
    Senders = {s1, s2}
    NumChannels = 1
    Fingerprints = {alert, spike, probe}
    Messages <- BurstMessages
    Accepts <- MCAccepts
    DailyCap = 2
    RepeatInterval = 2
    RememberSent = 3
    QuietStart = 1
    QuietEnd = 0
    MaxClock = 0
    DayOf <- MCDayOf
    LocalOf <- MCLocalOf
    Durable = TRUE
    DiskMayFail = FALSE
    LegacyFps = {}
    MaxCalls = 5
    MaxRestarts = 0
    MaxCancels = 0
SPECIFICATION Spec
PROPERTIES
    NoticeIsLast
CHECK_DEADLOCK FALSE
