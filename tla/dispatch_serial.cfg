\* One call of send at a time: the whole policy, with restarts.
CONSTANTS
    s1 = s1
    s2 = s2
    alert = alert
    spike = spike
    probe = probe
    NoMark = NoMark
    Idle = Idle
    Senders = {s1}
    NumChannels = 2
    Fingerprints = {alert, spike, probe}
    Messages <- MCMessages
    Accepts <- MCAccepts
    DailyCap = 2
    RepeatInterval = 2
    RememberSent = 3
    QuietStart = 1
    QuietEnd = 0
    MaxClock = 3
    DayOf <- MCDayOf
    LocalOf <- MCLocalOf
    Durable = TRUE
    DiskMayFail = FALSE
    LegacyFps = {probe}
    MaxCalls = 5
    MaxRestarts = 1
    MaxCancels = 0
SPECIFICATION Spec
INVARIANTS
    CapHolds
    Durability
    MarksAreOpenFirings
PROPERTIES
    NoticeIsLast
    NoRepeat
    FileIsLedger
CHECK_DEADLOCK FALSE
