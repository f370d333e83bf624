\* A RESOLVED still being delivered when its alert fires again.
CONSTANTS
    fire1 = fire1
    fire2 = fire2
    fire3 = fire3
    clear1 = clear1
    clear2 = clear2
    other = other
    disk_full = disk_full
    cpu = cpu
    NoMark = NoMark
    Idle = Idle
    Nobody = Nobody
    Alerts = {fire1,fire2,clear1,clear2}
    Senders = {fire1,fire2,clear1,clear2}
    SignalOf <- MCSignalOf
    QueueMax = 5
    MaxConcurrent = 2
    NumChannels = 1
    Fingerprints = {disk_full, cpu}
    Messages <- MCMessages
    Accepts <- MCAccepts
    DailyCap = 9
    RepeatInterval = 1
    RememberSent = 3
    QuietStart = 0
    QuietEnd = 0
    MaxClock = 1
    DayOf <- MCDayOf
    LocalOf <- MCLocalOf
    Durable = TRUE
    DiskMayFail = FALSE
    LegacyFps = {}
    MaxCalls = 4
    MaxRestarts = 0
    MaxCancels = 0
SPECIFICATION IngressSpec
INVARIANTS
    EveryFiringIsClosed
CHECK_DEADLOCK FALSE
