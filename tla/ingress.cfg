\* One alert that flaps: a queue of two, one task at a time, and a restart.
CONSTANTS
    fire1 = fire1
    fire2 = fire2
    fire3 = fire3
    clear1 = clear1
    clear2 = clear2
    other = other
    disk_full = disk_full
    cpu = cpu
    NoMark = NoMark
    Idle = Idle
    Nobody = Nobody
    Alerts = {fire1,fire2,clear1,clear2}
    Senders = {fire1,fire2,clear1,clear2}
    SignalOf <- MCSignalOf
    QueueMax = 2
    MaxConcurrent = 1
    NumChannels = 1
    Fingerprints = {disk_full, cpu}
    Messages <- MCMessages
    Accepts <- MCAccepts
    DailyCap = 3
    RepeatInterval = 1
    RememberSent = 2
    QuietStart = 0
    QuietEnd = 0
    MaxClock = 2
    DayOf <- MCDayOf
    LocalOf <- MCLocalOf
    Durable = TRUE
    DiskMayFail = FALSE
    LegacyFps = {}
    MaxCalls = 4
    MaxRestarts = 1
    MaxCancels = 0
SPECIFICATION IngressSpec
INVARIANTS
    IngressTypeOK
    CloseFollowsFiring
PROPERTIES
    IngressIsInbox
CHECK_DEADLOCK FALSE
