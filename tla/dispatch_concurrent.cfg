\* Two calls of send interleaved at their awaits, across midnight, with a restart, a cancellation and a disk that may fail.
CONSTANTS
    s1 = s1
    s2 = s2
    alert = alert
    spike = spike
    probe = probe
    NoMark = NoMark
    Idle = Idle
    Senders = {s1, s2}
    NumChannels = 2
    Fingerprints = {alert, probe}
    Messages <- ConcurrentMessages
    Accepts <- MCAccepts
    DailyCap = 1
    RepeatInterval = 2
    RememberSent = 3
    QuietStart = 1
    QuietEnd = 0
    MaxClock = 3
    DayOf <- MCDayOf
    LocalOf <- MCLocalOf
    Durable = TRUE
    DiskMayFail = TRUE
    LegacyFps = {probe}
    MaxCalls = 3
    MaxRestarts = 1
    MaxCancels = 1
SPECIFICATION Spec
SYMMETRY SenderSymmetry
INVARIANTS
    TypeOK
    NeverCutEarly
    ResolvedOnlyToWitnesses
CHECK_DEADLOCK FALSE
