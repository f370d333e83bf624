\* Two rounds of up to two tools, and a name that the model made up.
CONSTANTS
    Tools <- TwoTools
    Invented <- MadeUp
    MaxCalls = 2
    MaxSteps = 2
    MaxSeconds = 1
    MaxClock = 3
SPECIFICATION Spec
INVARIANTS
    TypeOK
    AuditIsFaithful
    OneLateRound
    CutTurnSpeaks
PROPERTIES
    LoopIsDialogue
CHECK_DEADLOCK FALSE
