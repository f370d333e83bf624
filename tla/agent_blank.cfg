\* The model answers with nothing.
CONSTANTS
    Tools <- OneTool
    Invented <- MadeUp
    MaxCalls = 1
    MaxSteps = 1
    MaxSeconds = 1
    MaxClock = 1
SPECIFICATION Spec
INVARIANTS
    NoBlankTurn
CHECK_DEADLOCK FALSE
