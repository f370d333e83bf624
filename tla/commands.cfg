\* Many configuration files, two starts of the server, two commands.
CONSTANTS
    None = None
    All = All
    Files <- MCFiles
    Spikes = {"monday"}
    MaxRuns = 2
    MaxBoots = 2
SPECIFICATION CommandsSpec
INVARIANTS
    CommandsTypeOK
    AcceptedIsRouted
    NothingForgotten
PROPERTIES
    DetectorKeepsRunning
CHECK_DEADLOCK FALSE
