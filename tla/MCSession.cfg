CONSTANTS
    MaxStarts = 5
    Patient = TRUE
    MaxSessions = 2
    MaxWrites = 1
    Patience = 2
SPECIFICATION MCSpec
INVARIANTS  StopIsSafe OneDosBox
PROPERTY EveryEndingEnds
CHECK_DEADLOCK FALSE
