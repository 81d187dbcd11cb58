CONSTANTS
    MaxSessions = 1
    MaxWrites = 1
    Patience = 2
SPECIFICATION BoxSpec
PROPERTY SavesAreFresh
CHECK_DEADLOCK FALSE
