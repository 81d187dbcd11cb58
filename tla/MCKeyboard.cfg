CONSTANTS
    RingSize = 3
    HwSize = 3
    PollThreshold = 2
    BatchLen = 2
    TickGap = 1
    MaxPresses = 3
    FirstWord = 2
    TypedAhead = 1
    Program = {"read", "check", "int", "cli", "sti", "hlt"}
    Hooked = {"timer", "kbd"}
    Masked = {}
SPECIFICATION Spec
INVARIANTS  NoLostWakeup
PROPERTIES KeysAreAFifo KeyIsRead
CHECK_DEADLOCK FALSE
