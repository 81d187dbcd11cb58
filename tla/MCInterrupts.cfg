CONSTANTS
    BatchLen = 4
    PollEvery = 2
    TickGap = 5
    MaxEvents = 3
    Program = {"work", "hlt", "cli", "sti", "fpu", "fnclex"}
    Hooked = {"nic", "uart", "sb", "ferr"}
    Masked = {}
SPECIFICATION Spec
  
PROPERTIES EveryoneIsServed
CHECK_DEADLOCK FALSE
