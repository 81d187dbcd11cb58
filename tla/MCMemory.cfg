CONSTANTS
    MemSize = 15
    XmsStart = 2
    XmsHandles = 2
    XmsSizes = {0, 1, 5}
    DpmiStart = 4
    HostArea = 4
    Page = 2
    Word = 64
    MemBlocks = 2
    DpmiSizes = {0, 1, 3}
    MaxHandle = 3
    Depth = 2
    Stacks = 1
    Vectors = {"v21"}
    Canary = "v21"
    ClientStores <- Parts
    LdtMax = 4
    SegMapMax = 1
    DosMax = 1
    RawMax = 63
    LimitPage = 4
    Segments = {1}
    DosSegments = {4}
    Sizes = {1}
    Bases = {16}
    Limits = {65}
    Rights <- MCRights
    MaxChanges = 1
    Nesting = 1
    Table <- MCTable
    Idts <- MCIdts
    Tasks <- MCTasks
    Calls <- MCCalls
    Jumps <- MCJumps
    Loads <- MCLoads
    SoftwareInts <- MCInts
    Returns <- MCReturns
    Iopl = 0
    Words = 14
    Transfers = 2
SPECIFICATION MCSpec
INVARIANTS OneOwner  SelectorsAgree LevelsAndTasksAgree
PROPERTIES IsAnAllocator ReturnsRestore 
CHECK_DEADLOCK FALSE
