CONSTANTS
    Frame = {f1, f2}
    Silence = f1
    Cap = 4
    Modulus = 8
    Target = 4
    MaxChunk = 3
    Byte = 2
    FIFO_SZ = 3
    Commands = {"E0", "E1", "D8", "D1", "D4", "D0", "DA", "F2", "14", "C4"}
    Buffers <- MCBuffers
    Used = {"dma8"}
    One = 2
    Steps = {1, 3}
    MaxFrames = 2
    MaxPlayed = 5
    Floppies = {"a"}
    HardDisks = {"c"}
    CdRoms = {"cd"}
    Images <- MCImages
    FloppyGeometry <- MCFloppy
    OtherFloppy <- MCOther
    HdHeads = 2
    HdSpt = 2
    MaxCyls = 2
    CylByte = 2
    Signed <- MCSigned
    Places <- MCPlaces
    Lbas = {0, 3}
    Counts = {0, 2}
    Addresses = {0, 1}
    MemoryCells = 6
    MaxCalls = 2
    Widths = {2, 3}
    Rows = 3
    NPages = 2
    Attrs = {1}
    Normal = 7
    Keep = 255
    Banner <- MCBanner
    Typing = {"p", "BEL", "BS", "LF", "CR"}
    Strings <- MCStrings
    Runs = {1, 4}
    Windows <- MCWindows
    Spots <- MCSpots
    MaxShown = 3
    Bank = 4
    svga_vram_bytes = 8
    VesaModes <- MCModes
    Width13 = 2
    Height13 = 2
    Planes = 2
    Strides = {3, 4}
    Origins <- MCOrigins
    Dots <- MCDots
    Colours = {1}
    MaxDrawn = 6
    PortByte = 2
    Entries = 2
SPECIFICATION MCSpec
INVARIANTS DspInStep BlockEndMeansPlayed FrameShowsDrawing WholeSequencesWork
PROPERTIES RefillNeverClipped IsAFifo TransfersAreExact ScreenShowsText
CHECK_DEADLOCK FALSE
