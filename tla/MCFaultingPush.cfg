CONSTANTS
    PageSize = 2
    Size = 8
    ByteValues = 16
    Programs <- PushPrograms
    Contents <- MCContents
    ZeroPages <- MCZeroPages
SPECIFICATION Spec
INVARIANT RestartsAreTransparent
CHECK_DEADLOCK FALSE
