CONSTANTS
    PageSize = 2
    Size = 8
    ByteValues = 16
    Programs <- MCPrograms
    Contents <- MCContents
    ZeroPages <- MCZeroPages
    P = 4
    Bias = 3
    Adjust = 6
    ShiftCap = 6
    ScaleCap = 8
    Exponents = {0, 1, 2, 4, 6, 7}
    Precisions = {2, 4}
    NarrowBits = 1
    NarrowBias = 1
    Scaling = 6
    Byte = 3
    Nib = 2
    Base = 3
    Depth = 2
    Masks <- MCMasks
    Images <- MCImages
SPECIFICATION Spec
INVARIANTS RestartsAreTransparent RoundsCorrectly IntegersAreRight SavedStateComesBack
PROPERTIES Completes StackFaultsAreIndefinite
CHECK_DEADLOCK FALSE
