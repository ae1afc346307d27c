SPECIFICATION Spec
CONSTANTS
    Cell <- Bytes
    Byte = 2
    MaxCookie = 3
    BlockSize = 3
    MaxCells = 10
    Scalar <- Scalars
    MaxDepth = 1
    MaxArray = 2
    MaxItems = 6
INVARIANTS
    BlocksTypeOK
    CopyStaysInChain
    BlocksAreGivenBack
    ReadAsWritten
    OnlyWholeValues
    ReaderNestsNoDeeper
    BufferHoldsTheItems
