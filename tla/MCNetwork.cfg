CONSTANTS
    Frame = {u, v}
    Long = {v}
    PageSize = 2
    BufStart = 2
    DefStart = 3
    MemEnd = 7
    TxLimit = 1
    QueueLimit = 0
    TxPage = 2
    TxLengths = {1}
SPECIFICATION Spec
INVARIANTS NoPageLeaks SentIsUploaded
PROPERTIES FramesInOrder FramesAreRead
