SPECIFICATION PSpec
CONSTANTS
    NULL = NULL
    ARENA_MIN = 64
    ARENA_MAX = 256
    PAGE_SIZE = 64
    ArenaSizes = {128, 192}
    Addr = 256
    ADDRESS_LIMIT = 1024
    Sizes = {}
    MaxAsync = 112
    Parcels <- SmallParcels
    Extras = {14, 24}
    Mapped <- SenderMemory
    Pid = 3
    Words = {9}
    TakesFds = TRUE
    BINDER_MAX_TRANSACTION_SIZE = 200
    WORD = 1024
INVARIANTS CopiesApart PointersResolve CopyoutFits UndoExact
