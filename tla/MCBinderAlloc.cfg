SPECIFICATION Spec
CONSTANTS
    ARENA_MIN = 64
    ARENA_MAX = 128
    PAGE_SIZE = 64
    ArenaSizes = {32, 64, 100, 128, 192}
    Addr = 64
    ADDRESS_LIMIT = 512
    Sizes = {0, 20, 40}
    MaxAsync = 80
INVARIANTS TypeOK Tiling NoFalseRefusal LookupExact AsyncNeverLost
PROPERTY ImplementsArena
