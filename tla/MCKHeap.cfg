CONSTANTS
    HEAP_START = 8
    HEAP_END = 32
    HEADER_SIZE = 4
    MIN_ALIGNMENT = 2
    PAGE_SIZE = 8
    UINT32_MAX = 63
    Sizes = {0, 1, 2, 4, 7, 62, 63}
    Pointers <- CallerPointers
SPECIFICATION HeapSpec
INVARIANTS HeapIntact
PROPERTIES FirstFit CallReturns CallMakesProgress ImplementsContract
CHECK_DEADLOCK TRUE
