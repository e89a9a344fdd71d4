CONSTANTS
    UINT32_MAX = 47
    UINT64_MAX = 63
    MaxTaken = 4
    FrameMaps <- TwoMaps
    POLICY_MIN_ADDR = 8
    MAX_PENDING_FREE = 1
    PAGE_SIZE = 4
    ENTRIES = 3
    IDENTITY_END = 12
    HEAP_START = 12
    HEAP_END = 24
    MAPPING_START = 24
    MAPPING_END = 36
    IDENTITY_TABLE = 0
    MUTABLE_TABLES <- TablePages
    HEADER_SIZE = 2
    MIN_ALIGNMENT = 2
    Sizes = {2, 5}
    Pointers <- BlockPointers
    FRAME_SIZE = 4
    CallerPages = {24}
    CallerFrames = {20}
    VAddrs <- HeapAndCallerPages
    PAddrs <- LowFrameAddresses
SPECIFICATION StackSpec
INVARIANTS HeapPagesBacked BlocksOwnTheirBytes LostFramesAreHigh
PROPERTIES FailsOnlyWithoutLowFrame StackMakesProgress
