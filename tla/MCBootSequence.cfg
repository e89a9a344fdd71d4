CONSTANTS
    UINT32_MAX = 536870911
    UINT64_MAX = 1073741823
    MaxTaken = 4
    FrameMaps <- BootMaps
    POLICY_MIN_ADDR = 1048576
    MAX_PENDING_FREE = 64
    PAGE_SIZE = 4096
    ENTRIES = 1024
    IDENTITY_END = 4194304
    HEAP_START = 4194304
    HEAP_END = 8388608
    MAPPING_START = 8388608
    MAPPING_END = 16777216
    IDENTITY_TABLE = 1110016
    MUTABLE_TABLES <- TablePages
    HEADER_SIZE = 16
    MIN_ALIGNMENT = 8
    Sizes = {}
    Pointers = {}
    FRAME_SIZE = 4096
    CallerPages = {}
    CallerFrames = {}
    VAddrs <- WindowPages
    PAddrs <- LowFrameAddresses
SPECIFICATION BootSpec
INVARIANTS SelfChecksPass NoFreedNodeUsed
PROPERTY BootEnds
