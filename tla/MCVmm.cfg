SPECIFICATION VmmSpec
CONSTANTS
    UINT32_MAX = 127
    PAGE_SIZE = 4
    ENTRIES = 5
    IDENTITY_END = 20
    HEAP_START = 20
    HEAP_END = 40
    MAPPING_START = 40
    MAPPING_END = 80
    IDENTITY_TABLE = 4
    MUTABLE_TABLES <- Slots
    VAddrs <- CallerPages
    PAddrs <- CallerFrames
INVARIANTS
    TablesIntact
    NoStaleTranslation
PROPERTIES
    ImplementsPageMap
