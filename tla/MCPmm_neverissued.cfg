CONSTANTS
    FrameMaps <- IrregularMaps
    UINT64_MAX = 15
    FRAME_SIZE = 2
    POLICY_MIN_ADDR = 2
    MAX_PENDING_FREE = 2
SPECIFICATION PmmSpec
INVARIANTS NeverIssuedFreeRejected

CHECK_DEADLOCK TRUE
