CONSTANTS
    UINT64_MAX = 31
    FRAME_SIZE = 4
    POLICY_MIN_ADDR = 8
    MAX_REGIONS = 2
    MAX_RANGES = 2
    KERNEL_PHYS_START = 13
    KERNEL_PHYS_END = 18
    UINT32_MAX = 127
    INFO_ADDR = 8
    TotalSizes = {4, 24, 48, 112, 125}
    TagSet <- Tags
    EntrySet <- MmapEntries
    MAX_READS = 3
    FrameMaps = {}
    MAX_PENDING_FREE = 1
SPECIFICATION BringUpSpec
INVARIANTS ParseInBounds RangesExact IssuedFramesUsable RemainingIsUsable
PROPERTIES ParseMakesProgress FailsOnlyWhenAllHeld
