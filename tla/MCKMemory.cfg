CONSTANTS
    MEMORY_SIZE = 5
    BYTE_COUNT = 2
    Values = {0, 3}
SPECIFICATION Spec
INVARIANTS OnlyDestinationWritten CopiesSource CompareFirstDifference
